--------------------------- MODULE MCUpstreamPool ---------------------------
(***************************************************************************)
(* Two upstreams, thresholds one and two, one round of retries.  The       *)
(* second configuration drops an upstream that may be in use by a call in  *)
(* flight, or changes the threshold of one.                                *)
(***************************************************************************)
EXTENDS UpstreamPool

CONSTANTS a, b

U(id, threshold, interval) == [id |-> id, threshold |-> threshold, interval |-> interval]

MCIds == {a, b}
MCConfigs == {<<U(a, 2, 0), U(b, 0, 0)>>, <<U(b, 2, 0)>>}
=============================================================================
