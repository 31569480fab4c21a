---------------------------- MODULE MCConfigApply ----------------------------
(***************************************************************************)
(* One edit that compiles, one that does not (a domain twice in an         *)
(* allowlist), two calls at a time and four in all: two that overlap and   *)
(* two that meet what they left.  The calls are alike.                     *)
(***************************************************************************)
EXTENDS ConfigApply, TLC

Alike == Permutations(Actors)
=============================================================================
