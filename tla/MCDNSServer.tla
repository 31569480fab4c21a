----------------------------- MODULE MCDNSServer -----------------------------
(***************************************************************************)
(* Two addresses, two workers, a queue of one, one TCP slot for two loops  *)
(* that may have a connection in hand, and two concurrent calls of         *)
(* Shutdown, as many as the repository's test of concurrent shutdowns      *)
(* needs.                                                                  *)
(***************************************************************************)
EXTENDS DNSServer
=============================================================================
