---------------------------- MODULE MCRequestPool ----------------------------
(***************************************************************************)
(* RequestPool for TLC: fewer threads and connections than requests.       *)
(***************************************************************************)
EXTENDS RequestPool

CONSTANTS c1, c2, c3
=============================================================================
