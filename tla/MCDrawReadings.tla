---------------------------- MODULE MCDrawReadings ----------------------------
(* Three draws of two lotteries for TLC.  Numbers go up to 2, so the lists    *)
(* hold every way to be refused: empty, out of range, repeated, too long.     *)
EXTENDS DrawReadings, TLC

CONSTANTS l1, l2

MCLists == {<<>>, <<0>>, <<1>>, <<2>>, <<1, 1>>, <<2, 1>>, <<3, 1>>}

\* l2 is registered as a game of two balls, l1 is not registered.
MCRegistered == l2 :> [count |-> 2, least |-> 1, most |-> 2]
=============================================================================
