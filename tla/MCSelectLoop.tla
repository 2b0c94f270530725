---------------------------- MODULE MCSelectLoop ----------------------------
(* An instance of SelectLoop for TLC, with short periods in the order of   *)
(* the code's: a request waits longer than an accept or an acknowledgement.*)
EXTENDS SelectLoop

CONSTANTS a, b

Periods  == [request |-> 2, accept |-> 1, ack |-> 1]
Attempts == [request |-> 2, accept |-> 2, ack |-> 2]
=============================================================================
