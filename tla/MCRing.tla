------------------------------- MODULE MCRing -------------------------------
(* Instances of Ring for TLC.  The configured ring and the messages users  *)
(* write are given here; the .cfg files choose among them.                 *)
EXTENDS Ring

CONSTANTS n1, n2, n3, j1

RingOfTwo   == <<n1, n2>>
RingOfThree == <<n1, n2, n3>>

NoMail == {}

(* A user in the ring writes to a node that is still to join.              *)
ToJoiner == {[from |-> n1, to |-> j1, id |-> 1]}

(* Two messages typed at one node.                                         *)
OneSender == {[from |-> n1, to |-> n2, id |-> 1], [from |-> n1, to |-> n2, id |-> 2]}

(* Request ids: a node's name and the number of its restarts.              *)
Ids == Node \X (0 .. MaxRestarts)
=============================================================================
