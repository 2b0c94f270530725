------------------------------- MODULE MCRudp -------------------------------
(* Instances of Rudp for TLC.  A limit is JOIN_ACCEPT_ACK_MAX_ATTEMPTS (2) *)
(* for a join message, TOKEN_ACK_MAX_ATTEMPTS (0, no limit) for the token. *)
EXTENDS Rudp, TLC

CONSTANTS n1, n2, n3

To(n, limit) == [to |-> n, limit |-> limit]

(* Two nodes send to each other at once; the one has a second message to   *)
(* send, which it may give up.                                             *)
Mutual == (n1 :> <<To(n2, 0), To(n2, 2)>>) @@ (n2 :> <<To(n1, 0)>>)

(* n1 has the token for n2, to which a third node sends a join message and *)
(* which is sending one itself.                                            *)
TokenAndJoin == (n1 :> <<To(n2, 0)>>) @@ (n2 :> <<To(n1, 2)>>) @@ (n3 :> <<To(n2, 2)>>)

(* The answer of a coordinator, sent three times in a row, to a node that  *)
(* is sending itself and that is to have the token from a third one.       *)
ThreeInARow ==
    (n1 :> <<To(n2, 2), To(n2, 2), To(n2, 2)>>) @@ (n2 :> <<To(n3, 2)>>)
    @@ (n3 :> <<To(n2, 0)>>)

(* The same with a message less.                                           *)
TwoInARow ==
    (n1 :> <<To(n2, 2), To(n2, 2)>>) @@ (n2 :> <<To(n3, 2)>>) @@ (n3 :> <<To(n2, 0)>>)
=============================================================================
