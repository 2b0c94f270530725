----------------------------- MODULE Transport -----------------------------
(***************************************************************************)
(* What a caller can see of a send over rudp.c.  A send to b succeeds when *)
(* b acknowledges the sender's bit.  If b has already consumed that bit, b *)
(* acknowledges and ignores the message (`dup').  A failed send leaves the *)
(* bit alone, so whether the next message is new to b depends on whether   *)
(* the failed one reached it.  That an old copy of a message is handed     *)
(* over after a younger message is not among the outcomes here, although   *)
(* rudp.c does it (Rudp, OutOfOrder).                                      *)
(***************************************************************************)
EXTENDS Integers

CONSTANT Faults

(* "lostAck"     a limited send may fail although it was delivered         *)
(* "sendError"   a send without a limit may fail before it is delivered    *)
(* "ackAckError" ... or after, on a repetition or on an ACK_ACK            *)
(* "ackedLost"   any send may succeed although its message is never handed *)
(*               over: a message that is put aside is acknowledged at once *)
(*               (rudp.c:433), and the read after a duplicate of another   *)
(*               message may throw it away (rudp.c:239); or the ACK is a   *)
(*               second one of an earlier message with the same bit        *)
TransportFaults == {"lostAck", "sendError", "ackAckError", "ackedLost"}

(* got: the receiver gets the message; lost: 1 if the send returns -1;     *)
(* dup: afterwards the receiver has consumed the sender's bit.             *)
Outcome(got, lost, d) == [got |-> got, lost |-> lost, dup |-> d]

(* The send returns 0.  Where the message has been thrown away, the bit of *)
(* the sender has moved on and that of the receiver has not.               *)
Success(d) ==
    {Outcome(~d, 0, FALSE)}
    \cup {o \in {Outcome(FALSE, 0, TRUE)} : ~d /\ "ackedLost" \in Faults}

(* unicast_send_limited with a limit on the attempts.                      *)
LimitedSend(d, left) ==
    Success(d)
    \cup {o \in {Outcome(FALSE, 1, d), Outcome(TRUE, 1, TRUE)} :
             left > 0 /\ (o.got => ~d /\ "lostAck" \in Faults)}

(* JOIN_ACK_ACK_SEND_COUNT sends in a row of one message.                  *)
ThreeSends(d, left) ==
    UNION {UNION {{Outcome(o1.got \/ o2.got \/ o3.got, o1.lost + o2.lost + o3.lost, o3.dup) :
                      o3 \in LimitedSend(o2.dup, left - o1.lost - o2.lost)} :
                  o2 \in LimitedSend(o1.dup, left - o1.lost)} :
           o1 \in LimitedSend(d, left)}

(* unicast_send_limited without a limit: it ends when the bit is           *)
(* acknowledged, or with an error of the socket or of the name lookup.     *)
TokenSend(d, left) ==
    Success(d)
    \cup {o \in {Outcome(FALSE, 1, d)} : left > 0 /\ "sendError" \in Faults}
    \cup {o \in {Outcome(~d, 1, TRUE)} : left > 0 /\ "ackAckError" \in Faults}

=============================================================================
