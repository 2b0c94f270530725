------------------------------ MODULE Channel ------------------------------
(***************************************************************************)
(* What rudp.c promises to the ring, without frames and without bits: a    *)
(* node has one send under way at a time; the receiver may take its        *)
(* message and hand it to its loop; and what the send returns is one of    *)
(* the outcomes of module Transport.  The bits are the parities of two     *)
(* numbers: the sends that returned 0 and the messages that were taken.    *)
(*                                                                         *)
(* A send that returned 0 without effect (the fault "ackedLost") may have  *)
(* lost its message before or after it returned, or the message may still  *)
(* come: the acknowledgement was a late one, of an earlier message.        *)
(***************************************************************************)
EXTENDS Transport, Sequences, FiniteSets

CONSTANT Node

VARIABLES
    sent,      \* the sends that were started: [from, nr, to, limited]
    acked,     \* those that returned 0
    failed,    \* those that returned -1
    taken,     \* those whose message the receiver took and has kept
    handed     \* handed[n]: what the transport of n handed to its loop

vars == <<sent, acked, failed, taken, handed>>

Init ==
    /\ sent = {} /\ acked = {} /\ failed = {} /\ taken = {}
    /\ handed = [n \in Node |-> << >>]

Between(S, a, b) == {s \in S : s.from = a /\ s.to = b}

(* The bit after the sends of S from a to b.                               *)
Bit(S, a, b) == Cardinality(Between(S, a, b)) % 2

(* b has consumed the bit that a sends next.                               *)
Dup(a, b) == Bit(acked, a, b) # Bit(taken, a, b)

UnderWay(n) == {s \in sent \ (acked \cup failed) : s.from = n}

Handed(n) == {handed[n][i] : i \in 1 .. Len(handed[n])}

Outcomes(limited, d) == IF limited THEN LimitedSend(d, 1) ELSE TokenSend(d, 1)

NewSends(n) ==
    {[from |-> n, nr |-> Cardinality({s \in sent : s.from = n}) + 1, to |-> b,
      limited |-> l] : b \in Node, l \in BOOLEAN}

Start ==
    /\ UNCHANGED <<acked, failed, taken, handed>>
    /\ \E n \in Node :
          /\ UnderWay(n) = {}
          /\ \E s \in NewSends(n) : sent' = sent \cup {s}

(* The first sendto already fails.                                         *)
Refuse ==
    /\ UNCHANGED <<acked, taken, handed>>
    /\ \E n \in Node :
          /\ UnderWay(n) = {}
          /\ \E s \in NewSends(n) :
                /\ sent' = sent \cup {s} /\ failed' = failed \cup {s}
                /\ \E o \in Outcomes(s.limited, Dup(n, s.to)) : o.lost = 1 /\ ~o.got

(* The message that is being sent to b comes, and where messages are lost, *)
(* one that was sent before.                                               *)
Coming(b) ==
    {s \in sent \ taken : s.to = b /\ (s \in UnderWay(s.from) \/ "ackedLost" \in Faults)}

(* What b may still lose.                                                  *)
Losable(b) == {s \in taken \ Handed(b) : s.to = b /\ "ackedLost" \in Faults}

Before(S, s) == {t \in S : t.nr < s.nr}

(* Each message of S had the bit that its receiver was waiting for.        *)
InTurn(S) ==
    \A s \in S : Bit(Before(acked, s), s.from, s.to) = Bit(Before(S, s), s.from, s.to)

(* What b has taken and will hand over to its loop changes, and it may     *)
(* hand over one message at once.  A message is taken in its turn, and     *)
(* never after one that was sent later.                                    *)
Take ==
    /\ UNCHANGED <<sent, acked, failed>>
    /\ \E b \in Node :
          /\ taken' \in SUBSET (taken \cup Coming(b))
          /\ taken \ taken' \subseteq Losable(b)
          /\ \A s \in taken' \ taken, t \in Handed(b) : t.from = s.from => t.nr < s.nr
          /\ \/ handed' = handed
             \/ \E s \in taken' \ Handed(b) :
                   s.to = b /\ handed' = [handed EXCEPT ![b] = Append(@, s)]
    /\ InTurn(taken')

Return ==
    /\ UNCHANGED <<sent, taken, handed>>
    /\ \E s \in sent \ (acked \cup failed) :
          \E o \in Outcomes(s.limited, s \notin taken /\ Dup(s.from, s.to)) :
             /\ o.got = (s \in taken)
             /\ acked' = IF o.lost = 0 THEN acked \cup {s} ELSE acked
             /\ failed' = IF o.lost = 0 THEN failed ELSE failed \cup {s}
             /\ o.dup = Dup(s.from, s.to)'

Next == Start \/ Refuse \/ Take \/ Return

Spec == Init /\ [][Next]_vars

=============================================================================
