---------------------------- MODULE MCJoinTable ----------------------------
(* Instances of JoinTable for TLC: three possible joiners; a may restart   *)
(* and draw a second request id in the first instance.                     *)
EXTENDS JoinTable, TLC

CONSTANTS a, b, c

IdsWithRestart == (a :> {1, 2}) @@ (b :> {3}) @@ (c :> {4}) @@ (Self :> {})

IdsOnce == (a :> {1}) @@ (b :> {3}) @@ (c :> {4}) @@ (Self :> {})
=============================================================================
