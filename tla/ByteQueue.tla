----------------------------- MODULE ByteQueue -----------------------------
(***************************************************************************)
(* What the serial driver promises of the bytes it receives: a queue that  *)
(* keeps the newest Capacity of them and loses the oldest ones when more   *)
(* arrive, and of which a read takes bytes from the front, in order.       *)
(***************************************************************************)
EXTENDS Naturals, Sequences

CONSTANTS
  Bytes,     \* values of a byte
  Capacity   \* the most bytes kept

VARIABLES
  queue,     \* the bytes kept, the oldest first
  result     \* what the last read returned

byteVars == <<queue, result>>

ByteInit == queue = <<>> /\ result = <<>>

Newest(s) ==
  IF Len(s) <= Capacity THEN s ELSE SubSeq(s, Len(s) - Capacity + 1, Len(s))

\* A word of four bytes arrives.
Arrive ==
  /\ \E w \in [1 .. 4 -> Bytes] : queue' = Newest(queue \o w)
  /\ UNCHANGED result

Read ==
  \E n \in 0 .. Len(queue) :
    /\ result' = SubSeq(queue, 1, n)
    /\ queue' = SubSeq(queue, n + 1, Len(queue))

ByteSpec == ByteInit /\ [][Arrive \/ Read]_byteVars
=============================================================================
