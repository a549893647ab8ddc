-------------------------- MODULE DebugUartProofs --------------------------
(***************************************************************************)
(* Theorems about DebugUart: its variables have their types, and so a read *)
(* returns only bytes that were received; no word is written to a full     *)
(* FIFO while transmissions end in time; and the ring buffer is the queue  *)
(* of ByteQueue while no word arrives during a read.                       *)
(***************************************************************************)
EXTENDS DebugUart, SequenceTheorems, TLAPS

-----------------------------------------------------------------------------
(* The invariants.                                                         *)

\* Either every position of the ring has been written, or it has not wrapped
\* yet, and what is left to take out lies below the tail; c bytes of the
\* count were taken out already.
Written(r, c) ==
  \/ \A p \in Positions : r.buf[p] \in Bytes
  \/ /\ r.Head + r.Size <= r.Tail + c
     /\ \A p \in Positions : p < r.Tail => r.buf[p] \in Bytes

\* SerialRead takes out no more than it saw.
ReaderFits ==
  IF pc = "read"
  THEN ToRead <= Available /\ Available <= ring.Size /\ Len(copied) <= ToRead
  ELSE copied = <<>> /\ ToRead = 0 /\ Available = 0

Writing == pc \in {"txReset", "txSpace", "txIssue", "txWait"}

TypeInv ==
  /\ TypeOK
  /\ Written(ring, Len(copied))
  /\ ReaderFits
  /\ Writing => Length > 0

\* A round begins with the command of the one before at its end and the FIFO
\* not full, and its wait is over when the FIFO is empty.
RoundInv ==
  /\ NoOverrun
  /\ pc # "txWait" => ~sending /\ ~cmdDone
  /\ pc = "txWait" /\ (cmdDone \/ TxComplete) => ~sending /\ txFifo = 0
  /\ pc = "txWait" => ~cmdDone \/ ~TxComplete
  /\ pc \in {"txSpace", "txIssue"} => ~TxComplete
  /\ pc \in {"txReset", "txSpace"} /\ AvailableTx # 0 => txFifo < TxFifoDepth
  /\ pc = "txIssue" => txFifo < TxFifoDepth

\* The tail is where the bytes left in the ring end, and before the ring is
\* set up there are none.
RingOK(r, c) == r.Tail = After(r.Head, r.Size - c)

RingInv ==
  /\ RingOK(ring, Len(copied))
  /\ pc = "read" => ring.Size = Available
  /\ InputBufferCapacity = 0 => ring.Size = 0
  /\ ~attached \/ pc \in {"setBuffer", "resetRing", "setCapacity"} => InputBufferCapacity = 0
  /\ pc \in {"resetRing", "setCapacity"} => attached

-----------------------------------------------------------------------------
(* The ring.                                                               *)

\* The position after one is that at distance one.
LEMMA AdvanceIs ==
  ASSUME NEW p \in Positions
  PROVE  /\ Advance(p) \in Positions
         /\ Advance(p) = After(p, 1)
         /\ Advance(p) = IF p = Capacity - 1 THEN 0 ELSE p + 1
<1>1. Capacity \in Nat \ {0}
  BY SizesAssumption
<1>2. p \in Nat /\ p < Capacity
  BY <1>1 DEF Positions
<1> QED  BY <1>1, <1>2 DEF Advance, After, Positions

\* Positions at a distance of less than the capacity are different ones.
LEMMA AfterIs ==
  ASSUME NEW p \in Positions, NEW n \in 0 .. Capacity
  PROVE  /\ After(p, n) \in Positions
         /\ n < Capacity => Advance(After(p, n)) = After(p, n + 1)
         /\ n > 0 => After(Advance(p), n - 1) = After(p, n)
         /\ \A m \in 0 .. Capacity : m < n /\ n - m < Capacity => After(p, m) # After(p, n)
         /\ After(p, 0) = p /\ After(p, Capacity) = p
<1>1. Capacity \in Nat \ {0}
  BY SizesAssumption
<1>2. p \in Nat /\ p < Capacity /\ n \in Nat /\ n <= Capacity
  BY <1>1 DEF Positions
<1>3. After(p, n) \in Positions
  BY <1>1, <1>2 DEF After, Positions
<1>4. n < Capacity => Advance(After(p, n)) = After(p, n + 1)
  BY <1>1, <1>2 DEF After, Advance
<1>5. n > 0 => After(Advance(p), n - 1) = After(p, n)
  BY <1>1, <1>2 DEF After, Advance
<1>6. \A m \in 0 .. Capacity : m < n /\ n - m < Capacity => After(p, m) # After(p, n)
  BY <1>1, <1>2 DEF After
<1>7. After(p, 0) = p /\ After(p, Capacity) = p
  BY <1>1, <1>2 DEF After
<1> QED  BY <1>3, <1>4, <1>5, <1>6, <1>7

\* One byte in the ring.
LEMMA PutIs ==
  ASSUME NEW r \in Rings, NEW byte \in Bytes
  PROVE  /\ Put(r, byte) \in Rings
         /\ Put(r, byte).buf[r.Tail] = byte
         /\ \A p \in Positions : p # r.Tail => Put(r, byte).buf[p] = r.buf[p]
         /\ Put(r, byte).Tail = Advance(r.Tail)
         /\ Put(r, byte).Size = IF r.Size < Capacity THEN r.Size + 1 ELSE r.Size
         /\ Put(r, byte).Head = IF r.Size < Capacity THEN r.Head ELSE Advance(r.Head)
<1>1. /\ r.buf \in [Positions -> Bytes \cup {None}] /\ r.Size \in 0 .. Capacity
      /\ r.Head \in Positions /\ r.Tail \in Positions
  BY DEF Rings
<1>2. Capacity \in Nat \ {0}
  BY SizesAssumption
<1>3. Advance(r.Tail) \in Positions /\ Advance(r.Head) \in Positions
  BY <1>1, AdvanceIs
<1>4. (IF r.Size < Capacity THEN r.Size + 1 ELSE r.Size) \in 0 .. Capacity
  BY <1>1, <1>2
<1>5. [r.buf EXCEPT ![r.Tail] = byte] \in [Positions -> Bytes \cup {None}]
  BY <1>1
<1>6. /\ [r.buf EXCEPT ![r.Tail] = byte][r.Tail] = byte
      /\ \A p \in Positions : p # r.Tail => [r.buf EXCEPT ![r.Tail] = byte][p] = r.buf[p]
  BY <1>1
<1> HIDE DEF Positions
<1>7. Put(r, byte) \in Rings
  BY <1>1, <1>3, <1>4, <1>5 DEF Put, Rings
<1> QED  BY <1>6, <1>7 DEF Put

\* One byte leaves what was written written.
LEMMA PutWritten ==
  ASSUME NEW r \in Rings, NEW byte \in Bytes, NEW c \in Nat, c <= r.Size, Written(r, c)
  PROVE  Written(Put(r, byte), c) /\ r.Size <= Put(r, byte).Size
<1> DEFINE q == Put(r, byte)
<1>1. /\ q \in Rings /\ q.buf[r.Tail] = byte
      /\ \A p \in Positions : p # r.Tail => q.buf[p] = r.buf[p]
      /\ q.Tail = Advance(r.Tail)
      /\ q.Size = IF r.Size < Capacity THEN r.Size + 1 ELSE r.Size
      /\ q.Head = IF r.Size < Capacity THEN r.Head ELSE Advance(r.Head)
  BY PutIs
<1> HIDE DEF q
<1>2. Capacity \in Nat \ {0}
  BY SizesAssumption
<1>3. r.Size \in 0 .. Capacity /\ r.Head \in 0 .. Capacity - 1 /\ r.Tail \in 0 .. Capacity - 1
  BY DEF Rings, Positions
<1>4. r.Size <= q.Size
  BY <1>1, <1>2, <1>3
<1>5. CASE \A p \in Positions : r.buf[p] \in Bytes
  <2>1. \A p \in Positions : q.buf[p] \in Bytes
    BY <1>1, <1>5
  <2> QED  BY <1>4, <2>1 DEF Written, q
<1>6. CASE /\ r.Head + r.Size <= r.Tail + c
           /\ \A p \in Positions : p < r.Tail => r.buf[p] \in Bytes
  <2>1. \A p \in Positions : p <= r.Tail => q.buf[p] \in Bytes
    BY <1>1, <1>3, <1>6 DEF Positions
  <2>2. CASE r.Tail = Capacity - 1
    <3>1. ASSUME NEW p \in Positions
          PROVE  q.buf[p] \in Bytes
      <4>1. p <= r.Tail
        BY <1>2, <2>2 DEF Positions
      <4> QED  BY <2>1, <4>1
    <3> QED  BY <1>4, <3>1 DEF Written, q
  <2>3. CASE r.Tail # Capacity - 1
    <3>1. q.Tail = r.Tail + 1
      BY <1>1, <1>3, <2>3, AdvanceIs DEF Positions
    <3>2. \A p \in Positions : p < q.Tail => q.buf[p] \in Bytes
      BY <1>3, <2>1, <3>1 DEF Positions
    <3>3. Advance(r.Head) <= r.Head + 1
      BY <1>2, <1>3, AdvanceIs DEF Positions
    <3>4. Advance(r.Head) \in Nat
      BY <1>3, AdvanceIs DEF Positions
    <3>5. q.Head + q.Size <= q.Tail + c
      BY <1>1, <1>2, <1>3, <1>6, <3>1, <3>3, <3>4
    <3> QED  BY <1>4, <3>2, <3>5 DEF Written, q
  <2> QED  BY <2>2, <2>3
<1> QED  BY <1>5, <1>6 DEF Written

\* A word of four.
LEMMA FillWritten ==
  ASSUME NEW r \in Rings, NEW w \in Words \cup {<<>>}, NEW c \in Nat, c <= r.Size, Written(r, c)
  PROVE  Fill(r, w) \in Rings /\ Written(Fill(r, w), c) /\ r.Size <= Fill(r, w).Size
<1>1. CASE ~(w # <<>> /\ attached /\ InputBufferCapacity # 0)
  <2>1. Fill(r, w) = r /\ r.Size \in Nat
    BY <1>1, SizesAssumption DEF Fill, Rings
  <2> QED  BY <2>1
<1>2. CASE w # <<>> /\ attached /\ InputBufferCapacity # 0
  <2> DEFINE r1 == Put(r, w[1])
             r2 == Put(r1, w[2])
             r3 == Put(r2, w[3])
             r4 == Put(r3, w[4])
  <2>1. w[1] \in Bytes /\ w[2] \in Bytes /\ w[3] \in Bytes /\ w[4] \in Bytes
    BY <1>2 DEF Words
  <2>2. \A q \in Rings : q.Size \in Nat
    BY SizesAssumption DEF Rings
  <2>3. r1 \in Rings /\ Written(r1, c) /\ r.Size <= r1.Size /\ c <= r1.Size
    <3>1. r1 \in Rings
      BY <2>1, <2>2, PutIs
    <3>2. Written(r1, c) /\ r.Size <= r1.Size
      BY <2>1, <2>2, PutWritten
    <3>3. c <= r1.Size
      <4>1. r1.Size \in Nat /\ r.Size \in Nat
        BY <2>2, <3>1
      <4> QED  BY <3>2, <4>1
    <3> QED  BY <3>1, <3>2, <3>3
  <2> HIDE DEF r1
  <2>4. r2 \in Rings /\ Written(r2, c) /\ r1.Size <= r2.Size /\ c <= r2.Size
    <3>1. r2 \in Rings
      BY <2>1, <2>2, <2>3, PutIs
    <3>2. Written(r2, c) /\ r1.Size <= r2.Size
      BY <2>1, <2>2, <2>3, PutWritten
    <3>3. c <= r2.Size
      <4>1. r2.Size \in Nat /\ r1.Size \in Nat
        BY <2>2, <3>1, <2>3
      <4> QED  BY <3>2, <4>1, <2>3
    <3> QED  BY <3>1, <3>2, <3>3
  <2> HIDE DEF r2
  <2>5. r3 \in Rings /\ Written(r3, c) /\ r2.Size <= r3.Size /\ c <= r3.Size
    <3>1. r3 \in Rings
      BY <2>1, <2>2, <2>4, PutIs
    <3>2. Written(r3, c) /\ r2.Size <= r3.Size
      BY <2>1, <2>2, <2>4, PutWritten
    <3>3. c <= r3.Size
      <4>1. r3.Size \in Nat /\ r2.Size \in Nat
        BY <2>2, <3>1, <2>4
      <4> QED  BY <3>2, <4>1, <2>4
    <3> QED  BY <3>1, <3>2, <3>3
  <2> HIDE DEF r3
  <2>6. r4 \in Rings /\ Written(r4, c) /\ r3.Size <= r4.Size /\ c <= r4.Size
    <3>1. r4 \in Rings
      BY <2>1, <2>2, <2>5, PutIs
    <3>2. Written(r4, c) /\ r3.Size <= r4.Size
      BY <2>1, <2>2, <2>5, PutWritten
    <3>3. c <= r4.Size
      <4>1. r4.Size \in Nat /\ r3.Size \in Nat
        BY <2>2, <3>1, <2>5
      <4> QED  BY <3>2, <4>1, <2>5
    <3> QED  BY <3>1, <3>2, <3>3
  <2> HIDE DEF r4
  <2>7. Fill(r, w) = r4
    BY <1>2 DEF Fill, r1, r2, r3, r4
  <2> QED  BY <2>2, <2>3, <2>4, <2>5, <2>6, <2>7
<1> QED  BY <1>1, <1>2

\* The head has a byte while something is left to take out.
LEMMA HeadWritten ==
  ASSUME NEW r \in Rings, NEW c \in Nat, c < r.Size, Written(r, c)
  PROVE  r.buf[r.Head] \in Bytes /\ Written([r EXCEPT !.Head = Advance(r.Head)], c + 1)
<1> DEFINE q == [r EXCEPT !.Head = Advance(r.Head)]
<1>1. q.buf = r.buf /\ q.Size = r.Size /\ q.Tail = r.Tail /\ q.Head = Advance(r.Head)
  BY DEF Rings
<1> HIDE DEF q
<1>2. Capacity \in Nat \ {0}
  BY SizesAssumption
<1>3. r.Size \in 0 .. Capacity /\ r.Head \in 0 .. Capacity - 1 /\ r.Tail \in 0 .. Capacity - 1
  BY DEF Rings, Positions
<1>4. CASE \A p \in Positions : r.buf[p] \in Bytes
  BY <1>1, <1>3, <1>4 DEF Written, Positions, q
<1>5. CASE /\ r.Head + r.Size <= r.Tail + c
           /\ \A p \in Positions : p < r.Tail => r.buf[p] \in Bytes
  <2>1. r.Head < r.Tail
    BY <1>3, <1>5
  <2>2. Advance(r.Head) = r.Head + 1
    BY <1>2, <1>3, <2>1, AdvanceIs DEF Positions
  <2>3. q.Head + q.Size <= q.Tail + (c + 1)
    BY <1>1, <1>3, <1>5, <2>2
  <2> QED  BY <1>1, <1>3, <1>5, <2>1, <2>3 DEF Written, Positions, q
<1> QED  BY <1>4, <1>5 DEF Written

-----------------------------------------------------------------------------
(* The variables have their types.                                         *)

\* TypeOK by the parts that change together.
RingTypeOK ==
  /\ ring \in Rings /\ attached \in BOOLEAN /\ InputBufferCapacity \in {0, Capacity}
PlaceOK ==
  pc \in {"register", "failed", "setBuffer", "resetRing", "setCapacity", "idle", "read",
          "txReset", "txSpace", "txIssue", "txWait"}
ReaderOK ==
  /\ Available \in 0 .. Capacity /\ ToRead \in 0 .. MaxRead
  /\ copied \in Seq(Bytes) /\ result \in Seq(Bytes)
WriterOK == Length \in (0 .. MaxWords) \cup (0 .. GreetingWords) /\ AvailableTx \in 0 .. TxFifoDepth
TxOK ==
  /\ TxComplete \in BOOLEAN /\ sending \in BOOLEAN /\ cmdDone \in BOOLEAN /\ overrun \in BOOLEAN
  /\ txFifo \in 0 .. TxFifoDepth

\* The parts make up the whole, before a step and after it.
LEMMA TypeParts ==
  /\ TypeOK <=> RingTypeOK /\ PlaceOK /\ ReaderOK /\ WriterOK /\ TxOK
  /\ TypeOK' <=> RingTypeOK' /\ PlaceOK' /\ ReaderOK' /\ WriterOK' /\ TxOK'
BY DEF TypeOK, RingTypeOK, PlaceOK, ReaderOK, WriterOK, TxOK

\* Variables left alone keep their types.
LEMMA Unchanged ==
  ASSUME TypeOK
  PROVE  /\ UNCHANGED rx => RingTypeOK'
         /\ UNCHANGED pc => PlaceOK'
         /\ UNCHANGED reader => ReaderOK'
         /\ UNCHANGED writer => WriterOK'
         /\ UNCHANGED tx => TxOK'
BY TypeParts DEF RingTypeOK, PlaceOK, ReaderOK, WriterOK, TxOK, rx, reader, writer, tx

\* A step that leaves the ring and the reader alone, and SerialRead's place,
\* leaves what they are about.
LEMMA ReaderLeft ==
  ASSUME TypeInv, UNCHANGED <<ring, reader>>, pc' = "read" <=> pc = "read"
  PROVE  Written(ring, Len(copied))' /\ ReaderFits'
BY DEF TypeInv, ReaderFits, Written, reader

\* The initial states have the types.
LEMMA TypeInvInit == Init => TypeInv
<1> SUFFICES ASSUME Init PROVE TypeInv
  OBVIOUS
<1>1. Capacity \in Nat \ {0} /\ MaxRead \in Nat /\ MaxWords \in Nat /\ TxFifoDepth \in Nat
  BY SizesAssumption
<1>2. RingTypeOK
  <2>1. [p \in Positions |-> None] \in [Positions -> Bytes \cup {None}]
    OBVIOUS
  <2>2. 0 \in Positions /\ 0 \in 0 .. Capacity
    BY <1>1 DEF Positions
  <2> HIDE DEF Positions
  <2> QED  BY <2>1, <2>2 DEF Init, RingTypeOK, Rings
<1>3. PlaceOK /\ WriterOK /\ TxOK
  <2>1. PlaceOK
    BY DEF Init, PlaceOK
  <2>2. WriterOK
    BY <1>1 DEF Init, WriterOK
  <2>3. TxOK
    BY DEF Init, TxOK
  <2> QED  BY <2>1, <2>2, <2>3
<1>4. ReaderOK /\ copied = <<>> /\ Len(copied) = 0
  BY <1>1, EmptySeq DEF Init, ReaderOK
<1>5. Written(ring, 0)
  BY DEF Init, Written
<1>6. ReaderFits /\ ~Writing
  BY DEF Init, ReaderFits, Writing
<1> QED  BY <1>2, <1>3, <1>4, <1>5, <1>6, TypeParts DEF TypeInv

\* Every step keeps the types.
LEMMA TypeInvNext == TypeInv /\ [Next]_vars => TypeInv'
<1> SUFFICES ASSUME TypeInv, [Next]_vars PROVE TypeInv'
  OBVIOUS
<1> USE DEF rx, reader, writer, tx
<1>1. /\ Capacity \in Nat \ {0} /\ MaxRead \in Nat \ {0} /\ MaxWords \in Nat \ {0}
      /\ TxFifoDepth \in Nat \ {0}
  BY SizesAssumption
<1>2. TypeOK /\ Written(ring, Len(copied)) /\ ReaderFits
  BY DEF TypeInv
<1>3. /\ ring \in Rings /\ ring.Size \in 0 .. Capacity /\ copied \in Seq(Bytes)
      /\ Len(copied) \in Nat /\ result \in Seq(Bytes)
      /\ Available \in 0 .. Capacity /\ ToRead \in 0 .. MaxRead
      /\ Length \in (0 .. MaxWords) \cup (0 .. GreetingWords) /\ txFifo \in 0 .. TxFifoDepth
      /\ AvailableTx \in 0 .. TxFifoDepth
  BY <1>2, LenProperties, TypeParts DEF RingTypeOK, ReaderOK, WriterOK, TxOK, Rings
<1>4. Len(copied) <= ring.Size
  BY <1>2, <1>3, EmptySeq DEF ReaderFits
<1>5. ASSUME NEW w \in Words \cup {<<>>}, MsmGeniSerialIsr(w)
      PROVE  TypeInv'
  <2>1. /\ ring' = Fill(ring, w)
        /\ UNCHANGED <<attached, InputBufferCapacity, pc, reader, writer, txFifo, sending, overrun>>
        /\ cmdDone' = FALSE /\ TxComplete' = (TxComplete \/ cmdDone)
    BY <1>5 DEF MsmGeniSerialIsr
  <2>2. Fill(ring, w) \in Rings /\ Written(Fill(ring, w), Len(copied)) /\ ring.Size <= Fill(ring, w).Size
    BY <1>2, <1>3, <1>4, FillWritten
  <2>3. RingTypeOK' /\ PlaceOK' /\ ReaderOK' /\ WriterOK' /\ TxOK'
    BY <1>2, <2>1, <2>2, Unchanged, TypeParts DEF RingTypeOK, TxOK
  <2>4. Written(ring, Len(copied))'
    BY <2>1, <2>2 DEF Written
  <2>5. Fill(ring, w).Size \in Nat
    BY <1>1, <2>2 DEF Rings
  <2>6. ReaderFits'
    BY <1>2, <1>3, <2>1, <2>2, <2>5 DEF ReaderFits
  <2> QED  BY <2>1, <2>3, <2>4, <2>6, TypeParts DEF TypeInv, Writing
<1>6. CASE Transmit
  <2>1. txFifo' \in 0 .. TxFifoDepth
    BY <1>1, <1>3, <1>6 DEF Transmit
  <2>2. TxComplete' \in BOOLEAN /\ sending' \in BOOLEAN /\ cmdDone' \in BOOLEAN /\ overrun' \in BOOLEAN
    BY <1>2, <1>6, TypeParts DEF Transmit, TxOK
  <2>3. TxOK'
    BY <2>1, <2>2 DEF TxOK
  <2> QED  BY <1>2, <1>6, <2>3, ReaderLeft, Unchanged, TypeParts DEF Transmit, TypeInv, Writing
<1>7. CASE TxReset \/ TxSpace \/ TxIssue
  <2>1. /\ pc \in {"txReset", "txSpace", "txIssue"} /\ pc' \in {"txSpace", "txIssue", "txWait"}
        /\ Length' = Length /\ UNCHANGED <<rx, reader>>
    BY <1>7 DEF TxReset, TxSpace, TxIssue
  <2>2. WriterOK'
    BY <1>1, <1>2, <1>3, <1>7, TypeParts DEF TxReset, TxSpace, TxIssue, WriterOK
  <2>3. TxOK'
    <3>1. txFifo' \in 0 .. TxFifoDepth
      BY <1>1, <1>3, <1>7 DEF TxReset, TxSpace, TxIssue
    <3>2. TxComplete' \in BOOLEAN /\ sending' \in BOOLEAN /\ cmdDone' \in BOOLEAN /\ overrun' \in BOOLEAN
      BY <1>2, <1>7, TypeParts DEF TxReset, TxSpace, TxIssue, TxOK
    <3> QED  BY <3>1, <3>2 DEF TxOK
  <2>4. PlaceOK'
    BY <2>1 DEF PlaceOK
  <2> QED  BY <1>2, <2>1, <2>2, <2>3, <2>4, ReaderLeft, Unchanged, TypeParts DEF TypeInv, Writing
<1>8. CASE TxDone
  <2>1. /\ pc = "txWait" /\ Length' = Length - 1 /\ AvailableTx' = AvailableTx
        /\ pc' = (IF Length > 1 THEN "txReset" ELSE IF attached THEN "idle" ELSE "setBuffer")
        /\ UNCHANGED <<rx, reader, tx>>
    BY <1>8 DEF TxDone
  <2>2. Length > 0
    BY <2>1 DEF TypeInv, Writing
  <2>3. WriterOK' /\ PlaceOK'
    <3>1. WriterOK'
      BY <1>1, <1>3, <2>1, <2>2 DEF WriterOK, GreetingWords
    <3>2. PlaceOK'
      BY <2>1 DEF PlaceOK
    <3> QED  BY <3>1, <3>2
  <2>4. Writing' => Length' > 0
    BY <1>3, <2>1 DEF Writing
  <2> QED  BY <1>2, <2>1, <2>3, <2>4, ReaderLeft, Unchanged, TypeParts DEF TypeInv
<1>9. ASSUME NEW n \in (1 .. MaxWords) \cup (1 .. GreetingWords), StartWrite(n), pc \in {"idle", "register"}, UNCHANGED <<rx, reader, tx>>
      PROVE  TypeInv'
  <2>1. Length' = n /\ AvailableTx' = TxFifoDepth - txFifo /\ pc' = "txReset"
    BY <1>9 DEF StartWrite
  <2>2. WriterOK' /\ PlaceOK' /\ Length' > 0
    BY <1>1, <1>3, <2>1 DEF WriterOK, PlaceOK
  <2> QED  BY <1>2, <1>9, <2>1, <2>2, ReaderLeft, Unchanged, TypeParts DEF TypeInv
<1>10. CASE CrDebugUartLibInit
  <2>1. GreetingWords \in 1 .. GreetingWords
    BY DEF GreetingWords
  <2> QED  BY <1>9, <1>10, <2>1 DEF CrDebugUartLibInit
<1>11. CASE \E n \in 1 .. MaxWords : SerialWrite(n)
  BY <1>9, <1>11 DEF SerialWrite
<1>12. CASE RegisterFails \/ SetInputBuffer \/ SetCapacity
  <2>1. /\ pc \in {"register", "setBuffer", "setCapacity"} /\ pc' \in {"failed", "resetRing", "idle"}
        /\ UNCHANGED <<ring, reader, writer, tx>>
    BY <1>12 DEF RegisterFails, SetInputBuffer, SetCapacity
  <2>2. RingTypeOK'
    BY <1>2, <1>12, TypeParts DEF RegisterFails, SetInputBuffer, SetCapacity, RingTypeOK
  <2>3. PlaceOK' /\ ~Writing'
    BY <2>1 DEF PlaceOK, Writing
  <2> QED  BY <1>2, <2>1, <2>2, <2>3, ReaderLeft, Unchanged, TypeParts DEF TypeInv
<1>13. CASE ResetRing
  <2>1. /\ pc = "resetRing" /\ pc' = "setCapacity"
        /\ ring' = [ring EXCEPT !.Size = 0, !.Head = 0, !.Tail = 0]
        /\ UNCHANGED <<attached, InputBufferCapacity, reader, writer, tx>>
    BY <1>13 DEF ResetRing
  <2>2. 0 \in Positions /\ 0 \in 0 .. Capacity
    BY <1>1 DEF Positions
  <2>3. ring' \in Rings /\ ring'.Size = 0 /\ ring'.Head = 0 /\ ring'.Tail = 0
    <3> HIDE DEF Positions
    <3> QED  BY <1>3, <2>1, <2>2 DEF Rings
  <2>4. RingTypeOK' /\ PlaceOK' /\ ~Writing'
    BY <1>2, <2>1, <2>3, TypeParts DEF RingTypeOK, PlaceOK, Writing
  <2>5. ReaderFits'
    BY <1>2, <2>1 DEF ReaderFits
  <2>6. Written(ring, Len(copied))'
    <3>1. copied' = copied /\ copied = <<>> /\ Len(copied) = 0
      BY <1>2, <2>1, EmptySeq DEF ReaderFits
    <3>2. \A p \in Positions : ~(p < 0)
      BY DEF Positions
    <3> QED  BY <2>3, <3>1, <3>2 DEF Written
  <2> QED  BY <1>2, <2>1, <2>4, <2>5, <2>6, Unchanged, TypeParts DEF TypeInv
<1>14. CASE ReadEmpty
  <2>1. /\ pc = "idle" /\ result' = <<>> /\ UNCHANGED <<rx, pc, Available, ToRead, copied, writer, tx>>
    BY <1>14 DEF ReadEmpty
  <2>2. ReaderOK'
    BY <1>3, <2>1, EmptySeq DEF ReaderOK
  <2>3. Written(ring, Len(copied))' /\ ReaderFits' /\ ~Writing'
    BY <1>2, <2>1 DEF Written, ReaderFits, Writing
  <2> QED  BY <1>2, <2>1, <2>2, <2>3, Unchanged, TypeParts DEF TypeInv
<1>15. ASSUME NEW n \in 1 .. MaxRead, ReadBegin(n)
       PROVE  TypeInv'
  <2>1. /\ pc = "idle" /\ pc' = "read" /\ Available' = ring.Size /\ ring.Size > 0
        /\ ToRead' = (IF n < ring.Size THEN n ELSE ring.Size)
        /\ UNCHANGED <<rx, copied, result, writer, tx>>
    BY <1>15 DEF ReadBegin
  <2>2. copied = <<>> /\ Len(copied) = 0
    BY <1>2, <2>1, EmptySeq DEF ReaderFits
  <2>3. ToRead' \in 0 .. MaxRead /\ ToRead' <= ring.Size
    BY <1>1, <1>3, <2>1
  <2>4. ReaderOK' /\ PlaceOK' /\ ~Writing'
    BY <1>3, <2>1, <2>3 DEF ReaderOK, PlaceOK, Writing
  <2>5. ReaderFits'
    BY <1>3, <2>1, <2>2, <2>3 DEF ReaderFits
  <2>6. Written(ring, Len(copied))'
    BY <1>2, <2>1 DEF Written
  <2> QED  BY <1>2, <2>1, <2>4, <2>5, <2>6, Unchanged, TypeParts DEF TypeInv
<1>16. CASE ReadByte
  <2>1. /\ pc = "read" /\ pc' = pc /\ Len(copied) < ToRead
        /\ copied' = Append(copied, ring.buf[ring.Head])
        /\ ring' = [ring EXCEPT !.Head = Advance(ring.Head)]
        /\ UNCHANGED <<attached, InputBufferCapacity, Available, ToRead, result, writer, tx>>
    BY <1>16 DEF ReadByte
  <2>2. ToRead <= Available /\ Available <= ring.Size
    BY <1>2, <2>1 DEF ReaderFits
  <2>3. Len(copied) < ring.Size
    BY <1>3, <2>1, <2>2
  <2>4. ring.buf[ring.Head] \in Bytes /\ Written(ring', Len(copied) + 1)
    BY <1>2, <1>3, <2>1, <2>3, HeadWritten
  <2>5. copied' \in Seq(Bytes) /\ Len(copied') = Len(copied) + 1
    BY <1>3, <2>1, <2>4, AppendProperties
  <2>6. ring' \in Rings /\ ring'.Size = ring.Size
    <3>1. ring.Head \in Positions
      BY <1>3 DEF Rings
    <3>2. Advance(ring.Head) \in Positions
      BY <3>1, AdvanceIs
    <3> HIDE DEF Positions
    <3> QED  BY <1>3, <2>1, <3>2 DEF Rings
  <2>7. RingTypeOK' /\ ReaderOK'
    BY <1>2, <1>3, <2>1, <2>5, <2>6, TypeParts DEF RingTypeOK, ReaderOK
  <2>8. ReaderFits'
    BY <1>3, <2>1, <2>2, <2>5, <2>6 DEF ReaderFits
  <2>9. Written(ring, Len(copied))'
    BY <2>4, <2>5 DEF Written
  <2> QED  BY <1>2, <2>1, <2>7, <2>8, <2>9, Unchanged, TypeParts DEF TypeInv, Writing
<1>17. CASE ReadEnd
  <2>1. /\ pc = "read" /\ pc' = "idle" /\ Len(copied) = ToRead
        /\ ring' = [ring EXCEPT !.Size = Available - ToRead]
        /\ result' = copied /\ copied' = <<>> /\ Available' = 0 /\ ToRead' = 0
        /\ UNCHANGED <<attached, InputBufferCapacity, writer, tx>>
    BY <1>17 DEF ReadEnd
  <2>2. ToRead <= Available /\ Available <= ring.Size
    BY <1>2, <2>1 DEF ReaderFits
  <2>3. /\ ring' \in Rings /\ ring'.Size = Available - ToRead /\ ring'.Head = ring.Head
        /\ ring'.Tail = ring.Tail /\ ring'.buf = ring.buf
    <3>1. Available - ToRead \in 0 .. Capacity
      BY <1>1, <1>3, <2>2
    <3> HIDE DEF Positions
    <3> QED  BY <1>3, <2>1, <3>1 DEF Rings
  <2>4. RingTypeOK' /\ ReaderOK' /\ PlaceOK' /\ ~Writing'
    BY <1>1, <1>2, <1>3, <2>1, <2>3, EmptySeq, TypeParts DEF RingTypeOK, ReaderOK, PlaceOK, Writing
  <2>5. ReaderFits'
    BY <2>1 DEF ReaderFits
  <2>6. Written(ring, Len(copied))'
    <3>1. Len(copied') = 0
      BY <2>1, EmptySeq
    <3>2. ring.Head \in Nat /\ ring.Tail \in Nat
      BY <1>1, <1>3 DEF Rings, Positions
    <3>3. ring.Head + ring.Size <= ring.Tail + Len(copied) =>
            ring.Head + (Available - ToRead) <= ring.Tail + 0
      <4>1. \A h, t, size, n, a, d \in Nat :
              h + size <= t + n /\ n = d /\ d <= a /\ a <= size => h + (a - d) <= t + 0
        OBVIOUS
      <4>2. ring.Size \in Nat /\ Available \in Nat /\ ToRead \in Nat /\ Len(copied) = ToRead
        BY <1>1, <1>3, <2>1
      <4> QED  BY <2>2, <3>2, <4>1, <4>2
    <3> QED  BY <1>2, <2>3, <3>1, <3>3 DEF Written
  <2> QED  BY <1>2, <2>1, <2>4, <2>5, <2>6, Unchanged, TypeParts DEF TypeInv
<1>18. CASE UNCHANGED vars
  BY <1>2, <1>18, ReaderLeft, Unchanged, TypeParts DEF TypeInv, Writing, vars
<1> QED
  BY <1>5, <1>6, <1>7, <1>8, <1>10, <1>11, <1>12, <1>13, <1>14, <1>15, <1>16, <1>17, <1>18
     DEF Next, Boot, WriteStep, ReadStep

\* Every variable keeps its type, whatever arrives and whenever: in particular
\* SerialRead returns bytes that were received, never one of a position of the
\* ring that was not written.
THEOREM UartTypeCorrect == Spec => []TypeOK
<1>1. Spec => []TypeInv
  BY TypeInvInit, TypeInvNext, PTL DEF Spec
<1>2. TypeInv => TypeOK
  BY DEF TypeInv
<1> QED  BY <1>1, <1>2, PTL

-----------------------------------------------------------------------------
(* A word is written only where there is space.                            *)

\* At first no transmission is under way.
LEMMA RoundInvInit == Init => RoundInv
BY DEF Init, RoundInv, NoOverrun

\* Every step keeps a transmission to its round, where each ends in time.
LEMMA RoundInvNext ==
  ASSUME ~TimeoutsHappen
  PROVE  TypeInv /\ RoundInv /\ [Next]_vars => RoundInv'
<1> SUFFICES ASSUME TypeInv, RoundInv, [Next]_vars PROVE RoundInv'
  OBVIOUS
<1> USE DEF rx, reader, writer, tx
<1>1. TxFifoDepth \in Nat \ {0} /\ txFifo \in 0 .. TxFifoDepth /\ AvailableTx \in 0 .. TxFifoDepth
  BY SizesAssumption, TypeParts DEF TypeInv, TxOK, WriterOK
<1>2. ASSUME NEW w \in Words \cup {<<>>}, MsmGeniSerialIsr(w)
      PROVE  RoundInv'
  <2>1. /\ cmdDone' = FALSE /\ TxComplete' = (TxComplete \/ cmdDone)
        /\ UNCHANGED <<pc, writer, txFifo, sending, overrun>>
    BY <1>2 DEF MsmGeniSerialIsr
  <2> QED  BY <2>1 DEF RoundInv, NoOverrun
<1>3. CASE Transmit
  <2>1. /\ txFifo > 0 /\ txFifo' = txFifo - 1 /\ UNCHANGED <<pc, writer, TxComplete, overrun>>
    BY <1>3 DEF Transmit
  <2>2. txFifo < TxFifoDepth => txFifo' < TxFifoDepth
    BY <1>1, <2>1
  <2>3. CASE sending /\ txFifo = 1
    <3>1. sending' = FALSE /\ cmdDone' = TRUE /\ txFifo' = 0 /\ pc = "txWait" /\ ~TxComplete
      BY <1>1, <1>3, <2>1, <2>3 DEF Transmit, RoundInv
    <3> QED  BY <2>1, <2>2, <3>1 DEF RoundInv, NoOverrun
  <2>4. CASE ~(sending /\ txFifo = 1)
    <3>1. UNCHANGED <<sending, cmdDone>>
      BY <1>3, <2>4 DEF Transmit
    <3>2. pc = "txWait" => ~cmdDone /\ ~TxComplete
      BY <1>1, <2>1 DEF RoundInv
    <3> QED  BY <2>1, <2>2, <3>1, <3>2 DEF RoundInv, NoOverrun
  <2> QED  BY <2>3, <2>4
<1>4. CASE TxReset
  <2>1. /\ pc = "txReset" /\ pc' = "txSpace" /\ TxComplete' = FALSE
        /\ UNCHANGED <<writer, txFifo, sending, cmdDone, overrun>>
    BY <1>4 DEF TxReset
  <2> QED  BY <2>1 DEF RoundInv, NoOverrun
<1>5. CASE TxSpace
  <2>1. pc = "txSpace" /\ UNCHANGED tx /\ ~sending /\ ~cmdDone
    BY <1>5 DEF TxSpace, RoundInv
  <2>2. CASE AvailableTx = 0
    <3>1. AvailableTx' = TxFifoDepth - txFifo /\ pc' = "txSpace"
      BY <1>5, <2>1, <2>2 DEF TxSpace
    <3>2. AvailableTx' # 0 => txFifo < TxFifoDepth
      BY <1>1, <3>1
    <3> QED  BY <2>1, <3>1, <3>2 DEF RoundInv, NoOverrun
  <2>3. CASE AvailableTx # 0
    <3>1. pc' = "txIssue" /\ txFifo < TxFifoDepth
      BY <1>5, <2>1, <2>3 DEF TxSpace, RoundInv
    <3> QED  BY <2>1, <3>1 DEF RoundInv, NoOverrun
  <2> QED  BY <2>2, <2>3
<1>6. CASE TxIssue
  <2>1. /\ pc = "txIssue" /\ pc' = "txWait" /\ sending' = TRUE
        /\ UNCHANGED <<writer, TxComplete, cmdDone>>
        /\ txFifo < TxFifoDepth /\ ~cmdDone /\ ~TxComplete
    BY <1>6 DEF TxIssue, RoundInv
  <2>2. overrun' = overrun
    BY <1>6, <2>1 DEF TxIssue
  <2> QED  BY <2>1, <2>2 DEF RoundInv, NoOverrun
<1>7. CASE TxDone
  <2>1. /\ pc = "txWait" /\ TxComplete /\ UNCHANGED <<AvailableTx, tx>>
        /\ pc' \in {"txReset", "idle", "setBuffer"}
    BY <1>7 DEF TxDone
  <2>2. txFifo = 0 /\ ~sending /\ ~cmdDone
    BY <2>1 DEF RoundInv
  <2> QED  BY <1>1, <2>1, <2>2 DEF RoundInv, NoOverrun
<1>8. ASSUME NEW n \in Nat, StartWrite(n), pc \in {"idle", "register"}, UNCHANGED tx
      PROVE  RoundInv'
  <2>1. AvailableTx' = TxFifoDepth - txFifo /\ pc' = "txReset" /\ ~sending /\ ~cmdDone
    BY <1>8 DEF StartWrite, RoundInv
  <2>2. AvailableTx' # 0 => txFifo < TxFifoDepth
    BY <1>1, <2>1
  <2> QED  BY <1>8, <2>1, <2>2 DEF RoundInv, NoOverrun
<1>9. CASE CrDebugUartLibInit \/ \E n \in 1 .. MaxWords : SerialWrite(n)
  <2>1. GreetingWords \in Nat
    BY DEF GreetingWords
  <2> QED  BY <1>1, <1>8, <1>9, <2>1 DEF CrDebugUartLibInit, SerialWrite
<1>10. ASSUME UNCHANGED <<writer, tx>>, pc \notin {"txReset", "txSpace", "txIssue", "txWait"},
              pc' \notin {"txReset", "txSpace", "txIssue", "txWait"}
       PROVE  RoundInv'
  BY <1>10 DEF RoundInv, NoOverrun
<1>11. CASE RegisterFails \/ SetInputBuffer \/ ResetRing \/ SetCapacity
  BY <1>10, <1>11 DEF RegisterFails, SetInputBuffer, ResetRing, SetCapacity
<1>12. CASE ReadEmpty \/ ReadStep \/ \E n \in 1 .. MaxRead : ReadBegin(n)
  BY <1>10, <1>12 DEF ReadEmpty, ReadStep, ReadByte, ReadEnd, ReadBegin
<1>13. CASE UNCHANGED vars
  BY <1>13 DEF RoundInv, NoOverrun, vars
<1> QED
  BY <1>2, <1>3, <1>4, <1>5, <1>6, <1>7, <1>9, <1>11, <1>12, <1>13 DEF Next, Boot, WriteStep

\* No word is written to a full FIFO, as long as every transmission ends within
\* its wait: the room is read once before the rounds, and each round but the
\* first begins with the FIFO empty.
THEOREM NeverOverrun ==
  ASSUME ~TimeoutsHappen
  PROVE  Spec => []NoOverrun
<1>1. TypeInv /\ RoundInv /\ [Next]_vars => RoundInv'
  BY RoundInvNext
<1>2. Spec => [](TypeInv /\ RoundInv)
  BY <1>1, TypeInvInit, TypeInvNext, RoundInvInit, PTL DEF Spec
<1>3. RoundInv => NoOverrun
  BY DEF RoundInv
<1> QED  BY <1>2, <1>3, PTL

-----------------------------------------------------------------------------
(* The ring is a queue.                                                    *)

\* What a ring holds, c bytes of its count being out already.
Held(r, c) == [n \in 1 .. r.Size - c |-> r.buf[After(r.Head, n - 1)]]

\* Everything left in a sound ring is a byte.
HoldsBytes(r, c) == \A n \in 1 .. r.Size - c : r.buf[After(r.Head, n - 1)] \in Bytes

\* The newest bytes of a sequence, by their places.
LEMMA NewestIs ==
  ASSUME NEW s \in Seq(Bytes)
  PROVE  /\ Queue!Newest(s) \in Seq(Bytes)
         /\ Len(Queue!Newest(s)) = IF Len(s) <= Capacity THEN Len(s) ELSE Capacity
         /\ \A n \in 1 .. Len(Queue!Newest(s)) :
              Queue!Newest(s)[n] = IF Len(s) <= Capacity THEN s[n] ELSE s[Len(s) - Capacity + n]
<1>1. Capacity \in Nat \ {0} /\ Len(s) \in Nat
  BY SizesAssumption, LenProperties
<1>2. CASE Len(s) <= Capacity
  <2>1. Queue!Newest(s) = s
    BY <1>2 DEF Queue!Newest
  <2> QED  BY <1>2, <2>1
<1>3. CASE ~(Len(s) <= Capacity)
  <2> DEFINE m == Len(s) - Capacity + 1
             t == SubSeq(s, m, Len(s))
  <2>1. Queue!Newest(s) = t
    BY <1>3 DEF Queue!Newest
  <2>2. m \in Nat /\ 1 <= m /\ m <= Len(s) /\ Len(s) - m + 1 = Capacity
    BY <1>1, <1>3
  <2>3. \A i \in m .. Len(s) : s[i] \in Bytes
    BY <1>1, <2>2, ElementOfSeq
  <2> HIDE DEF m
  <2>4. /\ t \in Seq(Bytes)
        /\ Len(t) = IF m <= Len(s) THEN Len(s) - m + 1 ELSE 0
        /\ \A i \in 1 .. Len(s) - m + 1 : t[i] = s[m + i - 1]
    BY <1>1, <2>2, <2>3, SubSeqProperties
  <2> HIDE DEF t
  <2>5. t \in Seq(Bytes) /\ Len(t) = Capacity /\ \A i \in 1 .. Capacity : t[i] = s[m + i - 1]
    BY <2>2, <2>4
  <2>6. \A i \in 1 .. Capacity : m + i - 1 = Len(s) - Capacity + i
    BY <1>1 DEF m
  <2> QED  BY <1>1, <1>3, <2>1, <2>5, <2>6
<1> QED  BY <1>2, <1>3

\* To keep the newest of a sequence, one may keep the newest of its beginning.
LEMMA NewestAppend ==
  ASSUME NEW s \in Seq(Bytes), NEW byte \in Bytes
  PROVE  Queue!Newest(Append(Queue!Newest(s), byte)) = Queue!Newest(Append(s, byte))
<1> DEFINE t == Queue!Newest(s)
           N == Len(s)
           a == Append(t, byte)
           b == Append(s, byte)
<1>1. Capacity \in Nat \ {0} /\ N \in Nat
  BY SizesAssumption, LenProperties
<1>2. /\ t \in Seq(Bytes)
      /\ Len(t) = IF N <= Capacity THEN N ELSE Capacity
      /\ \A n \in 1 .. Len(t) : t[n] = IF N <= Capacity THEN s[n] ELSE s[N - Capacity + n]
  BY NewestIs
<1> HIDE DEF t
<1>3. /\ a \in Seq(Bytes) /\ Len(a) = Len(t) + 1 /\ a[Len(t) + 1] = byte
      /\ \A n \in 1 .. Len(t) : a[n] = t[n]
  BY <1>2, AppendProperties
<1>4. /\ b \in Seq(Bytes) /\ Len(b) = N + 1 /\ b[N + 1] = byte
      /\ \A n \in 1 .. N : b[n] = s[n]
  BY AppendProperties
<1> HIDE DEF a, b
<1>5. CASE N <= Capacity
  <2>1. t = s
    BY <1>5 DEF t, Queue!Newest
  <2> QED  BY <2>1 DEF a, b, t
<1>6. CASE ~(N <= Capacity)
  <2> DEFINE x == Queue!Newest(a)
             y == Queue!Newest(b)
  <2>1. Len(a) = Capacity + 1 /\ Len(b) = N + 1 /\ ~(Len(a) <= Capacity) /\ ~(Len(b) <= Capacity)
    BY <1>1, <1>2, <1>3, <1>4, <1>6
  <2>2. /\ x \in Seq(Bytes) /\ Len(x) = Capacity
        /\ \A n \in 1 .. Len(x) : x[n] = a[Len(a) - Capacity + n]
    BY <1>3, <2>1, NewestIs
  <2>3. /\ y \in Seq(Bytes) /\ Len(y) = Capacity
        /\ \A n \in 1 .. Len(y) : y[n] = b[Len(b) - Capacity + n]
    BY <1>4, <2>1, NewestIs
  <2> HIDE DEF x, y
  <2>4. ASSUME NEW n \in 1 .. Capacity
        PROVE  x[n] = y[n]
    <3>1. x[n] = a[n + 1] /\ y[n] = b[N + 1 - Capacity + n]
      <4>1. Len(a) - Capacity + n = n + 1
        BY <1>1, <2>1
      <4>2. x[n] = a[Len(a) - Capacity + n]
        BY <2>2
      <4>3. y[n] = b[Len(b) - Capacity + n]
        BY <2>3
      <4>4. Len(b) - Capacity + n = N + 1 - Capacity + n
        BY <1>1, <2>1
      <4> QED  BY <4>1, <4>2, <4>3, <4>4
    <3>2. CASE n = Capacity
      <4>1. n + 1 = Len(t) + 1 /\ N + 1 - Capacity + n = N + 1
        BY <1>1, <1>2, <1>6, <3>2
      <4> QED  BY <1>3, <1>4, <3>1, <4>1
    <3>3. CASE n # Capacity
      <4>1. n + 1 \in 1 .. Len(t) /\ N + 1 - Capacity + n \in 1 .. N
        BY <1>1, <1>2, <1>6, <3>3
      <4>2. a[n + 1] = s[N - Capacity + (n + 1)]
        BY <1>2, <1>3, <1>6, <4>1
      <4>3. b[N + 1 - Capacity + n] = s[N + 1 - Capacity + n]
        BY <1>4, <4>1
      <4>4. N - Capacity + (n + 1) = N + 1 - Capacity + n
        BY <1>1
      <4> QED  BY <3>1, <4>2, <4>3, <4>4
    <3> QED  BY <3>2, <3>3
  <2>5. x = y
    BY <2>2, <2>3, <2>4, SeqEqual
  <2> QED  BY <2>5 DEF x, y, a, b, t
<1> QED  BY <1>5, <1>6

\* What is held is a sequence of bytes.
LEMMA HeldIs ==
  ASSUME NEW r \in Rings, NEW c \in Nat, c <= r.Size, HoldsBytes(r, c)
  PROVE  /\ Held(r, c) \in Seq(Bytes) /\ Len(Held(r, c)) = r.Size - c
         /\ \A n \in 1 .. r.Size - c : Held(r, c)[n] = r.buf[After(r.Head, n - 1)]
<1>1. r.Size \in Nat /\ r.Size - c \in Nat
  BY SizesAssumption DEF Rings
<1>2. Held(r, c) \in [1 .. r.Size - c -> Bytes]
  BY DEF Held, HoldsBytes
<1>3. Held(r, c) \in Seq(Bytes)
  BY <1>1, <1>2, SeqDef
<1>4. DOMAIN Held(r, c) = 1 .. r.Size - c
  BY <1>2
<1>5. Len(Held(r, c)) = r.Size - c
  BY <1>1, <1>3, <1>4, LenProperties
<1>6. \A n \in 1 .. r.Size - c : Held(r, c)[n] = r.buf[After(r.Head, n - 1)]
  BY DEF Held
<1> QED  BY <1>3, <1>5, <1>6

\* What was written and not taken out is bytes.
LEMMA WrittenHolds ==
  ASSUME NEW r \in Rings, NEW c \in Nat, c <= r.Size, Written(r, c)
  PROVE  HoldsBytes(r, c)
<1>1. Capacity \in Nat \ {0}
  BY SizesAssumption
<1>2. r.Size \in 0 .. Capacity /\ r.Head \in 0 .. Capacity - 1 /\ r.Tail \in 0 .. Capacity - 1
  BY DEF Rings, Positions
<1>3. ASSUME NEW n \in 1 .. r.Size - c
      PROVE  r.buf[After(r.Head, n - 1)] \in Bytes
  <2>1. n \in Nat /\ n - 1 \in 0 .. Capacity /\ r.Head \in Positions
    BY <1>1, <1>2 DEF Positions
  <2>2. After(r.Head, n - 1) \in Positions
    BY <2>1, AfterIs
  <2>3. CASE \A p \in Positions : r.buf[p] \in Bytes
    BY <2>2, <2>3
  <2>4. CASE /\ r.Head + r.Size <= r.Tail + c
             /\ \A p \in Positions : p < r.Tail => r.buf[p] \in Bytes
    <3>1. After(r.Head, n - 1) < r.Tail
      BY <1>1, <1>2, <2>1, <2>4 DEF After
    <3> QED  BY <2>2, <2>4, <3>1
  <2> QED  BY <2>3, <2>4 DEF Written
<1> QED  BY <1>3 DEF HoldsBytes

\* One byte: the ring stays sound, and holds the newest of what it held and the
\* byte.
LEMMA PutQueues ==
  ASSUME NEW r \in Rings, NEW byte \in Bytes, RingOK(r, 0), HoldsBytes(r, 0)
  PROVE  /\ RingOK(Put(r, byte), 0) /\ HoldsBytes(Put(r, byte), 0)
         /\ Held(Put(r, byte), 0) = Queue!Newest(Append(Held(r, 0), byte))
<1> DEFINE q == Put(r, byte)
           h == Held(r, 0)
           g == Held(q, 0)
           a == Append(h, byte)
           x == Queue!Newest(a)
<1>1. /\ q \in Rings /\ q.buf[r.Tail] = byte
      /\ \A p \in Positions : p # r.Tail => q.buf[p] = r.buf[p]
      /\ q.Tail = Advance(r.Tail)
      /\ q.Size = IF r.Size < Capacity THEN r.Size + 1 ELSE r.Size
      /\ q.Head = IF r.Size < Capacity THEN r.Head ELSE Advance(r.Head)
  BY PutIs
<1> HIDE DEF q
<1>2. Capacity \in Nat \ {0}
  BY SizesAssumption
<1>3. r.Size \in 0 .. Capacity /\ r.Head \in Positions /\ r.Tail \in Positions
  BY DEF Rings
<1>4. r.Tail = After(r.Head, r.Size)
  <2>1. r.Size - 0 = r.Size
    BY <1>2, <1>3
  <2> QED  BY <2>1 DEF RingOK
<1>5. q.Size \in 0 .. Capacity /\ q.Size - 0 = q.Size /\ r.Size - 0 = r.Size
  BY <1>1, <1>2, <1>3
<1>6. /\ h \in Seq(Bytes) /\ Len(h) = r.Size
      /\ \A n \in 1 .. r.Size : h[n] = r.buf[After(r.Head, n - 1)]
  BY <1>2, <1>3, <1>5, HeldIs
<1> HIDE DEF h
<1>7. /\ a \in Seq(Bytes) /\ Len(a) = r.Size + 1 /\ a[r.Size + 1] = byte
      /\ \A n \in 1 .. r.Size : a[n] = h[n]
  BY <1>6, AppendProperties
<1> HIDE DEF a
<1>8. /\ x \in Seq(Bytes)
      /\ Len(x) = IF r.Size + 1 <= Capacity THEN r.Size + 1 ELSE Capacity
      /\ \A n \in 1 .. Len(x) : x[n] = IF r.Size + 1 <= Capacity THEN a[n] ELSE a[r.Size + 1 - Capacity + n]
  <2>1. /\ x \in Seq(Bytes)
        /\ Len(x) = IF Len(a) <= Capacity THEN Len(a) ELSE Capacity
        /\ \A n \in 1 .. Len(x) : x[n] = IF Len(a) <= Capacity THEN a[n] ELSE a[Len(a) - Capacity + n]
    BY <1>7, NewestIs
  <2>2. Len(a) = r.Size + 1
    BY <1>7
  <2>3. Len(x) = IF r.Size + 1 <= Capacity THEN r.Size + 1 ELSE Capacity
    BY <2>1, <2>2
  <2>4. ASSUME NEW n \in 1 .. Len(x)
        PROVE  x[n] = IF r.Size + 1 <= Capacity THEN a[n] ELSE a[r.Size + 1 - Capacity + n]
    <3>1. x[n] = IF Len(a) <= Capacity THEN a[n] ELSE a[Len(a) - Capacity + n]
      BY <2>1
    <3>2. Len(a) - Capacity + n = r.Size + 1 - Capacity + n
      BY <1>2, <1>3, <2>2
    <3> QED  BY <2>2, <3>1, <3>2
  <2> QED  BY <2>1, <2>3, <2>4
<1> HIDE DEF x
<1>9. ASSUME NEW n \in 0 .. Capacity, n < r.Size, r.Size - n < Capacity
      PROVE  q.buf[After(r.Head, n)] = r.buf[After(r.Head, n)]
  <2>1. After(r.Head, n) \in Positions /\ After(r.Head, n) # After(r.Head, r.Size)
    BY <1>3, <1>9, AfterIs
  <2> QED  BY <1>1, <1>4, <2>1
<1>10. ASSUME r.Size < Capacity
       PROVE  /\ q.Tail = After(q.Head, q.Size) /\ Len(x) = q.Size
              /\ \A n \in 1 .. q.Size : q.buf[After(q.Head, n - 1)] = x[n]
  <2>1. q.Size = r.Size + 1 /\ q.Head = r.Head /\ Len(x) = q.Size
    BY <1>1, <1>2, <1>3, <1>8, <1>10
  <2>2. q.Tail = After(q.Head, q.Size)
    BY <1>1, <1>3, <1>4, <1>10, <2>1, AfterIs
  <2>3. ASSUME NEW n \in 1 .. q.Size
        PROVE  q.buf[After(q.Head, n - 1)] = x[n]
    <3>1. x[n] = a[n]
      BY <1>2, <1>3, <1>8, <1>10, <2>1
    <3>2. CASE n = r.Size + 1
      <4>1. n - 1 = r.Size
        BY <1>3, <3>2
      <4> QED  BY <1>1, <1>4, <1>7, <2>1, <3>1, <3>2, <4>1
    <3>3. CASE n # r.Size + 1
      <4>1. n \in 1 .. r.Size /\ n - 1 \in 0 .. Capacity /\ n - 1 < r.Size /\ r.Size - (n - 1) < Capacity
        BY <1>2, <1>3, <1>10, <2>1, <3>3
      <4>2. q.buf[After(r.Head, n - 1)] = r.buf[After(r.Head, n - 1)]
        BY <1>9, <4>1
      <4> QED  BY <1>6, <1>7, <2>1, <3>1, <4>1, <4>2
    <3> QED  BY <3>2, <3>3
  <2> QED  BY <2>1, <2>2, <2>3
<1>11. ASSUME ~(r.Size < Capacity)
       PROVE  /\ q.Tail = After(q.Head, q.Size) /\ Len(x) = q.Size
              /\ \A n \in 1 .. q.Size : q.buf[After(q.Head, n - 1)] = x[n]
  <2>1. r.Size = Capacity /\ q.Size = Capacity /\ q.Head = Advance(r.Head) /\ Len(x) = Capacity
    BY <1>1, <1>2, <1>3, <1>8, <1>11
  <2>2. r.Tail = r.Head /\ q.Head \in Positions
    BY <1>2, <1>3, <1>4, <2>1, AfterIs, AdvanceIs
  <2>3. q.Tail = After(q.Head, q.Size)
    BY <1>1, <1>2, <2>1, <2>2, AfterIs
  <2>4. ASSUME NEW n \in 1 .. Capacity
        PROVE  q.buf[After(q.Head, n - 1)] = x[n]
    <3>1. x[n] = a[n + 1]
      <4>1. r.Size + 1 - Capacity + n = n + 1 /\ ~(r.Size + 1 <= Capacity)
        BY <1>2, <2>1
      <4> QED  BY <1>8, <2>1, <4>1
    <3>2. After(q.Head, n - 1) = After(r.Head, n)
      <4>1. n \in 0 .. Capacity /\ n > 0
        BY <1>2
      <4> QED  BY <1>3, <2>1, <4>1, AfterIs
    <3>3. CASE n = Capacity
      <4>1. After(r.Head, n) = r.Tail
        BY <1>3, <2>2, <3>3, AfterIs, <1>2
      <4> QED  BY <1>1, <1>7, <2>1, <3>1, <3>2, <3>3, <4>1
    <3>4. CASE n # Capacity
      <4>1. n + 1 \in 1 .. r.Size /\ n \in 0 .. Capacity /\ n < r.Size /\ r.Size - n < Capacity /\ (n + 1) - 1 = n
        BY <1>2, <2>1, <3>4
      <4>2. q.buf[After(r.Head, n)] = r.buf[After(r.Head, n)]
        BY <1>9, <4>1
      <4>3. a[n + 1] = r.buf[After(r.Head, n)]
        BY <1>6, <1>7, <4>1
      <4> QED  BY <3>1, <3>2, <4>2, <4>3
    <3> QED  BY <3>3, <3>4
  <2> QED  BY <2>1, <2>3, <2>4
<1>12. /\ q.Tail = After(q.Head, q.Size) /\ Len(x) = q.Size
       /\ \A n \in 1 .. q.Size : q.buf[After(q.Head, n - 1)] = x[n]
  BY <1>10, <1>11
<1>13. RingOK(q, 0)
  BY <1>5, <1>12 DEF RingOK
<1>14. HoldsBytes(q, 0)
  <2>1. \A n \in 1 .. q.Size : x[n] \in Bytes
    BY <1>8, <1>12, ElementOfSeq
  <2> QED  BY <1>5, <1>12, <2>1 DEF HoldsBytes
<1>15. g = x
  <2>1. /\ g \in Seq(Bytes) /\ Len(g) = q.Size
        /\ \A n \in 1 .. q.Size : g[n] = q.buf[After(q.Head, n - 1)]
    BY <1>1, <1>2, <1>5, <1>14, HeldIs
  <2> HIDE DEF g
  <2> QED  BY <1>8, <1>12, <2>1, SeqEqual
<1> QED  BY <1>13, <1>14, <1>15 DEF q, g, x, a, h

\* A word of four: the ring stays sound, and holds the newest of what it held
\* and the word.
LEMMA FillQueues ==
  ASSUME NEW r \in Rings, NEW w \in Words, RingOK(r, 0), HoldsBytes(r, 0),
         attached, InputBufferCapacity # 0
  PROVE  /\ Fill(r, w) \in Rings /\ RingOK(Fill(r, w), 0)
         /\ Held(Fill(r, w), 0) = Queue!Newest(Held(r, 0) \o w)
<1> DEFINE r1 == Put(r, w[1])
           r2 == Put(r1, w[2])
           r3 == Put(r2, w[3])
           r4 == Put(r3, w[4])
           h  == Held(r, 0)
           s1 == Append(h, w[1])
           s2 == Append(s1, w[2])
           s3 == Append(s2, w[3])
           s4 == Append(s3, w[4])
<1>1. w[1] \in Bytes /\ w[2] \in Bytes /\ w[3] \in Bytes /\ w[4] \in Bytes
  BY DEF Words
<1>2. h \in Seq(Bytes)
  <2>1. 0 <= r.Size
    BY SizesAssumption DEF Rings
  <2> QED  BY <2>1, HeldIs
<1> HIDE DEF h
<1>3. r1 \in Rings /\ RingOK(r1, 0) /\ HoldsBytes(r1, 0) /\ Held(r1, 0) = Queue!Newest(s1)
  BY <1>1, PutIs, PutQueues DEF h
<1>4. s1 \in Seq(Bytes) /\ Len(s1) = Len(h) + 1 /\ s1[Len(h) + 1] = w[1]
      /\ \A n \in 1 .. Len(h) : s1[n] = h[n]
  BY <1>1, <1>2, AppendProperties
<1> HIDE DEF r1, s1
<1>5. /\ r2 \in Rings /\ RingOK(r2, 0) /\ HoldsBytes(r2, 0)
      /\ Held(r2, 0) = Queue!Newest(Append(Held(r1, 0), w[2]))
  BY <1>1, <1>3, PutIs, PutQueues
<1>6. s2 \in Seq(Bytes) /\ Len(s2) = Len(s1) + 1 /\ s2[Len(s1) + 1] = w[2]
      /\ \A n \in 1 .. Len(s1) : s2[n] = s1[n]
  BY <1>1, <1>4, AppendProperties
<1>7. Held(r2, 0) = Queue!Newest(s2)
  BY <1>1, <1>3, <1>4, <1>5, NewestAppend
<1> HIDE DEF r2, s2
<1>8. /\ r3 \in Rings /\ RingOK(r3, 0) /\ HoldsBytes(r3, 0)
      /\ Held(r3, 0) = Queue!Newest(Append(Held(r2, 0), w[3]))
  BY <1>1, <1>5, PutIs, PutQueues
<1>9. s3 \in Seq(Bytes) /\ Len(s3) = Len(s2) + 1 /\ s3[Len(s2) + 1] = w[3]
      /\ \A n \in 1 .. Len(s2) : s3[n] = s2[n]
  BY <1>1, <1>6, AppendProperties
<1>10. Held(r3, 0) = Queue!Newest(s3)
  BY <1>1, <1>6, <1>7, <1>8, NewestAppend
<1> HIDE DEF r3, s3
<1>11. /\ r4 \in Rings /\ RingOK(r4, 0)
       /\ Held(r4, 0) = Queue!Newest(Append(Held(r3, 0), w[4]))
  BY <1>1, <1>8, PutIs, PutQueues
<1>12. s4 \in Seq(Bytes) /\ Len(s4) = Len(s3) + 1 /\ s4[Len(s3) + 1] = w[4]
       /\ \A n \in 1 .. Len(s3) : s4[n] = s3[n]
  BY <1>1, <1>9, AppendProperties
<1>13. Held(r4, 0) = Queue!Newest(s4)
  BY <1>1, <1>9, <1>10, <1>11, NewestAppend
<1> HIDE DEF r4, s4
<1>14. s4 = h \o w
  <2> DEFINE N == Len(h)
             t == h \o w
  <2>1. N \in Nat
    BY <1>2, LenProperties
  <2>2. w \in Seq(Bytes) /\ Len(w) = 4
    <3>1. w \in Seq(Bytes)
      BY SeqDef DEF Words
    <3>2. DOMAIN w = 1 .. 4
      BY DEF Words
    <3> QED  BY <3>1, <3>2, LenProperties
  <2>3. /\ t \in Seq(Bytes) /\ Len(t) = N + 4
        /\ \A i \in 1 .. N + 4 : t[i] = IF i <= N THEN h[i] ELSE w[i - N]
    <3>1. /\ t \in Seq(Bytes) /\ Len(t) = Len(h) + Len(w)
          /\ \A i \in 1 .. Len(h) + Len(w) : t[i] = IF i <= Len(h) THEN h[i] ELSE w[i - Len(h)]
      BY <1>2, <2>2, ConcatProperties
    <3> HIDE DEF t
    <3>2. Len(h) + Len(w) = N + 4
      BY <2>1, <2>2
    <3> QED  BY <3>1, <3>2
  <2> HIDE DEF t
  <2>4. Len(s1) = N + 1 /\ Len(s2) = N + 2 /\ Len(s3) = N + 3 /\ Len(s4) = N + 4
    BY <2>1, <1>4, <1>6, <1>9, <1>12
  <2>5. ASSUME NEW i \in 1 .. N + 4
        PROVE  s4[i] = t[i]
    <3>1. t[i] = IF i <= N THEN h[i] ELSE w[i - N]
      BY <2>3
    <3>2. CASE i = N + 4
      <4>1. t[i] = w[4]
        BY <2>1, <3>1, <3>2
      <4> QED  BY <1>12, <2>1, <2>4, <3>2, <4>1
    <3>3. CASE i = N + 3
      <4>1. t[i] = w[3]
        BY <2>1, <3>1, <3>3
      <4> QED  BY <1>9, <1>12, <2>1, <2>4, <3>3, <4>1
    <3>4. CASE i = N + 2
      <4>1. t[i] = w[2]
        BY <2>1, <3>1, <3>4
      <4> QED  BY <1>6, <1>9, <1>12, <2>1, <2>4, <3>4, <4>1
    <3>5. CASE i = N + 1
      <4>1. t[i] = w[1]
        BY <2>1, <3>1, <3>5
      <4> QED  BY <1>4, <1>6, <1>9, <1>12, <2>1, <2>4, <3>5, <4>1
    <3>6. CASE i \in 1 .. N
      <4>1. t[i] = h[i]
        BY <2>1, <3>1, <3>6
      <4> QED  BY <1>4, <1>6, <1>9, <1>12, <2>1, <2>4, <3>6, <4>1
    <3>7. i \in 1 .. N \/ i \in {N + 1, N + 2, N + 3, N + 4}
      BY <2>1
    <3> QED  BY <3>2, <3>3, <3>4, <3>5, <3>6, <3>7
  <2> QED  BY <1>12, <2>3, <2>4, <2>5, SeqEqual DEF t
<1>15. Fill(r, w) = r4
  <2>1. w # <<>>
    <3>1. DOMAIN w = 1 .. 4
      BY DEF Words
    <3>2. DOMAIN <<>> = 1 .. 0
      OBVIOUS
    <3> QED  BY <3>1, <3>2
  <2> QED  BY <2>1 DEF Fill, r1, r2, r3, r4
<1> QED  BY <1>11, <1>13, <1>14, <1>15 DEF h

-----------------------------------------------------------------------------
(* The refinement.                                                         *)

\* The ring is sound at first.
LEMMA RingInvInit == Init => RingInv
<1> SUFFICES ASSUME Init PROVE RingInv
  OBVIOUS
<1>1. Capacity \in Nat \ {0}
  BY SizesAssumption
<1>2. ring.Size = 0 /\ ring.Head = 0 /\ ring.Tail = 0 /\ Len(copied) = 0
  BY EmptySeq DEF Init
<1>3. RingOK(ring, Len(copied))
  BY <1>1, <1>2 DEF RingOK, After
<1>4. InputBufferCapacity = 0 /\ pc # "read"
  BY DEF Init
<1>5. pc = "register"
  BY DEF Init
<1> QED  BY <1>2, <1>3, <1>4, <1>5 DEF RingInv

\* The counts and places as numbers, and what is in the ring as bytes.
LEMMA RingFacts ==
  ASSUME TypeInv
  PROVE  /\ ring \in Rings /\ copied \in Seq(Bytes) /\ Len(copied) \in Nat
         /\ ring.Size \in 0 .. Capacity /\ ring.Head \in Positions /\ ring.Tail \in Positions
         /\ Len(copied) <= ring.Size /\ HoldsBytes(ring, Len(copied))
         /\ pc = "read" => ToRead <= Available /\ Len(copied) <= ToRead
         /\ pc # "read" => copied = <<>> /\ Len(copied) = 0
         /\ Available \in 0 .. Capacity /\ ToRead \in 0 .. MaxRead
         /\ Capacity \in Nat \ {0} /\ MaxRead \in Nat \ {0}
<1>1. Capacity \in Nat \ {0} /\ MaxRead \in Nat \ {0}
  BY SizesAssumption
<1>2. /\ ring \in Rings /\ copied \in Seq(Bytes)
      /\ Available \in 0 .. Capacity /\ ToRead \in 0 .. MaxRead
  BY TypeParts DEF TypeInv, RingTypeOK, ReaderOK
<1>3. Len(copied) \in Nat
  BY <1>2, LenProperties
<1>4. ring.Size \in 0 .. Capacity /\ ring.Head \in Positions /\ ring.Tail \in Positions
  BY <1>2 DEF Rings
<1>5. /\ pc = "read" => ToRead <= Available /\ Available <= ring.Size /\ Len(copied) <= ToRead
      /\ pc # "read" => copied = <<>> /\ Len(copied) = 0
  BY EmptySeq DEF TypeInv, ReaderFits
<1>6. Len(copied) <= ring.Size
  BY <1>1, <1>2, <1>3, <1>4, <1>5
<1>7. HoldsBytes(ring, Len(copied))
  BY <1>2, <1>3, <1>6, WrittenHolds DEF TypeInv
<1> QED  BY <1>1, <1>2, <1>3, <1>4, <1>5, <1>6, <1>7

\* A step that leaves the ring and what was copied alone.
LEMMA RingLeft ==
  ASSUME RingInv, UNCHANGED <<ring, copied, Available, InputBufferCapacity>>,
         pc' = "read" <=> pc = "read",
         ~attached' \/ pc' \in {"setBuffer", "resetRing", "setCapacity"} => InputBufferCapacity = 0,
         pc' \in {"resetRing", "setCapacity"} => attached'
  PROVE  RingInv'
BY DEF RingInv, RingOK

\* Every step keeps the ring sound, as long as no word arrives during a read.
LEMMA RingInvNext ==
  ASSUME ~RxDuringRead
  PROVE  TypeInv /\ RingInv /\ [Next]_vars => RingInv'
<1> SUFFICES ASSUME TypeInv, RingInv, [Next]_vars PROVE RingInv'
  OBVIOUS
<1> USE DEF rx, reader, writer, tx
<1>1. /\ ring \in Rings /\ copied \in Seq(Bytes) /\ Len(copied) \in Nat
      /\ ring.Size \in 0 .. Capacity /\ ring.Head \in Positions /\ ring.Tail \in Positions
      /\ Len(copied) <= ring.Size /\ HoldsBytes(ring, Len(copied))
      /\ pc = "read" => ToRead <= Available /\ Len(copied) <= ToRead
      /\ pc # "read" => copied = <<>> /\ Len(copied) = 0
      /\ Available \in 0 .. Capacity /\ ToRead \in 0 .. MaxRead
      /\ Capacity \in Nat \ {0} /\ MaxRead \in Nat \ {0}
  BY RingFacts
<1>2. /\ RingOK(ring, Len(copied))
      /\ pc = "read" => ring.Size = Available
      /\ InputBufferCapacity = 0 => ring.Size = 0
      /\ ~attached \/ pc \in {"setBuffer", "resetRing", "setCapacity"} => InputBufferCapacity = 0
      /\ pc \in {"resetRing", "setCapacity"} => attached
  BY DEF RingInv
<1>3. ASSUME NEW w \in Words \cup {<<>>}, MsmGeniSerialIsr(w)
      PROVE  RingInv'
  <2>1. /\ ring' = Fill(ring, w) /\ UNCHANGED <<attached, InputBufferCapacity, pc, reader>>
        /\ w # <<>> => pc # "read"
    BY <1>3 DEF MsmGeniSerialIsr, Reading
  <2>2. CASE w # <<>> /\ attached /\ InputBufferCapacity # 0
    <3>1. pc # "read" /\ copied = <<>> /\ Len(copied) = 0 /\ w \in Words
      BY <1>1, <2>1, <2>2
    <3>2. RingOK(Fill(ring, w), 0)
      BY <1>1, <1>2, <2>2, <3>1, FillQueues
    <3>3. RingOK(ring, Len(copied))'
      BY <2>1, <3>1, <3>2
    <3> QED  BY <1>2, <2>1, <2>2, <3>1, <3>3 DEF RingInv
  <2>3. CASE ~(w # <<>> /\ attached /\ InputBufferCapacity # 0)
    <3>1. ring' = ring
      BY <2>1, <2>3 DEF Fill
    <3> QED  BY <1>2, <2>1, <3>1, RingLeft
  <2> QED  BY <2>2, <2>3
<1>4. CASE Transmit \/ WriteStep
  <2>1. UNCHANGED <<rx, reader>> /\ (pc' = "read" <=> pc = "read")
    BY <1>4 DEF Transmit, WriteStep, TxReset, TxSpace, TxIssue, TxDone
  <2>2. pc' \in {"setBuffer", "resetRing", "setCapacity"} =>
          ~attached \/ pc \in {"setBuffer", "resetRing", "setCapacity"}
    BY <1>4 DEF Transmit, WriteStep, TxReset, TxSpace, TxIssue, TxDone
  <2>3. pc' \notin {"resetRing", "setCapacity"} \/ pc' = pc
    BY <1>4 DEF Transmit, WriteStep, TxReset, TxSpace, TxIssue, TxDone
  <2> QED  BY <1>2, <2>1, <2>2, <2>3, RingLeft
<1>5. CASE CrDebugUartLibInit \/ (\E n \in 1 .. MaxWords : SerialWrite(n)) \/ RegisterFails \/ ReadEmpty
  <2>1. /\ UNCHANGED <<ring, copied, Available, InputBufferCapacity, attached>>
        /\ pc # "read" /\ pc' \in {"txReset", "failed", "idle"}
    BY <1>5 DEF CrDebugUartLibInit, SerialWrite, StartWrite, RegisterFails, ReadEmpty
  <2> QED  BY <1>2, <2>1, RingLeft
<1>6. CASE SetInputBuffer
  <2>1. /\ UNCHANGED <<ring, copied, Available, InputBufferCapacity>>
        /\ pc = "setBuffer" /\ pc' = "resetRing" /\ attached' = TRUE
    BY <1>6 DEF SetInputBuffer
  <2> QED  BY <1>2, <2>1, RingLeft
<1>7. CASE ResetRing
  <2>1. /\ pc = "resetRing" /\ pc' = "setCapacity" /\ UNCHANGED <<copied, attached, InputBufferCapacity>>
        /\ ring' = [ring EXCEPT !.Size = 0, !.Head = 0, !.Tail = 0]
    BY <1>7 DEF ResetRing
  <2>2. ring'.Size = 0 /\ ring'.Head = 0 /\ ring'.Tail = 0 /\ Len(copied') = 0
    BY <1>1, <2>1 DEF Rings
  <2>3. RingOK(ring, Len(copied))'
    BY <1>1, <2>2 DEF RingOK, After
  <2>4. InputBufferCapacity' = 0
    BY <1>2, <2>1
  <2> QED  BY <2>1, <2>2, <2>3, <2>4, <1>2 DEF RingInv
<1>8. CASE SetCapacity
  <2>1. /\ UNCHANGED <<ring, copied, attached>> /\ pc = "setCapacity" /\ pc' = "idle"
        /\ InputBufferCapacity' = Capacity
    BY <1>8 DEF SetCapacity
  <2>2. ring.Size = 0
    BY <1>2, <2>1
  <2>3. RingOK(ring, Len(copied))'
    BY <1>2, <2>1 DEF RingOK
  <2>4. InputBufferCapacity = 0
    BY <1>2, <2>1
  <2>5. InputBufferCapacity' # 0
    BY <1>1, <2>1
  <2> QED  BY <1>2, <2>1, <2>2, <2>3, <2>5 DEF RingInv
<1>9. ASSUME NEW n \in 1 .. MaxRead, ReadBegin(n)
      PROVE  RingInv'
  <2>1. UNCHANGED <<rx, copied>> /\ Available' = ring.Size /\ pc' = "read"
    BY <1>9 DEF ReadBegin
  <2> QED  BY <1>2, <2>1 DEF RingInv, RingOK
<1>10. CASE ReadByte
  <2>1. /\ pc = "read" /\ pc' = pc /\ Len(copied) < ToRead
        /\ copied' = Append(copied, ring.buf[ring.Head])
        /\ ring' = [ring EXCEPT !.Head = Advance(ring.Head)]
        /\ UNCHANGED <<attached, InputBufferCapacity, Available>>
    BY <1>10 DEF ReadByte
  <2>2. ring'.Size = ring.Size /\ ring'.Tail = ring.Tail /\ ring'.Head = Advance(ring.Head)
    BY <1>1, <2>1 DEF Rings
  <2> DEFINE d == ring.Size - Len(copied)
  <2>3. d \in 0 .. Capacity /\ d > 0 /\ ring.Size - (Len(copied) + 1) = d - 1
    BY <1>1, <1>2, <2>1
  <2>4. ring.Tail = After(ring.Head, d)
    BY <1>2 DEF RingOK
  <2> HIDE DEF d
  <2>5. After(Advance(ring.Head), d - 1) = After(ring.Head, d)
    BY <1>1, <2>3, AfterIs
  <2>6. Len(copied') = Len(copied) + 1
    <3>1. ring.buf[ring.Head] \in Bytes
      <4>1. Len(copied) < ring.Size /\ Written(ring, Len(copied))
        BY <1>1, <1>2, <2>1 DEF TypeInv
      <4> QED  BY <1>1, <4>1, HeadWritten
    <3> QED  BY <1>1, <2>1, <3>1, AppendProperties
  <2>7. RingOK(ring, Len(copied))'
    BY <2>2, <2>3, <2>4, <2>5, <2>6 DEF RingOK
  <2> QED  BY <1>2, <2>1, <2>2, <2>7 DEF RingInv
<1>11. CASE ReadEnd
  <2>1. /\ pc = "read" /\ pc' = "idle" /\ Len(copied) = ToRead
        /\ ring' = [ring EXCEPT !.Size = Available - ToRead]
        /\ copied' = <<>> /\ UNCHANGED <<attached, InputBufferCapacity>>
    BY <1>11 DEF ReadEnd
  <2>2. ring'.Size = Available - ToRead /\ ring'.Tail = ring.Tail /\ ring'.Head = ring.Head
    BY <1>1, <2>1 DEF Rings
  <2>3. ring'.Size - 0 = ring.Size - Len(copied) /\ Len(copied') = 0
    BY <1>1, <1>2, <2>1, <2>2, EmptySeq
  <2>4. RingOK(ring, Len(copied))'
    BY <1>2, <2>2, <2>3 DEF RingOK
  <2>5. InputBufferCapacity = 0 => ring'.Size = 0
    BY <1>1, <1>2, <2>1, <2>2
  <2> QED  BY <1>2, <2>1, <2>4, <2>5 DEF RingInv
<1>12. CASE UNCHANGED vars
  BY <1>2, <1>12, RingLeft DEF vars
<1> QED
  BY <1>3, <1>4, <1>5, <1>6, <1>7, <1>8, <1>9, <1>10, <1>11, <1>12 DEF Next, Boot, ReadStep

\* The queue a state stands for.
ContentOK ==
  /\ Content \in Seq(Bytes) /\ Len(Content) = ring.Size
  /\ \A n \in 1 .. ring.Size :
       Content[n] = IF n <= Len(copied) THEN copied[n]
                    ELSE ring.buf[After(ring.Head, (n - Len(copied)) - 1)]
  /\ pc # "read" => Content = Held(ring, 0)

\* Its bytes are those copied and those held.
LEMMA ContentIs == TypeInv => ContentOK
<1> SUFFICES ASSUME TypeInv PROVE ContentOK
  OBVIOUS
<1> DEFINE h == Held(ring, Len(copied))
<1>1. /\ ring \in Rings /\ copied \in Seq(Bytes) /\ Len(copied) \in Nat
      /\ ring.Size \in Nat /\ Len(copied) <= ring.Size /\ HoldsBytes(ring, Len(copied))
      /\ pc # "read" => copied = <<>> /\ Len(copied) = 0
  BY RingFacts
<1>2. /\ h \in Seq(Bytes) /\ Len(h) = ring.Size - Len(copied)
      /\ \A n \in 1 .. ring.Size - Len(copied) : h[n] = ring.buf[After(ring.Head, n - 1)]
  BY <1>1, HeldIs
<1>3. Content = copied \o h
  BY DEF Content, Held
<1> HIDE DEF h
<1>4. /\ Content \in Seq(Bytes) /\ Len(Content) = Len(copied) + Len(h)
      /\ \A i \in 1 .. Len(copied) + Len(h) :
           Content[i] = IF i <= Len(copied) THEN copied[i] ELSE h[i - Len(copied)]
  <2>1. copied \in Seq(Bytes) /\ h \in Seq(Bytes)
    BY <1>1, <1>2
  <2> QED  BY <1>3, <2>1, ConcatProperties
<1>5. Len(copied) + Len(h) = ring.Size
  BY <1>1, <1>2
<1>6. ASSUME NEW n \in 1 .. ring.Size
      PROVE  Content[n] = IF n <= Len(copied) THEN copied[n]
                          ELSE ring.buf[After(ring.Head, (n - Len(copied)) - 1)]
  <2>1. CASE n <= Len(copied)
    BY <1>4, <1>5, <2>1
  <2>2. CASE ~(n <= Len(copied))
    <3>1. n - Len(copied) \in 1 .. ring.Size - Len(copied)
      BY <1>1, <2>2
    <3>2. Content[n] = h[n - Len(copied)]
      BY <1>4, <1>5, <2>2
    <3> QED  BY <1>2, <2>2, <3>1, <3>2
  <2> QED  BY <2>1, <2>2
<1>7. pc # "read" => Content = Held(ring, 0)
  <2>1. copied = <<>> => copied \o h = h
    BY <1>2, ConcatEmptySeq
  <2> QED  BY <1>1, <1>3, <2>1 DEF h
<1> QED  BY <1>4, <1>5, <1>6, <1>7 DEF ContentOK

\* The same after a step.
LEMMA ContentPrimed == TypeInv' => ContentOK'
BY ContentIs, PTL

\* At first the queue is empty.
LEMMA QueueInitially == Init => Queue!ByteInit
<1> SUFFICES ASSUME Init PROVE Content = <<>> /\ result = <<>>
  BY DEF Queue!ByteInit
<1>1. TypeInv
  BY TypeInvInit
<1>2. ring.Size = 0 /\ result = <<>>
  BY DEF Init
<1>3. Content \in Seq(Bytes) /\ Len(Content) = 0
  BY <1>1, <1>2, ContentIs DEF ContentOK
<1> QED  BY <1>2, <1>3, EmptySeq

\* A step that leaves the ring and what was copied alone leaves the queue.
LEMMA QueueLeft ==
  ASSUME UNCHANGED <<ring, copied>>
  PROVE  Content' = Content
BY DEF Content

\* The interrupt routine appends the word, or leaves the queue alone.
LEMMA IsrArrives ==
  ASSUME ~RxDuringRead, TypeInv, TypeInv', RingInv,
         NEW w \in Words \cup {<<>>}, MsmGeniSerialIsr(w)
  PROVE  Queue!Arrive \/ UNCHANGED <<Content, result>>
<1>1. /\ ring' = Fill(ring, w) /\ UNCHANGED <<attached, InputBufferCapacity, pc, copied, result>>
      /\ w # <<>> => pc # "read"
  BY DEF MsmGeniSerialIsr, Reading, reader
<1>2. CASE w # <<>> /\ attached /\ InputBufferCapacity # 0
  <2>1. /\ pc # "read" /\ pc' # "read" /\ w \in Words /\ Len(copied) = 0 /\ ring \in Rings
        /\ HoldsBytes(ring, Len(copied)) /\ RingOK(ring, Len(copied))
    BY <1>1, <1>2, RingFacts DEF RingInv
  <2>2. RingOK(ring, 0) /\ HoldsBytes(ring, 0)
    BY <2>1
  <2>3. Held(Fill(ring, w), 0) = Queue!Newest(Held(ring, 0) \o w)
    BY <1>2, <2>1, <2>2, FillQueues
  <2>4. Content = Held(ring, 0)
    BY <2>1, ContentIs DEF ContentOK
  <2>5. Content' = Held(ring', 0)
    BY <2>1, ContentPrimed DEF ContentOK
  <2>6. Content' = Queue!Newest(Content \o w)
    BY <1>1, <2>3, <2>4, <2>5
  <2> QED  BY <1>1, <2>1, <2>6 DEF Queue!Arrive, Words
<1>3. CASE ~(w # <<>> /\ attached /\ InputBufferCapacity # 0)
  <2>1. ring' = ring
    BY <1>1, <1>3 DEF Fill
  <2> QED  BY <1>1, <2>1, QueueLeft
<1> QED  BY <1>2, <1>3

\* The beginning and the rest of a sequence.
LEMMA Cut ==
  ASSUME NEW s \in Seq(Bytes), NEW n \in 0 .. Len(s)
  PROVE  /\ SubSeq(s, 1, n) \in Seq(Bytes) /\ Len(SubSeq(s, 1, n)) = n
         /\ \A i \in 1 .. n : SubSeq(s, 1, n)[i] = s[i]
         /\ SubSeq(s, n + 1, Len(s)) \in Seq(Bytes) /\ Len(SubSeq(s, n + 1, Len(s))) = Len(s) - n
         /\ \A i \in 1 .. Len(s) - n : SubSeq(s, n + 1, Len(s))[i] = s[n + i]
<1>1. Len(s) \in Nat /\ n \in Nat /\ n <= Len(s)
  BY LenProperties
<1>2. \A i \in 1 .. Len(s) : s[i] \in Bytes
  BY ElementOfSeq
<1>3. /\ SubSeq(s, 1, n) \in Seq(Bytes)
      /\ Len(SubSeq(s, 1, n)) = (IF 1 <= n THEN n - 1 + 1 ELSE 0)
      /\ \A i \in 1 .. n - 1 + 1 : SubSeq(s, 1, n)[i] = s[1 + i - 1]
  <2>1. \A i \in 1 .. n : s[i] \in Bytes
    BY <1>1, <1>2
  <2> QED  BY <1>1, <2>1, SubSeqProperties
<1>4. /\ SubSeq(s, n + 1, Len(s)) \in Seq(Bytes)
      /\ Len(SubSeq(s, n + 1, Len(s))) = (IF n + 1 <= Len(s) THEN Len(s) - (n + 1) + 1 ELSE 0)
      /\ \A i \in 1 .. Len(s) - (n + 1) + 1 : SubSeq(s, n + 1, Len(s))[i] = s[(n + 1) + i - 1]
  <2>1. \A i \in n + 1 .. Len(s) : s[i] \in Bytes
    BY <1>1, <1>2
  <2>2. n + 1 \in Nat
    BY <1>1
  <2> DEFINE m == n + 1
  <2>3. m \in Nat /\ \A i \in m .. Len(s) : s[i] \in Bytes
    BY <2>1, <2>2
  <2> HIDE DEF m
  <2>4. /\ SubSeq(s, m, Len(s)) \in Seq(Bytes)
        /\ Len(SubSeq(s, m, Len(s))) = (IF m <= Len(s) THEN Len(s) - m + 1 ELSE 0)
        /\ \A i \in 1 .. Len(s) - m + 1 : SubSeq(s, m, Len(s))[i] = s[m + i - 1]
    BY <1>1, <2>3, SubSeqProperties
  <2> QED  BY <2>4 DEF m
<1>5. ASSUME NEW i \in 1 .. n
      PROVE  SubSeq(s, 1, n)[i] = s[i]
  <2>1. 1 + i - 1 = i /\ i \in 1 .. n - 1 + 1
    BY <1>1
  <2>2. SubSeq(s, 1, n)[i] = s[1 + i - 1]
    BY <1>3, <2>1
  <2> QED  BY <2>1, <2>2
<1>6. ASSUME NEW i \in 1 .. Len(s) - n
      PROVE  SubSeq(s, n + 1, Len(s))[i] = s[n + i]
  <2>1. (n + 1) + i - 1 = n + i /\ i \in 1 .. Len(s) - (n + 1) + 1
    BY <1>1
  <2>2. SubSeq(s, n + 1, Len(s))[i] = s[(n + 1) + i - 1]
    BY <1>4, <2>1
  <2> QED  BY <2>1, <2>2
<1>7. Len(SubSeq(s, 1, n)) = n /\ Len(SubSeq(s, n + 1, Len(s))) = Len(s) - n
  <2>1. (IF 1 <= n THEN n - 1 + 1 ELSE 0) = n
    BY <1>1
  <2>2. (IF n + 1 <= Len(s) THEN Len(s) - (n + 1) + 1 ELSE 0) = Len(s) - n
    BY <1>1
  <2> QED  BY <1>3, <1>4, <2>1, <2>2
<1> QED  BY <1>3, <1>4, <1>5, <1>6, <1>7

\* A read of an empty ring returns nothing.
LEMMA EmptyReads ==
  ASSUME TypeInv, ReadEmpty
  PROVE  Queue!Read
<1>1. ring.Size = 0 /\ result' = <<>> /\ UNCHANGED <<ring, copied>>
  BY DEF ReadEmpty, rx
<1>2. Content \in Seq(Bytes) /\ Len(Content) = 0
  BY <1>1, ContentIs DEF ContentOK
<1>3. Content = <<>> /\ Content' = <<>>
  BY <1>1, <1>2, EmptySeq, QueueLeft
<1>4. PICK s \in Seq(Bytes) : s = Content
  BY <1>2
<1>5. s = <<>> /\ Len(s) = 0
  BY <1>2, <1>3, <1>4
<1>6. 0 \in 0 .. Len(s)
  BY <1>5
<1>7. /\ SubSeq(s, 1, 0) \in Seq(Bytes) /\ Len(SubSeq(s, 1, 0)) = 0
      /\ SubSeq(s, 0 + 1, Len(s)) \in Seq(Bytes) /\ Len(SubSeq(s, 0 + 1, Len(s))) = Len(s) - 0
  BY <1>6, Cut
<1>8. SubSeq(s, 1, 0) = <<>> /\ SubSeq(s, 0 + 1, Len(s)) = <<>>
  <2>1. Len(SubSeq(s, 0 + 1, Len(s))) = 0
    BY <1>5, <1>7
  <2> QED  BY <1>7, <2>1, EmptySeq
<1>9. result' = SubSeq(Content, 1, 0) /\ Content' = SubSeq(Content, 0 + 1, Len(Content))
  BY <1>1, <1>3, <1>4, <1>8
<1> QED  BY <1>4, <1>6, <1>9 DEF Queue!Read

\* A byte that is copied stays in its place.
LEMMA ByteStays ==
  ASSUME TypeInv, TypeInv', ReadByte
  PROVE  Content' = Content
<1> DEFINE N == Len(copied)
           S == ring.Size
<1>1. /\ pc = "read" /\ Len(copied) < ToRead
      /\ copied' = Append(copied, ring.buf[ring.Head])
      /\ ring' = [ring EXCEPT !.Head = Advance(ring.Head)]
  BY DEF ReadByte
<1>2. /\ ring \in Rings /\ copied \in Seq(Bytes) /\ N \in Nat /\ S \in 0 .. Capacity
      /\ ring.Head \in Positions /\ Capacity \in Nat \ {0}
      /\ ToRead <= Available /\ ToRead \in 0 .. MaxRead /\ Available \in 0 .. Capacity
      /\ MaxRead \in Nat \ {0} /\ HoldsBytes(ring, N)
  BY <1>1, RingFacts
<1>3. Available <= S
  BY <1>1 DEF TypeInv, ReaderFits
<1>4. N < S /\ S \in Nat
  BY <1>1, <1>2, <1>3
<1>5. ring'.Size = S /\ ring'.buf = ring.buf /\ ring'.Head = Advance(ring.Head)
  BY <1>1, <1>2 DEF Rings
<1>6. ring.buf[ring.Head] \in Bytes
  BY <1>2, <1>4, HeadWritten DEF TypeInv
<1>7. /\ Len(copied') = N + 1 /\ copied'[N + 1] = ring.buf[ring.Head]
      /\ \A i \in 1 .. N : copied'[i] = copied[i]
  BY <1>1, <1>2, <1>6, AppendProperties
<1>8. /\ Content \in Seq(Bytes) /\ Len(Content) = S
      /\ \A n \in 1 .. S : Content[n] = IF n <= N THEN copied[n]
                                        ELSE ring.buf[After(ring.Head, (n - N) - 1)]
  BY ContentIs DEF ContentOK
<1>9. /\ Content' \in Seq(Bytes) /\ Len(Content') = S
      /\ \A n \in 1 .. S : Content'[n] = IF n <= Len(copied') THEN copied'[n]
                                         ELSE ring'.buf[After(ring'.Head, (n - Len(copied')) - 1)]
  BY <1>5, ContentPrimed DEF ContentOK
<1> HIDE DEF N, S
<1>10. ASSUME NEW n \in 1 .. S
       PROVE  Content'[n] = Content[n]
  <2>1. n \in Nat /\ n > 0 /\ n <= S
    BY <1>4
  <2>2. Content'[n] = IF n <= Len(copied') THEN copied'[n]
                      ELSE ring'.buf[After(ring'.Head, (n - Len(copied')) - 1)]
    BY <1>9
  <2>3. Content[n] = IF n <= N THEN copied[n] ELSE ring.buf[After(ring.Head, (n - N) - 1)]
    BY <1>8
  <2>4. CASE n <= N
    <3>1. n <= Len(copied') /\ n \in 1 .. N
      BY <1>2, <1>7, <2>1, <2>4
    <3> QED  BY <1>7, <2>2, <2>3, <2>4, <3>1
  <2>5. CASE n = N + 1
    <3>1. n <= Len(copied') /\ ~(n <= N) /\ (n - N) - 1 = 0
      BY <1>2, <1>7, <2>5
    <3>2. 0 \in 0 .. Capacity
      BY <1>2
    <3>3. After(ring.Head, 0) = ring.Head
      BY <1>2, <3>2, AfterIs
    <3> QED  BY <1>7, <2>2, <2>3, <2>5, <3>1, <3>3
  <2>6. CASE n > N + 1
    <3> DEFINE d == (n - N) - 1
    <3>1. d \in 0 .. Capacity /\ d > 0 /\ (n - (N + 1)) - 1 = d - 1 /\ ~(n <= N + 1) /\ ~(n <= N)
      BY <1>2, <1>4, <2>1, <2>6
    <3>2. (n - Len(copied')) - 1 = d - 1 /\ ~(n <= Len(copied'))
      BY <1>7, <3>1
    <3> HIDE DEF d
    <3>3. After(Advance(ring.Head), d - 1) = After(ring.Head, d)
      BY <1>2, <3>1, AfterIs
    <3>4. Content[n] = ring.buf[After(ring.Head, d)]
      BY <2>3, <3>1 DEF d
    <3>5. Content'[n] = ring.buf[After(Advance(ring.Head), d - 1)]
      BY <1>5, <2>2, <3>2
    <3> QED  BY <3>3, <3>4, <3>5
  <2> QED  BY <1>2, <2>1, <2>4, <2>5, <2>6
<1> QED  BY <1>8, <1>9, <1>10, SeqEqual

\* The end of a read takes what was copied from the front of the queue.
LEMMA ReadTakes ==
  ASSUME TypeInv, TypeInv', RingInv, ReadEnd
  PROVE  Queue!Read
<1> DEFINE N == Len(copied)
           S == ring.Size
<1>1. /\ pc = "read" /\ pc' = "idle" /\ Len(copied) = ToRead
      /\ ring' = [ring EXCEPT !.Size = Available - ToRead]
      /\ result' = copied /\ copied' = <<>>
  BY DEF ReadEnd
<1>2. /\ ring \in Rings /\ copied \in Seq(Bytes) /\ N \in Nat /\ S \in 0 .. Capacity
      /\ Capacity \in Nat \ {0} /\ N <= S
  BY RingFacts
<1>3. Available = S /\ S \in Nat /\ N = ToRead
  BY <1>1, <1>2 DEF RingInv
<1>4. ring'.Size = S - N /\ ring'.buf = ring.buf /\ ring'.Head = ring.Head
  BY <1>1, <1>2, <1>3 DEF Rings
<1>5. Len(copied') = 0
  BY <1>1, EmptySeq
<1>6. /\ Content \in Seq(Bytes) /\ Len(Content) = S
      /\ \A n \in 1 .. S : Content[n] = IF n <= N THEN copied[n]
                                        ELSE ring.buf[After(ring.Head, (n - N) - 1)]
  BY ContentIs DEF ContentOK
<1>7. /\ Content' \in Seq(Bytes) /\ Len(Content') = S - N
      /\ \A n \in 1 .. S - N : Content'[n] = IF n <= 0 THEN copied'[n]
                                             ELSE ring.buf[After(ring.Head, (n - 0) - 1)]
  BY <1>4, <1>5, ContentPrimed DEF ContentOK
<1> HIDE DEF N, S
<1>8. PICK s \in Seq(Bytes) : s = Content
  BY <1>6
<1>9. PICK t \in Seq(Bytes) : t = Content'
  BY <1>7
<1>10. PICK k \in Seq(Bytes) : k = copied
  BY <1>2
<1>11. N \in 0 .. Len(s) /\ Len(s) = S
  BY <1>2, <1>3, <1>6, <1>8
<1>12. /\ SubSeq(s, 1, N) \in Seq(Bytes) /\ Len(SubSeq(s, 1, N)) = N
       /\ \A i \in 1 .. N : SubSeq(s, 1, N)[i] = s[i]
       /\ SubSeq(s, N + 1, Len(s)) \in Seq(Bytes) /\ Len(SubSeq(s, N + 1, Len(s))) = Len(s) - N
       /\ \A i \in 1 .. Len(s) - N : SubSeq(s, N + 1, Len(s))[i] = s[N + i]
  BY <1>11, Cut
<1>13. k = SubSeq(s, 1, N)
  <2>1. Len(k) = N
    BY <1>10 DEF N
  <2>2. ASSUME NEW i \in 1 .. N
        PROVE  k[i] = SubSeq(s, 1, N)[i]
    <3>1. i \in 1 .. S /\ i <= N
      BY <1>2, <1>3
    <3> QED  BY <1>6, <1>8, <1>10, <1>12, <3>1
  <2> QED  BY <1>12, <2>1, <2>2, SeqEqual
<1>14. t = SubSeq(s, N + 1, Len(s))
  <2>1. Len(t) = S - N
    BY <1>7, <1>9
  <2>2. ASSUME NEW i \in 1 .. S - N
        PROVE  t[i] = SubSeq(s, N + 1, Len(s))[i]
    <3>1. N + i \in 1 .. S /\ ~(N + i <= N) /\ ~(i <= 0) /\ (N + i) - N = i /\ i - 0 = i
      BY <1>2, <1>3
    <3>2. s[N + i] = ring.buf[After(ring.Head, ((N + i) - N) - 1)]
      BY <1>6, <1>8, <3>1
    <3>3. t[i] = ring.buf[After(ring.Head, (i - 0) - 1)]
      BY <1>7, <1>9, <3>1
    <3>4. SubSeq(s, N + 1, Len(s))[i] = s[N + i]
      BY <1>11, <1>12
    <3> QED  BY <3>1, <3>2, <3>3, <3>4
  <2> QED  BY <1>11, <1>12, <2>1, <2>2, SeqEqual
<1>15. /\ N \in 0 .. Len(Content)
       /\ result' = SubSeq(Content, 1, N) /\ Content' = SubSeq(Content, N + 1, Len(Content))
  BY <1>1, <1>8, <1>9, <1>10, <1>11, <1>13, <1>14
<1> QED  BY <1>15 DEF Queue!Read

\* Every step is one of the queue or leaves it alone.
LEMMA QueueStep ==
  ASSUME ~RxDuringRead
  PROVE  TypeInv /\ TypeInv' /\ RingInv /\ [Next]_vars
           => [Queue!Arrive \/ Queue!Read]_(Queue!byteVars)
<1> SUFFICES ASSUME TypeInv, TypeInv', RingInv, [Next]_vars
             PROVE  Queue!Arrive \/ Queue!Read \/ UNCHANGED <<Content, result>>
  BY DEF Queue!byteVars
<1>1. ASSUME NEW w \in Words \cup {<<>>}, MsmGeniSerialIsr(w)
      PROVE  Queue!Arrive \/ UNCHANGED <<Content, result>>
  BY <1>1, IsrArrives
<1>2. CASE ReadEmpty
  BY <1>2, EmptyReads
<1>3. CASE ReadByte
  <2>1. result' = result
    BY <1>3 DEF ReadByte
  <2> QED  BY <1>3, <2>1, ByteStays
<1>4. CASE ReadEnd
  BY <1>4, ReadTakes
<1>5. CASE ResetRing
  <2>1. /\ pc = "resetRing" /\ result' = result
        /\ ring' = [ring EXCEPT !.Size = 0, !.Head = 0, !.Tail = 0]
    BY <1>5 DEF ResetRing, reader
  <2>2. ring.Size = 0 /\ ring'.Size = 0
    BY <2>1, RingFacts DEF RingInv, Rings
  <2>3. Content \in Seq(Bytes) /\ Len(Content) = 0 /\ Content' \in Seq(Bytes) /\ Len(Content') = 0
    BY <2>2, ContentIs, ContentPrimed DEF ContentOK
  <2>4. Content = <<>> /\ Content' = <<>>
    BY <2>3, EmptySeq
  <2> QED  BY <2>1, <2>4
<1>6. ASSUME UNCHANGED <<ring, copied, result>>
      PROVE  UNCHANGED <<Content, result>>
  BY <1>6, QueueLeft
<1>7. CASE \/ CrDebugUartLibInit \/ RegisterFails \/ SetInputBuffer \/ SetCapacity
           \/ WriteStep \/ Transmit
  <2>1. UNCHANGED <<ring, copied, result>>
    BY <1>7 DEF CrDebugUartLibInit, RegisterFails, SetInputBuffer, SetCapacity, WriteStep,
                TxReset, TxSpace, TxIssue, TxDone, Transmit, rx, reader
  <2> QED  BY <1>6, <2>1
<1>8. CASE (\E n \in 1 .. MaxWords : SerialWrite(n)) \/ \E n \in 1 .. MaxRead : ReadBegin(n)
  <2>1. UNCHANGED <<ring, copied, result>>
    BY <1>8 DEF SerialWrite, ReadBegin, rx, reader
  <2> QED  BY <1>6, <2>1
<1>9. CASE UNCHANGED vars
  <2>1. UNCHANGED <<ring, copied, result>>
    BY <1>9 DEF vars, rx, reader
  <2> QED  BY <1>6, <2>1
<1> QED  BY <1>1, <1>2, <1>3, <1>4, <1>5, <1>7, <1>8, <1>9 DEF Next, Boot, ReadStep

\* The ring buffer, the interrupt routine and SerialRead are a queue that keeps
\* the newest bytes and from which reads take the oldest, in order and once, as
\* long as no word arrives while SerialRead runs: nothing in the code keeps one
\* from arriving, and then the count SerialRead writes back is stale.
THEOREM ImplementsQueue ==
  ASSUME ~RxDuringRead
  PROVE  Spec => RefinesQueue
<1>1. TypeInv /\ RingInv /\ [Next]_vars => RingInv'
  BY RingInvNext
<1>2. TypeInv /\ TypeInv' /\ RingInv /\ [Next]_vars
        => [Queue!Arrive \/ Queue!Read]_(Queue!byteVars)
  BY QueueStep
<1>3. Spec => [](TypeInv /\ RingInv)
  BY <1>1, TypeInvInit, TypeInvNext, RingInvInit, PTL DEF Spec
<1>4. Spec => Queue!ByteSpec
  BY <1>2, <1>3, TypeInvInit, TypeInvNext, QueueInitially, PTL DEF Spec, Queue!ByteSpec
<1> QED  BY <1>4 DEF RefinesQueue
=============================================================================
