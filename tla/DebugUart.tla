----------------------------- MODULE DebugUart -----------------------------
(***************************************************************************)
(* The debug UART: the interrupt routine MsmGeniSerialIsr puts received    *)
(* bytes into a ring buffer and notes finished transmissions; SerialRead   *)
(* takes bytes out of the ring, and MsmGeniWriteTxFifo (SerialWrite) sends *)
(* one word per round, waiting for each.  The routine may preempt the      *)
(* driver anywhere, and nothing masks it.                                  *)
(*                                                                         *)
(* The driver reads, writes and advances the ring's head byte by byte, and *)
(* one such step is atomic here; the routine handles one word per step.    *)
(***************************************************************************)
EXTENDS Naturals, Sequences

CONSTANTS
  Bytes,           \* values of a byte
  Capacity,        \* DEBUG_UART_INPUT_BUF_SIZE
  MaxRead,         \* the largest buffer given to SerialRead (a bound)
  MaxWords,        \* the most words given to SerialWrite (a bound)
  TxFifoDepth,     \* words in the transmit FIFO
  RxDuringRead,    \* words may arrive while SerialRead runs
  TimeoutsHappen,  \* a transmission may outlast DEBUG_UART_TX_TIMEOUT_US
  None             \* a byte of the ring that was never written

Words == [1 .. 4 -> Bytes]  \* of the receive FIFO
Positions == 0 .. (Capacity - 1)
GreetingWords == 6  \* of "Debug Uart Initialized.\n", 24 bytes

ASSUME SizesAssumption == {Capacity, MaxRead, MaxWords, TxFifoDepth} \subseteq Nat \ {0}
ASSUME FlagsAssumption == {RxDuringRead, TimeoutsHappen} \subseteq BOOLEAN
ASSUME NoneAssumption == None \notin Bytes

VARIABLES
  \* The ring: InputBuffer, InputBufferSize, -Head and -Tail, whether
  \* InputBuffer is set, and InputBufferCapacity.
  ring, attached, InputBufferCapacity,
  \* The driver: its place; SerialRead's locals, the bytes copied so far and
  \* those of the last read; the words a write has left, and its idea of the
  \* room in the FIFO.
  pc, Available, ToRead, copied, result, Length, AvailableTx,
  \* Transmission: the flag of the context, the words in the FIFO, whether a
  \* command is being executed, its CMD_DONE interrupt, and whether a word
  \* was ever written to a full FIFO (history).
  TxComplete, txFifo, sending, cmdDone, overrun

rx == <<ring, attached, InputBufferCapacity>>
reader == <<Available, ToRead, copied, result>>
writer == <<Length, AvailableTx>>
tx == <<TxComplete, txFifo, sending, cmdDone, overrun>>
vars == <<rx, pc, reader, writer, tx>>

Rings == [buf : [Positions -> Bytes \cup {None}], Size : 0 .. Capacity,
          Head : Positions, Tail : Positions]

TypeOK ==
  /\ ring \in Rings
  /\ attached \in BOOLEAN
  /\ InputBufferCapacity \in {0, Capacity}
  /\ pc \in {"register", "failed", "setBuffer", "resetRing", "setCapacity", "idle", "read",
             "txReset", "txSpace", "txIssue", "txWait"}
  /\ Available \in 0 .. Capacity /\ ToRead \in 0 .. MaxRead
  /\ copied \in Seq(Bytes) /\ result \in Seq(Bytes)
  /\ Length \in (0 .. MaxWords) \cup (0 .. GreetingWords) /\ AvailableTx \in 0 .. TxFifoDepth
  /\ TxComplete \in BOOLEAN /\ sending \in BOOLEAN /\ cmdDone \in BOOLEAN /\ overrun \in BOOLEAN
  /\ txFifo \in 0 .. TxFifoDepth

-----------------------------------------------------------------------------
(* The interrupt routine.                                                  *)

\* (slip) The wrap is one too late.
AdvanceLate(p) == IF p + 1 > Capacity THEN 0 ELSE p + 1

\* The position after p.
Advance(p) == IF p + 1 >= Capacity THEN 0 ELSE p + 1

\* (slip) The oldest byte is overwritten without advancing the head.
PutKeepsHead(r, byte) ==
  [buf |-> [r.buf EXCEPT ![r.Tail] = byte],
   Tail |-> Advance(r.Tail),
   Size |-> IF r.Size < Capacity THEN r.Size + 1 ELSE r.Size,
   Head |-> r.Head]

\* One byte: at the tail if there is space, else over the oldest one.
Put(r, byte) ==
  [buf |-> [r.buf EXCEPT ![r.Tail] = byte],
   Tail |-> Advance(r.Tail),
   Size |-> IF r.Size < Capacity THEN r.Size + 1 ELSE r.Size,
   Head |-> IF r.Size < Capacity THEN r.Head ELSE Advance(r.Head)]

\* The bytes of a word, the lowest first.  Without a ring, or one of capacity
\* 0, they are dropped.
Fill(r, w) ==
  IF w # <<>> /\ attached /\ InputBufferCapacity # 0
  THEN Put(Put(Put(Put(r, w[1]), w[2]), w[3]), w[4])
  ELSE r

Reading == pc = "read"

\* (slip) The interrupt is cleared, but the flag is not set.
MsmGeniSerialIsrNoFlag(w) ==
  /\ pc # "register"
  /\ cmdDone \/ w # <<>>
  /\ w # <<>> => RxDuringRead \/ ~Reading
  /\ cmdDone' = FALSE
  /\ ring' = Fill(ring, w)
  /\ UNCHANGED <<attached, InputBufferCapacity, pc, reader, writer, TxComplete, txFifo, sending, overrun>>

\* The routine is registered; a transmission is over, a word w has arrived,
\* or both.
MsmGeniSerialIsr(w) ==
  /\ pc # "register"
  /\ cmdDone \/ w # <<>>
  /\ w # <<>> => RxDuringRead \/ ~Reading
  /\ cmdDone' = FALSE
  /\ TxComplete' = (TxComplete \/ cmdDone)
  /\ ring' = Fill(ring, w)
  /\ UNCHANGED <<attached, InputBufferCapacity, pc, reader, writer, txFifo, sending, overrun>>

\* The hardware sends a word; with the last one the command is done.
Transmit ==
  /\ txFifo > 0
  /\ txFifo' = txFifo - 1
  /\ IF sending /\ txFifo = 1 THEN sending' = FALSE /\ cmdDone' = TRUE
                              ELSE UNCHANGED <<sending, cmdDone>>
  /\ UNCHANGED <<rx, pc, reader, writer, TxComplete, overrun>>

-----------------------------------------------------------------------------
(* MsmGeniWriteTxFifo.                                                     *)

\* The room in the FIFO is read once before the rounds; only its being zero
\* matters, so the unit (words here, four times as many later) does not.
StartWrite(n) ==
  /\ Length' = n
  /\ AvailableTx' = TxFifoDepth - txFifo
  /\ pc' = "txReset"

\* A round begins: TxComplete = FALSE.
TxReset ==
  /\ pc = "txReset"
  /\ TxComplete' = FALSE
  /\ pc' = "txSpace"
  /\ UNCHANGED <<rx, reader, writer, txFifo, sending, cmdDone, overrun>>

\* (slip) The wait for space is skipped.
TxSpaceIgnored ==
  /\ pc = "txSpace"
  /\ pc' = "txIssue"
  /\ UNCHANGED <<rx, reader, writer, tx>>

\* Wait until there is space in the FIFO.
TxSpace ==
  /\ pc = "txSpace"
  /\ IF AvailableTx = 0 THEN AvailableTx' = TxFifoDepth - txFifo /\ pc' = pc
                        ELSE pc' = "txIssue" /\ UNCHANGED AvailableTx
  /\ UNCHANGED <<rx, reader, Length, tx>>

\* Set up the command and write the word; a full FIFO loses it.
TxIssue ==
  /\ pc = "txIssue"
  /\ IF txFifo < TxFifoDepth THEN txFifo' = txFifo + 1 /\ UNCHANGED overrun
                             ELSE overrun' = TRUE /\ UNCHANGED txFifo
  /\ sending' = TRUE
  /\ pc' = "txWait"
  /\ UNCHANGED <<rx, reader, writer, TxComplete, cmdDone>>

\* The wait ends, because the flag is set or because the time is up.  A
\* write during initialisation returns into it.
TxDone ==
  /\ pc = "txWait"
  /\ TxComplete \/ TimeoutsHappen
  /\ Length' = Length - 1
  /\ pc' = IF Length > 1 THEN "txReset" ELSE IF attached THEN "idle" ELSE "setBuffer"
  /\ UNCHANGED <<rx, reader, AvailableTx, tx>>

SerialWrite(n) ==
  /\ pc = "idle"
  /\ StartWrite(n)
  /\ UNCHANGED <<rx, reader, tx>>

-----------------------------------------------------------------------------
(* Initialisation: CrDebugUartLibInit registers the routine and writes a   *)
(* greeting, then the entry point of the driver sets up the ring.          *)

CrDebugUartLibInit ==
  /\ pc = "register"
  /\ StartWrite(GreetingWords)
  /\ UNCHANGED <<rx, reader, tx>>

\* The routine cannot be registered; the driver does not load.
RegisterFails ==
  /\ pc = "register"
  /\ pc' = "failed"
  /\ UNCHANGED <<rx, reader, writer, tx>>

SetInputBuffer ==
  /\ pc = "setBuffer"
  /\ attached' = TRUE
  /\ pc' = "resetRing"
  /\ UNCHANGED <<ring, InputBufferCapacity, reader, writer, tx>>

ResetRing ==
  /\ pc = "resetRing"
  /\ ring' = [ring EXCEPT !.Size = 0, !.Head = 0, !.Tail = 0]
  /\ pc' = "setCapacity"
  /\ UNCHANGED <<attached, InputBufferCapacity, reader, writer, tx>>

SetCapacity ==
  /\ pc = "setCapacity"
  /\ InputBufferCapacity' = Capacity
  /\ pc' = "idle"
  /\ UNCHANGED <<ring, attached, reader, writer, tx>>

-----------------------------------------------------------------------------
(* SerialRead.                                                             *)

ReadEmpty ==
  /\ pc = "idle" /\ ring.Size = 0
  /\ result' = <<>>
  /\ UNCHANGED <<rx, pc, Available, ToRead, copied, writer, tx>>

ReadBegin(n) ==
  /\ pc = "idle" /\ ring.Size > 0
  /\ Available' = ring.Size
  /\ ToRead' = IF n < ring.Size THEN n ELSE ring.Size
  /\ pc' = "read"
  /\ UNCHANGED <<rx, copied, result, writer, tx>>

ReadByte ==
  /\ pc = "read" /\ Len(copied) < ToRead
  /\ copied' = Append(copied, ring.buf[ring.Head])
  /\ ring' = [ring EXCEPT !.Head = Advance(@)]
  /\ UNCHANGED <<attached, InputBufferCapacity, pc, Available, ToRead, result, writer, tx>>

\* The new count is computed from the one read at the beginning.
ReadEnd ==
  /\ pc = "read" /\ Len(copied) = ToRead
  /\ ring' = [ring EXCEPT !.Size = Available - ToRead]
  /\ result' = copied
  /\ copied' = <<>> /\ Available' = 0 /\ ToRead' = 0
  /\ pc' = "idle"
  /\ UNCHANGED <<attached, InputBufferCapacity, writer, tx>>

-----------------------------------------------------------------------------
\* The boot loader may have left words in the transmit FIFO.
Init ==
  /\ ring = [buf |-> [p \in Positions |-> None], Size |-> 0, Head |-> 0, Tail |-> 0]
  /\ attached = FALSE /\ InputBufferCapacity = 0
  /\ pc = "register" /\ Available = 0 /\ ToRead = 0 /\ copied = <<>> /\ result = <<>>
  /\ Length = 0 /\ AvailableTx = 0
  /\ TxComplete = FALSE /\ txFifo \in 0 .. TxFifoDepth
  /\ sending = FALSE /\ cmdDone = FALSE /\ overrun = FALSE

Boot == CrDebugUartLibInit \/ RegisterFails \/ SetInputBuffer \/ ResetRing \/ SetCapacity

\* The steps of a call that has begun.
WriteStep == TxReset \/ TxSpace \/ TxIssue \/ TxDone
ReadStep == ReadByte \/ ReadEnd

Next ==
  \/ Boot \/ WriteStep \/ ReadStep \/ Transmit
  \/ \E w \in Words \cup {<<>>} : MsmGeniSerialIsr(w)
  \/ \E n \in 1 .. MaxWords : SerialWrite(n)
  \/ ReadEmpty
  \/ \E n \in 1 .. MaxRead : ReadBegin(n)

Spec == Init /\ [][Next]_vars

\* The processor executes what it has begun and takes its interrupts, and
\* the line is not held up for ever.
Fairness ==
  /\ WF_vars(WriteStep)
  /\ WF_vars(Transmit)
  /\ WF_vars(cmdDone /\ MsmGeniSerialIsr(<<>>))

FairSpec == Spec /\ Fairness

-----------------------------------------------------------------------------
(* Properties.                                                             *)

\* The bytes a read has still to copy or leave, the oldest first.
After(p, n) == IF p + n < Capacity THEN p + n ELSE p + n - Capacity
Content ==
  copied \o [n \in 1 .. ring.Size - Len(copied) |-> ring.buf[After(ring.Head, n - 1)]]

\* The ring holds the newest bytes received since it was set up, and a read
\* returns the oldest of those, in order and once.
Queue == INSTANCE ByteQueue WITH queue <- Content
RefinesQueue == Queue!ByteSpec

\* A byte that arrives when the ring is full replaces the oldest one:
\* "buffer full: overwrite oldest by advancing head, then write at tail"
\* (debug_uart.c:85).
OverwritesOldest == ring.Size = Capacity /\ ~Reading => ring.Head = ring.Tail

\* No word is written to a full FIFO: "Wait until there is space in TX FIFO"
\* (debug_uart.c:134).
NoOverrun == ~overrun

\* A write returns: no completion is missed between the reset of the flag and
\* the wait for it.
WriteReturns == pc \in {"txReset", "txSpace", "txIssue", "txWait"} ~> pc \in {"idle", "setBuffer"}
=============================================================================
