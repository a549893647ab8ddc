--------------------------- MODULE GpioIrqProofs ---------------------------
(***************************************************************************)
(* Theorems about GpioIrq: its variables have their types; a pin that can  *)
(* interrupt has an entry the walk reaches; a pin about to be enabled      *)
(* detects what was asked for; and the table, whatever store GpioIsr       *)
(* interrupts, is a registry of interrupts for the pins.                   *)
(***************************************************************************)
EXTENDS GpioIrq, FiniteSetTheorems, SequenceTheorems, TLAPS

-----------------------------------------------------------------------------
(* The invariant of the table.                                             *)

\* The order in which the fields of an entry are filled and cleared, and that
\* in which they are copied.
FieldOrder == <<"Handler", "Param", "PinInfo", "PinNumber">>
CopyOrder == <<"Handler", "PinNumber", "Param", "PinInfo">>

\* The first d fields of entry e are new, the others are as they were.
Half(e, order, d, new, old) ==
  \A m \in 1 .. 4 : e[order[m]] = IF m <= d THEN new ELSE old

\* The pin that an entry is for, if the walk takes it to be in use.
UseOf(e) ==
  IF e.PinInfo # None /\ e.PinNumber # None /\ e.Handler # None THEN e.PinNumber ELSE None

\* All of entry k is for pin p, or empty.
Whole(k, p) == \A f \in Fields : table[k][f] = p

\* The stores that are left, as many as are not done yet: of an entry being
\* filled, of one being cleared, and of one being moved.
FillFits ==
  /\ Len(stores) \in 1 .. 4
  /\ \A m \in 1 .. Len(stores) : stores[m] = <<i, FieldOrder[m + 4 - Len(stores)], conf.pin>>
  /\ Half(table[i], FieldOrder, 4 - Len(stores), conf.pin, None)

DropFits ==
  /\ Len(stores) \in 1 .. 4
  /\ \A m \in 1 .. Len(stores) : stores[m] = <<i, FieldOrder[m + 4 - Len(stores)], None>>
  /\ Half(table[i], FieldOrder, 4 - Len(stores), None, conf.pin)

MoveFits(q) ==
  /\ Len(stores) \in 1 .. 8
  /\ \A m \in 1 .. Len(stores) :
       stores[m] = IF m + 8 - Len(stores) <= 4
                   THEN <<i, CopyOrder[m + 8 - Len(stores)], q>>
                   ELSE <<i + 1, FieldOrder[m + 4 - Len(stores)], None>>
  /\ Half(table[i], CopyOrder, 8 - Len(stores), q, None)
  /\ Half(table[i + 1], FieldOrder, 4 - Len(stores), None, q)

StoresFit ==
  /\ pc = "store" => FillFits
  /\ pc = "drop" => DropFits
  /\ pc = "next" => Whole(i, None)
  /\ pc = "move" => \E q \in Pins : MoveFits(q)
  /\ pc \notin {"store", "drop", "move"} => stores = <<>>

\* The entries being filled, cleared or moved.
Holes == IF pc \in {"store", "drop", "next"} THEN {i} ELSE IF pc = "move" THEN {i, i + 1} ELSE {}

\* But for those, the first n entries are registrations and the others empty.
Filled(n) ==
  \A k \in Slots \ Holes : IF k <= n THEN \E p \in Pins : Whole(k, p) ELSE Whole(k, None)

\* Where a call is among them.
Placed(n) ==
  /\ pc \in {"idle", "mask"} => i = 1
  /\ pc = "scan" => i <= n + 1
  /\ pc = "store" => i = n + 1
  /\ pc \in {"drop", "next"} => i <= n
  /\ pc = "move" => i < n

Shape == \E n \in 0 .. MaxEntries : Filled(n) /\ Placed(n)

\* What a call is about.
CallFits ==
  /\ pc \in {"scan", "store", "clean", "config", "enable"} => conf \in Requests
  /\ pc \in {"mask", "find", "drop", "next", "move"} => conf \in Removals

\* The pin for which the walk finds entry k, if for any.
Reg(k) == IF Copied(k) THEN None ELSE UseOf(table[k])
Registered == {p \in Pins : \E k \in Slots : Reg(k) = p}

\* No two entries are for one pin.
Unique == \A j, k \in Slots : Reg(j) = Reg(k) /\ Reg(j) # None => j = k

\* A pin is registered from the last store of its registration to the first
\* of its removal.
Single ==
  /\ Unique
  /\ pc \in {"scan", "store"} => conf.pin \notin Registered
  /\ pc \in {"clean", "config", "enable"} => conf.pin \in Registered

TableInv == CallFits /\ StoresFit /\ Shape /\ Single

\* Only a registered pin is enabled, and one that is being removed is not.
EnabledInv ==
  /\ \A p \in Pins : cfg[p].en => p \in Registered /\ p \notin Reserved
  /\ pc \in {"find", "drop", "next", "move"} => ~cfg[conf.pin].en

-----------------------------------------------------------------------------
(* Entries half filled, half cleared and half copied.                      *)

Orders == {FieldOrder, CopyOrder}

\* Both orders name every field once.
LEMMA OrderFields ==
  ASSUME NEW o \in Orders
  PROVE  /\ \A m \in 1 .. 4 : o[m] \in Fields
         /\ \A l, m \in 1 .. 4 : o[l] = o[m] => l = m
         /\ \A f \in Fields : \E m \in 1 .. 4 : o[m] = f
<1>1. ASSUME o = FieldOrder
      PROVE  o[1] = "Handler" /\ o[2] = "Param" /\ o[3] = "PinInfo" /\ o[4] = "PinNumber"
  BY <1>1 DEF FieldOrder
<1>2. ASSUME o = CopyOrder
      PROVE  o[1] = "Handler" /\ o[2] = "PinNumber" /\ o[3] = "Param" /\ o[4] = "PinInfo"
  BY <1>2 DEF CopyOrder
<1>3. \A m \in 1 .. 4 : m = 1 \/ m = 2 \/ m = 3 \/ m = 4
  OBVIOUS
<1>4. \A m \in 1 .. 4 : o[m] \in Fields
  BY <1>1, <1>2, <1>3 DEF Orders, Fields
<1>5. \A l, m \in 1 .. 4 : o[l] = o[m] => l = m
  BY <1>1, <1>2, <1>3 DEF Orders
<1>6. \A f \in Fields : \E m \in 1 .. 4 : o[m] = f
  BY <1>1, <1>2 DEF Orders, Fields
<1>7. QED
  BY <1>4, <1>5, <1>6

\* An entry of which no field is new is the old one, and one of which all
\* are is the new one.
LEMMA HalfEnds ==
  ASSUME NEW e, NEW o \in Orders, NEW d \in Int, NEW new, NEW old
  PROVE  /\ d <= 0 => (Half(e, o, d, new, old) <=> \A f \in Fields : e[f] = old)
         /\ d >= 4 => (Half(e, o, d, new, old) <=> \A f \in Fields : e[f] = new)
BY OrderFields DEF Half

\* One more field is stored.
LEMMA HalfMore ==
  ASSUME NEW e, NEW u, NEW o \in Orders, NEW d \in 0 .. 3, NEW new, NEW old,
         Half(e, o, d, new, old), u[o[d + 1]] = new,
         \A f \in Fields \ {o[d + 1]} : u[f] = e[f]
  PROVE  Half(u, o, d + 1, new, old)
<1>1. ASSUME NEW m \in 1 .. 4 PROVE u[o[m]] = IF m <= d + 1 THEN new ELSE old
  <2>1. CASE m = d + 1
    BY <2>1
  <2>2. CASE m # d + 1
    <3>1. o[m] # o[d + 1] /\ o[m] \in Fields
      BY <2>2, OrderFields
    <3>2. u[o[m]] = e[o[m]]
      BY <3>1
    <3>3. QED
      BY <2>2, <3>2 DEF Half
  <2>3. QED
    BY <2>1, <2>2
<1>2. QED
  BY <1>1 DEF Half

\* An entry is in use only when it is complete: the handler is the first
\* field stored, and of the others one that the walk looks at is the last.
LEMMA HalfUse ==
  ASSUME NEW e, NEW o \in Orders, NEW d \in Int, NEW p \in Pins
  PROVE  /\ Half(e, o, d, p, None) => UseOf(e) = IF d >= 4 THEN p ELSE None
         /\ Half(e, o, d, None, p) => UseOf(e) = IF d <= 0 THEN p ELSE None
<1>0. p # None
  BY NoneAssumption
<1>1. ASSUME Half(e, o, d, p, None), d >= 4 PROVE UseOf(e) = p
  BY <1>0, <1>1, HalfEnds DEF UseOf, Fields
<1>2. ASSUME Half(e, o, d, None, p), d <= 0 PROVE UseOf(e) = p
  BY <1>0, <1>2, HalfEnds DEF UseOf, Fields
<1>3. o[1] = "Handler" /\ (o[4] = "PinNumber" \/ o[4] = "PinInfo")
  BY DEF Orders, FieldOrder, CopyOrder
<1>4. ASSUME Half(e, o, d, p, None), d < 4 PROVE UseOf(e) = None
  BY <1>3, <1>4 DEF UseOf, Half
<1>5. ASSUME Half(e, o, d, None, p), d > 0 PROVE UseOf(e) = None
  BY <1>3, <1>5 DEF UseOf, Half
<1>6. QED
  BY <1>1, <1>2, <1>4, <1>5

-----------------------------------------------------------------------------
(* The variables have their types.                                         *)

\* The request of a call.
LEMMA RequestFields ==
  /\ \A r \in Requests : r.pin \in Pins /\ r.type \in Types
  /\ \A r \in Removals : r.pin \in Pins
BY DEF Requests, Removals

\* In every call but none there is one.
LEMMA CallPin ==
  ASSUME TypeOK, CallFits, pc # "idle"
  PROVE  conf.pin \in Pins
BY RequestFields DEF TypeOK, CallFits

\* A field of an entry.
LEMMA EntryFields ==
  ASSUME TypeOK, NEW k \in Slots
  PROVE  /\ table[k] \in Entries
         /\ table[k].Handler \in Pins \cup {None} /\ table[k].Param \in Pins \cup {None}
         /\ table[k].PinInfo \in Pins \cup {None} /\ table[k].PinNumber \in Pins \cup {None}
BY DEF TypeOK, Entries, Fields

\* The effect of the next store to the table.
LEMMA StoreIs ==
  ASSUME TypeOK, NEW from, NEW to, Store(from, to),
         NEW k \in Slots, NEW f \in Fields, NEW x \in Pins \cup {None},
         stores[1] = <<k, f, x>>
  PROVE  /\ table' \in [Slots -> Entries]
         /\ \A j \in Slots \ {k} : table'[j] = table[j]
         /\ table'[k][f] = x
         /\ \A g \in Fields \ {f} : table'[k][g] = table[k][g]
         /\ stores' \in Seq(Slots \X Fields \X (Pins \cup {None}))
         /\ Len(stores) \in Nat \ {0}
         /\ Len(stores') = Len(stores) - 1
         /\ \A m \in 1 .. Len(stores) - 1 : stores'[m] = stores[m + 1]
<1>1. table \in [Slots -> Entries] /\ table[k] \in [Fields -> Pins \cup {None}]
  BY DEF TypeOK, Entries
<1>2. stores \in Seq(Slots \X Fields \X (Pins \cup {None})) /\ stores # <<>>
  BY DEF TypeOK, Store
<1>3. Head(stores) = <<k, f, x>>
  <2> DEFINE S == Slots \X Fields \X (Pins \cup {None})
  <2>1. stores \in Seq(S) /\ stores # <<>>
    BY <1>2
  <2> HIDE DEF S
  <2>2. Head(stores) = stores[1]
    BY <2>1
  <2>3. QED
    BY <2>2
<1>4. table' = [table EXCEPT ![k][f] = x]
  <2>1. Head(stores)[1] = k /\ Head(stores)[2] = f /\ Head(stores)[3] = x
    BY <1>3
  <2>2. table' = [table EXCEPT ![Head(stores)[1]][Head(stores)[2]] = Head(stores)[3]]
    BY Zenon DEF Store
  <2>3. QED
    BY <2>1, <2>2, Zenon
<1>5. [table[k] EXCEPT ![f] = x] \in Entries
  BY <1>1 DEF Entries
<1>6. table' \in [Slots -> Entries] /\ table'[k] = [table[k] EXCEPT ![f] = x]
  BY <1>1, <1>4, <1>5
<1>7. \A j \in Slots \ {k} : table'[j] = table[j]
  BY <1>1, <1>4
<1>8. stores' = Tail(stores)
  BY DEF Store
<1>9. /\ stores' \in Seq(Slots \X Fields \X (Pins \cup {None}))
      /\ Len(stores) \in Nat \ {0}
      /\ Len(stores') = Len(stores) - 1
      /\ \A m \in 1 .. Len(stores) - 1 : stores'[m] = stores[m + 1]
  BY <1>2, <1>8, HeadTailProperties, EmptySeq, LenProperties
<1>10. table'[k][f] = x /\ \A g \in Fields \ {f} : table'[k][g] = table[k][g]
  BY <1>1, <1>6
<1>11. QED
  BY <1>6, <1>7, <1>9, <1>10

\* The type of the table and of the stores that are left, after any store.
LEMMA StoreType ==
  ASSUME TypeOK, NEW from, NEW to, Store(from, to)
  PROVE  /\ table' \in [Slots -> Entries]
         /\ stores' \in Seq(Slots \X Fields \X (Pins \cup {None}))
<1>1. stores \in Seq(Slots \X Fields \X (Pins \cup {None})) /\ stores # <<>>
  BY DEF TypeOK, Store
<1>2. stores[1] \in Slots \X Fields \X (Pins \cup {None})
  BY <1>1
<1>3. PICK k \in Slots, f \in Fields, x \in Pins \cup {None} : stores[1] = <<k, f, x>>
  BY <1>2
<1>4. QED
  BY <1>3, StoreIs

\* The registrations that a walk finds: outside the entry being moved, filled
\* or cleared, all that are there; in it, the one that is complete.
LEMMA RegsAt ==
  ASSUME TypeOK, CallFits, StoresFit, NEW n \in 0 .. MaxEntries, Filled(n), Placed(n)
  PROVE  /\ \A k \in Slots \ Holes :
              IF k <= n THEN Reg(k) \in Pins /\ Whole(k, Reg(k)) ELSE Reg(k) = None /\ Whole(k, None)
         /\ pc = "store" => Reg(i) = None
         /\ pc = "drop" => Reg(i) = IF Len(stores) = 4 THEN conf.pin ELSE None
         /\ pc = "next" => Reg(i) = None
         /\ pc = "move" =>
              /\ i + 1 \in Slots
              /\ \A q \in Pins : MoveFits(q) =>
                   /\ Reg(i) = IF Len(stores) <= 4 THEN q ELSE None
                   /\ Reg(i + 1) = IF Len(stores) > 4 THEN q ELSE None
<1> USE NoneAssumption, MaxEntriesAssumption DEF Slots
<1>a. i \in 1 .. MaxEntries
  BY DEF TypeOK
<1>1. ASSUME NEW k \in Slots \ Holes
      PROVE IF k <= n THEN Reg(k) \in Pins /\ Whole(k, Reg(k)) ELSE Reg(k) = None /\ Whole(k, None)
  <2>1. ~Copied(k)
    BY DEF Copied, Holes
  <2>2. IF k <= n THEN \E p \in Pins : Whole(k, p) ELSE Whole(k, None)
    BY DEF Filled
  <2>3. ASSUME NEW p, Whole(k, p)
        PROVE table[k].PinInfo = p /\ table[k].PinNumber = p /\ table[k].Handler = p
    BY <2>3 DEF Whole, Fields
  <2>4. CASE k <= n
    <3>1. PICK p \in Pins : Whole(k, p)
      BY <2>2, <2>4
    <3>2. Reg(k) = p
      BY <2>1, <2>3, <3>1 DEF Reg, UseOf
    <3>3. QED
      BY <2>4, <3>1, <3>2
  <2>5. CASE k > n
    <3>1. Reg(k) = None /\ Whole(k, None)
      BY <2>1, <2>2, <2>3, <2>5 DEF Reg, UseOf
    <3>2. QED
      BY <2>5, <3>1
  <2>6. QED
    BY <2>4, <2>5
<1>2. FieldOrder \in Orders /\ CopyOrder \in Orders
  BY DEF Orders
<1>3. ASSUME pc = "store" PROVE Reg(i) = None
  <2>1. FillFits /\ conf.pin \in Pins /\ ~Copied(i)
    BY <1>3, CallPin DEF StoresFit, Copied
  <2>2. 4 - Len(stores) \in Int /\ ~(4 - Len(stores) >= 4)
    BY <2>1 DEF FillFits
  <2>3. UseOf(table[i]) = None
    BY <1>2, <2>1, <2>2, HalfUse DEF FillFits
  <2>4. QED
    BY <2>1, <2>3 DEF Reg
<1>4. ASSUME pc = "drop" PROVE Reg(i) = IF Len(stores) = 4 THEN conf.pin ELSE None
  <2>1. DropFits /\ conf.pin \in Pins /\ ~Copied(i)
    BY <1>4, CallPin DEF StoresFit, Copied
  <2>2. PICK L \in 1 .. 4 : L = Len(stores)
    BY <2>1 DEF DropFits
  <2>3. Half(table[i], FieldOrder, 4 - L, None, conf.pin)
    BY <2>1, <2>2 DEF DropFits
  <2>4. UseOf(table[i]) = IF 4 - L <= 0 THEN conf.pin ELSE None
    BY <1>2, <2>1, <2>3, HalfUse
  <2>5. 4 - L <= 0 <=> L = 4
    OBVIOUS
  <2>6. QED
    BY <2>1, <2>2, <2>4, <2>5 DEF Reg
<1>5. ASSUME pc = "next" PROVE Reg(i) = None
  BY <1>5 DEF StoresFit, Whole, Fields, Reg, UseOf
<1>6. ASSUME pc = "move", NEW q \in Pins, MoveFits(q)
      PROVE  /\ Reg(i) = IF Len(stores) <= 4 THEN q ELSE None
             /\ Reg(i + 1) = IF Len(stores) > 4 THEN q ELSE None
  <2>1. PICK L \in 1 .. 8 : L = Len(stores)
    BY <1>6 DEF MoveFits
  <2>2. Half(table[i], CopyOrder, 8 - L, q, None) /\ Half(table[i + 1], FieldOrder, 4 - L, None, q)
    BY <1>6, <2>1 DEF MoveFits
  <2>3. UseOf(table[i]) = IF 8 - L >= 4 THEN q ELSE None
    BY <1>2, <2>2, HalfUse
  <2>4. UseOf(table[i + 1]) = IF 4 - L <= 0 THEN q ELSE None
    BY <1>2, <2>2, HalfUse
  <2>5. ~Copied(i) /\ (Copied(i + 1) <=> L = 4)
    BY <1>6, <1>a, <2>1 DEF Copied
  <2>6. (8 - L >= 4 <=> L <= 4) /\ (4 - L <= 0 <=> L = 4 \/ L > 4)
    OBVIOUS
  <2>7. Reg(i) = IF L <= 4 THEN q ELSE None
    BY <2>3, <2>5, <2>6 DEF Reg
  <2>8. CASE L = 4
    BY <2>1, <2>5, <2>7, <2>8 DEF Reg
  <2>9. CASE L # 4
    <3>1. Reg(i + 1) = IF 4 - L <= 0 THEN q ELSE None
      BY <2>4, <2>5, <2>9 DEF Reg
    <3>2. Reg(i + 1) = IF L > 4 THEN q ELSE None
      BY <2>6, <2>9, <3>1
    <3>3. QED
      BY <2>1, <2>7, <3>2
  <2>10. QED
    BY <2>8, <2>9
<1>7. pc = "move" => i + 1 \in Slots
  BY <1>a DEF Placed
<1>8. QED
  BY <1>1, <1>3, <1>4, <1>5, <1>6, <1>7

\* An entry that GpioIsr takes to be in use is wholly one pin's.
LEMMA InUseWhole ==
  ASSUME TypeOK, CallFits, StoresFit, Shape, NEW k \in Slots, InUse(k)
  PROVE  \E p \in Pins : Whole(k, p)
<1> USE NoneAssumption, MaxEntriesAssumption
<1>n. PICK n \in 0 .. MaxEntries : Filled(n) /\ Placed(n)
  BY DEF Shape
<1>a. UseOf(table[k]) # None
  BY DEF InUse, UseOf
<1>1. CASE k \notin Holes
  <2>1. Whole(k, None) => ~InUse(k)
    BY DEF Whole, InUse, Fields
  <2>2. QED
    BY <1>1, <1>n, <2>1, RegsAt
<1>2. FieldOrder \in Orders /\ CopyOrder \in Orders
  BY DEF Orders
<1>3. CASE pc \in {"store", "drop", "next"} /\ k = i
  <2>1. Reg(k) # None
    BY <1>3, <1>a DEF Reg, Copied
  <2>2. pc = "drop" /\ Len(stores) = 4 /\ DropFits /\ conf.pin \in Pins
    BY <1>3, <1>n, <2>1, RegsAt, CallPin DEF StoresFit
  <2>3. Half(table[k], FieldOrder, 4 - Len(stores), None, conf.pin) /\ 4 - Len(stores) = 0
    BY <1>3, <2>2 DEF DropFits
  <2>4. QED
    BY <1>2, <2>2, <2>3, HalfEnds DEF Whole
<1>4. CASE pc = "move" /\ k \in {i, i + 1}
  <2>1. PICK q \in Pins : MoveFits(q)
    BY <1>4 DEF StoresFit
  <2>2. Len(stores) \in 1 .. 8 /\ 8 - Len(stores) \in Int /\ 4 - Len(stores) \in Int
    BY <2>1 DEF MoveFits
  <2>3. CASE k = i
    <3>1. Half(table[k], CopyOrder, 8 - Len(stores), q, None)
      BY <2>1, <2>3 DEF MoveFits
    <3>2. 8 - Len(stores) >= 4
      BY <1>2, <1>a, <2>2, <3>1, HalfUse
    <3>3. QED
      BY <1>2, <2>2, <3>1, <3>2, HalfEnds DEF Whole
  <2>4. CASE k = i + 1
    <3>1. Half(table[k], FieldOrder, 4 - Len(stores), None, q)
      BY <2>1, <2>4 DEF MoveFits
    <3>2. 4 - Len(stores) <= 0
      BY <1>2, <1>a, <2>2, <3>1, HalfUse
    <3>3. QED
      BY <1>2, <2>2, <3>1, <3>2, HalfEnds DEF Whole
  <2>5. QED
    BY <1>4, <2>3, <2>4
<1>5. QED
  BY <1>1, <1>3, <1>4 DEF Holes

\* A configuration with one field set.
LEMMA RawSet ==
  ASSUME NEW c \in Configs, NEW r \in BOOLEAN
  PROVE  /\ [c EXCEPT !.raw = r] \in Configs /\ [c EXCEPT !.raw = r].det = c.det
         /\ [c EXCEPT !.raw = r].pol = c.pol
BY DEF Configs

\* The same of its detection.
LEMMA DetSet ==
  ASSUME NEW c \in Configs, NEW d \in 0 .. 3
  PROVE  /\ [c EXCEPT !.det = d] \in Configs /\ [c EXCEPT !.det = d].det = d
         /\ [c EXCEPT !.det = d].pol = c.pol
BY DEF Configs

\* The same of its polarity.
LEMMA PolSet ==
  ASSUME NEW c \in Configs, NEW v \in 0 .. 1
  PROVE  /\ [c EXCEPT !.pol = v] \in Configs /\ [c EXCEPT !.pol = v].det = c.det
         /\ [c EXCEPT !.pol = v].pol = v
BY DEF Configs

\* What GpioSetInterruptCfg writes, field by field of the detection.
LEMMA ConfiguredFields ==
  ASSUME NEW c \in Configs, NEW t \in Types, NEW dual \in BOOLEAN
  PROVE  /\ Configured(c, t, dual) \in Configs
         /\ Configured(c, t, dual).det =
              IF t = "EDGE_RISING" THEN 1
              ELSE IF t = "EDGE_FALLING" THEN IF dual THEN 2 ELSE 1
              ELSE IF t = "EDGE_BOTH" THEN IF dual THEN 3 ELSE 1
              ELSE c.det
         /\ Configured(c, t, dual).pol =
              IF t = "LEVEL_LOW" \/ (t = "EDGE_FALLING" /\ ~dual) THEN c.pol ELSE 1
<1> DEFINE a == [c EXCEPT !.raw = TRUE]
           D(d) == [a EXCEPT !.det = d]
           b == [a EXCEPT !.pol = 1]
           B(d) == [D(d) EXCEPT !.pol = 1]
<1>0. 1 \in 0 .. 1 /\ TRUE \in BOOLEAN
  OBVIOUS
<1>1. a \in Configs /\ a.det = c.det /\ a.pol = c.pol
  BY <1>0, RawSet
<1>2. ASSUME NEW d \in 0 .. 3 PROVE D(d) \in Configs /\ D(d).det = d /\ D(d).pol = c.pol
  BY <1>1, DetSet
<1>3. b \in Configs /\ b.det = c.det /\ b.pol = 1
  BY <1>0, <1>1, PolSet
<1>4. ASSUME NEW d \in 0 .. 3 PROVE B(d) \in Configs /\ B(d).det = d /\ B(d).pol = 1
  BY <1>0, <1>2, PolSet
<1>5. /\ t = "EDGE_RISING" => Configured(c, t, dual) = B(1)
      /\ t = "EDGE_FALLING" /\ dual => Configured(c, t, dual) = B(2)
      /\ t = "EDGE_FALLING" /\ ~dual => Configured(c, t, dual) = D(1)
      /\ t = "EDGE_BOTH" /\ dual => Configured(c, t, dual) = B(3)
      /\ t = "EDGE_BOTH" /\ ~dual => Configured(c, t, dual) = B(1)
      /\ t = "LEVEL_HIGH" => Configured(c, t, dual) = b
      /\ t = "LEVEL_LOW" => Configured(c, t, dual) = a
  BY DEF Configured
<1> HIDE DEF a, b, B, D
<1>6. t \in {"EDGE_RISING", "EDGE_FALLING", "EDGE_BOTH", "LEVEL_HIGH", "LEVEL_LOW"}
  BY TypesAssumption DEF TriggerTypes
<1>7. 1 \in 0 .. 3 /\ 2 \in 0 .. 3 /\ 3 \in 0 .. 3
  OBVIOUS
<1>8. QED
  BY <1>1, <1>2, <1>3, <1>4, <1>5, <1>6, <1>7

\* It is a configuration that the pin's field for the detection can hold.
LEMMA ConfiguredConfig ==
  ASSUME NEW c \in Configs, NEW t \in Types, NEW dual \in BOOLEAN, dual \/ c.det < 2
  PROVE  Configured(c, t, dual) \in Configs /\ (dual \/ Configured(c, t, dual).det < 2)
BY ConfiguredFields

\* So is a configuration with the interrupt enabled, or masked.
LEMMA MaskedConfig ==
  ASSUME NEW c \in Configs
  PROVE  /\ Unmasked(c) \in Configs /\ Unmasked(c).det = c.det /\ Unmasked(c).en
         /\ Masked(c) \in Configs /\ Masked(c).det = c.det /\ ~Masked(c).en
<1>1. c \in [det : 0 .. 3, pol : 0 .. 1, raw : BOOLEAN, en : BOOLEAN]
  BY DEF Configs
<1>2. Unmasked(c) \in Configs /\ Unmasked(c).det = c.det /\ Unmasked(c).en
  BY <1>1 DEF Unmasked, Configs
<1>3. PICK r \in BOOLEAN : r = IF c.det = 0 THEN FALSE ELSE c.raw
  BY <1>1
<1>4. Masked(c) = [c EXCEPT !.en = FALSE, !.raw = r]
  BY <1>3 DEF Masked
<1>5. Masked(c) \in Configs /\ Masked(c).det = c.det /\ ~Masked(c).en
  BY <1>1, <1>4 DEF Configs
<1>6. QED
  BY <1>2, <1>5

\* The pins after a write of configuration c to pin p.
LEMMA WriteType ==
  ASSUME TypeOK, NEW p \in Pins, NEW c \in Configs, p \in DualEdge \/ c.det < 2,
         WriteUnlessReserved(p, c)
  PROVE  /\ cfg' \in [Pins -> Configs] /\ status' \in SUBSET Pins /\ routed' = routed
         /\ \A q \in Pins \ DualEdge : cfg'[q].det < 2
         /\ \A q \in Pins : cfg'[q] = IF q = p /\ p \notin Reserved THEN c ELSE cfg[q]
<1>0. /\ cfg \in [Pins -> Configs] /\ status \in SUBSET Pins
      /\ \A q \in Pins \ DualEdge : cfg[q].det < 2
  BY DEF TypeOK
<1>1. CASE p \in Reserved
  BY <1>0, <1>1 DEF WriteUnlessReserved, pins
<1>2. CASE p \notin Reserved
  <2>1. cfg' = [cfg EXCEPT ![p] = c] /\ routed' = routed /\ status' \in {status, status \cup {p}}
    BY <1>2 DEF WriteUnlessReserved, WriteCfg
  <2>2. QED
    BY <1>0, <1>2, <2>1
<1>3. QED
  BY <1>1, <1>2

\* The types of the driver's variables, and of the others.
DriverTypeOK ==
  /\ table \in [Slots -> Entries]
  /\ pc \in {"idle", "scan", "store", "clean", "config", "enable",
             "mask", "find", "drop", "next", "move"}
  /\ conf \in Requests \cup Removals \cup {None}
  /\ i \in Slots
  /\ stores \in Seq(Slots \X Fields \X (Pins \cup {None}))
  /\ Status \in {"SUCCESS", "UNSUPPORTED", "OUT_OF_RESOURCES", "NOT_FOUND"}
PinsTypeOK ==
  /\ cfg \in [Pins -> Configs] /\ \A p \in Pins \ DualEdge : cfg[p].det < 2
  /\ status \in SUBSET Pins
  /\ routed \in SUBSET Pins
IsrTypeOK == at \in 0 .. MaxEntries /\ called \in (Pins \X Pins \X Pins) \cup {None}

\* They are all of TypeOK.
LEMMA TypeParts == TypeOK <=> DriverTypeOK /\ PinsTypeOK /\ IsrTypeOK
BY DEF TypeOK, DriverTypeOK, PinsTypeOK, IsrTypeOK

\* At first the variables have their types.
LEMMA TypeInit == Init => TypeOK
<1> SUFFICES ASSUME Init PROVE DriverTypeOK /\ PinsTypeOK /\ IsrTypeOK
  BY TypeParts
<1>1. PICK r \in BOOLEAN : cfg = [p \in Pins |-> [det |-> 0, pol |-> 0, raw |-> r, en |-> FALSE]]
  BY DEF Init
<1> DEFINE c == [det |-> 0, pol |-> 0, raw |-> r, en |-> FALSE]
<1>2. c \in Configs /\ c.det < 2 /\ cfg = [p \in Pins |-> c]
  BY <1>1 DEF Configs
<1> HIDE DEF c
<1>3. PinsTypeOK
  BY <1>2 DEF Init, PinsTypeOK
<1>4. stores \in Seq(Slots \X Fields \X (Pins \cup {None}))
  BY DEF Init
<1>5. EmptyEntry \in Entries
  BY DEF EmptyEntry, Entries
<1>6. table \in [Slots -> Entries]
  BY <1>5 DEF Init
<1>7. DriverTypeOK
  BY <1>4, <1>6, MaxEntriesAssumption DEF Init, DriverTypeOK, Slots
<1>8. IsrTypeOK
  BY MaxEntriesAssumption DEF Init, IsrTypeOK
<1>9. QED
  BY <1>3, <1>7, <1>8

\* They are also those of the next state, for what a step leaves alone.
LEMMA TypesKept ==
  ASSUME TypeOK
  PROVE  /\ UNCHANGED <<table, driver>> => DriverTypeOK'
         /\ UNCHANGED pins => PinsTypeOK'
         /\ UNCHANGED isr => IsrTypeOK'
<1>1. UNCHANGED <<table, driver>> => DriverTypeOK'
  BY DEF TypeOK, DriverTypeOK, driver
<1>2. UNCHANGED pins => PinsTypeOK'
  BY DEF TypeOK, PinsTypeOK, pins
<1>3. UNCHANGED isr => IsrTypeOK'
  BY DEF TypeOK, IsrTypeOK, isr
<1>4. QED
  BY <1>1, <1>2, <1>3

\* Every step keeps the types.
LEMMA TypeNext ==
  ASSUME TypeOK, CallFits, StoresFit, Shape, [Next]_vars
  PROVE  TypeOK'
<1> USE MaxEntriesAssumption
<1> SUFFICES DriverTypeOK' /\ PinsTypeOK' /\ IsrTypeOK'
  BY TypeParts, PTL
<1>t. DriverTypeOK /\ PinsTypeOK /\ IsrTypeOK
  BY TypeParts
<1>n. PICK n \in 0 .. MaxEntries : Filled(n) /\ Placed(n)
  BY DEF Shape
<1>i. i \in 1 .. MaxEntries /\ at \in 0 .. MaxEntries
  BY DEF TypeOK, Slots
<1>r. ASSUME NEW s \in {"SUCCESS", "UNSUPPORTED", "OUT_OF_RESOURCES", "NOT_FOUND"}, Return(s), table' = table
      PROVE  DriverTypeOK'
  BY <1>t, <1>r DEF Return, DriverTypeOK, Slots
\* The driver's steps on the table.
<1>1. ASSUME NEW r \in Requests \cup Removals, RegisterGpioIrq(r) \/ UnregisterGpioIrq(r)
      PROVE  DriverTypeOK' /\ UNCHANGED <<pins, isr>>
  BY <1>t, <1>1 DEF RegisterGpioIrq, UnregisterGpioIrq, Goto, DriverTypeOK, pins, isr
<1>2. CASE EntryInUse \/ FindMiss
  <2>1. DriverTypeOK'
    BY <1>t, <1>2 DEF EntryInUse, FindMiss, Goto, DriverTypeOK, Slots
  <2>2. UNCHANGED <<pins, isr>>
    BY <1>2 DEF EntryInUse, FindMiss
  <2>3. QED
    BY <2>1, <2>2, TypesKept
<1>3. CASE NoFreeEntry \/ FindNone \/ LastEntry
  BY <1>3, <1>r, TypesKept DEF NoFreeEntry, FindNone, LastEntry
<1> DEFINE S == Slots \X Fields \X (Pins \cup {None})
<1>4. CASE TakeEntry
  <2>1. conf.pin \in Pins \cup {None}
    BY <1>4, CallPin DEF TakeEntry, Goto
  <2>2. <<i, "Handler", conf.pin>> \in S /\ <<i, "Param", conf.pin>> \in S
    BY <1>t, <2>1 DEF DriverTypeOK, Fields
  <2>3. <<i, "PinInfo", conf.pin>> \in S /\ <<i, "PinNumber", conf.pin>> \in S
    BY <1>t, <2>1 DEF DriverTypeOK, Fields
  <2> HIDE DEF S
  <2>4. stores' \in Seq(S)
    BY <1>4, <2>2, <2>3 DEF TakeEntry
  <2>5. DriverTypeOK'
    BY <1>t, <1>4, <2>4 DEF TakeEntry, Goto, DriverTypeOK, S
  <2>6. QED
    BY <1>4, <2>5, TypesKept DEF TakeEntry
<1>5. CASE StoreEntry \/ DropEntry \/ MoveEntry
  <2>1. PICK from \in {"store", "drop", "move"}, to \in {"clean", "next"} : Store(from, to)
    BY <1>5 DEF StoreEntry, DropEntry, MoveEntry
  <2>2. /\ table' \in [Slots -> Entries] /\ stores' \in Seq(S)
        /\ pc' \in {from, to} /\ UNCHANGED <<conf, Status, pins, isr>>
    BY <1>5, <2>1, StoreType DEF StoreEntry, DropEntry, MoveEntry, Store
  <2>3. i' \in Slots
    <3>1. CASE i' = i
      BY <1>i, <3>1 DEF Slots
    <3>2. CASE MoveEntry
      BY <1>i, <1>n, <3>2 DEF MoveEntry, Store, Placed, Slots
    <3>3. QED
      BY <1>5, <3>1, <3>2 DEF StoreEntry, DropEntry
  <2>4. DriverTypeOK'
    BY <1>t, <2>2, <2>3 DEF DriverTypeOK
  <2>5. QED
    BY <2>2, <2>4, TypesKept
<1>c. ASSUME NEW k \in Slots, stores' = Clear(k) PROVE stores' \in Seq(S)
  <2>1. <<k, "Handler", None>> \in S /\ <<k, "Param", None>> \in S
    BY DEF Fields
  <2>2. <<k, "PinInfo", None>> \in S /\ <<k, "PinNumber", None>> \in S
    BY DEF Fields
  <2> HIDE DEF S
  <2>3. QED
    BY <1>c, <2>1, <2>2 DEF Clear
<1>6. CASE FindHit
  <2>1. stores' \in Seq(S)
    BY <1>6, <1>c, <1>i DEF FindHit, Slots
  <2>2. DriverTypeOK'
    BY <1>t, <1>6, <2>1 DEF FindHit, Goto, DriverTypeOK
  <2>3. QED
    BY <1>6, <2>2, TypesKept DEF FindHit
<1>7. CASE NextEntry
  <2>1. i + 1 \in Slots
    BY <1>7, <1>i DEF NextEntry, Slots
  <2>2. /\ table[i + 1].Handler \in Pins \cup {None} /\ table[i + 1].Param \in Pins \cup {None}
        /\ table[i + 1].PinInfo \in Pins \cup {None} /\ table[i + 1].PinNumber \in Pins \cup {None}
    BY <2>1, EntryFields
  <2>3. <<i, "Handler", table[i + 1].Handler>> \in S /\ <<i, "PinNumber", table[i + 1].PinNumber>> \in S
    BY <1>t, <2>2 DEF DriverTypeOK, Fields
  <2>4. <<i, "Param", table[i + 1].Param>> \in S /\ <<i, "PinInfo", table[i + 1].PinInfo>> \in S
    BY <1>t, <2>2 DEF DriverTypeOK, Fields
  <2>5. <<i + 1, "Handler", None>> \in S /\ <<i + 1, "Param", None>> \in S
    BY <2>1 DEF Fields
  <2>6. <<i + 1, "PinInfo", None>> \in S /\ <<i + 1, "PinNumber", None>> \in S
    BY <2>1 DEF Fields
  <2> HIDE DEF S
  <2>7. Copy(i) \in Seq(S)
    BY <2>3, <2>4 DEF Copy
  <2>8. Clear(i + 1) \in Seq(S)
    BY <2>5, <2>6 DEF Clear
  <2>9. stores' \in Seq(S)
    BY <1>7, <2>7, <2>8, ConcatProperties DEF NextEntry
  <2>10. DriverTypeOK'
    BY <1>t, <1>7, <2>9 DEF NextEntry, Goto, DriverTypeOK, S
  <2>11. QED
    BY <1>7, <2>10, TypesKept DEF NextEntry
\* Those on the pins.
<1>p. pc # "idle" => conf.pin \in Pins /\ cfg[conf.pin] \in Configs
        /\ (conf.pin \in DualEdge \/ cfg[conf.pin].det < 2)
  BY <1>t, CallPin DEF PinsTypeOK
<1>w. ASSUME NEW p \in Pins, NEW c \in Configs, p \in DualEdge \/ c.det < 2, WriteUnlessReserved(p, c)
      PROVE  PinsTypeOK'
  BY <1>t, <1>w, WriteType DEF PinsTypeOK
<1>8. CASE RouteAndClean
  <2>1. DriverTypeOK' /\ UNCHANGED isr
    BY <1>t, <1>8 DEF RouteAndClean, Goto, DriverTypeOK
  <2>2. PinsTypeOK'
    BY <1>t, <1>p, <1>8 DEF RouteAndClean, Goto, PinsTypeOK
  <2>3. QED
    BY <2>1, <2>2, TypesKept
<1>9. CASE SetInterruptCfg
  <2>1. conf.type \in Types
    BY <1>9, RequestFields DEF SetInterruptCfg, CallFits
  <2> DEFINE d == conf.pin \in DualEdge
             c == Configured(cfg[conf.pin], conf.type, d)
  <2>2. d \in BOOLEAN
    OBVIOUS
  <2>3. c \in Configs /\ (d \/ c.det < 2)
    BY <1>9, <1>p, <2>1, <2>2, ConfiguredConfig DEF SetInterruptCfg
  <2>4. WriteUnlessReserved(conf.pin, c)
    BY <1>9 DEF SetInterruptCfg
  <2>5. PinsTypeOK'
    BY <1>9, <1>p, <1>w, <2>3, <2>4 DEF SetInterruptCfg
  <2>6. DriverTypeOK'
    <3>1. table' = table
      BY <1>9 DEF SetInterruptCfg
    <3>2. CASE Return("UNSUPPORTED")
      BY <1>r, <3>1, <3>2
    <3>3. CASE pc' = "enable" /\ UNCHANGED <<conf, i, stores, Status>>
      BY <1>t, <3>1, <3>3 DEF DriverTypeOK
    <3>4. QED
      BY <1>9, <3>2, <3>3 DEF SetInterruptCfg
  <2>7. QED
    BY <1>9, <2>5, <2>6, TypesKept DEF SetInterruptCfg
<1>10. CASE EnableInterrupt
  <2>1. WriteUnlessReserved(conf.pin, Unmasked(cfg[conf.pin]))
    BY <1>10 DEF EnableInterrupt
  <2>2. PinsTypeOK'
    BY <1>10, <1>p, <1>w, <2>1, MaskedConfig DEF EnableInterrupt
  <2>3. QED
    BY <1>10, <1>r, <2>2, TypesKept DEF EnableInterrupt
<1>11. CASE DisableInterrupt
  <2>1. WriteUnlessReserved(conf.pin, Masked(cfg[conf.pin])) /\ pc = "mask" /\ UNCHANGED isr
    BY <1>11 DEF DisableInterrupt, Goto
  <2>2. PinsTypeOK'
    BY <1>p, <1>w, <2>1, MaskedConfig
  <2>3. DriverTypeOK'
    BY <1>t, <1>11 DEF DisableInterrupt, Goto, DriverTypeOK
  <2>4. QED
    BY <2>1, <2>2, <2>3, TypesKept
<1>12. ASSUME NEW p \in Pins, NEW m \in BOOLEAN, MaskInterrupt(p, m)
       PROVE  DriverTypeOK' /\ PinsTypeOK' /\ IsrTypeOK'
  <2>1. cfg[p] \in Configs /\ (p \in DualEdge \/ cfg[p].det < 2)
    BY <1>t DEF PinsTypeOK
  <2>2. PICK c \in Configs : c.det = cfg[p].det /\ WriteUnlessReserved(p, c)
    BY <1>12, <2>1, MaskedConfig DEF MaskInterrupt
  <2>3. PinsTypeOK'
    BY <1>w, <2>1, <2>2
  <2>4. DriverTypeOK' /\ UNCHANGED isr
    BY <1>t, <1>12 DEF MaskInterrupt, Goto, DriverTypeOK
  <2>5. QED
    BY <2>3, <2>4, TypesKept
<1>13. ASSUME NEW p \in Pins, Event(p) PROVE DriverTypeOK' /\ PinsTypeOK' /\ IsrTypeOK'
  <2>1. PinsTypeOK'
    BY <1>t, <1>13 DEF Event, PinsTypeOK
  <2>2. QED
    BY <1>13, <2>1, TypesKept DEF Event
\* Those of GpioIsr.
<1>14. CASE GpioIsr \/ NotPending \/ EndOfTable
  <2>1. IsrTypeOK'
    BY <1>t, <1>14 DEF GpioIsr, NotPending, EndOfTable, Advance, IsrTypeOK
  <2>2. QED
    BY <1>14, <2>1, TypesKept DEF GpioIsr, NotPending, EndOfTable
<1>15. CASE CallHandler
  <2>1. at \in Slots /\ InUse(at)
    BY <1>i, <1>15 DEF CallHandler, Slots
  <2>2. PICK p \in Pins : Whole(at, p)
    BY <2>1, InUseWhole
  <2>3. called' \in Pins \X Pins \X Pins
    BY <1>15, <2>2 DEF CallHandler, Whole, Fields
  <2>4. IsrTypeOK'
    BY <1>t, <1>15, <2>3 DEF CallHandler, IsrTypeOK
  <2>5. QED
    BY <1>15, <2>4, TypesKept DEF CallHandler
<1>16. CASE HandlerReturns
  <2>1. IsrTypeOK'
    BY <1>t, <1>16 DEF HandlerReturns, Advance, IsrTypeOK
  <2>2. PinsTypeOK'
    BY <1>t, <1>16 DEF HandlerReturns, CleanIrqStatus, PinsTypeOK
  <2>3. QED
    BY <1>16, <2>1, <2>2, TypesKept DEF HandlerReturns
<1>17. CASE UNCHANGED vars
  BY <1>17, TypesKept DEF vars
<1>18. QED
  BY <1>1, <1>2, <1>3, <1>4, <1>5, <1>6, <1>7, <1>8, <1>9, <1>10, <1>11, <1>12, <1>13, <1>14,
     <1>15, <1>16, <1>17, TypesKept DEF Next, Register, Unregister, IsrStep

-----------------------------------------------------------------------------
(* The registrations in the next state.                                    *)

\* Nothing changes.
LEMMA RegsSame ==
  ASSUME \A k \in Slots : Reg(k)' = Reg(k)
  PROVE  (Unique => Unique') /\ Registered' = Registered
BY DEF Unique, Registered

\* Entry h is for pin p now.
LEMMA RegsAdd ==
  ASSUME NEW h \in Slots, NEW p \in Pins, Reg(h) = None, Reg(h)' = p, p \notin Registered,
         \A k \in Slots \ {h} : Reg(k)' = Reg(k)
  PROVE  (Unique => Unique') /\ Registered' = Registered \cup {p}
<1>0. p # None
  BY NoneAssumption
<1>1. Registered' = Registered \cup {p}
  BY <1>0, NoneAssumption DEF Registered
<1>2. \A k \in Slots : Reg(k) # p
  BY DEF Registered
<1>3. Unique => Unique'
  BY <1>0, <1>2 DEF Unique
<1>4. QED
  BY <1>1, <1>3

\* Entry h is for no pin now.
LEMMA RegsDrop ==
  ASSUME Unique, NEW h \in Slots, Reg(h)' = None, \A k \in Slots \ {h} : Reg(k)' = Reg(k)
  PROVE  Unique' /\ Registered' = Registered \ {Reg(h)}
<1>1. Unique'
  BY DEF Unique
<1>2. \A p \in Pins : p # None
  BY NoneAssumption
<1>3. ASSUME NEW p \in Pins
      PROVE (\E k \in Slots : Reg(k)' = p) <=> (\E k \in Slots : Reg(k) = p) /\ p # Reg(h)
  <2>1. ASSUME NEW k \in Slots, Reg(k)' = p PROVE Reg(k) = p /\ p # Reg(h)
    <3>1. k # h
      BY <1>2, <2>1
    <3>2. Reg(k) = p
      BY <2>1, <3>1
    <3>3. QED
      BY <1>2, <3>1, <3>2 DEF Unique
  <2>2. ASSUME NEW k \in Slots, Reg(k) = p, p # Reg(h) PROVE Reg(k)' = p
    BY <2>2
  <2>3. QED
    BY <2>1, <2>2
<1>4. Registered' = Registered \ {Reg(h)}
  BY <1>3 DEF Registered
<1>5. QED
  BY <1>1, <1>4

\* Entry h is for the pin that entry l was for.
LEMMA RegsMove ==
  ASSUME Unique, NEW h \in Slots, NEW l \in Slots \ {h},
         Reg(h) = None, Reg(h)' = Reg(l), Reg(l)' = None,
         \A k \in Slots \ {h, l} : Reg(k)' = Reg(k)
  PROVE  Unique' /\ Registered' = Registered
<1>1. Unique'
  BY DEF Unique
<1>2. \A p \in Pins : p # None
  BY NoneAssumption
<1>3. ASSUME NEW p \in Pins
      PROVE (\E k \in Slots : Reg(k)' = p) <=> (\E k \in Slots : Reg(k) = p)
  <2>1. ASSUME NEW k \in Slots, Reg(k)' = p PROVE \E j \in Slots : Reg(j) = p
    BY <1>2, <2>1
  <2>2. ASSUME NEW k \in Slots, Reg(k) = p PROVE \E j \in Slots : Reg(j)' = p
    BY <1>2, <2>2
  <2>3. QED
    BY <2>1, <2>2
<1>4. QED
  BY <1>1, <1>3 DEF Registered

\* An entry that is not stored to is for the same pin as before, unless it
\* becomes a copy or stops being one.
LEMMA RegKept ==
  ASSUME NEW k \in Slots, table'[k] = table[k], ~Copied(k), ~Copied(k)'
  PROVE  Reg(k)' = Reg(k)
BY DEF Reg

-----------------------------------------------------------------------------
(* The steps that do not store to the table.                               *)

\* The stages at which no store to the table is left.
Plain == {"idle", "scan", "clean", "config", "enable", "mask", "find"}

\* A step from one such stage to another.
LEMMA PlainStep ==
  ASSUME TypeOK, TableInv, table' = table, stores' = <<>>, pc \in Plain, pc' \in Plain, CallFits',
         pc' \in {"idle", "mask"} => i' = 1,
         pc' = "scan" => i' = 1 \/ (pc = "scan" /\ i' = i + 1 /\ table[i].Handler # None),
         pc' = "scan" => conf'.pin \notin Registered,
         pc' \in {"clean", "config", "enable"} => conf'.pin \in Registered
  PROVE  TableInv' /\ Registered' = Registered
<1> USE MaxEntriesAssumption
<1>1. \A k \in Slots : Reg(k)' = Reg(k)
  BY RegKept DEF Copied, Plain
<1>2. Unique' /\ Registered' = Registered
  BY <1>1, RegsSame DEF TableInv, Single
<1>3. Single'
  BY <1>2 DEF Single, Plain
<1>4. StoresFit'
  BY DEF StoresFit, Plain
<1>5. PICK n \in 0 .. MaxEntries : Filled(n) /\ Placed(n)
  BY DEF TableInv, Shape
<1>6. Holes = {} /\ Holes' = {}
  BY DEF Holes, Plain
<1>7. Filled(n)'
  BY <1>5, <1>6 DEF Filled, Whole
<1>8. pc' = "scan" => i' <= n + 1
  <2>1. ASSUME pc = "scan", table[i].Handler # None PROVE i <= n
    BY <1>5, <1>6, <2>1 DEF Filled, Whole, Fields, TypeOK, Slots
  <2>2. QED
    BY <2>1 DEF TypeOK, Slots
<1>9. Placed(n)'
  BY <1>8 DEF Placed, Plain
<1>10. Shape'
  BY <1>7, <1>9 DEF Shape
<1>11. QED
  BY <1>2, <1>3, <1>4, <1>10 DEF TableInv

\* A step of GpioIsr or of a pin, or one that changes nothing.
LEMMA OthersStep ==
  ASSUME TableInv, UNCHANGED <<table, driver>>
  PROVE  TableInv' /\ Registered' = Registered
<1>1. table' = table /\ pc' = pc /\ conf' = conf /\ i' = i /\ stores' = stores
  BY DEF driver
<1>2. \A k \in Slots : Reg(k)' = Reg(k)
  BY <1>1 DEF Reg, Copied
<1>3. Unique' /\ Registered' = Registered
  BY <1>2, RegsSame DEF TableInv, Single
<1>4. Single' /\ CallFits'
  BY <1>1, <1>3 DEF TableInv, Single, CallFits
<1>5. StoresFit'
  BY <1>1 DEF TableInv, StoresFit, FillFits, DropFits, MoveFits, Whole
<1>6. Shape'
  BY <1>1 DEF TableInv, Shape, Filled, Placed, Holes, Whole
<1>7. QED
  BY <1>3, <1>4, <1>5, <1>6 DEF TableInv

\* The steps of a registration before and after its stores, and those of a
\* removal before.
LEMMA PlainSteps ==
  ASSUME TypeOK, TableInv,
         \/ \E r \in Requests : RegisterGpioIrq(r)
         \/ EntryInUse \/ NoFreeEntry \/ RouteAndClean \/ SetInterruptCfg \/ EnableInterrupt
         \/ \E r \in Removals : UnregisterGpioIrq(r)
         \/ DisableInterrupt \/ FindMiss \/ FindNone
  PROVE  TableInv' /\ Registered' = Registered
<1>0. /\ pc \in Plain => stores = <<>>
      /\ pc = "idle" => i = 1
      /\ pc = "mask" => i = 1
      /\ CallFits /\ Single
  BY DEF TableInv, StoresFit, Plain, Shape, Placed
<1>1. ASSUME NEW r \in Requests, RegisterGpioIrq(r) PROVE TableInv' /\ Registered' = Registered
  <2>1. pc = "idle" /\ pc' = "scan" /\ conf' = r /\ UNCHANGED <<table, i, stores>>
    BY <1>1 DEF RegisterGpioIrq, Goto
  <2>2. r.pin \notin Registered
    <3>1. r.pin \in Pins /\ r.pin # None
      BY RequestFields, NoneAssumption
    <3>2. \A k \in Slots : table[k].PinNumber # r.pin
      BY <1>1 DEF RegisterGpioIrq
    <3>3. QED
      BY <3>1, <3>2 DEF Registered, Reg, UseOf
  <2>3. CallFits'
    BY <2>1 DEF CallFits
  <2>4. QED
    BY <1>0, <2>1, <2>2, <2>3, PlainStep DEF Plain
<1>2. CASE EntryInUse
  <2>1. /\ pc = "scan" /\ pc' = "scan" /\ UNCHANGED <<table, conf, stores>>
        /\ i' = i + 1 /\ table[i].Handler # None
    BY <1>2 DEF EntryInUse, Goto
  <2>2. CallFits'
    BY <1>0, <2>1 DEF CallFits
  <2>3. QED
    BY <1>0, <2>1, <2>2, PlainStep DEF Plain, Single
<1>3. CASE NoFreeEntry \/ FindNone \/ EnableInterrupt \/ (SetInterruptCfg /\ Return("UNSUPPORTED"))
  <2>1. pc \in Plain /\ pc' = "idle" /\ table' = table /\ i' = 1 /\ stores' = <<>>
    BY <1>3 DEF NoFreeEntry, FindNone, EnableInterrupt, SetInterruptCfg, Return, Plain
  <2>2. CallFits'
    BY <2>1 DEF CallFits
  <2>3. QED
    BY <2>1, <2>2, PlainStep DEF Plain
<1>4. CASE RouteAndClean \/ (SetInterruptCfg /\ pc' = "enable" /\ UNCHANGED <<conf, i, stores, Status>>)
  <2>1. /\ pc \in {"clean", "config"} /\ pc' \in {"config", "enable"}
        /\ UNCHANGED <<table, conf, i, stores>>
    BY <1>4 DEF RouteAndClean, SetInterruptCfg, Goto
  <2>2. CallFits'
    BY <1>0, <2>1 DEF CallFits
  <2>3. QED
    BY <1>0, <2>1, <2>2, PlainStep DEF Plain, Single
<1>5. ASSUME NEW r \in Removals, UnregisterGpioIrq(r) PROVE TableInv' /\ Registered' = Registered
  <2>1. pc = "idle" /\ pc' = "mask" /\ conf' = r /\ UNCHANGED <<table, i, stores>>
    BY <1>5 DEF UnregisterGpioIrq, Goto
  <2>2. CallFits'
    BY <2>1 DEF CallFits
  <2>3. QED
    BY <1>0, <2>1, <2>2, PlainStep DEF Plain
<1>6. CASE DisableInterrupt \/ FindMiss
  <2>1. pc \in {"mask", "find"} /\ pc' = "find" /\ UNCHANGED <<table, conf, stores>>
    BY <1>6 DEF DisableInterrupt, FindMiss, Goto
  <2>2. CallFits'
    BY <1>0, <2>1 DEF CallFits
  <2>3. QED
    BY <1>0, <2>1, <2>2, PlainStep DEF Plain
<1>7. QED
  BY <1>1, <1>2, <1>3, <1>4, <1>5, <1>6 DEF SetInterruptCfg

-----------------------------------------------------------------------------
(* The steps that fill an entry, clear one and move one.                   *)

\* A clear entry is half anything, with nothing done.
LEMMA TakeEntryStep ==
  ASSUME TypeOK, TableInv, TakeEntry
  PROVE  TableInv' /\ Registered' = Registered
<1> USE MaxEntriesAssumption
<1>1. PICK n \in 0 .. MaxEntries : Filled(n) /\ Placed(n)
  BY DEF TableInv, Shape
<1>2. /\ pc = "scan" /\ pc' = "store" /\ UNCHANGED <<table, conf, i>>
      /\ table[i].Handler = None /\ i \in Slots
      /\ stores' = << <<i, "Handler", conf.pin>>, <<i, "Param", conf.pin>>,
                      <<i, "PinInfo", conf.pin>>, <<i, "PinNumber", conf.pin>> >>
  BY DEF TakeEntry, Goto, TypeOK
<1>3. i = n + 1 /\ Whole(i, None)
  <2>1. i \notin Holes
    BY <1>2 DEF Holes
  <2>2. \A p \in Pins : ~Whole(i, p)
    BY <1>2, NoneAssumption DEF Whole, Fields
  <2>3. ~(i <= n)
    BY <1>1, <1>2, <2>1, <2>2 DEF Filled
  <2>4. Whole(i, None)
    BY <1>1, <1>2, <2>1, <2>3 DEF Filled
  <2>5. i <= n + 1
    BY <1>1, <1>2 DEF Placed
  <2>6. QED
    BY <1>2, <2>3, <2>4, <2>5 DEF Slots
<1>4. \A k \in Slots : Reg(k)' = Reg(k)
  BY <1>2, RegKept DEF Copied
<1>5. Unique' /\ Registered' = Registered
  BY <1>4, RegsSame DEF TableInv, Single
<1>6. Single' /\ CallFits'
  BY <1>2, <1>5 DEF TableInv, Single, CallFits
<1>7. FillFits'
  <2>1. Len(stores') = 4
    BY <1>2
  <2>2. \A m \in 1 .. 4 : stores'[m] = <<i, FieldOrder[m], conf.pin>>
    <3>1. stores'[1] = <<i, "Handler", conf.pin>> /\ stores'[2] = <<i, "Param", conf.pin>>
      BY <1>2
    <3>2. stores'[3] = <<i, "PinInfo", conf.pin>> /\ stores'[4] = <<i, "PinNumber", conf.pin>>
      BY <1>2
    <3>3. /\ FieldOrder[1] = "Handler" /\ FieldOrder[2] = "Param"
          /\ FieldOrder[3] = "PinInfo" /\ FieldOrder[4] = "PinNumber"
      BY DEF FieldOrder
    <3>4. \A m \in 1 .. 4 : m = 1 \/ m = 2 \/ m = 3 \/ m = 4
      OBVIOUS
    <3>5. QED
      BY <3>1, <3>2, <3>3, <3>4
  <2>3. Half(table[i], FieldOrder, 0, conf.pin, None)
    BY <1>3, HalfEnds DEF Whole, Orders
  <2>4. \A m \in 1 .. 4 : m + 4 - 4 = m
    OBVIOUS
  <2>5. \A m \in 1 .. Len(stores') : stores'[m] = <<i', FieldOrder[m + 4 - Len(stores')], conf'.pin>>
    BY <1>2, <2>1, <2>2, <2>4
  <2>6. Half(table'[i'], FieldOrder, 4 - Len(stores'), conf'.pin, None)
    <3>1. 4 - Len(stores') = 0
      BY <2>1
    <3>2. QED
      BY <1>2, <2>3, <3>1
  <2>7. Len(stores') \in 1 .. 4
    BY <2>1
  <2>8. QED
    BY <2>5, <2>6, <2>7 DEF FillFits
<1>8. StoresFit'
  BY <1>2, <1>7 DEF StoresFit
<1>9. Filled(n)'
  BY <1>1, <1>2 DEF Filled, Holes, Whole
<1>10. Placed(n)'
  BY <1>2, <1>3 DEF Placed
<1>11. Shape'
  BY <1>9, <1>10 DEF Shape
<1>12. QED
  BY <1>5, <1>6, <1>8, <1>11 DEF TableInv

\* The entry that is found is the registration of the pin.
LEMMA FoundIs ==
  ASSUME TypeOK, TableInv, NEW n \in 0 .. MaxEntries, Filled(n), Placed(n), pc = "find", Found(i)
  PROVE  i <= n /\ Whole(i, conf.pin) /\ Reg(i) = conf.pin /\ conf.pin \in Pins
<1> USE MaxEntriesAssumption, NoneAssumption
<1>1. i \in Slots /\ i \notin Holes /\ conf.pin \in Pins
  BY CallPin DEF Holes, TypeOK, TableInv
<1>2. ~Whole(i, None)
  BY DEF Found, Whole, Fields
<1>3. IF i <= n THEN Reg(i) \in Pins /\ Whole(i, Reg(i)) ELSE Reg(i) = None /\ Whole(i, None)
  BY <1>1, RegsAt DEF TableInv
<1>4. Reg(i) = table[i].PinNumber
  BY <1>2, <1>3 DEF Whole, Fields
<1>5. QED
  BY <1>1, <1>2, <1>3, <1>4 DEF Found

\* The search ends.
LEMMA FindHitStep ==
  ASSUME TypeOK, TableInv, FindHit
  PROVE  TableInv' /\ Registered' = Registered /\ conf.pin \in Registered /\ Len(stores') = 4
<1> USE MaxEntriesAssumption
<1>1. PICK n \in 0 .. MaxEntries : Filled(n) /\ Placed(n)
  BY DEF TableInv, Shape
<1>2. /\ pc = "find" /\ pc' = "drop" /\ UNCHANGED <<table, conf, i>> /\ i \in Slots
      /\ stores' = Clear(i)
  BY DEF FindHit, Goto, TypeOK
<1>3. i <= n /\ Whole(i, conf.pin) /\ Reg(i) = conf.pin /\ conf.pin \in Pins
  BY <1>1, <1>2, FoundIs DEF FindHit
<1>4. \A k \in Slots : Reg(k)' = Reg(k)
  BY <1>2, RegKept DEF Copied
<1>5. Unique' /\ Registered' = Registered
  BY <1>4, RegsSame DEF TableInv, Single
<1>6. Single' /\ CallFits'
  BY <1>2, <1>5 DEF TableInv, Single, CallFits
<1>7. DropFits' /\ Len(stores') = 4
  <2>1. Len(stores') = 4
    BY <1>2 DEF Clear
  <2>2. \A m \in 1 .. 4 : stores'[m] = <<i, FieldOrder[m], None>>
    <3>1. stores'[1] = <<i, "Handler", None>> /\ stores'[2] = <<i, "Param", None>>
      BY <1>2 DEF Clear
    <3>2. stores'[3] = <<i, "PinInfo", None>> /\ stores'[4] = <<i, "PinNumber", None>>
      BY <1>2 DEF Clear
    <3>3. /\ FieldOrder[1] = "Handler" /\ FieldOrder[2] = "Param"
          /\ FieldOrder[3] = "PinInfo" /\ FieldOrder[4] = "PinNumber"
      BY DEF FieldOrder
    <3>4. \A m \in 1 .. 4 : m = 1 \/ m = 2 \/ m = 3 \/ m = 4
      OBVIOUS
    <3>5. QED
      BY <3>1, <3>2, <3>3, <3>4
  <2>3. Half(table[i], FieldOrder, 0, None, conf.pin)
    BY <1>3, HalfEnds DEF Whole, Orders
  <2>4. \A m \in 1 .. 4 : m + 4 - 4 = m
    OBVIOUS
  <2>5. \A m \in 1 .. Len(stores') : stores'[m] = <<i', FieldOrder[m + 4 - Len(stores')], None>>
    BY <1>2, <2>1, <2>2, <2>4
  <2>6. Half(table'[i'], FieldOrder, 4 - Len(stores'), None, conf'.pin)
    <3>1. 4 - Len(stores') = 0
      BY <2>1
    <3>2. QED
      BY <1>2, <2>3, <3>1
  <2>7. Len(stores') \in 1 .. 4
    BY <2>1
  <2>8. QED
    BY <2>1, <2>5, <2>6, <2>7 DEF DropFits
<1>8. StoresFit'
  BY <1>2, <1>7 DEF StoresFit
<1>9. Filled(n)'
  BY <1>1, <1>2 DEF Filled, Holes, Whole
<1>10. Placed(n)'
  BY <1>2, <1>3 DEF Placed
<1>11. Shape'
  BY <1>9, <1>10 DEF Shape
<1>12. conf.pin \in Registered
  BY <1>2, <1>3 DEF Registered
<1>13. QED
  BY <1>5, <1>6, <1>7, <1>8, <1>11, <1>12 DEF TableInv

\* A store to the entry being filled or cleared: x is what it is filled with.
LEMMA FieldStored ==
  ASSUME TypeOK, NEW from, NEW to, Store(from, to), i \in Slots, UNCHANGED <<conf, i>>,
         NEW x \in Pins \cup {None}, NEW y,
         Len(stores) \in 1 .. 4,
         \A m \in 1 .. Len(stores) : stores[m] = <<i, FieldOrder[m + 4 - Len(stores)], x>>,
         Half(table[i], FieldOrder, 4 - Len(stores), x, y)
  PROVE  /\ \A j \in Slots \ {i} : table'[j] = table[j]
         /\ Len(stores') = Len(stores) - 1
         /\ \A m \in 1 .. Len(stores') : stores'[m] = <<i, FieldOrder[m + 4 - Len(stores')], x>>
         /\ Half(table'[i], FieldOrder, 4 - Len(stores'), x, y)
<1>1. PICK L \in 1 .. 4 : L = Len(stores)
  OBVIOUS
<1>2. FieldOrder \in Orders
  BY DEF Orders
<1>3. FieldOrder[5 - L] \in Fields
  BY <1>2, OrderFields
<1>4. stores[1] = <<i, FieldOrder[5 - L], x>>
  <2>1. 1 \in 1 .. L /\ 1 + 4 - L = 5 - L
    OBVIOUS
  <2>2. stores[1] = <<i, FieldOrder[1 + 4 - L], x>>
    BY <1>1, <2>1
  <2>3. QED
    BY <2>1, <2>2
<1>5. /\ \A j \in Slots \ {i} : table'[j] = table[j]
      /\ table'[i][FieldOrder[5 - L]] = x
      /\ \A g \in Fields \ {FieldOrder[5 - L]} : table'[i][g] = table[i][g]
      /\ Len(stores') = L - 1
      /\ \A m \in 1 .. L - 1 : stores'[m] = stores[m + 1]
  BY <1>1, <1>3, <1>4, StoreIs
<1>6. Half(table'[i], FieldOrder, 5 - L, x, y)
  <2>1. PICK d \in 0 .. 3 : d = 4 - L /\ d + 1 = 5 - L
    OBVIOUS
  <2>2. Half(table[i], FieldOrder, d, x, y)
    BY <1>1, <2>1
  <2>3. table'[i][FieldOrder[d + 1]] = x /\ \A g \in Fields \ {FieldOrder[d + 1]} : table'[i][g] = table[i][g]
    BY <1>5, <2>1
  <2>4. Half(table'[i], FieldOrder, d + 1, x, y)
    BY <1>2, <2>2, <2>3, HalfMore
  <2>5. QED
    BY <2>1, <2>4
<1>7. ASSUME NEW m \in 1 .. L - 1 PROVE stores'[m] = <<i, FieldOrder[m + 4 - (L - 1)], x>>
  <2>1. m + 1 \in 1 .. L /\ (m + 1) + 4 - L = m + 4 - (L - 1)
    OBVIOUS
  <2>2. stores[m + 1] = <<i, FieldOrder[(m + 1) + 4 - L], x>>
    BY <1>1, <2>1
  <2>3. QED
    BY <1>5, <2>1, <2>2
<1>8. 4 - (L - 1) = 5 - L
  OBVIOUS
<1>9. QED
  BY <1>1, <1>5, <1>6, <1>7, <1>8

\* A registration goes on: with its last store the pin is registered.
LEMMA StoreEntryStep ==
  ASSUME TypeOK, TypeOK', TableInv, StoreEntry
  PROVE  /\ TableInv'
         /\ pc' \in {"store", "clean"}
         /\ Registered' = IF pc' = "clean" THEN Registered \cup {conf.pin} ELSE Registered
<1> USE MaxEntriesAssumption
<1>1. PICK n \in 0 .. MaxEntries : Filled(n) /\ Placed(n)
  BY DEF TableInv, Shape
<1>2. /\ pc = "store" /\ UNCHANGED <<conf, i>> /\ i \in Slots /\ i = n + 1
      /\ Store("store", "clean") /\ pc' = IF Len(stores) = 1 THEN "clean" ELSE "store"
  BY <1>1 DEF StoreEntry, Store, TypeOK, Placed
<1>3. FillFits /\ conf.pin \in Pins /\ conf.pin \notin Registered /\ Unique
  BY <1>2, CallPin DEF TableInv, StoresFit, Single
<1>4. PICK L \in 1 .. 4 : L = Len(stores)
  BY <1>3 DEF FillFits
<1>5. /\ \A j \in Slots \ {i} : table'[j] = table[j]
      /\ Len(stores') = L - 1
      /\ \A m \in 1 .. Len(stores') : stores'[m] = <<i, FieldOrder[m + 4 - Len(stores')], conf.pin>>
      /\ Half(table'[i], FieldOrder, 4 - Len(stores'), conf.pin, None)
  BY <1>2, <1>3, <1>4, FieldStored DEF FillFits
<1>6. Half(table'[i], FieldOrder, 5 - L, conf.pin, None)
  <2>1. 4 - Len(stores') = 5 - L
    BY <1>5
  <2>2. QED
    BY <1>5, <2>1
<1>7. FieldOrder \in Orders
  BY DEF Orders
<1>8. \A j \in Slots \ {i} : Reg(j)' = Reg(j)
  BY <1>2, <1>5, RegKept DEF Copied
<1>9. Reg(i) = None
  BY <1>1, <1>2, RegsAt DEF TableInv
<1>10. Reg(i)' = IF L = 1 THEN conf.pin ELSE None
  <2>1. UseOf(table'[i]) = IF 5 - L >= 4 THEN conf.pin ELSE None
    BY <1>3, <1>6, <1>7, HalfUse
  <2>2. 5 - L >= 4 <=> L = 1
    OBVIOUS
  <2>3. Reg(i)' = UseOf(table'[i])
    BY <1>2 DEF Reg, Copied, UseOf
  <2>4. QED
    BY <2>1, <2>2, <2>3
<1>11. CallFits'
  BY <1>2 DEF TableInv, CallFits
<1>12. CASE L = 1
  <2>1. pc' = "clean"
    BY <1>2, <1>4, <1>12
  <2>2. stores' = <<>>
    BY <1>5, <1>12, EmptySeq DEF TypeOK
  <2>3. Unique' /\ Registered' = Registered \cup {conf.pin}
    BY <1>2, <1>3, <1>8, <1>9, <1>10, <1>12, RegsAdd
  <2>4. Single'
    BY <1>2, <1>3, <2>1, <2>3 DEF Single
  <2>5. StoresFit'
    BY <2>1, <2>2 DEF StoresFit
  <2>6. \A f \in Fields : table'[i][f] = conf.pin
    <3>1. 5 - L >= 4
      BY <1>12
    <3>2. QED
      BY <1>6, <1>7, <3>1, HalfEnds
  <2>7. n + 1 \in 0 .. MaxEntries
    BY <1>2 DEF Slots
  <2>8. Filled(n + 1)'
    <3>1. ASSUME NEW k \in Slots, k # i
          PROVE IF k <= n + 1 THEN \E p \in Pins : Whole(k, p)' ELSE Whole(k, None)'
      <4>1. k \notin Holes /\ (k <= n + 1 <=> k <= n)
        BY <1>2, <3>1 DEF Holes, Slots
      <4>2. QED
        BY <1>1, <1>5, <3>1, <4>1 DEF Filled, Whole
    <3>2. \E p \in Pins : Whole(i, p)'
      BY <1>2, <1>3, <2>6 DEF Whole
    <3>3. QED
      BY <1>2, <3>1, <3>2 DEF Filled
  <2>9. Placed(n + 1)'
    BY <2>1 DEF Placed
  <2>10. Shape'
    BY <2>7, <2>8, <2>9 DEF Shape
  <2>11. QED
    BY <1>11, <2>1, <2>3, <2>4, <2>5, <2>10 DEF TableInv
<1>13. CASE L # 1
  <2>1. pc' = "store"
    <3>1. Len(stores) # 1
      BY <1>4, <1>13
    <3>2. QED
      BY <1>2, <3>1
  <2>2. \A k \in Slots : Reg(k)' = Reg(k)
    <3>1. Reg(i)' = Reg(i)
      BY <1>9, <1>10, <1>13
    <3>2. QED
      BY <1>2, <1>8, <3>1
  <2>3. Unique' /\ Registered' = Registered
    BY <1>3, <2>2, RegsSame
  <2>4. Single'
    BY <1>2, <1>3, <2>1, <2>3 DEF Single
  <2>5. Len(stores') \in 1 .. 4
    BY <1>5, <1>13
  <2>6. FillFits'
    BY <1>2, <1>5, <2>5 DEF FillFits
  <2>7. StoresFit'
    BY <2>1, <2>6 DEF StoresFit
  <2>8. Filled(n)' /\ Placed(n)'
    BY <1>1, <1>2, <1>5, <2>1 DEF Filled, Placed, Holes, Whole
  <2>9. Shape'
    BY <2>8 DEF Shape
  <2>10. QED
    BY <1>11, <2>1, <2>3, <2>4, <2>7, <2>9 DEF TableInv
<1>14. QED
  BY <1>12, <1>13

\* A removal goes on: with its first store the pin is not registered.
LEMMA DropEntryStep ==
  ASSUME TypeOK, TypeOK', TableInv, DropEntry
  PROVE  /\ TableInv'
         /\ pc = "drop" /\ pc' \in {"drop", "next"} /\ Len(stores) \in 1 .. 4
         /\ Len(stores') = Len(stores) - 1
         /\ IF Len(stores) = 4
            THEN conf.pin \in Registered /\ Registered' = Registered \ {conf.pin}
            ELSE Registered' = Registered
<1> USE MaxEntriesAssumption
<1>1. PICK n \in 0 .. MaxEntries : Filled(n) /\ Placed(n)
  BY DEF TableInv, Shape
<1>2. /\ pc = "drop" /\ UNCHANGED <<conf, i>> /\ i \in Slots /\ i <= n
      /\ Store("drop", "next") /\ pc' = IF Len(stores) = 1 THEN "next" ELSE "drop"
  BY <1>1 DEF DropEntry, Store, TypeOK, Placed
<1>3. DropFits /\ conf.pin \in Pins /\ Unique
  BY <1>2, CallPin DEF TableInv, StoresFit, Single
<1>4. PICK L \in 1 .. 4 : L = Len(stores)
  BY <1>3 DEF DropFits
<1>5. /\ \A j \in Slots \ {i} : table'[j] = table[j]
      /\ Len(stores') = L - 1
      /\ \A m \in 1 .. Len(stores') : stores'[m] = <<i, FieldOrder[m + 4 - Len(stores')], None>>
      /\ Half(table'[i], FieldOrder, 4 - Len(stores'), None, conf.pin)
  BY <1>2, <1>3, <1>4, FieldStored DEF DropFits
<1>6. Half(table'[i], FieldOrder, 5 - L, None, conf.pin)
  <2>1. 4 - Len(stores') = 5 - L
    BY <1>5
  <2>2. QED
    BY <1>5, <2>1
<1>7. FieldOrder \in Orders
  BY DEF Orders
<1>8. \A j \in Slots \ {i} : Reg(j)' = Reg(j)
  BY <1>2, <1>5, RegKept DEF Copied
<1>9. Reg(i) = IF L = 4 THEN conf.pin ELSE None
  BY <1>1, <1>2, <1>4, RegsAt DEF TableInv
<1>10. Reg(i)' = None
  <2>1. UseOf(table'[i]) = IF 5 - L <= 0 THEN conf.pin ELSE None
    BY <1>3, <1>6, <1>7, HalfUse
  <2>2. ~(5 - L <= 0)
    OBVIOUS
  <2>3. Reg(i)' = UseOf(table'[i])
    BY <1>2 DEF Reg, Copied, UseOf
  <2>4. QED
    BY <2>1, <2>2, <2>3
<1>11. Unique' /\ Registered' = Registered \ {Reg(i)}
  BY <1>2, <1>3, <1>8, <1>10, RegsDrop
<1>12. None \notin Registered
  BY NoneAssumption DEF Registered
<1>13. IF L = 4 THEN conf.pin \in Registered /\ Registered' = Registered \ {conf.pin}
       ELSE Registered' = Registered
  BY <1>2, <1>3, <1>9, <1>11, <1>12 DEF Registered
<1>14. CallFits' /\ Single'
  BY <1>2, <1>11 DEF TableInv, CallFits, Single
<1>15. CASE L = 1
  <2>1. pc' = "next"
    BY <1>2, <1>4, <1>15
  <2>2. stores' = <<>>
    BY <1>5, <1>15, EmptySeq DEF TypeOK
  <2>3. Whole(i, None)'
    <3>1. 5 - L >= 4
      BY <1>15
    <3>2. \A f \in Fields : table'[i][f] = None
      BY <1>6, <1>7, <3>1, HalfEnds
    <3>3. QED
      BY <1>2, <3>2 DEF Whole
  <2>4. StoresFit'
    BY <2>1, <2>2, <2>3 DEF StoresFit
  <2>5. Filled(n)' /\ Placed(n)'
    BY <1>1, <1>2, <1>5, <2>1 DEF Filled, Placed, Holes, Whole
  <2>6. TableInv'
    BY <1>14, <2>4, <2>5 DEF TableInv, Shape
  <2>7. QED
    BY <1>2, <1>4, <1>5, <1>13, <2>1, <2>6
<1>16. CASE L # 1
  <2>1. pc' = "drop"
    BY <1>2, <1>4, <1>16
  <2>2. Len(stores') \in 1 .. 4
    BY <1>5, <1>16
  <2>3. DropFits'
    BY <1>2, <1>5, <2>2 DEF DropFits
  <2>4. StoresFit'
    BY <2>1, <2>3 DEF StoresFit
  <2>5. Filled(n)' /\ Placed(n)'
    BY <1>1, <1>2, <1>5, <2>1 DEF Filled, Placed, Holes, Whole
  <2>6. TableInv'
    BY <1>14, <2>4, <2>5 DEF TableInv, Shape
  <2>7. QED
    BY <1>2, <1>4, <1>5, <1>13, <2>1, <2>6
<1>17. QED
  BY <1>15, <1>16

\* An entry in use after the one cleared is about to be copied to it.
LEMMA NextEntryStep ==
  ASSUME TypeOK, TableInv, NextEntry
  PROVE  TableInv' /\ Registered' = Registered
<1> USE MaxEntriesAssumption
<1>1. PICK n \in 0 .. MaxEntries : Filled(n) /\ Placed(n)
  BY DEF TableInv, Shape
<1>2. /\ pc = "next" /\ pc' = "move" /\ UNCHANGED <<table, conf, i>> /\ i \in Slots /\ i + 1 \in Slots
      /\ table[i + 1].Handler # None /\ i <= n
      /\ stores' = Copy(i) \o Clear(i + 1)
  BY <1>1 DEF NextEntry, Goto, TypeOK, Slots, Placed
<1>3. Whole(i, None)
  BY <1>2 DEF TableInv, StoresFit
<1>4. PICK q \in Pins : i + 1 <= n /\ Whole(i + 1, q)
  <2>1. i + 1 \notin Holes
    BY <1>2 DEF Holes, Slots
  <2>2. ~Whole(i + 1, None)
    BY <1>2 DEF Whole, Fields
  <2>3. QED
    BY <1>1, <1>2, <2>1, <2>2 DEF Filled
<1>5. Len(stores') = 8
  BY <1>2, ConcatProperties DEF Copy, Clear
<1>6. \A k \in Slots : Reg(k)' = Reg(k)
  BY <1>2, <1>5, RegKept DEF Copied
<1>7. Unique' /\ Registered' = Registered
  BY <1>6, RegsSame DEF TableInv, Single
<1>8. Single' /\ CallFits'
  BY <1>2, <1>7 DEF TableInv, Single, CallFits
<1>9. ASSUME NEW m \in 1 .. 8
      PROVE stores'[m] = IF m <= 4 THEN <<i, CopyOrder[m], q>> ELSE <<i + 1, FieldOrder[m - 4], None>>
  <2>1. /\ stores'[1] = <<i, "Handler", table[i + 1].Handler>>
        /\ stores'[2] = <<i, "PinNumber", table[i + 1].PinNumber>>
        /\ stores'[3] = <<i, "Param", table[i + 1].Param>>
        /\ stores'[4] = <<i, "PinInfo", table[i + 1].PinInfo>>
    BY <1>2 DEF Copy, Clear
  <2>2. /\ stores'[5] = <<i + 1, "Handler", None>> /\ stores'[6] = <<i + 1, "Param", None>>
        /\ stores'[7] = <<i + 1, "PinInfo", None>> /\ stores'[8] = <<i + 1, "PinNumber", None>>
    BY <1>2 DEF Copy, Clear
  <2>3. /\ table[i + 1].Handler = q /\ table[i + 1].PinNumber = q
        /\ table[i + 1].Param = q /\ table[i + 1].PinInfo = q
    BY <1>4 DEF Whole, Fields
  <2>4. /\ FieldOrder[1] = "Handler" /\ FieldOrder[2] = "Param"
        /\ FieldOrder[3] = "PinInfo" /\ FieldOrder[4] = "PinNumber"
    BY DEF FieldOrder
  <2>5. /\ CopyOrder[1] = "Handler" /\ CopyOrder[2] = "PinNumber"
        /\ CopyOrder[3] = "Param" /\ CopyOrder[4] = "PinInfo"
    BY DEF CopyOrder
  <2>6. CASE m \in 1 .. 4
    <3>1. m = 1 \/ m = 2 \/ m = 3 \/ m = 4
      BY <2>6
    <3>2. stores'[m] = <<i, CopyOrder[m], q>>
      BY <2>1, <2>3, <2>5, <3>1
    <3>3. QED
      BY <2>6, <3>2
  <2>7. CASE m \in 5 .. 8
    <3>1. PICK l \in 1 .. 4 : l = m - 4 /\ m = l + 4
      BY <2>7
    <3>2. l = 1 \/ l = 2 \/ l = 3 \/ l = 4
      OBVIOUS
    <3>3. stores'[l + 4] = <<i + 1, FieldOrder[l], None>>
      BY <2>2, <2>4, <3>2
    <3>4. stores'[m] = <<i + 1, FieldOrder[m - 4], None>>
      BY <3>1, <3>3
    <3>5. ~(m <= 4)
      BY <2>7
    <3>6. QED
      BY <3>4, <3>5
  <2>8. QED
    BY <2>6, <2>7
<1>10. MoveFits(q)'
  <2>2. \A m \in 1 .. Len(stores') :
          stores'[m] = IF m + 8 - Len(stores') <= 4
                       THEN <<i', CopyOrder[m + 8 - Len(stores')], q>>
                       ELSE <<i' + 1, FieldOrder[m + 4 - Len(stores')], None>>
    <3>1. \A m \in 1 .. 8 :
            stores'[m] = IF m + 8 - 8 <= 4
                         THEN <<i, CopyOrder[m + 8 - 8], q>>
                         ELSE <<i + 1, FieldOrder[m + 4 - 8], None>>
      <4>1. ASSUME NEW m \in 1 .. 8
            PROVE  stores'[m] = IF m + 8 - 8 <= 4
                                THEN <<i, CopyOrder[m + 8 - 8], q>>
                                ELSE <<i + 1, FieldOrder[m + 4 - 8], None>>
        <5>1. m + 8 - 8 = m /\ m + 4 - 8 = m - 4
          OBVIOUS
        <5>2. QED
          BY <1>9, <5>1
      <4>2. QED
        BY <4>1
    <3>2. i' = i
      BY <1>2
    <3>3. QED
      BY <1>5, <3>1, <3>2
  <2>3. CopyOrder \in Orders /\ FieldOrder \in Orders
    BY DEF Orders
  <2>4. 8 - Len(stores') = 0 /\ 4 - Len(stores') = -4 /\ Len(stores') \in 1 .. 8
    BY <1>5
  <2>5. Half(table[i], CopyOrder, 0, q, None)
    BY <1>3, <2>3, HalfEnds DEF Whole
  <2>6. Half(table[i + 1], FieldOrder, -4, None, q)
    BY <1>4, <2>3, HalfEnds DEF Whole
  <2>7. Half(table'[i'], CopyOrder, 8 - Len(stores'), q, None)
    BY <1>2, <2>4, <2>5
  <2>8. Half(table'[i' + 1], FieldOrder, 4 - Len(stores'), None, q)
    BY <1>2, <2>4, <2>6
  <2>9. QED
    BY <2>2, <2>4, <2>7, <2>8 DEF MoveFits
<1>11. StoresFit'
  BY <1>2, <1>10 DEF StoresFit
<1>12. Filled(n)'
  BY <1>1, <1>2 DEF Filled, Holes, Whole
<1>13. Placed(n)'
  BY <1>2, <1>4 DEF Placed, Slots
<1>14. QED
  BY <1>7, <1>8, <1>11, <1>12, <1>13 DEF TableInv, Shape

\* A store of a move: until the last field is copied to entry i the walk
\* finds entry i + 1, and from then on entry i.
LEMMA MoveStored ==
  ASSUME TypeOK, TypeOK', CallFits, StoresFit, MoveEntry, i \in Slots, i + 1 \in Slots,
         NEW q \in Pins, NEW L \in 1 .. 8,
         \A m \in 1 .. L : stores[m] = IF m + 8 - L <= 4
                                       THEN <<i, CopyOrder[m + 8 - L], q>>
                                       ELSE <<i + 1, FieldOrder[m + 4 - L], None>>,
         Half(table[i], CopyOrder, 8 - L, q, None),
         Half(table[i + 1], FieldOrder, 4 - L, None, q)
  PROVE  /\ \A j \in Slots \ {i, i + 1} : table'[j] = table[j]
         /\ Len(stores') = Len(stores) - 1
         /\ \A m \in 1 .. Len(stores) - 1 : stores'[m] = stores[m + 1]
         /\ Half(table'[i], CopyOrder, 9 - L, q, None)
         /\ Half(table'[i + 1], FieldOrder, 5 - L, None, q)
<1>1. FieldOrder \in Orders /\ CopyOrder \in Orders
  BY DEF Orders
<1>2. /\ Store("move", "next")
      /\ i # i + 1
  BY DEF MoveEntry, Slots
<1>3. 1 \in 1 .. L /\ 1 + 8 - L = 9 - L /\ 1 + 4 - L = 5 - L
  OBVIOUS
<1>4. stores[1] = IF 9 - L <= 4 THEN <<i, CopyOrder[9 - L], q>> ELSE <<i + 1, FieldOrder[5 - L], None>>
  BY <1>3
<1>5. CASE L \in 5 .. 8
  <2>1. PICK d \in 0 .. 3 : d = 8 - L /\ d + 1 = 9 - L
    BY <1>5
  <2>2. stores[1] = <<i, CopyOrder[d + 1], q>> /\ CopyOrder[d + 1] \in Fields
    BY <1>1, <1>4, <2>1, OrderFields
  <2>3. /\ \A j \in Slots \ {i} : table'[j] = table[j]
        /\ table'[i][CopyOrder[d + 1]] = q
        /\ \A g \in Fields \ {CopyOrder[d + 1]} : table'[i][g] = table[i][g]
        /\ Len(stores') = Len(stores) - 1
        /\ \A m \in 1 .. Len(stores) - 1 : stores'[m] = stores[m + 1]
    BY <1>2, <2>2, StoreIs
  <2>4. Half(table[i], CopyOrder, d, q, None)
    BY <2>1
  <2>5. Half(table'[i], CopyOrder, d + 1, q, None)
    <3>1. PICK e, u : e = table[i] /\ u = table'[i]
      OBVIOUS
    <3>2. Half(e, CopyOrder, d, q, None) /\ u[CopyOrder[d + 1]] = q
      BY <2>3, <2>4, <3>1
    <3>3. \A g \in Fields \ {CopyOrder[d + 1]} : u[g] = e[g]
      BY <2>3, <3>1
    <3>4. Half(u, CopyOrder, d + 1, q, None)
      BY <1>1, <3>2, <3>3, HalfMore
    <3>5. QED
      BY <3>1, <3>4
  <2>6. table'[i + 1] = table[i + 1]
    BY <1>2, <2>3
  <2>7. Half(table'[i + 1], FieldOrder, 5 - L, None, q)
    <3>1. 4 - L \in Int /\ 4 - L <= 0 /\ 5 - L \in Int /\ 5 - L <= 0
      BY <1>5
    <3>2. \A f \in Fields : table[i + 1][f] = q
      BY <1>1, <3>1, HalfEnds
    <3>3. QED
      BY <1>1, <2>6, <3>1, <3>2, HalfEnds
  <2>8. Half(table'[i], CopyOrder, 9 - L, q, None)
    BY <2>1, <2>5
  <2>9. QED
    BY <2>3, <2>7, <2>8
<1>6. CASE L \in 1 .. 4
  <2>1. PICK d \in 0 .. 3 : d = 4 - L /\ d + 1 = 5 - L
    BY <1>6
  <2>2. stores[1] = <<i + 1, FieldOrder[d + 1], None>> /\ FieldOrder[d + 1] \in Fields
    <3>1. ~(9 - L <= 4)
      BY <1>6
    <3>2. QED
      BY <1>1, <1>4, <2>1, <3>1, OrderFields
  <2>3. /\ \A j \in Slots \ {i + 1} : table'[j] = table[j]
        /\ table'[i + 1][FieldOrder[d + 1]] = None
        /\ \A g \in Fields \ {FieldOrder[d + 1]} : table'[i + 1][g] = table[i + 1][g]
        /\ Len(stores') = Len(stores) - 1
        /\ \A m \in 1 .. Len(stores) - 1 : stores'[m] = stores[m + 1]
    BY <1>2, <2>2, StoreIs
  <2>4. Half(table[i + 1], FieldOrder, d, None, q)
    BY <2>1
  <2>5. Half(table'[i + 1], FieldOrder, d + 1, None, q)
    <3>1. PICK e, u : e = table[i + 1] /\ u = table'[i + 1]
      OBVIOUS
    <3>2. Half(e, FieldOrder, d, None, q) /\ u[FieldOrder[d + 1]] = None
      BY <2>3, <2>4, <3>1
    <3>3. \A g \in Fields \ {FieldOrder[d + 1]} : u[g] = e[g]
      BY <2>3, <3>1
    <3>4. Half(u, FieldOrder, d + 1, None, q)
      BY <1>1, <3>2, <3>3, HalfMore
    <3>5. QED
      BY <3>1, <3>4
  <2>6. table'[i] = table[i]
    BY <1>2, <2>3
  <2>7. Half(table'[i], CopyOrder, 9 - L, q, None)
    <3>1. 8 - L \in Int /\ 8 - L >= 4 /\ 9 - L \in Int /\ 9 - L >= 4
      BY <1>6
    <3>2. \A f \in Fields : table[i][f] = q
      BY <1>1, <3>1, HalfEnds
    <3>3. QED
      BY <1>1, <2>6, <3>1, <3>2, HalfEnds
  <2>8. Half(table'[i + 1], FieldOrder, 5 - L, None, q)
    BY <2>1, <2>5
  <2>9. QED
    BY <2>3, <2>7, <2>8
<1>7. QED
  BY <1>5, <1>6

\* A move goes on.
LEMMA MoveEntryStep ==
  ASSUME TypeOK, TypeOK', TableInv, MoveEntry
  PROVE  /\ TableInv' /\ Registered' = Registered
         /\ pc = "move" /\ pc' \in {"move", "next"}
<1> USE MaxEntriesAssumption
<1>1. PICK n \in 0 .. MaxEntries : Filled(n) /\ Placed(n)
  BY DEF TableInv, Shape
<1>2. /\ pc = "move" /\ conf' = conf /\ i \in Slots /\ i + 1 \in Slots /\ i < n
      /\ pc' = IF Len(stores) = 1 THEN "next" ELSE "move"
      /\ i' = IF Len(stores) = 1 THEN i + 1 ELSE i
  BY <1>1 DEF MoveEntry, Store, TypeOK, Placed, Slots
<1>3. PICK q \in Pins : MoveFits(q)
  BY <1>2 DEF TableInv, StoresFit
<1>4. PICK L \in 1 .. 8 : L = Len(stores)
  BY <1>3 DEF MoveFits
<1>5. /\ \A m \in 1 .. L : stores[m] = IF m + 8 - L <= 4
                                       THEN <<i, CopyOrder[m + 8 - L], q>>
                                       ELSE <<i + 1, FieldOrder[m + 4 - L], None>>
      /\ Half(table[i], CopyOrder, 8 - L, q, None)
      /\ Half(table[i + 1], FieldOrder, 4 - L, None, q)
  BY <1>3, <1>4 DEF MoveFits
<1>6. /\ \A j \in Slots \ {i, i + 1} : table'[j] = table[j]
      /\ Len(stores') = Len(stores) - 1
      /\ \A m \in 1 .. Len(stores) - 1 : stores'[m] = stores[m + 1]
      /\ Half(table'[i], CopyOrder, 9 - L, q, None)
      /\ Half(table'[i + 1], FieldOrder, 5 - L, None, q)
  BY <1>2, <1>5, MoveStored DEF TableInv
<1>7. Len(stores') = L - 1 /\ \A m \in 1 .. L - 1 : stores'[m] = stores[m + 1]
  BY <1>4, <1>6
<1>8. FieldOrder \in Orders /\ CopyOrder \in Orders /\ 9 - L \in Int /\ 5 - L \in Int
  BY DEF Orders
<1>9. PICK h \in Slots, l \in Slots : h = i /\ l = i + 1 /\ h # l
  BY <1>2 DEF Slots
\* What the walk finds.
<1>10. \A j \in Slots \ {h, l} : Reg(j)' = Reg(j)
  <2>1. ASSUME NEW j \in Slots \ {h, l} PROVE ~Copied(j) /\ ~Copied(j)' /\ table'[j] = table[j]
    BY <1>2, <1>4, <1>6, <1>7, <1>9, <2>1 DEF Copied, Slots
  <2>2. QED
    BY <2>1, RegKept
<1>11. /\ Reg(h) = IF L <= 4 THEN q ELSE None
       /\ Reg(l) = IF L > 4 THEN q ELSE None
  BY <1>1, <1>2, <1>3, <1>4, <1>9, RegsAt DEF TableInv
<1>12. Reg(h)' = IF L <= 5 THEN q ELSE None
  <2>1. ~Copied(h)'
    BY <1>2, <1>4, <1>9 DEF Copied, Slots
  <2>2. UseOf(table'[h]) = IF 9 - L >= 4 THEN q ELSE None
    BY <1>6, <1>8, <1>9, HalfUse
  <2>3. 9 - L >= 4 <=> L <= 5
    OBVIOUS
  <2>4. QED
    BY <2>1, <2>2, <2>3 DEF Reg, UseOf
<1>13. Reg(l)' = IF L > 5 THEN q ELSE None
  <2>1. Copied(l)' <=> L = 5
    <3>1. CASE L = 1
      BY <1>2, <1>4, <3>1 DEF Copied
    <3>2. CASE L # 1
      <4>1. pc' = "move" /\ i' = i
        BY <1>2, <1>4, <3>2
      <4>2. Len(stores') = 4 <=> L = 5
        BY <1>7
      <4>3. QED
        BY <1>9, <4>1, <4>2 DEF Copied
    <3>3. QED
      BY <3>1, <3>2
  <2>2. UseOf(table'[l]) = IF 5 - L <= 0 THEN q ELSE None
    BY <1>6, <1>8, <1>9, HalfUse
  <2>3. CASE L = 5
    BY <2>1, <2>3 DEF Reg
  <2>4. CASE L # 5
    <3>1. 5 - L <= 0 <=> L > 5
      BY <2>4
    <3>2. Reg(l)' = UseOf(table'[l])
      BY <2>1, <2>4 DEF Reg, UseOf
    <3>3. QED
      BY <2>2, <3>1, <3>2
  <2>5. QED
    BY <2>3, <2>4
<1>14. Unique
  BY DEF TableInv, Single
<1>15. Unique' /\ Registered' = Registered
  <2>1. CASE L = 5
    <3>1. Reg(h) = None /\ Reg(h)' = Reg(l) /\ Reg(l)' = None
      BY <1>11, <1>12, <1>13, <2>1
    <3>2. QED
      BY <1>9, <1>10, <1>14, <3>1, RegsMove
  <2>2. CASE L # 5
    <3>1. (L <= 5 <=> L <= 4) /\ (L > 5 <=> L > 4)
      BY <2>2
    <3>2. Reg(h)' = Reg(h)
      BY <1>11, <1>12, <3>1
    <3>3. Reg(l)' = Reg(l)
      BY <1>11, <1>13, <3>1
    <3>4. \A k \in Slots : Reg(k)' = Reg(k)
      BY <1>10, <3>2, <3>3
    <3>5. QED
      BY <1>14, <3>4, RegsSame
  <2>3. QED
    BY <2>1, <2>2
<1>16. CallFits' /\ Single'
  BY <1>2, <1>15 DEF TableInv, CallFits, Single
\* What is left to be stored.
<1>17. CASE L = 1
  <2>1. pc' = "next" /\ i' = i + 1
    <3>1. Len(stores) = 1
      BY <1>4, <1>17
    <3>2. QED
      BY <1>2, <3>1
  <2>2. stores' = <<>>
    BY <1>7, <1>17, EmptySeq DEF TypeOK
  <2>3. (\A f \in Fields : table'[i][f] = q) /\ (\A f \in Fields : table'[i + 1][f] = None)
    <3>1. 9 - L >= 4 /\ 5 - L >= 4
      BY <1>17
    <3>2. QED
      BY <1>6, <1>8, <3>1, HalfEnds
  <2>4. Whole(i, None)'
    BY <2>1, <2>3 DEF Whole
  <2>5. StoresFit'
    BY <2>1, <2>2, <2>4 DEF StoresFit
  <2>6. Filled(n)'
    <3>1. ASSUME NEW k \in Slots, k # h, k # l
          PROVE IF k <= n THEN \E p \in Pins : Whole(k, p)' ELSE Whole(k, None)'
      <4>1. k \notin Holes /\ table'[k] = table[k]
        BY <1>2, <1>6, <1>9, <3>1 DEF Holes
      <4>2. QED
        BY <1>1, <3>1, <4>1 DEF Filled, Whole
    <3>2. Whole(h, q)' /\ h <= n
      BY <1>2, <1>9, <2>3 DEF Whole, Slots
    <3>3. Holes' = {l}
      BY <1>9, <2>1 DEF Holes
    <3>4. QED
      BY <3>1, <3>2, <3>3 DEF Filled
  <2>7. Placed(n)'
    BY <1>2, <2>1 DEF Placed, Slots
  <2>8. TableInv'
    BY <1>16, <2>5, <2>6, <2>7 DEF TableInv, Shape
  <2>9. QED
    BY <1>2, <1>15, <2>1, <2>8
<1>18. CASE L # 1
  <2>1. pc' = "move" /\ i' = i
    <3>1. Len(stores) # 1
      BY <1>4, <1>18
    <3>2. QED
      BY <1>2, <3>1
  <2>2. PICK M \in 1 .. 8 : M = L - 1
    BY <1>18
  <2>3. Len(stores') = M
    BY <1>7, <2>2
  <2>4. ASSUME NEW m \in 1 .. M
        PROVE  stores'[m] = IF m + 8 - M <= 4
                            THEN <<i, CopyOrder[m + 8 - M], q>>
                            ELSE <<i + 1, FieldOrder[m + 4 - M], None>>
    <3>1. /\ m \in 1 .. L - 1 /\ m + 1 \in 1 .. L
          /\ (m + 1) + 8 - L = m + 8 - M /\ (m + 1) + 4 - L = m + 4 - M
      BY <2>2
    <3>2. stores[m + 1] = IF (m + 1) + 8 - L <= 4
                          THEN <<i, CopyOrder[(m + 1) + 8 - L], q>>
                          ELSE <<i + 1, FieldOrder[(m + 1) + 4 - L], None>>
      BY <1>5, <3>1
    <3>3. stores'[m] = stores[m + 1]
      BY <1>7, <3>1
    <3>4. QED
      BY <3>1, <3>2, <3>3
  <2>5. Half(table'[i], CopyOrder, 8 - M, q, None) /\ Half(table'[i + 1], FieldOrder, 4 - M, None, q)
    <3>1. 9 - L = 8 - M /\ 5 - L = 4 - M
      BY <2>2
    <3>2. QED
      BY <1>6, <3>1
  <2>6. MoveFits(q)'
    BY <2>1, <2>3, <2>4, <2>5 DEF MoveFits
  <2>7. StoresFit'
    BY <2>1, <2>6 DEF StoresFit
  <2>8. Filled(n)'
    BY <1>1, <1>2, <1>6, <2>1 DEF Filled, Holes, Whole
  <2>9. Placed(n)'
    BY <1>2, <2>1 DEF Placed
  <2>10. TableInv'
    BY <1>16, <2>7, <2>8, <2>9 DEF TableInv, Shape
  <2>11. QED
    BY <1>2, <1>15, <2>1, <2>10
<1>19. QED
  BY <1>17, <1>18

\* A removal returns.
LEMMA LastEntryStep ==
  ASSUME TypeOK, TableInv, LastEntry
  PROVE  TableInv' /\ Registered' = Registered
<1> USE MaxEntriesAssumption
<1>1. PICK n \in 0 .. MaxEntries : Filled(n) /\ Placed(n)
  BY DEF TableInv, Shape
<1>2. /\ pc = "next" /\ pc' = "idle" /\ table' = table /\ i' = 1 /\ stores' = <<>>
      /\ i < MaxEntries => table[i + 1].Handler = None
      /\ i \in Slots /\ i <= n
  BY <1>1 DEF LastEntry, Return, TypeOK, Placed
<1>3. i = n
  <2>1. SUFFICES ASSUME i < n PROVE FALSE
    BY <1>2 DEF Slots
  <2>2. i + 1 \in Slots \ Holes /\ i + 1 <= n /\ i < MaxEntries
    BY <1>2, <2>1 DEF Holes, Slots
  <2>3. PICK p \in Pins : Whole(i + 1, p)
    BY <1>1, <2>2 DEF Filled
  <2>4. QED
    BY <1>2, <2>2, <2>3, NoneAssumption DEF Whole, Fields
<1>4. Whole(i, None)
  BY <1>2 DEF TableInv, StoresFit
<1>5. \A k \in Slots : Reg(k)' = Reg(k)
  BY <1>2, RegKept DEF Copied
<1>6. Unique' /\ Registered' = Registered
  BY <1>5, RegsSame DEF TableInv, Single
<1>7. Single' /\ CallFits' /\ StoresFit'
  BY <1>2, <1>6 DEF Single, CallFits, StoresFit
<1>8. n - 1 \in 0 .. MaxEntries
  BY <1>2, <1>3 DEF Slots
<1>9. Filled(n - 1)'
  <2>1. ASSUME NEW k \in Slots
        PROVE IF k <= n - 1 THEN \E p \in Pins : Whole(k, p)' ELSE Whole(k, None)'
    <3>1. CASE k = n
      <4>1. ~(k <= n - 1) /\ Whole(k, None)'
        BY <1>2, <1>3, <1>4, <3>1 DEF Whole
      <4>2. QED
        BY <4>1
    <3>2. CASE k # n
      <4>1. k \notin Holes /\ (k <= n - 1 <=> k <= n)
        BY <1>2, <1>3, <3>2 DEF Holes, Slots
      <4>2. QED
        BY <1>1, <1>2, <4>1 DEF Filled, Whole
    <3>3. QED
      BY <3>1, <3>2
  <2>2. QED
    BY <2>1 DEF Filled
<1>10. Placed(n - 1)'
  BY <1>2 DEF Placed
<1>11. QED
  BY <1>6, <1>7, <1>8, <1>9, <1>10 DEF TableInv, Shape

-----------------------------------------------------------------------------
(* The invariant.                                                          *)

\* At first the table is empty and no pin is enabled.
LEMMA TableInit == Init => TableInv /\ EnabledInv
<1> USE MaxEntriesAssumption, NoneAssumption
<1> SUFFICES ASSUME Init PROVE TableInv /\ EnabledInv
  OBVIOUS
<1>1. \A k \in Slots : Whole(k, None)
  BY DEF Init, Whole, EmptyEntry
<1>2. \A k \in Slots : Reg(k) = None
  BY <1>1 DEF Reg, UseOf, Whole, Fields
<1>3. Unique
  BY <1>2 DEF Unique
<1>4. Filled(0) /\ Placed(0) /\ 0 \in 0 .. MaxEntries
  BY <1>1 DEF Init, Filled, Placed, Slots
<1>5. CallFits /\ StoresFit
  BY DEF Init, CallFits, StoresFit
<1>6. Single
  BY <1>3 DEF Init, Single
<1>7. \A p \in Pins : ~cfg[p].en
  BY DEF Init
<1>8. EnabledInv
  BY <1>7 DEF Init, EnabledInv
<1>9. QED
  BY <1>4, <1>5, <1>6, <1>8 DEF TableInv, Shape

\* GpioIsr and the pins leave the driver and its table alone.
LEMMA OthersLeave ==
  ASSUME \/ IsrStep \/ (\E p \in Pins : Event(p)) \/ (\E p \in Pins, m \in BOOLEAN : MaskInterrupt(p, m))
         \/ UNCHANGED vars
  PROVE  UNCHANGED <<table, driver>>
BY DEF IsrStep, GpioIsr, CallHandler, NotPending, EndOfTable, HandlerReturns, Event, MaskInterrupt,
   Goto, driver, vars

\* Every step keeps the invariant of the table.
LEMMA TableNext ==
  ASSUME TypeOK, TypeOK', TableInv, [Next]_vars
  PROVE  TableInv'
BY PlainSteps, TakeEntryStep, StoreEntryStep, FindHitStep, DropEntryStep, NextEntryStep,
   MoveEntryStep, LastEntryStep, OthersStep, OthersLeave DEF Next, Register, Unregister

\* A pin is not removed from the table while it is enabled, if no
\* configuration is written.
LEMMA EnabledKept ==
  ASSUME EnabledInv, cfg' = cfg, Registered \subseteq Registered',
         pc' \in {"find", "drop", "next", "move"} =>
           pc \in {"find", "drop", "next", "move"} /\ conf' = conf
  PROVE  EnabledInv'
BY DEF EnabledInv

\* Every step keeps the invariant of the enabled pins.
LEMMA EnabledNext ==
  ASSUME TypeOK, TypeOK', TableInv, EnabledInv, [Next]_vars
  PROVE  EnabledInv'
<1>c. pc # "idle" => conf.pin \in Pins /\ cfg[conf.pin] \in Configs
        /\ (conf.pin \in DualEdge \/ cfg[conf.pin].det < 2)
  BY CallPin DEF TypeOK, TableInv
\* The steps that write no configuration.
<1>1. CASE \/ \E r \in Requests : RegisterGpioIrq(r)
           \/ EntryInUse \/ NoFreeEntry \/ RouteAndClean
           \/ \E r \in Removals : UnregisterGpioIrq(r)
           \/ FindMiss \/ FindNone
  <2>1. Registered' = Registered
    BY <1>1, PlainSteps
  <2>2. cfg' = cfg /\ (pc' \in {"find", "drop", "next", "move"} => pc = "find" /\ conf' = conf)
    BY <1>1 DEF RegisterGpioIrq, EntryInUse, NoFreeEntry, RouteAndClean, UnregisterGpioIrq,
       FindMiss, FindNone, Goto, Return, pins
  <2>3. QED
    BY <2>1, <2>2, EnabledKept
<1>2. CASE TakeEntry \/ FindHit \/ NextEntry \/ MoveEntry \/ LastEntry
  <2>1. Registered' = Registered
    BY <1>2, TakeEntryStep, FindHitStep, NextEntryStep, MoveEntryStep, LastEntryStep
  <2>2. /\ cfg' = cfg
        /\ pc' \in {"find", "drop", "next", "move"} =>
             pc \in {"find", "drop", "next", "move"} /\ conf' = conf
    BY <1>2 DEF TakeEntry, FindHit, NextEntry, MoveEntry, LastEntry, Store, Goto, Return, pins
  <2>3. QED
    BY <2>1, <2>2, EnabledKept
<1>3. CASE StoreEntry
  <2>1. Registered \subseteq Registered' /\ pc' \in {"store", "clean"}
    BY <1>3, StoreEntryStep
  <2>2. cfg' = cfg
    BY <1>3 DEF StoreEntry, pins
  <2>3. QED
    BY <2>1, <2>2, EnabledKept
<1>4. CASE DropEntry
  <2>1. Registered \ {conf.pin} \subseteq Registered' /\ pc = "drop"
    BY <1>4, DropEntryStep
  <2>2. cfg' = cfg /\ conf' = conf
    BY <1>4 DEF DropEntry, pins
  <2>3. QED
    BY <2>1, <2>2 DEF EnabledInv
\* Those that write one.
<1>5. CASE SetInterruptCfg \/ EnableInterrupt
  <2>1. Registered' = Registered /\ conf.pin \in Registered /\ pc \in {"config", "enable"}
    BY <1>5, PlainSteps DEF TableInv, Single, SetInterruptCfg, EnableInterrupt
  <2>2. PICK c \in Configs : WriteUnlessReserved(conf.pin, c) /\ (conf.pin \in DualEdge \/ c.det < 2)
    <3>1. CASE SetInterruptCfg
      <4>1. conf.type \in Types /\ (conf.pin \in DualEdge) \in BOOLEAN
        BY <3>1, RequestFields DEF SetInterruptCfg, TableInv, CallFits
      <4>2. QED
        BY <1>c, <2>1, <3>1, <4>1, ConfiguredConfig DEF SetInterruptCfg
    <3>2. CASE EnableInterrupt
      BY <1>c, <2>1, <3>2, MaskedConfig DEF EnableInterrupt
    <3>3. QED
      BY <1>5, <3>1, <3>2
  <2>3. \A q \in Pins : cfg'[q] = IF q = conf.pin /\ conf.pin \notin Reserved THEN c ELSE cfg[q]
    BY <1>c, <2>1, <2>2, WriteType
  <2>4. pc' \in {"idle", "enable"}
    BY <1>5 DEF SetInterruptCfg, EnableInterrupt, Return
  <2>5. QED
    BY <2>1, <2>3, <2>4 DEF EnabledInv
<1>6. CASE DisableInterrupt
  <2>1. Registered' = Registered /\ pc = "mask" /\ conf' = conf
    BY <1>6, PlainSteps DEF DisableInterrupt, Goto
  <2>2. WriteUnlessReserved(conf.pin, Masked(cfg[conf.pin]))
    BY <1>6 DEF DisableInterrupt
  <2>3. PICK c \in Configs : c = Masked(cfg[conf.pin]) /\ ~c.en /\ (conf.pin \in DualEdge \/ c.det < 2)
    BY <1>c, <2>1, MaskedConfig
  <2>4. \A q \in Pins : cfg'[q] = IF q = conf.pin /\ conf.pin \notin Reserved THEN c ELSE cfg[q]
    BY <1>c, <2>1, <2>2, <2>3, WriteType
  <2>5. conf.pin \in Reserved => ~cfg[conf.pin].en
    BY <1>c, <2>1 DEF EnabledInv
  <2>6. ~cfg'[conf'.pin].en
    BY <1>c, <2>1, <2>3, <2>4, <2>5
  <2>7. \A p \in Pins : cfg'[p].en => p \in Registered' /\ p \notin Reserved
    BY <2>1, <2>3, <2>4 DEF EnabledInv
  <2>8. QED
    BY <2>6, <2>7 DEF EnabledInv
<1>7. ASSUME NEW p \in Pins, NEW m \in BOOLEAN, MaskInterrupt(p, m) PROVE EnabledInv'
  <2>1. UNCHANGED <<table, driver>> /\ pc = "idle" /\ pc' = "idle"
    BY <1>7, OthersLeave DEF MaskInterrupt, Goto
  <2>2. Registered' = Registered
    BY <2>1, OthersStep
  <2>3. p \in Registered
    <3>1. PICK k \in Slots : table[k].PinNumber = p
      BY <1>7 DEF MaskInterrupt
    <3>2. PICK n \in 0 .. MaxEntries : Filled(n) /\ Placed(n)
      BY DEF TableInv, Shape
    <3>3. k \notin Holes
      BY <2>1 DEF Holes
    <3>4. IF k <= n THEN Reg(k) \in Pins /\ Whole(k, Reg(k)) ELSE Reg(k) = None /\ Whole(k, None)
      BY <3>2, <3>3, RegsAt DEF TableInv
    <3>5. Reg(k) = p
      BY <3>1, <3>4, NoneAssumption DEF Whole, Fields
    <3>6. QED
      BY <3>5 DEF Registered
  <2>4. cfg[p] \in Configs /\ (p \in DualEdge \/ cfg[p].det < 2)
    BY DEF TypeOK
  <2>5. PICK c \in Configs : c.det = cfg[p].det /\ WriteUnlessReserved(p, c)
    BY <1>7, <2>4, MaskedConfig DEF MaskInterrupt
  <2>6. \A q \in Pins : cfg'[q] = IF q = p /\ p \notin Reserved THEN c ELSE cfg[q]
    BY <2>4, <2>5, WriteType
  <2>7. QED
    BY <2>1, <2>2, <2>3, <2>6 DEF EnabledInv
<1>8. CASE IsrStep \/ (\E p \in Pins : Event(p)) \/ UNCHANGED vars
  <2>1. UNCHANGED <<table, driver>> /\ cfg' = cfg
    BY <1>8, OthersLeave DEF IsrStep, GpioIsr, CallHandler, NotPending, EndOfTable,
       HandlerReturns, CleanIrqStatus, Event, pins, vars
  <2>2. Registered' = Registered /\ pc' = pc /\ conf' = conf
    BY <2>1, OthersStep DEF driver
  <2>3. QED
    BY <2>1, <2>2, EnabledKept
<1>9. QED
  BY <1>1, <1>2, <1>3, <1>4, <1>5, <1>6, <1>7, <1>8 DEF Next, Register, Unregister

\* The invariant of every behaviour.
LEMMA Invariant == Spec => [](TypeOK /\ TableInv /\ EnabledInv)
<1>1. Init => TypeOK /\ TableInv /\ EnabledInv
  BY TypeInit, TableInit
<1>2. TypeOK /\ TableInv /\ EnabledInv /\ [Next]_vars => TypeOK' /\ TableInv' /\ EnabledInv'
  <2>1. TypeOK /\ TableInv /\ [Next]_vars => TypeOK'
    BY TypeNext DEF TableInv
  <2>2. QED
    BY <2>1, TableNext, EnabledNext
<1>3. QED
  BY <1>1, <1>2, PTL DEF Spec

\* The variables have their types: what GpioIsr calls is a handler, a
\* parameter and a pin, and no write leaves a detection that the pin has not.
THEOREM GpioIrqTypeCorrect == Spec => []TypeOK
BY Invariant, PTL

\* Between calls of the driver, a pin that can interrupt has an entry, and the
\* walk of GpioIsr reaches it.
THEOREM EnabledReached == Spec => []EnabledHasEntry
<1>1. TypeOK /\ TableInv /\ EnabledInv => EnabledHasEntry
  <2> SUFFICES ASSUME TypeOK, TableInv, EnabledInv, pc = "idle", NEW p \in routed, cfg[p].en
               PROVE  \E k \in Slots : table[k].PinNumber = p /\ \A j \in 1 .. k : InUse(j)
    BY DEF EnabledHasEntry
  <2>1. p \in Pins /\ p \in Registered /\ p # None
    BY NoneAssumption DEF TypeOK, EnabledInv
  <2>2. PICK k \in Slots : Reg(k) = p
    BY <2>1 DEF Registered
  <2>3. PICK n \in 0 .. MaxEntries : Filled(n) /\ Placed(n)
    BY DEF TableInv, Shape
  <2>4. \A j \in Slots : IF j <= n THEN Reg(j) \in Pins /\ Whole(j, Reg(j)) ELSE Reg(j) = None
    BY <2>3, RegsAt DEF TableInv, Holes
  <2>5. k <= n /\ Whole(k, p)
    BY <2>1, <2>2, <2>4
  <2>6. ASSUME NEW j \in 1 .. k PROVE InUse(j)
    <3>1. j \in Slots /\ j <= n
      BY <2>5, MaxEntriesAssumption DEF Slots
    <3>2. PICK q \in Pins : Whole(j, q)
      BY <2>4, <3>1
    <3>3. QED
      BY <3>2, NoneAssumption DEF Whole, InUse, Fields
  <2>7. QED
    BY <2>5, <2>6 DEF Whole, Fields
<1>2. QED
  BY <1>1, Invariant, PTL

\* GpioSetInterruptCfg: a pin not registered since its reset, or of a wide
\* detection field and asked for an edge, detects what was asked for when its
\* interrupt is about to be enabled.
THEOREM DetectsWhatWasAsked == Spec => DetectsAsked
<1>1. ASSUME TypeOK, TableInv, [Next]_vars, pc = "config", pc' = "enable", Defined(conf.pin, conf.type)
      PROVE  Detects(conf.pin)' = conf.type
  <2>1. SetInterruptCfg /\ conf' = conf
    BY <1>1 DEF Next, Register, Unregister, IsrStep, RegisterGpioIrq, EntryInUse, NoFreeEntry,
       TakeEntry, StoreEntry, RouteAndClean, SetInterruptCfg, EnableInterrupt, UnregisterGpioIrq,
       DisableInterrupt, FindHit, FindMiss, FindNone, DropEntry, NextEntry, MoveEntry, LastEntry,
       GpioIsr, CallHandler, NotPending, EndOfTable, HandlerReturns, Event, MaskInterrupt,
       Goto, Store, Return, driver, vars
  <2>2. PICK p \in Pins, t \in Types : p = conf.pin /\ t = conf.type
    BY <1>1, RequestFields DEF TableInv, CallFits
  <2>3. p \notin Reserved /\ (Fresh(p) \/ AllWritten(p, t))
    BY <1>1, <2>2 DEF Defined
  <2> DEFINE dual == p \in DualEdge
  <2>4. dual \in BOOLEAN
    OBVIOUS
  <2>5. PICK c \in Configs : c = cfg[p] /\ (dual \/ c.det < 2)
    BY <1>1 DEF TypeOK
  <2>6. ~Unsupported(t, dual)
    BY <1>1, <2>1, <2>2, <2>3 DEF SetInterruptCfg, Return
  <2>7. WriteUnlessReserved(p, Configured(c, t, dual))
    BY <2>1, <2>2, <2>5 DEF SetInterruptCfg
  <2>8. PICK u \in Configs : u = Configured(c, t, dual) /\ (dual \/ u.det < 2)
    BY <2>4, <2>5, ConfiguredConfig
  <2>9. cfg'[p] = u
    BY <1>1, <2>3, <2>4, <2>7, <2>8, WriteType
  <2>10. /\ u.det = IF t = "EDGE_RISING" THEN 1
                    ELSE IF t = "EDGE_FALLING" THEN IF dual THEN 2 ELSE 1
                    ELSE IF t = "EDGE_BOTH" THEN IF dual THEN 3 ELSE 1
                    ELSE c.det
         /\ u.pol = IF t = "LEVEL_LOW" \/ (t = "EDGE_FALLING" /\ ~dual) THEN c.pol ELSE 1
    BY <2>4, <2>8, ConfiguredFields
  <2>11. t \in {"EDGE_RISING", "EDGE_FALLING", "EDGE_BOTH", "LEVEL_HIGH", "LEVEL_LOW"}
    BY TypesAssumption DEF TriggerTypes
  <2>12. Detects(p)' = t
    <3>1. CASE t = "EDGE_RISING"
      BY <2>9, <2>10, <3>1 DEF Detects
    <3>2. CASE t = "EDGE_FALLING" /\ dual
      BY <2>9, <2>10, <3>2 DEF Detects
    <3>3. CASE t = "EDGE_FALLING" /\ ~dual
      <4>1. c.pol = 0
        BY <2>3, <2>5, <3>3 DEF Fresh, AllWritten
      <4>2. QED
        BY <2>9, <2>10, <3>3, <4>1 DEF Detects
    <3>4. CASE t = "EDGE_BOTH"
      <4>1. dual
        BY <2>6, <3>4 DEF Unsupported
      <4>2. QED
        BY <2>9, <2>10, <3>4, <4>1 DEF Detects
    <3>5. CASE t \in {"LEVEL_HIGH", "LEVEL_LOW"}
      <4>1. c.det = 0 /\ c.pol = 0
        BY <2>3, <2>5, <3>5 DEF Fresh, AllWritten
      <4>2. QED
        BY <2>9, <2>10, <3>5, <4>1 DEF Detects
    <3>6. QED
      BY <2>11, <3>1, <3>2, <3>3, <3>4, <3>5
  <2>13. QED
    BY <2>1, <2>2, <2>12 DEF Detects
<1>2. QED
  BY <1>1, Invariant, PTL DEF Spec, DetectsAsked

-----------------------------------------------------------------------------
(* The registry.                                                           *)

\* The registrations of every pin, as the registry has them, and as the set
\* of registered pins gives them.
queues == [p \in Pins |-> Queue(p)]
QueueFor(p) == IF p \in Registered THEN << <<p, p>> >> ELSE <<>>
QueuesFit == queues = [p \in Pins |-> QueueFor(p)]

\* A queue of one entry.
LEMMA QueueOfOne ==
  ASSUME NEW T, NEW k \in Nat
  PROVE  QueueOf(T, {k}) = << <<T[k].Handler, T[k].Param>> >>
<1>1. {j \in {k} : j <= k} = {k}
  OBVIOUS
<1>2. Cardinality({k}) = 1
  BY FS_Singleton
<1>3. Rank({k}, k) = 1
  BY <1>1, <1>2 DEF Rank
<1>4. Nth({k}, 1) = k
  BY <1>3 DEF Nth
<1>5. QueueOf(T, {k}) = [n \in 1 .. 1 |-> <<T[Nth({k}, n)].Handler, T[Nth({k}, n)].Param>>]
  BY <1>2 DEF QueueOf
<1>6. QueueOf(T, {k}) = [n \in 1 .. 1 |-> <<T[k].Handler, T[k].Param>>]
  BY <1>4, <1>5
<1> DEFINE x == <<T[k].Handler, T[k].Param>>
<1>7. [n \in 1 .. 1 |-> x] = <<x>>
  <2> HIDE DEF x
  <2>1. QED
    OBVIOUS
<1>8. QED
  BY <1>6, <1>7

\* The entries that the walk finds for a pin are at most one, and that one has
\* the pin's own handler and parameter.
LEMMA QueuesNow == TypeOK /\ TableInv => QueuesFit
<1> USE NoneAssumption
<1> SUFFICES ASSUME TypeOK, TableInv PROVE QueuesFit
  OBVIOUS
<1>1. ASSUME NEW p \in Pins PROVE Queue(p) = QueueFor(p)
  <2>1. Heard(p) = {k \in Slots : Reg(k) = p}
    BY DEF Heard, Reg, UseOf, InUse
  <2>2. CASE p \in Registered
    <3>1. PICK k \in Slots : Reg(k) = p
      BY <2>2 DEF Registered
    <3>2. Heard(p) = {k}
      BY <2>1, <3>1 DEF TableInv, Single, Unique
    <3>3. InUse(k) /\ table[k].PinNumber = p
      BY <3>1 DEF Reg, UseOf, InUse
    <3>4. PICK q \in Pins : Whole(k, q)
      BY <3>3, InUseWhole DEF TableInv
    <3>5. table[k].Handler = p /\ table[k].Param = p
      BY <3>3, <3>4 DEF Whole, Fields
    <3>6. Queue(p) = << <<table[k].Handler, table[k].Param>> >>
      BY <3>2, QueueOfOne DEF Queue, Slots
    <3>7. QED
      BY <2>2, <3>5, <3>6 DEF QueueFor
  <2>3. CASE p \notin Registered
    <3>1. Heard(p) = {}
      BY <2>1, <2>3 DEF Registered
    <3>2. Cardinality({}) = 0
      BY FS_EmptySet
    <3>3. Queue(p) = <<>>
      BY <3>1, <3>2 DEF Queue, QueueOf
    <3>4. QED
      BY <2>3, <3>3 DEF QueueFor
  <2>4. QED
    BY <2>2, <2>3
<1>2. QED
  BY <1>1 DEF QueuesFit, queues

\* The same of the next state.
LEMMA QueuesNext == TypeOK' /\ TableInv' => QueuesFit'
BY QueuesNow, PTL

\* What a call still asks of the table.
AskedFits ==
  /\ pc = "idle" => Asked = Registry!Idle
  /\ pc \in {"scan", "store"} =>
       Asked = [op |-> "add", source |-> conf.pin, handler |-> conf.pin, param |-> conf.pin]
  /\ pc \in {"mask", "find"} \/ (pc = "drop" /\ Len(stores) = 4) =>
       Asked = [op |-> "remove", source |-> conf.pin]
  /\ pc \in {"clean", "config", "enable", "next", "move"} \/ (pc = "drop" /\ Len(stores) # 4) =>
       Asked = Registry!Done

\* By the definition of Asked.
LEMMA AskedNow == AskedFits
<1>1. pc = "idle" => Asked = Registry!Idle
  BY DEF Asked, Registry!Idle
<1>2. pc \in {"scan", "store"} =>
        Asked = [op |-> "add", source |-> conf.pin, handler |-> conf.pin, param |-> conf.pin]
  BY DEF Asked
<1>3. pc \in {"mask", "find"} \/ (pc = "drop" /\ Len(stores) = 4) =>
        Asked = [op |-> "remove", source |-> conf.pin]
  BY DEF Asked
<1>4. pc \in {"clean", "config", "enable", "next", "move"} \/ (pc = "drop" /\ Len(stores) # 4) =>
        Asked = Registry!Done
  BY DEF Asked, Registry!Done
<1>5. QED
  BY <1>1, <1>2, <1>3, <1>4 DEF AskedFits

\* The same of the next state.
LEMMA AskedNext == AskedFits'
BY AskedNow, PTL

\* The pin that GpioIsr calls a handler for is registered, also while its
\* entry moves.
LEMMA CalledRegistered ==
  ASSUME TypeOK, TableInv, CallHandler
  PROVE  \E p \in Registered : called' = <<p, p, p>>
<1>1. at \in Slots /\ InUse(at) /\ called' = <<table[at].PinNumber, table[at].Handler, table[at].Param>>
  BY DEF CallHandler, TypeOK, Slots
<1>2. PICK p \in Pins : Whole(at, p)
  BY <1>1, InUseWhole DEF TableInv
<1>3. called' = <<p, p, p>>
  BY <1>1, <1>2 DEF Whole, Fields
<1>4. CASE ~Copied(at)
  <2>1. Reg(at) = p
    BY <1>1, <1>2, <1>4 DEF Reg, UseOf, InUse, Whole, Fields
  <2>2. QED
    BY <1>1, <1>3, <2>1 DEF Registered
<1>5. CASE Copied(at)
  <2>1. pc = "move" /\ Len(stores) = 4 /\ at = i + 1 /\ i \in Slots
    BY <1>5 DEF Copied, TypeOK
  <2>2. PICK q \in Pins : MoveFits(q)
    BY <2>1 DEF TableInv, StoresFit
  <2>3. PICK n \in 0 .. MaxEntries : Filled(n) /\ Placed(n)
    BY DEF TableInv, Shape
  <2>4. Reg(i) = q
    BY <2>1, <2>2, <2>3, RegsAt DEF TableInv
  <2>5. q = p
    <3>1. 4 - Len(stores) = 0 /\ Half(table[i + 1], FieldOrder, 4 - Len(stores), None, q)
      BY <2>1, <2>2 DEF MoveFits
    <3>2. FieldOrder \in Orders
      BY DEF Orders
    <3>3. \A f \in Fields : table[at][f] = q
      BY <2>1, <3>1, <3>2, HalfEnds
    <3>4. QED
      BY <1>2, <3>3 DEF Whole, Fields
  <2>6. QED
    BY <1>3, <2>1, <2>4, <2>5 DEF Registered
<1>6. QED
  BY <1>4, <1>5

\* At first no pin has a registration.
LEMMA RegistryInitially == Init => Registry!RegistryInit
<1> SUFFICES ASSUME Init PROVE Registry!RegistryInit
  OBVIOUS
<1>1. QueuesFit /\ Registered = {}
  <2>1. QueuesFit
    BY TypeInit, TableInit, QueuesNow
  <2>2. \A k \in Slots : Reg(k) = None
    BY DEF Init, Reg, UseOf, EmptyEntry, Fields
  <2>3. QED
    BY <2>1, <2>2, NoneAssumption DEF Registered
<1>2. queues = [p \in Pins |-> <<>>]
  BY <1>1 DEF QueuesFit, QueueFor
<1>3. Asked = Registry!Idle /\ called = None
  BY AskedNow DEF AskedFits, Init
<1>4. QED
  BY <1>2, <1>3 DEF queues, Registry!RegistryInit

\* Every step is one of the registry or leaves it alone.
LEMMA RegistryStep ==
  ASSUME TypeOK, TypeOK', TableInv, TableInv', [Next]_vars
  PROVE  [Registry!RegistryNext]_(Registry!registryVars)
<1> USE NoneAssumption
<1>q. queues = [p \in Pins |-> Queue(p)] /\ queues' = [p \in Pins |-> Queue(p)]'
  BY DEF queues
<1>f. QueuesFit /\ QueuesFit'
  BY QueuesNow, QueuesNext
<1>s. ASSUME Registered' = Registered PROVE queues' = queues
  BY <1>f, <1>s DEF QueuesFit, QueueFor
<1>a. AskedFits /\ AskedFits'
  BY AskedNow, AskedNext
<1> DEFINE Step == Registry!RegistryNext \/ UNCHANGED Registry!registryVars
<1>u. ASSUME Registered' = Registered, called' = called, Asked' = Asked PROVE Step
  BY <1>q, <1>s, <1>u DEF Registry!registryVars
\* The calls begin.
<1>1. ASSUME NEW r, (r \in Requests /\ RegisterGpioIrq(r)) \/ (r \in Removals /\ UnregisterGpioIrq(r))
      PROVE  Step
  <2>1. Registered' = Registered
    BY <1>1, PlainSteps
  <2>2. pc = "idle" /\ pc' \in {"scan", "mask"} /\ conf' = r /\ called' = called /\ r.pin \in Pins
    BY <1>1, RequestFields DEF RegisterGpioIrq, UnregisterGpioIrq, Goto, isr
  <2>3. Asked = Registry!Idle
    BY <1>a, <2>2 DEF AskedFits
  <2>4. Asked' \in Registry!AddRequests \cup Registry!RemoveRequests
    BY <1>a, <2>2 DEF AskedFits, Registry!AddRequests, Registry!RemoveRequests
  <2>5. Registry!Ask
    BY <1>q, <1>s, <2>1, <2>2, <2>3, <2>4 DEF Registry!Ask
  <2>6. QED
    BY <2>5 DEF Registry!RegistryNext
\* They return.
<1>2. ASSUME Registered' = Registered, called' = called, pc # "idle", pc' = "idle", TypeOK
      PROVE  Step
  <2>1. Asked # Registry!Idle
    BY <1>a, <1>2 DEF AskedFits, Registry!Idle, Registry!Done, TypeOK
  <2>2. Asked' = Registry!Idle
    BY <1>a, <1>2 DEF AskedFits
  <2>3. Registry!Reply
    BY <1>q, <1>s, <1>2, <2>1, <2>2 DEF Registry!Reply
  <2>4. QED
    BY <2>3 DEF Registry!RegistryNext
<1>3. CASE NoFreeEntry \/ FindNone \/ LastEntry \/ EnableInterrupt \/ (SetInterruptCfg /\ pc' = "idle")
  <2>1. Registered' = Registered
    BY <1>3, PlainSteps, LastEntryStep
  <2>2. pc # "idle" /\ pc' = "idle" /\ called' = called
    BY <1>3 DEF NoFreeEntry, FindNone, LastEntry, EnableInterrupt, SetInterruptCfg, Return, isr
  <2>3. QED
    BY <1>2, <2>1, <2>2
\* The steps between that show in nothing.
<1>4. CASE EntryInUse \/ TakeEntry
  <2>1. Registered' = Registered
    BY <1>4, PlainSteps, TakeEntryStep
  <2>2. pc = "scan" /\ pc' \in {"scan", "store"} /\ conf' = conf /\ called' = called
    BY <1>4 DEF EntryInUse, TakeEntry, Goto, isr
  <2>3. Asked' = Asked
    BY <1>a, <2>2 DEF AskedFits
  <2>4. QED
    BY <1>u, <2>1, <2>2, <2>3
<1>5. CASE DisableInterrupt \/ FindMiss \/ FindHit
  <2>1. Registered' = Registered
    BY <1>5, PlainSteps, FindHitStep
  <2>2. /\ pc \in {"mask", "find"} /\ conf' = conf /\ called' = called
        /\ pc' = "find" \/ (pc' = "drop" /\ Len(stores') = 4)
    BY <1>5, FindHitStep DEF DisableInterrupt, FindMiss, FindHit, Goto, isr
  <2>3. Asked' = Asked
    BY <1>a, <2>2 DEF AskedFits
  <2>4. QED
    BY <1>u, <2>1, <2>2, <2>3
<1>6. CASE RouteAndClean \/ (SetInterruptCfg /\ pc' = "enable") \/ NextEntry \/ MoveEntry
  <2>1. Registered' = Registered
    BY <1>6, PlainSteps, NextEntryStep, MoveEntryStep
  <2>2. /\ pc \in {"clean", "config", "next", "move"} /\ pc' \in {"config", "enable", "move", "next"}
        /\ called' = called
    BY <1>6, MoveEntryStep DEF RouteAndClean, SetInterruptCfg, NextEntry, MoveEntry, Goto, isr
  <2>3. Asked' = Asked
    BY <1>a, <2>2 DEF AskedFits
  <2>4. QED
    BY <1>u, <2>1, <2>2, <2>3
\* The stores that change what can be found, and the others.
<1>7. CASE StoreEntry
  <2>1. /\ pc' \in {"store", "clean"}
        /\ Registered' = IF pc' = "clean" THEN Registered \cup {conf.pin} ELSE Registered
    BY <1>7, StoreEntryStep
  <2>2. pc = "store" /\ conf' = conf /\ called' = called
    BY <1>7 DEF StoreEntry, Store, isr
  <2>3. CASE pc' = "store"
    <3>1. Asked' = Asked
      BY <1>a, <2>2, <2>3 DEF AskedFits
    <3>2. QED
      BY <1>u, <2>1, <2>2, <2>3, <3>1
  <2>4. CASE pc' = "clean"
    <3>1. PICK p \in Pins : p = conf.pin /\ p \notin Registered
      BY <2>2, CallPin DEF TableInv, Single
    <3>2. /\ Asked = [op |-> "add", source |-> p, handler |-> p, param |-> p]
          /\ Asked' = Registry!Done
      BY <1>a, <2>2, <2>4, <3>1 DEF AskedFits
    <3>3. queues' = [queues EXCEPT ![p] = Append(@, <<p, p>>)]
      <4>1. \A s \in Pins : queues[s] = QueueFor(s) /\ queues'[s] = QueueFor(s)'
        BY <1>f DEF QueuesFit
      <4>2. Registered' = Registered \cup {p}
        BY <2>1, <2>4, <3>1
      <4>3. queues'[p] = Append(queues[p], <<p, p>>)
        <5>1. queues[p] = <<>> /\ queues'[p] = << <<p, p>> >>
          BY <3>1, <4>1, <4>2 DEF QueueFor
        <5> DEFINE x == <<p, p>>
        <5>2. Append(<<>>, x) = <<x>>
          <6> HIDE DEF x
          <6>1. QED
            OBVIOUS
        <5>3. QED
          BY <5>1, <5>2
      <4>4. ASSUME NEW s \in Pins, s # p PROVE queues'[s] = queues[s]
        BY <4>1, <4>2, <4>4 DEF QueueFor
      <4>5. queues = [s \in Pins |-> queues[s]] /\ queues' = [s \in Pins |-> queues'[s]]
        BY <1>f DEF QueuesFit
      <4>6. QED
        BY <4>3, <4>4, <4>5
    <3>4. Registry!Add
      BY <1>q, <2>2, <3>2, <3>3 DEF Registry!Add
    <3>5. QED
      BY <3>4 DEF Registry!RegistryNext
  <2>5. QED
    BY <2>1, <2>3, <2>4
<1>8. CASE DropEntry
  <2>1. /\ pc = "drop" /\ pc' \in {"drop", "next"} /\ Len(stores) \in 1 .. 4
        /\ Len(stores') = Len(stores) - 1
        /\ IF Len(stores) = 4
           THEN conf.pin \in Registered /\ Registered' = Registered \ {conf.pin}
           ELSE Registered' = Registered
    BY <1>8, DropEntryStep
  <2>2. conf' = conf /\ called' = called
    BY <1>8 DEF DropEntry, isr
  <2>3. Len(stores') # 4
    BY <2>1
  <2>4. Asked' = Registry!Done
    BY <1>a, <2>1, <2>3 DEF AskedFits
  <2>5. CASE Len(stores) # 4
    <3>1. Asked' = Asked
      BY <1>a, <2>1, <2>4, <2>5 DEF AskedFits
    <3>2. QED
      BY <1>u, <2>1, <2>2, <2>5, <3>1
  <2>6. CASE Len(stores) = 4
    <3>1. PICK p \in Pins : p = conf.pin /\ p \in Registered /\ Registered' = Registered \ {p}
      BY <2>1, <2>6 DEF Registered
    <3>2. Asked = [op |-> "remove", source |-> p]
      BY <1>a, <2>1, <2>6, <3>1 DEF AskedFits
    <3>3. queues[p] # <<>> /\ queues' = [queues EXCEPT ![p] = Tail(@)]
      <4>1. \A s \in Pins : queues[s] = QueueFor(s) /\ queues'[s] = QueueFor(s)'
        BY <1>f DEF QueuesFit
      <4>2. queues[p] = << <<p, p>> >> /\ queues'[p] = <<>>
        BY <3>1, <4>1 DEF QueueFor
      <4>3. queues[p] # <<>> /\ queues'[p] = Tail(queues[p])
        BY <4>2
      <4>4. ASSUME NEW s \in Pins, s # p PROVE queues'[s] = queues[s]
        BY <3>1, <4>1, <4>4 DEF QueueFor
      <4>5. queues = [s \in Pins |-> queues[s]] /\ queues' = [s \in Pins |-> queues'[s]]
        BY <1>f DEF QueuesFit
      <4>6. QED
        BY <4>3, <4>4, <4>5
    <3>4. Registry!Remove
      BY <1>q, <2>2, <2>4, <3>2, <3>3 DEF Registry!Remove
    <3>5. QED
      BY <3>4 DEF Registry!RegistryNext
  <2>7. QED
    BY <2>5, <2>6
\* Interrupts, and what else leaves the driver alone.
<1>9. ASSUME UNCHANGED <<table, driver>> PROVE Registered' = Registered /\ Asked' = Asked
  BY <1>9, OthersStep DEF driver, Asked
<1>10. CASE CallHandler
  <2>1. PICK p \in Registered : called' = <<p, p, p>>
    BY <1>10, CalledRegistered
  <2>2. called = None /\ UNCHANGED <<table, driver>>
    BY <1>10 DEF CallHandler
  <2>3. queues' = queues /\ Asked' = Asked
    BY <1>9, <1>s, <2>2
  <2>4. p \in Pins /\ queues[p] = << <<p, p>> >>
    BY <1>f, <2>1 DEF QueuesFit, QueueFor, Registered
  <2>5. queues[p] # <<>> /\ Head(queues[p])[1] = p /\ Head(queues[p])[2] = p
    BY <2>4
  <2>6. Registry!Interrupt(p)
    BY <1>q, <2>1, <2>2, <2>3, <2>4, <2>5 DEF Registry!Interrupt
  <2>7. QED
    BY <2>4, <2>6 DEF Registry!RegistryNext
<1>11. CASE HandlerReturns
  <2>1. UNCHANGED <<table, driver>> /\ called # None /\ called' = None
    BY <1>11 DEF HandlerReturns
  <2>2. queues' = queues /\ Asked' = Asked
    BY <1>9, <1>s, <2>1
  <2>3. Registry!Return
    BY <1>q, <2>1, <2>2 DEF Registry!Return
  <2>4. QED
    BY <2>3 DEF Registry!RegistryNext
<1>12. CASE \/ GpioIsr \/ NotPending \/ EndOfTable \/ (\E p \in Pins : Event(p))
            \/ (\E p \in Pins, m \in BOOLEAN : MaskInterrupt(p, m)) \/ UNCHANGED vars
  <2>1. UNCHANGED <<table, driver>>
    BY <1>12, OthersLeave DEF IsrStep
  <2>2. called' = called
    BY <1>12 DEF GpioIsr, NotPending, EndOfTable, Event, MaskInterrupt, isr, vars
  <2>3. QED
    BY <1>9, <1>u, <2>1, <2>2
<1>13. SetInterruptCfg => pc' \in {"idle", "enable"}
  BY DEF SetInterruptCfg, Return
<1>14. QED
  BY <1>1, <1>3, <1>4, <1>5, <1>6, <1>7, <1>8, <1>10, <1>11, <1>12, <1>13
    DEF Next, Register, Unregister, IsrStep

\* GpioRegisterGpioIrq, GpioUnregisterGpioIrq and GpioIsr: a walk over the
\* table that comes between whichever two stores of a call finds, for each
\* pin, the handler registered for it with its own parameter, or none, and a
\* call changes that at one moment only.
THEOREM ImplementsPinRegistry == Spec => RefinesRegistry
<1>1. TypeOK /\ TableInv /\ TypeOK' /\ TableInv' /\ [Next]_vars
        => [Registry!RegistryNext]_(Registry!registryVars)
  BY RegistryStep
<1>2. QED
  BY <1>1, Invariant, RegistryInitially, PTL DEF Spec, RefinesRegistry, Registry!RegistrySpec
=============================================================================
