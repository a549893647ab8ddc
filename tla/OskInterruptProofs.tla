------------------------- MODULE OskInterruptProofs -------------------------
(***************************************************************************)
(* Type correctness of OskInterrupt; that between calls the entries in use *)
(* are the first of the table, whatever interrupts come during a move of   *)
(* entries and whatever handlers unregister themselves; and, unless a      *)
(* handler may do so during a registration (Overtakes), that an interrupt  *)
(* which can come finds a handler.  All for any table, sources, clients    *)
(* and failures of the interrupt controller.                               *)
(***************************************************************************)
EXTENDS OskInterrupt, FiniteSetTheorems, FunctionTheorems, SequenceTheorems, TLAPS

-----------------------------------------------------------------------------
(* The inductive invariant: the shape of the table at every stage.         *)

Full(k) == table[k].Handler # None /\ table[k].Param # None /\ table[k].Source # None
Empty(k) == table[k].Handler = None /\ table[k].Param = None /\ table[k].Source = None

\* The entry that a call is about to complete, or has begun to clear; 0 if
\* there is none.
Hole ==
  IF pc \in {"param", "source", "dropParam", "dropSource", "next", "moveParam", "moveSource"} THEN i
  ELSE IF pc \in {"clearParam", "clearSource"} THEN i + 1
  ELSE 0

\* But for the hole, the first n entries are in use and the others are not.
Filled(n) == \A k \in Slots : k # Hole => IF k <= n THEN Full(k) ELSE Empty(k)

\* Where the call is among those entries.
Placed(n) ==
  /\ pc = "idle" => i = 1
  /\ pc = "scan" => i <= n + 1
  /\ pc \in {"param", "source"} => i = n + 1
  /\ pc \in {"dropHandler", "dropParam", "dropSource", "next"} => i <= n
  /\ pc \in {"moveParam", "moveSource", "clearHandler", "clearParam", "clearSource"} => i < n

Shape == \E n \in 0 .. MaxEntries : Filled(n) /\ Placed(n)

\* What is stored of the hole so far, and of the copy of the next entry.
HoleStored ==
  /\ pc \in {"param", "moveParam"} => table[i].Handler # None /\ table[i].Param = None /\ table[i].Source = None
  /\ pc \in {"source", "moveSource"} => table[i].Handler # None /\ table[i].Param # None /\ table[i].Source = None
  /\ pc \in {"param", "source"} => table[i].Handler = conf.handler
  /\ pc = "source" => table[i].Param = conf.param
  /\ pc = "dropParam" => table[i].Handler = None
  /\ pc = "dropSource" => table[i].Handler = None /\ table[i].Param = None
  /\ pc = "next" => Empty(i)
  /\ pc = "clearParam" => table[i + 1].Handler = None
  /\ pc = "clearSource" => table[i + 1].Handler = None /\ table[i + 1].Param = None
  /\ pc \in {"moveParam", "moveSource", "clearHandler"} => table[i].Handler = table[i + 1].Handler
  /\ pc \in {"moveSource", "clearHandler"} => table[i].Param = table[i + 1].Param
  /\ pc = "clearHandler" => table[i].Source = table[i + 1].Source

\* A call has a configuration.
InCall == conf = None <=> pc = "idle"

TableInv == TypeOK /\ InCall /\ HoleStored /\ Shape

\* U is the table T but for entry k, which has these fields.
Stored(T, U, k, h, p, s) ==
  /\ U \in [Slots -> Entries]
  /\ \A j \in Slots \ {k} : U[j] = T[j]
  /\ U[k].Handler = h /\ U[k].Param = p /\ U[k].Source = s

\* A store to the field Handler.
LEMMA StoreHandlerField ==
  ASSUME NEW T \in [Slots -> Entries], NEW U, NEW k \in Slots, NEW x \in Clients \cup {None},
         U = [T EXCEPT ![k].Handler = x]
  PROVE  Stored(T, U, k, x, T[k].Param, T[k].Source)
<1>1. T[k] \in Entries
  OBVIOUS
<1>2. [T[k] EXCEPT !.Handler = x] \in Entries
  BY <1>1 DEF Entries
<1>3. QED
  BY <1>1, <1>2 DEF Entries, Stored

\* A store to the field Param.
LEMMA StoreParamField ==
  ASSUME NEW T \in [Slots -> Entries], NEW U, NEW k \in Slots, NEW x \in Clients \cup {None},
         U = [T EXCEPT ![k].Param = x]
  PROVE  Stored(T, U, k, T[k].Handler, x, T[k].Source)
<1>1. T[k] \in Entries
  OBVIOUS
<1>2. [T[k] EXCEPT !.Param = x] \in Entries
  BY <1>1 DEF Entries
<1>3. QED
  BY <1>1, <1>2 DEF Entries, Stored

\* A store to the field Source.
LEMMA StoreSourceField ==
  ASSUME NEW T \in [Slots -> Entries], NEW U, NEW k \in Slots, NEW x \in Sources \cup {None},
         U = [T EXCEPT ![k].Source = x]
  PROVE  Stored(T, U, k, T[k].Handler, T[k].Param, x)
<1>1. T[k] \in Entries
  OBVIOUS
<1>2. [T[k] EXCEPT !.Source = x] \in Entries
  BY <1>1 DEF Entries
<1>3. QED
  BY <1>1, <1>2 DEF Entries, Stored

\* The source, the handler and the parameter of a configuration.
LEMMA ConfigFields ==
  ASSUME NEW c \in Configs
  PROVE  c.source \in Sources /\ c.handler \in Clients /\ c.param \in Clients
BY DEF Configs

\* At first the table is empty.
LEMMA TableInvInit == Init => TableInv
<1> USE MaxEntriesAssumption, NoneAssumption
<1> SUFFICES ASSUME Init PROVE TableInv
  OBVIOUS
<1>1. TypeOK
  BY DEF Init, TypeOK, Slots, Entries, EmptyEntry, Stages
<1>2. InCall /\ HoleStored
  BY DEF Init, InCall, HoleStored
<1>3. Filled(0) /\ Placed(0)
  BY DEF Init, Filled, Placed, Hole, Slots, Empty, EmptyEntry
<1>4. QED
  BY <1>1, <1>2, <1>3 DEF TableInv, Shape

\* A handler that unregisters itself finds the first n entries in use, and
\* the last of them is where the gap ends up.
LEMMA CompactedGap ==
  ASSUME NEW n \in 1 .. MaxEntries, NEW k \in 1 .. n,
         \A j \in Slots : IF j <= n THEN Full(j) ELSE Empty(j)
  PROVE  Compacted(k) = [j \in Slots |-> IF j \in k .. n - 1 THEN table[j + 1]
                                         ELSE IF j = n THEN EmptyEntry ELSE table[j]]
<1> USE MaxEntriesAssumption DEF Slots
<1> DEFINE Gap(g) == /\ g = MaxEntries \/ table[g + 1].Handler = None
                     /\ \A j \in k .. g - 1 : table[j + 1].Handler # None
<1>1. Gap(n)
  BY DEF Full, Empty
<1>2. ASSUME NEW g \in k .. MaxEntries, Gap(g) PROVE g = n
  <2>1. ~(g < n)
    BY <1>2 DEF Full
  <2>2. ~(n < g)
    <3>1. SUFFICES ASSUME n < g PROVE FALSE
      OBVIOUS
    <3>2. n \in k .. g - 1 /\ n + 1 \in Slots
      BY <3>1
    <3>3. QED
      BY <1>2, <3>2 DEF Empty
  <2>3. QED
    BY <2>1, <2>2
<1>3. n = CHOOSE g \in k .. MaxEntries : Gap(g)
  BY <1>1, <1>2
<1>4. QED
  BY <1>3 DEF Compacted

\* The table that such a handler leaves.
LEMMA CompactedTable ==
  ASSUME HandlerUnregisters, NEW n \in 0 .. MaxEntries,
         \A j \in Slots : IF j <= n THEN Full(j) ELSE Empty(j)
  PROVE  \E k \in 1 .. n :
           /\ First(called[1], k) /\ table[k].Handler = called[2]
           /\ table' = [j \in Slots |-> IF j \in k .. n - 1 THEN table[j + 1]
                                        ELSE IF j = n THEN EmptyEntry ELSE table[j]]
<1> USE MaxEntriesAssumption DEF Slots
<1>1. PICK k \in Slots : First(called[1], k) /\ table[k].Handler = called[2] /\ table' = Compacted(k)
  BY DEF HandlerUnregisters
<1>2. k \in 1 .. n /\ n \in 1 .. MaxEntries
  BY <1>1 DEF First, Matches, Empty
<1>3. QED
  BY <1>1, <1>2, CompactedGap

\* Every step keeps the invariant of the table.
LEMMA TableInvNext ==
  ASSUME TableInv, [Next]_vars
  PROVE  TableInv'
<1> USE MaxEntriesAssumption, NoneAssumption DEF Slots
<1>0. TypeOK /\ InCall /\ HoleStored
  BY DEF TableInv
<1>n. PICK n \in 0 .. MaxEntries : Filled(n) /\ Placed(n)
  BY DEF TableInv, Shape
<1>f. pc # "idle" => conf.source \in Sources /\ conf.handler \in Clients /\ conf.param \in Clients
  BY <1>0, ConfigFields DEF TypeOK, InCall
<1>e. /\ table \in [Slots -> Entries]
      /\ \A k \in Slots : /\ table[k].Handler \in Clients \cup {None} /\ table[k].Param \in Clients \cup {None}
                          /\ table[k].Source \in Sources \cup {None}
  BY <1>0 DEF TypeOK, Entries
<1>1. ASSUME RegisterInvalid PROVE TableInv'
  <2>1. TypeOK'
    BY <1>0, <1>n, <1>f, <1>1 DEF RegisterInvalid, Goto, Return, controller, driver, TypeOK,
       Stages, Placed
  <2>2. InCall' /\ HoleStored'
    BY <1>0, <1>n, <1>f, <1>1 DEF RegisterInvalid, Goto, Return, controller, driver, TypeOK,
       InCall, HoleStored, Empty, Filled, Placed, Hole, Full
  <2>3. Filled(n)' /\ Placed(n)' /\ n \in 0 .. MaxEntries
    BY <1>0, <1>n, <1>f, <1>1 DEF RegisterInvalid, Goto, Return, controller, driver, TypeOK,
       InCall, HoleStored, Filled, Placed, Hole, Full, Empty
  <2>4. QED
    BY <2>1, <2>2, <2>3 DEF TableInv, Shape
<1>2. ASSUME NEW c \in Configs, CrRegisterInterrupt(c) PROVE TableInv'
  <2>1. TypeOK'
    BY <1>0, <1>n, <1>f, <1>2 DEF CrRegisterInterrupt, Goto, Return, controller, driver, TypeOK,
       Stages, Placed
  <2>2. InCall' /\ HoleStored'
    BY <1>0, <1>n, <1>f, <1>2 DEF CrRegisterInterrupt, Goto, Return, controller, driver, TypeOK,
       InCall, HoleStored, Empty, Filled, Placed, Hole, Full
  <2>3. Filled(n)' /\ Placed(n)' /\ n \in 0 .. MaxEntries
    BY <1>0, <1>n, <1>f, <1>2 DEF CrRegisterInterrupt, Goto, Return, controller, driver, TypeOK,
       InCall, HoleStored, Filled, Placed, Hole, Full, Empty
  <2>4. QED
    BY <2>1, <2>2, <2>3 DEF TableInv, Shape
<1>3. ASSUME TakeEntry PROVE TableInv'
  <2>h. i = n + 1
    BY <1>0, <1>n, <1>f, <1>3, <1>e DEF TakeEntry, Goto, Return, controller, driver, TypeOK,
       Placed, Filled, Hole, Full, Empty, HoleStored
  <2>a. i \in Slots /\ conf.handler \in Clients \cup {None} /\ table' = [table EXCEPT ![i].Handler = conf.handler]
    BY <1>0, <1>n, <1>f, <1>3, <2>h, <1>e DEF TakeEntry, Goto, Return, controller, driver,
       StoreNull, TypeOK, Placed
  <2>b. Stored(table, table', i, conf.handler, table[i].Param, table[i].Source)
    BY <1>e, <2>a, StoreHandlerField
  <2>1. TypeOK'
    BY <1>0, <1>n, <1>f, <1>3, <2>h, <1>e, <2>a, <2>b DEF TakeEntry, Goto, Return, controller,
       driver, Stored, TypeOK, Stages, Placed
  <2>2. InCall' /\ HoleStored'
    BY <1>0, <1>n, <1>f, <1>3, <2>h, <1>e, <2>a, <2>b DEF TakeEntry, Goto, Return, controller,
       driver, Stored, TypeOK, InCall, HoleStored, Empty, Filled, Placed, Hole, Full
  <2>3. Filled(n)' /\ Placed(n)' /\ n \in 0 .. MaxEntries
    BY <1>0, <1>n, <1>f, <1>3, <2>h, <1>e, <2>a, <2>b DEF TakeEntry, Goto, Return, controller,
       driver, Stored, TypeOK, InCall, HoleStored, Filled, Placed, Hole, Full, Empty
  <2>4. QED
    BY <2>1, <2>2, <2>3 DEF TableInv, Shape
<1>4. ASSUME EntryInUse PROVE TableInv'
  <2>1. TypeOK'
    BY <1>0, <1>n, <1>f, <1>4 DEF EntryInUse, Goto, Return, controller, driver, TypeOK, Stages,
       Placed
  <2>2. InCall' /\ HoleStored'
    BY <1>0, <1>n, <1>f, <1>4 DEF EntryInUse, Goto, Return, controller, driver, TypeOK, InCall,
       HoleStored, Empty, Filled, Placed, Hole, Full
  <2>3. Filled(n)' /\ Placed(n)' /\ n \in 0 .. MaxEntries
    BY <1>0, <1>n, <1>f, <1>4 DEF EntryInUse, Goto, Return, controller, driver, TypeOK, InCall,
       HoleStored, Filled, Placed, Hole, Full, Empty
  <2>4. QED
    BY <2>1, <2>2, <2>3 DEF TableInv, Shape
<1>5. ASSUME NoFreeEntry PROVE TableInv'
  <2>1. TypeOK'
    BY <1>0, <1>n, <1>f, <1>5 DEF NoFreeEntry, Goto, Return, controller, driver, TypeOK, Stages,
       Placed
  <2>2. InCall' /\ HoleStored'
    BY <1>0, <1>n, <1>f, <1>5 DEF NoFreeEntry, Goto, Return, controller, driver, TypeOK, InCall,
       HoleStored, Empty, Filled, Placed, Hole, Full
  <2>3. Filled(n)' /\ Placed(n)' /\ n \in 0 .. MaxEntries
    BY <1>0, <1>n, <1>f, <1>5 DEF NoFreeEntry, Goto, Return, controller, driver, TypeOK, InCall,
       HoleStored, Filled, Placed, Hole, Full, Empty
  <2>4. QED
    BY <2>1, <2>2, <2>3 DEF TableInv, Shape
<1>6. ASSUME StoreParam PROVE TableInv'
  <2>a. i \in Slots /\ conf.param \in Clients \cup {None} /\ table' = [table EXCEPT ![i].Param = conf.param]
    BY <1>0, <1>n, <1>f, <1>6, <1>e DEF StoreParam, Goto, Return, controller, driver, StoreNull,
       TypeOK, Placed
  <2>b. Stored(table, table', i, table[i].Handler, conf.param, table[i].Source)
    BY <1>e, <2>a, StoreParamField
  <2>1. TypeOK'
    BY <1>0, <1>n, <1>f, <1>6, <1>e, <2>a, <2>b DEF StoreParam, Goto, Return, controller, driver,
       Stored, TypeOK, Stages, Placed
  <2>2. InCall' /\ HoleStored'
    BY <1>0, <1>n, <1>f, <1>6, <1>e, <2>a, <2>b DEF StoreParam, Goto, Return, controller, driver,
       Stored, TypeOK, InCall, HoleStored, Empty, Filled, Placed, Hole, Full
  <2>3. Filled(n)' /\ Placed(n)' /\ n \in 0 .. MaxEntries
    BY <1>0, <1>n, <1>f, <1>6, <1>e, <2>a, <2>b DEF StoreParam, Goto, Return, controller, driver,
       Stored, TypeOK, InCall, HoleStored, Filled, Placed, Hole, Full, Empty
  <2>4. QED
    BY <2>1, <2>2, <2>3 DEF TableInv, Shape
<1>7. ASSUME StoreSource PROVE TableInv'
  <2>a. i \in Slots /\ conf.source \in Sources \cup {None} /\ table' = [table EXCEPT ![i].Source = conf.source]
    BY <1>0, <1>n, <1>f, <1>7, <1>e DEF StoreSource, Goto, Return, controller, driver, StoreNull,
       TypeOK, Placed
  <2>b. Stored(table, table', i, table[i].Handler, table[i].Param, conf.source)
    BY <1>e, <2>a, StoreSourceField
  <2>1. TypeOK'
    BY <1>0, <1>n, <1>f, <1>7, <1>e, <2>a, <2>b DEF StoreSource, Goto, Return, controller, driver,
       Stored, TypeOK, Stages, Placed
  <2>2. InCall' /\ HoleStored'
    BY <1>0, <1>n, <1>f, <1>7, <1>e, <2>a, <2>b DEF StoreSource, Goto, Return, controller, driver,
       Stored, TypeOK, InCall, HoleStored, Empty, Filled, Placed, Hole, Full
  <2>3. Filled((n + 1))' /\ Placed((n + 1))' /\ (n + 1) \in 0 .. MaxEntries
    BY <1>0, <1>n, <1>f, <1>7, <1>e, <2>a, <2>b DEF StoreSource, Goto, Return, controller, driver,
       Stored, TypeOK, InCall, HoleStored, Filled, Placed, Hole, Full, Empty
  <2>4. QED
    BY <2>1, <2>2, <2>3 DEF TableInv, Shape
<1>8. ASSUME RegisterInterruptSource PROVE TableInv'
  <2>1. TypeOK'
    BY <1>0, <1>n, <1>f, <1>8 DEF RegisterInterruptSource, Goto, Return, controller, driver,
       TypeOK, Stages, Placed
  <2>2. InCall' /\ HoleStored'
    BY <1>0, <1>n, <1>f, <1>8 DEF RegisterInterruptSource, Goto, Return, controller, driver,
       TypeOK, InCall, HoleStored, Empty, Filled, Placed, Hole, Full
  <2>3. Filled(n)' /\ Placed(n)' /\ n \in 0 .. MaxEntries
    BY <1>0, <1>n, <1>f, <1>8 DEF RegisterInterruptSource, Goto, Return, controller, driver,
       TypeOK, InCall, HoleStored, Filled, Placed, Hole, Full, Empty
  <2>4. QED
    BY <2>1, <2>2, <2>3 DEF TableInv, Shape
<1>9. ASSUME SetTriggerType PROVE TableInv'
  <2>1. TypeOK'
    BY <1>0, <1>n, <1>f, <1>9 DEF SetTriggerType, Goto, Return, controller, driver, TypeOK, Stages,
       Placed
  <2>2. InCall' /\ HoleStored'
    BY <1>0, <1>n, <1>f, <1>9 DEF SetTriggerType, Goto, Return, controller, driver, TypeOK, InCall,
       HoleStored, Empty, Filled, Placed, Hole, Full
  <2>3. Filled(n)' /\ Placed(n)' /\ n \in 0 .. MaxEntries
    BY <1>0, <1>n, <1>f, <1>9 DEF SetTriggerType, Goto, Return, controller, driver, TypeOK, InCall,
       HoleStored, Filled, Placed, Hole, Full, Empty
  <2>4. QED
    BY <2>1, <2>2, <2>3 DEF TableInv, Shape
<1>10. ASSUME EnableInterruptSource PROVE TableInv'
  <2>1. TypeOK'
    BY <1>0, <1>n, <1>f, <1>10 DEF EnableInterruptSource, Goto, Return, controller, driver, TypeOK,
       Stages, Placed
  <2>2. InCall' /\ HoleStored'
    BY <1>0, <1>n, <1>f, <1>10 DEF EnableInterruptSource, Goto, Return, controller, driver, TypeOK,
       InCall, HoleStored, Empty, Filled, Placed, Hole, Full
  <2>3. Filled(n)' /\ Placed(n)' /\ n \in 0 .. MaxEntries
    BY <1>0, <1>n, <1>f, <1>10 DEF EnableInterruptSource, Goto, Return, controller, driver, TypeOK,
       InCall, HoleStored, Filled, Placed, Hole, Full, Empty
  <2>4. QED
    BY <2>1, <2>2, <2>3 DEF TableInv, Shape
<1>11. ASSUME RegisterFails PROVE TableInv'
  <2>1. TypeOK'
    BY <1>0, <1>n, <1>f, <1>11 DEF RegisterFails, Goto, Return, controller, driver, TypeOK, Stages,
       Placed
  <2>2. InCall' /\ HoleStored'
    BY <1>0, <1>n, <1>f, <1>11 DEF RegisterFails, Goto, Return, controller, driver, TypeOK, InCall,
       HoleStored, Empty, Filled, Placed, Hole, Full
  <2>3. Filled(n)' /\ Placed(n)' /\ n \in 0 .. MaxEntries
    BY <1>0, <1>n, <1>f, <1>11 DEF RegisterFails, Goto, Return, controller, driver, TypeOK, InCall,
       HoleStored, Filled, Placed, Hole, Full, Empty
  <2>4. QED
    BY <2>1, <2>2, <2>3 DEF TableInv, Shape
<1>12. ASSUME NEW c \in Configs, CrUnregisterInterrupt(c) PROVE TableInv'
  <2>1. TypeOK'
    BY <1>0, <1>n, <1>f, <1>12 DEF CrUnregisterInterrupt, Goto, Return, controller, driver, TypeOK,
       Stages, Placed
  <2>2. InCall' /\ HoleStored'
    BY <1>0, <1>n, <1>f, <1>12 DEF CrUnregisterInterrupt, Goto, Return, controller, driver, TypeOK,
       InCall, HoleStored, Empty, Filled, Placed, Hole, Full
  <2>3. Filled(n)' /\ Placed(n)' /\ n \in 0 .. MaxEntries
    BY <1>0, <1>n, <1>f, <1>12 DEF CrUnregisterInterrupt, Goto, Return, controller, driver, TypeOK,
       InCall, HoleStored, Filled, Placed, Hole, Full, Empty
  <2>4. QED
    BY <2>1, <2>2, <2>3 DEF TableInv, Shape
<1>13. ASSUME FindHit PROVE TableInv'
  <2>1. TypeOK'
    BY <1>0, <1>n, <1>f, <1>13 DEF FindHit, Goto, Return, controller, driver, Matches, TypeOK,
       Stages, Placed
  <2>2. InCall' /\ HoleStored'
    BY <1>0, <1>n, <1>f, <1>13 DEF FindHit, Goto, Return, controller, driver, Matches, TypeOK,
       InCall, HoleStored, Empty, Filled, Placed, Hole, Full
  <2>3. Filled(n)' /\ Placed(n)' /\ n \in 0 .. MaxEntries
    BY <1>0, <1>n, <1>f, <1>13 DEF FindHit, Goto, Return, controller, driver, Matches, TypeOK,
       InCall, HoleStored, Filled, Placed, Hole, Full, Empty
  <2>4. QED
    BY <2>1, <2>2, <2>3 DEF TableInv, Shape
<1>14. ASSUME FindMiss PROVE TableInv'
  <2>1. TypeOK'
    BY <1>0, <1>n, <1>f, <1>14 DEF FindMiss, Goto, Return, controller, driver, Matches, TypeOK,
       Stages, Placed
  <2>2. InCall' /\ HoleStored'
    BY <1>0, <1>n, <1>f, <1>14 DEF FindMiss, Goto, Return, controller, driver, Matches, TypeOK,
       InCall, HoleStored, Empty, Filled, Placed, Hole, Full
  <2>3. Filled(n)' /\ Placed(n)' /\ n \in 0 .. MaxEntries
    BY <1>0, <1>n, <1>f, <1>14 DEF FindMiss, Goto, Return, controller, driver, Matches, TypeOK,
       InCall, HoleStored, Filled, Placed, Hole, Full, Empty
  <2>4. QED
    BY <2>1, <2>2, <2>3 DEF TableInv, Shape
<1>15. ASSUME FindNone PROVE TableInv'
  <2>1. TypeOK'
    BY <1>0, <1>n, <1>f, <1>15 DEF FindNone, Goto, Return, controller, driver, Matches, TypeOK,
       Stages, Placed
  <2>2. InCall' /\ HoleStored'
    BY <1>0, <1>n, <1>f, <1>15 DEF FindNone, Goto, Return, controller, driver, Matches, TypeOK,
       InCall, HoleStored, Empty, Filled, Placed, Hole, Full
  <2>3. Filled(n)' /\ Placed(n)' /\ n \in 0 .. MaxEntries
    BY <1>0, <1>n, <1>f, <1>15 DEF FindNone, Goto, Return, controller, driver, Matches, TypeOK,
       InCall, HoleStored, Filled, Placed, Hole, Full, Empty
  <2>4. QED
    BY <2>1, <2>2, <2>3 DEF TableInv, Shape
<1>16. ASSUME DropEntry, pc = "dropHandler" PROVE TableInv'
  <2>a. i \in Slots /\ None \in Clients \cup {None} /\ table' = [table EXCEPT ![i].Handler = None]
    BY <1>0, <1>n, <1>f, <1>16, <1>e DEF DropEntry, Goto, Return, controller, driver, StoreNull,
       TypeOK, Placed
  <2>b. Stored(table, table', i, None, table[i].Param, table[i].Source)
    BY <1>e, <2>a, StoreHandlerField
  <2>1. TypeOK'
    BY <1>0, <1>n, <1>f, <1>16, <1>e, <2>a, <2>b DEF DropEntry, Goto, Return, controller, driver,
       Stored, TypeOK, Stages, Placed
  <2>2. InCall' /\ HoleStored'
    BY <1>0, <1>n, <1>f, <1>16, <1>e, <2>a, <2>b DEF DropEntry, Goto, Return, controller, driver,
       Stored, TypeOK, InCall, HoleStored, Empty, Filled, Placed, Hole, Full
  <2>3. Filled(n)' /\ Placed(n)' /\ n \in 0 .. MaxEntries
    BY <1>0, <1>n, <1>f, <1>16, <1>e, <2>a, <2>b DEF DropEntry, Goto, Return, controller, driver,
       Stored, TypeOK, InCall, HoleStored, Filled, Placed, Hole, Full, Empty
  <2>4. QED
    BY <2>1, <2>2, <2>3 DEF TableInv, Shape
<1>17. ASSUME DropEntry, pc = "dropParam" PROVE TableInv'
  <2>a. i \in Slots /\ None \in Clients \cup {None} /\ table' = [table EXCEPT ![i].Param = None]
    BY <1>0, <1>n, <1>f, <1>17, <1>e DEF DropEntry, Goto, Return, controller, driver, StoreNull,
       TypeOK, Placed
  <2>b. Stored(table, table', i, table[i].Handler, None, table[i].Source)
    BY <1>e, <2>a, StoreParamField
  <2>1. TypeOK'
    BY <1>0, <1>n, <1>f, <1>17, <1>e, <2>a, <2>b DEF DropEntry, Goto, Return, controller, driver,
       Stored, TypeOK, Stages, Placed
  <2>2. InCall' /\ HoleStored'
    BY <1>0, <1>n, <1>f, <1>17, <1>e, <2>a, <2>b DEF DropEntry, Goto, Return, controller, driver,
       Stored, TypeOK, InCall, HoleStored, Empty, Filled, Placed, Hole, Full
  <2>3. Filled(n)' /\ Placed(n)' /\ n \in 0 .. MaxEntries
    BY <1>0, <1>n, <1>f, <1>17, <1>e, <2>a, <2>b DEF DropEntry, Goto, Return, controller, driver,
       Stored, TypeOK, InCall, HoleStored, Filled, Placed, Hole, Full, Empty
  <2>4. QED
    BY <2>1, <2>2, <2>3 DEF TableInv, Shape
<1>18. ASSUME DropEntry, pc = "dropSource" PROVE TableInv'
  <2>a. i \in Slots /\ None \in Sources \cup {None} /\ table' = [table EXCEPT ![i].Source = None]
    BY <1>0, <1>n, <1>f, <1>18, <1>e DEF DropEntry, Goto, Return, controller, driver, StoreNull,
       TypeOK, Placed
  <2>b. Stored(table, table', i, table[i].Handler, table[i].Param, None)
    BY <1>e, <2>a, StoreSourceField
  <2>1. TypeOK'
    BY <1>0, <1>n, <1>f, <1>18, <1>e, <2>a, <2>b DEF DropEntry, Goto, Return, controller, driver,
       Stored, TypeOK, Stages, Placed
  <2>2. InCall' /\ HoleStored'
    BY <1>0, <1>n, <1>f, <1>18, <1>e, <2>a, <2>b DEF DropEntry, Goto, Return, controller, driver,
       Stored, TypeOK, InCall, HoleStored, Empty, Filled, Placed, Hole, Full
  <2>3. Filled(n)' /\ Placed(n)' /\ n \in 0 .. MaxEntries
    BY <1>0, <1>n, <1>f, <1>18, <1>e, <2>a, <2>b DEF DropEntry, Goto, Return, controller, driver,
       Stored, TypeOK, InCall, HoleStored, Filled, Placed, Hole, Full, Empty
  <2>4. QED
    BY <2>1, <2>2, <2>3 DEF TableInv, Shape
<1>19. ASSUME MoveBegin PROVE TableInv'
  <2>h. i + 1 \in Slots /\ i < n
    BY <1>0, <1>n, <1>f, <1>19, <1>e DEF MoveBegin, Goto, Return, controller, driver, TypeOK,
       Placed, Filled, Hole, Full, Empty, HoleStored
  <2>a. i \in Slots /\ table[i + 1].Handler \in Clients \cup {None} /\ table' = [table EXCEPT ![i].Handler = table[i + 1].Handler]
    BY <1>0, <1>n, <1>f, <1>19, <2>h, <1>e DEF MoveBegin, Goto, Return, controller, driver,
       StoreNull, TypeOK, Placed
  <2>b. Stored(table, table', i, table[i + 1].Handler, table[i].Param, table[i].Source)
    BY <1>e, <2>a, StoreHandlerField
  <2>1. TypeOK'
    BY <1>0, <1>n, <1>f, <1>19, <2>h, <1>e, <2>a, <2>b DEF MoveBegin, Goto, Return, controller,
       driver, Stored, TypeOK, Stages, Placed
  <2>2. InCall' /\ HoleStored'
    BY <1>0, <1>n, <1>f, <1>19, <2>h, <1>e, <2>a, <2>b DEF MoveBegin, Goto, Return, controller,
       driver, Stored, TypeOK, InCall, HoleStored, Empty, Filled, Placed, Hole, Full
  <2>3. Filled(n)' /\ Placed(n)' /\ n \in 0 .. MaxEntries
    BY <1>0, <1>n, <1>f, <1>19, <2>h, <1>e, <2>a, <2>b DEF MoveBegin, Goto, Return, controller,
       driver, Stored, TypeOK, InCall, HoleStored, Filled, Placed, Hole, Full, Empty
  <2>4. QED
    BY <2>1, <2>2, <2>3 DEF TableInv, Shape
<1>20. ASSUME MoveEntry, pc = "moveParam" PROVE TableInv'
  <2>h. i + 1 \in Slots /\ i < n
    BY <1>0, <1>n, <1>f, <1>20, <1>e DEF MoveEntry, Goto, Return, controller, driver, TypeOK,
       Placed, Filled, Hole, Full, Empty, HoleStored
  <2>a. i \in Slots /\ table[i + 1].Param \in Clients \cup {None} /\ table' = [table EXCEPT ![i].Param = table[i + 1].Param]
    BY <1>0, <1>n, <1>f, <1>20, <2>h, <1>e DEF MoveEntry, Goto, Return, controller, driver,
       StoreNull, TypeOK, Placed
  <2>b. Stored(table, table', i, table[i].Handler, table[i + 1].Param, table[i].Source)
    BY <1>e, <2>a, StoreParamField
  <2>1. TypeOK'
    BY <1>0, <1>n, <1>f, <1>20, <2>h, <1>e, <2>a, <2>b DEF MoveEntry, Goto, Return, controller,
       driver, Stored, TypeOK, Stages, Placed
  <2>2. InCall' /\ HoleStored'
    BY <1>0, <1>n, <1>f, <1>20, <2>h, <1>e, <2>a, <2>b DEF MoveEntry, Goto, Return, controller,
       driver, Stored, TypeOK, InCall, HoleStored, Empty, Filled, Placed, Hole, Full
  <2>3. Filled(n)' /\ Placed(n)' /\ n \in 0 .. MaxEntries
    BY <1>0, <1>n, <1>f, <1>20, <2>h, <1>e, <2>a, <2>b DEF MoveEntry, Goto, Return, controller,
       driver, Stored, TypeOK, InCall, HoleStored, Filled, Placed, Hole, Full, Empty
  <2>4. QED
    BY <2>1, <2>2, <2>3 DEF TableInv, Shape
<1>21. ASSUME MoveEntry, pc = "moveSource" PROVE TableInv'
  <2>h. i + 1 \in Slots /\ i < n
    BY <1>0, <1>n, <1>f, <1>21, <1>e DEF MoveEntry, Goto, Return, controller, driver, TypeOK,
       Placed, Filled, Hole, Full, Empty, HoleStored
  <2>a. i \in Slots /\ table[i + 1].Source \in Sources \cup {None} /\ table' = [table EXCEPT ![i].Source = table[i + 1].Source]
    BY <1>0, <1>n, <1>f, <1>21, <2>h, <1>e DEF MoveEntry, Goto, Return, controller, driver,
       StoreNull, TypeOK, Placed
  <2>b. Stored(table, table', i, table[i].Handler, table[i].Param, table[i + 1].Source)
    BY <1>e, <2>a, StoreSourceField
  <2>1. TypeOK'
    BY <1>0, <1>n, <1>f, <1>21, <2>h, <1>e, <2>a, <2>b DEF MoveEntry, Goto, Return, controller,
       driver, Stored, TypeOK, Stages, Placed
  <2>2. InCall' /\ HoleStored'
    BY <1>0, <1>n, <1>f, <1>21, <2>h, <1>e, <2>a, <2>b DEF MoveEntry, Goto, Return, controller,
       driver, Stored, TypeOK, InCall, HoleStored, Empty, Filled, Placed, Hole, Full
  <2>3. Filled(n)' /\ Placed(n)' /\ n \in 0 .. MaxEntries
    BY <1>0, <1>n, <1>f, <1>21, <2>h, <1>e, <2>a, <2>b DEF MoveEntry, Goto, Return, controller,
       driver, Stored, TypeOK, InCall, HoleStored, Filled, Placed, Hole, Full, Empty
  <2>4. QED
    BY <2>1, <2>2, <2>3 DEF TableInv, Shape
<1>22. ASSUME ClearMoved, pc = "clearHandler" PROVE TableInv'
  <2>h. i + 1 \in Slots /\ i < n
    BY <1>0, <1>n, <1>f, <1>22, <1>e DEF ClearMoved, Goto, Return, controller, driver, TypeOK,
       Placed, Filled, Hole, Full, Empty, HoleStored
  <2>a. (i + 1) \in Slots /\ None \in Clients \cup {None} /\ table' = [table EXCEPT ![(i + 1)].Handler = None]
    BY <1>0, <1>n, <1>f, <1>22, <2>h, <1>e DEF ClearMoved, Goto, Return, controller, driver,
       StoreNull, TypeOK, Placed
  <2>b. Stored(table, table', (i + 1), None, table[(i + 1)].Param, table[(i + 1)].Source)
    BY <1>e, <2>a, StoreHandlerField
  <2>1. TypeOK'
    BY <1>0, <1>n, <1>f, <1>22, <2>h, <1>e, <2>a, <2>b DEF ClearMoved, Goto, Return, controller,
       driver, Stored, TypeOK, Stages, Placed
  <2>2. InCall' /\ HoleStored'
    BY <1>0, <1>n, <1>f, <1>22, <2>h, <1>e, <2>a, <2>b DEF ClearMoved, Goto, Return, controller,
       driver, Stored, TypeOK, InCall, HoleStored, Empty, Filled, Placed, Hole, Full
  <2>3. Filled(n)' /\ Placed(n)' /\ n \in 0 .. MaxEntries
    BY <1>0, <1>n, <1>f, <1>22, <2>h, <1>e, <2>a, <2>b DEF ClearMoved, Goto, Return, controller,
       driver, Stored, TypeOK, InCall, HoleStored, Filled, Placed, Hole, Full, Empty
  <2>4. QED
    BY <2>1, <2>2, <2>3 DEF TableInv, Shape
<1>23. ASSUME ClearMoved, pc = "clearParam" PROVE TableInv'
  <2>h. i + 1 \in Slots /\ i < n
    BY <1>0, <1>n, <1>f, <1>23, <1>e DEF ClearMoved, Goto, Return, controller, driver, TypeOK,
       Placed, Filled, Hole, Full, Empty, HoleStored
  <2>a. (i + 1) \in Slots /\ None \in Clients \cup {None} /\ table' = [table EXCEPT ![(i + 1)].Param = None]
    BY <1>0, <1>n, <1>f, <1>23, <2>h, <1>e DEF ClearMoved, Goto, Return, controller, driver,
       StoreNull, TypeOK, Placed
  <2>b. Stored(table, table', (i + 1), table[(i + 1)].Handler, None, table[(i + 1)].Source)
    BY <1>e, <2>a, StoreParamField
  <2>1. TypeOK'
    BY <1>0, <1>n, <1>f, <1>23, <2>h, <1>e, <2>a, <2>b DEF ClearMoved, Goto, Return, controller,
       driver, Stored, TypeOK, Stages, Placed
  <2>2. InCall' /\ HoleStored'
    BY <1>0, <1>n, <1>f, <1>23, <2>h, <1>e, <2>a, <2>b DEF ClearMoved, Goto, Return, controller,
       driver, Stored, TypeOK, InCall, HoleStored, Empty, Filled, Placed, Hole, Full
  <2>3. Filled(n)' /\ Placed(n)' /\ n \in 0 .. MaxEntries
    BY <1>0, <1>n, <1>f, <1>23, <2>h, <1>e, <2>a, <2>b DEF ClearMoved, Goto, Return, controller,
       driver, Stored, TypeOK, InCall, HoleStored, Filled, Placed, Hole, Full, Empty
  <2>4. QED
    BY <2>1, <2>2, <2>3 DEF TableInv, Shape
<1>24. ASSUME ClearMoved, pc = "clearSource" PROVE TableInv'
  <2>h. i + 1 \in Slots /\ i < n
    BY <1>0, <1>n, <1>f, <1>24, <1>e DEF ClearMoved, Goto, Return, controller, driver, TypeOK,
       Placed, Filled, Hole, Full, Empty, HoleStored
  <2>a. (i + 1) \in Slots /\ None \in Sources \cup {None} /\ table' = [table EXCEPT ![(i + 1)].Source = None]
    BY <1>0, <1>n, <1>f, <1>24, <2>h, <1>e DEF ClearMoved, Goto, Return, controller, driver,
       StoreNull, TypeOK, Placed
  <2>b. Stored(table, table', (i + 1), table[(i + 1)].Handler, table[(i + 1)].Param, None)
    BY <1>e, <2>a, StoreSourceField
  <2>1. TypeOK'
    BY <1>0, <1>n, <1>f, <1>24, <2>h, <1>e, <2>a, <2>b DEF ClearMoved, Goto, Return, controller,
       driver, Stored, TypeOK, Stages, Placed
  <2>2. InCall' /\ HoleStored'
    BY <1>0, <1>n, <1>f, <1>24, <2>h, <1>e, <2>a, <2>b DEF ClearMoved, Goto, Return, controller,
       driver, Stored, TypeOK, InCall, HoleStored, Empty, Filled, Placed, Hole, Full
  <2>3. Filled(n)' /\ Placed(n)' /\ n \in 0 .. MaxEntries
    BY <1>0, <1>n, <1>f, <1>24, <2>h, <1>e, <2>a, <2>b DEF ClearMoved, Goto, Return, controller,
       driver, Stored, TypeOK, InCall, HoleStored, Filled, Placed, Hole, Full, Empty
  <2>4. QED
    BY <2>1, <2>2, <2>3 DEF TableInv, Shape
<1>25. ASSUME MoveEnd PROVE TableInv'
  <2>h. i = n /\ n > 0
    BY <1>0, <1>n, <1>f, <1>25, <1>e DEF MoveEnd, Goto, Return, controller, driver, TypeOK, Placed,
       Filled, Hole, Full, Empty, HoleStored
  <2>1. TypeOK'
    BY <1>0, <1>n, <1>f, <1>25, <2>h DEF MoveEnd, Goto, Return, controller, driver, TypeOK, Stages,
       Placed
  <2>2. InCall' /\ HoleStored'
    BY <1>0, <1>n, <1>f, <1>25, <2>h DEF MoveEnd, Goto, Return, controller, driver, TypeOK, InCall,
       HoleStored, Empty, Filled, Placed, Hole, Full
  <2>3. Filled((n - 1))' /\ Placed((n - 1))' /\ (n - 1) \in 0 .. MaxEntries
    BY <1>0, <1>n, <1>f, <1>25, <2>h DEF MoveEnd, Goto, Return, controller, driver, TypeOK, InCall,
       HoleStored, Filled, Placed, Hole, Full, Empty
  <2>4. QED
    BY <2>1, <2>2, <2>3 DEF TableInv, Shape
<1>26. ASSUME DisableInterruptSource PROVE TableInv'
  <2>1. TypeOK'
    BY <1>0, <1>n, <1>f, <1>26 DEF DisableInterruptSource, Goto, Return, controller, driver,
       TypeOK, Stages, Placed
  <2>2. InCall' /\ HoleStored'
    BY <1>0, <1>n, <1>f, <1>26 DEF DisableInterruptSource, Goto, Return, controller, driver,
       TypeOK, InCall, HoleStored, Empty, Filled, Placed, Hole, Full
  <2>3. Filled(n)' /\ Placed(n)' /\ n \in 0 .. MaxEntries
    BY <1>0, <1>n, <1>f, <1>26 DEF DisableInterruptSource, Goto, Return, controller, driver,
       TypeOK, InCall, HoleStored, Filled, Placed, Hole, Full, Empty
  <2>4. QED
    BY <2>1, <2>2, <2>3 DEF TableInv, Shape
<1>27. ASSUME DisableFails PROVE TableInv'
  <2>1. TypeOK'
    BY <1>0, <1>n, <1>f, <1>27 DEF DisableFails, Goto, Return, controller, driver, TypeOK, Stages,
       Placed
  <2>2. InCall' /\ HoleStored'
    BY <1>0, <1>n, <1>f, <1>27 DEF DisableFails, Goto, Return, controller, driver, TypeOK, InCall,
       HoleStored, Empty, Filled, Placed, Hole, Full
  <2>3. Filled(n)' /\ Placed(n)' /\ n \in 0 .. MaxEntries
    BY <1>0, <1>n, <1>f, <1>27 DEF DisableFails, Goto, Return, controller, driver, TypeOK, InCall,
       HoleStored, Filled, Placed, Hole, Full, Empty
  <2>4. QED
    BY <2>1, <2>2, <2>3 DEF TableInv, Shape
<1>28. ASSUME NEW s \in Sources, Interrupt(s) PROVE TableInv'
  <2>1. PICK k \in Slots : Matches(k, s) /\ called' = <<s, table[k].Handler, table[k].Param>>
    BY <1>28 DEF Interrupt, First
  <2>2. table[k].Handler \in Clients /\ table[k].Param \in Clients
    BY <1>0, <1>n, <1>e, <2>1 DEF Matches, Filled, Placed, Hole, HoleStored, Full, Empty
  <2>3. TypeOK'
    BY <1>0, <1>28, <2>1, <2>2 DEF TypeOK, Interrupt, driver, controller
  <2>4. InCall' /\ HoleStored' /\ Filled(n)' /\ Placed(n)'
    BY <1>0, <1>n, <1>28 DEF Interrupt, driver, InCall, HoleStored, Filled, Placed, Hole, Full,
       Empty
  <2>5. QED
    BY <2>3, <2>4 DEF TableInv, Shape
<1>29. ASSUME HandlerReturns PROVE TableInv'
  <2>1. TypeOK'
    BY <1>0, <1>n, <1>f, <1>29 DEF HandlerReturns, Goto, Return, controller, driver, TypeOK,
       Stages, Placed
  <2>2. InCall' /\ HoleStored'
    BY <1>0, <1>n, <1>f, <1>29 DEF HandlerReturns, Goto, Return, controller, driver, TypeOK,
       InCall, HoleStored, Empty, Filled, Placed, Hole, Full
  <2>3. Filled(n)' /\ Placed(n)' /\ n \in 0 .. MaxEntries
    BY <1>0, <1>n, <1>f, <1>29 DEF HandlerReturns, Goto, Return, controller, driver, TypeOK,
       InCall, HoleStored, Filled, Placed, Hole, Full, Empty
  <2>4. QED
    BY <2>1, <2>2, <2>3 DEF TableInv, Shape
<1>30. ASSUME HandlerUnregisters PROVE TableInv'
  <2>h. Hole = 0 /\ pc \notin {"scan", "dropHandler", "moveParam", "moveSource", "clearHandler"}
    BY <1>30 DEF HandlerUnregisters, Hole
  <2>e. \A j \in Slots : IF j <= n THEN Full(j) ELSE Empty(j)
    BY <1>n, <2>h DEF Filled
  <2>k. PICK k \in 1 .. n :
          table' = [j \in Slots |-> IF j \in k .. n - 1 THEN table[j + 1] ELSE IF j = n THEN EmptyEntry ELSE table[j]]
    BY <1>30, <1>n, <2>e, CompactedTable
  <2>t. table' \in [Slots -> Entries]
    BY <1>e, <1>n, <2>k DEF EmptyEntry, Entries
  <2>1. TypeOK'
    BY <1>0, <1>30, <2>t DEF HandlerUnregisters, TypeOK, driver
  <2>2. InCall' /\ HoleStored'
    BY <1>0, <1>30, <2>h DEF HandlerUnregisters, driver, InCall, HoleStored
  <2>3. Filled(n - 1)' /\ Placed(n - 1)'
    BY <1>n, <1>30, <2>h, <2>e, <2>k DEF HandlerUnregisters, driver, Filled, Placed, Hole, Full,
       Empty, EmptyEntry
  <2>4. QED
    BY <1>n, <2>k, <2>1, <2>2, <2>3 DEF TableInv, Shape
<1>31. ASSUME UNCHANGED vars PROVE TableInv'
  <2> USE <1>31 DEF vars, controller, driver
  <2>1. TypeOK' /\ InCall' /\ HoleStored'
    BY <1>0 DEF TypeOK, InCall, HoleStored, Empty
  <2>2. Filled(n)' /\ Placed(n)'
    BY <1>n DEF Filled, Placed, Hole, Full, Empty
  <2>3. QED
    BY <2>1, <2>2 DEF TableInv, Shape
<1>32. QED
  BY <1>1, <1>2, <1>3, <1>4, <1>5, <1>6, <1>7, <1>8, <1>9, <1>10, <1>11, <1>12, <1>13, <1>14,
     <1>15, <1>16, <1>17, <1>18, <1>19, <1>20, <1>21, <1>22, <1>23, <1>24, <1>25, <1>26, <1>27,
     <1>28, <1>29, <1>30, <1>31 DEF Next, Register, Unregister, Isr, DropEntry, MoveEntry,
     ClearMoved, Goto

-----------------------------------------------------------------------------
(* The invariants of the run.                                              *)

\* The table, the driver's place in its call and the controller keep their
\* types; in particular no index leaves the table.
THEOREM OskTypeCorrect == Spec => []TypeOK
<1>1. Spec => []TableInv
  BY TableInvInit, TableInvNext, PTL DEF Spec
<1>2. TableInv => TypeOK
  BY DEF TableInv
<1>3. QED
  BY <1>1, <1>2, PTL

\* CrUnregisterInterrupt closes the gap it makes, and the scan of
\* CrRegisterInterrupt finds the first free entry: between calls the entries
\* in use are the first ones, complete, whichever handlers have unregistered
\* themselves meanwhile.
THEOREM TableCompact == Spec => []Prefix
<1>1. Spec => []TableInv
  BY TableInvInit, TableInvNext, PTL DEF Spec
<1>2. TableInv => Prefix
  <2> SUFFICES ASSUME TableInv, pc = "idle", NEW k \in Slots
               PROVE  \/ table[k] # EmptyEntry /\ None \notin {table[k].Handler, table[k].Source}
                      \/ \A j \in Slots : k <= j => table[j] = EmptyEntry
    BY DEF Prefix
  <2>1. PICK n \in 0 .. MaxEntries : Filled(n)
    BY DEF TableInv, Shape
  <2>2. Hole = 0 /\ table \in [Slots -> Entries]
    BY DEF TableInv, TypeOK, Hole
  <2>3. \A j \in Slots : IF j <= n THEN Full(j) ELSE Empty(j)
    BY <2>1, <2>2, MaxEntriesAssumption DEF Filled, Slots
  <2>4. ASSUME k <= n PROVE table[k] # EmptyEntry /\ None \notin {table[k].Handler, table[k].Source}
    BY <2>3, <2>4 DEF Full, EmptyEntry
  <2>5. ASSUME ~(k <= n), NEW j \in Slots, k <= j PROVE table[j] = EmptyEntry
    <3>1. Empty(j)
      BY <2>1, <2>3, <2>5, MaxEntriesAssumption DEF Slots
    <3>2. QED
      BY <2>2, <3>1 DEF Empty, EmptyEntry, Entries
  <2>6. QED
    BY <2>4, <2>5
<1>3. QED
  BY <1>1, <1>2, PTL

-----------------------------------------------------------------------------
(* Where a handler unregisters itself between calls only.                  *)

Served(s) == \E k \in Slots : Matches(k, s)

\* The stages of a removal at which its source may be enabled with no entry.
Removing == {"dropParam", "dropSource", "next", "moveParam", "moveSource",
             "clearHandler", "clearParam", "clearSource", "disable"}

\* A source that is being removed, or made ready, has an entry; and so has
\* every other one that can interrupt.
Serving ==
  /\ pc = "dropHandler" => Matches(i, conf.source)
  /\ pc \in {"route", "trigger", "enable"} => Served(conf.source)
  /\ \A s \in (routed \cap enabled) \ refused : Served(s) \/ (pc \in Removing /\ s = conf.source)

\* Every step keeps the sources that interrupt served.
LEMMA ServingNext ==
  ASSUME ~Overtakes, TableInv, Serving, [Next]_vars
  PROVE  Serving'
<1> USE MaxEntriesAssumption, NoneAssumption DEF Slots
<1>0. TypeOK /\ InCall /\ HoleStored /\ Serving
  BY DEF TableInv
<1>n. PICK n \in 0 .. MaxEntries : Filled(n) /\ Placed(n)
  BY DEF TableInv, Shape
<1>f. pc # "idle" => conf.source \in Sources /\ conf.handler \in Clients /\ conf.param \in Clients
  BY <1>0, ConfigFields DEF TypeOK, InCall
<1>e. table \in [Slots -> Entries]
  BY <1>0 DEF TypeOK
<1>1. ASSUME RegisterInvalid PROVE Serving'
  BY <1>0, <1>n, <1>f, <1>e, <1>1 DEF RegisterInvalid, Serving, Served, Matches, Removing, Goto,
     Return, controller, driver
<1>2. ASSUME NEW c \in Configs, CrRegisterInterrupt(c) PROVE Serving'
  BY <1>0, <1>n, <1>f, <1>e, <1>2 DEF CrRegisterInterrupt, Serving, Served, Matches, Removing,
     Goto, Return, controller, driver
<1>3. ASSUME TakeEntry PROVE Serving'
  BY <1>0, <1>n, <1>f, <1>e, <1>3 DEF TakeEntry, Serving, Served, Matches, Removing, Goto, Return,
     controller, driver, TypeOK, Placed, HoleStored, Empty, StoreNull, Entries
<1>4. ASSUME EntryInUse PROVE Serving'
  BY <1>0, <1>n, <1>f, <1>e, <1>4 DEF EntryInUse, Serving, Served, Matches, Removing, Goto, Return,
     controller, driver
<1>5. ASSUME NoFreeEntry PROVE Serving'
  BY <1>0, <1>n, <1>f, <1>e, <1>5 DEF NoFreeEntry, Serving, Served, Matches, Removing, Goto,
     Return, controller, driver
<1>6. ASSUME StoreParam PROVE Serving'
  BY <1>0, <1>n, <1>f, <1>e, <1>6 DEF StoreParam, Serving, Served, Matches, Removing, Goto, Return,
     controller, driver, TypeOK, Placed, HoleStored, Empty, StoreNull, Entries
<1>7. ASSUME StoreSource PROVE Serving'
  BY <1>0, <1>n, <1>f, <1>e, <1>7 DEF StoreSource, Serving, Served, Matches, Removing, Goto,
     Return, controller, driver, TypeOK, Placed, HoleStored, Empty, StoreNull, Entries
<1>8. ASSUME RegisterInterruptSource PROVE Serving'
  BY <1>0, <1>n, <1>f, <1>e, <1>8 DEF RegisterInterruptSource, Serving, Served, Matches, Removing,
     Goto, Return, controller, driver
<1>9. ASSUME SetTriggerType PROVE Serving'
  BY <1>0, <1>n, <1>f, <1>e, <1>9 DEF SetTriggerType, Serving, Served, Matches, Removing, Goto,
     Return, controller, driver
<1>10. ASSUME EnableInterruptSource PROVE Serving'
  BY <1>0, <1>n, <1>f, <1>e, <1>10 DEF EnableInterruptSource, Serving, Served, Matches, Removing,
     Goto, Return, controller, driver
<1>11. ASSUME RegisterFails PROVE Serving'
  BY <1>0, <1>n, <1>f, <1>e, <1>11 DEF RegisterFails, Serving, Served, Matches, Removing, Goto,
     Return, controller, driver
<1>12. ASSUME NEW c \in Configs, CrUnregisterInterrupt(c) PROVE Serving'
  BY <1>0, <1>n, <1>f, <1>e, <1>12 DEF CrUnregisterInterrupt, Serving, Served, Matches, Removing,
     Goto, Return, controller, driver
<1>13. ASSUME FindHit PROVE Serving'
  BY <1>0, <1>n, <1>f, <1>e, <1>13 DEF FindHit, Serving, Served, Matches, Removing, Goto, Return,
     controller, driver
<1>14. ASSUME FindMiss PROVE Serving'
  BY <1>0, <1>n, <1>f, <1>e, <1>14 DEF FindMiss, Serving, Served, Matches, Removing, Goto, Return,
     controller, driver
<1>15. ASSUME FindNone PROVE Serving'
  BY <1>0, <1>n, <1>f, <1>e, <1>15 DEF FindNone, Serving, Served, Matches, Removing, Goto, Return,
     controller, driver
<1>16. ASSUME DropEntry, pc = "dropHandler" PROVE Serving'
  BY <1>0, <1>n, <1>f, <1>e, <1>16 DEF DropEntry, Serving, Served, Matches, Removing, Goto, Return,
     controller, driver, TypeOK, Placed, HoleStored, Empty, StoreNull, Entries
<1>17. ASSUME DropEntry, pc = "dropParam" PROVE Serving'
  BY <1>0, <1>n, <1>f, <1>e, <1>17 DEF DropEntry, Serving, Served, Matches, Removing, Goto, Return,
     controller, driver, TypeOK, Placed, HoleStored, Empty, StoreNull, Entries
<1>18. ASSUME DropEntry, pc = "dropSource" PROVE Serving'
  BY <1>0, <1>n, <1>f, <1>e, <1>18 DEF DropEntry, Serving, Served, Matches, Removing, Goto, Return,
     controller, driver, TypeOK, Placed, HoleStored, Empty, StoreNull, Entries
<1>19. ASSUME MoveBegin PROVE Serving'
  BY <1>0, <1>n, <1>f, <1>e, <1>19 DEF MoveBegin, Serving, Served, Matches, Removing, Goto, Return,
     controller, driver, TypeOK, Placed, HoleStored, Empty, StoreNull, Entries, Filled, Hole, Full
<1>20. ASSUME MoveEntry, pc = "moveParam" PROVE Serving'
  BY <1>0, <1>n, <1>f, <1>e, <1>20 DEF MoveEntry, Serving, Served, Matches, Removing, Goto, Return,
     controller, driver, TypeOK, Placed, HoleStored, Empty, StoreNull, Entries
<1>21. ASSUME MoveEntry, pc = "moveSource" PROVE Serving'
  BY <1>0, <1>n, <1>f, <1>e, <1>21 DEF MoveEntry, Serving, Served, Matches, Removing, Goto, Return,
     controller, driver, TypeOK, Placed, HoleStored, Empty, StoreNull, Entries
<1>22. ASSUME ClearMoved, pc = "clearHandler" PROVE Serving'
  BY <1>0, <1>n, <1>f, <1>e, <1>22 DEF ClearMoved, Serving, Served, Matches, Removing, Goto,
     Return, controller, driver, TypeOK, Placed, HoleStored, Empty, StoreNull, Entries
<1>23. ASSUME ClearMoved, pc = "clearParam" PROVE Serving'
  BY <1>0, <1>n, <1>f, <1>e, <1>23 DEF ClearMoved, Serving, Served, Matches, Removing, Goto,
     Return, controller, driver, TypeOK, Placed, HoleStored, Empty, StoreNull, Entries
<1>24. ASSUME ClearMoved, pc = "clearSource" PROVE Serving'
  BY <1>0, <1>n, <1>f, <1>e, <1>24 DEF ClearMoved, Serving, Served, Matches, Removing, Goto,
     Return, controller, driver, TypeOK, Placed, HoleStored, Empty, StoreNull, Entries
<1>25. ASSUME MoveEnd PROVE Serving'
  BY <1>0, <1>n, <1>f, <1>e, <1>25 DEF MoveEnd, Serving, Served, Matches, Removing, Goto, Return,
     controller, driver
<1>26. ASSUME DisableInterruptSource PROVE Serving'
  BY <1>0, <1>n, <1>f, <1>e, <1>26 DEF DisableInterruptSource, Serving, Served, Matches, Removing,
     Goto, Return, controller, driver
<1>27. ASSUME DisableFails PROVE Serving'
  BY <1>0, <1>n, <1>f, <1>e, <1>27 DEF DisableFails, Serving, Served, Matches, Removing, Goto,
     Return, controller, driver
<1>28. ASSUME NEW s \in Sources, Interrupt(s) PROVE Serving'
  BY <1>0, <1>n, <1>f, <1>e, <1>28 DEF Interrupt, Serving, Served, Matches, Removing, Goto, Return,
     controller, driver
<1>29. ASSUME HandlerReturns PROVE Serving'
  BY <1>0, <1>n, <1>f, <1>e, <1>29 DEF HandlerReturns, Serving, Served, Matches, Removing, Goto,
     Return, controller, driver
<1>30. ASSUME HandlerUnregisters PROVE Serving'
  <2>1. pc = "idle" /\ pc' = "idle" /\ Hole = 0
    BY <1>30 DEF HandlerUnregisters, driver, Hole
  <2>2. \A j \in Slots : IF j <= n THEN Full(j) ELSE Empty(j)
    BY <1>n, <2>1 DEF Filled
  <2>3. PICK k \in 1 .. n :
          /\ First(called[1], k)
          /\ table' = [j \in Slots |-> IF j \in k .. n - 1 THEN table[j + 1]
                                       ELSE IF j = n THEN EmptyEntry ELSE table[j]]
    BY <1>30, <1>n, <2>2, CompactedTable
  <2>4. ASSUME NEW s \in Sources, s # called[1], Served(s) PROVE Served(s)'
    <3>1. PICK j \in Slots : Matches(j, s)
      BY <2>4 DEF Served
    <3>2. j # k /\ j <= n
      BY <2>2, <2>3, <2>4, <3>1, <1>n DEF First, Matches, Empty
    <3>3. CASE j < k
      <4>1. table'[j] = table[j]
        BY <2>3, <3>3, <1>n
      <4>2. QED
        BY <3>1, <4>1 DEF Served, Matches
    <3>4. CASE j > k
      <4>1. j - 1 \in Slots /\ table'[j - 1] = table[j]
        BY <2>3, <3>2, <3>4, <1>n
      <4>2. QED
        BY <3>1, <4>1 DEF Served, Matches
    <3>5. QED
      BY <3>2, <3>3, <3>4, <1>n
  <2>5. ASSUME NEW s \in (routed' \cap enabled') \ refused' PROVE s # called[1] /\ s \in (routed \cap enabled) \ refused /\ s \in Sources
    BY <1>0, <1>30, <2>5 DEF HandlerUnregisters, TypeOK
  <2>6. QED
    BY <1>0, <2>1, <2>4, <2>5 DEF Serving, Removing
<1>31. ASSUME UNCHANGED vars PROVE Serving'
  BY <1>0, <1>31 DEF vars, driver, controller, Serving, Served, Matches
<1>32. QED
  BY <1>1, <1>2, <1>3, <1>4, <1>5, <1>6, <1>7, <1>8, <1>9, <1>10, <1>11, <1>12, <1>13, <1>14,
     <1>15, <1>16, <1>17, <1>18, <1>19, <1>20, <1>21, <1>22, <1>23, <1>24, <1>25, <1>26, <1>27,
     <1>28, <1>29, <1>30, <1>31 DEF Next, Register, Unregister, Isr, DropEntry, MoveEntry,
     ClearMoved, Goto

\* CrUnregisterInterrupt and CrRegisterInterrupt: no call, failure or
\* interrupt leaves a source able to interrupt without a handler, but for one
\* that the interrupt controller refused to disable.  Without the hypothesis
\* it fails: a registration then enables a source whose handler has gone.
THEOREM InterruptsAnswered ==
  ASSUME ~Overtakes
  PROVE  Spec => []Answered
<1>1. Init => Serving
  BY DEF Init, Serving
<1>2. TableInv /\ Serving /\ [Next]_vars => TableInv' /\ Serving'
  BY TableInvNext, ServingNext
<1>3. TableInv /\ Serving => Answered
  BY DEF Serving, Served, Removing, Answered
<1>4. QED
  BY <1>1, <1>2, <1>3, TableInvInit, PTL DEF Spec

-----------------------------------------------------------------------------
(* The order of a set of entries.                                          *)

\* The entries of a set are numbered from 1, and Nth is the inverse of Rank.
LEMMA Ranks ==
  ASSUME NEW K \in SUBSET Slots
  PROVE  /\ IsFiniteSet(K) /\ Cardinality(K) \in Nat
         /\ \A k \in K : Rank(K, k) \in 1 .. Cardinality(K) /\ Nth(K, Rank(K, k)) = k
         /\ \A n \in 1 .. Cardinality(K) : Nth(K, n) \in K /\ Rank(K, Nth(K, n)) = n
<1> USE MaxEntriesAssumption DEF Slots
<1>0. IsFiniteSet(Slots) /\ K \subseteq Nat
  BY FS_Interval
<1>1. IsFiniteSet(K) /\ Cardinality(K) \in Nat
  BY <1>0, FS_Subset, FS_CardinalityType
<1>2. ASSUME NEW k \in K PROVE Rank(K, k) \in 1 .. Cardinality(K)
  <2> DEFINE L == {j \in K : j <= k}
  <2>1. IsFiniteSet(L) /\ Cardinality(L) \in Nat /\ Cardinality(L) <= Cardinality(K)
    BY <1>1, FS_Subset, FS_CardinalityType
  <2>2. k \in L
    OBVIOUS
  <2>3. Cardinality(L) # 0
    BY <2>1, <2>2, FS_EmptySet
  <2>4. QED
    BY <1>1, <2>1, <2>3 DEF Rank
<1>3. ASSUME NEW j \in K, NEW k \in K, j < k PROVE Rank(K, j) # Rank(K, k)
  <2> DEFINE J == {l \in K : l <= j}
             L == {l \in K : l <= k}
  <2>1. IsFiniteSet(L) /\ J \in SUBSET L
    <3>1. IsFiniteSet(L)
      BY <1>1, FS_Subset
    <3>2. ASSUME NEW l \in K, l <= j PROVE l <= k
      BY <1>0, <1>3, <3>2
    <3>3. QED
      BY <3>1, <3>2
  <2>2. k \in L /\ k \notin J
    BY <1>3
  <2>3. J # L
    BY <2>2
  <2>4. Cardinality(J) # Cardinality(L)
    BY <2>1, <2>3, FS_Subset
  <2>5. QED
    BY <2>4 DEF Rank
<1>4. \A j, k \in K : Rank(K, j) = Rank(K, k) => j = k
  BY <1>3
<1>5. ASSUME NEW k \in K PROVE Nth(K, Rank(K, k)) = k
  BY <1>4 DEF Nth
<1>6. ASSUME NEW n \in 1 .. Cardinality(K) PROVE \E k \in K : Rank(K, k) = n
  <2> DEFINE r == [k \in K |-> Rank(K, k)]
  <2>1. r \in [K -> 1 .. Cardinality(K)]
    BY <1>2
  <2>2. r \in Injection(K, 1 .. Cardinality(K))
    BY <2>1, <1>4, Fun_IsInj
  <2>3. IsFiniteSet(1 .. Cardinality(K)) /\ Cardinality(1 .. Cardinality(K)) = Cardinality(K)
    BY <1>1, FS_Interval
  <2>4. r \in Surjection(K, 1 .. Cardinality(K))
    BY <2>2, <2>3, FS_Injection
  <2>5. PICK k \in K : r[k] = n
    BY <2>4 DEF Surjection
  <2>6. QED
    BY <2>5
<1>7. ASSUME NEW n \in 1 .. Cardinality(K) PROVE Nth(K, n) \in K /\ Rank(K, Nth(K, n)) = n
  BY <1>6 DEF Nth
<1>8. QED
  BY <1>1, <1>2, <1>5, <1>7

\* A sequence is the queue of a set of entries when it has the entry of every
\* rank at that rank.
LEMMA IsQueue ==
  ASSUME NEW K \in SUBSET Slots, NEW T, NEW q \in Seq(Clients \X Clients), Len(q) = Cardinality(K),
         \A k \in K : T[k].Handler \in Clients /\ T[k].Param \in Clients,
         \A k \in K : q[Rank(K, k)] = <<T[k].Handler, T[k].Param>>
  PROVE  QueueOf(T, K) = q
<1>1. \A n \in 1 .. Cardinality(K) : q[n] = <<T[Nth(K, n)].Handler, T[Nth(K, n)].Param>>
  BY Ranks
<1>2. q = [n \in 1 .. Cardinality(K) |-> q[n]]
  BY LenProperties
<1>3. QED
  BY <1>1, <1>2 DEF QueueOf

\* A queue is a sequence, with the entry of each rank at that rank.
LEMMA QueueType ==
  ASSUME NEW K \in SUBSET Slots, NEW T,
         \A k \in K : T[k].Handler \in Clients /\ T[k].Param \in Clients
  PROVE  /\ QueueOf(T, K) \in Seq(Clients \X Clients)
         /\ Len(QueueOf(T, K)) = Cardinality(K)
         /\ \A k \in K : QueueOf(T, K)[Rank(K, k)] = <<T[k].Handler, T[k].Param>>
<1>1. Cardinality(K) \in Nat
  BY Ranks
<1>2. \A n \in 1 .. Cardinality(K) : <<T[Nth(K, n)].Handler, T[Nth(K, n)].Param>> \in Clients \X Clients
  BY Ranks
<1>3. QueueOf(T, K) \in [1 .. Cardinality(K) -> Clients \X Clients]
  BY <1>2 DEF QueueOf
<1>4. QueueOf(T, K) \in Seq(Clients \X Clients) /\ Len(QueueOf(T, K)) = Cardinality(K)
  BY <1>1, <1>3
<1>5. QED
  BY <1>4, Ranks DEF QueueOf

Valued(T, K) == \A k \in K : T[k].Handler \in Clients /\ T[k].Param \in Clients
Longer(q, r, e) == q = Append(r, e)
SameEntry(T, k, U, l) == U[l].Handler = T[k].Handler /\ U[l].Param = T[k].Param

\* An entry behind the others is appended.
LEMMA QueueAppend ==
  ASSUME NEW K \in SUBSET Slots, NEW m \in Slots, \A k \in K : k < m, NEW T, NEW U,
         Valued(T, K), \A k \in K : SameEntry(T, k, U, k),
         NEW e \in Clients \X Clients, e = <<U[m].Handler, U[m].Param>>
  PROVE  Longer(QueueOf(U, K \cup {m}), QueueOf(T, K), e)
<1> USE MaxEntriesAssumption DEF Slots
<1> DEFINE L == K \cup {m}
           q == Append(QueueOf(T, K), e)
<1>1. m \notin K /\ L \in SUBSET Slots
  OBVIOUS
<1>2. IsFiniteSet(K) /\ Cardinality(K) \in Nat /\ Cardinality(L) = Cardinality(K) + 1
  BY <1>1, Ranks, FS_AddElement
<1>3. ASSUME NEW k \in K PROVE Rank(L, k) = Rank(K, k)
  <2>1. {j \in L : j <= k} = {j \in K : j <= k}
    OBVIOUS
  <2>2. QED
    BY <2>1 DEF Rank
<1>4. Rank(L, m) = Cardinality(L)
  <2>1. ASSUME NEW j \in L PROVE j <= m
    <3>1. j \in Slots /\ (j = m \/ j < m)
      BY <2>1
    <3>2. QED
      BY <3>1
  <2>2. {j \in L : j <= m} = L
    BY <2>1
  <2>3. QED
    BY <2>2 DEF Rank
<1>5. QueueOf(T, K) \in Seq(Clients \X Clients) /\ Len(QueueOf(T, K)) = Cardinality(K)
  BY QueueType DEF Valued
<1>6. q \in Seq(Clients \X Clients) /\ Len(q) = Cardinality(L)
  BY <1>2, <1>5, AppendProperties
<1>7. ASSUME NEW k \in L PROVE q[Rank(L, k)] = <<U[k].Handler, U[k].Param>>
  <2>1. CASE k = m
    <3>1. q[Len(QueueOf(T, K)) + 1] = e
      BY <1>5, AppendProperties
    <3>2. QED
      BY <1>2, <1>4, <1>5, <2>1, <3>1
  <2>2. CASE k \in K
    <3>0. Rank(L, k) = Rank(K, k) /\ Rank(K, k) \in 1 .. Cardinality(K)
      BY <1>3, <2>2, Ranks
    <3>a. QueueOf(T, K)[Rank(K, k)] = <<T[k].Handler, T[k].Param>>
      BY <2>2, QueueType DEF Valued
    <3>1. Rank(L, k) \in 1 .. Cardinality(K) /\ QueueOf(T, K)[Rank(L, k)] = <<T[k].Handler, T[k].Param>>
      BY <3>0, <3>a
    <3>2. \A l \in 1 .. Len(QueueOf(T, K)) : q[l] = QueueOf(T, K)[l]
      BY <1>5, AppendProperties
    <3>4. q[Rank(L, k)] = QueueOf(T, K)[Rank(L, k)]
      BY <1>5, <3>1, <3>2
    <3>3. QED
      BY <2>2, <3>1, <3>4 DEF SameEntry
  <2>3. QED
    BY <2>1, <2>2
<1>8. \A k \in L : U[k].Handler \in Clients /\ U[k].Param \in Clients
  BY DEF Valued, SameEntry
<1> HIDE DEF L, q
<1>9. L \in SUBSET Slots
  BY <1>1 DEF L
<1>10. QueueOf(U, L) = q
  BY <1>6, <1>7, <1>8, <1>9, IsQueue
<1>11. QED
  BY <1>10 DEF L, q, Longer

\* Without its first entry, the queue is the tail.
LEMMA QueueTail ==
  ASSUME NEW K \in SUBSET Slots, NEW h \in K, \A k \in K : h <= k, NEW T, NEW U,
         \A k \in K : T[k].Handler \in Clients /\ T[k].Param \in Clients,
         \A k \in K \ {h} : U[k] = T[k]
  PROVE  /\ QueueOf(T, K) # <<>>
         /\ Head(QueueOf(T, K)) = <<T[h].Handler, T[h].Param>>
         /\ QueueOf(U, K \ {h}) = Tail(QueueOf(T, K))
<1> USE MaxEntriesAssumption DEF Slots
<1> DEFINE L == K \ {h}
           q == Tail(QueueOf(T, K))
<1>1. IsFiniteSet(K) /\ Cardinality(K) \in Nat /\ Cardinality(L) = Cardinality(K) - 1
  BY Ranks, FS_RemoveElement
<1>2. Cardinality(K) # 0
  BY <1>1, FS_EmptySet
<1>3. Rank(K, h) = 1
  <2>1. ASSUME NEW j \in K PROVE j <= h <=> j = h
    <3>1. j \in Int /\ h \in Int /\ h <= j
      OBVIOUS
    <3>2. QED
      BY <3>1
  <2>2. {j \in K : j <= h} = {h}
    BY <2>1
  <2>3. QED
    BY <2>2, FS_Singleton DEF Rank
<1>4. QueueOf(T, K) \in Seq(Clients \X Clients) /\ Len(QueueOf(T, K)) = Cardinality(K)
  BY QueueType
<1>5. QueueOf(T, K) # <<>> /\ Head(QueueOf(T, K)) = <<T[h].Handler, T[h].Param>>
  <2>1. QueueOf(T, K)[Rank(K, h)] = <<T[h].Handler, T[h].Param>>
    BY QueueType
  <2>2. QED
    BY <1>2, <1>3, <1>4, <2>1
<1>6. q \in Seq(Clients \X Clients) /\ Len(q) = Cardinality(L)
  BY <1>1, <1>4, <1>5, HeadTailProperties
<1>7. ASSUME NEW k \in L PROVE Rank(L, k) + 1 = Rank(K, k)
  <2> DEFINE J == {j \in K : j <= k}
  <2>1. IsFiniteSet(J) /\ h \in J
    BY <1>1, FS_Subset
  <2>2. {j \in L : j <= k} = J \ {h}
    OBVIOUS
  <2>3. Cardinality(J \ {h}) = Cardinality(J) - 1
    BY <2>1, FS_RemoveElement
  <2>4. Cardinality(J) \in Nat
    BY <2>1, FS_CardinalityType
  <2>5. Cardinality(J \ {h}) + 1 = Cardinality(J)
    BY <2>3, <2>4
  <2>6. QED
    BY <2>2, <2>5 DEF Rank
<1>8. ASSUME NEW k \in L PROVE q[Rank(L, k)] = <<U[k].Handler, U[k].Param>>
  <2>1. Rank(L, k) \in 1 .. Cardinality(L)
    BY Ranks
  <2>2. q[Rank(L, k)] = QueueOf(T, K)[Rank(L, k) + 1]
    BY <1>4, <1>5, <1>6, <2>1, HeadTailProperties
  <2>3. QueueOf(T, K)[Rank(K, k)] = <<T[k].Handler, T[k].Param>>
    BY QueueType
  <2>4. QED
    BY <1>7, <2>2, <2>3
<1>9. \A k \in L : U[k].Handler \in Clients /\ U[k].Param \in Clients
  OBVIOUS
<1>10. L \in SUBSET Slots
  OBVIOUS
<1> HIDE DEF L, q
<1>11. QueueOf(U, L) = q
  BY <1>6, <1>8, <1>9, <1>10, IsQueue
<1>12. QED
  BY <1>5, <1>11 DEF L, q

\* Entries that move without overtaking each other keep the queue as it is.
LEMMA QueueMoved ==
  ASSUME NEW K \in SUBSET Slots, NEW L \in SUBSET Slots, NEW f \in [K -> L],
         \A l \in L : \E k \in K : f[k] = l, \A j, k \in K : j < k => f[j] < f[k],
         NEW T, NEW U, Valued(T, K), \A k \in K : SameEntry(T, k, U, f[k])
  PROVE  QueueOf(U, L) = QueueOf(T, K)
<1>1. ASSUME NEW j \in K, NEW k \in K PROVE (f[j] <= f[k] <=> j <= k) /\ (f[j] = f[k] => j = k)
  <2>1. f[j] \in L /\ f[k] \in L
    OBVIOUS
  <2>0. f[j] \in Slots /\ f[k] \in Slots /\ j \in Slots /\ k \in Slots
    BY <2>1
  <2>2. /\ j < k => f[j] < f[k]
        /\ k < j => f[k] < f[j]
    OBVIOUS
  <2>3. QED
    BY <2>0, <2>2, MaxEntriesAssumption DEF Slots
<1>2. ASSUME NEW A \in SUBSET K, NEW B \in SUBSET L, \A k \in K : f[k] \in B <=> k \in A
      PROVE  Cardinality(B) = Cardinality(A)
  <2> DEFINE g == [k \in A |-> f[k]]
  <2>1. g \in [A -> B] /\ \A a, b \in A : g[a] = g[b] => a = b
    BY <1>1, <1>2
  <2>2. \A b \in B : \E a \in A : g[a] = b
    BY <1>2
  <2>3. g \in Injection(A, B) /\ g \in Surjection(A, B)
    BY <2>1, <2>2, Fun_IsInj, Fun_IsSurj
  <2>4. IsFiniteSet(A)
    BY Ranks, FS_Subset
  <2>5. QED
    BY <2>3, <2>4, FS_Surjection
<1>3. Cardinality(L) = Cardinality(K)
  BY <1>2
<1>4. ASSUME NEW k \in K PROVE Rank(L, f[k]) = Rank(K, k)
  <2> DEFINE A == {j \in K : j <= k}
             B == {l \in L : l <= f[k]}
  <2>1. A \in SUBSET K /\ B \in SUBSET L /\ \A j \in K : f[j] \in B <=> j \in A
    BY <1>1
  <2>2. Cardinality(B) = Cardinality(A)
    BY <2>1, <1>2
  <2>3. QED
    BY <2>2 DEF Rank
<1>5. QueueOf(T, K) \in Seq(Clients \X Clients) /\ Len(QueueOf(T, K)) = Cardinality(L)
  BY <1>3, QueueType DEF Valued
<1>6. \A k \in K : QueueOf(T, K)[Rank(K, k)] = <<T[k].Handler, T[k].Param>>
  BY QueueType DEF Valued
<1>7. \A l \in L : /\ U[l].Handler \in Clients /\ U[l].Param \in Clients
                  /\ QueueOf(T, K)[Rank(L, l)] = <<U[l].Handler, U[l].Param>>
  BY <1>4, <1>6 DEF Valued, SameEntry
<1> DEFINE q == QueueOf(T, K)
<1>8. q \in Seq(Clients \X Clients) /\ Len(q) = Cardinality(L)
  BY <1>5
<1>9. \A l \in L : q[Rank(L, l)] = <<U[l].Handler, U[l].Param>>
  BY <1>7
<1> HIDE DEF q
<1>10. \A l \in L : U[l].Handler \in Clients /\ U[l].Param \in Clients
  BY <1>7
<1>11. QueueOf(U, L) = q
  BY <1>8, <1>9, <1>10, IsQueue
<1>12. QED
  BY <1>11 DEF q

-----------------------------------------------------------------------------
(* The registry that the table implements.                                 *)

\* The entries of a table that the interrupt entry may find for source s, at
\* stage p and index x of a call.
Heard(T, p, x, s) ==
  {k \in Slots : T[k].Source = s /\ T[k].Handler # None /\ ~(p = "clearHandler" /\ k = x + 1)}
queues == [s \in Sources |-> Queue(s)]

\* The queues of a state are a function of its table and of what is being moved.
LEMMA QueuesNow == queues = [s \in Sources |-> QueueOf(table, Heard(table, pc, i, s))]
BY DEF queues, Queue, Heard, Matches

\* The same after a step.
LEMMA QueuesNext == queues' = [s \in Sources |-> QueueOf(table', Heard(table', pc', i', s))]
BY DEF queues, Queue, Heard, Matches, QueueOf, Nth, Rank

\* An entry that can be found is complete.
LEMMA HeardValued ==
  ASSUME TableInv, NEW s \in Sources
  PROVE  /\ Valued(table, Heard(table, pc, i, s))
         /\ \A k \in Slots : Matches(k, s) => table[k].Handler \in Clients /\ table[k].Param \in Clients
<1> USE MaxEntriesAssumption, NoneAssumption DEF Slots
<1>1. ASSUME NEW k \in Slots, Matches(k, s) PROVE table[k].Handler \in Clients /\ table[k].Param \in Clients
  <2>1. PICK n \in 0 .. MaxEntries : Filled(n) /\ Placed(n)
    BY DEF TableInv, Shape
  <2>2. table[k] \in Entries /\ HoleStored
    BY DEF TableInv, TypeOK
  <2>3. table[k].Param # None
    BY <1>1, <2>1, <2>2 DEF Matches, Filled, Placed, Hole, HoleStored, Full, Empty
  <2>4. QED
    BY <1>1, <2>2, <2>3 DEF Matches, Entries
<1>2. QED
  BY <1>1 DEF Valued, Heard, Matches

\* The entries before the one that a removal looks at are not of its source.
Searching ==
  /\ pc \in {"find", "dropHandler"} => \A j \in Slots : j < i => ~Matches(j, conf.source)
  /\ pc = "dropHandler" => Matches(i, conf.source)

\* Every step keeps what the search of a removal has passed.
LEMMA SearchingNext ==
  ASSUME TableInv, Searching, [Next]_vars
  PROVE  Searching'
<1> USE MaxEntriesAssumption DEF Slots
<1>0. TypeOK /\ InCall /\ Searching
  BY DEF TableInv
<1>n. pc = "idle" => i = 1
  BY DEF TableInv, Shape, Placed
<1>1. CASE UNCHANGED vars
  BY <1>0, <1>1 DEF vars, driver, Searching, Matches
<1>2. ASSUME NEW c \in Configs, CrUnregisterInterrupt(c) PROVE Searching'
  BY <1>0, <1>n, <1>2 DEF CrUnregisterInterrupt, Goto, Searching, Matches
<1>3. CASE FindHit \/ FindMiss
  BY <1>0, <1>3 DEF FindHit, FindMiss, Goto, Searching, Matches, TypeOK
<1>4. CASE Register \/ Isr
  <2>1. pc' \in {"find", "dropHandler"} => pc' = pc /\ UNCHANGED <<table, i, conf>>
    BY <1>4 DEF Register, Isr, RegisterInvalid, CrRegisterInterrupt, TakeEntry, EntryInUse,
       NoFreeEntry, StoreParam,
      StoreSource, RegisterInterruptSource, SetTriggerType, EnableInterruptSource, RegisterFails, Goto, Return,
      Interrupt, HandlerReturns, HandlerUnregisters, driver
  <2>2. QED
    BY <1>0, <2>1 DEF Searching, Matches
<1>5. CASE FindNone \/ DropEntry \/ MoveBegin \/ MoveEntry \/ ClearMoved \/ MoveEnd \/ DisableInterruptSource \/ DisableFails
  <2>1. pc' \notin {"find", "dropHandler"}
    BY <1>5 DEF FindNone, DropEntry, MoveBegin, MoveEntry, ClearMoved, MoveEnd,
       DisableInterruptSource, DisableFails,
      Goto, Return
  <2>2. QED
    BY <2>1 DEF Searching
<1>6. QED
  BY <1>1, <1>2, <1>3, <1>4, <1>5 DEF Next, Unregister

\* The queue of a source whose entries stay where they are.
LEMMA QueueKept ==
  ASSUME TableInv, NEW s \in Sources, Heard(table', pc', i', s) = Heard(table, pc, i, s),
         \A k \in Heard(table, pc, i, s) : SameEntry(table, k, table', k)
  PROVE  QueueOf(table', Heard(table', pc', i', s)) = QueueOf(table, Heard(table, pc, i, s))
<1> DEFINE K == Heard(table, pc, i, s)
           f == [k \in K |-> k]
<1>1. K \in SUBSET Slots /\ Valued(table, K)
  BY HeardValued DEF Heard
<1>2. f \in [K -> K] /\ (\A l \in K : \E k \in K : f[k] = l) /\ \A j, k \in K : j < k => f[j] < f[k]
  OBVIOUS
<1>3. \A k \in K : SameEntry(table, k, table', f[k])
  OBVIOUS
<1> HIDE DEF K, f
<1>4. QueueOf(table', K) = QueueOf(table, K)
  BY <1>1, <1>2, <1>3, QueueMoved
<1>5. QED
  BY <1>4 DEF K

\* What the call in progress asks of the registry.
LEMMA AskedNow ==
  /\ pc = "idle" => Asked = Registry!Idle
  /\ pc \in {"scan", "param", "source"} =>
       Asked = [op |-> "add", source |-> conf.source, handler |-> conf.handler, param |-> conf.param]
  /\ pc \in {"find", "dropHandler"} => Asked = [op |-> "remove", source |-> conf.source]
  /\ pc \in Stages \ {"idle", "scan", "param", "source", "find", "dropHandler"} => Asked = Registry!Done
BY DEF Asked, Registry!Idle, Registry!Done, Stages

\* The same after a step.
LEMMA AskedNext ==
  /\ pc' = "idle" => Asked' = Registry!Idle
  /\ pc' \in {"scan", "param", "source"} =>
       Asked' = [op |-> "add", source |-> conf'.source, handler |-> conf'.handler, param |-> conf'.param]
  /\ pc' \in {"find", "dropHandler"} => Asked' = [op |-> "remove", source |-> conf'.source]
  /\ pc' \in Stages \ {"idle", "scan", "param", "source", "find", "dropHandler"} => Asked' = Registry!Done
BY DEF Asked, Registry!Idle, Registry!Done, Stages

\* A step of a call that stores nothing.
LEMMA QuietStep ==
  ASSUME UNCHANGED table, pc # "clearHandler", pc' # "clearHandler"
  PROVE  queues' = queues
BY QueuesNow, QueuesNext DEF Heard

\* A step that stores to an entry which cannot be found, before or after.
LEMMA UnseenStore ==
  ASSUME TableInv, NEW h \in Slots, table' \in [Slots -> Entries], \A j \in Slots \ {h} : table'[j] = table[j],
         table[h].Handler = None \/ table[h].Source = None \/ (pc = "clearHandler" /\ h = i + 1),
         table'[h].Handler = None \/ table'[h].Source = None,
         pc = "clearHandler" => h = i + 1, pc' # "clearHandler"
  PROVE  queues' = queues
<1> USE NoneAssumption
<1>1. ASSUME NEW s \in Sources
      PROVE  QueueOf(table', Heard(table', pc', i', s)) = QueueOf(table, Heard(table, pc, i, s))
  <2>1. h \notin Heard(table, pc, i, s) /\ h \notin Heard(table', pc', i', s)
    BY DEF Heard
  <2>2. ASSUME NEW k \in Slots \ {h} PROVE k \in Heard(table', pc', i', s) <=> k \in Heard(table, pc, i, s)
    BY DEF Heard
  <2>3. Heard(table', pc', i', s) = Heard(table, pc, i, s)
    BY <2>1, <2>2 DEF Heard
  <2>4. \A k \in Heard(table, pc, i, s) : SameEntry(table, k, table', k)
    BY <2>1 DEF Heard, SameEntry
  <2>5. QED
    BY <2>3, <2>4, QueueKept
<1>2. QED
  BY <1>1, QueuesNow, QueuesNext

\* No entry mixes up two registrations, and no handler is called with the
\* parameter of another.
Unmixed ==
  /\ \A k \in Slots : table[k].Handler # None /\ table[k].Param # None => table[k].Param = table[k].Handler
  /\ called # None => called[3] = called[2]

\* Every step keeps the entries unmixed.
LEMMA UnmixedNext ==
  ASSUME TableInv, Unmixed, [Next]_vars
  PROVE  Unmixed'
<1> USE MaxEntriesAssumption, NoneAssumption DEF Slots
<1>0. TypeOK /\ InCall /\ HoleStored
  BY DEF TableInv
<1>n. PICK n \in 0 .. MaxEntries : Filled(n) /\ Placed(n)
  BY DEF TableInv, Shape
<1>e. table \in [Slots -> Entries]
  BY <1>0 DEF TypeOK
<1>c. pc # "idle" => conf.param = conf.handler
  BY <1>0 DEF TypeOK, InCall, Configs
<1>1. CASE UNCHANGED <<table, called>>
  BY <1>1 DEF Unmixed
<1>2. CASE TakeEntry \/ StoreParam \/ StoreSource
  <2>1. UNCHANGED called
    BY <1>2 DEF TakeEntry, StoreParam, StoreSource
  <2>2. CASE TakeEntry
    <3>1. table[i].Param = None /\ i \in Slots
      BY <1>0, <1>n, <2>2 DEF TakeEntry, Goto, TypeOK, Filled, Placed, Hole, Full, Empty
    <3>2. QED
      BY <1>e, <2>1, <2>2, <3>1 DEF TakeEntry, Unmixed, Entries
  <2>3. CASE StoreParam
    BY <1>0, <1>c, <1>e, <2>1, <2>3 DEF StoreParam, Goto, HoleStored, Unmixed, Entries, TypeOK
  <2>4. CASE StoreSource
    BY <1>0, <1>e, <2>1, <2>4 DEF StoreSource, Goto, Unmixed, Entries, TypeOK
  <2>5. QED
    BY <1>2, <2>2, <2>3, <2>4
<1>3. CASE DropEntry \/ ClearMoved
  <2>1. UNCHANGED called
    BY <1>3 DEF DropEntry, ClearMoved
  <2>2. PICK k \in Slots : StoreNull(k, "Handler") \/ StoreNull(k, "Param") \/ StoreNull(k, "Source")
    BY <1>0, <1>n, <1>3 DEF DropEntry, ClearMoved, Goto, TypeOK, Placed
  <2>3. QED
    BY <1>e, <2>1, <2>2 DEF StoreNull, Unmixed, Entries
<1>4. CASE MoveBegin
  <2>1. UNCHANGED called /\ table[i].Param = None /\ i \in Slots
    BY <1>0, <1>4 DEF MoveBegin, Goto, HoleStored, Empty, TypeOK
  <2>2. QED
    BY <1>e, <1>4, <2>1 DEF MoveBegin, Unmixed, Entries
<1>5. CASE MoveEntry
  <2>1. UNCHANGED called /\ i \in Slots /\ i + 1 \in Slots
    BY <1>0, <1>n, <1>5 DEF MoveEntry, Goto, TypeOK, Placed
  <2>2. CASE pc = "moveParam"
    BY <1>0, <1>e, <1>5, <2>1, <2>2 DEF MoveEntry, Goto, HoleStored, Unmixed, Entries
  <2>3. CASE pc = "moveSource"
    BY <1>0, <1>e, <1>5, <2>1, <2>3 DEF MoveEntry, Goto, HoleStored, Unmixed, Entries
  <2>4. QED
    BY <1>5, <2>2, <2>3 DEF MoveEntry, Goto
<1>6. ASSUME NEW s \in Sources, Interrupt(s) PROVE Unmixed'
  <2>1. PICK k \in Slots : Matches(k, s) /\ called' = <<s, table[k].Handler, table[k].Param>>
    BY <1>6 DEF Interrupt, First
  <2>2. table[k].Handler # None /\ table[k].Param # None
    BY <2>1, HeardValued
  <2>3. QED
    BY <1>6, <2>1, <2>2 DEF Interrupt, Unmixed
<1>7. CASE HandlerReturns
  BY <1>7 DEF HandlerReturns, Unmixed
<1>8. CASE HandlerUnregisters
  <2>1. Hole = 0 /\ UNCHANGED called
    BY <1>8 DEF HandlerUnregisters, Hole
  <2>2. PICK k \in 1 .. n :
          table' = [j \in Slots |-> IF j \in k .. n - 1 THEN table[j + 1] ELSE IF j = n THEN EmptyEntry ELSE table[j]]
    <3>1. \A j \in Slots : IF j <= n THEN Full(j) ELSE Empty(j)
      BY <1>n, <2>1 DEF Filled
    <3>2. QED
      BY <1>8, <3>1, CompactedTable
  <2>3. QED
    BY <2>1, <2>2, <1>n DEF Unmixed, EmptyEntry
<1>9. QED
  BY <1>1, <1>2, <1>3, <1>4, <1>5, <1>6, <1>7, <1>8 DEF Next, vars, Register, Unregister, Isr,
     RegisterInvalid,
    CrRegisterInterrupt, EntryInUse, NoFreeEntry, RegisterInterruptSource, SetTriggerType, EnableInterruptSource,
    RegisterFails, CrUnregisterInterrupt, FindHit, FindMiss, FindNone, MoveEnd, DisableInterruptSource, DisableFails

\* CrRegisterInterrupt's last store: the registration joins its queue.
LEMMA StoreSourceAppends ==
  ASSUME TableInv, TableInv', StoreSource
  PROVE  queues' = [queues EXCEPT ![conf.source] = Append(@, <<conf.handler, conf.param>>)]
<1> USE MaxEntriesAssumption, NoneAssumption
<1>0. TypeOK /\ InCall /\ HoleStored /\ table' \in [Slots -> Entries] /\ table \in [Slots -> Entries]
  BY DEF TableInv, TypeOK
<1>n. PICK n \in 0 .. MaxEntries : Filled(n) /\ Placed(n)
  BY DEF TableInv, Shape
<1>1. /\ pc = "source" /\ pc' = "route" /\ UNCHANGED <<i, conf>> /\ i \in Slots /\ i = n + 1 /\ Hole = i
      /\ conf.source \in Sources /\ table[i].Source = None /\ table[i].Handler # None
      /\ table[i].Handler = conf.handler /\ table[i].Param = conf.param
      /\ conf.handler \in Clients /\ conf.param \in Clients
  BY <1>0, <1>n, ConfigFields DEF StoreSource, Goto, TypeOK, InCall, HoleStored, Placed, Hole
<1>2. Stored(table, table', i, conf.handler, conf.param, conf.source)
  BY <1>0, <1>1, StoreSourceField DEF StoreSource
<1> DEFINE K(s) == Heard(table, pc, i, s)
           L(s) == Heard(table', pc', i', s)
<1>3. ASSUME NEW s \in Sources, s # conf.source PROVE QueueOf(table', L(s)) = QueueOf(table, K(s))
  <2>1. ASSUME NEW k \in Slots PROVE k \in L(s) <=> k \in K(s)
    BY <1>1, <1>2, <1>3 DEF Heard, Stored
  <2>2. L(s) = K(s)
    BY <2>1 DEF Heard
  <2>3. \A k \in K(s) : SameEntry(table, k, table', k)
    BY <1>1, <1>2 DEF Heard, Stored, SameEntry
  <2>4. QED
    BY <2>2, <2>3, QueueKept
<1>4. QueueOf(table', L(conf.source)) = Append(QueueOf(table, K(conf.source)), <<conf.handler, conf.param>>)
  <2> DEFINE A == K(conf.source)
  <2>1. A \in SUBSET Slots /\ Valued(table, A)
    BY <1>1, HeardValued DEF Heard
  <2>2. ASSUME NEW k \in Slots PROVE k \in L(conf.source) <=> k \in A \cup {i}
    BY <1>1, <1>2 DEF Heard, Stored
  <2>3. L(conf.source) = A \cup {i}
    BY <2>2, <1>1 DEF Heard
  <2>4. ASSUME NEW k \in A PROVE k < i
    BY <1>1, <1>n, <2>4 DEF Heard, Filled, Empty, Slots
  <2>5. \A k \in A : SameEntry(table, k, table', k)
    BY <1>1, <1>2 DEF Heard, Stored, SameEntry
  <2>6. table'[i].Handler = conf.handler /\ table'[i].Param = conf.param /\ i \in Slots
    BY <1>1, <1>2 DEF Stored
  <2> HIDE DEF A
  <2>7. Longer(QueueOf(table', A \cup {i}), QueueOf(table, A), <<conf.handler, conf.param>>)
    <3>1. <<conf.handler, conf.param>> \in Clients \X Clients
      BY <1>1
    <3>2. QED
      BY <2>1, <2>4, <2>5, <2>6, <3>1, QueueAppend
  <2>8. QED
    BY <2>3, <2>7 DEF A, Longer
<1> HIDE DEF K, L
<1>5. queues = [s \in Sources |-> QueueOf(table, K(s))] /\ queues' = [s \in Sources |-> QueueOf(table', L(s))]
  BY QueuesNow, QueuesNext DEF K, L
<1>6. QED
  BY <1>1, <1>3, <1>4, <1>5

\* CrUnregisterInterrupt's first store: the registration leaves the head of
\* its queue.
LEMMA DropHandlerRemoves ==
  ASSUME TableInv, TableInv', Searching, DropEntry, pc = "dropHandler"
  PROVE  /\ queues[conf.source] # <<>>
         /\ queues' = [queues EXCEPT ![conf.source] = Tail(@)]
<1> USE MaxEntriesAssumption, NoneAssumption
<1>0. TypeOK /\ InCall /\ table' \in [Slots -> Entries] /\ table \in [Slots -> Entries]
  BY DEF TableInv, TypeOK
<1>1. /\ pc' = "dropParam" /\ UNCHANGED <<i, conf>> /\ i \in Slots /\ conf.source \in Sources
      /\ Matches(i, conf.source) /\ table' = [table EXCEPT ![i].Handler = None]
  BY <1>0, ConfigFields DEF DropEntry, Goto, TypeOK, InCall, Searching, StoreNull
<1>2. Stored(table, table', i, None, table[i].Param, table[i].Source)
  BY <1>0, <1>1, StoreHandlerField
<1> DEFINE K(s) == Heard(table, pc, i, s)
           L(s) == Heard(table', pc', i', s)
<1>3. ASSUME NEW s \in Sources, s # conf.source PROVE QueueOf(table', L(s)) = QueueOf(table, K(s))
  <2>1. ASSUME NEW k \in Slots PROVE k \in L(s) <=> k \in K(s)
    BY <1>1, <1>2, <1>3 DEF Heard, Stored, Matches
  <2>2. L(s) = K(s)
    BY <2>1 DEF Heard
  <2>3. \A k \in K(s) : SameEntry(table, k, table', k)
    BY <1>1, <1>2, <1>3 DEF Heard, Stored, SameEntry, Matches
  <2>4. QED
    BY <2>2, <2>3, QueueKept
<1>4. /\ QueueOf(table, K(conf.source)) # <<>>
      /\ QueueOf(table', L(conf.source)) = Tail(QueueOf(table, K(conf.source)))
  <2> DEFINE A == K(conf.source)
  <2>1. A \in SUBSET Slots /\ Valued(table, A)
    BY <1>1, HeardValued DEF Heard
  <2>2. ASSUME NEW k \in Slots PROVE k \in L(conf.source) <=> k \in A \ {i}
    BY <1>1, <1>2 DEF Heard, Stored
  <2>3. L(conf.source) = A \ {i}
    BY <2>2 DEF Heard
  <2>4. i \in A
    BY <1>1 DEF Heard, Matches
  <2>5. ASSUME NEW k \in A PROVE i <= k
    BY <1>1, <2>5 DEF Heard, Searching, Matches, Slots
  <2>6. \A k \in A \ {i} : table'[k] = table[k]
    BY <1>2 DEF Heard, Stored
  <2> HIDE DEF A
  <2>7. QueueOf(table, A) # <<>> /\ QueueOf(table', A \ {i}) = Tail(QueueOf(table, A))
    BY <2>1, <2>4, <2>5, <2>6, QueueTail DEF Valued
  <2>8. QED
    BY <2>3, <2>7 DEF A
<1> HIDE DEF K, L
<1>5. queues = [s \in Sources |-> QueueOf(table, K(s))] /\ queues' = [s \in Sources |-> QueueOf(table', L(s))]
  BY QueuesNow, QueuesNext DEF K, L
<1>6. QED
  BY <1>1, <1>3, <1>4, <1>5

\* The store that completes the copy of an entry: from now on the copy is
\* found, in the place of the entry.
LEMMA MoveKeepsQueues ==
  ASSUME TableInv, TableInv', MoveEntry, pc = "moveSource"
  PROVE  queues' = queues
<1> USE MaxEntriesAssumption, NoneAssumption DEF Slots
<1>0. TypeOK /\ HoleStored /\ table' \in [Slots -> Entries] /\ table \in [Slots -> Entries]
  BY DEF TableInv, TypeOK
<1>n. PICK n \in 0 .. MaxEntries : Filled(n) /\ Placed(n)
  BY DEF TableInv, Shape
<1>1. /\ pc' = "clearHandler" /\ UNCHANGED i /\ i \in Slots /\ i + 1 \in Slots
      /\ table[i].Source = None /\ table[i].Handler = table[i + 1].Handler /\ table[i].Param = table[i + 1].Param
      /\ table[i + 1].Source \in Sources \cup {None}
  BY <1>0, <1>n DEF MoveEntry, Goto, TypeOK, HoleStored, Placed, Entries
<1>2. Stored(table, table', i, table[i].Handler, table[i].Param, table[i + 1].Source)
  BY <1>0, <1>1, StoreSourceField DEF MoveEntry, Goto
<1>3. ASSUME NEW s \in Sources
      PROVE  QueueOf(table', Heard(table', pc', i', s)) = QueueOf(table, Heard(table, pc, i, s))
  <2> DEFINE K == Heard(table, pc, i, s)
             L == Heard(table', pc', i', s)
             f == [k \in K |-> IF k = i + 1 THEN i ELSE k]
  <2>1. K \in SUBSET Slots /\ L \in SUBSET Slots /\ Valued(table, K)
    BY HeardValued DEF Heard
  <2>2. i \notin K /\ i + 1 \notin L
    BY <1>1 DEF Heard
  <2>3. ASSUME NEW k \in Slots \ {i, i + 1} PROVE k \in L <=> k \in K
    BY <1>1, <1>2 DEF Heard, Stored
  <2>4. i \in L <=> i + 1 \in K
    BY <1>1, <1>2 DEF Heard, Stored
  <2>5. f \in [K -> L]
    BY <2>1, <2>2, <2>3, <2>4
  <2>6. ASSUME NEW l \in L PROVE \E k \in K : f[k] = l
    <3>1. CASE l = i
      BY <2>4, <2>6, <3>1
    <3>2. CASE l # i
      BY <2>1, <2>2, <2>3, <2>6, <3>2
    <3>3. QED
      BY <3>1, <3>2
  <2>7. ASSUME NEW j \in K, NEW k \in K, j < k PROVE f[j] < f[k]
    <3>1. j \in Slots /\ k \in Slots /\ i \in Slots /\ j # i /\ k # i
      BY <1>1, <2>1, <2>2
    <3>2. f[j] = (IF j = i + 1 THEN i ELSE j) /\ f[k] = (IF k = i + 1 THEN i ELSE k)
      OBVIOUS
    <3>3. QED
      BY <2>7, <3>1, <3>2
  <2>8. ASSUME NEW k \in K PROVE SameEntry(table, k, table', f[k])
    BY <1>1, <1>2, <2>2 DEF Heard, Stored, SameEntry
  <2> HIDE DEF K, L, f
  <2>9. QueueOf(table', L) = QueueOf(table, K)
    BY <2>1, <2>5, <2>6, <2>7, <2>8, QueueMoved
  <2>10. QED
    BY <2>9 DEF K, L
<1>4. QED
  BY <1>3, QueuesNow, QueuesNext

\* The search finds the head of the queue, also while an entry is moved.
LEMMA FirstIsHead ==
  ASSUME TableInv, NEW s \in Sources, NEW k \in Slots, First(s, k)
  PROVE  /\ k \in Heard(table, pc, i, s)
         /\ \A j \in Heard(table, pc, i, s) : k <= j
<1> USE MaxEntriesAssumption, NoneAssumption DEF Slots
<1>0. TypeOK /\ HoleStored
  BY DEF TableInv
<1>n. PICK n \in 0 .. MaxEntries : Filled(n) /\ Placed(n)
  BY DEF TableInv, Shape
<1>1. ASSUME pc = "clearHandler", k = i + 1 PROVE FALSE
  <2>1. i \in Slots /\ i < k /\ Matches(i, s)
    BY <1>0, <1>1 DEF TypeOK, HoleStored, First, Matches
  <2>2. QED
    BY <2>1 DEF First
<1>2. QED
  BY <1>1 DEF First, Matches, Heard

\* A handler that unregisters itself leaves the head of its queue.
LEMMA HandlerUnregistersRemoves ==
  ASSUME TableInv, TableInv', Unmixed, HandlerUnregisters
  PROVE  /\ called[1] \in Sources /\ queues[called[1]] # <<>>
         /\ Head(queues[called[1]]) = <<called[2], called[3]>>
         /\ queues' = [queues EXCEPT ![called[1]] = Tail(@)]
<1> USE MaxEntriesAssumption, NoneAssumption DEF Slots
<1>0. TypeOK /\ table' \in [Slots -> Entries] /\ table \in [Slots -> Entries]
  BY DEF TableInv, TypeOK
<1>n. PICK n \in 0 .. MaxEntries : Filled(n) /\ Placed(n)
  BY DEF TableInv, Shape
<1>1. /\ Hole = 0 /\ pc # "clearHandler" /\ UNCHANGED <<pc, i>> /\ called # None /\ called[1] \in Sources
      /\ called[3] = called[2]
  BY <1>0 DEF HandlerUnregisters, Hole, TypeOK, driver, Unmixed
<1>2. \A j \in Slots : IF j <= n THEN Full(j) ELSE Empty(j)
  BY <1>n, <1>1 DEF Filled
<1>3. PICK h \in 1 .. n :
        /\ First(called[1], h) /\ table[h].Handler = called[2]
        /\ table' = [j \in Slots |-> IF j \in h .. n - 1 THEN table[j + 1]
                                     ELSE IF j = n THEN EmptyEntry ELSE table[j]]
  BY <1>2, CompactedTable
<1>4. h \in Slots /\ table[h].Source = called[1] /\ table[h].Param = called[3]
  BY <1>1, <1>2, <1>3, <1>n DEF First, Matches, Unmixed, Full
\* What is left of a queue moves up.
<1>5. ASSUME NEW s \in Sources
      PROVE  QueueOf(table', Heard(table', pc', i', s)) = QueueOf(table, Heard(table, pc, i, s) \ {h})
  <2> DEFINE K == Heard(table, pc, i, s) \ {h}
             L == Heard(table', pc', i', s)
             f == [k \in K |-> IF k > h THEN k - 1 ELSE k]
  <2>1. K \in SUBSET Slots /\ L \in SUBSET Slots /\ Valued(table, K)
    BY HeardValued DEF Heard, Valued
  <2>2. ASSUME NEW k \in K PROVE k <= n
    BY <1>2, <1>n, <2>2 DEF Heard, Empty
  <2>3. ASSUME NEW k \in Slots, k < h PROVE table'[k] = table[k] /\ (k \in L <=> k \in K)
    BY <1>1, <1>3, <1>n, <2>3 DEF Heard
  <2>4. ASSUME NEW k \in Slots, k >= h, k < n
        PROVE  k + 1 \in Slots /\ table'[k] = table[k + 1] /\ (k \in L <=> k + 1 \in K)
    BY <1>1, <1>3, <1>n, <2>4 DEF Heard
  <2>5. ASSUME NEW k \in Slots, k >= n PROVE k \notin L
    <3>1. table'[k].Handler = None
      BY <1>2, <1>3, <1>n, <2>5 DEF EmptyEntry, Empty
    <3>2. QED
      BY <3>1 DEF Heard
  <2>6. ASSUME NEW k \in K
        PROVE  f[k] \in L /\ SameEntry(table, k, table', f[k])
    <3>1. CASE k < h
      BY <2>3, <3>1, <2>1 DEF SameEntry
    <3>2. CASE k > h
      <4>1. k - 1 \in Slots /\ k - 1 >= h /\ k - 1 < n /\ (k - 1) + 1 = k
        BY <1>n, <2>1, <2>2, <3>2
      <4>2. table'[k - 1] = table[k] /\ k - 1 \in L
        BY <2>4, <4>1
      <4>3. f[k] = k - 1
        BY <3>2
      <4>4. QED
        BY <4>2, <4>3 DEF SameEntry
    <3>3. QED
      BY <2>1, <3>1, <3>2, <1>n
  <2>7. ASSUME NEW l \in L PROVE \E k \in K : f[k] = l
    <3>1. CASE l < h
      BY <2>1, <2>3, <3>1
    <3>2. CASE l >= h
      <4>1. l < n
        BY <1>n, <2>1, <2>5
      <4>2. l + 1 \in K
        BY <2>1, <2>4, <3>2, <4>1
      <4>3. f[l + 1] = l
        BY <1>n, <2>1, <3>2, <4>2
      <4>4. QED
        BY <4>2, <4>3
    <3>3. QED
      BY <1>n, <2>1, <3>1, <3>2
  <2>8. ASSUME NEW j \in K, NEW k \in K, j < k PROVE f[j] < f[k]
    <3>1. j \in Slots /\ k \in Slots /\ j # h /\ k # h
      BY <2>1
    <3>2. f[j] = (IF j > h THEN j - 1 ELSE j) /\ f[k] = (IF k > h THEN k - 1 ELSE k)
      OBVIOUS
    <3>3. QED
      BY <1>n, <2>8, <3>1, <3>2
  <2>9. f \in [K -> L] /\ \A k \in K : SameEntry(table, k, table', f[k])
    BY <2>6
  <2> HIDE DEF K, L, f
  <2>10. QueueOf(table', L) = QueueOf(table, K)
    BY <2>1, <2>7, <2>8, <2>9, QueueMoved
  <2>11. QED
    BY <2>10 DEF K, L
<1>6. ASSUME NEW s \in Sources, s # called[1]
      PROVE  Heard(table, pc, i, s) \ {h} = Heard(table, pc, i, s)
  BY <1>4, <1>6 DEF Heard
<1> DEFINE A == Heard(table, pc, i, called[1])
<1>7. /\ QueueOf(table, A) # <<>>
      /\ Head(QueueOf(table, A)) = <<table[h].Handler, table[h].Param>>
      /\ QueueOf(table, A \ {h}) = Tail(QueueOf(table, A))
  <2>1. A \in SUBSET Slots /\ Valued(table, A)
    BY <1>1, HeardValued DEF Heard
  <2>2. h \in A /\ \A k \in A : h <= k
    BY <1>1, <1>3, <1>4, FirstIsHead
  <2> HIDE DEF A
  <2>3. QED
    BY <2>1, <2>2, QueueTail DEF Valued
<1>8. queues[called[1]] = QueueOf(table, A)
  BY <1>1, QueuesNow
<1>9. queues' = [queues EXCEPT ![called[1]] = Tail(@)]
  <2>1. ASSUME NEW s \in Sources
        PROVE  queues'[s] = IF s = called[1] THEN Tail(queues[s]) ELSE queues[s]
    BY <1>5, <1>6, <1>7, <1>8, QueuesNow, QueuesNext
  <2>2. queues = [s \in Sources |-> queues[s]] /\ queues' = [s \in Sources |-> queues'[s]]
    BY QueuesNow, QueuesNext
  <2> QED
    BY <1>1, <2>1, <2>2
<1>10. QED
  BY <1>1, <1>3, <1>4, <1>7, <1>8, <1>9

\* At first no source has a registration.
LEMMA RegistryInitially == Init => Registry!RegistryInit
<1> SUFFICES ASSUME Init PROVE Registry!RegistryInit
  OBVIOUS
<1>1. ASSUME NEW s \in Sources PROVE Queue(s) = <<>>
  <2>1. Heard(table, pc, i, s) = {}
    BY DEF Init, Heard, EmptyEntry
  <2>2. Queue(s) = QueueOf(table, {})
    BY <2>1, QueuesNow DEF queues
  <2>3. QED
    BY <2>2, FS_EmptySet DEF QueueOf
<1>2. Asked = Registry!Idle
  BY AskedNow DEF Init
<1>3. QED
  BY <1>1, <1>2 DEF Init, Registry!RegistryInit

\* Every step is one of the registry or leaves it alone.
LEMMA RegistryStep ==
  ASSUME TableInv, TableInv', Searching, Unmixed, [Next]_vars
  PROVE  [Registry!RegistryNext]_(Registry!registryVars)
<1> USE MaxEntriesAssumption, NoneAssumption
<1>0. /\ TypeOK /\ InCall /\ HoleStored /\ table \in [Slots -> Entries] /\ table' \in [Slots -> Entries]
      /\ pc \in Stages /\ pc' \in Stages /\ InCall'
  BY DEF TableInv, TypeOK
<1>n. PICK n \in 0 .. MaxEntries : Filled(n) /\ Placed(n)
  BY DEF TableInv, Shape
<1>q. queues = [s \in Sources |-> Queue(s)] /\ queues' = [s \in Sources |-> Queue(s)]'
  BY DEF queues
<1> DEFINE Step == Registry!RegistryNext \/ UNCHANGED Registry!registryVars
\* The calls begin.
<1>1. ASSUME NEW c \in Configs, CrRegisterInterrupt(c) \/ CrUnregisterInterrupt(c) PROVE Registry!Ask
  <2>1. pc = "idle" /\ pc' \in {"scan", "find"} /\ conf' = c /\ UNCHANGED <<table, called>>
    BY <1>1 DEF CrRegisterInterrupt, CrUnregisterInterrupt, Goto
  <2>2. queues' = queues
    BY <2>1, QuietStep
  <2>3. c.source \in Sources /\ c.handler \in Clients /\ c.param \in Clients
    BY ConfigFields
  <2>4. Asked = Registry!Idle /\ Asked' \in Registry!AddRequests \cup Registry!RemoveRequests
    BY <2>1, <2>3, AskedNow, AskedNext DEF Registry!AddRequests, Registry!RemoveRequests
  <2>5. QED
    BY <1>q, <2>1, <2>2, <2>4 DEF Registry!Ask
\* They return.
<1>2. CASE NoFreeEntry \/ EnableInterruptSource \/ RegisterFails \/ FindNone \/ DisableInterruptSource \/ DisableFails
  <2>1. pc \notin {"idle", "clearHandler"} /\ pc' = "idle" /\ UNCHANGED <<table, called>>
    BY <1>2 DEF NoFreeEntry, EnableInterruptSource, RegisterFails, FindNone,
       DisableInterruptSource, DisableFails, Return
  <2>2. queues' = queues
    BY <2>1, QuietStep
  <2>3. Asked # Registry!Idle /\ Asked' = Registry!Idle
    BY <1>0, <2>1, AskedNow, AskedNext DEF Registry!Idle, Registry!Done
  <2>4. QED
    BY <1>q, <2>1, <2>2, <2>3 DEF Registry!Reply, Registry!RegistryNext
\* A step that shows in nothing.
<1>3. ASSUME queues' = queues, UNCHANGED <<conf, called>>,
             \/ pc' = pc
             \/ {pc, pc'} \subseteq {"scan", "param", "source"}
             \/ {pc, pc'} \subseteq {"find", "dropHandler"}
             \/ {pc, pc'} \subseteq Stages \ {"idle", "scan", "param", "source", "find", "dropHandler"}
      PROVE  Step
  <2>1. Asked' = Asked
    BY <1>0, <1>3, AskedNow, AskedNext DEF Stages
  <2>2. QED
    BY <1>q, <1>3, <2>1 DEF Registry!registryVars
<1>4. CASE RegisterInvalid \/ EntryInUse \/ RegisterInterruptSource \/ SetTriggerType \/ FindHit \/ FindMiss \/ MoveEnd
  <2>1. /\ UNCHANGED <<table, conf, called>> /\ pc # "clearHandler" /\ pc' # "clearHandler"
        /\ \/ pc' = pc
           \/ {pc, pc'} \subseteq {"find", "dropHandler"}
           \/ {pc, pc'} \subseteq Stages \ {"idle", "scan", "param", "source", "find", "dropHandler"}
    BY <1>4 DEF RegisterInvalid, EntryInUse, RegisterInterruptSource, SetTriggerType, FindHit,
       FindMiss, MoveEnd, Goto, Stages
  <2>2. queues' = queues
    BY <2>1, QuietStep
  <2>3. QED
    BY <1>3, <2>1, <2>2
\* Stores to an entry that cannot be found.
<1>5. CASE TakeEntry
  <2>1. /\ pc = "scan" /\ pc' = "param" /\ UNCHANGED <<i, conf, called>> /\ i \in Slots /\ table[i].Handler = None
        /\ conf.handler \in Clients
    BY <1>0, <1>5, ConfigFields DEF TakeEntry, Goto, TypeOK, InCall
  <2>2. Stored(table, table', i, conf.handler, table[i].Param, table[i].Source)
    BY <1>0, <1>5, <2>1, StoreHandlerField DEF TakeEntry
  <2>3. table[i].Source = None
    BY <1>n, <2>1 DEF Filled, Hole, Full, Empty, Slots
  <2>4. queues' = queues
    BY <2>1, <2>2, <2>3, UnseenStore DEF Stored
  <2>5. QED
    BY <1>3, <2>1, <2>4
<1>6. CASE StoreParam
  <2>1. /\ pc = "param" /\ pc' = "source" /\ UNCHANGED <<i, conf, called>> /\ i \in Slots /\ table[i].Source = None
        /\ conf.param \in Clients
    BY <1>0, <1>6, ConfigFields DEF StoreParam, Goto, TypeOK, InCall, HoleStored
  <2>2. Stored(table, table', i, table[i].Handler, conf.param, table[i].Source)
    BY <1>0, <1>6, <2>1, StoreParamField DEF StoreParam
  <2>3. queues' = queues
    BY <2>1, <2>2, UnseenStore DEF Stored
  <2>4. QED
    BY <1>3, <2>1, <2>3
<1>7. CASE MoveBegin
  <2>1. /\ pc = "next" /\ pc' = "moveParam" /\ UNCHANGED <<i, conf, called>> /\ i \in Slots /\ i + 1 \in Slots
        /\ table[i].Source = None /\ table[i + 1].Handler \in Clients \cup {None}
    BY <1>0, <1>7 DEF MoveBegin, Goto, TypeOK, HoleStored, Empty, Slots, Entries
  <2>2. Stored(table, table', i, table[i + 1].Handler, table[i].Param, table[i].Source)
    BY <1>0, <1>7, <2>1, StoreHandlerField DEF MoveBegin
  <2>3. queues' = queues
    BY <2>1, <2>2, UnseenStore DEF Stored
  <2>4. QED
    BY <1>3, <2>1, <2>3 DEF Stages
<1>8. CASE MoveEntry /\ pc = "moveParam"
  <2>1. /\ pc' = "moveSource" /\ UNCHANGED <<i, conf, called>> /\ i \in Slots /\ i + 1 \in Slots
        /\ table[i].Source = None /\ table[i + 1].Param \in Clients \cup {None}
    BY <1>0, <1>n, <1>8 DEF MoveEntry, Goto, TypeOK, HoleStored, Placed, Slots, Entries
  <2>2. Stored(table, table', i, table[i].Handler, table[i + 1].Param, table[i].Source)
    BY <1>0, <1>8, <2>1, StoreParamField DEF MoveEntry, Goto
  <2>3. queues' = queues
    BY <1>8, <2>1, <2>2, UnseenStore DEF Stored
  <2>4. QED
    BY <1>3, <1>8, <2>1, <2>3 DEF Stages
<1>9. CASE DropEntry /\ pc = "dropParam"
  <2>1. /\ pc' = "dropSource" /\ UNCHANGED <<i, conf, called>> /\ i \in Slots /\ table[i].Handler = None
        /\ table' = [table EXCEPT ![i].Param = None]
    BY <1>0, <1>9 DEF DropEntry, Goto, TypeOK, HoleStored, StoreNull
  <2>2. Stored(table, table', i, table[i].Handler, None, table[i].Source)
    BY <1>0, <2>1, StoreParamField
  <2>3. queues' = queues
    BY <1>9, <2>1, <2>2, UnseenStore DEF Stored
  <2>4. QED
    BY <1>3, <1>9, <2>1, <2>3 DEF Stages
<1>10. CASE DropEntry /\ pc = "dropSource"
  <2>1. /\ pc' = "next" /\ UNCHANGED <<i, conf, called>> /\ i \in Slots /\ table[i].Handler = None
        /\ table' = [table EXCEPT ![i].Source = None]
    BY <1>0, <1>10 DEF DropEntry, Goto, TypeOK, HoleStored, StoreNull
  <2>2. Stored(table, table', i, table[i].Handler, table[i].Param, None)
    BY <1>0, <2>1, StoreSourceField
  <2>3. queues' = queues
    BY <1>10, <2>1, <2>2, UnseenStore DEF Stored
  <2>4. QED
    BY <1>3, <1>10, <2>1, <2>3 DEF Stages
<1>11. CASE ClearMoved
  <2>0. i \in Slots /\ i + 1 \in Slots /\ UNCHANGED <<conf, called>>
    BY <1>0, <1>n, <1>11 DEF ClearMoved, Goto, TypeOK, Placed, Slots
  <2>1. /\ table' \in [Slots -> Entries] /\ \A j \in Slots \ {i + 1} : table'[j] = table[j]
        /\ table'[i + 1].Handler = None
        /\ pc = "clearHandler" \/ table[i + 1].Handler = None
    <3>1. CASE pc = "clearHandler"
      <4>1. table' = [table EXCEPT ![i + 1].Handler = None]
        BY <1>11, <3>1 DEF ClearMoved, Goto, StoreNull
      <4>2. Stored(table, table', i + 1, None, table[i + 1].Param, table[i + 1].Source)
        BY <1>0, <2>0, <4>1, StoreHandlerField
      <4>3. QED
        BY <3>1, <4>2 DEF Stored
    <3>2. CASE pc = "clearParam"
      <4>1. table' = [table EXCEPT ![i + 1].Param = None] /\ table[i + 1].Handler = None
        BY <1>0, <1>11, <3>2 DEF ClearMoved, Goto, StoreNull, HoleStored
      <4>2. Stored(table, table', i + 1, table[i + 1].Handler, None, table[i + 1].Source)
        BY <1>0, <2>0, <4>1, StoreParamField
      <4>3. QED
        BY <4>1, <4>2 DEF Stored
    <3>3. CASE pc = "clearSource"
      <4>1. table' = [table EXCEPT ![i + 1].Source = None] /\ table[i + 1].Handler = None
        BY <1>0, <1>11, <3>3 DEF ClearMoved, Goto, StoreNull, HoleStored
      <4>2. Stored(table, table', i + 1, table[i + 1].Handler, table[i + 1].Param, None)
        BY <1>0, <2>0, <4>1, StoreSourceField
      <4>3. QED
        BY <4>1, <4>2 DEF Stored
    <3>4. QED
      BY <1>11, <3>1, <3>2, <3>3 DEF ClearMoved, Goto
  <2>2. pc' # "clearHandler" /\ {pc, pc'} \subseteq Stages \ {"idle", "scan", "param", "source", "find", "dropHandler"}
    BY <1>11 DEF ClearMoved, Goto, Stages
  <2>3. queues' = queues
    BY <2>0, <2>1, <2>2, UnseenStore
  <2>4. QED
    BY <1>3, <2>0, <2>2, <2>3
\* The stores that change what can be found.
<1>12. CASE StoreSource
  <2>1. /\ pc = "source" /\ pc' = "route" /\ UNCHANGED <<conf, called>>
        /\ conf.source \in Sources /\ conf.handler \in Clients /\ conf.param \in Clients
    BY <1>0, <1>12, ConfigFields DEF StoreSource, Goto, TypeOK, InCall
  <2>2. /\ Asked = [op |-> "add", source |-> conf.source, handler |-> conf.handler, param |-> conf.param]
        /\ Asked' = Registry!Done
    BY <2>1, AskedNow, AskedNext DEF Stages
  <2>3. queues' = [queues EXCEPT ![conf.source] = Append(@, <<conf.handler, conf.param>>)]
    BY <1>12, StoreSourceAppends
  <2>4. Registry!Add
    BY <1>q, <2>1, <2>2, <2>3 DEF Registry!Add
  <2>5. QED
    BY <2>4 DEF Registry!RegistryNext
<1>13. CASE DropEntry /\ pc = "dropHandler"
  <2>1. pc' = "dropParam" /\ UNCHANGED <<conf, called>> /\ conf.source \in Sources
    BY <1>0, <1>13, ConfigFields DEF DropEntry, Goto, TypeOK, InCall
  <2>2. Asked = [op |-> "remove", source |-> conf.source] /\ Asked' = Registry!Done
    BY <1>13, <2>1, AskedNow, AskedNext DEF Stages
  <2>3. queues[conf.source] # <<>> /\ queues' = [queues EXCEPT ![conf.source] = Tail(@)]
    BY <1>13, DropHandlerRemoves
  <2>4. Registry!Remove
    BY <1>q, <2>1, <2>2, <2>3 DEF Registry!Remove
  <2>5. QED
    BY <2>4 DEF Registry!RegistryNext
<1>14. CASE MoveEntry /\ pc = "moveSource"
  <2>1. pc' = "clearHandler" /\ UNCHANGED <<conf, called>>
    BY <1>14 DEF MoveEntry, Goto
  <2>2. queues' = queues
    BY <1>14, MoveKeepsQueues
  <2>3. QED
    BY <1>3, <1>14, <2>1, <2>2 DEF Stages
\* Interrupts.
<1>15. ASSUME NEW s \in Sources, Interrupt(s) PROVE Registry!Interrupt(s)
  <2>1. PICK k \in Slots : First(s, k) /\ called' = <<s, table[k].Handler, table[k].Param>>
    BY <1>15 DEF Interrupt
  <2>2. called = None /\ UNCHANGED <<table, driver>>
    BY <1>15 DEF Interrupt
  <2>3. queues' = queues /\ Asked' = Asked
    BY <2>2, QueuesNow, QueuesNext, AskedNow, AskedNext, <1>0 DEF driver, Asked
  <2> DEFINE A == Heard(table, pc, i, s)
  <2>4. A \in SUBSET Slots /\ Valued(table, A)
    BY HeardValued DEF Heard
  <2>5. k \in A /\ \A j \in A : k <= j
    BY <2>1, FirstIsHead
  <2> HIDE DEF A
  <2>6. QueueOf(table, A) # <<>> /\ Head(QueueOf(table, A)) = <<table[k].Handler, table[k].Param>>
    BY <2>4, <2>5, QueueTail DEF Valued
  <2>7. queues[s] # <<>> /\ Head(queues[s]) = <<table[k].Handler, table[k].Param>>
    BY <2>6, QueuesNow DEF A
  <2>8. Head(queues[s])[1] = table[k].Handler /\ Head(queues[s])[2] = table[k].Param
    BY <2>7
  <2>9. QED
    BY <1>q, <2>1, <2>2, <2>3, <2>7, <2>8 DEF Registry!Interrupt
<1>16. CASE HandlerReturns
  <2>1. UNCHANGED <<table, driver>> /\ called # None /\ called' = None
    BY <1>16 DEF HandlerReturns
  <2>2. queues' = queues /\ Asked' = Asked
    BY <2>1, QueuesNow, QueuesNext DEF driver, Asked
  <2>3. Registry!Return
    BY <1>q, <2>1, <2>2 DEF Registry!Return
  <2>4. QED
    BY <2>3 DEF Registry!RegistryNext
<1>17. CASE HandlerUnregisters
  <2>1. UNCHANGED <<driver, called>> /\ called # None
    BY <1>17 DEF HandlerUnregisters
  <2>2. Asked' = Asked
    BY <2>1 DEF driver, Asked
  <2>3. /\ called[1] \in Sources /\ queues[called[1]] # <<>>
        /\ Head(queues[called[1]]) = <<called[2], called[3]>>
        /\ queues' = [queues EXCEPT ![called[1]] = Tail(@)]
    BY <1>17, HandlerUnregistersRemoves
  <2>4. Registry!Resign
    BY <1>q, <2>1, <2>2, <2>3 DEF Registry!Resign
  <2>5. QED
    BY <2>4 DEF Registry!RegistryNext
<1>18. CASE UNCHANGED vars
  <2>1. queues' = queues /\ UNCHANGED <<conf, called, pc>>
    BY <1>18, QueuesNow, QueuesNext DEF vars, driver
  <2>2. QED
    BY <1>3, <2>1
<1>19. QED
  BY <1>1, <1>2, <1>4, <1>5, <1>6, <1>7, <1>8, <1>9, <1>10, <1>11, <1>12, <1>13, <1>14, <1>15,
     <1>16, <1>17, <1>18
    DEF Next, Register, Unregister, Isr, DropEntry, MoveEntry, Goto, Registry!RegistryNext

\* CrRegisterInterrupt, CrUnregisterInterrupt and CrInternalInterruptEntry:
\* whenever an interrupt comes, between whichever two stores of a call, it
\* finds the registrations of its source as a queue that the call has changed
\* at one moment or not yet, and calls the head with its own parameter.
THEOREM ImplementsRegistry == Spec => RefinesRegistry
<1>1. Init => Searching /\ Unmixed
  BY DEF Init, Searching, Unmixed, EmptyEntry
<1>2. TableInv /\ Searching /\ Unmixed /\ [Next]_vars => TableInv' /\ Searching' /\ Unmixed'
  BY TableInvNext, SearchingNext, UnmixedNext
<1>3. TableInv /\ TableInv' /\ Searching /\ Unmixed /\ [Next]_vars => [Registry!RegistryNext]_(Registry!registryVars)
  BY RegistryStep
<1>4. QED
  BY <1>1, <1>2, <1>3, TableInvInit, RegistryInitially, PTL DEF Spec, RefinesRegistry,
     Registry!RegistrySpec

=============================================================================
