---------------------------- MODULE OskInterrupt ---------------------------
(***************************************************************************)
(* The interrupt library of the UEFI build: a table of handlers per driver *)
(* image, filled by CrRegisterInterrupt, emptied and compacted by          *)
(* CrUnregisterInterrupt, and searched by CrInternalInterruptEntry when an *)
(* interrupt comes.  Neither of the first two masks interrupts, so the     *)
(* search may find the table between any two of their stores.              *)
(*                                                                         *)
(* An interrupt is handled to its end before the driver goes on.  Its      *)
(* handler may unregister itself, as the RPMh driver's does when the       *)
(* interrupt turns out to be the firmware's; Overtakes says whether it may *)
(* do so while the driver is still inside the call that enables it.        *)
(***************************************************************************)
EXTENDS Naturals, Sequences, HandlerTables

CONSTANTS
  Sources,     \* interrupt numbers, none of them 0
  Clients,     \* pairs of a handler and the parameter it is registered with
  MaxEntries,  \* MAX_INTERRUPT_ENTRIES
  MayFail,     \* the calls to the interrupt controller that may fail
  Overtakes,   \* a handler may unregister itself during a registration
  None         \* NULL, and the source number 0

Slots == 1 .. MaxEntries

\* The handler and the parameter of a client both go by the client's name:
\* an entry that names two clients mixes up two registrations.
Configs == {[source |-> s, handler |-> c, param |-> c] : s \in Sources, c \in Clients}

ASSUME MaxEntriesAssumption == MaxEntries \in Nat \ {0}
ASSUME MayFailAssumption == MayFail \subseteq {"route", "trigger", "enable", "disable"}
ASSUME OvertakesAssumption == Overtakes \in BOOLEAN
ASSUME NoneAssumption == None \notin Sources \cup Clients \cup Configs

VARIABLES
  \* mCrIntTable
  table,
  \* The driver: its place in a call, the call's InterruptConfig and index,
  \* and the status the last call returned.
  pc, conf, i, Status,
  \* The interrupt controller: the sources routed to our entry, and those
  \* enabled.
  routed, enabled,
  \* The sources whose last disabling failed, as its caller was told (history).
  refused,
  \* <<source, handler, parameter>> of the handler running, or None.
  called

driver == <<pc, conf, i, Status>>
controller == <<routed, enabled, refused>>
vars == <<table, driver, controller, called>>

EmptyEntry == [Handler |-> None, Param |-> None, Source |-> None]
Entries == [Handler : Clients \cup {None}, Param : Clients \cup {None}, Source : Sources \cup {None}]

\* The stages of a call: those of a registration, of a removal, of the move
\* of entry i + 1 to i, and the calls to the interrupt controller.
Stages == {"idle", "scan", "param", "source",
           "find", "dropHandler", "dropParam", "dropSource",
           "next", "moveParam", "moveSource", "clearHandler", "clearParam", "clearSource",
           "route", "trigger", "enable", "disable"}

TypeOK ==
  /\ table \in [Slots -> Entries]
  /\ pc \in Stages
  /\ conf \in Configs \cup {None}
  /\ i \in Slots
  /\ Status \in {"SUCCESS", "INVALID_PARAMETER", "OUT_OF_RESOURCES", "NOT_FOUND", "DEVICE_ERROR"}
  /\ routed \in SUBSET Sources
  /\ enabled \in SUBSET Sources /\ refused \in SUBSET Sources
  /\ called \in (Sources \X Clients \X Clients) \cup {None}

-----------------------------------------------------------------------------
\* A step of the driver; an interrupt is handled to its end first.
Goto(from, to) == pc = from /\ called = None /\ pc' = to

Return(status) ==
  /\ pc' = "idle"
  /\ Status' = status
  /\ conf' = None
  /\ i' = 1

\* Entry k is one that the search for source s stops at.
Matches(k, s) == table[k].Source = s /\ table[k].Handler # None

-----------------------------------------------------------------------------
(* CrRegisterInterrupt.                                                    *)

\* Called with a trigger type it does not know, or while the protocol of the
\* interrupt controller is missing, it has not touched anything.
RegisterInvalid ==
  /\ Goto("idle", "idle")
  /\ Status' \in {"INVALID_PARAMETER", "NOT_FOUND"}
  /\ UNCHANGED <<table, conf, i, controller, called>>

CrRegisterInterrupt(c) ==
  /\ Goto("idle", "scan")
  /\ conf' = c
  /\ UNCHANGED <<table, i, Status, controller, called>>

\* The first entry without a handler is taken, by storing the handler.
TakeEntry ==
  /\ Goto("scan", "param")
  /\ table[i].Handler = None
  /\ table' = [table EXCEPT ![i].Handler = conf.handler]
  /\ UNCHANGED <<conf, i, Status, controller, called>>

\* (slip) The scan goes one past the end of the table.
EntryInUseOnePast ==
  /\ Goto("scan", "scan")
  /\ table[i].Handler # None
  /\ i' = i + 1
  /\ UNCHANGED <<table, conf, Status, controller, called>>

EntryInUse ==
  /\ Goto("scan", "scan")
  /\ table[i].Handler # None /\ i < MaxEntries
  /\ i' = i + 1
  /\ UNCHANGED <<table, conf, Status, controller, called>>

NoFreeEntry ==
  /\ pc = "scan" /\ called = None
  /\ table[i].Handler # None /\ i = MaxEntries
  /\ Return("OUT_OF_RESOURCES")
  /\ UNCHANGED <<table, controller, called>>

StoreParam ==
  /\ Goto("param", "source")
  /\ table' = [table EXCEPT ![i].Param = conf.param]
  /\ UNCHANGED <<conf, i, Status, controller, called>>

StoreSource ==
  /\ Goto("source", "route")
  /\ table' = [table EXCEPT ![i].Source = conf.source]
  /\ UNCHANGED <<conf, i, Status, controller, called>>

RegisterInterruptSource ==
  /\ Goto("route", "trigger")
  /\ routed' = routed \cup {conf.source}
  /\ UNCHANGED <<table, conf, i, Status, enabled, refused, called>>

SetTriggerType ==
  /\ Goto("trigger", "enable")
  /\ UNCHANGED <<table, conf, i, Status, controller, called>>

EnableInterruptSource ==
  /\ pc = "enable" /\ called = None
  /\ enabled' = enabled \cup {conf.source}
  /\ refused' = refused \ {conf.source}
  /\ Return("SUCCESS")
  /\ UNCHANGED <<table, routed, called>>

\* Any of the three fails; the entry stays in the table.
RegisterFails ==
  /\ pc \in {"route", "trigger", "enable"} \cap MayFail /\ called = None
  /\ Return("DEVICE_ERROR")
  /\ UNCHANGED <<table, controller, called>>

-----------------------------------------------------------------------------
(* CrUnregisterInterrupt, also reached by registering a NULL handler.      *)

CrUnregisterInterrupt(c) ==
  /\ Goto("idle", "find")
  /\ conf' = c
  /\ UNCHANGED <<table, i, Status, controller, called>>

FindHit ==
  /\ Goto("find", "dropHandler")
  /\ Matches(i, conf.source)
  /\ UNCHANGED <<table, conf, i, Status, controller, called>>

FindMiss ==
  /\ Goto("find", "find")
  /\ ~Matches(i, conf.source) /\ i < MaxEntries
  /\ i' = i + 1
  /\ UNCHANGED <<table, conf, Status, controller, called>>

FindNone ==
  /\ pc = "find" /\ called = None
  /\ ~Matches(i, conf.source) /\ i = MaxEntries
  /\ Return("NOT_FOUND")
  /\ UNCHANGED <<table, controller, called>>

\* A store of NULL, or 0, to one field of entry k.
StoreNull(k, field) == table' = [table EXCEPT ![k][field] = None]

DropEntry ==
  /\ \/ Goto("dropHandler", "dropParam") /\ StoreNull(i, "Handler")
     \/ Goto("dropParam", "dropSource") /\ StoreNull(i, "Param")
     \/ Goto("dropSource", "next") /\ StoreNull(i, "Source")
  /\ UNCHANGED <<conf, i, Status, controller, called>>

\* (slip) The gap is closed from the other side: the entry moved is cleared
\* before it is copied.
MoveBeginCleared ==
  /\ Goto("next", "moveParam")
  /\ i < MaxEntries /\ table[i + 1].Handler # None
  /\ table' = [table EXCEPT ![i].Handler = table[i + 1].Handler, ![i + 1].Handler = None]
  /\ UNCHANGED <<conf, i, Status, controller, called>>

\* The next entry is moved to i: its fields are copied, in order...
MoveBegin ==
  /\ Goto("next", "moveParam")
  /\ i < MaxEntries /\ table[i + 1].Handler # None
  /\ table' = [table EXCEPT ![i].Handler = table[i + 1].Handler]
  /\ UNCHANGED <<conf, i, Status, controller, called>>

MoveEntry ==
  /\ \/ /\ Goto("moveParam", "moveSource")
        /\ table' = [table EXCEPT ![i].Param = table[i + 1].Param]
     \/ /\ Goto("moveSource", "clearHandler")
        /\ table' = [table EXCEPT ![i].Source = table[i + 1].Source]
  /\ UNCHANGED <<conf, i, Status, controller, called>>

\* ... and then it is cleared.
ClearMoved ==
  /\ \/ Goto("clearHandler", "clearParam") /\ StoreNull(i + 1, "Handler") /\ i' = i
     \/ Goto("clearParam", "clearSource") /\ StoreNull(i + 1, "Param") /\ i' = i
     \/ Goto("clearSource", "next") /\ StoreNull(i + 1, "Source") /\ i' = i + 1
  /\ UNCHANGED <<conf, Status, controller, called>>

\* (slip) The entries behind the gap may be left where they are.
MoveEndEarly ==
  /\ Goto("next", "disable")
  /\ table[i].Handler = None
  /\ UNCHANGED <<table, conf, i, Status, controller, called>>

MoveEnd ==
  /\ Goto("next", "disable")
  /\ i < MaxEntries => table[i + 1].Handler = None
  /\ UNCHANGED <<table, conf, i, Status, controller, called>>

\* (slip) The source stays enabled.
DisableForgotten ==
  /\ pc = "disable" /\ called = None
  /\ Return("SUCCESS")
  /\ UNCHANGED <<table, controller, called>>

DisableInterruptSource ==
  /\ pc = "disable" /\ called = None
  /\ enabled' = enabled \ {conf.source}
  /\ refused' = refused \ {conf.source}
  /\ Return("SUCCESS")
  /\ UNCHANGED <<table, routed, called>>

DisableFails ==
  /\ pc = "disable" /\ "disable" \in MayFail /\ called = None
  /\ refused' = refused \cup {conf.source}
  /\ Return("DEVICE_ERROR")
  /\ UNCHANGED <<table, routed, enabled, called>>

-----------------------------------------------------------------------------
(* CrInternalInterruptEntry, and the handler it calls.                     *)

\* The entry the search finds: the first one that matches.
First(s, k) == Matches(k, s) /\ \A j \in Slots : j < k => ~Matches(j, s)

\* With no entry found there is only the end of interrupt, which shows in
\* none of the variables.
Interrupt(s) ==
  /\ s \in routed \cap enabled /\ called = None
  /\ \E k \in Slots :
       First(s, k) /\ called' = <<s, table[k].Handler, table[k].Param>>
  /\ UNCHANGED <<table, driver, controller>>

HandlerReturns ==
  /\ called # None
  /\ called' = None
  /\ UNCHANGED <<table, driver, controller>>

\* The table without entry k, its successors moved up to the next gap.
Compacted(k) ==
  LET gap == CHOOSE g \in k .. MaxEntries :
               /\ g = MaxEntries \/ table[g + 1].Handler = None
               /\ \A j \in k .. g - 1 : table[j + 1].Handler # None
  IN  [j \in Slots |-> IF j \in k .. gap - 1 THEN table[j + 1]
                       ELSE IF j = gap THEN EmptyEntry ELSE table[j]]

\* The handler unregisters its own source before it returns.  The one routine
\* that does so is RPMh's (rpmh.c:119), the only source of its image's table,
\* so that it never finds the driver in a scan, a search or a move.
HandlerUnregisters ==
  /\ called # None
  /\ pc = "idle" \/ (Overtakes /\ pc \in {"route", "trigger", "enable"})
  /\ \E k \in Slots :
       /\ First(called[1], k) /\ table[k].Handler = called[2]
       /\ table' = Compacted(k)
  /\ \/ enabled' = enabled \ {called[1]} /\ refused' = refused \ {called[1]}
     \/ "disable" \in MayFail /\ enabled' = enabled /\ refused' = refused \cup {called[1]}
  /\ UNCHANGED <<driver, routed, called>>

-----------------------------------------------------------------------------
\* Before the first call; the firmware may have enabled any source.
Init ==
  /\ table = [k \in Slots |-> EmptyEntry]
  /\ pc = "idle" /\ conf = None /\ i = 1 /\ Status = "SUCCESS"
  /\ routed = {} /\ enabled \in SUBSET Sources /\ refused = {}
  /\ called = None

Register ==
  \/ RegisterInvalid \/ \E c \in Configs : CrRegisterInterrupt(c)
  \/ TakeEntry \/ EntryInUse \/ NoFreeEntry \/ StoreParam \/ StoreSource
  \/ RegisterInterruptSource \/ SetTriggerType \/ EnableInterruptSource \/ RegisterFails

Unregister ==
  \/ \E c \in Configs : CrUnregisterInterrupt(c)
  \/ FindHit \/ FindMiss \/ FindNone \/ DropEntry
  \/ MoveBegin \/ MoveEntry \/ ClearMoved \/ MoveEnd
  \/ DisableInterruptSource \/ DisableFails

Isr ==
  \/ \E s \in Sources : Interrupt(s)
  \/ HandlerReturns \/ HandlerUnregisters

Next == Register \/ Unregister \/ Isr

Spec == Init /\ [][Next]_vars

-----------------------------------------------------------------------------
(* Properties.                                                             *)

\* At every moment, the table seen by the interrupt entry is the queue of
\* registrations of each source: an interrupt that comes while entries move
\* calls the handler registered first, with its own parameter.
Queue(s) ==
  LET moving(k) == pc = "clearHandler" /\ k = i + 1
      ks == {k \in Slots : Matches(k, s) /\ ~moving(k)}
  IN  QueueOf(table, ks)
Asked ==
  CASE pc = "idle" -> [op |-> "idle"]
    [] pc \in {"scan", "param", "source"} ->
         [op |-> "add", source |-> conf.source, handler |-> conf.handler, param |-> conf.param]
    [] pc \in {"find", "dropHandler"} -> [op |-> "remove", source |-> conf.source]
    [] OTHER -> [op |-> "done"]
Registry == INSTANCE IrqRegistry
  WITH Handlers <- Clients, Params <- Clients, NoCall <- None,
       queue <- [s \in Sources |-> Queue(s)], request <- Asked
RefinesRegistry == Registry!RegistrySpec

\* Between calls the entries in use are the first ones of the table, so the
\* scan for a free one never puts a new registration before an older one.
Prefix ==
  pc = "idle" =>
    \A k \in Slots : \/ table[k] # EmptyEntry /\ None \notin {table[k].Handler, table[k].Source}
                     \/ \A j \in Slots : k <= j => table[j] = EmptyEntry

\* Between calls, an interrupt that can come has a handler to answer it,
\* unless the controller refused to disable it and the caller knows.
Answered ==
  pc = "idle" /\ called = None =>
    \A s \in (routed \cap enabled) \ refused : \E k \in Slots : Matches(k, s)
=============================================================================
