------------------------------ MODULE GpioIrq ------------------------------
(***************************************************************************)
(* The interrupts of GPIO pins that have no line of their own to the       *)
(* interrupt controller.  They share one: GpioIsr walks the table of       *)
(* registered pins, and calls the handler of each whose status bit is set. *)
(* GpioRegisterGpioIrq fills an entry of the table and configures the pin; *)
(* GpioUnregisterGpioIrq masks the pin and closes the gap in the table.    *)
(*                                                                         *)
(* One processor: GpioIsr may come between any two stores of the driver,   *)
(* and then runs to its end while pins go on changing.  Handlers do not    *)
(* register or unregister, and a pin has one registration at a time.       *)
(***************************************************************************)
EXTENDS Naturals, Sequences, HandlerTables

CONSTANTS
  Pins,        \* pins without a PDC line, 0 not among them
  Reserved,    \* those the library refuses to touch
  DualEdge,    \* those whose detection field is two bits wide
  MaxEntries,  \* GPIO_PINS_MAX
  Types,       \* the trigger types asked for
  None         \* NULL, and any number that is no pin in Pins

Slots == 1 .. MaxEntries
TriggerTypes == {"EDGE_RISING", "EDGE_FALLING", "EDGE_BOTH", "LEVEL_HIGH", "LEVEL_LOW"}

\* Each pin has a client of its own.  Handler and parameter of a registration
\* go by the name of its pin: an entry with two names mixes two up.
Requests == [pin : Pins, type : Types]
Removals == [pin : Pins, type : {None}]

ASSUME PinsAssumption == Reserved \subseteq Pins /\ DualEdge \subseteq Pins
ASSUME MaxEntriesAssumption == MaxEntries \in Nat \ {0}
ASSUME TypesAssumption == Types \subseteq TriggerTypes
ASSUME NoneAssumption == None \notin Pins \cup Types \cup Requests

VARIABLES
  \* mGpioIntTable
  table,
  \* The driver: its place in a call, what the call is about, its index, and
  \* the stores to the table that it makes next: <<entry, field, value>>.
  pc, conf, i, stores, Status,
  \* The pins: configuration register, status bit, and whether the target
  \* register routes them to this processor.
  cfg, status, routed,
  \* GpioIsr: the entry it is at, or 0; and the <<pin, handler, parameter>>
  \* it is calling, or None.
  at, called

driver == <<pc, conf, i, stores, Status>>
pins == <<cfg, status, routed>>
isr == <<at, called>>
vars == <<table, driver, pins, isr>>

\* PinInfo points to the pin's description.
Fields == {"Handler", "Param", "PinInfo", "PinNumber"}
Entries == [Fields -> Pins \cup {None}]
EmptyEntry == [f \in Fields |-> None]

\* The fields of the configuration register: detection, polarity, raw status
\* enable and interrupt enable.
Configs == [det : 0 .. 3, pol : 0 .. 1, raw : BOOLEAN, en : BOOLEAN]

TypeOK ==
  /\ table \in [Slots -> Entries]
  /\ pc \in {"idle", "scan", "store", "clean", "config", "enable",
             "mask", "find", "drop", "next", "move"}
  /\ conf \in Requests \cup Removals \cup {None}
  /\ i \in Slots
  /\ stores \in Seq(Slots \X Fields \X (Pins \cup {None}))
  /\ Status \in {"SUCCESS", "UNSUPPORTED", "OUT_OF_RESOURCES", "NOT_FOUND"}
  /\ cfg \in [Pins -> Configs] /\ \A p \in Pins \ DualEdge : cfg[p].det < 2
  /\ status \in SUBSET Pins
  /\ routed \in SUBSET Pins
  /\ at \in 0 .. MaxEntries
  /\ called \in (Pins \X Pins \X Pins) \cup {None}

-----------------------------------------------------------------------------
(* The configuration register.                                             *)

\* (slip) The detection of a pin with a wide field is left alone.
ConfiguredDetectionKept(c, t, dual) ==
  CASE t = "EDGE_RISING" -> [c EXCEPT !.raw = TRUE, !.det = 1, !.pol = 1]
    [] t = "EDGE_FALLING" /\ dual -> [c EXCEPT !.raw = TRUE, !.det = 2, !.pol = 1]
    [] t = "EDGE_FALLING" /\ ~dual -> [c EXCEPT !.raw = TRUE, !.det = 1]
    [] t = "EDGE_BOTH" -> [c EXCEPT !.raw = TRUE, !.det = IF dual THEN c.det ELSE 1, !.pol = 1]
    [] t = "LEVEL_HIGH" -> [c EXCEPT !.raw = TRUE, !.pol = 1]
    [] t = "LEVEL_LOW" -> [c EXCEPT !.raw = TRUE]

\* GpioSetInterruptCfg: the value written for trigger type t.  What "clear
\* previous settings" computes is the value it started from, so the fields
\* a type does not mention keep what they held.
Configured(c, t, dual) ==
  CASE t = "EDGE_RISING" -> [c EXCEPT !.raw = TRUE, !.det = 1, !.pol = 1]
    [] t = "EDGE_FALLING" /\ dual -> [c EXCEPT !.raw = TRUE, !.det = 2, !.pol = 1]
    [] t = "EDGE_FALLING" /\ ~dual -> [c EXCEPT !.raw = TRUE, !.det = 1]
    [] t = "EDGE_BOTH" -> [c EXCEPT !.raw = TRUE, !.det = IF dual THEN 3 ELSE 1, !.pol = 1]
    [] t = "LEVEL_HIGH" -> [c EXCEPT !.raw = TRUE, !.pol = 1]
    [] t = "LEVEL_LOW" -> [c EXCEPT !.raw = TRUE]

\* The one combination of a type and a width that is refused, after the
\* register has been written all the same.
Unsupported(t, dual) == t = "EDGE_BOTH" /\ ~dual

\* GpioEnableInterrupt and GpioMaskInterrupt; masking an edge triggered pin
\* leaves its status bit alive.
Unmasked(c) == [c EXCEPT !.en = TRUE, !.raw = TRUE]
Masked(c) == [c EXCEPT !.en = FALSE, !.raw = IF c.det = 0 THEN FALSE ELSE c.raw]

\* A write to the configuration register of pin p.  Setting raw status may
\* set the status bit without an event.
WriteCfg(p, c) ==
  /\ cfg' = [cfg EXCEPT ![p] = c]
  /\ status' \in {status} \cup (IF c.raw /\ ~cfg[p].raw THEN {status \cup {p}} ELSE {})
  /\ UNCHANGED routed

\* Every access of the library to a reserved pin is skipped.
WriteUnlessReserved(p, c) == IF p \in Reserved THEN UNCHANGED pins ELSE WriteCfg(p, c)

\* GpioCleanIrqStatus.
CleanIrqStatus(p) ==
  /\ status' = IF p \in Reserved THEN status ELSE status \ {p}
  /\ UNCHANGED <<cfg, routed>>

-----------------------------------------------------------------------------
(* The pins.                                                               *)

Event(p) ==
  /\ cfg[p].raw
  /\ status' = status \cup {p}
  /\ UNCHANGED <<table, driver, cfg, routed, isr>>

-----------------------------------------------------------------------------
(* The driver.                                                             *)

\* A step of the driver: GpioIsr is not running.
Goto(from, to) == pc = from /\ at = 0 /\ pc' = to

Return(s) ==
  /\ pc' = "idle"
  /\ Status' = s
  /\ conf' = None
  /\ i' = 1
  /\ stores' = <<>>

\* The next store to the table, after the last of which the call goes on
\* from stage `to`.
Store(from, to) ==
  /\ pc = from /\ at = 0 /\ stores # <<>>
  /\ LET s == Head(stores) IN table' = [table EXCEPT ![s[1]][s[2]] = s[3]]
  /\ stores' = Tail(stores)
  /\ pc' = IF Len(stores) = 1 THEN to ELSE from

\* The stores that clear entry k.
Clear(k) == << <<k, "Handler", None>>, <<k, "Param", None>>,
               <<k, "PinInfo", None>>, <<k, "PinNumber", None>> >>

\* GpioRegisterGpioIrq; clients register a pin once.  The width of a target's
\* detection field is 1 or 2 (DualEdge) and the type one of the enumeration,
\* so that the refusals of others (gpio.c:392, 514, 583) do not arise.
RegisterGpioIrq(r) ==
  /\ Goto("idle", "scan")
  /\ \A k \in Slots : table[k].PinNumber # r.pin
  /\ conf' = r
  /\ UNCHANGED <<table, i, stores, Status, pins, isr>>

EntryInUse ==
  /\ Goto("scan", "scan")
  /\ table[i].Handler # None /\ i < MaxEntries
  /\ i' = i + 1
  /\ UNCHANGED <<table, conf, stores, Status, pins, isr>>

NoFreeEntry ==
  /\ pc = "scan" /\ at = 0
  /\ table[i].Handler # None /\ i = MaxEntries
  /\ Return("OUT_OF_RESOURCES")
  /\ UNCHANGED <<table, pins, isr>>

\* (slip) The pin number is stored before the handler.
TakeEntryNumberFirst ==
  /\ Goto("scan", "store")
  /\ table[i].Handler = None
  /\ stores' = << <<i, "PinInfo", conf.pin>>, <<i, "PinNumber", conf.pin>>,
                  <<i, "Handler", conf.pin>>, <<i, "Param", conf.pin>> >>
  /\ UNCHANGED <<table, conf, i, Status, pins, isr>>

TakeEntry ==
  /\ Goto("scan", "store")
  /\ table[i].Handler = None
  /\ stores' = << <<i, "Handler", conf.pin>>, <<i, "Param", conf.pin>>,
                  <<i, "PinInfo", conf.pin>>, <<i, "PinNumber", conf.pin>> >>
  /\ UNCHANGED <<table, conf, i, Status, pins, isr>>

StoreEntry ==
  /\ Store("store", "clean")
  /\ UNCHANGED <<conf, i, Status, pins, isr>>

\* GpioSetInterruptCfg: route the pin; unless its raw status was enabled
\* already, clean its status; and only then write the configuration, with
\* the raw status enabled.
RouteAndClean ==
  /\ Goto("clean", "config")
  /\ LET p == conf.pin
         clean == IF p \in Reserved \/ cfg[p].raw THEN {} ELSE {p}
     IN  /\ routed' = IF p \in Reserved THEN routed ELSE routed \cup {p}
         /\ status' = status \ clean
  /\ UNCHANGED <<table, conf, i, stores, Status, cfg, isr>>

SetInterruptCfg ==
  /\ pc = "config" /\ at = 0
  /\ LET dual == conf.pin \in DualEdge
     IN  /\ WriteUnlessReserved(conf.pin, Configured(cfg[conf.pin], conf.type, dual))
         /\ IF Unsupported(conf.type, dual) /\ conf.pin \notin Reserved
              THEN Return("UNSUPPORTED")
              ELSE pc' = "enable" /\ UNCHANGED <<conf, i, stores, Status>>
  /\ UNCHANGED <<table, isr>>

EnableInterrupt ==
  /\ pc = "enable" /\ at = 0
  /\ WriteUnlessReserved(conf.pin, Unmasked(cfg[conf.pin]))
  /\ Return("SUCCESS")
  /\ UNCHANGED <<table, isr>>

\* GpioMaskInterrupt, on a registered pin.
MaskInterrupt(p, Mask) ==
  /\ Goto("idle", "idle")
  /\ \E k \in Slots : table[k].PinNumber = p
  /\ WriteUnlessReserved(p, IF Mask THEN Masked(cfg[p]) ELSE Unmasked(cfg[p]))
  /\ UNCHANGED <<table, conf, i, stores, Status, isr>>

-----------------------------------------------------------------------------
(* GpioUnregisterGpioIrq.                                                  *)

UnregisterGpioIrq(r) ==
  /\ Goto("idle", "mask")
  /\ conf' = r
  /\ UNCHANGED <<table, i, stores, Status, pins, isr>>

\* (slip) The pin keeps interrupting.
DisableForgotten ==
  /\ Goto("mask", "find")
  /\ UNCHANGED <<table, conf, i, stores, Status, pins, isr>>

DisableInterrupt ==
  /\ Goto("mask", "find")
  /\ WriteUnlessReserved(conf.pin, Masked(cfg[conf.pin]))
  /\ UNCHANGED <<table, conf, i, stores, Status, isr>>

Found(k) == table[k].PinInfo # None /\ table[k].PinNumber = conf.pin

FindHit ==
  /\ Goto("find", "drop")
  /\ Found(i)
  /\ stores' = Clear(i)
  /\ UNCHANGED <<table, conf, i, Status, pins, isr>>

\* (slip) The search goes one past the end of the table.
FindMissOnePast ==
  /\ Goto("find", "find")
  /\ ~Found(i)
  /\ i' = i + 1
  /\ UNCHANGED <<table, conf, stores, Status, pins, isr>>

FindMiss ==
  /\ Goto("find", "find")
  /\ ~Found(i) /\ i < MaxEntries
  /\ i' = i + 1
  /\ UNCHANGED <<table, conf, stores, Status, pins, isr>>

FindNone ==
  /\ pc = "find" /\ at = 0
  /\ ~Found(i) /\ i = MaxEntries
  /\ Return("NOT_FOUND")
  /\ UNCHANGED <<table, pins, isr>>

DropEntry ==
  /\ Store("drop", "next")
  /\ UNCHANGED <<conf, i, Status, pins, isr>>

\* The stores that copy entry k + 1 to k, field by field.
Copy(k) == << <<k, "Handler", table[k + 1].Handler>>, <<k, "PinNumber", table[k + 1].PinNumber>>,
              <<k, "Param", table[k + 1].Param>>, <<k, "PinInfo", table[k + 1].PinInfo>> >>

\* Entry i + 1 is copied to i and then cleared.
NextEntry ==
  /\ Goto("next", "move")
  /\ i < MaxEntries /\ table[i + 1].Handler # None
  /\ stores' = Copy(i) \o Clear(i + 1)
  /\ UNCHANGED <<table, conf, i, Status, pins, isr>>

MoveEntry ==
  /\ Store("move", "next")
  /\ i' = IF Len(stores) = 1 THEN i + 1 ELSE i
  /\ UNCHANGED <<conf, Status, pins, isr>>

LastEntry ==
  /\ pc = "next" /\ at = 0
  /\ i < MaxEntries => table[i + 1].Handler = None
  /\ Return("SUCCESS")
  /\ UNCHANGED <<table, pins, isr>>

-----------------------------------------------------------------------------
(* GpioIsr.                                                                *)

\* The shared line is up.
Line == \E p \in status \cap routed : cfg[p].en

GpioIsr ==
  /\ at = 0 /\ Line
  /\ at' = 1
  /\ UNCHANGED <<table, driver, pins, called>>

InUse(k) == table[k].PinInfo # None /\ table[k].PinNumber # None /\ table[k].Handler # None

Advance == at' = IF at = MaxEntries THEN 0 ELSE at + 1

CallHandler ==
  /\ at # 0 /\ called = None
  /\ InUse(at) /\ table[at].PinNumber \in status
  /\ called' = <<table[at].PinNumber, table[at].Handler, table[at].Param>>
  /\ UNCHANGED <<table, driver, pins, at>>

\* (slip) The walk ends at the first pin that has not interrupted.
NotPendingStops ==
  /\ at # 0 /\ called = None
  /\ InUse(at) /\ table[at].PinNumber \notin status
  /\ at' = 0
  /\ UNCHANGED <<table, driver, pins, called>>

NotPending ==
  /\ at # 0 /\ called = None
  /\ InUse(at) /\ table[at].PinNumber \notin status
  /\ Advance
  /\ UNCHANGED <<table, driver, pins, called>>

\* The first entry not in use ends the walk.
EndOfTable ==
  /\ at # 0 /\ called = None
  /\ ~InUse(at)
  /\ at' = 0
  /\ UNCHANGED <<table, driver, pins, called>>

\* The status is cleaned after the handler has returned.
HandlerReturns ==
  /\ called # None
  /\ CleanIrqStatus(called[1])
  /\ called' = None
  /\ Advance
  /\ UNCHANGED <<table, driver>>

-----------------------------------------------------------------------------
\* After GpioInitIrq.  The firmware before may have left the raw status of
\* pins enabled, but no interrupt; detection and polarity have their reset
\* values.
Init ==
  /\ table = [k \in Slots |-> EmptyEntry]
  /\ pc = "idle" /\ conf = None /\ i = 1 /\ stores = <<>> /\ Status = "SUCCESS"
  /\ \E r \in BOOLEAN : cfg = [p \in Pins |-> [det |-> 0, pol |-> 0, raw |-> r, en |-> FALSE]]
  /\ status = {} /\ routed = {}
  /\ at = 0 /\ called = None

Register ==
  \/ \E r \in Requests : RegisterGpioIrq(r)
  \/ EntryInUse \/ NoFreeEntry \/ TakeEntry \/ StoreEntry
  \/ RouteAndClean \/ SetInterruptCfg \/ EnableInterrupt

Unregister ==
  \/ \E r \in Removals : UnregisterGpioIrq(r)
  \/ DisableInterrupt \/ FindHit \/ FindMiss \/ FindNone \/ DropEntry
  \/ NextEntry \/ MoveEntry \/ LastEntry

IsrStep ==
  \/ GpioIsr \/ CallHandler \/ NotPending \/ EndOfTable \/ HandlerReturns

Next ==
  \/ Register \/ Unregister \/ IsrStep
  \/ \E p \in Pins : Event(p) \/ \E m \in BOOLEAN : MaskInterrupt(p, m)

Spec == Init /\ [][Next]_vars

\* The processor takes its interrupts and goes on with their routine.
FairSpec == Spec /\ WF_vars(IsrStep)

-----------------------------------------------------------------------------
(* Properties.                                                             *)

\* At every moment a walk over the table finds, for each pin, the handler
\* registered for it with its own parameter, or none: an entry half filled,
\* half copied or half cleared is never taken for another pin's, and no
\* registration is lost while entries move.
Copied(k) == pc = "move" /\ Len(stores) = 4 /\ k = i + 1
Heard(p) == {k \in Slots : InUse(k) /\ table[k].PinNumber = p /\ ~Copied(k)}
Queue(p) == QueueOf(table, Heard(p))
Asked ==
  CASE pc = "idle" -> [op |-> "idle"]
    [] pc \in {"scan", "store"} ->
         [op |-> "add", source |-> conf.pin, handler |-> conf.pin, param |-> conf.pin]
    [] pc \in {"mask", "find"} \/ (pc = "drop" /\ Len(stores) = 4) ->
         [op |-> "remove", source |-> conf.pin]
    [] OTHER -> [op |-> "done"]
Registry == INSTANCE IrqRegistry
  WITH Sources <- Pins, Handlers <- Pins, Params <- Pins, NoCall <- None,
       queue <- [p \in Pins |-> Queue(p)], request <- Asked
RefinesRegistry == Registry!RegistrySpec

\* Between calls, a pin that can interrupt has an entry that the walk
\* reaches: nothing else would ever take the shared line down.
EnabledHasEntry ==
  pc = "idle" =>
    \A p \in routed : cfg[p].en =>
      \E k \in Slots : table[k].PinNumber = p /\ \A j \in 1 .. k : InUse(j)

\* While the driver is between calls, a pin that interrupts gets its handler
\* called, whatever the other pins do.
Pending(p) == pc = "idle" /\ p \in status \cap routed /\ cfg[p].en
Handled ==
  \A p \in Pins :
    Pending(p) ~> (called # None /\ called[1] = p) \/ pc # "idle" \/ ~cfg[p].en

\* A pin about to have its interrupt enabled detects what was asked for, if
\* it has not been registered since its reset, and also over any earlier
\* registration for an edge type whose fields are all written.  (The other
\* types keep fields of the registration before: "Clear previous settings"
\* (gpio.c:442) clears none.)
Detects(p) ==
  LET c == cfg[p] IN
  CASE c.det = 0 -> IF c.pol = 1 THEN "LEVEL_HIGH" ELSE "LEVEL_LOW"
    [] c.det = 1 /\ p \notin DualEdge -> IF c.pol = 1 THEN "EDGE_RISING" ELSE "EDGE_FALLING"
    [] c.det = 1 /\ p \in DualEdge -> "EDGE_RISING"
    [] c.det = 2 -> "EDGE_FALLING"
    [] c.det = 3 -> "EDGE_BOTH"
AllWritten(p, t) == p \in DualEdge /\ t \in {"EDGE_RISING", "EDGE_FALLING", "EDGE_BOTH"}
Fresh(p) == cfg[p].det = 0 /\ cfg[p].pol = 0
Defined(p, t) == p \notin Reserved /\ (Fresh(p) \/ AllWritten(p, t))
DetectsAsked ==
  [][pc = "config" /\ pc' = "enable" /\ Defined(conf.pin, conf.type) =>
       Detects(conf.pin)' = conf.type]_vars
=============================================================================
