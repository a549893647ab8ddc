---------------------------- MODULE WdfInterrupt ----------------------------
(***************************************************************************)
(* The interrupt library of the Windows driver build.  An interrupt is an  *)
(* object of the framework, whose handle CrRegisterInterrupt stores in the *)
(* client's configuration.  CrUnregisterInterrupt disables and deletes the *)
(* object at once when it is called at PASSIVE_LEVEL; above that it takes  *)
(* the handle and leaves both to a work item.  The interrupt itself calls  *)
(* the client's handler, or queues the DPC or work item that does.         *)
(*                                                                         *)
(* Several processors.  One configuration, registered again after it has   *)
(* been unregistered.  Of the framework it is assumed that an interrupt is *)
(* connected after its registration, that disabling waits for the          *)
(* interrupt lock, and that deleting waits for the object's callbacks,     *)
(* running and queued.                                                     *)
(***************************************************************************)
EXTENDS Naturals, FiniteSets

CONSTANTS
  Objects,       \* interrupt objects the framework can create
  Processors,    \* those that run interrupt callbacks
  Callers,       \* threads that use the configuration
  Raised,        \* those of them that run above PASSIVE_LEVEL
  MayFail,       \* the calls of the system that may fail
  PassiveRaces,  \* a call at PASSIVE_LEVEL may overlap with other calls
  None           \* NULL

ASSUME RaisedAssumption == Raised \subseteq Callers
ASSUME MayFailAssumption == MayFail \subseteq {"create", "context", "device", "workitem"}
ASSUME PassiveRacesAssumption == PassiveRaces \in BOOLEAN
ASSUME NoneAssumption == None \notin Objects

VARIABLES
  \* InterruptConfig->Interrupt.
  Interrupt,
  \* The framework: the state of each object, what its interrupt does
  \* ("isr" calls the handler), whether its context has a handler, and the
  \* objects whose DPC or work item is queued.
  object, deferral, filled, queued,
  \* Each processor: idle, at the entry of a DPC, or in a handler.
  processor,
  \* Each caller: its place and the handle it saved.
  pc, saved,
  \* The handles in queued work items of CrUnregisterInterruptWorkerIo, and
  \* those a failed call has dropped.
  work, lost

framework == <<object, deferral, filled, queued>>
callers == <<pc, saved>>
vars == <<Interrupt, framework, processor, callers, work, lost>>

Idle == [at |-> "idle", object |-> None]

TypeOK ==
  /\ Interrupt \in Objects \cup {None}
  /\ object \in [Objects -> {"absent", "created", "enabled", "disabled", "deleted"}]
  /\ deferral \in [Objects -> {"isr", "dpc", "workitem"}]
  /\ filled \in SUBSET Objects /\ queued \in SUBSET Objects
  /\ processor \in [Processors -> [at : {"dpc", "handler"}, object : Objects] \cup {Idle}]
  /\ pc \in [Callers -> {"idle", "fill", "exchange", "queue", "disable", "delete", "clear"}]
  /\ saved \in [Callers -> Objects \cup {None}]
  /\ work \in SUBSET Objects /\ lost \in SUBSET Objects

Goto(t, from, to) == pc[t] = from /\ pc' = [pc EXCEPT ![t] = to]

Return(t, from) == Goto(t, from, "idle")

\* Who may call while others are in a call.
MayCall(t) ==
  /\ pc[t] = "idle"
  /\ \A u \in Callers : pc[u] # "fill"
  /\ PassiveRaces \/ \A u \in Callers : pc[u] # "idle" => {t, u} \subseteq Raised

-----------------------------------------------------------------------------
(* The framework.                                                          *)

\* The interrupt lock, held by an interrupt and by EvtWdfInterruptDpc.
Locked(o) ==
  deferral[o] # "workitem" /\ \E c \in Processors : processor[c] = [at |-> "handler", object |-> o]

\* A callback of the object is running or queued.
Busy(o) == o \in queued \/ \E c \in Processors : processor[c].object = o

Connect(o) ==
  /\ object[o] = "created" /\ o \in filled
  /\ object' = [object EXCEPT ![o] = "enabled"]
  /\ UNCHANGED <<Interrupt, deferral, filled, queued, processor, callers, work, lost>>

WdfInterruptDisable(o) ==
  /\ ~Locked(o)
  /\ object' = [object EXCEPT ![o] = "disabled"]

WdfObjectDelete(o) ==
  /\ ~Busy(o)
  /\ object' = [object EXCEPT ![o] = "deleted"]

-----------------------------------------------------------------------------
(* The interrupt and its callbacks.                                        *)

Run(c, place, o) ==
  /\ processor[c] = Idle
  /\ processor' = [processor EXCEPT ![c] = [at |-> place, object |-> o]]

\* CrInternalInterruptEntry, for a handler it calls itself.
IsrCallsHandler(c, o) ==
  /\ object[o] = "enabled" /\ ~Locked(o)
  /\ deferral[o] = "isr" /\ o \in filled
  /\ Run(c, "handler", o)
  /\ UNCHANGED <<Interrupt, framework, callers, work, lost>>

\* CrInternalInterruptEntry, with a DPC or a work item.
IsrQueues(o) ==
  /\ object[o] = "enabled" /\ ~Locked(o)
  /\ deferral[o] # "isr" /\ o \in filled
  /\ queued' = queued \cup {o}
  /\ UNCHANGED <<Interrupt, object, deferral, filled, processor, callers, work, lost>>

\* EvtWdfInterruptDpc: the lock is taken after the context has been looked at.
EvtWdfInterruptDpc(c, o) ==
  /\ o \in queued /\ deferral[o] = "dpc"
  /\ Run(c, "dpc", o)
  /\ queued' = queued \ {o}
  /\ UNCHANGED <<Interrupt, object, deferral, filled, callers, work, lost>>

\* (slip) The handler is called without the lock.
DpcUnlocked(c) ==
  /\ processor[c].at = "dpc"
  /\ processor' = [processor EXCEPT ![c].at = "handler"]
  /\ UNCHANGED <<Interrupt, framework, callers, work, lost>>

DpcLocked(c) ==
  /\ processor[c].at = "dpc" /\ ~Locked(processor[c].object)
  /\ processor' = [processor EXCEPT ![c].at = "handler"]
  /\ UNCHANGED <<Interrupt, framework, callers, work, lost>>

EvtWdfInterruptWorkitem(c, o) ==
  /\ o \in queued /\ deferral[o] = "workitem"
  /\ Run(c, "handler", o)
  /\ queued' = queued \ {o}
  /\ UNCHANGED <<Interrupt, object, deferral, filled, callers, work, lost>>

HandlerReturns(c) ==
  /\ processor[c].at = "handler"
  /\ processor' = [processor EXCEPT ![c] = Idle]
  /\ UNCHANGED <<Interrupt, framework, callers, work, lost>>

-----------------------------------------------------------------------------
(* CrRegisterInterrupt, at PASSIVE_LEVEL.                                  *)

\* A DPC of the library is used unless the interrupt is handled passively.
Deferral(type, PassiveHandling) ==
  CASE type = "DPC" /\ ~PassiveHandling -> "dpc"
    [] type = "WORKITEM" -> "workitem"
    [] OTHER -> "isr"

\* The framework stores the handle of the new object in the configuration.
CrRegisterInterrupt(t, o, type, PassiveHandling) ==
  /\ MayCall(t) /\ t \notin Raised /\ \A u \in Callers : pc[u] = "idle"
  /\ Interrupt = None /\ object[o] = "absent"
  /\ Goto(t, "idle", "fill")
  /\ Interrupt' = o
  /\ object' = [object EXCEPT ![o] = "created"]
  /\ deferral' = [deferral EXCEPT ![o] = Deferral(type, PassiveHandling)]
  /\ UNCHANGED <<filled, queued, processor, saved, work, lost>>

CreateFails(t) ==
  /\ "create" \in MayFail /\ MayCall(t) /\ t \notin Raised /\ Interrupt = None
  /\ Return(t, "idle")
  /\ UNCHANGED <<Interrupt, framework, processor, saved, work, lost>>

FillContext(t) ==
  /\ Return(t, "fill")
  /\ filled' = filled \cup {Interrupt}
  /\ UNCHANGED <<Interrupt, object, deferral, queued, processor, saved, work, lost>>

-----------------------------------------------------------------------------
(* CrUnregisterInterrupt.                                                  *)

\* There is nothing to unregister.
UnregisterNothing(t) ==
  /\ MayCall(t) /\ Interrupt = None
  /\ Return(t, "idle")
  /\ UNCHANGED <<Interrupt, framework, processor, saved, work, lost>>

CrUnregisterInterrupt(t) ==
  /\ MayCall(t) /\ Interrupt # None
  /\ Goto(t, "idle", IF t \in Raised THEN "exchange" ELSE "disable")
  /\ UNCHANGED <<Interrupt, framework, processor, saved, work, lost>>

\* Above PASSIVE_LEVEL: no memory for the work context, before anything is taken.
NoContext(t) ==
  /\ "context" \in MayFail
  /\ Return(t, "exchange")
  /\ UNCHANGED <<Interrupt, framework, processor, saved, work, lost>>

\* InterlockedExchangePointer.
ExchangeNothing(t) ==
  /\ Interrupt = None
  /\ Return(t, "exchange")
  /\ UNCHANGED <<Interrupt, framework, processor, saved, work, lost>>

\* (slip) The handle is read, and not cleared before the work item is queued.
ExchangeReads(t) ==
  /\ Interrupt # None
  /\ Goto(t, "exchange", "queue")
  /\ saved' = [saved EXCEPT ![t] = Interrupt]
  /\ UNCHANGED <<Interrupt, framework, processor, work, lost>>

\* (slip) Nobody looks whether another thread was faster.
ExchangeUnchecked(t) ==
  /\ Goto(t, "exchange", "queue")
  /\ saved' = [saved EXCEPT ![t] = Interrupt]
  /\ Interrupt' = None
  /\ UNCHANGED <<framework, processor, work, lost>>

Exchange(t) ==
  /\ Interrupt # None
  /\ Goto(t, "exchange", "queue")
  /\ saved' = [saved EXCEPT ![t] = Interrupt]
  /\ Interrupt' = None
  /\ UNCHANGED <<framework, processor, work, lost>>

\* Without the device object or a work item, the handle is dropped.
CannotQueue(t) ==
  /\ MayFail \cap {"device", "workitem"} # {}
  /\ Return(t, "queue")
  /\ saved' = [saved EXCEPT ![t] = None]
  /\ lost' = lost \cup {saved[t]}
  /\ UNCHANGED <<Interrupt, framework, processor, work>>

IoQueueWorkItem(t) ==
  /\ Return(t, "queue")
  /\ saved' = [saved EXCEPT ![t] = None]
  /\ work' = work \cup {saved[t]}
  /\ UNCHANGED <<Interrupt, framework, processor, lost>>

\* At PASSIVE_LEVEL: three accesses to the configuration.
PassiveDisable(t) ==
  /\ Goto(t, "disable", "delete")
  /\ WdfInterruptDisable(Interrupt)
  /\ UNCHANGED <<Interrupt, deferral, filled, queued, processor, saved, work, lost>>

PassiveDelete(t) ==
  /\ Goto(t, "delete", "clear")
  /\ WdfObjectDelete(Interrupt)
  /\ UNCHANGED <<Interrupt, deferral, filled, queued, processor, saved, work, lost>>

\* (slip) The handle of the deleted object stays in the configuration.
ClearForgotten(t) ==
  /\ Return(t, "clear")
  /\ UNCHANGED <<Interrupt, framework, processor, saved, work, lost>>

PassiveClear(t) ==
  /\ Return(t, "clear")
  /\ Interrupt' = None
  /\ UNCHANGED <<framework, processor, saved, work, lost>>

\* CrUnregisterInterruptWorkerIo.
WorkerDisable(o) ==
  /\ o \in work /\ object[o] # "disabled"
  /\ WdfInterruptDisable(o)
  /\ UNCHANGED <<Interrupt, deferral, filled, queued, processor, callers, work, lost>>

\* (slip) The context is freed, and the object only disabled.
WorkerDeleteForgotten(o) ==
  /\ o \in work /\ object[o] = "disabled"
  /\ work' = work \ {o}
  /\ UNCHANGED <<Interrupt, framework, processor, callers, lost>>

WorkerDelete(o) ==
  /\ o \in work /\ object[o] = "disabled"
  /\ WdfObjectDelete(o)
  /\ work' = work \ {o}
  /\ UNCHANGED <<Interrupt, deferral, filled, queued, processor, callers, lost>>

-----------------------------------------------------------------------------
Init ==
  /\ Interrupt = None
  /\ object = [o \in Objects |-> "absent"]
  /\ deferral = [o \in Objects |-> "isr"]
  /\ filled = {} /\ queued = {}
  /\ processor = [c \in Processors |-> Idle]
  /\ pc = [t \in Callers |-> "idle"]
  /\ saved = [t \in Callers |-> None]
  /\ work = {} /\ lost = {}

Register(t) ==
  \/ \E o \in Objects, type \in {"NONE", "DPC", "WORKITEM"}, p \in BOOLEAN :
       CrRegisterInterrupt(t, o, type, p)
  \/ CreateFails(t) \/ FillContext(t)

Unregister(t) ==
  \/ UnregisterNothing(t) \/ CrUnregisterInterrupt(t) \/ NoContext(t)
  \/ ExchangeNothing(t) \/ Exchange(t) \/ CannotQueue(t) \/ IoQueueWorkItem(t)
  \/ PassiveDisable(t) \/ PassiveDelete(t) \/ PassiveClear(t)

Callback(c) ==
  \/ DpcLocked(c) \/ HandlerReturns(c)
  \/ \E o \in Objects :
       IsrCallsHandler(c, o) \/ EvtWdfInterruptDpc(c, o) \/ EvtWdfInterruptWorkitem(c, o)

Worker(o) == WorkerDisable(o) \/ WorkerDelete(o)

Next ==
  \/ \E t \in Callers : Register(t) \/ Unregister(t)
  \/ \E o \in Objects : Connect(o) \/ IsrQueues(o) \/ Worker(o)
  \/ \E c \in Processors : Callback(c)

Spec == Init /\ [][Next]_vars

\* Threads go on with a call they have begun, queued callbacks and work items
\* are run, and the interrupt lock is granted to who waits for it.
FairSpec ==
  /\ Spec
  /\ \A t \in Callers : WF_vars(pc[t] # "idle" /\ (Register(t) \/ Unregister(t)))
  /\ \A t \in Callers \ Raised : SF_vars(PassiveDisable(t))
  /\ \A o \in Objects :
       /\ SF_vars(\E c \in Processors : EvtWdfInterruptDpc(c, o) \/ EvtWdfInterruptWorkitem(c, o))
       /\ SF_vars(WorkerDisable(o)) /\ WF_vars(WorkerDelete(o))
  /\ \A c \in Processors : SF_vars(DpcLocked(c)) /\ WF_vars(HandlerReturns(c))

-----------------------------------------------------------------------------
(* Properties.                                                             *)

\* Each object is taken away by one actor and deleted once, by that actor,
\* while its handler is not running, and no handler is called for it
\* afterwards: whatever the threads, the work item and the interrupts do.
Alive(o) == object[o] \in {"created", "enabled", "disabled"}
Taken(o) ==
  \/ Interrupt # o
  \/ \E t \in Callers \ Raised : pc[t] \in {"disable", "delete"}
Life(o) ==
  CASE object[o] = "absent" -> "absent"
    [] object[o] = "deleted" -> "deleted"
    [] Alive(o) /\ Taken(o) -> "taken"
    [] OTHER -> "registered"
RunBy(c) == IF processor[c].at = "handler" THEN {processor[c].object} ELSE {}
Lifecycle == INSTANCE InterruptObject
  WITH life <- [o \in Objects |-> Life(o)], active <- [c \in Processors |-> RunBy(c)]
RefinesObject == Lifecycle!LifeSpec

\* A handle about to be used is that of an object that exists, and no two
\* hold the same one: the configuration, the threads, the work items.
HandleAlive ==
  /\ \A t \in Callers : pc[t] \in {"disable", "delete"} => Interrupt \in Objects /\ Alive(Interrupt)
  /\ pc \in [Callers -> {"idle", "fill", "exchange", "queue"}] /\ Interrupt # None => Alive(Interrupt)
  /\ \A o \in Objects :
       LET holders == {t \in Callers : saved[t] = o}
       IN  /\ (o \in work \/ holders # {}) => Alive(o) /\ o # Interrupt
           /\ Cardinality(holders) + (IF o \in work THEN 1 ELSE 0) <= 1

\* The handler of an interrupt that does not use a work item has one
\* activation at a time, on whichever processors its DPC is running.
OneActivation ==
  \A o \in Objects : deferral[o] # "workitem" =>
    Cardinality({c \in Processors : o \in RunBy(c)}) <= 1

\* An object taken away is deleted in the end, however busy its interrupt
\* is, unless the call that took it returned an error.
TakenIsDeleted ==
  \A o \in Objects : (Alive(o) /\ Interrupt # o) ~> (object[o] = "deleted" \/ o \in lost)
=============================================================================
