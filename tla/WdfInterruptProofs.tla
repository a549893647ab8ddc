------------------------- MODULE WdfInterruptProofs -------------------------
(***************************************************************************)
(* Type correctness of WdfInterrupt, and that a handler has one activation *)
(* at a time.  Where no call at PASSIVE_LEVEL overlaps with another        *)
(* (PassiveRaces is FALSE), also that handles are those of objects that    *)
(* exist, with one holder each, and that the library implements            *)
(* InterruptObject; with overlapping calls these two are false.  All for   *)
(* any number of objects, threads and processors.                          *)
(***************************************************************************)
EXTENDS WdfInterrupt, FiniteSetTheorems, TLAPS

-----------------------------------------------------------------------------
(* What holds however calls overlap.                                       *)

\* The stages of a call that use a handle have one.
StageHandles ==
  \A t \in Callers :
    /\ pc[t] = "fill" => Interrupt # None /\ \A u \in Callers \ {t} : pc[u] = "idle"
    /\ pc[t] = "queue" => saved[t] # None

\* Callbacks are queued and run for objects that have been created.
CallbacksCreated ==
  /\ \A o \in queued : object[o] # "absent"
  /\ \A c \in Processors : processor[c] # Idle => object[processor[c].object] # "absent"

\* The interrupt lock has one holder.
LockHeldOnce ==
  \A o \in Objects : deferral[o] # "workitem" =>
    \A c, d \in Processors : o \in RunBy(c) /\ o \in RunBy(d) => c = d

FrameworkInv == TypeOK /\ StageHandles /\ CallbacksCreated /\ LockHeldOnce

\* At first there is no object.
LEMMA FrameworkInvInit == Init => FrameworkInv
<1> SUFFICES ASSUME Init PROVE FrameworkInv
  OBVIOUS
<1>1. TypeOK
  BY DEF Init, TypeOK
<1>2. StageHandles
  BY DEF Init, StageHandles
<1>3. CallbacksCreated /\ LockHeldOnce
  BY DEF Init, CallbacksCreated, LockHeldOnce, RunBy, Idle
<1>4. QED
  BY <1>1, <1>2, <1>3 DEF FrameworkInv

\* Every step keeps the invariant of the framework.
LEMMA FrameworkInvNext ==
  ASSUME FrameworkInv, [Next]_vars
  PROVE  FrameworkInv'
<1> USE RaisedAssumption, NoneAssumption
<1>0. TypeOK /\ StageHandles /\ CallbacksCreated /\ LockHeldOnce
  BY DEF FrameworkInv
<1> USE DEF framework, callers, Goto, Return, RunBy, Idle, MayCall, WdfInterruptDisable,
        WdfObjectDelete, Locked, Run
<1>1. ASSUME NEW t \in Callers, NEW o \in Objects, NEW type \in {"NONE", "DPC", "WORKITEM"}, NEW p \in BOOLEAN,
              CrRegisterInterrupt(t, o, type, p)
      PROVE  FrameworkInv'
  BY <1>0, <1>1 DEF FrameworkInv, TypeOK, StageHandles, CallbacksCreated, LockHeldOnce,
     CrRegisterInterrupt, Deferral
<1>2. ASSUME NEW t \in Callers, CreateFails(t) PROVE FrameworkInv'
  BY <1>0, <1>2 DEF FrameworkInv, TypeOK, StageHandles, CallbacksCreated, LockHeldOnce, CreateFails
<1>3. ASSUME NEW t \in Callers, FillContext(t) PROVE FrameworkInv'
  BY <1>0, <1>3 DEF FrameworkInv, TypeOK, StageHandles, CallbacksCreated, LockHeldOnce, FillContext
<1>4. ASSUME NEW t \in Callers, UnregisterNothing(t) PROVE FrameworkInv'
  BY <1>0, <1>4 DEF FrameworkInv, TypeOK, StageHandles, CallbacksCreated, LockHeldOnce,
     UnregisterNothing
<1>5. ASSUME NEW t \in Callers, CrUnregisterInterrupt(t) PROVE FrameworkInv'
  BY <1>0, <1>5 DEF FrameworkInv, TypeOK, StageHandles, CallbacksCreated, LockHeldOnce,
     CrUnregisterInterrupt
<1>6. ASSUME NEW t \in Callers, NoContext(t) PROVE FrameworkInv'
  BY <1>0, <1>6 DEF FrameworkInv, TypeOK, StageHandles, CallbacksCreated, LockHeldOnce, NoContext
<1>7. ASSUME NEW t \in Callers, ExchangeNothing(t) PROVE FrameworkInv'
  BY <1>0, <1>7 DEF FrameworkInv, TypeOK, StageHandles, CallbacksCreated, LockHeldOnce,
     ExchangeNothing
<1>8. ASSUME NEW t \in Callers, Exchange(t) PROVE FrameworkInv'
  BY <1>0, <1>8 DEF FrameworkInv, TypeOK, StageHandles, CallbacksCreated, LockHeldOnce, Exchange
<1>9. ASSUME NEW t \in Callers, CannotQueue(t) PROVE FrameworkInv'
  BY <1>0, <1>9 DEF FrameworkInv, TypeOK, StageHandles, CallbacksCreated, LockHeldOnce, CannotQueue
<1>10. ASSUME NEW t \in Callers, IoQueueWorkItem(t) PROVE FrameworkInv'
  BY <1>0, <1>10 DEF FrameworkInv, TypeOK, StageHandles, CallbacksCreated, LockHeldOnce,
     IoQueueWorkItem
<1>11. ASSUME NEW t \in Callers, PassiveDisable(t) PROVE FrameworkInv'
  BY <1>0, <1>11 DEF FrameworkInv, TypeOK, StageHandles, CallbacksCreated, LockHeldOnce,
     PassiveDisable
<1>12. ASSUME NEW t \in Callers, PassiveDelete(t) PROVE FrameworkInv'
  BY <1>0, <1>12 DEF FrameworkInv, TypeOK, StageHandles, CallbacksCreated, LockHeldOnce,
     PassiveDelete
<1>13. ASSUME NEW t \in Callers, PassiveClear(t) PROVE FrameworkInv'
  BY <1>0, <1>13 DEF FrameworkInv, TypeOK, StageHandles, CallbacksCreated, LockHeldOnce,
     PassiveClear
<1>14. ASSUME NEW o \in Objects, Connect(o) PROVE FrameworkInv'
  BY <1>0, <1>14 DEF FrameworkInv, TypeOK, StageHandles, CallbacksCreated, LockHeldOnce, Connect
<1>15. ASSUME NEW o \in Objects, IsrQueues(o) PROVE FrameworkInv'
  BY <1>0, <1>15 DEF FrameworkInv, TypeOK, StageHandles, CallbacksCreated, LockHeldOnce, IsrQueues
<1>16. ASSUME NEW o \in Objects, WorkerDisable(o) PROVE FrameworkInv'
  BY <1>0, <1>16 DEF FrameworkInv, TypeOK, StageHandles, CallbacksCreated, LockHeldOnce,
     WorkerDisable
<1>17. ASSUME NEW o \in Objects, WorkerDelete(o) PROVE FrameworkInv'
  BY <1>0, <1>17 DEF FrameworkInv, TypeOK, StageHandles, CallbacksCreated, LockHeldOnce,
     WorkerDelete
<1>18. ASSUME NEW c \in Processors, DpcLocked(c) PROVE FrameworkInv'
  BY <1>0, <1>18 DEF FrameworkInv, TypeOK, StageHandles, CallbacksCreated, LockHeldOnce, DpcLocked
<1>19. ASSUME NEW c \in Processors, HandlerReturns(c) PROVE FrameworkInv'
  BY <1>0, <1>19 DEF FrameworkInv, TypeOK, StageHandles, CallbacksCreated, LockHeldOnce,
     HandlerReturns
<1>20. ASSUME NEW c \in Processors, NEW o \in Objects, IsrCallsHandler(c, o) PROVE FrameworkInv'
  BY <1>0, <1>20 DEF FrameworkInv, TypeOK, StageHandles, CallbacksCreated, LockHeldOnce,
     IsrCallsHandler
<1>21. ASSUME NEW c \in Processors, NEW o \in Objects, EvtWdfInterruptDpc(c, o) PROVE FrameworkInv'
  BY <1>0, <1>21 DEF FrameworkInv, TypeOK, StageHandles, CallbacksCreated, LockHeldOnce,
     EvtWdfInterruptDpc
<1>22. ASSUME NEW c \in Processors, NEW o \in Objects, EvtWdfInterruptWorkitem(c, o) PROVE FrameworkInv'
  BY <1>0, <1>22 DEF FrameworkInv, TypeOK, StageHandles, CallbacksCreated, LockHeldOnce,
     EvtWdfInterruptWorkitem
<1>23. CASE UNCHANGED vars
  BY <1>0, <1>23 DEF FrameworkInv, TypeOK, StageHandles, CallbacksCreated, LockHeldOnce, vars
<1>24. QED
  BY <1>1, <1>2, <1>3, <1>4, <1>5, <1>6, <1>7, <1>8, <1>9, <1>10, <1>11, <1>12, <1>13, <1>14,
     <1>15, <1>16, <1>17, <1>18, <1>19, <1>20, <1>21, <1>22, <1>23 DEF Next, Register, Unregister,
     Callback, Worker

-----------------------------------------------------------------------------
(* What holds where a call at PASSIVE_LEVEL is the only one.               *)


\* A call at PASSIVE_LEVEL is the only one; which level takes which path.
Calls ==
  /\ \A t \in Raised : pc[t] \in {"idle", "exchange", "queue"}
  /\ \A t \in Callers \ Raised :
       /\ pc[t] \in {"idle", "fill", "disable", "delete", "clear"}
       /\ pc[t] # "idle" => \A u \in Callers \ {t} : pc[u] = "idle"

\* The configuration holds an object that exists, but between its deletion
\* and the store that clears the handle.
Configured ==
  /\ \A t \in Callers :
       /\ pc[t] \in {"fill", "disable", "delete", "clear"} => Interrupt # None
       /\ pc[t] = "clear" => object[Interrupt] = "deleted"
  /\ Interrupt # None /\ (\A t \in Callers : pc[t] # "clear") => Alive(Interrupt)

\* A handle taken out of the configuration has one holder.
Held ==
  /\ \A t \in Callers : saved[t] # None <=> pc[t] = "queue"
  /\ \A t \in Callers : pc[t] = "queue" =>
       /\ Alive(saved[t]) /\ saved[t] # Interrupt /\ saved[t] \notin work
       /\ \A u \in Callers \ {t} : saved[u] # saved[t]
  /\ \A o \in work : Alive(o) /\ o # Interrupt

\* Callbacks are queued and run for objects that exist.
CallbacksAlive ==
  /\ \A o \in queued : Alive(o)
  /\ \A c \in Processors : processor[c] # Idle => Alive(processor[c].object)
WdfInv == FrameworkInv /\ Calls /\ Configured /\ Held /\ CallbacksAlive

\* At first nobody holds a handle.
LEMMA WdfInvInit == Init => WdfInv
<1> SUFFICES ASSUME Init PROVE WdfInv
  OBVIOUS
<1>1. Calls /\ Configured /\ Held
  BY RaisedAssumption DEF Init, Calls, Configured, Held
<1>2. CallbacksAlive
  BY DEF Init, CallbacksAlive, Idle
<1>3. QED
  BY <1>1, <1>2, FrameworkInvInit DEF WdfInv

\* Every step keeps each handle with one owner.
LEMMA WdfInvNext ==
  ASSUME ~PassiveRaces, WdfInv, [Next]_vars
  PROVE  WdfInv'
<1> USE RaisedAssumption, NoneAssumption
<1>0. FrameworkInv /\ FrameworkInv' /\ TypeOK /\ Calls /\ Configured /\ Held /\ CallbacksAlive
  BY FrameworkInvNext DEF WdfInv, FrameworkInv
<1> USE DEF framework, callers, Goto, Return, Alive, RunBy, Idle, MayCall, WdfInterruptDisable,
        WdfObjectDelete, Locked, Busy, Run
<1>1. ASSUME NEW t \in Callers, NEW o \in Objects, NEW type \in {"NONE", "DPC", "WORKITEM"}, NEW p \in BOOLEAN,
              CrRegisterInterrupt(t, o, type, p)
      PROVE  WdfInv'
  BY <1>0, <1>1 DEF WdfInv, TypeOK, Calls, Configured, Held, CallbacksAlive, CrRegisterInterrupt,
     Deferral
<1>2. ASSUME NEW t \in Callers, CreateFails(t) PROVE WdfInv'
  BY <1>0, <1>2 DEF WdfInv, TypeOK, Calls, Configured, Held, CallbacksAlive, CreateFails
<1>3. ASSUME NEW t \in Callers, FillContext(t) PROVE WdfInv'
  BY <1>0, <1>3 DEF WdfInv, TypeOK, Calls, Configured, Held, CallbacksAlive, FillContext
<1>4. ASSUME NEW t \in Callers, UnregisterNothing(t) PROVE WdfInv'
  BY <1>0, <1>4 DEF WdfInv, TypeOK, Calls, Configured, Held, CallbacksAlive, UnregisterNothing
<1>5. ASSUME NEW t \in Callers, CrUnregisterInterrupt(t) PROVE WdfInv'
  BY <1>0, <1>5 DEF WdfInv, TypeOK, Calls, Configured, Held, CallbacksAlive, CrUnregisterInterrupt
<1>6. ASSUME NEW t \in Callers, NoContext(t) PROVE WdfInv'
  BY <1>0, <1>6 DEF WdfInv, TypeOK, Calls, Configured, Held, CallbacksAlive, NoContext
<1>7. ASSUME NEW t \in Callers, ExchangeNothing(t) PROVE WdfInv'
  BY <1>0, <1>7 DEF WdfInv, TypeOK, Calls, Configured, Held, CallbacksAlive, ExchangeNothing
<1>8. ASSUME NEW t \in Callers, Exchange(t) PROVE WdfInv'
  BY <1>0, <1>8 DEF WdfInv, TypeOK, Calls, Configured, Held, CallbacksAlive, Exchange
<1>9. ASSUME NEW t \in Callers, CannotQueue(t) PROVE WdfInv'
  BY <1>0, <1>9 DEF WdfInv, TypeOK, Calls, Configured, Held, CallbacksAlive, CannotQueue
<1>10. ASSUME NEW t \in Callers, IoQueueWorkItem(t) PROVE WdfInv'
  BY <1>0, <1>10 DEF WdfInv, TypeOK, Calls, Configured, Held, CallbacksAlive, IoQueueWorkItem
<1>11. ASSUME NEW t \in Callers, PassiveDisable(t) PROVE WdfInv'
  BY <1>0, <1>11 DEF WdfInv, TypeOK, Calls, Configured, Held, CallbacksAlive, PassiveDisable
<1>12. ASSUME NEW t \in Callers, PassiveDelete(t) PROVE WdfInv'
  BY <1>0, <1>12 DEF WdfInv, TypeOK, Calls, Configured, Held, CallbacksAlive, PassiveDelete
<1>13. ASSUME NEW t \in Callers, PassiveClear(t) PROVE WdfInv'
  BY <1>0, <1>13 DEF WdfInv, TypeOK, Calls, Configured, Held, CallbacksAlive, PassiveClear
<1>14. ASSUME NEW o \in Objects, Connect(o) PROVE WdfInv'
  BY <1>0, <1>14 DEF WdfInv, TypeOK, Calls, Configured, Held, CallbacksAlive, Connect
<1>15. ASSUME NEW o \in Objects, IsrQueues(o) PROVE WdfInv'
  BY <1>0, <1>15 DEF WdfInv, TypeOK, Calls, Configured, Held, CallbacksAlive, IsrQueues
<1>16. ASSUME NEW o \in Objects, WorkerDisable(o) PROVE WdfInv'
  BY <1>0, <1>16 DEF WdfInv, TypeOK, Calls, Configured, Held, CallbacksAlive, WorkerDisable
<1>17. ASSUME NEW o \in Objects, WorkerDelete(o) PROVE WdfInv'
  BY <1>0, <1>17 DEF WdfInv, TypeOK, Calls, Configured, Held, CallbacksAlive, WorkerDelete
<1>18. ASSUME NEW c \in Processors, DpcLocked(c) PROVE WdfInv'
  BY <1>0, <1>18 DEF WdfInv, TypeOK, Calls, Configured, Held, CallbacksAlive, DpcLocked
<1>19. ASSUME NEW c \in Processors, HandlerReturns(c) PROVE WdfInv'
  BY <1>0, <1>19 DEF WdfInv, TypeOK, Calls, Configured, Held, CallbacksAlive, HandlerReturns
<1>20. ASSUME NEW c \in Processors, NEW o \in Objects, IsrCallsHandler(c, o) PROVE WdfInv'
  BY <1>0, <1>20 DEF WdfInv, TypeOK, Calls, Configured, Held, CallbacksAlive, IsrCallsHandler
<1>21. ASSUME NEW c \in Processors, NEW o \in Objects, EvtWdfInterruptDpc(c, o) PROVE WdfInv'
  BY <1>0, <1>21 DEF WdfInv, TypeOK, Calls, Configured, Held, CallbacksAlive, EvtWdfInterruptDpc
<1>22. ASSUME NEW c \in Processors, NEW o \in Objects, EvtWdfInterruptWorkitem(c, o) PROVE WdfInv'
  BY <1>0, <1>22 DEF WdfInv, TypeOK, Calls, Configured, Held, CallbacksAlive,
     EvtWdfInterruptWorkitem
<1>23. CASE UNCHANGED vars
  BY <1>0, <1>23 DEF WdfInv, TypeOK, Calls, Configured, Held, CallbacksAlive, vars
<1>24. QED
  BY <1>1, <1>2, <1>3, <1>4, <1>5, <1>6, <1>7, <1>8, <1>9, <1>10, <1>11, <1>12, <1>13, <1>14,
     <1>15, <1>16, <1>17, <1>18, <1>19, <1>20, <1>21, <1>22, <1>23 DEF Next, Register, Unregister,
     Callback, Worker

-----------------------------------------------------------------------------
(* The invariants of the runs.                                             *)

\* Every variable of the library and of the framework keeps its type.
THEOREM WdfTypeCorrect == Spec => []TypeOK
<1>1. FrameworkInv => TypeOK
  BY DEF FrameworkInv
<1>2. FrameworkInv /\ [Next]_vars => FrameworkInv'
  BY FrameworkInvNext
<1>3. QED
  BY <1>1, <1>2, FrameworkInvInit, PTL DEF Spec

\* A set whose elements are all the same has at most one.
LEMMA AtMostOne ==
  ASSUME NEW S, \A x, y \in S : x = y
  PROVE  Cardinality(S) \in {0, 1}
<1>1. CASE S = {}
  BY <1>1, FS_EmptySet
<1>2. ASSUME NEW x \in S PROVE Cardinality(S) \in {0, 1}
  <2>1. S = {x}
    OBVIOUS
  <2>2. QED
    BY <2>1, FS_Singleton
<1>3. QED
  BY <1>1, <1>2

\* CrUnregisterInterrupt and its worker: a handle about to be used is that of
\* an object that exists, and the configuration, the threads and the work
\* items never share one.
THEOREM HandlesAlive ==
  ASSUME ~PassiveRaces
  PROVE  Spec => []HandleAlive
<1>1. ASSUME WdfInv PROVE HandleAlive
  <2> USE <1>1, NoneAssumption, RaisedAssumption DEF WdfInv, FrameworkInv, Calls, Configured, Held
  <2>1. \A t \in Callers : pc[t] \in {"disable", "delete"} => Interrupt \in Objects /\ Alive(Interrupt)
    BY DEF TypeOK
  <2>2. pc \in [Callers -> {"idle", "fill", "exchange", "queue"}] /\ Interrupt # None => Alive(Interrupt)
    OBVIOUS
  <2>3. ASSUME NEW o \in Objects
        PROVE  LET holders == {t \in Callers : saved[t] = o}
               IN  /\ (o \in work \/ holders # {}) => Alive(o) /\ o # Interrupt
                   /\ Cardinality(holders) + (IF o \in work THEN 1 ELSE 0) <= 1
    <3> DEFINE holders == {t \in Callers : saved[t] = o}
    <3>1. Cardinality(holders) \in {0, 1}
      BY AtMostOne, \A t, u \in holders : t = u
    <3>2. o \in work => holders = {}
      OBVIOUS
    <3>3. o \in work => Cardinality(holders) = 0
      BY <3>2, FS_EmptySet
    <3>4. o \in work \/ holders # {} => Alive(o) /\ o # Interrupt
      OBVIOUS
    <3>5. QED
      BY <3>1, <3>3, <3>4
  <2>4. QED
    BY <2>1, <2>2, <2>3 DEF HandleAlive
<1>2. WdfInv /\ [Next]_vars => WdfInv'
  BY WdfInvNext
<1>3. QED
  BY <1>1, <1>2, WdfInvInit, PTL DEF Spec

\* EvtWdfInterruptDpc: a handler that its interrupt or a DPC calls has one
\* activation at a time, whichever processors the DPC runs on.
THEOREM HandlerSerial == Spec => []OneActivation
<1>1. ASSUME FrameworkInv PROVE OneActivation
  <2> SUFFICES ASSUME NEW o \in Objects, deferral[o] # "workitem"
               PROVE  Cardinality({c \in Processors : o \in RunBy(c)}) <= 1
    BY DEF OneActivation
  <2>1. \A c, d \in {c \in Processors : o \in RunBy(c)} : c = d
    BY <1>1 DEF FrameworkInv, LockHeldOnce
  <2>2. QED
    BY <2>1, AtMostOne
<1>2. FrameworkInv /\ [Next]_vars => FrameworkInv'
  BY FrameworkInvNext
<1>3. QED
  BY <1>1, <1>2, FrameworkInvInit, PTL DEF Spec

-----------------------------------------------------------------------------
(* The library implements InterruptObject.                                 *)

lifeOf == [o \in Objects |-> Life(o)]
activeOf == [c \in Processors |-> RunBy(c)]

\* Life in terms of its parts, before and after a step.
LEMMA LifeValue ==
  ASSUME NEW o
  PROVE  /\ object[o] = "absent" => Life(o) = "absent"
         /\ object[o] = "deleted" => Life(o) = "deleted"
         /\ Alive(o) /\ Taken(o) => Life(o) = "taken"
         /\ Alive(o) /\ ~Taken(o) => Life(o) = "registered"
BY DEF Life, Alive

\* The same after a step.
LEMMA LifeValueNext ==
  ASSUME NEW o
  PROVE  /\ object'[o] = "absent" => Life(o)' = "absent"
         /\ object'[o] = "deleted" => Life(o)' = "deleted"
         /\ Alive(o)' /\ Taken(o)' => Life(o)' = "taken"
         /\ Alive(o)' /\ ~Taken(o)' => Life(o)' = "registered"
BY DEF Life, Alive

\* At first every object is absent.
LEMMA LifecycleInit == Init => Lifecycle!LifeInit
<1> SUFFICES ASSUME Init PROVE Lifecycle!LifeInit
  OBVIOUS
<1>1. \A o \in Objects : Life(o) = "absent"
  BY LifeValue DEF Init
<1>2. \A c \in Processors : RunBy(c) = {}
  BY DEF Init, RunBy, Idle
<1>3. QED
  BY <1>1, <1>2 DEF Lifecycle!LifeInit

\* A step that changes the life of one object.
LEMMA LifeBecomes ==
  ASSUME NEW o \in Objects, NEW from, NEW to, Life(o) = from, Life(o)' = to,
         \A q \in Objects \ {o} : Life(q)' = Life(q)
  PROVE  Lifecycle!Become(o, from, to)
BY DEF Lifecycle!Become

\* A processor enters the handler of an object, or leaves it.
LEMMA ActiveBecomes ==
  ASSUME NEW c \in Processors, NEW S,
         RunBy(c)' = S, \A d \in Processors \ {c} : processor'[d] = processor[d]
  PROVE  activeOf' = [activeOf EXCEPT ![c] = S]
BY DEF RunBy, activeOf

\* A step that leaves the processors alone leaves what is active.
LEMMA ActiveUnchanged ==
  ASSUME UNCHANGED processor
  PROVE  activeOf' = activeOf
BY DEF RunBy, activeOf

\* Every step is one of InterruptObject or leaves its variables alone.
LEMMA LifecycleNext ==
  ASSUME ~PassiveRaces, WdfInv, [Next]_vars
  PROVE  [Lifecycle!LifeNext]_(Lifecycle!lifeVars)
<1> USE RaisedAssumption, NoneAssumption
<1>0. TypeOK /\ StageHandles /\ Calls /\ Configured /\ Held /\ CallbacksAlive
  BY DEF WdfInv, FrameworkInv
<1> USE DEF framework, callers, Goto, Return, Alive, Taken, MayCall, WdfInterruptDisable,
        WdfObjectDelete, Busy, Run
<1>a. (lifeOf' = lifeOf /\ activeOf' = activeOf) => UNCHANGED Lifecycle!lifeVars
  BY DEF lifeOf, activeOf, Lifecycle!lifeVars
<1>b. ASSUME NEW o \in Objects, \/ Lifecycle!Create(o) \/ Lifecycle!Take(o) \/ Lifecycle!Delete(o)
       PROVE  [Lifecycle!LifeNext]_(Lifecycle!lifeVars)
  BY <1>b DEF Lifecycle!LifeNext
<1>c. ASSUME NEW c \in Processors, \/ Lifecycle!Return(c) \/ \E o \in Objects : Lifecycle!Activate(c, o)
       PROVE  [Lifecycle!LifeNext]_(Lifecycle!lifeVars)
  BY <1>c DEF Lifecycle!LifeNext
<1>1. ASSUME NEW t \in Callers, CreateFails(t) PROVE [Lifecycle!LifeNext]_(Lifecycle!lifeVars)
  <2>1. lifeOf' = lifeOf
    BY <1>0, <1>1, LifeValue, LifeValueNext DEF CreateFails, TypeOK, Calls, Configured, Held, lifeOf
  <2>2. activeOf' = activeOf
    BY <1>1, ActiveUnchanged DEF CreateFails
  <2>3. QED
    BY <2>1, <2>2, <1>a
<1>2. ASSUME NEW t \in Callers, FillContext(t) PROVE [Lifecycle!LifeNext]_(Lifecycle!lifeVars)
  <2>1. lifeOf' = lifeOf
    BY <1>0, <1>2, LifeValue, LifeValueNext DEF FillContext, TypeOK, Calls, Configured, Held, lifeOf
  <2>2. activeOf' = activeOf
    BY <1>2, ActiveUnchanged DEF FillContext
  <2>3. QED
    BY <2>1, <2>2, <1>a
<1>3. ASSUME NEW t \in Callers, UnregisterNothing(t) PROVE [Lifecycle!LifeNext]_(Lifecycle!lifeVars)
  <2>1. lifeOf' = lifeOf
    BY <1>0, <1>3, LifeValue, LifeValueNext DEF UnregisterNothing, TypeOK, Calls, Configured, Held,
       lifeOf
  <2>2. activeOf' = activeOf
    BY <1>3, ActiveUnchanged DEF UnregisterNothing
  <2>3. QED
    BY <2>1, <2>2, <1>a
<1>4. ASSUME NEW t \in Callers, NoContext(t) PROVE [Lifecycle!LifeNext]_(Lifecycle!lifeVars)
  <2>1. lifeOf' = lifeOf
    BY <1>0, <1>4, LifeValue, LifeValueNext DEF NoContext, TypeOK, Calls, Configured, Held, lifeOf
  <2>2. activeOf' = activeOf
    BY <1>4, ActiveUnchanged DEF NoContext
  <2>3. QED
    BY <2>1, <2>2, <1>a
<1>5. ASSUME NEW t \in Callers, ExchangeNothing(t) PROVE [Lifecycle!LifeNext]_(Lifecycle!lifeVars)
  <2>1. lifeOf' = lifeOf
    BY <1>0, <1>5, LifeValue, LifeValueNext DEF ExchangeNothing, TypeOK, Calls, Configured, Held,
       lifeOf
  <2>2. activeOf' = activeOf
    BY <1>5, ActiveUnchanged DEF ExchangeNothing
  <2>3. QED
    BY <2>1, <2>2, <1>a
<1>6. ASSUME NEW t \in Callers, CannotQueue(t) PROVE [Lifecycle!LifeNext]_(Lifecycle!lifeVars)
  <2>1. lifeOf' = lifeOf
    BY <1>0, <1>6, LifeValue, LifeValueNext DEF CannotQueue, TypeOK, Calls, Configured, Held, lifeOf
  <2>2. activeOf' = activeOf
    BY <1>6, ActiveUnchanged DEF CannotQueue
  <2>3. QED
    BY <2>1, <2>2, <1>a
<1>7. ASSUME NEW t \in Callers, IoQueueWorkItem(t) PROVE [Lifecycle!LifeNext]_(Lifecycle!lifeVars)
  <2>1. lifeOf' = lifeOf
    BY <1>0, <1>7, LifeValue, LifeValueNext DEF IoQueueWorkItem, TypeOK, Calls, Configured, Held,
       lifeOf
  <2>2. activeOf' = activeOf
    BY <1>7, ActiveUnchanged DEF IoQueueWorkItem
  <2>3. QED
    BY <2>1, <2>2, <1>a
<1>8. ASSUME NEW t \in Callers, PassiveDisable(t) PROVE [Lifecycle!LifeNext]_(Lifecycle!lifeVars)
  <2>1. lifeOf' = lifeOf
    BY <1>0, <1>8, LifeValue, LifeValueNext DEF PassiveDisable, TypeOK, Calls, Configured, Held,
       lifeOf
  <2>2. activeOf' = activeOf
    BY <1>8, ActiveUnchanged DEF PassiveDisable
  <2>3. QED
    BY <2>1, <2>2, <1>a
<1>9. ASSUME NEW t \in Callers, PassiveClear(t) PROVE [Lifecycle!LifeNext]_(Lifecycle!lifeVars)
  <2>1. lifeOf' = lifeOf
    BY <1>0, <1>9, LifeValue, LifeValueNext DEF PassiveClear, TypeOK, Calls, Configured, Held,
       lifeOf
  <2>2. activeOf' = activeOf
    BY <1>9, ActiveUnchanged DEF PassiveClear
  <2>3. QED
    BY <2>1, <2>2, <1>a
<1>10. ASSUME NEW o \in Objects, Connect(o) PROVE [Lifecycle!LifeNext]_(Lifecycle!lifeVars)
  <2>1. lifeOf' = lifeOf
    BY <1>0, <1>10, LifeValue, LifeValueNext DEF Connect, TypeOK, Calls, Configured, Held, lifeOf
  <2>2. activeOf' = activeOf
    BY <1>10, ActiveUnchanged DEF Connect
  <2>3. QED
    BY <2>1, <2>2, <1>a
<1>11. ASSUME NEW o \in Objects, IsrQueues(o) PROVE [Lifecycle!LifeNext]_(Lifecycle!lifeVars)
  <2>1. lifeOf' = lifeOf
    BY <1>0, <1>11, LifeValue, LifeValueNext DEF IsrQueues, TypeOK, Calls, Configured, Held, lifeOf
  <2>2. activeOf' = activeOf
    BY <1>11, ActiveUnchanged DEF IsrQueues
  <2>3. QED
    BY <2>1, <2>2, <1>a
<1>12. ASSUME NEW o \in Objects, WorkerDisable(o) PROVE [Lifecycle!LifeNext]_(Lifecycle!lifeVars)
  <2>1. lifeOf' = lifeOf
    BY <1>0, <1>12, LifeValue, LifeValueNext DEF WorkerDisable, TypeOK, Calls, Configured, Held,
       lifeOf
  <2>2. activeOf' = activeOf
    BY <1>12, ActiveUnchanged DEF WorkerDisable
  <2>3. QED
    BY <2>1, <2>2, <1>a
<1>13. ASSUME NEW t \in Callers, NEW o \in Objects, NEW type \in {"NONE", "DPC", "WORKITEM"}, NEW p \in BOOLEAN,
              CrRegisterInterrupt(t, o, type, p)
      PROVE  [Lifecycle!LifeNext]_(Lifecycle!lifeVars)
  <2>1. o \in Objects /\ Life(o) = "absent" /\ Life(o)' = "registered"
    BY <1>0, <1>13, LifeValue, LifeValueNext DEF CrRegisterInterrupt, TypeOK, StageHandles, Calls,
       Configured, Held
  <2>2. \A q \in Objects \ {o} : Life(q)' = Life(q)
    BY <1>0, <1>13, LifeValue, LifeValueNext DEF CrRegisterInterrupt, TypeOK, StageHandles, Calls,
       Configured, Held
  <2>3. activeOf' = activeOf
    BY <1>13, ActiveUnchanged DEF CrRegisterInterrupt
  <2>4. Lifecycle!Create(o)
    BY <2>1, <2>2, <2>3, LifeBecomes DEF Lifecycle!Create, activeOf
  <2>5. QED
    BY <2>1, <2>4, <1>b
<1>14. ASSUME NEW t \in Callers,
              Exchange(t)
      PROVE  [Lifecycle!LifeNext]_(Lifecycle!lifeVars)
  <2>0. PICK o \in Objects : o = Interrupt
    BY <1>0, <1>14 DEF Exchange, TypeOK, StageHandles, Calls, Configured, Held
  <2>1. o \in Objects /\ Life(o) = "registered" /\ Life(o)' = "taken"
    BY <1>0, <1>14, <2>0, LifeValue, LifeValueNext DEF Exchange, TypeOK, StageHandles, Calls,
       Configured, Held
  <2>2. \A q \in Objects \ {o} : Life(q)' = Life(q)
    BY <1>0, <1>14, <2>0, LifeValue, LifeValueNext DEF Exchange, TypeOK, StageHandles, Calls,
       Configured, Held
  <2>3. activeOf' = activeOf
    BY <1>14, ActiveUnchanged DEF Exchange
  <2>4. Lifecycle!Take(o)
    BY <2>1, <2>2, <2>3, LifeBecomes DEF Lifecycle!Take, activeOf
  <2>5. QED
    BY <2>1, <2>4, <1>b
<1>15. ASSUME NEW t \in Callers,
              PassiveDelete(t)
      PROVE  [Lifecycle!LifeNext]_(Lifecycle!lifeVars)
  <2>0. PICK o \in Objects : o = Interrupt
    BY <1>0, <1>15 DEF PassiveDelete, TypeOK, StageHandles, Calls, Configured, Held
  <2>1. o \in Objects /\ Life(o) = "taken" /\ Life(o)' = "deleted"
    BY <1>0, <1>15, <2>0, LifeValue, LifeValueNext DEF PassiveDelete, TypeOK, StageHandles, Calls,
       Configured, Held
  <2>2. \A q \in Objects \ {o} : Life(q)' = Life(q)
    BY <1>0, <1>15, <2>0, LifeValue, LifeValueNext DEF PassiveDelete, TypeOK, StageHandles, Calls,
       Configured, Held
  <2>3. activeOf' = activeOf
    BY <1>15, ActiveUnchanged DEF PassiveDelete
  <2>4. \A c \in Processors : o \notin activeOf[c]
    BY <1>15, <2>0 DEF PassiveDelete, RunBy, activeOf
  <2>5. Lifecycle!Delete(o)
    BY <2>1, <2>2, <2>3, <2>4, LifeBecomes DEF Lifecycle!Delete, activeOf
  <2>6. QED
    BY <2>1, <2>5, <1>b
<1>16. ASSUME NEW o \in Objects,
              WorkerDelete(o)
      PROVE  [Lifecycle!LifeNext]_(Lifecycle!lifeVars)
  <2>1. o \in Objects /\ Life(o) = "taken" /\ Life(o)' = "deleted"
    BY <1>0, <1>16, LifeValue, LifeValueNext DEF WorkerDelete, TypeOK, StageHandles, Calls,
       Configured, Held
  <2>2. \A q \in Objects \ {o} : Life(q)' = Life(q)
    BY <1>0, <1>16, LifeValue, LifeValueNext DEF WorkerDelete, TypeOK, StageHandles, Calls,
       Configured, Held
  <2>3. activeOf' = activeOf
    BY <1>16, ActiveUnchanged DEF WorkerDelete
  <2>4. \A c \in Processors : o \notin activeOf[c]
    BY <1>16, <2>1 DEF WorkerDelete, RunBy, activeOf
  <2>5. Lifecycle!Delete(o)
    BY <2>1, <2>2, <2>3, <2>4, LifeBecomes DEF Lifecycle!Delete, activeOf
  <2>6. QED
    BY <2>1, <2>5, <1>b
<1>17. ASSUME NEW t \in Callers, CrUnregisterInterrupt(t) PROVE [Lifecycle!LifeNext]_(Lifecycle!lifeVars)
  <2>1. activeOf' = activeOf
    BY <1>17, ActiveUnchanged DEF CrUnregisterInterrupt
  <2>2. CASE t \in Raised
    <3>1. lifeOf' = lifeOf
      BY <1>0, <1>17, <2>2, LifeValue, LifeValueNext DEF CrUnregisterInterrupt, TypeOK, Calls,
         Configured, Held, lifeOf
    <3>2. QED
      BY <2>1, <3>1, <1>a
  <2>3. CASE t \notin Raised
    <3>0. PICK o \in Objects : o = Interrupt
      BY <1>0, <1>17 DEF CrUnregisterInterrupt, TypeOK
    <3>1. o \in Objects /\ Life(o) = "registered" /\ Life(o)' = "taken"
      BY <1>0, <1>17, <2>3, <3>0, LifeValue, LifeValueNext DEF CrUnregisterInterrupt, TypeOK,
         Calls, Configured, Held
    <3>2. \A q \in Objects \ {o} : Life(q)' = Life(q)
      BY <1>0, <1>17, <2>3, <3>0, LifeValue, LifeValueNext DEF CrUnregisterInterrupt, TypeOK,
         Calls, Configured, Held
    <3>3. Lifecycle!Take(o)
      BY <2>1, <3>1, <3>2, LifeBecomes DEF Lifecycle!Take, activeOf
    <3>4. QED
      BY <3>1, <3>3, <1>b
  <2>4. QED
    BY <2>2, <2>3
<1>18. ASSUME NEW c \in Processors, NEW o \in Objects, IsrCallsHandler(c, o)
      PROVE  [Lifecycle!LifeNext]_(Lifecycle!lifeVars)
  <2>1. lifeOf' = lifeOf
    BY <1>18 DEF IsrCallsHandler, Life, lifeOf
  <2>2. o \in Objects /\ Life(o) \in {"registered", "taken"}
    BY <1>0, <1>18, LifeValue, LifeValueNext DEF IsrCallsHandler, TypeOK, CallbacksAlive, Idle
  <2>3. activeOf[c] = {} /\ activeOf' = [activeOf EXCEPT ![c] = {o}]
    <3>1. /\ processor[c].at # "handler" /\ processor'[c] = [at |-> "handler", object |-> o]
          /\ \A d \in Processors \ {c} : processor'[d] = processor[d]
      BY <1>0, <1>18 DEF IsrCallsHandler, Idle, TypeOK
    <3>2. RunBy(c) = {} /\ RunBy(c)' = {o}
      BY <3>1 DEF RunBy
    <3>3. QED
      BY <3>1, <3>2, ActiveBecomes DEF activeOf
  <2>4. Lifecycle!Activate(c, o)
    BY <2>1, <2>2, <2>3 DEF Lifecycle!Activate, lifeOf, activeOf
  <2>5. QED
    BY <2>2, <2>4, <1>c
<1>19. ASSUME NEW c \in Processors, NEW o \in Objects, EvtWdfInterruptDpc(c, o)
      PROVE  [Lifecycle!LifeNext]_(Lifecycle!lifeVars)
  <2>1. lifeOf' = lifeOf
    BY <1>19 DEF EvtWdfInterruptDpc, Life, lifeOf
  <2>2. activeOf' = activeOf
    <3>1. /\ processor[c].at # "handler" /\ processor'[c].at # "handler"
          /\ \A d \in Processors \ {c} : processor'[d] = processor[d]
      BY <1>0, <1>19 DEF EvtWdfInterruptDpc, Idle, TypeOK
    <3>2. \A d \in Processors : RunBy(d)' = RunBy(d)
      BY <3>1 DEF RunBy
    <3>3. QED
      BY <3>2 DEF activeOf
  <2>3. QED
    BY <2>1, <2>2, <1>a
<1>20. ASSUME NEW c \in Processors, NEW o \in Objects, EvtWdfInterruptWorkitem(c, o)
      PROVE  [Lifecycle!LifeNext]_(Lifecycle!lifeVars)
  <2>1. lifeOf' = lifeOf
    BY <1>20 DEF EvtWdfInterruptWorkitem, Life, lifeOf
  <2>2. o \in Objects /\ Life(o) \in {"registered", "taken"}
    BY <1>0, <1>20, LifeValue, LifeValueNext DEF EvtWdfInterruptWorkitem, TypeOK, CallbacksAlive,
       Idle
  <2>3. activeOf[c] = {} /\ activeOf' = [activeOf EXCEPT ![c] = {o}]
    <3>1. /\ processor[c].at # "handler" /\ processor'[c] = [at |-> "handler", object |-> o]
          /\ \A d \in Processors \ {c} : processor'[d] = processor[d]
      BY <1>0, <1>20 DEF EvtWdfInterruptWorkitem, Idle, TypeOK
    <3>2. RunBy(c) = {} /\ RunBy(c)' = {o}
      BY <3>1 DEF RunBy
    <3>3. QED
      BY <3>1, <3>2, ActiveBecomes DEF activeOf
  <2>4. Lifecycle!Activate(c, o)
    BY <2>1, <2>2, <2>3 DEF Lifecycle!Activate, lifeOf, activeOf
  <2>5. QED
    BY <2>2, <2>4, <1>c
<1>21. ASSUME NEW c \in Processors, DpcLocked(c)
      PROVE  [Lifecycle!LifeNext]_(Lifecycle!lifeVars)
  <2>0. PICK o \in Objects : processor[c] = [at |-> "dpc", object |-> o]
    BY <1>0, <1>21 DEF DpcLocked, TypeOK, Idle
  <2>1. lifeOf' = lifeOf
    BY <1>21 DEF DpcLocked, Life, lifeOf
  <2>2. o \in Objects /\ Life(o) \in {"registered", "taken"}
    BY <1>0, <1>21, <2>0, LifeValue, LifeValueNext DEF DpcLocked, TypeOK, CallbacksAlive, Idle
  <2>3. activeOf[c] = {} /\ activeOf' = [activeOf EXCEPT ![c] = {o}]
    <3>1. /\ processor[c].at # "handler" /\ processor'[c] = [at |-> "handler", object |-> o]
          /\ \A d \in Processors \ {c} : processor'[d] = processor[d]
      BY <1>0, <1>21, <2>0 DEF DpcLocked, Idle, TypeOK
    <3>2. RunBy(c) = {} /\ RunBy(c)' = {o}
      BY <3>1 DEF RunBy
    <3>3. QED
      BY <3>1, <3>2, ActiveBecomes DEF activeOf
  <2>4. Lifecycle!Activate(c, o)
    BY <2>1, <2>2, <2>3 DEF Lifecycle!Activate, lifeOf, activeOf
  <2>5. QED
    BY <2>2, <2>4, <1>c
<1>22. ASSUME NEW c \in Processors, HandlerReturns(c)
      PROVE  [Lifecycle!LifeNext]_(Lifecycle!lifeVars)
  <2>1. lifeOf' = lifeOf
    BY <1>22 DEF HandlerReturns, Life, lifeOf
  <2>2. activeOf' = [activeOf EXCEPT ![c] = {}]
    BY <1>0, <1>22, ActiveBecomes DEF HandlerReturns, RunBy, Idle, TypeOK
  <2>3. Lifecycle!Return(c)
    BY <2>1, <2>2 DEF Lifecycle!Return, lifeOf, activeOf
  <2>4. QED
    BY <2>3, <1>c
<1>23. CASE UNCHANGED vars
  <2>1. lifeOf' = lifeOf /\ activeOf' = activeOf
    BY <1>23 DEF vars, Life, lifeOf, RunBy, activeOf
  <2>2. QED
    BY <2>1, <1>a
<1>24. QED
  BY <1>1, <1>2, <1>3, <1>4, <1>5, <1>6, <1>7, <1>8, <1>9, <1>10, <1>11, <1>12, <1>13, <1>14,
     <1>15, <1>16, <1>17, <1>18, <1>19, <1>20, <1>21, <1>22, <1>23 DEF Next, Register, Unregister,
     Callback, Worker

\* CrRegisterInterrupt, CrUnregisterInterrupt and its worker, next to any
\* number of callbacks: an object is taken away by one actor, deleted by it
\* while none of its handlers runs, and not used afterwards.
THEOREM ImplementsLifecycle ==
  ASSUME ~PassiveRaces
  PROVE  Spec => RefinesObject
<1>1. WdfInv /\ [Next]_vars => WdfInv'
  BY WdfInvNext
<1>2. WdfInv /\ [Next]_vars => [Lifecycle!LifeNext]_(Lifecycle!lifeVars)
  BY LifecycleNext
<1>3. QED
  BY <1>1, <1>2, WdfInvInit, LifecycleInit, PTL DEF Spec, RefinesObject, Lifecycle!LifeSpec
=============================================================================
