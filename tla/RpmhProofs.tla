----------------------------- MODULE RpmhProofs ----------------------------
(***************************************************************************)
(* Type correctness of Rpmh, and that it hands every command of a client   *)
(* unchanged, once, to an idle TCS, and gives its interrupt up only for the *)
(* commands of others, for any number of TCSs, regulators and values, when *)
(* callers are paced or when there is one active TCS and no other user of  *)
(* the hardware (SafeUse).                                                 *)
(***************************************************************************)
EXTENDS Rpmh, TLAPS

USE DEF Bits, Active

-----------------------------------------------------------------------------
(* What a stage of a call says of the call's own data, whoever else uses   *)
(* the hardware.                                                           *)

\* The call has chosen a TCS.
Holds == Claimed \/ (pc \in {"load", "store", "mark"} /\ Status = "SUCCESS")

Locals ==
  /\ (pc = "idle") <=> (req = None)
  /\ pc = "idle" => tcs = 0
  /\ pc = "inflight" => tcs < NumActive
  /\ pc \in {"inflight", "free"} => Status = "SUCCESS"
  /\ pc \in {"load", "store", "mark"} => Status \in {"SUCCESS", "NOT_FOUND"}
  /\ Claimed => Status = "SUCCESS"
  /\ Holds => FreeTcsIndex \in Active

\* The registers of the chosen TCS hold what has been written to them.
Written ==
  /\ pc \in {"data", "enable", "disarm", "arm", "fire"} => cmd[FreeTcsIndex].addr = req.addr
  /\ pc \in {"enable", "disarm", "arm", "fire"} => cmd[FreeTcsIndex].data = req.data

CallInv == TypeOK /\ Locals /\ Written

\* A request is an address of the regulators and a value.
LEMMA RequestFields ==
  ASSUME NEW r \in Requests
  PROVE  r.addr \in Addrs /\ r.data \in Values /\ r = [addr |-> r.addr, data |-> r.data]
BY DEF Requests, EnableVreg, SetVregVoltage, SetVregMode, Addrs, Values

\* Whatever the register held, the first two writes of TcsSetTrigger arm
\* nothing and leave ENABLE alone set.
LEMMA DisarmArmsNothing ==
  ASSUME TypeOK, NEW t \in Active, WriteControl(t, Disarm(ctrl[t]))
  PROVE  /\ ctrl' = [ctrl EXCEPT ![t] = {ENABLE}]
         /\ running' = running /\ launched' = launched
BY DEF TypeOK, WriteControl, Disarm, ClrBits, Arms, TRIGGER, ENABLE

\* Nor does the next write.
LEMMA ArmArmsNothing ==
  ASSUME NEW t \in Active, WriteControl(t, <<{ENABLE}, {ENABLE}>>)
  PROVE  /\ ctrl' = [ctrl EXCEPT ![t] = {ENABLE}]
         /\ running' = running /\ launched' = launched
BY DEF WriteControl, Arms, TRIGGER, ENABLE

\* The last one starts the TCS.
LEMMA FireArms ==
  ASSUME NEW t \in Active, WriteControl(t, <<{ENABLE}, SetBits({ENABLE}, {TRIGGER})>>)
  PROVE  /\ ctrl' = [ctrl EXCEPT ![t] = {ENABLE, TRIGGER}]
         /\ running' = running \cup {t}
         /\ launched' = [launched EXCEPT ![t] = IF cmdEnable[t] THEN cmd[t] ELSE None]
BY DEF WriteControl, SetBits, Arms, TRIGGER, ENABLE

\* What is in the registers when the TCS is triggered is the request.
LEMMA WrittenIsRequest ==
  ASSUME CallInv, pc = "fire"
  PROVE  FreeTcsIndex \in Active /\ cmd[FreeTcsIndex] = req /\ req \in Requests
<1>1. FreeTcsIndex \in Active /\ req \in Requests
  BY DEF CallInv, TypeOK, Locals, Holds, Claimed
<1>2. cmd[FreeTcsIndex] = [addr |-> req.addr, data |-> req.data]
  BY <1>1 DEF CallInv, TypeOK, Written
<1>3. QED
  BY <1>1, <1>2, RequestFields

\* At first no call has begun.
LEMMA CallInvInit == Init => CallInv
<1> SUFFICES ASSUME Init PROVE CallInv
  OBVIOUS
<1>1. 0 \in Active /\ 0 \in Bits /\ 0 \in 0 .. NumActive
  BY NumActiveAssumption, NumBitsAssumption
<1>2. ctrl \in [Active -> SUBSET {TRIGGER, ENABLE}]
  BY DEF Init
<1>3. TypeOK
  BY <1>1, <1>2 DEF Init, TypeOK, Stages
<1>4. Locals /\ Written
  BY DEF Init, Locals, Written, Claimed, Holds
<1>5. QED
  BY <1>3, <1>4 DEF CallInv

\* Every step keeps the invariant of a call.
LEMMA CallInvNext == CallInv /\ [Next]_vars => CallInv'
<1> SUFFICES ASSUME CallInv, [Next]_vars PROVE CallInv'
  OBVIOUS
<1> USE NumActiveAssumption, NumBitsAssumption, NoneAssumption
<1>0. TypeOK /\ Locals /\ Written
  BY DEF CallInv
<1> USE DEF Claimed, Holds, Goto, Return
<1>1. ASSUME NEW r \in Requests, RpmhWrite(r) PROVE CallInv'
  BY <1>0, <1>1 DEF CallInv, TypeOK, Locals, Written, RpmhWrite, context, regs, hw, isr, Stages
<1>2. CASE InflightHit
  BY <1>0, <1>2 DEF CallInv, TypeOK, Locals, Written, InflightHit, context, regs, hw, isr, Stages
<1>3. CASE InflightMiss
  BY <1>0, <1>3 DEF CallInv, TypeOK, Locals, Written, InflightMiss, context, regs, hw, isr, Stages
<1>4. CASE FreeHit
  BY <1>0, <1>4 DEF CallInv, TypeOK, Locals, Written, FreeHit, context, regs, hw, isr, Stages
<1>5. CASE FreeMiss
  BY <1>0, <1>5 DEF CallInv, TypeOK, Locals, Written, FreeMiss, context, regs, hw, isr, Stages
<1>6. CASE FreeNone
  BY <1>0, <1>6 DEF CallInv, TypeOK, Locals, Written, FreeNone, context, regs, hw, isr, Stages
<1>7. CASE ClaimLoad
  BY <1>0, <1>7 DEF CallInv, TypeOK, Locals, Written, ClaimLoad, context, regs, hw, isr, Stages
<1>8. CASE ClaimStore
  BY <1>0, <1>8 DEF CallInv, TypeOK, Locals, Written, ClaimStore, regs, hw, isr, Stages, SetBits
<1>9. CASE ClaimMark
  <2>1. CASE Status = "SUCCESS"
    <3>1. pc = "mark" /\ pc' = "addr" /\ UNCHANGED <<req, tcs, FreeTcsIndex, Status, loaded>>
      BY <1>9, <2>1 DEF ClaimMark
    <3>2. TypeOK'
      BY <1>0, <1>9, <3>1 DEF TypeOK, ClaimMark, regs, hw, isr, Stages
    <3>3. Locals' /\ Written'
      BY <1>0, <2>1, <3>1 DEF Locals, Written
    <3>4. QED
      BY <3>2, <3>3 DEF CallInv
  <2>2. CASE Status # "SUCCESS"
    <3>1. TypeOK'
      BY <1>0, <1>9, <2>2 DEF TypeOK, ClaimMark, regs, hw, isr, Stages
    <3>2. Locals' /\ Written'
      BY <1>0, <1>9, <2>2 DEF Locals, Written, ClaimMark
    <3>3. QED
      BY <3>1, <3>2 DEF CallInv
  <2>3. QED
    BY <2>1, <2>2
<1>10. CASE WriteAddr
  <2>1. FreeTcsIndex \in Active /\ req \in Requests
    BY <1>0, <1>10 DEF TypeOK, Locals, WriteAddr
  <2>2. cmd' \in [Active -> [addr : Addrs \cup {None}, data : Values \cup {None}]]
    BY <1>0, <1>10, <2>1, RequestFields DEF TypeOK, WriteAddr
  <2>3. TypeOK'
    BY <1>0, <1>10, <2>2 DEF TypeOK, WriteAddr, context, hw, isr, Stages
  <2>4. Locals'
    BY <1>0, <1>10 DEF Locals, WriteAddr
  <2>5. Written'
    BY <1>0, <1>10, <2>1 DEF TypeOK, Written, WriteAddr
  <2>6. QED
    BY <2>3, <2>4, <2>5 DEF CallInv
<1>11. CASE WriteData
  <2>1. FreeTcsIndex \in Active /\ req \in Requests
    BY <1>0, <1>11 DEF TypeOK, Locals, WriteData
  <2>2. cmd' \in [Active -> [addr : Addrs \cup {None}, data : Values \cup {None}]]
    BY <1>0, <1>11, <2>1, RequestFields DEF TypeOK, WriteData
  <2>3. TypeOK'
    BY <1>0, <1>11, <2>2 DEF TypeOK, WriteData, context, hw, isr, Stages
  <2>4. Locals'
    BY <1>0, <1>11 DEF Locals, WriteData
  <2>5. Written'
    BY <1>0, <1>11, <2>1 DEF TypeOK, Written, WriteData
  <2>6. QED
    BY <2>3, <2>4, <2>5 DEF CallInv
<1>12. CASE WriteEnable
  BY <1>0, <1>12 DEF CallInv, TypeOK, Locals, Written, WriteEnable, context, hw, isr, Stages
<1>13. CASE DisarmTrigger
  <2>1. /\ ctrl' = [ctrl EXCEPT ![FreeTcsIndex] = {ENABLE}]
        /\ running' = running /\ launched' = launched
    BY <1>0, <1>13, DisarmArmsNothing DEF DisarmTrigger, Locals
  <2>2. QED
    BY <1>0, <1>13, <2>1 DEF CallInv, TypeOK, Locals, Written, DisarmTrigger, context, isr, Stages
<1>14. CASE ArmTrigger
  <2>1. /\ ctrl' = [ctrl EXCEPT ![FreeTcsIndex] = {ENABLE}]
        /\ running' = running /\ launched' = launched
    BY <1>0, <1>14, ArmArmsNothing DEF ArmTrigger, Locals
  <2>2. QED
    BY <1>0, <1>14, <2>1 DEF CallInv, TypeOK, Locals, Written, ArmTrigger, context, isr, Stages
<1>15. CASE Fire
  <2>1. /\ ctrl' = [ctrl EXCEPT ![FreeTcsIndex] = {ENABLE, TRIGGER}]
        /\ running' = running \cup {FreeTcsIndex}
        /\ launched' = [launched EXCEPT ![FreeTcsIndex] =
                           IF cmdEnable[FreeTcsIndex] THEN cmd[FreeTcsIndex] ELSE None]
    BY <1>0, <1>15, FireArms DEF Fire, Locals
  <2>2. FreeTcsIndex \in Active /\ cmd[FreeTcsIndex] \in Requests
    BY <1>15, WrittenIsRequest DEF Fire
  <2>3. 0 \in Bits /\ 0 \in 0 .. NumActive
    OBVIOUS
  <2>4. TypeOK'
    BY <1>0, <1>15, <2>1, <2>2, <2>3 DEF TypeOK, Fire, context, isr, Stages
  <2>5. Locals' /\ Written'
    BY <1>15 DEF Locals, Written, Fire
  <2>6. QED
    BY <2>4, <2>5 DEF CallInv
<1>16. CASE IsrDisown
  BY <1>0, <1>16 DEF CallInv, TypeOK, Locals, Written, IsrDisown, caller, regs, hw, isr
<1>17. CASE IsrEnter
  BY <1>0, <1>17 DEF CallInv, TypeOK, Locals, Written, IsrEnter, caller, regs, hw
<1>18. ASSUME NEW t \in Active, IsrTcs(t) PROVE CallInv'
  <2>1. /\ ctrl' = [ctrl EXCEPT ![t] = {ENABLE}]
        /\ running' = running /\ launched' = launched
    BY <1>0, <1>18, DisarmArmsNothing DEF IsrTcs
  <2>2. TypeOK'
    BY <1>0, <1>18, <2>1 DEF TypeOK, IsrTcs, caller, ClrBits
  <2>3. Locals' /\ Written'
    BY <1>0, <1>18 DEF Locals, Written, IsrTcs, caller
  <2>4. QED
    BY <2>2, <2>3 DEF CallInv
<1>19. CASE IsrExit
  BY <1>0, <1>19 DEF CallInv, TypeOK, Locals, Written, IsrExit, caller, context, regs, hw
<1>20. ASSUME NEW t \in Active, BspLaunch(t) PROVE CallInv'
  BY <1>0, <1>20 DEF CallInv, TypeOK, Locals, Written, BspLaunch, caller, context, isr
<1>21. ASSUME NEW t \in Active, BspAcknowledge(t) PROVE CallInv'
  BY <1>0, <1>21 DEF CallInv, TypeOK, Locals, Written, BspAcknowledge, caller, context, isr
<1>22. ASSUME NEW t \in Active, HwComplete(t) PROVE CallInv'
  BY <1>0, <1>22 DEF CallInv, TypeOK, Locals, Written, HwComplete, caller, context, regs, isr
<1>23. CASE UNCHANGED vars
  BY <1>0, <1>23 DEF CallInv, TypeOK, Locals, Written, vars, caller, context, regs, hw, isr
<1>24. QED
  BY <1>1, <1>2, <1>3, <1>4, <1>5, <1>6, <1>7, <1>8, <1>9, <1>10, <1>11, <1>12,
     <1>13, <1>14, <1>15, <1>16, <1>17, <1>18, <1>19, <1>20, <1>21, <1>22, <1>23
     DEF Next, Call, CallStep, IsrStep, BspStep

\* The variables keep their types whoever uses the hardware and however the
\* callers behave.
THEOREM TypeCorrect == Spec => []TypeOK
<1>1. CallInv => TypeOK
  BY DEF CallInv
<1>2. QED
  BY <1>1, CallInvInit, CallInvNext, PTL DEF Spec

-----------------------------------------------------------------------------
(* What the call and the hardware say of each other, when callers are paced *)
(* or when there is one active TCS that nobody else uses.                   *)
SafeUse == Paced \/ (NumActive = 1 /\ ~Bsp)

\* The chosen TCS neither runs nor has a completion to report.
Undisturbed == Holds => FreeTcsIndex \notin running \cup irqStatus

\* From its claim on, the chosen TCS is marked busy; and the command written
\* to it stays enabled.
Recorded ==
  /\ (pc = "mark" /\ Status = "SUCCESS") \/ Claimed => FreeTcsIndex \in TcsBusy
  /\ pc \in {"disarm", "arm", "fire"} => cmdEnable[FreeTcsIndex]

\* The hardware and the interrupt routine agree.
Reporting ==
  /\ \A t \in Active : launched[t] # None => t \in running
  /\ running \cap irqStatus = {}
  /\ IrqStatus \subseteq irqStatus
  /\ ~inIsr => IrqStatus = {}
  /\ inIsr => registered

\* What the discipline of the callers gives.
Discipline ==
  /\ Paced /\ pc # "idle" => Quiet
  /\ \A t, u \in running \cup irqStatus : t = u
  /\ ~Paced => running \cup irqStatus \subseteq TcsBusy
  /\ ~Paced /\ pc = "store" => running \cup irqStatus \subseteq loaded

UseInv == CallInv /\ Undisturbed /\ Recorded /\ Reporting /\ Discipline /\ BusyCoversRunning

\* At first no TCS is in use.
LEMMA UseInvInit == Init => UseInv
<1> SUFFICES ASSUME Init PROVE UseInv
  OBVIOUS
<1>1. Undisturbed /\ Recorded /\ Discipline /\ BusyCoversRunning
  BY DEF Init, Undisturbed, Recorded, Discipline, BusyCoversRunning, Holds, Claimed, Quiet
<1>2. Reporting
  BY DEF Init, Reporting
<1>3. QED
  BY <1>1, <1>2, CallInvInit DEF UseInv

\* A step of a call that changes none of the hardware, the marks and the
\* enabled commands keeps the invariant, if it does not choose a TCS.
LEMMA LocalStep ==
  ASSUME UseInv, CallInv', UNCHANGED <<TcsBusy, registered, cmdEnable, hw, isr>>, pc # "idle",
         Holds' => Holds /\ FreeTcsIndex' = FreeTcsIndex,
         pc' = "store" => loaded' = TcsBusy,
         pc' \in {"disarm", "arm", "fire"} => pc \in {"disarm", "arm", "fire"},
         (pc' = "mark" /\ Status' = "SUCCESS") \/ Claimed' =>
            (pc = "mark" /\ Status = "SUCCESS") \/ Claimed
  PROVE  UseInv'
<1>1. Undisturbed'
  BY DEF UseInv, Undisturbed, hw
<1>2. Recorded'
  BY DEF UseInv, Recorded, Holds, Claimed
<1>3. Reporting' /\ Discipline' /\ BusyCoversRunning'
  BY DEF UseInv, Reporting, Discipline, BusyCoversRunning, Quiet, hw, isr
<1>4. QED
  BY <1>1, <1>2, <1>3 DEF UseInv

\* Every step keeps a chosen TCS undisturbed.
LEMMA UseInvNext ==
  ASSUME SafeUse, UseInv, [Next]_vars
  PROVE  UseInv'
<1> USE NumActiveAssumption, NumBitsAssumption, NoneAssumption
<1>0. CallInv /\ CallInv' /\ TypeOK /\ Locals
  BY CallInvNext DEF UseInv, CallInv
<1>1. ASSUME NEW r \in Requests, RpmhWrite(r) PROVE UseInv'
  BY <1>0, <1>1 DEF UseInv, RpmhWrite, Goto, context, regs, hw, isr, Undisturbed, Recorded,
     Reporting, Discipline, BusyCoversRunning, Quiet, Holds, Claimed
<1>2. CASE InflightHit \/ InflightMiss \/ FreeMiss \/ FreeNone \/ ClaimLoad
  BY <1>0, <1>2, LocalStep DEF InflightHit, InflightMiss, FreeMiss, FreeNone, ClaimLoad,
     Goto, Return, context, regs, Holds, Claimed
<1>3. CASE FreeHit
  <2>1. FreeTcsIndex' \notin running \cup irqStatus
    BY <1>3 DEF FreeHit, Goto, UseInv, Discipline, Quiet
  <2>2. QED
    BY <1>0, <1>3, <2>1 DEF UseInv, FreeHit, Goto, context, regs, hw, isr, Undisturbed, Recorded,
       Reporting, Discipline, BusyCoversRunning, Quiet, Holds, Claimed
<1>4. CASE ClaimStore
  <2>1. pc = "store" /\ pc' = "mark" /\ TcsBusy' = loaded \cup {FreeTcsIndex}
    BY <1>4 DEF ClaimStore, Goto, SetBits
  <2>2. running \cup irqStatus \subseteq TcsBusy'
    BY <2>1 DEF UseInv, Discipline, Quiet
  <2>3. Recorded' /\ Undisturbed'
    BY <1>4, <2>1 DEF ClaimStore, UseInv, Undisturbed, Recorded, Holds, Claimed, hw
  <2>4. Reporting' /\ Discipline' /\ BusyCoversRunning'
    BY <1>4, <2>1, <2>2 DEF ClaimStore, UseInv, Reporting, Discipline, BusyCoversRunning, Quiet,
       hw, isr
  <2>5. QED
    BY <1>0, <2>3, <2>4 DEF UseInv
<1>5. CASE ClaimMark
  BY <1>0, <1>5, LocalStep DEF ClaimMark, Return, regs, Holds, Claimed
<1>6. CASE WriteAddr \/ WriteData
  BY <1>0, <1>6, LocalStep DEF WriteAddr, WriteData, Goto, context, Holds, Claimed
<1>7. CASE WriteEnable
  <2>1. FreeTcsIndex \in Active
    BY <1>0, <1>7 DEF Locals, WriteEnable, Goto, Holds, Claimed
  <2>2. cmdEnable'[FreeTcsIndex]
    BY <1>0, <1>7, <2>1 DEF TypeOK, WriteEnable
  <2>3. QED
    BY <1>0, <1>7, <2>2 DEF WriteEnable, Goto, context, hw, isr, UseInv, Undisturbed, Recorded,
       Reporting, Discipline, BusyCoversRunning, Quiet, Holds, Claimed
<1>8. CASE DisarmTrigger \/ ArmTrigger
  <2>1. FreeTcsIndex \in Active
    BY <1>0, <1>8 DEF Locals, DisarmTrigger, ArmTrigger, Goto, Holds, Claimed
  <2>2. running' = running /\ launched' = launched
    BY <1>0, <1>8, <2>1, DisarmArmsNothing, ArmArmsNothing DEF DisarmTrigger, ArmTrigger
  <2>3. UNCHANGED <<TcsBusy, registered, cmdEnable, hw, isr, FreeTcsIndex, Status>>
    BY <1>8, <2>2 DEF DisarmTrigger, ArmTrigger, context, hw
  <2>4. pc \in {"disarm", "arm"} /\ pc' \in {"arm", "fire"}
    BY <1>8 DEF DisarmTrigger, ArmTrigger, Goto
  <2>5. QED
    BY <1>0, <2>3, <2>4, LocalStep DEF Holds, Claimed
<1>9. CASE Fire
  <2>1. pc = "fire" /\ FreeTcsIndex \in Active /\ pc' = "idle" /\ ~inIsr
    BY <1>0, <1>9 DEF Locals, Fire, Holds, Claimed, Return
  <2>2. /\ running' = running \cup {FreeTcsIndex}
        /\ launched' = [launched EXCEPT ![FreeTcsIndex] =
                           IF cmdEnable[FreeTcsIndex] THEN cmd[FreeTcsIndex] ELSE None]
        /\ UNCHANGED <<TcsBusy, irqStatus, IrqStatus, inIsr>>
    BY <1>9, <2>1, FireArms DEF Fire, context, isr
  <2>3. FreeTcsIndex \in TcsBusy /\ FreeTcsIndex \notin running \cup irqStatus
    BY <2>1 DEF UseInv, Recorded, Undisturbed, Holds, Claimed
  <2>4. running \cup irqStatus = {}
    BY <1>0, <2>1, <2>3 DEF SafeUse, UseInv, Discipline, Quiet, TypeOK
  <2>5. Undisturbed' /\ Recorded'
    BY <2>1 DEF Undisturbed, Recorded, Holds, Claimed
  <2>6. Reporting'
    BY <1>0, <2>1, <2>2, <2>4 DEF TypeOK, UseInv, Reporting
  <2>7. Discipline' /\ BusyCoversRunning'
    BY <2>1, <2>2, <2>3, <2>4 DEF Discipline, BusyCoversRunning
  <2>8. QED
    BY <1>0, <2>5, <2>6, <2>7 DEF UseInv
<1>10. CASE IsrDisown
  BY <1>0, <1>10 DEF IsrDisown, caller, regs, hw, isr, UseInv, Undisturbed, Recorded,
     Reporting, Discipline, BusyCoversRunning, Quiet, Holds, Claimed
<1>11. CASE IsrEnter
  BY <1>0, <1>11 DEF IsrEnter, caller, regs, hw, UseInv, Undisturbed, Recorded,
     Reporting, Discipline, BusyCoversRunning, Quiet, Holds, Claimed
<1>12. ASSUME NEW t \in Active, IsrTcs(t) PROVE UseInv'
  <2>1. /\ running' = running /\ launched' = launched
        /\ t \in irqStatus /\ irqStatus' = irqStatus \ {t} /\ IrqStatus' = IrqStatus \ {t}
        /\ inIsr /\ UNCHANGED <<caller, registered, inIsr>>
        /\ TcsBusy' = {t} \ TcsBusy
        /\ cmdEnable' = [cmdEnable EXCEPT ![t] = FALSE]
    BY <1>0, <1>12, DisarmArmsNothing DEF IsrTcs, UseInv, Reporting, ClrBits
  <2>2. running = {} /\ irqStatus = {t}
    BY <2>1 DEF UseInv, Discipline, Reporting
  <2>3. Holds => ~Paced /\ NumActive = 1 /\ FreeTcsIndex = 0 /\ t = 0
    BY <1>0, <2>1 DEF SafeUse, UseInv, Discipline, Quiet, Holds, Claimed, Locals
  <2>4. ~Holds
    BY <2>2, <2>3 DEF UseInv, Undisturbed
  <2>5. Undisturbed' /\ Recorded'
    BY <2>1, <2>4 DEF Undisturbed, Recorded, Holds, Claimed, caller
  <2>6. Reporting'
    BY <2>1 DEF UseInv, Reporting
  <2>7. Discipline' /\ BusyCoversRunning'
    BY <2>1, <2>2 DEF UseInv, Discipline, BusyCoversRunning, Quiet, caller
  <2>8. QED
    BY <1>0, <2>5, <2>6, <2>7 DEF UseInv
<1>13. CASE IsrExit
  BY <1>0, <1>13 DEF IsrExit, caller, context, regs, hw, UseInv, Undisturbed, Recorded,
     Reporting, Discipline, BusyCoversRunning, Quiet, Holds, Claimed
<1>14. ASSUME NEW t \in Active, BspLaunch(t) PROVE UseInv'
  <2>1. Paced /\ Quiet /\ pc = "idle"
    BY <1>14 DEF BspLaunch, SafeUse
  <2>2. QED
    BY <1>0, <1>14, <2>1 DEF BspLaunch, caller, context, isr, UseInv, Undisturbed, Recorded,
       Reporting, Discipline, BusyCoversRunning, Quiet, Holds, Claimed
<1>15. ASSUME NEW t \in Active, BspAcknowledge(t) PROVE UseInv'
  <2>1. /\ t \in irqStatus /\ irqStatus' = irqStatus \ {t}
        /\ cmdEnable' = [cmdEnable EXCEPT ![t] = FALSE]
        /\ UNCHANGED <<caller, context, running, launched, isr>>
    BY <1>15 DEF BspAcknowledge
  <2>2. ~inIsr /\ IrqStatus = {}
    BY <1>15 DEF BspAcknowledge, UseInv, Reporting
  <2>3. Holds => FreeTcsIndex # t
    BY <2>1 DEF UseInv, Undisturbed
  <2>4. Undisturbed' /\ Recorded'
    BY <1>0, <2>1, <2>3 DEF UseInv, Undisturbed, Recorded, Holds, Claimed, caller, context, TypeOK
  <2>5. Reporting' /\ Discipline' /\ BusyCoversRunning'
    BY <2>1, <2>2 DEF UseInv, Reporting, Discipline, BusyCoversRunning, Quiet, caller, context, isr
  <2>6. QED
    BY <1>0, <2>4, <2>5 DEF UseInv
<1>16. ASSUME NEW t \in Active, HwComplete(t) PROVE UseInv'
  BY <1>0, <1>16 DEF TypeOK, HwComplete, caller, context, regs, isr, UseInv, Undisturbed, Recorded,
     Reporting, Discipline, BusyCoversRunning, Quiet, Holds, Claimed
<1>17. CASE UNCHANGED vars
  BY <1>0, <1>17 DEF vars, caller, context, regs, hw, isr, UseInv, Undisturbed, Recorded,
     Reporting, Discipline, BusyCoversRunning, Quiet, Holds, Claimed
<1>18. QED
  BY <1>1, <1>2, <1>3, <1>4, <1>5, <1>6, <1>7, <1>8, <1>9, <1>10, <1>11, <1>12,
     <1>13, <1>14, <1>15, <1>16, <1>17
     DEF Next, Call, CallStep, IsrStep, BspStep

\* A TCS being programmed is idle and has nothing to report.
THEOREM ExclusiveUse ==
  ASSUME SafeUse
  PROVE  Spec => []Exclusive
<1>1. UseInv => Exclusive
  BY DEF UseInv, Undisturbed, Exclusive, Holds, Reporting
<1>2. UseInv /\ [Next]_vars => UseInv'
  BY UseInvNext
<1>3. QED
  BY <1>1, <1>2, UseInvInit, PTL DEF Spec

\* A TCS executing a command of the driver is marked busy.
THEOREM BusyWhileRunning ==
  ASSUME SafeUse
  PROVE  Spec => []BusyCoversRunning
<1>1. UseInv => BusyCoversRunning
  BY DEF UseInv
<1>2. UseInv /\ [Next]_vars => UseInv'
  BY UseInvNext
<1>3. QED
  BY <1>1, <1>2, UseInvInit, PTL DEF Spec

-----------------------------------------------------------------------------
(* The driver implements VoteChannel.                                      *)

\* At first the channel is empty.
LEMMA ChannelInit == Init => Channel!ChanInit
BY DEF Init, Channel!ChanInit

\* Every step is a step of VoteChannel, or leaves its variables alone.
LEMMA ChannelNext ==
  ASSUME UseInv, UseInv', [Next]_vars
  PROVE  [Channel!ChanNext]_(Channel!chanVars)
<1> USE DEF Channel!chanVars
<1>0. TypeOK /\ Locals /\ Reporting /\ Undisturbed /\ Recorded
  BY DEF UseInv, CallInv
<1>1. ASSUME NEW r \in Requests, RpmhWrite(r) PROVE Channel!Ask
  BY <1>0, <1>1 DEF RpmhWrite, Goto, hw, Channel!Ask, Locals
<1>2. CASE InflightHit
  <2>1. Channel!Drop
    BY <1>0, <1>2 DEF InflightHit, Return, hw, Channel!Drop, Locals
  <2>2. QED
    BY <2>1 DEF Channel!ChanNext
<1>3. CASE InflightMiss \/ FreeHit \/ FreeMiss \/ FreeNone \/ ClaimLoad \/ ClaimStore
           \/ WriteAddr \/ WriteData \/ WriteEnable
  BY <1>3 DEF InflightMiss, FreeHit, FreeMiss, FreeNone, ClaimLoad, ClaimStore, WriteAddr,
     WriteData, WriteEnable, Goto, hw
<1>4. CASE ClaimMark
  <2>1. CASE Status = "SUCCESS"
    BY <1>4, <2>1 DEF ClaimMark, hw
  <2>2. CASE Status # "SUCCESS"
    <3>1. Channel!Drop
      BY <1>0, <1>4, <2>2 DEF ClaimMark, Return, hw, Channel!Drop, Locals
    <3>2. QED
      BY <3>1 DEF Channel!ChanNext
  <2>3. QED
    BY <2>1, <2>2
<1>5. CASE DisarmTrigger \/ ArmTrigger
  <2>1. FreeTcsIndex \in Active
    BY <1>0, <1>5 DEF Locals, DisarmTrigger, ArmTrigger, Goto, Holds, Claimed
  <2>2. launched' = launched
    BY <1>0, <1>5, <2>1, DisarmArmsNothing, ArmArmsNothing DEF DisarmTrigger, ArmTrigger
  <2>3. QED
    BY <1>5, <2>2 DEF DisarmTrigger, ArmTrigger, Goto
<1>6. CASE Fire
  <2>1. pc = "fire" /\ FreeTcsIndex \in Active /\ cmd[FreeTcsIndex] = req /\ req \in Requests
    BY <1>6, WrittenIsRequest DEF Fire, UseInv
  <2>2. cmdEnable[FreeTcsIndex] /\ launched[FreeTcsIndex] = None
    BY <1>0, <2>1 DEF Recorded, Undisturbed, Holds, Claimed, Reporting
  <2>3. launched' = [launched EXCEPT ![FreeTcsIndex] = req]
    BY <1>6, <2>1, <2>2, FireArms DEF Fire
  <2>4. Channel!Launch
    BY <1>0, <1>6, <2>1, <2>2, <2>3 DEF Fire, Return, Channel!Launch, Locals
  <2>5. QED
    BY <2>4 DEF Channel!ChanNext
<1>7. ASSUME NEW t \in Active, IsrTcs(t) PROVE UNCHANGED Channel!chanVars
  BY <1>0, <1>7, DisarmArmsNothing DEF IsrTcs, caller
<1>8. CASE IsrDisown \/ IsrEnter \/ IsrExit
  BY <1>8 DEF IsrDisown, IsrEnter, IsrExit, caller, hw
<1>9. ASSUME NEW t \in Active, BspLaunch(t) \/ BspAcknowledge(t)
      PROVE  UNCHANGED Channel!chanVars
  BY <1>9 DEF BspLaunch, BspAcknowledge, caller
<1>10. ASSUME NEW t \in Active, HwComplete(t) PROVE [Channel!ChanNext]_(Channel!chanVars)
  <2>1. CASE launched[t] = None
    BY <1>0, <1>10, <2>1 DEF HwComplete, caller, TypeOK
  <2>2. CASE launched[t] # None
    <3>1. Channel!Finish
      BY <1>0, <1>10, <2>2 DEF HwComplete, caller, TypeOK, Channel!Finish
    <3>2. QED
      BY <3>1 DEF Channel!ChanNext
  <2>3. QED
    BY <2>1, <2>2
<1>11. CASE UNCHANGED vars
  BY <1>11 DEF vars, caller, hw
<1>12. QED
  BY <1>1, <1>2, <1>3, <1>4, <1>5, <1>6, <1>7, <1>8, <1>9, <1>10, <1>11
     DEF Next, Call, CallStep, IsrStep, BspStep, Channel!ChanNext

\* Used safely, the driver gives every client call that succeeds exactly one
\* execution of its command, unchanged, in a TCS that executed nothing, and
\* a call that fails none.
THEOREM ImplementsChannel ==
  ASSUME SafeUse
  PROVE  Spec => RefinesChannel
<1>1. UseInv /\ [Next]_vars => UseInv'
  BY UseInvNext
<1>2. UseInv /\ UseInv' /\ [Next]_vars => [Channel!ChanNext]_(Channel!chanVars)
  BY ChannelNext
<1>3. QED
  BY <1>1, <1>2, UseInvInit, ChannelInit, PTL DEF Spec, RefinesChannel, Channel!ChanSpec

-----------------------------------------------------------------------------
(* When the routine finds its flag down, the interrupt is not the driver's: *)
(* of the completions that are not over, those of TCSs marked busy keep the *)
(* flag up.                                                                 *)

\* What the hardware executes or reports.
Unfinished == running \cup irqStatus

\* A driver that is to claim a TCS, or has, while its routine is idle, has
\* raised the flag for what is not over.
FlagUp ==
  /\ Claimed => IrqFromRpmhCr
  /\ registered /\ ~inIsr /\ Unfinished \cap TcsBusy # {} => IrqFromRpmhCr

\* The routine visits all that is reported, and nothing else goes on.
Handling ==
  /\ IrqStatus \subseteq irqStatus /\ (inIsr => irqStatus \subseteq IrqStatus)
  /\ inIsr => running = {}

\* The call of a paced driver begins with no TCS marked, and its search ends
\* at the first one.
FirstChoice ==
  Paced /\ registered =>
    /\ pc \in {"inflight", "free", "load", "store"} => TcsBusy = {}
    /\ pc = "free" => tcs < NumActive
    /\ pc = "store" => loaded = {}
    /\ pc \in {"load", "store", "mark"} => Status = "SUCCESS"

\* Between the calls of a paced driver the marks and the flag are those of the
\* command that is not over.
BetweenCalls ==
  Paced /\ registered /\ pc = "idle" =>
    /\ Quiet => TcsBusy = {}
    /\ ~inIsr /\ IrqFromRpmhCr => Unfinished # {} /\ Unfinished \subseteq TcsBusy
    /\ inIsr => irqStatus \subseteq TcsBusy /\ (irqStatus = {} => TcsBusy = {}) /\ ~IrqFromRpmhCr

FlagInv == UseInv /\ FlagUp /\ Handling /\ FirstChoice /\ BetweenCalls

\* At first the flag is down and nothing goes on.
LEMMA FlagInvInit == Init => FlagInv
<1> SUFFICES ASSUME Init PROVE FlagInv
  OBVIOUS
<1>1. FlagUp /\ Handling /\ FirstChoice /\ BetweenCalls
  BY DEF Init, FlagUp, Handling, FirstChoice, BetweenCalls, Unfinished, Claimed, Quiet
<1>2. QED
  BY <1>1, UseInvInit DEF FlagInv

\* A step of a call that has begun and neither returns nor reaches the marks,
\* the flag or the hardware keeps the invariant.
LEMMA FlagLocalStep ==
  ASSUME FlagInv, UseInv', UNCHANGED <<context, hw, isr>>, pc # "idle", pc' # "idle",
         Claimed' => Claimed, FirstChoice'
  PROVE  FlagInv'
<1>1. FlagUp'
  BY DEF FlagInv, FlagUp, Unfinished, context, hw, isr
<1>2. Handling'
  BY DEF FlagInv, Handling, hw, isr
<1>3. BetweenCalls'
  BY DEF BetweenCalls
<1>4. QED
  BY <1>1, <1>2, <1>3 DEF FlagInv

\* Every step keeps the flag up for what is not over, if the routine visits
\* every TCS.
LEMMA FlagInvNext ==
  ASSUME SafeUse, NumActive <= NumCmdsPerTcs, FlagInv, [Next]_vars
  PROVE  FlagInv'
<1> USE NumActiveAssumption, NumBitsAssumption, NumCmdsAssumption, NoneAssumption
<1>0. UseInv /\ UseInv' /\ TypeOK /\ Locals
  BY UseInvNext DEF FlagInv, UseInv, CallInv
<1>1. ASSUME NEW r \in Requests, RpmhWrite(r) PROVE FlagInv'
  <2>1. pc = "idle" /\ pc' = "inflight" /\ ~inIsr /\ UNCHANGED <<context, hw, isr>>
    BY <1>1 DEF RpmhWrite, Goto
  <2>2. Paced => Quiet
    BY <1>1 DEF RpmhWrite
  <2>3. FirstChoice'
    BY <2>1, <2>2 DEF FlagInv, BetweenCalls, FirstChoice, context
  <2>4. FlagUp' /\ Handling' /\ BetweenCalls'
    BY <2>1 DEF FlagInv, FlagUp, Handling, BetweenCalls, Claimed, Unfinished, context, hw, isr
  <2>5. QED
    BY <1>0, <2>3, <2>4 DEF FlagInv
<1>2. CASE InflightHit
  <2>1. /\ pc = "inflight" /\ pc' = "idle" /\ ~inIsr /\ tcs \in TcsBusy
        /\ UNCHANGED <<context, hw, isr>>
    BY <1>2 DEF InflightHit, Conflicts, Return
  <2>2. ~(Paced /\ registered)
    BY <2>1 DEF FlagInv, FirstChoice
  <2>3. FlagUp' /\ Handling' /\ FirstChoice' /\ BetweenCalls'
    BY <2>1, <2>2 DEF FlagInv, FlagUp, Handling, FirstChoice, BetweenCalls, Claimed, Unfinished,
       context, hw, isr
  <2>4. QED
    BY <1>0, <2>3 DEF FlagInv
<1>3. CASE InflightMiss
  <2>1. /\ pc = "inflight" /\ UNCHANGED <<Status, loaded, context, hw, isr>>
        /\ (pc' = "free" /\ tcs' = 0) \/ pc' = "inflight"
    BY <1>3 DEF InflightMiss
  <2>2. FirstChoice'
    BY <2>1 DEF FlagInv, FirstChoice, context
  <2>3. QED
    BY <1>0, <2>1, <2>2, FlagLocalStep DEF Claimed
<1>4. CASE FreeHit
  <2>1. /\ pc = "free" /\ pc' = "load" /\ UNCHANGED <<Status, loaded, context, hw, isr>>
        /\ Status = "SUCCESS"
    BY <1>0, <1>4 DEF FreeHit, Goto, Locals
  <2>2. FirstChoice'
    BY <2>1 DEF FlagInv, FirstChoice, context
  <2>3. QED
    BY <1>0, <2>1, <2>2, FlagLocalStep DEF Claimed
<1>5. CASE FreeMiss \/ FreeNone
  <2>1. /\ pc = "free" /\ pc' \in {"free", "load"} /\ UNCHANGED <<context, hw, isr>>
        /\ tcs \in TcsBusy \/ tcs = NumActive
    BY <1>5 DEF FreeMiss, FreeNone, Goto
  <2>2. ~(Paced /\ registered)
    BY <1>0, <2>1 DEF FlagInv, FirstChoice, TypeOK
  <2>3. FirstChoice'
    BY <2>1, <2>2 DEF FirstChoice, context
  <2>4. QED
    BY <1>0, <2>1, <2>3, FlagLocalStep DEF Claimed
<1>6. CASE ClaimLoad
  <2>1. /\ pc = "load" /\ pc' = "store" /\ loaded' = TcsBusy
        /\ UNCHANGED <<Status, context, hw, isr>>
    BY <1>6 DEF ClaimLoad, Goto
  <2>2. FirstChoice'
    BY <2>1 DEF FlagInv, FirstChoice, context
  <2>3. QED
    BY <1>0, <2>1, <2>2, FlagLocalStep DEF Claimed
<1>7. CASE ClaimStore
  <2>1. /\ pc = "store" /\ pc' = "mark" /\ ~inIsr
        /\ UNCHANGED <<Status, IrqFromRpmhCr, registered, hw, isr>>
    BY <1>7 DEF ClaimStore, Goto
  <2>2. Unfinished \subseteq TcsBusy
    BY <2>1 DEF FlagInv, UseInv, Discipline, Quiet, Unfinished
  <2>3. Unfinished' = Unfinished
    BY <2>1 DEF Unfinished, hw
  <2>4. FlagUp'
    BY <2>1, <2>2, <2>3 DEF FlagInv, FlagUp, Claimed, isr
  <2>5. Handling' /\ FirstChoice' /\ BetweenCalls'
    BY <2>1 DEF FlagInv, Handling, FirstChoice, BetweenCalls, hw, isr
  <2>6. QED
    BY <1>0, <2>4, <2>5 DEF FlagInv
<1>8. CASE ClaimMark
  <2>1. /\ pc = "mark" /\ IrqFromRpmhCr' /\ UNCHANGED <<TcsBusy, registered, hw, isr>>
        /\ Status = "SUCCESS" => pc' = "addr"
        /\ pc' \in {"addr", "idle"}
    BY <1>8 DEF ClaimMark, Return
  <2>2. FlagUp' /\ Handling'
    BY <2>1 DEF FlagInv, FlagUp, Handling, hw, isr
  <2>3. FirstChoice' /\ BetweenCalls'
    BY <2>1 DEF FlagInv, FirstChoice, BetweenCalls
  <2>4. QED
    BY <1>0, <2>2, <2>3 DEF FlagInv
<1>9. CASE WriteAddr \/ WriteData \/ WriteEnable
  <2>1. /\ Claimed /\ Claimed' /\ UNCHANGED <<context, hw, isr>>
        /\ pc' \in {"data", "enable", "disarm"}
    BY <1>9 DEF WriteAddr, WriteData, WriteEnable, Goto, Claimed
  <2>2. QED
    BY <1>0, <2>1, FlagLocalStep DEF Claimed, FirstChoice
<1>10. CASE DisarmTrigger \/ ArmTrigger
  <2>1. FreeTcsIndex \in Active /\ Claimed /\ pc' \in {"arm", "fire"}
    BY <1>0, <1>10 DEF Locals, DisarmTrigger, ArmTrigger, Goto, Holds, Claimed
  <2>2. running' = running /\ launched' = launched
    BY <1>0, <1>10, <2>1, DisarmArmsNothing, ArmArmsNothing DEF DisarmTrigger, ArmTrigger
  <2>3. UNCHANGED <<context, hw, isr>>
    BY <1>10, <2>2 DEF DisarmTrigger, ArmTrigger, hw
  <2>4. QED
    BY <1>0, <2>1, <2>3, FlagLocalStep DEF Claimed, FirstChoice
<1>11. CASE Fire
  <2>1. pc = "fire" /\ Claimed /\ FreeTcsIndex \in Active /\ pc' = "idle" /\ ~inIsr
    BY <1>0, <1>11 DEF Locals, Fire, Holds, Claimed, Return
  <2>2. running' = running \cup {FreeTcsIndex} /\ UNCHANGED <<context, irqStatus, isr>>
    BY <1>11, <2>1, FireArms DEF Fire
  <2>3. FreeTcsIndex \in TcsBusy /\ FreeTcsIndex \notin running \cup irqStatus /\ IrqFromRpmhCr
    BY <1>0, <2>1 DEF FlagInv, FlagUp, UseInv, Recorded, Undisturbed, Holds
  <2>4. running \cup irqStatus = {}
    BY <1>0, <2>1, <2>3 DEF SafeUse, UseInv, Discipline, Quiet, TypeOK
  <2>5. Unfinished' = {FreeTcsIndex}
    BY <2>2, <2>4 DEF Unfinished
  <2>6. FlagUp' /\ Handling' /\ FirstChoice'
    BY <2>1, <2>2, <2>3 DEF FlagInv, FlagUp, Handling, FirstChoice, context, isr
  <2>7. BetweenCalls'
    BY <2>1, <2>2, <2>3, <2>5 DEF BetweenCalls, Quiet, context, isr
  <2>8. QED
    BY <1>0, <2>6, <2>7 DEF FlagInv
<1>12. CASE IsrDisown
  <2>1. ~registered' /\ UNCHANGED <<caller, IrqFromRpmhCr, hw, isr>>
    BY <1>12 DEF IsrDisown
  <2>2. FlagUp' /\ Handling' /\ FirstChoice' /\ BetweenCalls'
    BY <2>1 DEF FlagInv, FlagUp, Handling, FirstChoice, BetweenCalls, Claimed, caller, hw, isr
  <2>3. QED
    BY <1>0, <2>2 DEF FlagInv
<1>13. CASE IsrEnter
  <2>1. /\ registered /\ irqStatus # {} /\ ~inIsr /\ IrqFromRpmhCr /\ ~IrqFromRpmhCr' /\ inIsr'
        /\ IrqStatus' = {t \in irqStatus : t < NumCmdsPerTcs}
        /\ UNCHANGED <<caller, TcsBusy, registered, hw>>
    BY <1>13 DEF IsrEnter
  <2>2. IrqStatus' = irqStatus /\ running = {}
    <3>1. ASSUME NEW t \in irqStatus PROVE t < NumCmdsPerTcs
      BY <1>0 DEF TypeOK
    <3>2. IrqStatus' = irqStatus
      BY <2>1, <3>1
    <3>3. running = {}
      BY <1>0, <2>1 DEF UseInv, Discipline, Reporting
    <3>4. QED
      BY <3>2, <3>3
  <2>3. ~Claimed
    <3>1. Claimed => ~Paced
      BY <1>0, <2>1 DEF UseInv, Discipline, Quiet, Claimed
    <3>2. ASSUME ~Paced, NEW t \in irqStatus PROVE t = 0
      BY <1>0, <3>2 DEF SafeUse, TypeOK
    <3>3. ~Paced /\ Claimed => FreeTcsIndex = 0
      BY <1>0 DEF SafeUse, Locals, Holds
    <3>4. Claimed => FreeTcsIndex \notin irqStatus
      BY <1>0 DEF UseInv, Undisturbed, Holds
    <3>5. QED
      BY <2>1, <3>1, <3>2, <3>3, <3>4
  <2>4. FlagUp' /\ Handling' /\ FirstChoice'
    BY <2>1, <2>2, <2>3 DEF FlagInv, FlagUp, Handling, FirstChoice, Claimed, caller, hw
  <2>5. BetweenCalls'
    BY <2>1, <2>2 DEF FlagInv, BetweenCalls, Unfinished, Quiet, caller, hw
  <2>6. QED
    BY <1>0, <2>4, <2>5 DEF FlagInv
<1>14. ASSUME NEW t \in Active, IsrTcs(t) PROVE FlagInv'
  <2>1. /\ running' = running /\ launched' = launched
        /\ t \in IrqStatus /\ irqStatus' = irqStatus \ {t} /\ IrqStatus' = IrqStatus \ {t}
        /\ inIsr /\ UNCHANGED <<caller, IrqFromRpmhCr, registered, inIsr>>
        /\ TcsBusy' = {t} \ TcsBusy
    BY <1>0, <1>14, DisarmArmsNothing DEF IsrTcs, ClrBits
  <2>2. running = {} /\ irqStatus = {t} /\ IrqStatus = {t} /\ registered
    <3>1. t \in irqStatus /\ irqStatus = IrqStatus /\ running = {} /\ registered
      BY <1>0, <2>1 DEF FlagInv, Handling, UseInv, Reporting
    <3>2. \A u \in irqStatus : u = t
      BY <1>0, <3>1 DEF UseInv, Discipline
    <3>3. QED
      BY <3>1, <3>2
  <2>3. Paced => pc = "idle"
    BY <1>0, <2>1 DEF UseInv, Discipline, Quiet
  <2>4. FlagUp' /\ Handling' /\ FirstChoice'
    BY <2>1, <2>2, <2>3 DEF FlagInv, FlagUp, Handling, FirstChoice, Claimed, caller
  <2>5. BetweenCalls'
    BY <2>1, <2>2, <2>3 DEF FlagInv, BetweenCalls, Quiet, caller
  <2>6. QED
    BY <1>0, <2>4, <2>5 DEF FlagInv
<1>15. CASE IsrExit
  <2>1. inIsr /\ ~inIsr' /\ IrqStatus = {} /\ UNCHANGED <<caller, context, hw, IrqStatus>>
    BY <1>15 DEF IsrExit
  <2>2. running = {} /\ irqStatus = {} /\ registered
    BY <2>1 DEF FlagInv, Handling, UseInv, Reporting
  <2>3. Paced => pc = "idle"
    BY <1>0, <2>1 DEF UseInv, Discipline, Quiet
  <2>4. FlagUp' /\ Handling' /\ FirstChoice'
    BY <2>1, <2>2, <2>3 DEF FlagInv, FlagUp, Handling, FirstChoice, Claimed, Unfinished, caller,
       context, hw
  <2>5. BetweenCalls'
    BY <2>1, <2>2, <2>3 DEF FlagInv, BetweenCalls, Quiet, caller, context, hw
  <2>6. QED
    BY <1>0, <2>4, <2>5 DEF FlagInv
<1>16. ASSUME NEW t \in Active, BspLaunch(t) PROVE FlagInv'
  <2>1. /\ Quiet /\ pc = "idle" /\ Paced /\ running' = running \cup {t}
        /\ UNCHANGED <<caller, context, irqStatus, isr>>
    BY <1>16 DEF BspLaunch, SafeUse
  <2>2. registered => TcsBusy = {} /\ ~IrqFromRpmhCr
    BY <2>1 DEF FlagInv, BetweenCalls, Quiet, Unfinished
  <2>3. FlagUp' /\ Handling' /\ FirstChoice' /\ BetweenCalls'
    BY <2>1, <2>2 DEF FlagInv, FlagUp, Handling, FirstChoice, BetweenCalls, Claimed, Quiet,
       caller, context, isr
  <2>4. QED
    BY <1>0, <2>3 DEF FlagInv
<1>17. ASSUME NEW t \in Active, BspAcknowledge(t) PROVE FlagInv'
  <2>1. /\ ~registered /\ t \in irqStatus /\ irqStatus' = irqStatus \ {t}
        /\ UNCHANGED <<caller, context, running, isr>>
    BY <1>17 DEF BspAcknowledge
  <2>2. ~inIsr /\ IrqStatus = {}
    BY <2>1 DEF FlagInv, UseInv, Reporting
  <2>3. FlagUp' /\ Handling' /\ FirstChoice' /\ BetweenCalls'
    BY <2>1, <2>2 DEF FlagInv, FlagUp, Handling, FirstChoice, BetweenCalls, Claimed,
       caller, context, isr
  <2>4. QED
    BY <1>0, <2>3 DEF FlagInv
<1>18. ASSUME NEW t \in Active, HwComplete(t) PROVE FlagInv'
  <2>1. /\ t \in running /\ running' = running \ {t} /\ irqStatus' = irqStatus \cup {t}
        /\ UNCHANGED <<caller, context, isr>>
    BY <1>18 DEF HwComplete
  <2>2. Unfinished' = Unfinished /\ ~inIsr /\ ~Quiet' /\ ~inIsr'
    BY <2>1 DEF Unfinished, FlagInv, Handling, Quiet, isr
  <2>3. FlagUp' /\ Handling' /\ FirstChoice'
    BY <2>1, <2>2 DEF FlagInv, FlagUp, Handling, FirstChoice, Claimed, caller, context, isr
  <2>4. BetweenCalls'
    BY <2>1, <2>2 DEF FlagInv, BetweenCalls, caller, context
  <2>5. QED
    BY <1>0, <2>3, <2>4 DEF FlagInv
<1>19. CASE UNCHANGED vars
  BY <1>0, <1>19 DEF vars, caller, context, hw, isr, FlagInv, FlagUp, Handling, FirstChoice,
     BetweenCalls, Claimed, Quiet, Unfinished
<1>20. QED
  BY <1>1, <1>2, <1>3, <1>4, <1>5, <1>6, <1>7, <1>8, <1>9, <1>10, <1>11, <1>12, <1>13,
     <1>14, <1>15, <1>16, <1>17, <1>18, <1>19
     DEF Next, Call, CallStep, IsrStep, BspStep

\* Only IsrDisown gives the interrupt up, and it finds the flag down.
LEMMA DisownsForeignStep ==
  ASSUME FlagInv, [Next]_vars, registered, ~registered'
  PROVE  irqStatus \cap TcsBusy = {}
<1>1. IsrDisown
  BY DEF Next, Call, CallStep, IsrStep, BspStep, RpmhWrite, InflightHit, InflightMiss, FreeHit,
     FreeMiss, FreeNone, ClaimLoad, ClaimStore, ClaimMark, WriteAddr, WriteData, WriteEnable,
     DisarmTrigger, ArmTrigger, Fire, IsrEnter, IsrTcs, IsrExit, BspLaunch, BspAcknowledge,
     HwComplete, vars, context
<1>2. ~inIsr /\ ~IrqFromRpmhCr
  BY <1>1 DEF IsrDisown
<1>3. QED
  BY <1>2 DEF FlagInv, FlagUp, Unfinished

\* Used safely, with no more TCSs than the routine's loop visits, the driver
\* leaves the interrupt to the firmware's driver only when no command of its
\* own is among the completions.
THEOREM DisownsForeign ==
  ASSUME SafeUse, NumActive <= NumCmdsPerTcs
  PROVE  Spec => DisownsOnlyForeign
<1>1. FlagInv /\ [Next]_vars => FlagInv'
  BY FlagInvNext
<1>2. FlagInv /\ [Next]_vars => [registered /\ ~registered' => irqStatus \cap TcsBusy = {}]_vars
  BY DisownsForeignStep
<1>3. QED
  BY <1>1, <1>2, FlagInvInit, PTL DEF Spec, DisownsOnlyForeign
=============================================================================
