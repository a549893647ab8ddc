------------------------------- MODULE Rpmh --------------------------------
(***************************************************************************)
(* The RPMh driver: RpmhWrite (called through RpmhEnableVreg,              *)
(* RpmhSetVregVoltage and RpmhSetVregMode) claims one of the trigger       *)
(* command sets (TCS) of the resource state coordinator, fills its         *)
(* registers and triggers it without waiting; the transmission-done        *)
(* interrupt later releases the TCS.                                       *)
(*                                                                         *)
(* One processor: the interrupt routine may preempt the caller between any *)
(* two accesses to shared state, and then runs to its end while the        *)
(* hardware goes on.  A bitmap (TcsBusy, the control register, the         *)
(* interrupt status) is a set of bits, and the bit macros of common.h are  *)
(* set operations taking their arguments in the same order.                *)
(*                                                                         *)
(* A definition marked (slip) is a wrong variant of the one after it, used *)
(* to see that the properties notice.                                      *)
(***************************************************************************)
EXTENDS Naturals, FiniteSets

CONSTANTS
  NumActive,      \* tcs_config.active_tcs.tcs_count
  NumBits,        \* bits of TcsBusy looked at: the active ones and strays
  NumCmdsPerTcs,  \* the field of the configuration register of that name
  Vregs,          \* regulators
  Voltages,       \* voltages callers ask for
  Modes,          \* modes callers ask for
  Paced,          \* callers wait until the previous command is over
  Bsp,            \* the firmware's own RPMh driver uses the hardware too
  None            \* no command

Active == 0 .. (NumActive - 1)
Bits == 0 .. (NumBits - 1)

ASSUME NumActiveAssumption == NumActive \in Nat \ {0}
ASSUME NumBitsAssumption == NumBits \in Nat /\ NumActive <= NumBits
ASSUME NumCmdsAssumption == NumCmdsPerTcs \in Nat
ASSUME FlagsAssumption == Paced \in BOOLEAN /\ Bsp \in BOOLEAN

\* The registers of a regulator, one address each.
Addrs == Vregs \X {"voltage", "enable", "mode"}
Values == {0, 1} \cup Voltages \cup Modes

\* RpmhEnableVreg, RpmhSetVregVoltage and RpmhSetVregMode with valid
\* parameters (with others they return before touching anything).
EnableVreg == [addr : Vregs \X {"enable"}, data : {0, 1}]
SetVregVoltage == [addr : Vregs \X {"voltage"}, data : Voltages]
SetVregMode == [addr : Vregs \X {"mode"}, data : Modes]
Requests == EnableVreg \cup SetVregVoltage \cup SetVregMode

ASSUME NoneAssumption == None \notin Requests /\ None \notin Addrs /\ None \notin Values

\* Two registers of one regulator count as the same resource.
CmdDBIsAddrEqual(a, b) == a[1] = b[1]

SetBits(val, mask) == val \cup mask
ClrBits(val, mask) == val \ mask

TRIGGER == "TCS_AMC_MODE_TRIGGER"
ENABLE == "TCS_AMC_MODE_ENABLE"

VARIABLES
  \* The caller: its place in RpmhWrite and its locals.
  pc, req, tcs, FreeTcsIndex, Status, loaded,
  \* RpmhDeviceContext, and whether RpmhDrvTcsTxDoneIsr is registered.
  TcsBusy, IrqFromRpmhCr, registered,
  \* The registers of each TCS.
  ctrl, cmdEnable, cmd,
  \* The hardware: what it runs, and the interrupt status register.
  running, launched, irqStatus,
  \* The interrupt routine: whether it is active, and the bits of its
  \* snapshot of the status that its loop has still to visit.
  inIsr, IrqStatus

caller == <<pc, req, tcs, FreeTcsIndex, Status, loaded>>
context == <<TcsBusy, IrqFromRpmhCr, registered>>
regs == <<ctrl, cmdEnable, cmd>>
hw == <<running, launched, irqStatus>>
isr == <<inIsr, IrqStatus>>
vars == <<caller, context, regs, hw, isr>>

Stages == {"idle", "inflight", "free", "load", "store", "mark",
           "addr", "data", "enable", "disarm", "arm", "fire"}

TypeOK ==
  /\ pc \in Stages
  /\ req \in Requests \cup {None}
  /\ tcs \in 0 .. NumActive
  /\ FreeTcsIndex \in Bits
  /\ Status \in {"SUCCESS", "BUSY", "NOT_FOUND"}
  /\ loaded \in SUBSET Bits
  /\ TcsBusy \in SUBSET Bits
  /\ IrqFromRpmhCr \in BOOLEAN
  /\ registered \in BOOLEAN
  /\ ctrl \in [Active -> SUBSET {TRIGGER, ENABLE}]
  /\ cmdEnable \in [Active -> BOOLEAN]
  /\ cmd \in [Active -> [addr : Addrs \cup {None}, data : Values \cup {None}]]
  /\ running \in SUBSET Active
  /\ launched \in [Active -> Requests \cup {None}]
  /\ irqStatus \in SUBSET Active
  /\ inIsr \in BOOLEAN
  /\ IrqStatus \in SUBSET Active

-----------------------------------------------------------------------------
(* The hardware, as the driver uses it.                                    *)

\* A TCS starts when a write leaves ENABLE and TRIGGER both set and the
\* value before did not have both.
Arms(old, new) == {TRIGGER, ENABLE} \subseteq new /\ ~({TRIGGER, ENABLE} \subseteq old)

\* The writes w[1], w[2] to the control register of TCS t.
WriteControl(t, w) ==
  /\ ctrl' = [ctrl EXCEPT ![t] = w[2]]
  /\ IF Arms(ctrl[t], w[1]) \/ Arms(w[1], w[2])
       THEN /\ running' = running \cup {t}
            /\ launched' = [launched EXCEPT ![t] = IF cmdEnable[t] THEN cmd[t] ELSE None]
       ELSE UNCHANGED <<running, launched>>

\* A TCS has transmitted its command and got the response it asked for.
HwComplete(t) ==
  /\ t \in running
  /\ running' = running \ {t}
  /\ launched' = [launched EXCEPT ![t] = None]
  /\ irqStatus' = irqStatus \cup {t}
  /\ UNCHANGED <<caller, context, regs, isr>>

\* Nothing runs, is being reported or is being handled.
Quiet == running = {} /\ irqStatus = {} /\ ~inIsr

\* The firmware's RPMh driver uses a TCS, not during one of our calls.
BspLaunch(t) ==
  /\ Bsp /\ Quiet /\ pc = "idle"
  /\ running' = running \cup {t}
  /\ ctrl' = [ctrl EXCEPT ![t] = {TRIGGER, ENABLE}]
  /\ UNCHANGED <<caller, context, cmdEnable, cmd, launched, irqStatus, isr>>

\* Once our routine is unregistered, the firmware's handles the interrupt.
BspAcknowledge(t) ==
  /\ ~registered /\ t \in irqStatus
  /\ irqStatus' = irqStatus \ {t}
  /\ ctrl' = [ctrl EXCEPT ![t] = {ENABLE}]
  /\ cmdEnable' = [cmdEnable EXCEPT ![t] = FALSE]
  /\ UNCHANGED <<caller, context, cmd, running, launched, isr>>

-----------------------------------------------------------------------------
(* The caller.                                                             *)

Goto(from, to) == pc = from /\ ~inIsr /\ pc' = to

\* The call returns a status, and its locals are gone.
Return(status) ==
  /\ pc' = "idle"
  /\ Status' = status
  /\ req' = None
  /\ tcs' = 0
  /\ FreeTcsIndex' = 0
  /\ loaded' = {}

\* A protocol user calls; a paced one waits for the previous command.
RpmhWrite(r) ==
  /\ Goto("idle", "inflight")
  /\ Paced => Quiet
  /\ req' = r
  /\ Status' = "SUCCESS"
  /\ UNCHANGED <<tcs, FreeTcsIndex, loaded, context, regs, hw, isr>>

\* RpmhIsCmdInflight: this TCS is executing a command for the same resource.
Conflicts(t) ==
  /\ t \in TcsBusy
  /\ cmdEnable[t]
  /\ CmdDBIsAddrEqual(req.addr, cmd[t].addr)

InflightHit ==
  /\ pc = "inflight" /\ ~inIsr
  /\ tcs < NumActive /\ Conflicts(tcs)
  /\ Return("BUSY")
  /\ UNCHANGED <<context, regs, hw, isr>>

InflightMiss ==
  /\ pc = "inflight" /\ ~inIsr
  /\ tcs < NumActive /\ ~Conflicts(tcs)
  /\ IF tcs + 1 = NumActive THEN pc' = "free" /\ tcs' = 0
                            ELSE pc' = pc /\ tcs' = tcs + 1
  /\ UNCHANGED <<req, FreeTcsIndex, Status, loaded, context, regs, hw, isr>>

\* GetNextFreeTcs.
FreeHit ==
  /\ Goto("free", "load")
  /\ tcs < NumActive /\ tcs \notin TcsBusy
  /\ FreeTcsIndex' = tcs
  /\ UNCHANGED <<req, tcs, Status, loaded, context, regs, hw, isr>>

\* (slip) The loop goes one past the last active TCS.
FreeMissOnePast ==
  /\ Goto("free", "free")
  /\ tcs <= NumActive /\ tcs \in TcsBusy
  /\ tcs' = tcs + 1
  /\ UNCHANGED <<req, FreeTcsIndex, Status, loaded, context, regs, hw, isr>>

FreeMiss ==
  /\ Goto("free", "free")
  /\ tcs < NumActive /\ tcs \in TcsBusy
  /\ tcs' = tcs + 1
  /\ UNCHANGED <<req, FreeTcsIndex, Status, loaded, context, regs, hw, isr>>

\* No TCS is free: FreeTcsIndex keeps whatever the stack held, and the test
\* `FreeTcsIndex < 0` of a pointer does not stop ClaimFreeTcs.
FreeNone ==
  /\ Goto("free", "load")
  /\ tcs = NumActive
  /\ Status' = "NOT_FOUND"
  /\ FreeTcsIndex' \in Bits
  /\ UNCHANGED <<req, tcs, loaded, context, regs, hw, isr>>

\* TcsBusy |= BIT(FreeTcsIndex) is a load and a store.
ClaimLoad ==
  /\ Goto("load", "store")
  /\ loaded' = TcsBusy
  /\ UNCHANGED <<req, tcs, FreeTcsIndex, Status, context, regs, hw, isr>>

\* (slip) The claim is not recorded.
ClaimStoreForgotten ==
  /\ Goto("store", "mark")
  /\ UNCHANGED <<req, tcs, FreeTcsIndex, Status, loaded, context, regs, hw, isr>>

ClaimStore ==
  /\ Goto("store", "mark")
  /\ TcsBusy' = SetBits(loaded, {FreeTcsIndex})
  /\ UNCHANGED <<req, tcs, FreeTcsIndex, Status, loaded, IrqFromRpmhCr, registered, regs, hw, isr>>

\* (slip) The interrupt to come is not marked as the driver's own.
ClaimMarkForgotten ==
  /\ pc = "mark" /\ ~inIsr
  /\ IF Status = "SUCCESS" THEN pc' = "addr" /\ UNCHANGED <<req, tcs, FreeTcsIndex, Status, loaded>>
                           ELSE Return(Status)
  /\ UNCHANGED <<context, regs, hw, isr>>

\* IrqFromRpmhCr = TRUE, then RpmhWrite looks at the status of the claim.
ClaimMark ==
  /\ pc = "mark" /\ ~inIsr
  /\ IrqFromRpmhCr' = TRUE
  /\ IF Status = "SUCCESS" THEN pc' = "addr" /\ UNCHANGED <<req, tcs, FreeTcsIndex, Status, loaded>>
                           ELSE Return(Status)
  /\ UNCHANGED <<TcsBusy, registered, regs, hw, isr>>

\* TcsWriteBuffer, for command slot 0 (the message id goes with the address).
WriteAddr ==
  /\ Goto("addr", "data")
  /\ cmd' = [cmd EXCEPT ![FreeTcsIndex].addr = req.addr]
  /\ UNCHANGED <<req, tcs, FreeTcsIndex, Status, loaded, context, ctrl, cmdEnable, hw, isr>>

WriteData ==
  /\ Goto("data", "enable")
  /\ cmd' = [cmd EXCEPT ![FreeTcsIndex].data = req.data]
  /\ UNCHANGED <<req, tcs, FreeTcsIndex, Status, loaded, context, ctrl, cmdEnable, hw, isr>>

\* (slip) The command written is not enabled.
WriteEnableForgotten ==
  /\ Goto("enable", "disarm")
  /\ UNCHANGED <<req, tcs, FreeTcsIndex, Status, loaded, context, regs, hw, isr>>

\* The bit of slot 0, ORed with what is enabled already.
WriteEnable ==
  /\ Goto("enable", "disarm")
  /\ cmdEnable' = [cmdEnable EXCEPT ![FreeTcsIndex] = TRUE]
  /\ UNCHANGED <<req, tcs, FreeTcsIndex, Status, loaded, context, ctrl, cmd, hw, isr>>

\* The two writes TcsSetTrigger starts with; both of its CLR_BITS have the
\* mask first, so neither value is the old one with a bit removed.
Disarm(old) ==
  LET first == ClrBits({TRIGGER}, old)
  IN  <<first, ClrBits({ENABLE}, first)>>

DisarmTrigger ==
  /\ Goto("disarm", "arm")
  /\ WriteControl(FreeTcsIndex, Disarm(ctrl[FreeTcsIndex]))
  /\ UNCHANGED <<req, tcs, FreeTcsIndex, Status, loaded, context, cmdEnable, cmd, irqStatus, isr>>

ArmTrigger ==
  /\ Goto("arm", "fire")
  /\ WriteControl(FreeTcsIndex, <<{ENABLE}, {ENABLE}>>)
  /\ UNCHANGED <<req, tcs, FreeTcsIndex, Status, loaded, context, cmdEnable, cmd, irqStatus, isr>>

Fire ==
  /\ pc = "fire" /\ ~inIsr
  /\ WriteControl(FreeTcsIndex, <<{ENABLE}, SetBits({ENABLE}, {TRIGGER})>>)
  /\ Return("SUCCESS")
  /\ UNCHANGED <<context, cmdEnable, cmd, irqStatus, isr>>

-----------------------------------------------------------------------------
(* RpmhDrvTcsTxDoneIsr, entered while the level of the interrupt is high.  *)

\* The interrupt is not ours: hand it to the firmware's driver.
IsrDisown ==
  /\ registered /\ irqStatus # {} /\ ~inIsr
  /\ ~IrqFromRpmhCr
  /\ registered' = FALSE
  /\ UNCHANGED <<caller, TcsBusy, IrqFromRpmhCr, regs, hw, isr>>

\* The loop runs over the number of commands of a TCS, not over the TCSs.
IsrEnter ==
  /\ registered /\ irqStatus # {} /\ ~inIsr
  /\ IrqFromRpmhCr
  /\ IrqFromRpmhCr' = FALSE
  /\ inIsr' = TRUE
  /\ IrqStatus' = {t \in irqStatus : t < NumCmdsPerTcs}
  /\ UNCHANGED <<caller, TcsBusy, registered, regs, hw>>

\* (slip) The interrupt of the TCS is not cleared.
IsrTcsNoClear(t) ==
  /\ inIsr /\ t \in IrqStatus /\ \A u \in IrqStatus : t <= u
  /\ WriteControl(t, Disarm(ctrl[t]))
  /\ cmdEnable' = [cmdEnable EXCEPT ![t] = FALSE]
  /\ TcsBusy' = ClrBits({t}, TcsBusy)
  /\ IrqStatus' = IrqStatus \ {t}
  /\ UNCHANGED <<caller, IrqFromRpmhCr, registered, cmd, irqStatus, inIsr>>

\* (slip) The TCS stays marked busy.
IsrTcsKeepsBusy(t) ==
  /\ inIsr /\ t \in IrqStatus /\ \A u \in IrqStatus : t <= u
  /\ WriteControl(t, Disarm(ctrl[t]))
  /\ cmdEnable' = [cmdEnable EXCEPT ![t] = FALSE]
  /\ irqStatus' = irqStatus \ {t}
  /\ IrqStatus' = IrqStatus \ {t}
  /\ UNCHANGED <<caller, context, cmd, inIsr>>

\* One TCS with its bit set: reset the trigger, disable its command, clear
\* its interrupt, and "clear busy flag", whose CLR_BITS has the mask first.
IsrTcs(t) ==
  /\ inIsr /\ t \in IrqStatus /\ \A u \in IrqStatus : t <= u
  /\ WriteControl(t, Disarm(ctrl[t]))
  /\ cmdEnable' = [cmdEnable EXCEPT ![t] = FALSE]
  /\ irqStatus' = irqStatus \ {t}
  /\ TcsBusy' = ClrBits({t}, TcsBusy)
  /\ IrqStatus' = IrqStatus \ {t}
  /\ UNCHANGED <<caller, IrqFromRpmhCr, registered, cmd, inIsr>>

IsrExit ==
  /\ inIsr /\ IrqStatus = {}
  /\ inIsr' = FALSE
  /\ UNCHANGED <<caller, context, regs, hw, IrqStatus>>

-----------------------------------------------------------------------------
\* After RpmhLibInit: the routine is registered and stale interrupts are
\* cleared.  The boot loader may have left any control value behind, and the
\* bit of command slot 0 set in any TCS's enable register, which the library
\* only ever adds to.
Init ==
  /\ pc = "idle" /\ req = None /\ tcs = 0
  /\ FreeTcsIndex = 0 /\ Status = "SUCCESS" /\ loaded = {}
  /\ TcsBusy = {} /\ IrqFromRpmhCr = FALSE /\ registered = TRUE
  /\ \E c \in SUBSET {TRIGGER, ENABLE} : ctrl = [t \in Active |-> c]
  /\ cmdEnable \in [Active -> BOOLEAN]
  /\ cmd = [t \in Active |-> [addr |-> None, data |-> None]]
  /\ running = {} /\ launched = [t \in Active |-> None] /\ irqStatus = {}
  /\ inIsr = FALSE /\ IrqStatus = {}

Call == \E r \in Requests : RpmhWrite(r)

\* The steps of a call that has begun.
CallStep ==
  \/ InflightHit \/ InflightMiss
  \/ FreeHit \/ FreeMiss \/ FreeNone
  \/ ClaimLoad \/ ClaimStore \/ ClaimMark
  \/ WriteAddr \/ WriteData \/ WriteEnable
  \/ DisarmTrigger \/ ArmTrigger \/ Fire

IsrStep ==
  \/ IsrDisown \/ IsrEnter \/ IsrExit
  \/ \E t \in Active : IsrTcs(t)

BspStep == \E t \in Active : BspLaunch(t) \/ BspAcknowledge(t)

Next ==
  \/ Call \/ CallStep \/ IsrStep \/ BspStep
  \/ \E t \in Active : HwComplete(t)

Spec == Init /\ [][Next]_vars

\* The processor executes what it has begun and takes its interrupts; the
\* hardware ends every transmission.  Nobody has to call.
Fairness ==
  /\ WF_vars(CallStep)
  /\ WF_vars(IsrStep)
  /\ \A t \in Active : WF_vars(HwComplete(t))

FairSpec == Spec /\ Fairness

-----------------------------------------------------------------------------
(* Properties.                                                             *)

\* The stages of a call that owns TCS FreeTcsIndex.
Claimed == pc \in {"addr", "data", "enable", "disarm", "arm", "fire"}

\* The TCS whose registers RpmhWrite is programming is executing nothing,
\* and no completion of it is waiting for, or inside, the interrupt routine.
Exclusive == Claimed => FreeTcsIndex \notin running \cup irqStatus \cup IrqStatus

\* A TCS executing a command of this driver is marked in TcsBusy, which is
\* all that GetNextFreeTcs and RpmhIsCmdInflight look at.
BusyCoversRunning == \A t \in running : launched[t] # None => t \in TcsBusy

\* Two TCSs never execute commands for one resource at the same time:
\* "If cmd is inflight, return busy" (rpmh.c:216).
OneVotePerResource ==
  \A t, u \in running :
    t # u /\ launched[t] # None /\ launched[u] # None
      => ~CmdDBIsAddrEqual(launched[t].addr, launched[u].addr)

\* The routine gives the interrupt up only when none of the completions
\* waiting is that of a command of this driver.
DisownsOnlyForeign == [][registered /\ ~registered' => irqStatus \cap TcsBusy = {}]_vars

\* Every call that succeeds makes the hardware execute its command once, as
\* it was asked, and every call that fails makes it execute nothing.
Channel == INSTANCE VoteChannel
  WITH Slots <- Active, NoRequest <- None, request <- req, slot <- launched,
       ok <- (pc # "idle" \/ Status = "SUCCESS")
RefinesChannel == Channel!ChanSpec

\* A TCS marked busy is free again some day, unless the interrupt has been
\* left to the firmware's driver.
BusyReleased ==
  \A t \in Active : t \in TcsBusy /\ registered ~> (t \notin TcsBusy \/ ~registered)
=============================================================================
