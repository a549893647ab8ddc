------------------------------- MODULE Clock -------------------------------
(***************************************************************************)
(* The clock library: ClockEnable turns a branch clock and all clocks      *)
(* above it on or off, ClockRcg2SetRate configures a root clock generator, *)
(* ClockGdscEnable powers a domain up.  One caller at a time; the hardware *)
(* follows the registers when it likes, and every wait is bounded, so that *)
(* the library goes on without an answer.                                  *)
(*                                                                         *)
(* An entry of a frequency table stands for the values that SetRate writes *)
(* for it into the configuration, M, N and D registers of a root; its flag *)
(* mnd says that the last three are written (the root has them, and the    *)
(* entry's N is not zero).                                                 *)
(***************************************************************************)
EXTENDS Naturals, Sequences, SequencesExt

CONSTANTS
  Branches,      \* nodes of type CLOCK_NODE_TYPE_BRANCH_2
  Roots,         \* nodes of type CLOCK_NODE_TYPE_ROOT_CLOCK_GENERATOR_2
  Others,        \* nodes of the types ClockEnable does not support
  Parents,       \* the field Parents: a sequence for every node
  HaltCheckFlag, \* the field of that name, for every branch
  HwGated,       \* branches in hardware clock gating mode (HwcgMsk reads set)
  Disablable,    \* nodes that callers may disable
  Tunable,       \* roots with a frequency table
  FreqTable,     \* their table, in ascending order
  Rates,         \* the rates asked for (a bound)
  Domains,       \* power domains (GDSCs)
  ClampIo, ForceMem, HwCtl, PollsCfg  \* domains with that flag

Nodes == Branches \cup Roots \cup Others
Entries == DOMAIN FreqTable
Boot == 0  \* stands for the values the boot loader left in a root
Flags == {"HALT", "HALT_ENABLE", "HALT_DELAY", "HALT_BYPASS", "HALT_POLL", "VOTED"}
Policies == {"CEIL", "FLOOR"}

\* No entry of Parents is NULL: the library would dereference it for the
\* message that says so (clock.c:238).
ASSUME TreeAssumption ==
  /\ Branches \cap Roots = {} /\ Others \cap (Branches \cup Roots) = {}
  /\ Parents \in [Nodes -> Seq(Nodes)]
  /\ HaltCheckFlag \in [Branches -> Flags] /\ HwGated \subseteq Branches

ASSUME TableAssumption ==
  /\ FreqTable \in Seq([hz : Nat, mnd : BOOLEAN]) /\ Rates \subseteq Nat /\ Tunable \subseteq Roots
  /\ \A i, j \in Entries : i < j => FreqTable[i].hz < FreqTable[j].hz

ASSUME DomainsAssumption ==
  UNION {ClampIo, ForceMem, HwCtl, PollsCfg} \subseteq Domains /\ Domains \cap Nodes = {}

\* The nodes above a node: the least set that has its parents, and theirs.
BranchParents(n) == ToSet(Parents[n]) \cap Branches
Upwards == {S \in SUBSET Nodes : \A m \in S : ToSet(Parents[m]) \subseteq S}
Above ==
  [n \in Nodes |-> {m \in Nodes : \A S \in Upwards : ToSet(Parents[n]) \subseteq S => m \in S}]

\* Callers do not disable what others need: nothing but a node and the nodes
\* above it uses the branches among them.
ASSUME DisablableAssumption ==
  \A n \in Disablable : LET path == Above[n] \cup {n} IN
    \A m \in Nodes : Above[m] \cap path \cap Branches # {} => m \in path

VARIABLES
  call, result,  \* the last call and its status, "pending" until it returns
  pc,            \* the place in the call
  stack,         \* activations of ClockEnable: node, parents done, Status
  todo,          \* SetRate: registers still to be written
  enabled,       \* enable bits of the branches
  running,       \* branches whose status register says so
  regs,          \* registers of the roots
  updating,      \* update bits of the roots
  latched,       \* what the roots run with
  gdsc,          \* the power domains
  timedOut       \* history: branches not waited for to the end by this call,
                 \* roots and domains not waited for to the end by some call

tree == <<stack, enabled, running>>
rcg == <<todo, regs, updating, latched>>
vars == <<call, result, pc, tree, rcg, gdsc, timedOut>>

Registers == {"m", "n", "d", "cfg"}
Config == [Registers -> Entries \cup {Boot}]
Status == {"SUCCESS", "TIMEOUT", "NOT_FOUND", "UNSUPPORTED"}
Calls == [op : {"enable", "disable"}, node : Nodes]
           \cup [op : {"rate"}, node : Roots, rate : Rates, policy : Policies]
           \cup [op : {"power"}, node : Domains]
           \cup [op : {"none"}]

TypeOK ==
  /\ call \in Calls /\ result \in Status \cup {"pending"}
  /\ pc \in {"idle", "enable", "halt", "write", "update", "wait",
             "collapse", "poll", "memory", "control"}
  /\ stack \in Seq([node : Nodes, done : Nat, status : Status])
  /\ todo \in Seq(Registers)
  /\ enabled \subseteq Branches /\ running \subseteq Branches
  /\ regs \in [Roots -> Config] /\ latched \in [Roots -> Config]
  /\ updating \subseteq Roots
  /\ gdsc \in [Domains -> [clamped : BOOLEAN, collapsed : BOOLEAN, powered : BOOLEAN,
                           memForced : BOOLEAN, hwCtl : BOOLEAN]]
  /\ timedOut \subseteq Nodes \cup Domains

\* The boot loader may have left clocks on, with those above them.
Init ==
  /\ call = [op |-> "none"] /\ result = "SUCCESS" /\ pc = "idle"
  /\ stack = <<>> /\ todo = <<>>
  /\ enabled \in {on \in SUBSET Branches : \A b \in on : BranchParents(b) \subseteq on}
  /\ running = enabled
  /\ regs = [r \in Roots |-> [g \in Registers |-> Boot]]
  /\ latched = regs /\ updating = {}
  /\ gdsc = [d \in Domains |-> [clamped |-> d \in ClampIo, collapsed |-> TRUE, powered |-> FALSE,
                                memForced |-> FALSE, hwCtl |-> FALSE]]
  /\ timedOut = {}

Begin(c, place) ==
  /\ pc = "idle" /\ pc' = place
  /\ call' = c /\ result' = "pending"

Finish(status) ==
  /\ pc' = "idle" /\ result' = status
  /\ UNCHANGED call

Go(place) == pc' = place /\ UNCHANGED <<call, result>>

-----------------------------------------------------------------------------
(* ClockEnable: an activation visits the parents, then the node itself. *)

Activation(n) == [node |-> n, done |-> 0, status |-> "SUCCESS"]
Top == Last(stack)
Enabling == call.op = "enable"

CallEnable(n, op) ==
  /\ op = "disable" => n \in Disablable
  /\ Begin([op |-> op, node |-> n], "enable")
  /\ stack' = <<Activation(n)>>
  /\ timedOut' = timedOut \ Branches
  /\ UNCHANGED <<enabled, running, rcg, gdsc>>

EnableParent ==
  /\ pc = "enable" /\ Top.done < Len(Parents[Top.node])
  /\ stack' = Append(stack, Activation(Parents[Top.node][Top.done + 1]))
  /\ UNCHANGED <<call, result, pc, enabled, running, rcg, gdsc, timedOut>>

\* The top activation returns; the caller's Status is that of its last parent.
Return(status) ==
  LET below == Front(stack) IN
  IF below = <<>>
  THEN Finish(status) /\ stack' = <<>>
  ELSE /\ stack' = Append(Front(below), [Last(below) EXCEPT !.done = @ + 1, !.status = status])
       /\ Go("enable")

\* CLOCK_NODE_BRANCH_HALT_BYPASS is 3 and is tested as a mask, so that it
\* matches the flags with the values 1 to 3.
Skipped(b) ==
  \/ HaltCheckFlag[b] \in {"HALT_ENABLE", "HALT_DELAY", "HALT_BYPASS"}
  \/ b \in HwGated
  \/ HaltCheckFlag[b] = "VOTED" /\ ~Enabling

Polled(b) == ~Skipped(b) /\ HaltCheckFlag[b] \in {"HALT", "VOTED"}

\* (slip) A node is switched before its parents.
SwitchAtOnce ==
  /\ pc = "enable" /\ Top.node \in Branches
  /\ enabled' = IF Enabling THEN enabled \cup {Top.node} ELSE enabled \ {Top.node}
  /\ IF Polled(Top.node)
     THEN Go("halt") /\ UNCHANGED stack
     ELSE Return(IF Skipped(Top.node) THEN "SUCCESS" ELSE Top.status)
  /\ UNCHANGED <<running, rcg, gdsc, timedOut>>

Switch ==
  /\ pc = "enable" /\ Top.done = Len(Parents[Top.node]) /\ Top.node \in Branches
  /\ enabled' = IF Enabling THEN enabled \cup {Top.node} ELSE enabled \ {Top.node}
  /\ IF Polled(Top.node)
     THEN Go("halt") /\ UNCHANGED stack
     ELSE Return(IF Skipped(Top.node) THEN "SUCCESS" ELSE Top.status)
  /\ UNCHANGED <<running, rcg, gdsc, timedOut>>

\* (slip) OffBitInverted keeps bit 31, and is the wrong way round.
HaltInverted ==
  /\ pc = "halt" /\ Enabling # (Top.node \in running)
  /\ Return(Top.status)
  /\ UNCHANGED <<enabled, running, rcg, gdsc, timedOut>>

\* OffBitInverted holds one byte and loses bit 31: whether the clock is to be
\* on or off, the loop waits for a status that says it is on.
HaltChecked ==
  /\ pc = "halt" /\ Top.node \in running
  /\ Return(Top.status)
  /\ UNCHANGED <<enabled, running, rcg, gdsc, timedOut>>

HaltTimeout ==
  /\ pc = "halt" /\ Top.node \notin running
  /\ timedOut' = timedOut \cup {Top.node}
  /\ Return(Top.status)
  /\ UNCHANGED <<enabled, running, rcg, gdsc>>

\* (slip) A root is switched like a branch.
PassNodeSwitched ==
  /\ pc = "enable" /\ Top.done = Len(Parents[Top.node]) /\ Top.node \notin Branches
  /\ enabled' = IF Enabling THEN enabled \cup {Top.node} ELSE enabled \ {Top.node}
  /\ Return(IF Top.node \in Roots THEN Top.status ELSE "UNSUPPORTED")
  /\ UNCHANGED <<running, rcg, gdsc, timedOut>>

\* Nothing is done for a root; other types are refused, after their parents.
PassNode ==
  /\ pc = "enable" /\ Top.done = Len(Parents[Top.node]) /\ Top.node \notin Branches
  /\ Return(IF Top.node \in Roots THEN Top.status ELSE "UNSUPPORTED")
  /\ UNCHANGED <<enabled, running, rcg, gdsc, timedOut>>

\* A branch runs when it is enabled and the branches above it run.
HwBranch(b) ==
  /\ LET on == b \in enabled /\ BranchParents(b) \subseteq running IN
     /\ on # (b \in running)
     /\ running' = IF on THEN running \cup {b} ELSE running \ {b}
  /\ UNCHANGED <<call, result, pc, stack, enabled, rcg, gdsc, timedOut>>

-----------------------------------------------------------------------------
(* ClockRcg2SetRate. *)

\* (slip) A FLOOR between two entries takes the upper one.
TargetFreqUp(rate, policy) ==
  LET reached == {i \in Entries : FreqTable[i].hz >= rate} IN
  IF reached # {} THEN CHOOSE i \in reached : \A j \in reached : i <= j
  ELSE IF policy = "FLOOR" THEN Len(FreqTable) ELSE Boot

\* The search for TargetFreq; Boot for none.  A FLOOR below the lowest rate
\* finds none and then takes the last entry, as a FLOOR above the highest does.
TargetFreq(rate, policy) ==
  LET reached == {i \in Entries : FreqTable[i].hz >= rate}
      first == CHOOSE i \in reached : \A j \in reached : i <= j
      found == IF reached = {} THEN Boot
               ELSE IF FreqTable[first].hz = rate \/ policy = "CEIL" THEN first
               ELSE first - 1
  IN  IF found = Boot /\ policy = "FLOOR" THEN Len(FreqTable) ELSE found

ClockRcg2SetRate(r, rate, policy) ==
  /\ LET c == [op |-> "rate", node |-> r, rate |-> rate, policy |-> policy]
         freq == IF r \in Tunable THEN TargetFreq(rate, policy) ELSE Boot
     IN  IF freq = Boot
         THEN pc = "idle" /\ pc' = "idle" /\ call' = c /\ result' = "NOT_FOUND" /\ UNCHANGED todo
         ELSE /\ Begin(c, "write")
              /\ todo' = IF FreqTable[freq].mnd THEN <<"m", "n", "d", "cfg">> ELSE <<"cfg">>
  /\ UNCHANGED <<tree, regs, updating, latched, gdsc, timedOut>>

WriteRegister ==
  /\ pc = "write"
  /\ regs' = [regs EXCEPT ![call.node][Head(todo)] = TargetFreq(call.rate, call.policy)]
  /\ todo' = Tail(todo)
  /\ Go(IF Len(todo) = 1 THEN "update" ELSE "write")
  /\ UNCHANGED <<tree, updating, latched, gdsc, timedOut>>

RequestUpdate ==
  /\ pc = "update" /\ Go("wait")
  /\ updating' = updating \cup {call.node}
  /\ UNCHANGED <<tree, todo, regs, latched, gdsc, timedOut>>

\* (slip) The update bit is not waited for.
UpdatedUnseen ==
  /\ pc = "wait" /\ Finish("SUCCESS")
  /\ UNCHANGED <<tree, rcg, gdsc, timedOut>>

Updated ==
  /\ pc = "wait" /\ call.node \notin updating
  /\ Finish("SUCCESS")
  /\ UNCHANGED <<tree, rcg, gdsc, timedOut>>

UpdateTimeout ==
  /\ pc = "wait" /\ call.node \in updating
  /\ Finish("TIMEOUT")
  /\ timedOut' = timedOut \cup {call.node}
  /\ UNCHANGED <<tree, rcg, gdsc>>

\* The root takes over its registers and clears the update bit.
HwLatch(r) ==
  /\ r \in updating
  /\ updating' = updating \ {r}
  /\ latched' = [latched EXCEPT ![r] = regs[r]]
  /\ UNCHANGED <<call, result, pc, tree, todo, regs, gdsc, timedOut>>

-----------------------------------------------------------------------------
(* ClockGdscEnable; the pulse on the always-on reset and the bit RETAIN_FF *)
(* have no effect here.                                                    *)

SetDomain(d, field, value) == gdsc' = [gdsc EXCEPT ![d][field] = value]

ClockGdscEnable(d) ==
  /\ Begin([op |-> "power", node |-> d], "collapse")
  /\ SetDomain(d, "clamped", FALSE)
  /\ UNCHANGED <<tree, rcg, timedOut>>

ClearCollapse ==
  /\ pc = "collapse" /\ Go("poll")
  /\ SetDomain(call.node, "collapsed", FALSE)
  /\ UNCHANGED <<tree, rcg, timedOut>>

\* (slip) The power status is not waited for.
PowerUnseen ==
  /\ pc = "poll" /\ Go("memory")
  /\ UNCHANGED <<tree, rcg, gdsc, timedOut>>

\* With POLL_CFG_GDSC_REG the loop is left after one read, whatever it says.
\* The status of ClockGdscToggleEnable is not looked at.
PowerPolled ==
  /\ pc = "poll" /\ Go("memory")
  /\ call.node \in PollsCfg \/ gdsc[call.node].powered
  /\ UNCHANGED <<tree, rcg, gdsc, timedOut>>

PowerTimeout ==
  /\ pc = "poll" /\ Go("memory")
  /\ call.node \notin PollsCfg /\ ~gdsc[call.node].powered
  /\ timedOut' = timedOut \cup {call.node}
  /\ UNCHANGED <<tree, rcg, gdsc>>

ForceMemory ==
  /\ pc = "memory" /\ Go("control")
  /\ IF call.node \in ForceMem THEN SetDomain(call.node, "memForced", TRUE) ELSE UNCHANGED gdsc
  /\ UNCHANGED <<tree, rcg, timedOut>>

ClockGdsc ==
  /\ pc = "control" /\ Finish("SUCCESS")
  /\ IF call.node \in HwCtl THEN SetDomain(call.node, "hwCtl", TRUE) ELSE UNCHANGED gdsc
  /\ UNCHANGED <<tree, rcg, timedOut>>

HwPowerUp(d) ==
  /\ ~gdsc[d].collapsed /\ ~gdsc[d].powered
  /\ SetDomain(d, "powered", TRUE)
  /\ UNCHANGED <<call, result, pc, tree, rcg, timedOut>>

-----------------------------------------------------------------------------
Library ==
  \/ \E n \in Nodes, op \in {"enable", "disable"} : CallEnable(n, op)
  \/ EnableParent \/ Switch \/ HaltChecked \/ HaltTimeout \/ PassNode
  \/ \E r \in Roots, rate \in Rates, policy \in Policies : ClockRcg2SetRate(r, rate, policy)
  \/ WriteRegister \/ RequestUpdate \/ Updated \/ UpdateTimeout
  \/ \E d \in Domains : ClockGdscEnable(d)
  \/ ClearCollapse \/ PowerPolled \/ PowerTimeout \/ ForceMemory \/ ClockGdsc

Hardware ==
  \/ \E b \in Branches : HwBranch(b)
  \/ \E r \in Roots : HwLatch(r)
  \/ \E d \in Domains : HwPowerUp(d)

Next == Library \/ Hardware

Spec == Init /\ [][Next]_vars

-----------------------------------------------------------------------------
(* Properties. *)

\* A clock that is on has all clocks above it switched on, between calls and
\* during every step of an enabling one, in whatever order the calls came
\* (clock.c:232 "Enable all parents first").
ParentsOn ==
  pc = "idle" \/ call.op # "disable" => \A b \in enabled : BranchParents(b) \subseteq enabled

\* When ClockEnable has returned success, every branch on the way whose status
\* is polled, like those above it, runs, unless a poll ran out of time.
Awaited(b) == \A a \in ({b} \cup Above[b]) \cap Branches : Polled(a)

EnabledRuns ==
  Enabling /\ result = "SUCCESS" =>
    \A b \in ({call.node} \cup Above[call.node]) \cap Branches :
      Awaited(b) => b \in running \/ ({b} \cup Above[b]) \cap Branches \cap timedOut # {}

\* A root never runs with the registers of two different settings, as long as
\* no update of it ran out of time.
Whole(config) ==
  config.cfg = Boot \/ FreqTable[config.cfg].mnd =>
    \A g \in Registers : config[g] = config.cfg

LatchedWhole == \A r \in Roots \ timedOut : Whole(latched[r])

\* When ClockRcg2SetRate has returned success, the root runs with the entry that
\* was asked for: the lowest not below the rate, or with CLOCK_RCG2_POLICY_FLOOR
\* the highest not above it (if there is one).
IsFloor(i, rate) == FreqTable[i].hz <= rate /\ \A j \in Entries : FreqTable[j].hz <= rate => j <= i
IsCeil(i, rate) == FreqTable[i].hz >= rate /\ \A j \in Entries : FreqTable[j].hz >= rate => i <= j

RateIsRounded ==
  call.op = "rate" /\ result = "SUCCESS" =>
    LET runs == latched[call.node] IN
    /\ Whole(runs)
    /\ IF call.policy = "CEIL" THEN IsCeil(runs.cfg, call.rate)
       ELSE (\E i \in Entries : FreqTable[i].hz <= call.rate) => IsFloor(runs.cfg, call.rate)

\* A domain gets power only with its outputs released, its memory is forced on
\* only under power, and it is handed to the hardware only after that, unless the
\* wait for power ran out of time or is left after one read.
PowerSequence ==
  \A d \in Domains :
    /\ gdsc[d].powered => ~gdsc[d].clamped
    /\ gdsc[d].hwCtl /\ d \in ForceMem => gdsc[d].memForced
    /\ gdsc[d].memForced \/ gdsc[d].hwCtl => gdsc[d].powered \/ d \in timedOut \cup PollsCfg
=============================================================================
