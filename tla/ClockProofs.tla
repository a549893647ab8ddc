---------------------------- MODULE ClockProofs ----------------------------
(***************************************************************************)
(* Theorems about Clock: its variables have their types; the clocks above  *)
(* one that is on are on (ParentsOn) and, after an enabling call, run      *)
(* (EnabledRuns); a root never runs with a mixture of two settings         *)
(* (LatchedWhole), and after a call with the one asked for                 *)
(* (RateIsRounded); a power domain is brought up in order (PowerSequence). *)
(***************************************************************************)
EXTENDS Clock, FiniteSetTheorems, SequenceTheorems, WellFoundedInduction, TLAPS

-----------------------------------------------------------------------------
(* The invariants.                                                         *)

Walking == pc \in {"enable", "halt"}
Setting == pc \in {"write", "update", "wait"}
Powering == pc \in {"collapse", "poll", "memory", "control"}

\* The call that each place belongs to.
CallFits ==
  /\ Walking => call.op \in {"enable", "disable"} /\ call.node \in Nodes
  /\ Setting => call.op = "rate" /\ call.node \in Roots
                /\ TargetFreq(call.rate, call.policy) \in Entries
  /\ Powering => call.op = "power" /\ call.node \in Domains
  /\ call.op = "disable" => call.node \in Disablable
  /\ pc # "idle" <=> result = "pending"

\* The activations of ClockEnable: each is of the parent that the one below
\* has come to, and the lowest that of the call.
Child(lower, upper) ==
  /\ lower.done < Len(Parents[lower.node])
  /\ upper.node = Parents[lower.node][lower.done + 1]

StackFits ==
  /\ Walking <=> stack # <<>>
  /\ Walking => stack[1].node = call.node
  /\ \A i \in 1 .. Len(stack) : stack[i].done <= Len(Parents[stack[i].node])
  /\ \A i \in 1 .. Len(stack) - 1 : Child(stack[i], stack[i + 1])
  /\ pc = "halt" =>
       Top.done = Len(Parents[Top.node]) /\ Top.node \in Branches /\ Polled(Top.node)

\* The registers still to be written, the configuration register last.
Orders == {<<"m", "n", "d", "cfg">>, <<"n", "d", "cfg">>, <<"d", "cfg">>, <<"cfg">>}

TodoFits == IF pc = "write" THEN todo \in Orders ELSE todo = <<>>

TypeInv == TypeOK /\ CallFits /\ StackFits /\ TodoFits

\* What an activation achieves: all branches from its node upwards are on, and
\* those waited for run; or all of them are off.
On(b) ==
  /\ b \in enabled
  /\ Awaited(b) => b \in running \/ ({b} \cup Above[b]) \cap Branches \cap timedOut # {}
AllOn(n) == \A b \in ({n} \cup Above[n]) \cap Branches : On(b)
AllOff(n) == \A b \in ({n} \cup Above[n]) \cap Branches : b \notin enabled
Achieved(n) == IF call.op = "enable" THEN AllOn(n) ELSE AllOff(n)

\* The parents that are done.
Done ==
  {n \in Nodes : \E i \in 1 .. Len(stack) : \E k \in 1 .. stack[i].done :
                   n = Parents[stack[i].node][k]}

Path == Above[call.node] \cup {call.node}
ClosedBut(S) == \A b \in enabled \ S : BranchParents(b) \subseteq enabled

TreeInv ==
  /\ \A i \in 1 .. Len(stack) : stack[i].node \in Path
  /\ \A n \in Done : Achieved(n)
  /\ pc = "halt" => IF call.op = "enable" THEN Top.node \in enabled ELSE Top.node \notin enabled
  /\ pc = "idle" /\ call.op = "enable" => AllOn(call.node)
  /\ IF Walking /\ call.op = "disable" THEN ClosedBut(Path) ELSE ClosedBut({})

\* The registers of a root while they are written, and after.
RateInv ==
  LET freq == TargetFreq(call.rate, call.policy)
      now == regs[call.node]
  IN  /\ pc = "write" =>
           /\ Len(todo) > 1 => FreqTable[freq].mnd
           /\ FreqTable[freq].mnd =>
                /\ Len(todo) < 4 => now["m"] = freq
                /\ Len(todo) < 3 => now["n"] = freq
                /\ Len(todo) < 2 => now["d"] = freq
      /\ \A r \in Roots : pc # "write" \/ r # call.node => Whole(regs[r])
      /\ \A r \in Roots \ timedOut :
           /\ Whole(latched[r])
           /\ r \in updating => pc = "wait" /\ r = call.node
      /\ pc \in {"update", "wait"} => now.cfg = freq
      /\ pc = "wait" /\ call.node \notin updating => latched[call.node] = now
      /\ call.op = "rate" /\ result = "SUCCESS" =>
           /\ call.node \in Roots /\ call.node \notin updating /\ Whole(latched[call.node])
           /\ freq \in Entries /\ latched[call.node].cfg = freq

\* How far a power domain has come up.
GotPower(d) == gdsc[d].powered \/ d \in timedOut \cup PollsCfg

PowerInv ==
  /\ PowerSequence
  /\ \A d \in Domains : ~gdsc[d].collapsed => ~gdsc[d].clamped
  /\ pc = "collapse" => ~gdsc[call.node].clamped
  /\ pc \in {"memory", "control"} => GotPower(call.node)
  /\ pc = "control" /\ call.node \in ForceMem => gdsc[call.node].memForced

-----------------------------------------------------------------------------
(* The tree.                                                               *)

\* The parents of a node are nodes, and its branch parents among them.
LEMMA ParentsType ==
  ASSUME NEW n \in Nodes
  PROVE  /\ Len(Parents[n]) \in Nat
         /\ \A k \in 1 .. Len(Parents[n]) :
              Parents[n][k] \in Nodes /\ Parents[n][k] \in ToSet(Parents[n])
         /\ ToSet(Parents[n]) \subseteq Nodes
         /\ \A p \in ToSet(Parents[n]) : \E k \in 1 .. Len(Parents[n]) : p = Parents[n][k]
         /\ BranchParents(n) \subseteq ToSet(Parents[n])
<1>1. Parents[n] \in Seq(Nodes)
  BY TreeAssumption
<1>2. Len(Parents[n]) \in Nat /\ DOMAIN Parents[n] = 1 .. Len(Parents[n])
  BY <1>1, LenProperties
<1>3. \A k \in 1 .. Len(Parents[n]) : Parents[n][k] \in Nodes
  BY <1>1, ElementOfSeq
<1> QED  BY <1>2, <1>3 DEF ToSet, BranchParents

\* What is above a node: its parents, and all above them.
LEMMA AboveContains ==
  ASSUME NEW n \in Nodes
  PROVE  /\ Above[n] \subseteq Nodes
         /\ \A p \in ToSet(Parents[n]) : p \in Above[n] /\ Above[p] \subseteq Above[n]
         /\ \A m \in Above[n] : ToSet(Parents[m]) \subseteq Above[n] /\ Above[m] \subseteq Above[n]
<1>1. Above[n] \subseteq Nodes /\ ToSet(Parents[n]) \subseteq Above[n]
  BY ParentsType DEF Above
<1>2. ASSUME NEW m \in Above[n]
      PROVE  ToSet(Parents[m]) \subseteq Above[n]
  <2>1. m \in Nodes /\ ToSet(Parents[m]) \subseteq Nodes
    BY <1>1, ParentsType
  <2>2. ASSUME NEW S \in Upwards, ToSet(Parents[n]) \subseteq S
        PROVE  ToSet(Parents[m]) \subseteq S
    <3>1. m \in S
      BY <2>2 DEF Above
    <3> QED  BY <3>1 DEF Upwards
  <2> QED  BY <2>1, <2>2 DEF Above
<1>3. Above[n] \in Upwards
  BY <1>1, <1>2 DEF Upwards
<1>4. ASSUME NEW m \in Above[n]
      PROVE  Above[m] \subseteq Above[n]
  <2>1. m \in Nodes /\ ToSet(Parents[m]) \subseteq Above[n]
    BY <1>1, <1>2
  <2> QED  BY <2>1, <1>3 DEF Above
<1> QED  BY <1>1, <1>2, <1>4

\* ... and nothing else.
LEMMA AboveIs ==
  ASSUME NEW n \in Nodes, NEW m \in Above[n]
  PROVE  \E p \in ToSet(Parents[n]) : m \in {p} \cup Above[p]
<1> DEFINE S == UNION {{p} \cup Above[p] : p \in ToSet(Parents[n])}
<1>1. S \in Upwards
  <2>1. ASSUME NEW p \in ToSet(Parents[n])
        PROVE  /\ {p} \cup Above[p] \subseteq Nodes
               /\ \A q \in {p} \cup Above[p] : ToSet(Parents[q]) \subseteq {p} \cup Above[p]
    <3>1. p \in Nodes
      BY ParentsType
    <3>2. ToSet(Parents[p]) \subseteq Above[p]
      BY <3>1, AboveContains
    <3> QED  BY <3>1, <3>2, AboveContains
  <2>2. S \in SUBSET Nodes
    BY <2>1
  <2>3. ASSUME NEW q \in S
        PROVE  ToSet(Parents[q]) \subseteq S
    <3>1. PICK p \in ToSet(Parents[n]) : q \in {p} \cup Above[p]
      OBVIOUS
    <3>2. ToSet(Parents[q]) \subseteq {p} \cup Above[p]
      BY <2>1, <3>1
    <3> QED  BY <3>2
  <2> QED  BY <2>2, <2>3 DEF Upwards
<1>2. ToSet(Parents[n]) \subseteq S
  OBVIOUS
<1>3. m \in S
  <2> HIDE DEF S
  <2> QED  BY <1>1, <1>2 DEF Above
<1> QED  BY <1>3

\* From a node upwards, the branch parents of a branch are there too, and all
\* that is above them.
LEMMA UpClosed ==
  ASSUME NEW n \in Nodes, NEW b \in {n} \cup Above[n]
  PROVE  /\ b \in Nodes
         /\ BranchParents(b) \subseteq Above[n] \cap Branches
         /\ BranchParents(b) \subseteq Above[b]
         /\ \A q \in BranchParents(b) : Above[q] \subseteq Above[b]
<1>1. b \in Nodes
  BY AboveContains
<1>2. ToSet(Parents[b]) \subseteq Above[n]
  BY AboveContains
<1>3. BranchParents(b) \subseteq Branches /\ BranchParents(b) \subseteq ToSet(Parents[b])
  BY DEF BranchParents
<1> QED  BY <1>1, <1>2, <1>3, AboveContains

-----------------------------------------------------------------------------
(* The stack of activations.                                               *)

Activations == [node : Nodes, done : Nat, status : Status]

\* What Return makes of the stack.
Pop(s, status) ==
  IF Front(s) = <<>> THEN <<>>
  ELSE Append(Front(Front(s)), [Last(Front(s)) EXCEPT !.done = @ + 1, !.status = status])

\* All but the last element, as a sequence.
LEMMA FrontIs ==
  ASSUME NEW s \in Seq(Activations), s # <<>>
  PROVE  /\ Front(s) \in Seq(Activations) /\ Len(Front(s)) = Len(s) - 1
         /\ Len(s) \in Nat \ {0}
         /\ \A i \in 1 .. Len(s) - 1 : Front(s)[i] = s[i]
         /\ Last(s) = s[Len(s)] /\ Last(s) \in Activations
<1>1. Len(s) \in Nat \ {0}
  BY EmptySeq
<1>2. Front(s) = SubSeq(s, 1, Len(s) - 1)
  BY DEF Front
<1>3. Last(s) \in Activations
  BY <1>1, ElementOfSeq DEF Last
<1>4. /\ Front(s) \in Seq(Activations) /\ Len(Front(s)) = Len(s) - 1
      /\ \A i \in 1 .. Len(s) - 1 : Front(s)[i] = s[i]
  <2> DEFINE n == Len(s) - 1
  <2>1. n \in Nat /\ \A i \in 1 .. n : s[i] \in Activations
    BY <1>1, ElementOfSeq
  <2> HIDE DEF Activations, n
  <2>2. /\ SubSeq(s, 1, n) \in Seq(Activations)
        /\ Len(SubSeq(s, 1, n)) = IF 1 <= n THEN n - 1 + 1 ELSE 0
        /\ \A i \in 1 .. n - 1 + 1 : SubSeq(s, 1, n)[i] = s[1 + i - 1]
    BY <2>1, SubSeqProperties
  <2>3. Len(SubSeq(s, 1, n)) = n /\ \A i \in 1 .. n : SubSeq(s, 1, n)[i] = s[i]
    <3>1. n - 1 + 1 = n /\ (IF 1 <= n THEN n - 1 + 1 ELSE 0) = n
      BY <2>1
    <3>2. \A i \in 1 .. n : 1 + i - 1 = i
      BY <2>1
    <3> QED  BY <2>2, <3>1, <3>2
  <2>4. n = Len(s) - 1 /\ Front(s) = SubSeq(s, 1, n)
    BY <1>2 DEF n
  <2> QED  BY <2>2, <2>3, <2>4
<1> QED  BY <1>1, <1>3, <1>4 DEF Last

\* When an activation returns, the one below has done one more parent; the
\* others are as they were.
LEMMA Popped ==
  ASSUME NEW s \in Seq(Activations), s # <<>>, NEW status \in Status
  PROVE  /\ Pop(s, status) \in Seq(Activations)
         /\ Len(Pop(s, status)) = Len(s) - 1
         /\ Front(s) = <<>> <=> Len(s) = 1
         /\ \A i \in 1 .. Len(s) - 2 : Pop(s, status)[i] = s[i]
         /\ Len(s) > 1 =>
              /\ Pop(s, status)[Len(s) - 1].node = s[Len(s) - 1].node
              /\ Pop(s, status)[Len(s) - 1].done = s[Len(s) - 1].done + 1
<1>1. /\ Front(s) \in Seq(Activations) /\ Len(Front(s)) = Len(s) - 1 /\ Len(s) \in Nat \ {0}
      /\ \A i \in 1 .. Len(s) - 1 : Front(s)[i] = s[i]
  BY FrontIs
<1>2. Front(s) = <<>> <=> Len(s) = 1
  BY <1>1, EmptySeq
<1>3. CASE Len(s) = 1
  BY <1>1, <1>2, <1>3, EmptySeq DEF Pop
<1>4. CASE Len(s) > 1
  <2> DEFINE f == Front(s)
             e == [Last(f) EXCEPT !.done = @ + 1, !.status = status]
  <2>1. f \in Seq(Activations) /\ f # <<>> /\ Len(f) = Len(s) - 1
    BY <1>1, <1>2, <1>4
  <2> HIDE DEF f
  <2>2. /\ Front(f) \in Seq(Activations) /\ Len(Front(f)) = Len(f) - 1
        /\ \A i \in 1 .. Len(f) - 1 : Front(f)[i] = f[i]
        /\ Last(f) = f[Len(f)] /\ Last(f) \in Activations
    BY <2>1, FrontIs
  <2>3. e \in Activations /\ e.node = Last(f).node /\ e.done = Last(f).done + 1
    <3> DEFINE l == Last(f)
    <3>1. l \in [node : Nodes, done : Nat, status : Status]
      BY <2>2 DEF Activations
    <3> HIDE DEF l
    <3>2. [l EXCEPT !.done = l.done + 1, !.status = status]
             \in [node : Nodes, done : Nat, status : Status]
      <4>1. l.done + 1 \in Nat
        BY <3>1
      <4>2. \A k \in Nat : [l EXCEPT !.done = k, !.status = status]
                             \in [node : Nodes, done : Nat, status : Status]
        BY <3>1
      <4> QED  BY <4>1, <4>2
    <3>3. /\ [l EXCEPT !.done = l.done + 1, !.status = status].node = l.node
          /\ [l EXCEPT !.done = l.done + 1, !.status = status].done = l.done + 1
      BY <3>1
    <3> QED  BY <3>2, <3>3 DEF Activations, l
  <2>4. Pop(s, status) = Append(Front(f), e)
    <3>1. Front(s) # <<>>
      BY <2>1 DEF f
    <3> QED  BY <3>1 DEF Pop, f
  <2> HIDE DEF e
  <2>5. /\ Pop(s, status) \in Seq(Activations) /\ Len(Pop(s, status)) = Len(f)
        /\ \A i \in 1 .. Len(f) - 1 : Pop(s, status)[i] = f[i]
        /\ Pop(s, status)[Len(f)] = e
    BY <1>1, <1>4, <2>1, <2>2, <2>3, <2>4, AppendProperties
  <2>6. \A i \in 1 .. Len(s) - 1 : f[i] = s[i]
    BY <1>1 DEF f
  <2>7. Len(s) \in Nat /\ Len(f) = Len(s) - 1 /\ Len(f) \in Nat \ {0}
    BY <1>1, <1>4, <2>1
  <2>8. Len(Pop(s, status)) = Len(s) - 1
    BY <2>5, <2>7
  <2>9. ASSUME NEW i \in 1 .. Len(s) - 2
        PROVE  Pop(s, status)[i] = s[i]
    <3>1. i \in 1 .. Len(f) - 1 /\ i \in 1 .. Len(s) - 1
      BY <2>7
    <3> QED  BY <2>5, <2>6, <3>1
  <2>10. Last(f) = s[Len(s) - 1]
    <3>1. Len(f) \in 1 .. Len(s) - 1
      BY <2>7
    <3> QED  BY <2>2, <2>6, <2>7, <3>1
  <2>11. Pop(s, status)[Len(s) - 1] = e
    BY <2>5, <2>7
  <2> QED  BY <1>2, <2>3, <2>5, <2>8, <2>9, <2>10, <2>11
<1> QED  BY <1>1, <1>3, <1>4

\* A new activation on top leaves the others as they were.
LEMMA Pushed ==
  ASSUME NEW s \in Seq(Activations), NEW n \in Nodes
  PROVE  /\ Append(s, Activation(n)) \in Seq(Activations)
         /\ Len(Append(s, Activation(n))) = Len(s) + 1 /\ Len(s) \in Nat
         /\ \A i \in 1 .. Len(s) : Append(s, Activation(n))[i] = s[i]
         /\ Append(s, Activation(n))[Len(s) + 1].node = n
         /\ Append(s, Activation(n))[Len(s) + 1].done = 0
<1>1. Activation(n) \in Activations /\ Activation(n).node = n /\ Activation(n).done = 0
  BY DEF Activations, Activation, Status
<1> HIDE DEF Activations
<1> QED  BY <1>1, AppendProperties, LenProperties

-----------------------------------------------------------------------------
(* The search for a frequency.                                             *)

\* A set of entries has a lowest one.
LEMMA Lowest ==
  ASSUME NEW S \in SUBSET Nat, S # {}
  PROVE  \E m \in S : \A k \in S : m <= k
<1>1. PICK m \in S : \A k \in S : ~ <<k, m>> \in OpToRel(<, Nat)
  BY WFMin, NatLessThanWellFounded
<1>2. ASSUME NEW k \in S
      PROVE  ~(k < m)
  <2>1. k \in Nat /\ m \in Nat
    OBVIOUS
  <2> QED  BY <1>1, <2>1, Zenon DEF OpToRel
<1> QED  BY <1>2

\* What the table holds.
LEMMA EntriesType ==
  /\ Len(FreqTable) \in Nat /\ Entries = 1 .. Len(FreqTable)
  /\ \A i \in Entries : FreqTable[i].hz \in Nat /\ FreqTable[i].mnd \in BOOLEAN
<1>1. FreqTable \in Seq([hz : Nat, mnd : BOOLEAN])
  BY TableAssumption
<1>2. Len(FreqTable) \in Nat /\ Entries = 1 .. Len(FreqTable)
  BY <1>1, LenProperties DEF Entries
<1>3. \A i \in Entries : FreqTable[i] \in [hz : Nat, mnd : BOOLEAN]
  BY <1>1, <1>2, ElementOfSeq
<1> QED  BY <1>2, <1>3

\* The search finds an entry or none; the entry is the one asked for.
LEMMA TargetFreqIs ==
  ASSUME NEW rate \in Nat, NEW policy \in Policies
  PROVE  /\ TargetFreq(rate, policy) \in Entries \cup {Boot}
         /\ TargetFreq(rate, policy) \in Entries =>
              IF policy = "CEIL" THEN IsCeil(TargetFreq(rate, policy), rate)
              ELSE (\E i \in Entries : FreqTable[i].hz <= rate)
                     => IsFloor(TargetFreq(rate, policy), rate)
<1> DEFINE reached == {i \in Entries : FreqTable[i].hz >= rate}
           first == CHOOSE i \in reached : \A j \in reached : i <= j
           freq == TargetFreq(rate, policy)
           N == Len(FreqTable)
<1>1. N \in Nat /\ Entries = 1 .. N /\ \A i \in Entries : FreqTable[i].hz \in Nat
  BY EntriesType
<1>2. \A i, j \in Entries : i < j => FreqTable[i].hz < FreqTable[j].hz
  BY TableAssumption
<1>3. CASE reached = {}
  <2>1. freq = IF policy = "FLOOR" THEN N ELSE Boot
    BY <1>3 DEF TargetFreq, Boot
  <2>2. \A i \in Entries : FreqTable[i].hz < rate
    BY <1>1, <1>3
  <2>3. freq \in Entries \cup {Boot}
    BY <1>1, <2>1 DEF Boot
  <2>4. policy # "FLOOR" => freq \notin Entries
    BY <1>1, <2>1 DEF Boot
  <2>5. policy = "FLOOR" /\ freq \in Entries => IsFloor(freq, rate)
    BY <1>1, <2>1, <2>2 DEF IsFloor
  <2> QED  BY <2>3, <2>4, <2>5 DEF Policies
<1>4. CASE reached # {}
  <2>1. first \in reached /\ \A j \in reached : first <= j
    <3>1. reached \in SUBSET Nat
      BY <1>1
    <3>2. \E i \in reached : \A j \in reached : i <= j
      BY <1>4, <3>1, Lowest
    <3> QED  BY <3>2
  <2> DEFINE found == IF FreqTable[first].hz = rate \/ policy = "CEIL" THEN first ELSE first - 1
  <2>2. freq = IF found = Boot /\ policy = "FLOOR" THEN N ELSE found
    BY <1>4 DEF TargetFreq
  <2> HIDE DEF first, freq
  <2>3. first \in 1 .. N /\ first \in Entries
    BY <1>1, <2>1
  <2>4. \A j \in Entries : FreqTable[j].hz >= rate => first <= j
    BY <2>1
  <2>5. CASE policy = "CEIL"
    <3>1. freq = first
      BY <2>2, <2>3, <2>5 DEF Boot
    <3> QED  BY <2>1, <2>3, <2>4, <2>5, <3>1 DEF IsCeil, freq
  <2>6. CASE policy = "FLOOR" /\ FreqTable[first].hz = rate
    <3>1. freq = first
      BY <2>2, <2>3, <2>6 DEF Boot
    <3>2. \A j \in Entries : FreqTable[j].hz <= rate => j <= first
      BY <1>1, <1>2, <2>3, <2>6
    <3>3. IsFloor(first, rate)
      BY <1>1, <2>3, <2>6, <3>2 DEF IsFloor
    <3> QED  BY <2>3, <2>6, <3>1, <3>3 DEF freq
  <2>7. CASE policy = "FLOOR" /\ FreqTable[first].hz # rate
    <3>1. \A j \in Entries : j < first => FreqTable[j].hz < rate
      BY <1>1, <2>3, <2>4
    <3>2. \A j \in Entries : FreqTable[j].hz <= rate => j < first
      <4>1. FreqTable[first].hz > rate
        BY <1>1, <2>1, <2>3, <2>7
      <4>2. ASSUME NEW j \in Entries, first < j
            PROVE  FreqTable[first].hz < FreqTable[j].hz
        BY <1>2, <2>3, <4>2
      <4> QED  BY <1>1, <2>3, <4>1, <4>2
    <3>3. CASE first = 1
      <4>1. freq = N
        BY <2>2, <2>7, <3>3 DEF Boot
      <4>2. ~ \E i \in Entries : FreqTable[i].hz <= rate
        BY <1>1, <3>2, <3>3
      <4>3. freq \in Entries
        BY <1>1, <2>3, <4>1
      <4> QED  BY <2>7, <4>2, <4>3 DEF freq
    <3>4. CASE first # 1
      <4>1. freq = first - 1 /\ freq \in Entries
        BY <1>1, <2>2, <2>3, <2>7, <3>4 DEF Boot
      <4>2. FreqTable[freq].hz < rate
        BY <2>3, <3>1, <4>1
      <4>3. \A j \in Entries : FreqTable[j].hz <= rate => j <= freq
        BY <1>1, <2>3, <3>2, <4>1
      <4>4. IsFloor(freq, rate)
        BY <1>1, <4>1, <4>2, <4>3 DEF IsFloor
      <4> QED  BY <2>7, <4>1, <4>4 DEF freq
    <3> QED  BY <3>3, <3>4
  <2> QED  BY <2>5, <2>6, <2>7 DEF Policies
<1> QED  BY <1>3, <1>4

-----------------------------------------------------------------------------
(* The variables have their types.                                         *)

\* TypeOK by the parts that change together.
CallOK ==
  /\ call \in Calls /\ result \in Status \cup {"pending"}
  /\ pc \in {"idle", "enable", "halt", "write", "update", "wait",
             "collapse", "poll", "memory", "control"}
StackOK == stack \in Seq(Activations)
BranchesOK == enabled \subseteq Branches /\ running \subseteq Branches
TodoOK == todo \in Seq(Registers)
RegsOK == regs \in [Roots -> Config]
LatchedOK == latched \in [Roots -> Config] /\ updating \subseteq Roots
Domain == [clamped : BOOLEAN, collapsed : BOOLEAN, powered : BOOLEAN,
           memForced : BOOLEAN, hwCtl : BOOLEAN]
GdscOK == gdsc \in [Domains -> Domain]
TimedOK == timedOut \subseteq Nodes \cup Domains

\* The parts make up the whole, before a step and after it.
LEMMA TypeParts ==
  /\ TypeOK <=> /\ CallOK /\ StackOK /\ BranchesOK /\ TodoOK /\ RegsOK /\ LatchedOK
                /\ GdscOK /\ TimedOK
  /\ TypeOK' <=> /\ CallOK' /\ StackOK' /\ BranchesOK' /\ TodoOK' /\ RegsOK' /\ LatchedOK'
                 /\ GdscOK' /\ TimedOK'
BY DEF TypeOK, CallOK, StackOK, BranchesOK, TodoOK, RegsOK, LatchedOK, GdscOK, TimedOK,
       Activations, Domain

\* Variables left alone keep their types.
LEMMA Unchanged ==
  ASSUME TypeOK
  PROVE  /\ UNCHANGED <<call, result, pc>> => CallOK'
         /\ UNCHANGED stack => StackOK'
         /\ UNCHANGED <<enabled, running>> => BranchesOK'
         /\ UNCHANGED todo => TodoOK'
         /\ UNCHANGED regs => RegsOK'
         /\ UNCHANGED <<updating, latched>> => LatchedOK'
         /\ UNCHANGED gdsc => GdscOK'
         /\ UNCHANGED timedOut => TimedOK'
BY TypeParts DEF CallOK, StackOK, BranchesOK, TodoOK, RegsOK, LatchedOK, GdscOK, TimedOK

\* A call to set a rate names a root, a rate and a policy.
LEMMA RateCalls ==
  ASSUME NEW c \in Calls, c.op = "rate"
  PROVE  c.node \in Roots /\ c.rate \in Rates /\ c.policy \in Policies
BY DEF Calls

\* The sequences that SetRate goes through.
LEMMA OrdersType ==
  /\ Orders \subseteq Seq(Registers)
  /\ <<>> \in Seq(Registers)
  /\ \A order \in Orders :
       /\ Head(order) \in Registers /\ Len(order) \in 1 .. 4
       /\ Len(order) = 1 => Head(order) = "cfg" /\ Tail(order) = <<>>
       /\ Len(order) # 1 => Tail(order) \in Orders /\ Len(Tail(order)) = Len(order) - 1
       /\ Len(order) = 2 => Head(order) = "d"
       /\ Len(order) = 3 => Head(order) = "n"
       /\ Len(order) = 4 => Head(order) = "m"
<1>1. /\ <<"m", "n", "d", "cfg">> \in Seq(Registers) /\ <<"n", "d", "cfg">> \in Seq(Registers)
      /\ <<"d", "cfg">> \in Seq(Registers) /\ <<"cfg">> \in Seq(Registers)
  BY DEF Registers
<1>2. /\ Len(<<"m", "n", "d", "cfg">>) = 4 /\ Len(<<"n", "d", "cfg">>) = 3
      /\ Len(<<"d", "cfg">>) = 2 /\ Len(<<"cfg">>) = 1
  OBVIOUS
<1>3. /\ Head(<<"m", "n", "d", "cfg">>) = "m" /\ Head(<<"n", "d", "cfg">>) = "n"
      /\ Head(<<"d", "cfg">>) = "d" /\ Head(<<"cfg">>) = "cfg"
  OBVIOUS
<1>4. /\ Tail(<<"m", "n", "d", "cfg">>) = <<"n", "d", "cfg">>
      /\ Tail(<<"n", "d", "cfg">>) = <<"d", "cfg">>
      /\ Tail(<<"d", "cfg">>) = <<"cfg">> /\ Tail(<<"cfg">>) = <<>>
  OBVIOUS
<1> HIDE DEF Orders
<1>5. ASSUME NEW order \in Orders
      PROVE  \/ order = <<"m", "n", "d", "cfg">> \/ order = <<"n", "d", "cfg">>
             \/ order = <<"d", "cfg">> \/ order = <<"cfg">>
  BY DEF Orders
<1>6. Orders \subseteq Seq(Registers)
  BY <1>1, <1>5
<1>7. <<>> \in Seq(Registers)
  BY EmptySeq
<1>8. /\ <<"n", "d", "cfg">> \in Orders /\ <<"d", "cfg">> \in Orders /\ <<"cfg">> \in Orders
  BY DEF Orders
<1>9. ASSUME NEW order \in Orders
      PROVE  /\ Head(order) \in Registers /\ Len(order) \in 1 .. 4
             /\ Len(order) = 1 => Head(order) = "cfg" /\ Tail(order) = <<>>
             /\ Len(order) # 1 => Tail(order) \in Orders /\ Len(Tail(order)) = Len(order) - 1
             /\ Len(order) = 2 => Head(order) = "d"
             /\ Len(order) = 3 => Head(order) = "n"
             /\ Len(order) = 4 => Head(order) = "m"
  <2>1. {"m", "n", "d", "cfg"} = Registers
    BY DEF Registers
  <2>2. CASE order = <<"m", "n", "d", "cfg">>
    BY <1>2, <1>3, <1>4, <1>8, <2>1, <2>2
  <2>3. CASE order = <<"n", "d", "cfg">>
    BY <1>2, <1>3, <1>4, <1>8, <2>1, <2>3
  <2>4. CASE order = <<"d", "cfg">>
    BY <1>2, <1>3, <1>4, <1>8, <2>1, <2>4
  <2>5. CASE order = <<"cfg">>
    BY <1>2, <1>3, <1>4, <2>1, <2>5
  <2> QED  BY <1>5, <2>2, <2>3, <2>4, <2>5
<1> QED  BY <1>6, <1>7, <1>9

\* The initial states have the types.
LEMMA TypeInvInit == Init => TypeInv
<1> SUFFICES ASSUME Init PROVE TypeInv
  OBVIOUS
<1>1. call = [op |-> "none"] /\ result = "SUCCESS" /\ pc = "idle" /\ stack = <<>> /\ todo = <<>>
  BY DEF Init
<1>2. CallOK
  BY <1>1 DEF CallOK, Calls, Status
<1>3. StackOK /\ TodoOK
  BY <1>1, EmptySeq DEF StackOK, TodoOK
<1>4. BranchesOK /\ TimedOK
  BY DEF Init, BranchesOK, TimedOK
<1>5. RegsOK /\ LatchedOK
  BY DEF Init, RegsOK, LatchedOK, Config
<1>6. GdscOK
  BY DEF Init, GdscOK, Domain
<1>7. CallFits
  BY <1>1 DEF CallFits, Walking, Setting, Powering
<1>8. StackFits
  BY <1>1, EmptySeq DEF StackFits, Walking
<1>9. TodoFits
  BY <1>1 DEF TodoFits
<1> QED  BY <1>2, <1>3, <1>4, <1>5, <1>6, <1>7, <1>8, <1>9, TypeParts DEF TypeInv

\* The top activation is of a node, and its parents done are parents of it.
LEMMA TopIs ==
  ASSUME TypeInv, Walking
  PROVE  /\ stack \in Seq(Activations) /\ stack # <<>> /\ Len(stack) \in Nat \ {0}
         /\ Top = stack[Len(stack)]
         /\ Top.node \in Nodes /\ Top.done \in Nat /\ Top.status \in Status
         /\ Top.done <= Len(Parents[Top.node])
<1>1. stack \in Seq(Activations) /\ stack # <<>>
  BY TypeParts DEF TypeInv, StackOK, StackFits
<1>2. Len(stack) \in Nat \ {0} /\ Top = stack[Len(stack)] /\ Top \in Activations
  BY <1>1, FrontIs DEF Top
<1>3. Len(stack) \in 1 .. Len(stack)
  BY <1>2
<1>4. stack[Len(stack)].done <= Len(Parents[stack[Len(stack)].node])
  BY <1>3 DEF TypeInv, StackFits
<1> QED  BY <1>1, <1>2, <1>4 DEF Activations

\* What the return of the top activation makes of the call and the stack.
LEMMA Ends ==
  ASSUME TypeInv, Walking, Top.done = Len(Parents[Top.node]),
         NEW status \in Status, Return(status)
  PROVE  /\ stack' = Pop(stack, status)
         /\ call' = call
         /\ IF Len(stack) = 1 THEN pc' = "idle" /\ result' = status
            ELSE pc' = "enable" /\ result' = result /\ result = "pending"
         /\ CallOK' /\ StackOK' /\ CallFits' /\ StackFits'
         /\ todo' = todo => TodoFits'
<1> DEFINE s == stack
           L == Len(stack)
<1>1. s \in Seq(Activations) /\ s # <<>> /\ L \in Nat \ {0} /\ Top = s[L]
  BY TopIs
<1>2. /\ Pop(s, status) \in Seq(Activations)
      /\ Len(Pop(s, status)) = L - 1
      /\ Front(s) = <<>> <=> L = 1
      /\ \A i \in 1 .. L - 2 : Pop(s, status)[i] = s[i]
      /\ L > 1 =>
           /\ Pop(s, status)[L - 1].node = s[L - 1].node
           /\ Pop(s, status)[L - 1].done = s[L - 1].done + 1
  BY <1>1, Popped
<1>3. /\ stack' = Pop(s, status) /\ call' = call
      /\ IF L = 1 THEN pc' = "idle" /\ result' = status ELSE pc' = "enable" /\ result' = result
  BY <1>2 DEF Return, Pop, Finish, Go
<1>4. pc \in {"enable", "halt"} /\ pc # "idle" /\ result = "pending"
  BY DEF Walking, TypeInv, CallFits
<1>5. CallOK' /\ StackOK'
  BY <1>2, <1>3, TypeParts DEF TypeInv, CallOK, StackOK
<1>6. CallFits'
  <2>1. call.op \in {"enable", "disable"} /\ call.node \in Nodes
    BY DEF TypeInv, CallFits
  <2>2. call.op = "disable" => call.node \in Disablable
    BY DEF TypeInv, CallFits
  <2>3. "pending" \notin Status
    BY DEF Status
  <2> QED  BY <1>3, <1>4, <2>1, <2>2, <2>3 DEF CallFits, Walking, Setting, Powering
<1>7. StackFits'
  <2>1. CASE L = 1
    <3>1. stack' = <<>> /\ pc' = "idle"
      BY <1>2, <1>3, <2>1 DEF Pop
    <3> QED  BY <3>1, EmptySeq DEF StackFits, Walking
  <2>2. CASE L # 1
    <3> DEFINE t == stack'
    <3>1. /\ t \in Seq(Activations) /\ Len(t) = L - 1 /\ L \in Nat /\ L > 1 /\ pc' = "enable"
          /\ \A i \in 1 .. L - 2 : t[i] = s[i]
          /\ t[L - 1].node = s[L - 1].node /\ t[L - 1].done = s[L - 1].done + 1
      BY <1>1, <1>2, <1>3, <2>2
    <3>2. /\ \A i \in 1 .. L : s[i].done <= Len(Parents[s[i].node])
          /\ \A i \in 1 .. L - 1 : Child(s[i], s[i + 1])
          /\ s[1].node = call.node
      BY DEF TypeInv, StackFits
    <3>3. Len(t) # 0 /\ t # <<>>
      BY <3>1
    <3> HIDE DEF t, s, L
    <3>4. t[1].node = call'.node
      <4>1. CASE L - 1 = 1
        BY <1>3, <3>1, <3>2, <4>1
      <4>2. CASE L - 1 # 1
        <5>1. 1 \in 1 .. L - 2
          BY <3>1, <4>2
        <5> QED  BY <1>3, <3>1, <3>2, <5>1
      <4> QED  BY <4>1, <4>2
    <3>5. ASSUME NEW i \in 1 .. L - 1
          PROVE  t[i].done <= Len(Parents[t[i].node])
      <4>1. CASE i = L - 1
        <5>1. Child(s[L - 1], s[L])
          <6>1. L - 1 + 1 = L
            BY <3>1
          <6> QED  BY <3>2, <4>1, <6>1
        <5>2. s[L - 1].done \in Nat /\ Len(Parents[s[L - 1].node]) \in Nat
          <6>1. s[L - 1] \in Activations
            <7>1. L - 1 \in 1 .. Len(s)
              BY <3>1 DEF L, s
            <7> QED  BY <1>1, <7>1, ElementOfSeq
          <6>2. s[L - 1].node \in Nodes /\ s[L - 1].done \in Nat
            BY <6>1 DEF Activations
          <6> QED  BY <6>2, ParentsType
        <5> QED  BY <3>1, <4>1, <5>1, <5>2 DEF Child
      <4>2. CASE i # L - 1
        <5>1. i \in 1 .. L - 2 /\ i \in 1 .. L
          BY <3>1, <4>2
        <5> QED  BY <3>1, <3>2, <5>1
      <4> QED  BY <4>1, <4>2
    <3>6. ASSUME NEW i \in 1 .. L - 2
          PROVE  Child(t[i], t[i + 1])
      <4>1. i \in 1 .. L - 1 /\ t[i] = s[i]
        BY <3>1
      <4>2. Child(s[i], s[i + 1])
        BY <3>2, <4>1
      <4>3. t[i + 1].node = s[i + 1].node
        <5>1. CASE i = L - 2
          <6>1. i + 1 = L - 1
            BY <3>1, <5>1
          <6> QED  BY <3>1, <6>1
        <5>2. CASE i # L - 2
          <6>1. i + 1 \in 1 .. L - 2
            BY <3>1, <5>2
          <6> QED  BY <3>1, <6>1
        <5> QED  BY <5>1, <5>2
      <4> QED  BY <4>1, <4>2, <4>3 DEF Child
    <3>7. Len(t) - 1 = L - 2
      BY <3>1
    <3>8. pc' # "halt" /\ Walking'
      BY <3>1 DEF Walking
    <3>9. \A i \in 1 .. Len(t) : t[i].done <= Len(Parents[t[i].node])
      BY <3>1, <3>5
    <3>10. \A i \in 1 .. Len(t) - 1 : Child(t[i], t[i + 1])
      BY <3>6, <3>7
    <3> QED  BY <3>3, <3>4, <3>8, <3>9, <3>10 DEF StackFits, t
  <2> QED  BY <2>1, <2>2
<1>8. todo' = todo => TodoFits'
  BY <1>3, <1>4 DEF TypeInv, TodoFits
<1> QED  BY <1>3, <1>4, <1>5, <1>6, <1>7, <1>8

\* Every step keeps the types.
LEMMA TypeInvNext == TypeInv /\ [Next]_vars => TypeInv'
<1> SUFFICES ASSUME TypeInv, [Next]_vars PROVE TypeInv'
  OBVIOUS
<1> USE DEF tree, rcg
<1>0. TypeOK /\ CallFits /\ StackFits /\ TodoFits
  BY DEF TypeInv
<1>1. ASSUME NEW n \in Nodes, NEW op \in {"enable", "disable"}, CallEnable(n, op)
      PROVE  TypeInv'
  <2>1. /\ pc' = "enable" /\ call' = [op |-> op, node |-> n] /\ result' = "pending"
        /\ stack' = <<Activation(n)>>
        /\ op = "disable" => n \in Disablable
    BY <1>1 DEF CallEnable, Begin
  <2>2. CallOK'
    BY <2>1 DEF CallOK, Calls
  <2>3. /\ Activation(n) \in Activations
        /\ Activation(n).node = n /\ Activation(n).done = 0
    BY DEF Activation, Activations, Status
  <2>4. stack' \in Seq(Activations) /\ Len(stack') = 1 /\ stack'[1] = Activation(n)
    <3> HIDE DEF Activations
    <3> QED  BY <2>1, <2>3
  <2>5. TimedOK'
    BY <1>0, <1>1, TypeParts DEF CallEnable, TimedOK
  <2>6. CallFits'
    BY <2>1 DEF CallFits, Walking, Setting, Powering
  <2>7. StackFits'
    <3>1. Len(Parents[n]) \in Nat
      BY ParentsType
    <3>2. stack' # <<>>
      BY <2>4, EmptySeq
    <3> QED  BY <2>1, <2>3, <2>4, <3>1, <3>2 DEF StackFits, Walking
  <2>8. StackOK' /\ BranchesOK' /\ TodoOK' /\ RegsOK' /\ LatchedOK' /\ GdscOK'
    BY <1>0, <1>1, <2>4, Unchanged DEF CallEnable, StackOK, BranchesOK
  <2>9. TodoFits'
    BY <1>0, <1>1 DEF CallEnable, Begin, TodoFits
  <2> QED  BY <2>2, <2>5, <2>6, <2>7, <2>8, <2>9, TypeParts DEF TypeInv
<1>2. CASE EnableParent
  <2> DEFINE s == stack
             L == Len(stack)
             n == Parents[Top.node][Top.done + 1]
  <2>1. pc = "enable" /\ Walking /\ Top.done < Len(Parents[Top.node]) /\ stack' = Append(s, Activation(n))
    BY <1>2 DEF EnableParent, Walking
  <2>2. /\ s \in Seq(Activations) /\ s # <<>> /\ L \in Nat \ {0} /\ Top = s[L]
        /\ Top.node \in Nodes /\ Top.done \in Nat
    BY <2>1, TopIs
  <2>3. n \in Nodes
    BY <2>1, <2>2, ParentsType
  <2>4. /\ stack' \in Seq(Activations) /\ Len(stack') = L + 1
        /\ \A i \in 1 .. L : stack'[i] = s[i]
        /\ stack'[L + 1].node = n /\ stack'[L + 1].done = 0
    BY <2>1, <2>2, <2>3, Pushed
  <2>5. CallFits'
    BY <1>0, <1>2 DEF EnableParent, CallFits, Walking, Setting, Powering
  <2>6. StackFits'
    <3> HIDE DEF s, L, n
    <3>1. /\ \A i \in 1 .. L : s[i].done <= Len(Parents[s[i].node])
          /\ \A i \in 1 .. L - 1 : Child(s[i], s[i + 1])
          /\ s[1].node = call.node
      BY <1>0, <2>1 DEF StackFits, s, L
    <3>2. stack' # <<>> /\ Walking' /\ pc' # "halt" /\ call' = call
      BY <1>2, <2>2, <2>4 DEF EnableParent, Walking
    <3>3. stack'[1].node = call'.node
      BY <2>2, <2>4, <3>1, <3>2
    <3>4. ASSUME NEW i \in 1 .. L + 1
          PROVE  stack'[i].done <= Len(Parents[stack'[i].node])
      <4>1. CASE i = L + 1
        BY <2>3, <2>4, <4>1, ParentsType
      <4>2. CASE i # L + 1
        BY <2>2, <2>4, <3>1, <4>2
      <4> QED  BY <4>1, <4>2
    <3>5. ASSUME NEW i \in 1 .. L
          PROVE  Child(stack'[i], stack'[i + 1])
      <4>1. CASE i = L
        BY <2>1, <2>2, <2>4, <4>1 DEF Child, n
      <4>2. CASE i # L
        <5>1. i \in 1 .. L - 1 /\ i + 1 \in 1 .. L
          BY <2>2, <4>2
        <5> QED  BY <2>4, <3>1, <5>1 DEF Child
      <4> QED  BY <4>1, <4>2
    <3>6. Len(stack') = L + 1 /\ Len(stack') - 1 = L
      BY <2>2, <2>4
    <3> QED  BY <3>2, <3>3, <3>4, <3>5, <3>6 DEF StackFits
  <2>7. /\ CallOK' /\ StackOK' /\ BranchesOK' /\ TodoOK' /\ RegsOK' /\ LatchedOK'
        /\ GdscOK' /\ TimedOK'
    BY <1>0, <1>2, <2>4, Unchanged DEF EnableParent, StackOK
  <2>8. TodoFits'
    BY <1>0, <1>2 DEF EnableParent, TodoFits
  <2> QED  BY <2>5, <2>6, <2>7, <2>8, TypeParts DEF TypeInv
<1>3. ASSUME NEW status \in Status, Walking, Top.done = Len(Parents[Top.node]),
             Return(status), UNCHANGED <<todo, regs, updating, latched, gdsc>>,
             BranchesOK', TimedOK'
      PROVE  TypeInv'
  <2>1. CallOK' /\ StackOK' /\ CallFits' /\ StackFits' /\ TodoFits'
    BY <1>3, Ends
  <2>2. TodoOK' /\ RegsOK' /\ LatchedOK' /\ GdscOK'
    BY <1>0, <1>3, Unchanged
  <2> QED  BY <1>3, <2>1, <2>2, TypeParts DEF TypeInv
<1>4. CASE Switch
  <2>1. Walking /\ Top.done = Len(Parents[Top.node]) /\ Top.node \in Branches /\ pc = "enable"
    BY <1>4 DEF Switch, Walking
  <2>2. BranchesOK' /\ TimedOK'
    BY <1>0, <1>4, <2>1, TypeParts DEF Switch, BranchesOK, TimedOK
  <2>3. CASE Polled(Top.node)
    <3>1. pc' = "halt" /\ UNCHANGED <<call, result, stack, timedOut>>
      BY <1>4, <2>3 DEF Switch, Go
    <3>2. /\ CallOK' /\ StackOK' /\ TodoOK' /\ RegsOK' /\ LatchedOK' /\ GdscOK'
      <4>1. CallOK'
        BY <1>0, <3>1, TypeParts DEF CallOK
      <4> QED  BY <1>0, <1>4, <3>1, <4>1, Unchanged DEF Switch
    <3>3. CallFits'
      BY <1>0, <2>1, <3>1 DEF CallFits, Walking, Setting, Powering
    <3>4. StackFits'
      <4>1. Polled(Top.node)' /\ (Top.done = Len(Parents[Top.node]))' /\ (Top.node \in Branches)'
        BY <2>1, <2>3, <3>1 DEF Top, Polled, Skipped, Enabling
      <4> QED  BY <1>0, <2>1, <3>1, <4>1 DEF StackFits, Walking
    <3>5. TodoFits'
      BY <1>0, <1>4, <2>1, <3>1 DEF Switch, TodoFits
    <3> QED  BY <2>2, <3>2, <3>3, <3>4, <3>5, TypeParts DEF TypeInv
  <2>4. CASE ~Polled(Top.node)
    <3>1. PICK status \in Status : status = IF Skipped(Top.node) THEN "SUCCESS" ELSE Top.status
      BY <2>1, TopIs DEF Status
    <3>2. Return(status)
      BY <1>4, <2>4, <3>1 DEF Switch
    <3>3. UNCHANGED <<todo, regs, updating, latched, gdsc>>
      BY <1>4 DEF Switch
    <3> QED  BY <1>3, <2>1, <2>2, <3>2, <3>3
  <2> QED  BY <2>3, <2>4
<1>5. CASE HaltChecked \/ HaltTimeout
  <2>1. Walking /\ Top.done = Len(Parents[Top.node]) /\ Top.node \in Branches
    BY <1>0, <1>5 DEF HaltChecked, HaltTimeout, Walking, StackFits
  <2>2. BranchesOK' /\ TimedOK'
    BY <1>0, <1>5, <2>1, TypeParts DEF HaltChecked, HaltTimeout, BranchesOK, TimedOK, Nodes
  <2>3. PICK status \in Status : status = Top.status
    BY <2>1, TopIs
  <2>4. Return(status) /\ UNCHANGED <<todo, regs, updating, latched, gdsc>>
    BY <1>5, <2>3 DEF HaltChecked, HaltTimeout
  <2> QED  BY <1>3, <2>1, <2>2, <2>4
<1>6. CASE PassNode
  <2>1. Walking /\ Top.done = Len(Parents[Top.node])
    BY <1>6 DEF PassNode, Walking
  <2>2. BranchesOK' /\ TimedOK'
    BY <1>0, <1>6, Unchanged DEF PassNode
  <2>3. PICK status \in Status : status = IF Top.node \in Roots THEN Top.status ELSE "UNSUPPORTED"
    BY <2>1, TopIs DEF Status
  <2>4. Return(status) /\ UNCHANGED <<todo, regs, updating, latched, gdsc>>
    BY <1>6, <2>3 DEF PassNode
  <2> QED  BY <1>3, <2>1, <2>2, <2>4
<1>7. ASSUME NEW r \in Roots, NEW rate \in Rates, NEW policy \in Policies,
             ClockRcg2SetRate(r, rate, policy)
      PROVE  TypeInv'
  <2> DEFINE c == [op |-> "rate", node |-> r, rate |-> rate, policy |-> policy]
             freq == IF r \in Tunable THEN TargetFreq(rate, policy) ELSE Boot
  <2>1. c \in Calls /\ c.op = "rate" /\ c.node = r /\ c.rate = rate /\ c.policy = policy
    BY DEF Calls
  <2>2. freq \in Entries \cup {Boot}
    BY TargetFreqIs, TableAssumption
  <2>3. /\ pc = "idle" /\ call' = c /\ stack' = stack
        /\ IF freq = Boot THEN pc' = "idle" /\ result' = "NOT_FOUND" /\ todo' = todo
           ELSE /\ pc' = "write" /\ result' = "pending"
                /\ todo' = IF FreqTable[freq].mnd THEN <<"m", "n", "d", "cfg">> ELSE <<"cfg">>
    BY <1>7 DEF ClockRcg2SetRate, Begin
  <2> HIDE DEF c
  <2>4. CallOK'
    BY <2>1, <2>3 DEF CallOK, Status
  <2>5. TodoOK' /\ TodoFits'
    <3>1. <<"m", "n", "d", "cfg">> \in Orders /\ <<"cfg">> \in Orders
      BY DEF Orders
    <3>2. freq = Boot => todo' = <<>> /\ pc' # "write"
      BY <1>0, <2>3 DEF TodoFits
    <3>3. freq # Boot => todo' \in Orders /\ pc' = "write"
      BY <2>3, <3>1
    <3> HIDE DEF freq
    <3> QED  BY <3>2, <3>3, OrdersType DEF TodoOK, TodoFits
  <2>6. CallFits'
    <3>1. freq # Boot => TargetFreq(rate, policy) \in Entries
      BY <2>2
    <3> HIDE DEF freq
    <3> QED  BY <2>1, <2>3, <3>1 DEF CallFits, Walking, Setting, Powering
  <2>7. StackFits'
    BY <1>0, <2>3, EmptySeq DEF StackFits, Walking
  <2>8. StackOK' /\ BranchesOK' /\ RegsOK' /\ LatchedOK' /\ GdscOK' /\ TimedOK'
    BY <1>0, <1>7, Unchanged DEF ClockRcg2SetRate
  <2> QED  BY <2>4, <2>5, <2>6, <2>7, <2>8, TypeParts DEF TypeInv
<1>8. ASSUME ~Walking, ~Walking', UNCHANGED stack
      PROVE  StackFits' /\ StackOK'
  <2>1. stack = <<>>
    BY <1>0, <1>8 DEF StackFits
  <2> QED  BY <1>0, <1>8, <2>1, EmptySeq, Unchanged DEF StackFits, Walking
<1>9. CASE WriteRegister
  <2>1. /\ pc = "write" /\ pc' = (IF Len(todo) = 1 THEN "update" ELSE "write")
        /\ UNCHANGED <<call, result, stack>>
        /\ todo' = Tail(todo)
    BY <1>9 DEF WriteRegister, Go
  <2>2. call.op = "rate" /\ call.node \in Roots /\ TargetFreq(call.rate, call.policy) \in Entries
    BY <1>0, <2>1 DEF CallFits, Setting
  <2>3. CallOK'
    BY <1>0, <2>1, TypeParts DEF CallOK
  <2>4. CallFits'
    BY <1>0, <2>1, <2>2 DEF CallFits, Walking, Setting, Powering
  <2>5. StackFits' /\ StackOK'
    BY <1>8, <2>1 DEF Walking
  <2>6. todo \in Orders
    BY <1>0, <2>1 DEF TodoFits
  <2>7. TodoOK' /\ TodoFits'
    BY <2>1, <2>6, OrdersType DEF TodoOK, TodoFits
  <2>8. RegsOK'
    <3>1. Head(todo) \in Registers /\ regs \in [Roots -> [Registers -> Entries \cup {Boot}]]
      BY <1>0, <2>6, OrdersType, TypeParts DEF RegsOK, Config
    <3>2. regs' = [regs EXCEPT ![call.node][Head(todo)] = TargetFreq(call.rate, call.policy)]
      BY <1>9 DEF WriteRegister
    <3> QED  BY <2>2, <3>1, <3>2 DEF RegsOK, Config
  <2>9. BranchesOK' /\ LatchedOK' /\ GdscOK' /\ TimedOK'
    BY <1>0, <1>9, Unchanged DEF WriteRegister
  <2> QED  BY <2>3, <2>4, <2>5, <2>7, <2>8, <2>9, TypeParts DEF TypeInv
<1>10. CASE RequestUpdate
  <2>1. pc = "update" /\ pc' = "wait" /\ UNCHANGED <<call, result, stack, todo>>
    BY <1>10 DEF RequestUpdate, Go
  <2>2. CallOK' /\ CallFits' /\ TodoFits'
    BY <1>0, <2>1, TypeParts DEF CallOK, CallFits, TodoFits, Walking, Setting, Powering
  <2>3. StackFits' /\ StackOK'
    BY <1>8, <2>1 DEF Walking
  <2>4. LatchedOK'
    BY <1>0, <1>10, <2>1, TypeParts DEF RequestUpdate, LatchedOK, CallFits, Setting
  <2>5. BranchesOK' /\ TodoOK' /\ RegsOK' /\ GdscOK' /\ TimedOK'
    BY <1>0, <1>10, Unchanged DEF RequestUpdate
  <2> QED  BY <2>2, <2>3, <2>4, <2>5, TypeParts DEF TypeInv
<1>11. CASE Updated \/ UpdateTimeout
  <2>1. /\ pc = "wait" /\ pc' = "idle" /\ result' \in {"SUCCESS", "TIMEOUT"}
        /\ UNCHANGED <<call, stack, todo>>
    BY <1>11 DEF Updated, UpdateTimeout, Finish
  <2>2. CallOK' /\ CallFits' /\ TodoFits'
    BY <1>0, <2>1, TypeParts
       DEF CallOK, CallFits, TodoFits, Walking, Setting, Powering, Status
  <2>3. StackFits' /\ StackOK'
    BY <1>8, <2>1 DEF Walking
  <2>4. TimedOK'
    BY <1>0, <1>11, <2>1, TypeParts DEF Updated, UpdateTimeout, TimedOK, CallFits, Setting, Nodes
  <2>5. BranchesOK' /\ TodoOK' /\ RegsOK' /\ LatchedOK' /\ GdscOK'
    BY <1>0, <1>11, Unchanged DEF Updated, UpdateTimeout
  <2> QED  BY <2>2, <2>3, <2>4, <2>5, TypeParts DEF TypeInv
<1>12. ASSUME NEW d \in Domains, ClockGdscEnable(d)
       PROVE  TypeInv'
  <2>1. /\ pc = "idle" /\ pc' = "collapse" /\ result' = "pending"
        /\ call' = [op |-> "power", node |-> d]
        /\ UNCHANGED <<stack, todo>>
    BY <1>12 DEF ClockGdscEnable, Begin
  <2>2. CallOK' /\ CallFits' /\ TodoFits'
    BY <1>0, <2>1 DEF CallOK, CallFits, TodoFits, Walking, Setting, Powering, Calls
  <2>3. StackFits' /\ StackOK'
    BY <1>8, <2>1 DEF Walking
  <2>4. GdscOK'
    BY <1>0, <1>12, TypeParts DEF ClockGdscEnable, SetDomain, GdscOK, Domain
  <2>5. BranchesOK' /\ TodoOK' /\ RegsOK' /\ LatchedOK' /\ TimedOK'
    BY <1>0, <1>12, Unchanged DEF ClockGdscEnable
  <2> QED  BY <2>2, <2>3, <2>4, <2>5, TypeParts DEF TypeInv
<1>13. CASE ClearCollapse \/ PowerPolled \/ PowerTimeout \/ ForceMemory
  <2>1. /\ pc \in {"collapse", "poll", "memory"} /\ pc' \in {"poll", "memory", "control"}
        /\ UNCHANGED <<call, result, stack, todo>>
    BY <1>13 DEF ClearCollapse, PowerPolled, PowerTimeout, ForceMemory, Go
  <2>2. CallOK' /\ CallFits' /\ TodoFits'
    BY <1>0, <2>1, TypeParts DEF CallOK, CallFits, TodoFits, Walking, Setting, Powering
  <2>3. StackFits' /\ StackOK'
    BY <1>8, <2>1 DEF Walking
  <2>4. call.node \in Domains
    BY <1>0, <2>1 DEF CallFits, Powering
  <2>5. GdscOK'
    BY <1>0, <1>13, <2>4, TypeParts
       DEF ClearCollapse, PowerPolled, PowerTimeout, ForceMemory, SetDomain, GdscOK, Domain
  <2>6. TimedOK'
    BY <1>0, <1>13, <2>4, TypeParts
       DEF ClearCollapse, PowerPolled, PowerTimeout, ForceMemory, TimedOK
  <2>7. BranchesOK' /\ TodoOK' /\ RegsOK' /\ LatchedOK'
    BY <1>0, <1>13, Unchanged DEF ClearCollapse, PowerPolled, PowerTimeout, ForceMemory
  <2> QED  BY <2>2, <2>3, <2>5, <2>6, <2>7, TypeParts DEF TypeInv
<1>14. CASE ClockGdsc
  <2>1. /\ pc = "control" /\ pc' = "idle" /\ result' = "SUCCESS"
        /\ UNCHANGED <<call, stack, todo>>
    BY <1>14 DEF ClockGdsc, Finish
  <2>2. CallOK' /\ CallFits' /\ TodoFits'
    BY <1>0, <2>1, TypeParts
       DEF CallOK, CallFits, TodoFits, Walking, Setting, Powering, Status
  <2>3. StackFits' /\ StackOK'
    BY <1>8, <2>1 DEF Walking
  <2>4. call.node \in Domains
    BY <1>0, <2>1 DEF CallFits, Powering
  <2>5. GdscOK'
    BY <1>0, <1>14, <2>4, TypeParts DEF ClockGdsc, SetDomain, GdscOK, Domain
  <2>6. BranchesOK' /\ TodoOK' /\ RegsOK' /\ LatchedOK' /\ TimedOK'
    BY <1>0, <1>14, Unchanged DEF ClockGdsc
  <2> QED  BY <2>2, <2>3, <2>5, <2>6, TypeParts DEF TypeInv
<1>15. ASSUME UNCHANGED <<call, result, pc, stack, todo>>
       PROVE  CallOK' /\ StackOK' /\ TodoOK' /\ CallFits' /\ StackFits' /\ TodoFits'
  <2>1. CallOK' /\ StackOK' /\ TodoOK'
    BY <1>0, <1>15, Unchanged
  <2>2. CallFits' /\ TodoFits'
    BY <1>0, <1>15 DEF CallFits, TodoFits, Walking, Setting, Powering
  <2>3. StackFits'
    BY <1>0, <1>15 DEF StackFits, Walking, Top, Polled, Skipped, Enabling
  <2> QED  BY <2>1, <2>2, <2>3
<1>16. CASE Hardware
  <2>1. ASSUME NEW b \in Branches, HwBranch(b)
        PROVE  TypeInv'
    <3>1. BranchesOK'
      BY <1>0, <2>1, TypeParts DEF HwBranch, BranchesOK
    <3>2. RegsOK' /\ LatchedOK' /\ GdscOK' /\ TimedOK'
      BY <1>0, <2>1, Unchanged DEF HwBranch
    <3> QED  BY <1>15, <2>1, <3>1, <3>2, TypeParts DEF TypeInv, HwBranch
  <2>2. ASSUME NEW r \in Roots, HwLatch(r)
        PROVE  TypeInv'
    <3>1. LatchedOK'
      BY <1>0, <2>2, TypeParts DEF HwLatch, LatchedOK, RegsOK
    <3>2. BranchesOK' /\ RegsOK' /\ GdscOK' /\ TimedOK'
      BY <1>0, <2>2, Unchanged DEF HwLatch
    <3> QED  BY <1>15, <2>2, <3>1, <3>2, TypeParts DEF TypeInv, HwLatch
  <2>3. ASSUME NEW d \in Domains, HwPowerUp(d)
        PROVE  TypeInv'
    <3>1. GdscOK'
      BY <1>0, <2>3, TypeParts DEF HwPowerUp, SetDomain, GdscOK, Domain
    <3>2. BranchesOK' /\ RegsOK' /\ LatchedOK' /\ TimedOK'
      BY <1>0, <2>3, Unchanged DEF HwPowerUp
    <3> QED  BY <1>15, <2>3, <3>1, <3>2, TypeParts DEF TypeInv, HwPowerUp
  <2> QED  BY <1>16, <2>1, <2>2, <2>3 DEF Hardware
<1>17. CASE UNCHANGED vars
  <2>1. BranchesOK' /\ RegsOK' /\ LatchedOK' /\ GdscOK' /\ TimedOK'
    BY <1>0, <1>17, Unchanged DEF vars
  <2> QED  BY <1>15, <1>17, <2>1, TypeParts DEF TypeInv, vars
<1> QED
  BY <1>1, <1>2, <1>4, <1>5, <1>6, <1>7, <1>9, <1>10, <1>11, <1>12, <1>13, <1>14, <1>16, <1>17
     DEF Next, Library

\* Every variable keeps its type (the calls, the stack of activations, the
\* registers and the power domains).
THEOREM ClockTypeCorrect == Spec => []TypeOK
<1>1. Spec => []TypeInv
  BY TypeInvInit, TypeInvNext, PTL DEF Spec
<1>2. TypeInv => TypeOK
  BY DEF TypeInv
<1> QED  BY <1>1, <1>2, PTL

-----------------------------------------------------------------------------
(* The tree is switched from the top.                                      *)

\* At first the clocks that are on have those above them on.
LEMMA TreeInvInit == Init => TreeInv
<1> SUFFICES ASSUME Init PROVE TreeInv
  OBVIOUS
<1>1. stack = <<>> /\ pc = "idle" /\ call.op = "none" /\ Len(stack) = 0
  BY EmptySeq DEF Init
<1>2. \A b \in enabled : BranchParents(b) \subseteq enabled
  BY DEF Init
<1> QED  BY <1>1, <1>2 DEF TreeInv, Walking, Done, ClosedBut

\* What has been achieved stays so while the call goes on.
LEMMA OnKept ==
  ASSUME call' = call, enabled \subseteq enabled', running' = running, timedOut \subseteq timedOut'
  PROVE  \A b \in Branches : On(b) => On(b)'
BY DEF On, Awaited, Polled, Skipped, Enabling

\* A branch of the path whose parents stopped has a poll above it that ran out.
LEMMA OnKeptByHardware ==
  ASSUME TypeInv, NEW b \in Branches, HwBranch(b)
  PROVE  \A n \in Nodes : AllOn(n) => AllOn(n)'
<1> SUFFICES ASSUME NEW n \in Nodes, AllOn(n), NEW c \in ({n} \cup Above[n]) \cap Branches
             PROVE  On(c)'
  BY DEF AllOn
<1>1. call' = call /\ enabled' = enabled /\ timedOut' = timedOut
  BY DEF HwBranch
<1>2. \A a \in Branches : Awaited(a)' <=> Awaited(a)
  BY <1>1 DEF Awaited, Polled, Skipped, Enabling
<1>3. On(c)
  BY DEF AllOn
<1>4. CASE c \in running' \/ c \notin running
  BY <1>1, <1>2, <1>3, <1>4 DEF On
<1>5. CASE c \notin running' /\ c \in running
  <2>1. c = b /\ ~(BranchParents(b) \subseteq running)
    BY <1>3, <1>5 DEF HwBranch, On
  <2>2. PICK q \in BranchParents(c) : q \notin running
    BY <2>1
  <2>3. q \in Above[n] \cap Branches /\ Above[q] \subseteq Above[c] /\ q \in Above[c]
    BY <2>2, UpClosed
  <2>4. On(q)
    BY <2>3 DEF AllOn
  <2>5. Awaited(c) => Awaited(q)
    BY <2>3 DEF Awaited
  <2>6. Awaited(c) => ({c} \cup Above[c]) \cap Branches \cap timedOut # {}
    BY <2>2, <2>3, <2>4, <2>5 DEF On
  <2> QED  BY <1>1, <1>2, <1>3, <2>6 DEF On
<1> QED  BY <1>4, <1>5

\* When an activation has done all parents, all that is above its node is done.
LEMMA AllAbove ==
  ASSUME TypeInv, TreeInv, Walking, Top.done = Len(Parents[Top.node]),
         NEW t, t = Top.node
  PROVE  /\ t \in Path
         /\ Len(stack) = 1 => t = call.node
         /\ \A b \in Above[t] \cap Branches :
              IF call.op = "enable" THEN On(b) ELSE b \notin enabled
<1>1. /\ Len(stack) \in Nat \ {0} /\ Top = stack[Len(stack)] /\ t \in Nodes
      /\ Len(stack) \in 1 .. Len(stack)
  BY TopIs
<1>2. t \in Path
  BY <1>1 DEF TreeInv
<1>3. Len(stack) = 1 => t = call.node
  BY <1>1 DEF TypeInv, StackFits
<1>4. ASSUME NEW b \in Above[t] \cap Branches
      PROVE  IF call.op = "enable" THEN On(b) ELSE b \notin enabled
  <2>1. PICK p \in ToSet(Parents[t]) : b \in {p} \cup Above[p]
    BY <1>1, AboveIs
  <2>2. PICK k \in 1 .. Len(Parents[t]) : p = Parents[t][k]
    BY <1>1, ParentsType
  <2>3. k \in 1 .. stack[Len(stack)].done /\ p = Parents[stack[Len(stack)].node][k] /\ p \in Nodes
    BY <1>1, <2>2, ParentsType
  <2>4. p \in Done
    BY <1>1, <2>3 DEF Done
  <2>5. Achieved(p)
    BY <2>4 DEF TreeInv
  <2> QED  BY <2>1, <2>5 DEF Achieved, AllOn, AllOff
<1> QED  BY <1>2, <1>3, <1>4

\* The return of an activation that has done its part.
LEMMA TreeEnds ==
  ASSUME TypeInv, TreeInv, Walking, Top.done = Len(Parents[Top.node]),
         NEW t, t = Top.node, NEW status \in Status, Return(status), BranchesOK',
         call.op = "enable" =>
           /\ \A b \in Branches : On(b) => On(b)'
           /\ t \in Branches => On(t)'
           /\ ClosedBut({})',
         call.op = "disable" =>
           enabled' \subseteq enabled /\ t \notin enabled' /\ ClosedBut(Path)'
  PROVE  TreeInv'
<1> DEFINE s == stack
           L == Len(stack)
<1>1. /\ s \in Seq(Activations) /\ s # <<>> /\ L \in Nat \ {0} /\ Top = s[L]
      /\ t \in Nodes
  BY TopIs
<1>2. /\ Len(stack') = L - 1
      /\ \A i \in 1 .. L - 2 : stack'[i] = s[i]
      /\ L > 1 => /\ stack'[L - 1].node = s[L - 1].node
                  /\ stack'[L - 1].done = s[L - 1].done + 1
  BY <1>1, Popped, Ends
<1>3. /\ call' = call
      /\ IF L = 1 THEN pc' = "idle" ELSE pc' = "enable"
  BY Ends
<1>4. call.op \in {"enable", "disable"}
  BY DEF TypeInv, CallFits
<1>5. /\ t \in Path /\ (L = 1 => t = call.node)
      /\ \A b \in Above[t] \cap Branches : IF call.op = "enable" THEN On(b) ELSE b \notin enabled
  BY AllAbove
<1>6. \A n \in Nodes : Achieved(n) => Achieved(n)'
  <2>1. \A n \in Nodes : AllOff(n) /\ enabled' \subseteq enabled => AllOff(n)'
    BY DEF AllOff
  <2>2. \A n \in Nodes : AllOn(n) /\ (\A b \in Branches : On(b) => On(b)') => AllOn(n)'
    BY DEF AllOn
  <2> QED  BY <1>3, <1>4, <2>1, <2>2 DEF Achieved
<1>7. Achieved(t)'
  <2>1. CASE call.op = "enable"
    <3>1. \A b \in ({t} \cup Above[t]) \cap Branches : On(b)'
      BY <1>5, <2>1
    <3> QED  BY <1>3, <2>1, <3>1 DEF Achieved, AllOn
  <2>2. CASE call.op = "disable"
    <3>1. \A b \in ({t} \cup Above[t]) \cap Branches : b \notin enabled'
      BY <1>5, <2>2
    <3> QED  BY <1>3, <2>2, <3>1 DEF Achieved, AllOff
  <2> QED  BY <1>4, <2>1, <2>2
<1>8. \A n \in Done' : Achieved(n)'
  <2> SUFFICES ASSUME NEW n \in Done' PROVE n \in Done \cup {t}
    BY <1>6, <1>7 DEF TreeInv, Done
  <2> HIDE DEF s, L
  <2>1. PICK i \in 1 .. Len(stack') : \E k \in 1 .. stack'[i].done : n = Parents[stack'[i].node][k]
    BY DEF Done
  <2>2. PICK k \in 1 .. stack'[i].done : n = Parents[stack'[i].node][k]
    BY <2>1
  <2>3. n \in Nodes
    BY DEF Done
  <2>4. CASE i # L - 1
    <3>1. i \in 1 .. L - 2 /\ i \in 1 .. L
      BY <1>1, <1>2, <2>4
    <3>2. stack'[i] = s[i]
      BY <1>2, <3>1
    <3> QED  BY <2>2, <2>3, <3>1, <3>2 DEF Done, s, L
  <2>5. CASE i = L - 1
    <3>1. L > 1 /\ L - 1 \in 1 .. L - 1 /\ L - 1 \in 1 .. L /\ L - 1 + 1 = L
      BY <1>1, <1>2, <2>5
    <3>2. stack'[i].node = s[L - 1].node /\ stack'[i].done = s[L - 1].done + 1
      BY <1>2, <2>5, <3>1
    <3>3. s[L - 1].done \in Nat
      <4>1. s[L - 1] \in Activations
        <5>1. L - 1 \in 1 .. Len(s)
          BY <3>1 DEF L, s
        <5> QED  BY <1>1, <5>1, ElementOfSeq
      <4> QED  BY <4>1 DEF Activations
    <3>4. CASE k \in 1 .. s[L - 1].done
      BY <2>2, <2>3, <3>1, <3>2, <3>4 DEF Done, s, L
    <3>5. CASE k = s[L - 1].done + 1
      <4>1. Child(s[L - 1], s[L])
        BY <3>1 DEF TypeInv, StackFits, s, L
      <4> QED  BY <1>1, <2>2, <3>2, <3>5, <4>1 DEF Child
    <3> QED  BY <2>2, <3>2, <3>3, <3>4, <3>5
  <2> QED  BY <2>4, <2>5
<1>9. \A i \in 1 .. Len(stack') : stack'[i].node \in Path'
  <2>1. ASSUME NEW i \in 1 .. L - 1
        PROVE  stack'[i].node \in Path
    <3>1. i \in 1 .. L /\ s[i].node \in Path
      BY <1>1 DEF TreeInv
    <3>2. CASE i = L - 1
      BY <1>1, <1>2, <3>1, <3>2
    <3>3. CASE i # L - 1
      <4>1. i \in 1 .. L - 2
        BY <1>1, <3>3
      <4> QED  BY <1>2, <3>1, <4>1
    <3> QED  BY <3>2, <3>3
  <2> QED  BY <1>2, <1>3, <2>1 DEF Path
<1>10. pc' # "halt"
  BY <1>3
<1>11. pc' = "idle" /\ call'.op = "enable" => AllOn(call.node)'
  BY <1>3, <1>5, <1>7 DEF Achieved, AllOn
<1>12. (IF Walking /\ call.op = "disable" THEN ClosedBut(Path) ELSE ClosedBut({}))'
  <2>1. CASE call.op = "enable"
    BY <1>3, <2>1
  <2>2. CASE call.op = "disable" /\ L # 1
    BY <1>3, <2>2 DEF Walking
  <2>3. CASE call.op = "disable" /\ L = 1
    <3>1. \A b \in enabled' : b \in Branches /\ b \notin Path
      BY <1>5, <2>3 DEF Path, BranchesOK
    <3>2. ClosedBut(Path)' /\ Path' = Path
      BY <1>3, <2>3 DEF Path
    <3>3. ClosedBut({})'
      BY <3>1, <3>2 DEF ClosedBut
    <3> QED  BY <1>3, <2>3, <3>3 DEF Walking
  <2> QED  BY <1>4, <2>1, <2>2, <2>3
<1> QED  BY <1>8, <1>9, <1>10, <1>11, <1>12 DEF TreeInv

\* What disabling leaves on has what is above it on, but on the path.
LEMMA SwitchedOff ==
  ASSUME TypeInv, NEW t \in Path \cap Branches, call.op = "disable", ClosedBut(Path),
         enabled' = enabled \ {t}, call' = call
  PROVE  ClosedBut(Path)'
<1>1. call.node \in Disablable /\ Path' = Path
  BY DEF TypeInv, CallFits, Path
<1>2. enabled \subseteq Branches
  BY TypeParts DEF TypeInv, BranchesOK
<1> SUFFICES ASSUME NEW b \in enabled' \ Path PROVE BranchParents(b) \subseteq enabled'
  BY <1>1 DEF ClosedBut
<1>3. BranchParents(b) \subseteq enabled
  BY DEF ClosedBut
<1>4. b \in Nodes
  BY <1>2 DEF Nodes
<1>5. CASE t \in BranchParents(b)
  <2>1. t \in Above[b]
    BY <1>4, <1>5, UpClosed
  <2>2. Above[b] \cap Path \cap Branches # {}
    BY <2>1
  <2>3. b \in Path
    BY <1>1, <1>4, <2>2, DisablableAssumption DEF Path
  <2> QED  BY <2>3
<1> QED  BY <1>3, <1>5

\* Outside ClockEnable the tree is left alone.
LEMMA TreeLeft ==
  ASSUME TypeInv, TypeInv', TreeInv, ~Walking, ~Walking', UNCHANGED <<enabled, running>>,
         timedOut \subseteq timedOut', pc' = "idle" /\ call'.op = "enable" => pc = "idle" /\ call' = call
  PROVE  TreeInv'
<1>1. stack' = <<>> /\ Len(stack') = 0
  BY EmptySeq DEF TypeInv, StackFits
<1>2. ClosedBut({})'
  BY DEF TreeInv, ClosedBut
<1>3. pc' # "halt"
  BY DEF Walking
<1>4. Done' = {}
  BY <1>1 DEF Done
<1>5. pc' = "idle" /\ call'.op = "enable" => AllOn(call.node)'
  <2> SUFFICES ASSUME pc' = "idle", call'.op = "enable" PROVE AllOn(call.node)'
    OBVIOUS
  <2>1. call' = call /\ AllOn(call.node)
    BY DEF TreeInv
  <2>2. \A b \in Branches : On(b) => On(b)'
    BY <2>1, OnKept
  <2> QED  BY <2>1, <2>2 DEF AllOn
<1> QED  BY <1>1, <1>2, <1>3, <1>4, <1>5 DEF TreeInv

\* Every step keeps the tree in order.
LEMMA TreeInvNext == TypeInv /\ TypeInv' /\ TreeInv /\ [Next]_vars => TreeInv'
<1> SUFFICES ASSUME TypeInv, TypeInv', TreeInv, [Next]_vars PROVE TreeInv'
  OBVIOUS
<1> USE DEF tree, rcg
<1>0. BranchesOK' /\ enabled \subseteq Branches
  BY TypeParts DEF TypeInv, BranchesOK
<1>1. ASSUME NEW n \in Nodes, NEW op \in {"enable", "disable"}, CallEnable(n, op)
      PROVE  TreeInv'
  <2>1. /\ pc = "idle" /\ pc' = "enable" /\ call' = [op |-> op, node |-> n]
        /\ stack' = <<Activation(n)>> /\ enabled' = enabled
    BY <1>1 DEF CallEnable, Begin
  <2>2. Len(stack') = 1 /\ stack'[1] = Activation(n)
    BY <2>1
  <2>3. Activation(n).done = 0 /\ Activation(n).node = n
    BY DEF Activation
  <2>4. Done' = {}
    BY <2>2, <2>3 DEF Done
  <2>5. \A i \in 1 .. Len(stack') : stack'[i].node \in Path'
    BY <2>1, <2>2, <2>3 DEF Path
  <2>6. ClosedBut({})
    BY <2>1 DEF TreeInv, Walking
  <2> QED  BY <2>1, <2>4, <2>5, <2>6 DEF TreeInv, ClosedBut
<1>2. CASE EnableParent
  <2> DEFINE s == stack
             L == Len(stack)
             n == Parents[Top.node][Top.done + 1]
  <2>1. /\ pc = "enable" /\ Walking /\ Top.done < Len(Parents[Top.node])
        /\ stack' = Append(s, Activation(n))
        /\ UNCHANGED <<call, result, pc, enabled, running, timedOut>>
    BY <1>2 DEF EnableParent, Walking
  <2>2. /\ s \in Seq(Activations) /\ L \in Nat \ {0} /\ Top = s[L]
        /\ Top.node \in Nodes /\ Top.done \in Nat
    BY <2>1, TopIs
  <2>3. n \in Nodes /\ n \in ToSet(Parents[Top.node])
    BY <2>1, <2>2, ParentsType
  <2>4. /\ Len(stack') = L + 1
        /\ \A i \in 1 .. L : stack'[i] = s[i]
        /\ stack'[L + 1].node = n /\ stack'[L + 1].done = 0
    BY <2>1, <2>2, <2>3, Pushed
  <2>5. Done' \subseteq Done
    <3> SUFFICES ASSUME NEW m \in Done' PROVE m \in Done
      OBVIOUS
    <3>1. PICK i \in 1 .. L + 1 : \E k \in 1 .. stack'[i].done : m = Parents[stack'[i].node][k]
      BY <2>4 DEF Done
    <3>2. i \in 1 .. L
      BY <2>2, <2>4, <3>1
    <3>3. m \in Nodes
      BY DEF Done
    <3> QED  BY <2>4, <3>1, <3>2, <3>3 DEF Done
  <2>6. \A m \in Done' : Achieved(m)'
    <3>1. \A m \in Nodes : Achieved(m) => Achieved(m)'
      BY <2>1 DEF Achieved, AllOn, AllOff, On, Awaited, Polled, Skipped, Enabling
    <3>2. \A m \in Done : m \in Nodes /\ Achieved(m)
      BY DEF TreeInv, Done
    <3> QED  BY <2>5, <3>1, <3>2
  <2>7. \A i \in 1 .. Len(stack') : stack'[i].node \in Path'
    <3>1. Path' = Path /\ \A i \in 1 .. L : s[i].node \in Path
      BY <2>1 DEF Path, TreeInv
    <3>2. Top.node \in Path
      BY <2>2, <3>1
    <3>3. call.node \in Nodes
      BY <2>1 DEF TypeInv, CallFits
    <3>4. n \in Path
      <4>1. CASE Top.node = call.node
        BY <2>3, <3>3, <4>1, AboveContains DEF Path
      <4>2. CASE Top.node \in Above[call.node]
        BY <2>3, <3>3, <4>2, AboveContains DEF Path
      <4> QED  BY <3>2, <4>1, <4>2 DEF Path
    <3> HIDE DEF n, s, L
    <3> QED  BY <2>2, <2>4, <3>1, <3>4
  <2>8. (IF Walking /\ call.op = "disable" THEN ClosedBut(Path) ELSE ClosedBut({}))'
    BY <2>1 DEF TreeInv, Walking, Path, ClosedBut
  <2> QED  BY <2>1, <2>6, <2>7, <2>8 DEF TreeInv
<1>3. CASE Switch
  <2>1. /\ pc = "enable" /\ Walking /\ Top.done = Len(Parents[Top.node])
        /\ enabled' = IF call.op = "enable" THEN enabled \cup {Top.node} ELSE enabled \ {Top.node}
        /\ running' = running /\ timedOut' = timedOut
    BY <1>3 DEF Switch, Walking, Enabling
  <2>2. PICK t \in Branches : t = Top.node
    BY <1>3 DEF Switch
  <2>3. /\ t \in Path /\ t \in Nodes
        /\ \A b \in Above[t] \cap Branches : IF call.op = "enable" THEN On(b) ELSE b \notin enabled
    BY <2>1, <2>2, AllAbove, TopIs
  <2>4. call.op \in {"enable", "disable"}
    BY <2>1 DEF TypeInv, CallFits
  <2>5. call' = call
    BY <1>3 DEF Switch, Go, Return, Finish
  <2>6. call.op = "enable" => ClosedBut({})'
    <3>1. BranchParents(t) \subseteq Above[t] \cap Branches
      BY <2>3, UpClosed
    <3>2. call.op = "enable" => BranchParents(t) \subseteq enabled
      BY <2>3, <3>1 DEF On
    <3>3. call.op = "enable" => ClosedBut({})
      BY DEF TreeInv
    <3> QED  BY <2>1, <2>2, <3>2, <3>3 DEF ClosedBut
  <2>7. call.op = "disable" => ClosedBut(Path)'
    <3>1. call.op = "disable" => ClosedBut(Path)
      BY <2>1 DEF TreeInv
    <3> QED  BY <2>1, <2>2, <2>3, <2>5, <3>1, SwitchedOff
  <2>8. call.op = "enable" => \A b \in Branches : On(b) => On(b)'
    BY <2>1, <2>5, OnKept
  <2>9. CASE Polled(Top.node)
    <3>1. pc' = "halt" /\ UNCHANGED <<call, stack>>
      BY <1>3, <2>9 DEF Switch, Go
    <3>2. \A i \in 1 .. Len(stack') : stack'[i].node \in Path'
      BY <3>1 DEF TreeInv, Path
    <3>3. \A n \in Nodes : Achieved(n) => Achieved(n)'
      <4>1. \A n \in Nodes : AllOff(n) /\ call.op = "disable" => AllOff(n)'
        BY <2>1, <2>2 DEF AllOff
      <4>2. \A n \in Nodes : AllOn(n) /\ call.op = "enable" => AllOn(n)'
        BY <2>8 DEF AllOn
      <4> QED  BY <2>4, <3>1, <4>1, <4>2 DEF Achieved
    <3>4. \A n \in Done' : Achieved(n)'
      BY <3>1, <3>3 DEF TreeInv, Done
    <3>5. (IF call.op = "enable" THEN Top.node \in enabled ELSE Top.node \notin enabled)'
      BY <2>1, <3>1 DEF Top
    <3>6. (IF Walking /\ call.op = "disable" THEN ClosedBut(Path) ELSE ClosedBut({}))'
      BY <2>4, <2>6, <2>7, <3>1 DEF Walking
    <3> QED  BY <3>1, <3>2, <3>4, <3>5, <3>6 DEF TreeInv
  <2>10. CASE ~Polled(Top.node)
    <3>1. PICK status \in Status : status = IF Skipped(Top.node) THEN "SUCCESS" ELSE Top.status
      BY <2>1, TopIs DEF Status
    <3>2. Return(status)
      BY <1>3, <2>10, <3>1 DEF Switch
    <3>3. call.op = "enable" => On(t)'
      <4>1. ~Polled(t)
        BY <2>2, <2>10
      <4>2. ~Polled(t)'
        BY <2>5, <4>1 DEF Polled, Skipped, Enabling
      <4>3. ~Awaited(t)'
        BY <4>2 DEF Awaited
      <4> QED  BY <2>1, <2>2, <4>3 DEF On
    <3>4. call.op = "disable" => enabled' \subseteq enabled /\ t \notin enabled'
      BY <2>1, <2>2
    <3> QED  BY <1>0, <2>1, <2>2, <2>6, <2>7, <2>8, <3>2, <3>3, <3>4, TreeEnds
  <2> QED  BY <2>9, <2>10
<1>4. CASE HaltChecked \/ HaltTimeout
  <2>1. /\ pc = "halt" /\ Walking /\ Top.done = Len(Parents[Top.node])
        /\ enabled' = enabled /\ running' = running /\ timedOut \subseteq timedOut'
    BY <1>4 DEF HaltChecked, HaltTimeout, Walking, TypeInv, StackFits
  <2>2. PICK t \in Branches : t = Top.node
    BY <2>1 DEF TypeInv, StackFits
  <2>3. PICK status \in Status : status = Top.status
    BY <2>1, TopIs
  <2>4. Return(status) /\ call' = call
    BY <1>4, <2>3 DEF HaltChecked, HaltTimeout, Return, Finish, Go
  <2>5. IF call.op = "enable" THEN t \in enabled ELSE t \notin enabled
    BY <2>1, <2>2 DEF TreeInv
  <2>6. \A b \in Branches : On(b) => On(b)'
    BY <2>1, <2>4, OnKept
  <2>7. call.op = "enable" => On(t)'
    <3>1. t \in running' \/ t \in timedOut'
      BY <1>4, <2>1, <2>2 DEF HaltChecked, HaltTimeout
    <3> QED  BY <2>1, <2>2, <2>5, <3>1 DEF On
  <2>8. call.op = "enable" => ClosedBut({})'
    BY <2>1 DEF TreeInv, ClosedBut
  <2>9. call.op = "disable" => ClosedBut(Path)'
    BY <2>1, <2>4 DEF TreeInv, ClosedBut, Path
  <2>10. call.op = "disable" => enabled' \subseteq enabled /\ t \notin enabled'
    BY <2>1, <2>5
  <2> QED  BY <1>0, <2>1, <2>2, <2>4, <2>6, <2>7, <2>8, <2>9, <2>10, TreeEnds
<1>5. CASE PassNode
  <2>1. /\ pc = "enable" /\ Walking /\ Top.done = Len(Parents[Top.node]) /\ Top.node \notin Branches
        /\ enabled' = enabled /\ running' = running /\ timedOut' = timedOut
    BY <1>5 DEF PassNode, Walking
  <2>2. PICK t : t = Top.node
    OBVIOUS
  <2>3. PICK status \in Status : status = IF Top.node \in Roots THEN Top.status ELSE "UNSUPPORTED"
    BY <2>1, TopIs DEF Status
  <2>4. Return(status) /\ call' = call
    BY <1>5, <2>3 DEF PassNode, Return, Finish, Go
  <2>5. \A b \in Branches : On(b) => On(b)'
    BY <2>1, <2>4, OnKept
  <2>6. call.op = "enable" => ClosedBut({})'
    BY <2>1 DEF TreeInv, ClosedBut
  <2>7. call.op = "disable" => ClosedBut(Path)'
    BY <2>1, <2>4 DEF TreeInv, ClosedBut, Path
  <2>8. enabled' \subseteq enabled /\ t \notin enabled' /\ t \notin Branches
    BY <1>0, <2>1, <2>2
  <2> QED  BY <1>0, <2>1, <2>2, <2>4, <2>5, <2>6, <2>7, <2>8, TreeEnds
<1>6. ASSUME NEW b \in Branches, HwBranch(b)
      PROVE  TreeInv'
  <2>1. UNCHANGED <<call, pc, stack, enabled, timedOut>>
    BY <1>6 DEF HwBranch
  <2>2. \A n \in Nodes : AllOn(n) => AllOn(n)'
    BY <1>6, OnKeptByHardware
  <2>3. \A n \in Nodes : Achieved(n) => Achieved(n)'
    BY <2>1, <2>2 DEF Achieved, AllOff
  <2>4. \A n \in Done' : Achieved(n)'
    BY <2>1, <2>3 DEF TreeInv, Done
  <2>5. pc' = "idle" /\ call'.op = "enable" => AllOn(call.node)'
    <3> SUFFICES ASSUME pc = "idle", call.op = "enable" PROVE AllOn(call.node)'
      BY <2>1
    <3>1. call.node \in Nodes
      BY TypeParts DEF TypeInv, CallOK, Calls
    <3>2. PICK n \in Nodes : n = call.node
      BY <3>1
    <3>3. AllOn(n)'
      BY <2>2, <3>2 DEF TreeInv
    <3> QED  BY <2>1, <3>2, <3>3 DEF AllOn
  <2>6. (IF Walking /\ call.op = "disable" THEN ClosedBut(Path) ELSE ClosedBut({}))'
    BY <2>1 DEF TreeInv, Walking, Path, ClosedBut
  <2>7. pc' = "halt" =>
          (IF call.op = "enable" THEN Top.node \in enabled ELSE Top.node \notin enabled)'
    BY <2>1 DEF TreeInv, Top
  <2>8. \A i \in 1 .. Len(stack') : stack'[i].node \in Path'
    BY <2>1 DEF TreeInv, Path
  <2> QED  BY <2>1, <2>4, <2>5, <2>6, <2>7, <2>8 DEF TreeInv
<1>7. ASSUME NEW r \in Roots, NEW rate \in Rates, NEW policy \in Policies,
             ClockRcg2SetRate(r, rate, policy)
      PROVE  TreeInv'
  <2>1. /\ pc = "idle" /\ pc' \in {"idle", "write"} /\ call'.op = "rate"
        /\ UNCHANGED <<enabled, running, timedOut>>
    BY <1>7 DEF ClockRcg2SetRate, Begin
  <2> QED  BY <2>1, TreeLeft DEF Walking
<1>8. CASE WriteRegister \/ RequestUpdate \/ Updated \/ UpdateTimeout
  <2>1. /\ pc \in {"write", "update", "wait"} /\ pc' \in {"idle", "write", "update", "wait"}
        /\ call' = call /\ UNCHANGED <<enabled, running>> /\ timedOut \subseteq timedOut'
    BY <1>8 DEF WriteRegister, RequestUpdate, Updated, UpdateTimeout, Go, Finish
  <2>2. call.op = "rate"
    BY <2>1 DEF TypeInv, CallFits, Setting
  <2> QED  BY <2>1, <2>2, TreeLeft DEF Walking
<1>9. ASSUME NEW d \in Domains, ClockGdscEnable(d)
      PROVE  TreeInv'
  <2>1. /\ pc = "idle" /\ pc' = "collapse" /\ UNCHANGED <<enabled, running, timedOut>>
    BY <1>9 DEF ClockGdscEnable, Begin
  <2> QED  BY <2>1, TreeLeft DEF Walking
<1>10. CASE ClearCollapse \/ PowerPolled \/ PowerTimeout \/ ForceMemory \/ ClockGdsc
  <2>1. /\ pc \in {"collapse", "poll", "memory", "control"}
        /\ pc' \in {"idle", "poll", "memory", "control"}
        /\ call' = call /\ UNCHANGED <<enabled, running>> /\ timedOut \subseteq timedOut'
    BY <1>10 DEF ClearCollapse, PowerPolled, PowerTimeout, ForceMemory, ClockGdsc, Go, Finish
  <2>2. call.op = "power"
    BY <2>1 DEF TypeInv, CallFits, Powering
  <2> QED  BY <2>1, <2>2, TreeLeft DEF Walking
<1>11. ASSUME UNCHANGED <<call, pc, stack, enabled, running, timedOut>>
       PROVE  TreeInv'
  BY <1>11 DEF TreeInv, Done, Achieved, AllOn, AllOff, On, Awaited, Polled, Skipped, Enabling,
               Walking, ClosedBut, Path, Top
<1>12. CASE (\E r \in Roots : HwLatch(r)) \/ (\E d \in Domains : HwPowerUp(d)) \/ UNCHANGED vars
  BY <1>11, <1>12 DEF HwLatch, HwPowerUp, vars
<1> QED
  BY <1>1, <1>2, <1>3, <1>4, <1>5, <1>6, <1>7, <1>8, <1>9, <1>10, <1>12
     DEF Next, Library, Hardware

\* A clock that is on has all clocks above it switched on, between calls of the
\* library and during every step of an enabling one (ClockEnable goes through
\* the parents first, and callers disable only what nobody else needs).
THEOREM ParentsFirst == Spec => []ParentsOn
<1>1. Spec => [](TypeInv /\ TreeInv)
  BY TypeInvInit, TypeInvNext, TreeInvInit, TreeInvNext, PTL DEF Spec
<1>2. TypeInv /\ TreeInv => ParentsOn
  BY DEF TreeInv, ParentsOn, ClosedBut, Walking
<1> QED  BY <1>1, <1>2, PTL

\* When ClockEnable has returned success, each branch on the way whose status is
\* polled, like those above it, runs, unless a poll of this call ran out of time.
THEOREM EnabledClocksRun == Spec => []EnabledRuns
<1>1. Spec => [](TypeInv /\ TreeInv)
  BY TypeInvInit, TypeInvNext, TreeInvInit, TreeInvNext, PTL DEF Spec
<1>2. TypeInv /\ TreeInv => EnabledRuns
  <2> SUFFICES ASSUME TypeInv, TreeInv, call.op = "enable", result = "SUCCESS"
               PROVE  AllOn(call.node)
    BY DEF EnabledRuns, Enabling, AllOn, On
  <2>1. pc = "idle"
    BY DEF TypeInv, CallFits
  <2> QED  BY <2>1 DEF TreeInv
<1> QED  BY <1>1, <1>2, PTL

-----------------------------------------------------------------------------
(* A root runs with one setting.                                           *)

\* At first every root runs with what the boot loader left.
LEMMA RateInvInit == Init => RateInv
<1> SUFFICES ASSUME Init PROVE RateInv
  OBVIOUS
<1>1. pc = "idle" /\ call.op = "none" /\ updating = {} /\ latched = regs
  BY DEF Init
<1>2. "cfg" \in Registers /\ \A r \in Roots : \A g \in Registers : regs[r][g] = Boot
  BY DEF Init, Registers
<1>3. \A r \in Roots : Whole(regs[r])
  BY <1>2 DEF Whole
<1> QED  BY <1>1, <1>3 DEF RateInv

\* Outside SetRate the roots are left alone.
LEMMA RootsLeft ==
  ASSUME TypeInv, RateInv, ~Setting, ~Setting', UNCHANGED <<regs, updating, latched>>,
         timedOut \cap Roots \subseteq timedOut',
         call'.op = "rate" /\ result' = "SUCCESS" => call' = call /\ result' = result
  PROVE  RateInv'
<1>1. /\ \A r \in Roots : Whole(regs[r])
      /\ \A r \in Roots \ timedOut : Whole(latched[r]) /\ r \notin updating
  BY DEF RateInv, Setting
<1>2. \A r \in Roots \ timedOut' : r \in Roots \ timedOut
  OBVIOUS
<1>3. /\ \A r \in Roots : Whole(regs[r])'
      /\ \A r \in Roots \ timedOut' : Whole(latched[r])' /\ r \notin updating'
  BY <1>1, <1>2
<1>4. call'.op = "rate" /\ result' = "SUCCESS" =>
        /\ call'.node \in Roots /\ call'.node \notin updating' /\ Whole(latched[call.node])'
        /\ TargetFreq(call'.rate, call'.policy) \in Entries
        /\ latched'[call'.node].cfg = TargetFreq(call'.rate, call'.policy)
  BY DEF RateInv
<1>5. pc' # "write" /\ pc' # "update" /\ pc' # "wait"
  BY DEF Setting
<1> QED  BY <1>3, <1>4, <1>5 DEF RateInv

\* Every step keeps the roots in order.
LEMMA RateInvNext == TypeInv /\ TypeInv' /\ RateInv /\ [Next]_vars => RateInv'
<1> SUFFICES ASSUME TypeInv, TypeInv', RateInv, [Next]_vars PROVE RateInv'
  OBVIOUS
<1> USE DEF tree, rcg
<1> DEFINE freq == TargetFreq(call.rate, call.policy)
<1>0. Branches \cap Roots = {} /\ Domains \cap Roots = {} /\ Boot \notin Entries
  BY TreeAssumption, DomainsAssumption, EntriesType DEF Nodes, Boot
<1>1. CASE \E n \in Nodes, op \in {"enable", "disable"} : CallEnable(n, op)
  <2>1. /\ pc = "idle" /\ pc' = "enable" /\ call'.op # "rate" /\ UNCHANGED <<regs, updating, latched>>
        /\ timedOut' = timedOut \ Branches
    BY <1>1 DEF CallEnable, Begin
  <2> QED  BY <1>0, <2>1, RootsLeft DEF Setting
<1>2. CASE EnableParent \/ Switch \/ HaltChecked \/ HaltTimeout \/ PassNode
  <2>1. /\ pc \in {"enable", "halt"} /\ pc' \in {"idle", "enable", "halt"} /\ call' = call
        /\ UNCHANGED <<regs, updating, latched>> /\ timedOut \subseteq timedOut'
    BY <1>2 DEF EnableParent, Switch, HaltChecked, HaltTimeout, PassNode, Return, Go, Finish
  <2>2. call.op # "rate"
    BY <2>1 DEF TypeInv, CallFits, Walking
  <2> QED  BY <2>1, <2>2, RootsLeft DEF Setting
<1>3. ASSUME NEW r \in Roots, NEW rate \in Rates, NEW policy \in Policies,
             ClockRcg2SetRate(r, rate, policy)
      PROVE  RateInv'
  <2> DEFINE target == IF r \in Tunable THEN TargetFreq(rate, policy) ELSE Boot
             c == [op |-> "rate", node |-> r, rate |-> rate, policy |-> policy]
  <2>1. /\ pc = "idle" /\ call' = c /\ UNCHANGED <<regs, updating, latched, timedOut>>
        /\ IF target = Boot THEN pc' = "idle" /\ result' = "NOT_FOUND"
           ELSE /\ pc' = "write" /\ result' = "pending"
                /\ todo' = IF FreqTable[target].mnd THEN <<"m", "n", "d", "cfg">> ELSE <<"cfg">>
    BY <1>3 DEF ClockRcg2SetRate, Begin
  <2>2. CASE target = Boot
    BY <2>1, <2>2, RootsLeft DEF Setting
  <2>3. CASE target # Boot
    <3>1. target = TargetFreq(rate, policy) /\ target = TargetFreq(call'.rate, call'.policy)
      BY <2>1, <2>3
    <3>2. IF FreqTable[target].mnd THEN Len(todo') = 4 ELSE Len(todo') = 1
      BY <2>1, <2>3
    <3>3. \A q \in Roots \ timedOut : Whole(latched[q]) /\ q \notin updating
      BY <2>1 DEF RateInv
    <3>4. \A q \in Roots : Whole(regs[q])
      BY <2>1 DEF RateInv
    <3> QED  BY <2>1, <2>3, <3>1, <3>2, <3>3, <3>4 DEF RateInv
  <2> QED  BY <2>2, <2>3
<1>4. CASE WriteRegister
  <2>1. /\ pc = "write" /\ pc' = (IF Len(todo) = 1 THEN "update" ELSE "write")
        /\ regs' = [regs EXCEPT ![call.node][Head(todo)] = freq]
        /\ todo' = Tail(todo) /\ UNCHANGED <<call, result, updating, latched, timedOut>>
    BY <1>4 DEF WriteRegister, Go
  <2>2. /\ todo \in Orders /\ call.op = "rate" /\ call.node \in Roots /\ freq \in Entries
        /\ result = "pending"
    BY <2>1 DEF TypeInv, TodoFits, CallFits, Setting
  <2>3. regs \in [Roots -> [Registers -> Entries \cup {Boot}]]
    BY TypeParts DEF TypeInv, RegsOK, Config
  <2>4. /\ regs'[call.node][Head(todo)] = freq
        /\ \A g \in Registers : g # Head(todo) => regs'[call.node][g] = regs[call.node][g]
        /\ \A r \in Roots : r # call.node => regs'[r] = regs[r]
    BY <2>1, <2>2, <2>3, OrdersType
  <2>5. \A r \in Roots : r # call.node => Whole(regs'[r])
    BY <2>1, <2>4 DEF RateInv
  <2>6. "m" \in Registers /\ "n" \in Registers /\ "d" \in Registers /\ "cfg" \in Registers
    BY DEF Registers
  <2>7. Len(todo) \in 1 .. 4 /\ (Len(todo) # 1 => Len(todo') = Len(todo) - 1)
    BY <2>1, <2>2, OrdersType
  <2>8. /\ Len(todo) > 1 => FreqTable[freq].mnd
        /\ FreqTable[freq].mnd =>
             /\ Len(todo) < 4 => regs[call.node]["m"] = freq
             /\ Len(todo) < 3 => regs[call.node]["n"] = freq
             /\ Len(todo) < 2 => regs[call.node]["d"] = freq
    BY <2>1, Zenon DEF RateInv
  <2>9. FreqTable[freq].mnd =>
          /\ Len(todo) < 5 => regs'[call.node]["m"] = freq
          /\ Len(todo) < 4 => regs'[call.node]["n"] = freq
          /\ Len(todo) < 3 => regs'[call.node]["d"] = freq
    <3>1. /\ Len(todo) = 4 => Head(todo) = "m"
          /\ Len(todo) = 3 => Head(todo) = "n"
          /\ Len(todo) = 2 => Head(todo) = "d"
          /\ Len(todo) = 1 => Head(todo) = "cfg"
      BY <2>2, OrdersType
    <3>2. CASE Len(todo) = 4
      BY <2>4, <3>1, <3>2
    <3>3. CASE Len(todo) = 3
      BY <2>4, <2>6, <2>8, <3>1, <3>3
    <3>4. CASE Len(todo) = 2
      BY <2>4, <2>6, <2>8, <3>1, <3>4
    <3>5. CASE Len(todo) = 1
      BY <2>4, <2>6, <2>8, <3>1, <3>5
    <3> QED  BY <2>7, <3>2, <3>3, <3>4, <3>5
  <2>10. \A r \in Roots \ timedOut : Whole(latched[r]) /\ r \notin updating
    BY <2>1 DEF RateInv
  <2>11. CASE Len(todo) = 1
    <3>1. regs'[call.node]["cfg"] = freq
      BY <2>2, <2>4, <2>11, OrdersType
    <3>2. FreqTable[freq].mnd => \A g \in Registers : regs'[call.node][g] = freq
      BY <2>9, <2>11, <3>1 DEF Registers
    <3>3. Whole(regs'[call.node])
      BY <1>0, <2>2, <3>1, <3>2 DEF Whole
    <3>4. \A r \in Roots : Whole(regs'[r])
      BY <2>5, <3>3
    <3>5. pc' = "update"
      BY <2>1, <2>11
    <3> QED  BY <2>1, <2>2, <2>10, <3>1, <3>4, <3>5 DEF RateInv
  <2>12. CASE Len(todo) # 1
    <3>1. pc' = "write" /\ Len(todo') = Len(todo) - 1
      BY <2>1, <2>7, <2>12
    <3>2. FreqTable[freq].mnd
      <4>1. Len(todo) > 1
        BY <2>7, <2>12
      <4> QED  BY <2>8, <4>1
    <3>3. /\ Len(todo') < 4 => regs'[call.node]["m"] = freq
          /\ Len(todo') < 3 => regs'[call.node]["n"] = freq
          /\ Len(todo') < 2 => regs'[call.node]["d"] = freq
      BY <2>7, <2>9, <3>1, <3>2
    <3> QED  BY <2>1, <2>2, <2>5, <2>10, <3>1, <3>2, <3>3 DEF RateInv
  <2> QED  BY <2>11, <2>12
<1>5. CASE RequestUpdate
  <2>1. /\ pc = "update" /\ pc' = "wait" /\ UNCHANGED <<call, result, regs, latched, timedOut>>
        /\ updating' = updating \cup {call.node}
    BY <1>5 DEF RequestUpdate, Go
  <2>2. result = "pending" /\ call.node \in updating'
    BY <2>1 DEF TypeInv, CallFits
  <2>3. /\ \A r \in Roots \ timedOut : Whole(latched[r]) /\ r \notin updating
        /\ \A r \in Roots : Whole(regs[r])
        /\ regs[call.node].cfg = freq
    BY <2>1 DEF RateInv
  <2> QED  BY <2>1, <2>2, <2>3 DEF RateInv
<1>6. CASE Updated
  <2>1. /\ pc = "wait" /\ pc' = "idle" /\ UNCHANGED <<call, regs, updating, latched, timedOut>>
        /\ call.node \notin updating
    BY <1>6 DEF Updated, Finish
  <2>2. call.node \in Roots /\ freq \in Entries
    BY <2>1 DEF TypeInv, CallFits, Setting
  <2>3. /\ \A r \in Roots \ timedOut : Whole(latched[r]) /\ r \notin updating
        /\ \A r \in Roots : Whole(regs[r])
        /\ regs[call.node].cfg = freq /\ latched[call.node] = regs[call.node]
    BY <2>1 DEF RateInv
  <2>4. Whole(latched[call.node]) /\ latched[call.node].cfg = freq
    BY <2>2, <2>3
  <2> QED  BY <2>1, <2>2, <2>3, <2>4 DEF RateInv
<1>7. CASE UpdateTimeout
  <2>1. /\ pc = "wait" /\ pc' = "idle" /\ UNCHANGED <<call, regs, updating, latched>>
        /\ result' = "TIMEOUT" /\ timedOut' = timedOut \cup {call.node}
    BY <1>7 DEF UpdateTimeout, Finish
  <2>2. /\ \A r \in Roots \ timedOut' : Whole(latched[r]) /\ r \notin updating
        /\ \A r \in Roots : Whole(regs[r])
    BY <2>1 DEF RateInv
  <2> QED  BY <2>1, <2>2 DEF RateInv
<1>8. CASE \E d \in Domains : ClockGdscEnable(d)
  <2>1. /\ pc = "idle" /\ pc' = "collapse" /\ call'.op = "power"
        /\ UNCHANGED <<regs, updating, latched, timedOut>>
    BY <1>8 DEF ClockGdscEnable, Begin
  <2> QED  BY <2>1, RootsLeft DEF Setting
<1>9. CASE ClearCollapse \/ PowerPolled \/ PowerTimeout \/ ForceMemory \/ ClockGdsc
  <2>1. /\ pc \in {"collapse", "poll", "memory", "control"}
        /\ pc' \in {"idle", "poll", "memory", "control"} /\ call' = call
        /\ UNCHANGED <<regs, updating, latched>> /\ timedOut \subseteq timedOut'
    BY <1>9 DEF ClearCollapse, PowerPolled, PowerTimeout, ForceMemory, ClockGdsc, Go, Finish
  <2>2. call.op = "power"
    BY <2>1 DEF TypeInv, CallFits, Powering
  <2> QED  BY <2>1, <2>2, RootsLeft DEF Setting
<1>10. ASSUME NEW r \in Roots, HwLatch(r)
       PROVE  RateInv'
  <2>1. /\ r \in updating /\ updating' = updating \ {r}
        /\ latched' = [latched EXCEPT ![r] = regs[r]]
        /\ UNCHANGED <<call, result, pc, todo, regs, timedOut>>
    BY <1>10 DEF HwLatch
  <2>2. latched'[r] = regs[r] /\ \A q \in Roots : q # r => latched'[q] = latched[q]
    BY <2>1, TypeParts DEF TypeInv, LatchedOK
  <2>3. \A q \in Roots \ timedOut : Whole(latched'[q])
    <3>1. r \notin timedOut => Whole(regs[r])
      BY <2>1 DEF RateInv
    <3> QED  BY <2>2, <3>1 DEF RateInv
  <2>4. pc = "wait" /\ call.node \notin updating' => latched'[call.node] = regs[call.node]
    <3>1. pc = "wait" => call.node \in Roots
      BY DEF TypeInv, CallFits, Setting
    <3> QED  BY <2>1, <2>2, <3>1 DEF RateInv
  <2>5. call.op = "rate" /\ result = "SUCCESS" =>
          /\ call.node \in Roots /\ call.node \notin updating' /\ Whole(latched'[call.node])
          /\ freq \in Entries /\ latched'[call.node].cfg = freq
    BY <2>1, <2>2 DEF RateInv
  <2>6. \A q \in Roots \ timedOut : q \in updating' => pc = "wait" /\ q = call.node
    BY <2>1 DEF RateInv
  <2> QED  BY <2>1, <2>3, <2>4, <2>5, <2>6 DEF RateInv
<1>11. CASE \/ \E b \in Branches : HwBranch(b)
            \/ \E d \in Domains : HwPowerUp(d)
            \/ UNCHANGED vars
  <2>1. UNCHANGED <<call, result, pc, todo, regs, updating, latched, timedOut>>
    BY <1>11 DEF HwBranch, HwPowerUp, vars
  <2> QED  BY <2>1 DEF RateInv
<1> QED
  BY <1>1, <1>2, <1>3, <1>4, <1>5, <1>6, <1>7, <1>8, <1>9, <1>10, <1>11
     DEF Next, Library, Hardware

\* A root never runs with the registers of two different settings, as long as
\* no update of it ran out of time (SetRate writes M, N, D and the configuration
\* one by one, and the root takes them over at a moment of its own).
THEOREM OneSettingAtATime == Spec => []LatchedWhole
<1>1. Spec => [](TypeInv /\ RateInv)
  BY TypeInvInit, TypeInvNext, RateInvInit, RateInvNext, PTL DEF Spec
<1>2. RateInv => LatchedWhole
  BY DEF RateInv, LatchedWhole
<1> QED  BY <1>1, <1>2, PTL

\* After a successful ClockRcg2SetRate the root runs with the entry asked for:
\* the lowest not below the rate, or with a FLOOR the highest not above it.
THEOREM RateRounded == Spec => []RateIsRounded
<1>1. Spec => [](TypeInv /\ RateInv)
  BY TypeInvInit, TypeInvNext, RateInvInit, RateInvNext, PTL DEF Spec
<1>2. TypeInv /\ RateInv => RateIsRounded
  <2> SUFFICES ASSUME TypeInv, RateInv, call.op = "rate", result = "SUCCESS"
               PROVE  /\ Whole(latched[call.node])
                      /\ IF call.policy = "CEIL" THEN IsCeil(latched[call.node].cfg, call.rate)
                         ELSE (\E i \in Entries : FreqTable[i].hz <= call.rate)
                                => IsFloor(latched[call.node].cfg, call.rate)
    BY DEF RateIsRounded
  <2>1. call.rate \in Nat /\ call.policy \in Policies
    BY TypeParts, RateCalls, TableAssumption DEF TypeInv, CallOK
  <2>2. /\ TargetFreq(call.rate, call.policy) \in Entries
        /\ latched[call.node].cfg = TargetFreq(call.rate, call.policy)
        /\ Whole(latched[call.node])
    BY DEF RateInv
  <2> QED  BY <2>1, <2>2, TargetFreqIs
<1> QED  BY <1>1, <1>2, PTL

-----------------------------------------------------------------------------
(* A domain comes up in order.                                             *)

\* At first no domain has power.
LEMMA PowerInvInit == Init => PowerInv
<1> SUFFICES ASSUME Init PROVE PowerInv
  OBVIOUS
<1>1. pc = "idle"
  BY DEF Init
<1>2. \A d \in Domains : gdsc[d].collapsed /\ ~gdsc[d].powered /\ ~gdsc[d].memForced /\ ~gdsc[d].hwCtl
  BY DEF Init
<1> QED  BY <1>1, <1>2 DEF PowerInv, PowerSequence

\* Writing one field of a domain leaves the others, and the other domains.
LEMMA FieldSet ==
  ASSUME TypeInv, NEW d \in Domains,
         NEW field \in {"clamped", "collapsed", "powered", "memForced", "hwCtl"},
         NEW value \in BOOLEAN, SetDomain(d, field, value)
  PROVE  /\ \A e \in Domains : e # d => gdsc'[e] = gdsc[e]
         /\ gdsc'[d].clamped = IF field = "clamped" THEN value ELSE gdsc[d].clamped
         /\ gdsc'[d].collapsed = IF field = "collapsed" THEN value ELSE gdsc[d].collapsed
         /\ gdsc'[d].powered = IF field = "powered" THEN value ELSE gdsc[d].powered
         /\ gdsc'[d].memForced = IF field = "memForced" THEN value ELSE gdsc[d].memForced
         /\ gdsc'[d].hwCtl = IF field = "hwCtl" THEN value ELSE gdsc[d].hwCtl
<1>1. gdsc \in [Domains -> Domain]
  BY TypeParts DEF TypeInv, GdscOK
<1>2. gdsc' = [gdsc EXCEPT ![d][field] = value]
  BY DEF SetDomain
<1> QED  BY <1>1, <1>2 DEF Domain

\* The domains are left alone outside ClockGdscEnable.
LEMMA DomainsLeft ==
  ASSUME PowerInv, ~Powering, ~Powering', gdsc' = gdsc,
         \A d \in Domains : d \in timedOut => d \in timedOut'
  PROVE  PowerInv'
BY DEF PowerInv, PowerSequence, GotPower, Powering

\* Every step keeps the domains in order.
LEMMA PowerInvNext == TypeInv /\ TypeInv' /\ PowerInv /\ [Next]_vars => PowerInv'
<1> SUFFICES ASSUME TypeInv, TypeInv', PowerInv, [Next]_vars PROVE PowerInv'
  OBVIOUS
<1> USE DEF tree, rcg
<1>1. CASE \E n \in Nodes, op \in {"enable", "disable"} : CallEnable(n, op)
  <2>1. /\ pc = "idle" /\ pc' = "enable" /\ gdsc' = gdsc /\ timedOut' = timedOut \ Branches
    BY <1>1 DEF CallEnable, Begin
  <2>2. \A d \in Domains : d \notin Branches
    BY DomainsAssumption DEF Nodes
  <2> QED  BY <2>1, <2>2, DomainsLeft DEF Powering
<1>2. CASE EnableParent \/ Switch \/ HaltChecked \/ HaltTimeout \/ PassNode
  <2>1. /\ pc \in {"enable", "halt"} /\ pc' \in {"idle", "enable", "halt"}
        /\ gdsc' = gdsc /\ timedOut \subseteq timedOut'
    BY <1>2 DEF EnableParent, Switch, HaltChecked, HaltTimeout, PassNode, Return, Go, Finish
  <2> QED  BY <2>1, DomainsLeft DEF Powering
<1>3. CASE \/ \E r \in Roots, rate \in Rates, policy \in Policies : ClockRcg2SetRate(r, rate, policy)
           \/ WriteRegister \/ RequestUpdate \/ Updated \/ UpdateTimeout
  <2>1. /\ pc \in {"idle", "write", "update", "wait"} /\ pc' \in {"idle", "write", "update", "wait"}
        /\ gdsc' = gdsc /\ timedOut \subseteq timedOut'
    BY <1>3 DEF ClockRcg2SetRate, WriteRegister, RequestUpdate, Updated, UpdateTimeout,
                Begin, Go, Finish
  <2> QED  BY <2>1, DomainsLeft DEF Powering
<1>4. ASSUME NEW d \in Domains, ClockGdscEnable(d)
      PROVE  PowerInv'
  <2>1. /\ pc' = "collapse" /\ call'.node = d /\ timedOut' = timedOut /\ SetDomain(d, "clamped", FALSE)
    BY <1>4 DEF ClockGdscEnable, Begin
  <2>2. /\ \A e \in Domains : e # d => gdsc'[e] = gdsc[e]
        /\ ~gdsc'[d].clamped
        /\ gdsc'[d].collapsed = gdsc[d].collapsed /\ gdsc'[d].powered = gdsc[d].powered
        /\ gdsc'[d].memForced = gdsc[d].memForced /\ gdsc'[d].hwCtl = gdsc[d].hwCtl
    BY <2>1, FieldSet
  <2> QED  BY <2>1, <2>2 DEF PowerInv, PowerSequence, GotPower
<1>5. CASE ClearCollapse
  <2>1. PICK d \in Domains : d = call.node
    BY <1>5 DEF ClearCollapse, TypeInv, CallFits, Powering
  <2>2. /\ pc = "collapse" /\ pc' = "poll" /\ call' = call /\ timedOut' = timedOut
        /\ SetDomain(d, "collapsed", FALSE)
    BY <1>5, <2>1 DEF ClearCollapse, Go
  <2>3. /\ \A e \in Domains : e # d => gdsc'[e] = gdsc[e]
        /\ ~gdsc'[d].collapsed
        /\ gdsc'[d].clamped = gdsc[d].clamped /\ gdsc'[d].powered = gdsc[d].powered
        /\ gdsc'[d].memForced = gdsc[d].memForced /\ gdsc'[d].hwCtl = gdsc[d].hwCtl
    BY <2>2, FieldSet
  <2>4. ~gdsc[d].clamped
    BY <2>1, <2>2 DEF PowerInv
  <2> QED  BY <2>1, <2>2, <2>3, <2>4 DEF PowerInv, PowerSequence, GotPower
<1>6. CASE PowerPolled \/ PowerTimeout
  <2>1. /\ pc = "poll" /\ pc' = "memory" /\ call' = call /\ gdsc' = gdsc
        /\ timedOut \subseteq timedOut'
        /\ call.node \in PollsCfg \/ gdsc[call.node].powered \/ call.node \in timedOut'
    BY <1>6 DEF PowerPolled, PowerTimeout, Go
  <2> QED  BY <2>1 DEF PowerInv, PowerSequence, GotPower
<1>7. CASE ForceMemory
  <2>1. PICK d \in Domains : d = call.node
    BY <1>7 DEF ForceMemory, TypeInv, CallFits, Powering
  <2>2. /\ pc = "memory" /\ pc' = "control" /\ call' = call /\ timedOut' = timedOut
    BY <1>7 DEF ForceMemory, Go
  <2>3. GotPower(d)
    BY <2>1, <2>2 DEF PowerInv, GotPower
  <2>4. CASE d \in ForceMem
    <3>1. SetDomain(d, "memForced", TRUE)
      BY <1>7, <2>1, <2>4 DEF ForceMemory
    <3>2. /\ \A e \in Domains : e # d => gdsc'[e] = gdsc[e]
          /\ gdsc'[d].memForced
          /\ gdsc'[d].clamped = gdsc[d].clamped /\ gdsc'[d].collapsed = gdsc[d].collapsed
          /\ gdsc'[d].powered = gdsc[d].powered /\ gdsc'[d].hwCtl = gdsc[d].hwCtl
      BY <3>1, FieldSet
    <3> QED  BY <2>1, <2>2, <2>3, <3>2 DEF PowerInv, PowerSequence, GotPower
  <2>5. CASE d \notin ForceMem
    <3>1. gdsc' = gdsc
      BY <1>7, <2>1, <2>5 DEF ForceMemory
    <3> QED  BY <2>1, <2>2, <2>3, <2>5, <3>1 DEF PowerInv, PowerSequence, GotPower
  <2> QED  BY <2>4, <2>5
<1>8. CASE ClockGdsc
  <2>1. PICK d \in Domains : d = call.node
    BY <1>8 DEF ClockGdsc, TypeInv, CallFits, Powering
  <2>2. /\ pc = "control" /\ pc' = "idle" /\ call' = call /\ timedOut' = timedOut
    BY <1>8 DEF ClockGdsc, Finish
  <2>3. GotPower(d) /\ (d \in ForceMem => gdsc[d].memForced)
    BY <2>1, <2>2 DEF PowerInv, GotPower
  <2>4. CASE d \in HwCtl
    <3>1. SetDomain(d, "hwCtl", TRUE)
      BY <1>8, <2>1, <2>4 DEF ClockGdsc
    <3>2. /\ \A e \in Domains : e # d => gdsc'[e] = gdsc[e]
          /\ gdsc'[d].hwCtl
          /\ gdsc'[d].clamped = gdsc[d].clamped /\ gdsc'[d].collapsed = gdsc[d].collapsed
          /\ gdsc'[d].powered = gdsc[d].powered /\ gdsc'[d].memForced = gdsc[d].memForced
      BY <3>1, FieldSet
    <3> QED  BY <2>1, <2>2, <2>3, <3>2 DEF PowerInv, PowerSequence, GotPower
  <2>5. CASE d \notin HwCtl
    <3>1. gdsc' = gdsc
      BY <1>8, <2>1, <2>5 DEF ClockGdsc
    <3> QED  BY <2>2, <3>1 DEF PowerInv, PowerSequence, GotPower
  <2> QED  BY <2>4, <2>5
<1>9. ASSUME NEW d \in Domains, HwPowerUp(d)
      PROVE  PowerInv'
  <2>1. /\ UNCHANGED <<call, pc, timedOut>> /\ ~gdsc[d].collapsed /\ SetDomain(d, "powered", TRUE)
    BY <1>9 DEF HwPowerUp
  <2>2. /\ \A e \in Domains : e # d => gdsc'[e] = gdsc[e]
        /\ gdsc'[d].powered
        /\ gdsc'[d].clamped = gdsc[d].clamped /\ gdsc'[d].collapsed = gdsc[d].collapsed
        /\ gdsc'[d].memForced = gdsc[d].memForced /\ gdsc'[d].hwCtl = gdsc[d].hwCtl
    BY <2>1, FieldSet
  <2>3. ~gdsc[d].clamped
    BY <2>1 DEF PowerInv
  <2>4. Powering => call.node \in Domains
    BY DEF TypeInv, CallFits
  <2> QED  BY <2>1, <2>2, <2>3, <2>4 DEF PowerInv, PowerSequence, GotPower, Powering
<1>10. CASE (\E b \in Branches : HwBranch(b)) \/ (\E r \in Roots : HwLatch(r)) \/ UNCHANGED vars
  <2>1. UNCHANGED <<call, pc, gdsc, timedOut>>
    BY <1>10 DEF HwBranch, HwLatch, vars
  <2> QED  BY <2>1 DEF PowerInv, PowerSequence, GotPower
<1> QED
  BY <1>1, <1>2, <1>3, <1>4, <1>5, <1>6, <1>7, <1>8, <1>9, <1>10 DEF Next, Library, Hardware

\* A domain gets power only with its outputs released, its memory is forced on
\* only under power, and the hardware takes control only after that, unless the
\* wait for power ran out of time or is left after one read.
THEOREM PowerInOrder == Spec => []PowerSequence
<1>1. Spec => [](TypeInv /\ PowerInv)
  BY TypeInvInit, TypeInvNext, PowerInvInit, PowerInvNext, PTL DEF Spec
<1>2. PowerInv => PowerSequence
  BY DEF PowerInv
<1> QED  BY <1>1, <1>2, PTL
=============================================================================
