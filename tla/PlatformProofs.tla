--------------------------- MODULE PlatformProofs ---------------------------
(***************************************************************************)
(* For every well-formed command database: its look-ups are right, the     *)
(* drivers that can be located are ready, and a vote asked for by name     *)
(* reaches its register of its regulator and nothing else (the library     *)
(* implements Regulators).                                                 *)
(***************************************************************************)
EXTENDS Platform, WellFoundedInduction, TLAPS

-----------------------------------------------------------------------------
(* The look-ups of the command database.                                   *)

\* A set of numbers that is not empty has a least element.
LEMMA Least ==
  ASSUME NEW S \in SUBSET Nat, S # {}
  PROVE  \E m \in S : \A k \in S : m <= k
<1>1. PICK m \in S : \A k \in S : ~ <<k, m>> \in OpToRel(<, Nat)
  BY WFMin, NatLessThanWellFounded
<1>2. ASSUME NEW k \in S PROVE ~(k < m)
  <2>1. k \in Nat /\ m \in Nat
    OBVIOUS
  <2>2. QED
    BY <1>1, <2>1, Zenon DEF OpToRel
<1>3. QED
  BY <1>2

\* A set of places in the database has a first one.
LEMMA FirstExists ==
  ASSUME NEW found \in SUBSET (Nat \X Nat), found # {}
  PROVE  \E p \in found : \A q \in found : p = q \/ Before(p, q)
<1> DEFINE slaves == {p[1] : p \in found}
<1>1. PICK i \in slaves : \A k \in slaves : i <= k
  <2>1. slaves \subseteq Nat /\ slaves # {}
    OBVIOUS
  <2>2. QED
    BY <2>1, Least
<1> DEFINE entries == {p[2] : p \in {q \in found : q[1] = i}}
<1>2. PICK j \in entries : \A k \in entries : j <= k
  <2>1. entries \subseteq Nat /\ entries # {}
    BY <1>1
  <2>2. QED
    BY <2>1, Least
<1>3. PICK p \in found : p[1] = i /\ p[2] = j
  BY <1>2
<1>4. ASSUME NEW q \in found PROVE p = q \/ Before(p, q)
  <2>1. i <= q[1] /\ (q[1] = i => j <= q[2])
    BY <1>1, <1>2
  <2>2. QED
    BY <1>3, <2>1 DEF Before
<1>5. QED
  BY <1>4

\* The entries FindCmdDBEntry looks at are those of the slaves in use.
LEMMA EntryAt ==
  ASSUME NEW d, NEW i \in DOMAIN d, d[i].slaveId # INVALID, NEW j \in DOMAIN d[i].entries
  PROVE  d[i].entries[j] \in EntriesOf(d)
BY DEF EntriesOf

\* And each entry has its place.
LEMMA PlaceOf ==
  ASSUME NEW d, NEW e \in EntriesOf(d)
  PROVE  \E i \in DOMAIN d : \E j \in DOMAIN d[i].entries :
           d[i].slaveId # INVALID /\ e = d[i].entries[j]
BY DEF EntriesOf

\* An entry that alone fits is found, wherever it is.
LEMMA FindsOnly ==
  ASSUME NEW d, WellFormed(d), NEW address, NEW name, NEW e \in EntriesOf(d),
         address # 0 => address = e.address,
         Matches(e, address, name),
         \A f \in EntriesOf(d) : Matches(f, address, name) => f = e
  PROVE  FindCmdDBEntry(d, address, name) = e
<1> DEFINE found == {p \in Searched(d, address) \X (1 .. MaxEntries) :
                       /\ p[2] \in DOMAIN d[p[1]].entries
                       /\ Matches(d[p[1]].entries[p[2]], address, name)}
           first == CHOOSE p \in found : \A q \in found : p = q \/ Before(p, q)
<1>1. found \in SUBSET (Nat \X Nat)
  BY DEF Searched, WellFormed
<1>2. ASSUME NEW p \in found PROVE d[p[1]].entries[p[2]] = e
  <2>1. d[p[1]].entries[p[2]] \in EntriesOf(d)
    BY EntryAt DEF Searched
  <2>2. QED
    BY <2>1
<1>3. found # {}
  <2>1. PICK i \in DOMAIN d : \E j \in DOMAIN d[i].entries :
                d[i].slaveId # INVALID /\ e = d[i].entries[j]
    BY PlaceOf
  <2>2. PICK j \in DOMAIN d[i].entries : d[i].slaveId # INVALID /\ e = d[i].entries[j]
    BY <2>1
  <2>3. j \in 1 .. MaxEntries /\ SlaveOf(e.address) = d[i].slaveId
    BY <2>2 DEF WellFormed, SlaveOf
  <2>4. i \in Searched(d, address)
    BY <2>2, <2>3 DEF Searched
  <2>5. <<i, j>> \in found
    BY <2>2, <2>3, <2>4
  <2>6. QED
    BY <2>5
<1>4. \E p \in found : \A q \in found : p = q \/ Before(p, q)
  BY <1>1, <1>3, FirstExists
<1>5. first \in found
  BY <1>4
<1>6. FindCmdDBEntry(d, address, name) = d[first[1]].entries[first[2]]
  BY <1>3 DEF FindCmdDBEntry
<1>7. QED
  BY <1>2, <1>5, <1>6

\* A search that nothing fits finds nothing.
LEMMA FindsNothing ==
  ASSUME NEW d, NEW address, NEW name,
         \A f \in EntriesOf(d) : ~Matches(f, address, name)
  PROVE  FindCmdDBEntry(d, address, name) = NULL
<1> DEFINE found == {p \in Searched(d, address) \X (1 .. MaxEntries) :
                       /\ p[2] \in DOMAIN d[p[1]].entries
                       /\ Matches(d[p[1]].entries[p[2]], address, name)}
<1>1. ASSUME NEW p \in found PROVE FALSE
  <2>1. d[p[1]].entries[p[2]] \in EntriesOf(d)
    BY EntryAt DEF Searched
  <2>2. QED
    BY <2>1
<1>2. QED
  BY <1>1 DEF FindCmdDBEntry

\* In a well-formed database an entry is not NULL and its address is not 0.
LEMMA EntryFields ==
  ASSUME NEW d, WellFormed(d), NEW e \in EntriesOf(d)
  PROVE  e # NULL /\ e.address \in Nat \ {0}
BY PlaceOf DEF WellFormed

\* GetCmdDBEntryAddressByName and GetCmdDBAuxDataByName.
LEMMA ByNameFinds ==
  ASSUME NEW d, WellFormed(d), NEW e \in EntriesOf(d), NEW n \in Names, Id[n] = e.id
  PROVE  FindCmdDBEntry(d, 0, n) = e
<1>1. Matches(e, 0, n)
  BY IdAssumption DEF Matches
<1>2. \A f \in EntriesOf(d) : Matches(f, 0, n) => f = e
  BY DEF Matches, WellFormed
<1>3. QED
  BY <1>1, <1>2, FindsOnly

\* A name that no entry has is not found.
LEMMA UnknownName ==
  ASSUME NEW d, NEW n \in Names, \A e \in EntriesOf(d) : e.id # Id[n]
  PROVE  FindCmdDBEntry(d, 0, n) = NULL
BY FindsNothing DEF Matches

\* GetCmdDBEntryNameByAddress and GetCmdDBAuxDataByAddress.
LEMMA ByAddressFinds ==
  ASSUME NEW d, WellFormed(d), NEW e \in EntriesOf(d)
  PROVE  FindCmdDBEntry(d, e.address, NULL) = e
<1>1. e.address # 0
  BY EntryFields
<1>2. Matches(e, e.address, NULL)
  BY <1>1 DEF Matches
<1>3. \A f \in EntriesOf(d) : Matches(f, e.address, NULL) => f = e
  BY DEF Matches, WellFormed
<1>4. QED
  BY <1>2, <1>3, FindsOnly

\* The four look-ups agree with the entries, in every database of the boards.
LEMMA LookUps ==
  ASSUME db \in Databases
  PROVE  RoundTrip
<1>1. WellFormed(db)
  BY DatabasesAssumption
<1>2. ASSUME NEW e \in Entries
      PROVE  /\ NameByAddress(db, e.address) = e.id
             /\ AuxDataByAddress(db, e.address) = e.data
             /\ \A n \in Names : Id[n] = e.id => /\ AddressByName(db, n) = e.address
                                                 /\ AuxDataByName(db, n) = e.data
  <2>1. e # NULL /\ FindCmdDBEntry(db, e.address, NULL) = e
    BY <1>1, EntryFields, ByAddressFinds DEF Entries
  <2>2. \A n \in Names : Id[n] = e.id => FindCmdDBEntry(db, 0, n) = e
    BY <1>1, ByNameFinds DEF Entries
  <2>3. QED
    BY <2>1, <2>2 DEF NameByAddress, AuxDataByAddress, AddressByName, AuxDataByName
<1>3. ASSUME NEW n \in Names, Id[n] \notin {e.id : e \in Entries}
      PROVE  AddressByName(db, n) = NULL
  BY <1>3, UnknownName DEF Entries, AddressByName
<1>4. QED
  BY <1>2, <1>3 DEF RoundTrip

-----------------------------------------------------------------------------
(* What the drivers and the call in progress have come to.                 *)

WriteCalls == [op : {"write"}, cmd : Writes]

Types ==
  /\ db \in Databases
  /\ image \in [Drivers -> {"waiting", "running", "loaded", "unloaded"}]
  /\ installed \in SUBSET Drivers /\ ready \in SUBSET Drivers
  /\ tested \in 0 .. 3 /\ calls \in 0 .. MaxCalls
  /\ Status \in {"SUCCESS", "NOT_FOUND", "DEVICE_ERROR"}
  /\ call = NULL \/ call \in ByName
       \/ (call \in WriteCalls /\ call.cmd.addr \in Addresses(db))
  /\ held \in [Addresses(db) -> Values \cup {NULL}]

\* A driver that can be located has returned success, but the RPMh driver
\* during its test and after one that failed; the protocol of that one is
\* called only while it is there.
Booted ==
  /\ \A d \in installed : d \in ready /\ Depex[d] \subseteq installed
  /\ \A d \in installed \ {"Rpmh"} : image[d] = "loaded"
  /\ tested > 0 \/ image["Rpmh"] = "loaded" \/ call # NULL => "Rpmh" \in installed
  /\ call # NULL => image["Rpmh"] \in {"running", "loaded"}
  /\ "Rpmh" \in installed /\ image["Rpmh"] = "unloaded" => Status # "SUCCESS"

\* The command in the RPMh library is that of the call in progress, and
\* commands are for registers of regulators.
Commanded ==
  /\ request # NULL =>
       /\ call # NULL /\ request = Command(call)
       /\ call.op # "write" => AddressByName(db, call.name) # NULL /\ ~Refuses(call)
  /\ slot \in [{Tcs} -> [addr : Addresses(db), data : Values] \cup {NULL}]

PlatformInv == Types /\ Booted /\ Commanded

\* At first the invariant holds.
LEMMA PlatformInvInit == Init => PlatformInv
<1> SUFFICES ASSUME Init PROVE PlatformInv
  OBVIOUS
<1>1. Types
  BY MaxCallsAssumption DEF Init, Types
<1>2. Booted
  BY DEF Init, Booted, Drivers
<1>3. Commanded
  BY DEF Init, Commanded, Channel!ChanInit
<1>4. QED
  BY <1>1, <1>2, <1>3 DEF PlatformInv

\* A call by name that is not refused is a command for that register of the
\* regulator of that name.
LEMMA CommandByName ==
  ASSUME db \in Databases, NEW c \in ByName, AddressByName(db, c.name) # NULL, ~Refuses(c)
  PROVE  \E e \in RailsOf(db) :
           /\ e.id = Id[c.name] /\ c.op \in Registers
           /\ Command(c) = [addr |-> e.address + Place[c.op], data |-> c.value]
           /\ c.value \in Values
<1>1. c.name \in Names /\ c.op \in Registers /\ c.op # "write"
  BY DEF ByName, EnableVreg, SetVregVoltage, SetVregMode, Registers
<1>2. WellFormed(db)
  BY DatabasesAssumption
<1>3. PICK e \in EntriesOf(db) : e.id = Id[c.name]
  BY <1>1, UnknownName DEF AddressByName
<1>4. FindCmdDBEntry(db, 0, c.name) = e /\ e # NULL
  BY <1>1, <1>2, <1>3, ByNameFinds, EntryFields
<1>5. e \in RailsOf(db)
  BY <1>1, <1>2, <1>3 DEF WellFormed
<1>6. Command(c) = [addr |-> e.address + Place[c.op], data |-> c.value]
  BY <1>1, <1>4 DEF Command, AddressByName, Place, RPMH_REGULATOR_REG
<1>7. c.value \in Values
  <2>1. CASE c \in EnableVreg
    BY <2>1 DEF EnableVreg, Values
  <2>2. CASE c \in SetVregVoltage
    BY <2>2 DEF SetVregVoltage, Values
  <2>3. CASE c \in SetVregMode
    <3>1. c.op = "mode" /\ c.value \in Modes
      BY <2>3 DEF SetVregMode
    <3>2. ~(c.value > 8)
      BY <3>1 DEF Refuses
    <3>3. c.value \in Nat
      BY <3>1, CallsAssumption
    <3>4. QED
      BY <3>1, <3>2, <3>3 DEF Values
  <2>4. QED
    BY <2>1, <2>2, <2>3 DEF ByName
<1>8. QED
  BY <1>1, <1>3, <1>5, <1>6, <1>7

\* A command that the library is given is for a register of a regulator.
LEMMA CommandPlaced ==
  ASSUME Types, Commanded, request # NULL
  PROVE  request \in [addr : Addresses(db), data : Values]
<1>1. CASE call \in ByName
  <2>1. call.op # "write"
    BY <1>1 DEF ByName, EnableVreg, SetVregVoltage, SetVregMode
  <2>2. db \in Databases /\ AddressByName(db, call.name) # NULL /\ ~Refuses(call)
    BY <2>1 DEF Types, Commanded
  <2>3. PICK e \in RailsOf(db) :
          /\ call.op \in Registers /\ call.value \in Values
          /\ Command(call) = [addr |-> e.address + Place[call.op], data |-> call.value]
    BY <1>1, <2>2, CommandByName
  <2>4. e.address + Place[call.op] \in Addresses(db)
    BY <2>3 DEF Addresses
  <2>5. QED
    BY <2>3, <2>4 DEF Commanded
<1>2. CASE call \in WriteCalls /\ call.cmd.addr \in Addresses(db)
  BY <1>2, CallsAssumption DEF Commanded, Command, WriteCalls
<1>3. QED
  BY <1>1, <1>2 DEF Types, Commanded

\* Steps of the dispatcher and of entry points that leave calls alone.
LEMMA NoCallStep ==
  ASSUME Commanded, UNCHANGED <<db, call, library>>
  PROVE  Commanded'
BY DEF Commanded, Command, Refuses, library

\* An entry point that returns keeps the types.
LEMMA ReturnTypes ==
  ASSUME Types, NEW d \in Drivers, NEW how \in {"loaded", "unloaded"}, Returns(d, how),
         installed' \in SUBSET (installed \cup {d}), ready' \in SUBSET (ready \cup {d})
  PROVE  Types'
<1>1. image' \in [Drivers -> {"waiting", "running", "loaded", "unloaded"}]
  BY DEF Types, Returns
<1>2. installed' \in SUBSET Drivers /\ ready' \in SUBSET Drivers
  BY DEF Types
<1>3. UNCHANGED <<db, tested, call, Status, calls, held>>
  BY DEF Returns
<1>4. QED
  BY <1>1, <1>2, <1>3 DEF Types

\* Every step keeps the invariant.
LEMMA PlatformInvNext ==
  ASSUME PlatformInv, [Next]_vars
  PROVE  PlatformInv'
<1> USE MaxCallsAssumption
<1>0. Types /\ Booted /\ Commanded
  BY DEF PlatformInv
<1> USE DEF boot, library, Returns, Return, Located, Drivers, Depex
<1>1. CASE \E d \in Drivers : Dispatch(d)
  <2>1. Types'
    BY <1>0, <1>1 DEF Types, Dispatch
  <2>2. Booted'
    BY <1>0, <1>1 DEF Types, Booted, Dispatch
  <2>3. Commanded'
    BY <1>0, <1>1, NoCallStep DEF Dispatch
  <2>4. QED
    BY <2>1, <2>2, <2>3 DEF PlatformInv
<1>2. CASE CmdDBEntryPoint
  <2>1. Types'
    BY <1>0, <1>2 DEF Types, CmdDBEntryPoint
  <2>2. Booted'
    BY <1>0, <1>2 DEF Types, Booted, CmdDBEntryPoint
  <2>3. Commanded'
    BY <1>0, <1>2, NoCallStep DEF CmdDBEntryPoint
  <2>4. QED
    BY <2>1, <2>2, <2>3 DEF PlatformInv
<1>3. CASE RpmhRefuses
  <2>1. Types'
    <3>1. PICK how \in {"loaded", "unloaded"} : Returns("Rpmh", how)
      BY <1>3 DEF RpmhRefuses
    <3>2. installed' \in SUBSET (installed \cup {"Rpmh"}) /\ ready' \in SUBSET (ready \cup {"Rpmh"})
      BY <1>3 DEF RpmhRefuses
    <3>3. QED
      BY <1>0, <3>1, <3>2, ReturnTypes
  <2>2. Booted'
    BY <1>0, <1>3 DEF Types, Booted, RpmhRefuses
  <2>3. Commanded'
    BY <1>0, <1>3, NoCallStep DEF RpmhRefuses
  <2>4. QED
    BY <2>1, <2>2, <2>3 DEF PlatformInv
<1>4. CASE RpmhInstalls
  <2>1. Types'
    BY <1>0, <1>4 DEF Types, RpmhInstalls
  <2>2. Booted'
    BY <1>0, <1>4 DEF Types, Booted, RpmhInstalls
  <2>3. Commanded'
    BY <1>0, <1>4, NoCallStep DEF RpmhInstalls
  <2>4. QED
    BY <2>1, <2>2, <2>3 DEF PlatformInv
<1>5. CASE RpmhTested
  <2>1. Types'
    BY <1>0, <1>5 DEF Types, RpmhTested
  <2>2. Booted'
    BY <1>0, <1>5 DEF Types, Booted, RpmhTested
  <2>3. Commanded'
    BY <1>0, <1>5, NoCallStep DEF RpmhTested
  <2>4. QED
    BY <2>1, <2>2, <2>3 DEF PlatformInv
<1>6. CASE ClockEntryPoint
  <2>1. Types'
    <3>1. PICK how \in {"loaded", "unloaded"} : Returns("Clock", how)
      BY <1>6 DEF ClockEntryPoint
    <3>2. installed' \in SUBSET (installed \cup {"Clock"}) /\ ready' \in SUBSET (ready \cup {"Clock"})
      BY <1>6 DEF ClockEntryPoint
    <3>3. QED
      BY <1>0, <3>1, <3>2, ReturnTypes
  <2>2. Booted'
    BY <1>0, <1>6 DEF Types, Booted, ClockEntryPoint
  <2>3. Commanded'
    BY <1>0, <1>6, NoCallStep DEF ClockEntryPoint
  <2>4. QED
    BY <2>1, <2>2, <2>3 DEF PlatformInv
<1>7. CASE GpioEntryPoint
  <2>1. Types'
    <3>1. PICK how \in {"loaded", "unloaded"} : Returns("Gpio", how)
      BY <1>7 DEF GpioEntryPoint
    <3>2. installed' \in SUBSET (installed \cup {"Gpio"}) /\ ready' \in SUBSET (ready \cup {"Gpio"})
      BY <1>7 DEF GpioEntryPoint
    <3>3. QED
      BY <1>0, <3>1, <3>2, ReturnTypes
  <2>2. Booted'
    BY <1>0, <1>7 DEF Types, Booted, GpioEntryPoint
  <2>3. Commanded'
    BY <1>0, <1>7, NoCallStep DEF GpioEntryPoint
  <2>4. QED
    BY <2>1, <2>2, <2>3 DEF PlatformInv
<1>8. CASE Lt9611EntryPoint
  <2>1. Types'
    BY <1>0, <1>8 DEF Types, Lt9611EntryPoint
  <2>2. Booted'
    BY <1>0, <1>8 DEF Types, Booted, Lt9611EntryPoint
  <2>3. Commanded'
    BY <1>0, <1>8, NoCallStep DEF Lt9611EntryPoint
  <2>4. QED
    BY <2>1, <2>2, <2>3 DEF PlatformInv
<1>9. CASE RpmhTests
  <2>1. \A i \in 1 .. 3 : TestCalls[i] \in ByName
    BY CallsAssumption DEF TestCalls, ByName, EnableVreg, SetVregVoltage
  <2>2. Types'
    BY <1>0, <1>9, <2>1 DEF Types, RpmhTests
  <2>3. Booted'
    BY <1>0, <1>9 DEF Types, Booted, RpmhTests
  <2>4. Commanded'
    BY <1>0, <1>9 DEF Commanded, RpmhTests
  <2>5. QED
    BY <2>2, <2>3, <2>4 DEF PlatformInv
<1>10. CASE Client
  <2>1. Types'
    BY <1>0, <1>10 DEF Types, Client, WriteCalls
  <2>2. Booted'
    BY <1>0, <1>10 DEF Types, Booted, Client
  <2>3. Commanded'
    BY <1>0, <1>10 DEF Commanded, Client, Idle
  <2>4. QED
    BY <2>1, <2>2, <2>3 DEF PlatformInv
<1>11. CASE NotFound
  <2>1. request = NULL
    BY <1>0, <1>11 DEF Commanded, NotFound
  <2>2. Types' /\ Booted'
    BY <1>0, <1>11 DEF Types, Booted, NotFound
  <2>3. Commanded'
    BY <1>0, <1>11, <2>1 DEF Commanded, NotFound
  <2>4. QED
    BY <2>2, <2>3 DEF PlatformInv
<1>12. CASE Refused
  <2>1. request = NULL
    BY <1>0, <1>12 DEF Commanded, Refused
  <2>2. Types' /\ Booted'
    BY <1>0, <1>12 DEF Types, Booted, Refused
  <2>3. Commanded'
    BY <1>0, <1>12, <2>1 DEF Commanded, Refused
  <2>4. QED
    BY <2>2, <2>3 DEF PlatformInv
<1>13. CASE Written
  <2>1. request # NULL /\ call # NULL
    BY <1>0, <1>13 DEF Commanded, Written, Channel!Launch
  <2>2. Types' /\ Booted'
    BY <1>0, <1>13, <2>1 DEF Types, Booted, Written, Channel!Launch
  <2>3. Commanded'
    BY <1>0, <1>13, <2>1, CommandPlaced DEF Commanded, Channel!Launch, Written
  <2>4. QED
    BY <2>2, <2>3 DEF PlatformInv
<1>14. CASE NotWritten
  <2>1. request # NULL /\ call # NULL
    BY <1>0, <1>14 DEF Commanded, NotWritten, Channel!Drop
  <2>2. Types' /\ Booted'
    BY <1>0, <1>14, <2>1 DEF Types, Booted, NotWritten, Channel!Drop
  <2>3. Commanded'
    BY <1>0, <1>14, <2>1, CommandPlaced DEF Commanded, Channel!Drop, NotWritten
  <2>4. QED
    BY <2>2, <2>3 DEF PlatformInv
<1>15. CASE RpmhWrite
  <2>1. Types' /\ Booted'
    BY <1>0, <1>15 DEF Types, Booted, RpmhWrite, Channel!Ask
  <2>2. Commanded'
    BY <1>0, <1>15 DEF Commanded, RpmhWrite, Channel!Ask, Command, Refuses
  <2>3. QED
    BY <2>1, <2>2 DEF PlatformInv
<1>16. CASE HwComplete
  <2>1. slot[Tcs] \in [addr : Addresses(db), data : Values] /\ slot' = [slot EXCEPT ![Tcs] = NULL]
    BY <1>0, <1>16 DEF Commanded, HwComplete, Channel!Finish
  <2>2. Types' /\ Booted'
    BY <1>0, <1>16, <2>1 DEF Types, Booted, HwComplete
  <2>3. Commanded'
    BY <1>0, <1>16, <2>1 DEF Commanded, HwComplete, Channel!Finish, Command, Refuses
  <2>4. QED
    BY <2>2, <2>3 DEF PlatformInv
<1>17. CASE UNCHANGED vars
  <2>1. Types' /\ Booted'
    BY <1>0, <1>17 DEF Types, Booted, vars
  <2>2. Commanded'
    BY <1>0, <1>17, NoCallStep DEF vars
  <2>3. QED
    BY <2>1, <2>2 DEF PlatformInv
<1>18. QED
  BY <1>1, <1>2, <1>3, <1>4, <1>5, <1>6, <1>7, <1>8, <1>9, <1>10, <1>11, <1>12, <1>13, <1>14,
     <1>15, <1>16, <1>17 DEF Next, EntryPoint, CallStep

-----------------------------------------------------------------------------
(* The invariants of the runs.                                             *)

\* Every variable keeps its type; what the RPMh library is asked for is a
\* command for a register of a regulator.
THEOREM PlatformTypeCorrect == Spec => []TypeOK
<1>1. ASSUME PlatformInv PROVE TypeOK
  <2>1. Types /\ Commanded
    BY <1>1 DEF PlatformInv
  <2>2. request = NULL \/ (request.addr \in Addresses(db) /\ request.data \in Values)
    BY <2>1, CommandPlaced
  <2>3. call = NULL \/ call \in ByName \/ (call.op = "write" /\ call.cmd \in Writes)
    BY <2>1 DEF Types, WriteCalls
  <2>4. QED
    BY <2>1, <2>2, <2>3 DEF Types, TypeOK
<1>2. PlatformInv /\ [Next]_vars => PlatformInv'
  BY PlatformInvNext
<1>3. QED
  BY <1>1, <1>2, PlatformInvInit, PTL DEF Spec

\* FindCmdDBEntry and the four look-ups: a name leads to its own entry and
\* back, in whichever order slaves and entries are.
THEOREM LookUpsCorrect == Spec => []RoundTrip
<1>1. PlatformInv => RoundTrip
  BY LookUps DEF PlatformInv, Types
<1>2. PlatformInv /\ [Next]_vars => PlatformInv'
  BY PlatformInvNext
<1>3. QED
  BY <1>1, <1>2, PlatformInvInit, PTL DEF Spec

\* The entry points, in any order the dispatcher may start them and with any
\* of them failing: a protocol that can be located has its globals set and
\* what it depends on installed.
THEOREM ProtocolsReady == Spec => []Ready
<1>1. PlatformInv => Ready
  BY DEF PlatformInv, Booted, Ready
<1>2. PlatformInv /\ [Next]_vars => PlatformInv'
  BY PlatformInvNext
<1>3. QED
  BY <1>1, <1>2, PlatformInvInit, PTL DEF Spec

-----------------------------------------------------------------------------
(* The platform implements Regulators.                                     *)

\* The refinement mapping, and the same as functions of the database.
askedVote == IF call = NULL THEN NULL ELSE VoteOf(call)
dueVote == IF slot[Tcs] = NULL THEN NULL ELSE VoteAt(slot[Tcs])
toldVotes == [r \in Rails |-> [g \in Registers |-> Told(r, g)]]

VoteIn(d, c) ==
  LET places == {p \in RailsOf(d) \X Registers : p[1].address + Place[p[2]] = c.addr}
      place == CHOOSE p \in places : TRUE
  IN  [rail |-> place[1].id, register |-> place[2], value |-> c.data]
AskedIn(d, c) ==
  IF c.op = "write" THEN VoteIn(d, c.cmd)
  ELSE [rail |-> Id[c.name], register |-> c.op, value |-> c.value]
ToldIn(d, h, r, g) ==
  LET own == {e \in RailsOf(d) : e.id = r}
  IN  IF own = {} THEN NULL ELSE h[(CHOOSE e \in own : TRUE).address + Place[g]]

\* The votes a state stands for are functions of its database, call, slot and memory.
LEMMA VotesNow ==
  /\ askedVote = IF call = NULL THEN NULL ELSE AskedIn(db, call)
  /\ dueVote = IF slot[Tcs] = NULL THEN NULL ELSE VoteIn(db, slot[Tcs])
  /\ toldVotes = [r \in Rails |-> [g \in Registers |-> ToldIn(db, held, r, g)]]
BY DEF askedVote, dueVote, toldVotes, VoteOf, VoteAt, VoteIn, AskedIn, Told, ToldIn

\* The same after a step.
LEMMA VotesNext ==
  /\ askedVote' = IF call' = NULL THEN NULL ELSE AskedIn(db', call')
  /\ dueVote' = IF slot'[Tcs] = NULL THEN NULL ELSE VoteIn(db', slot'[Tcs])
  /\ toldVotes' = [r \in Rails |-> [g \in Registers |-> ToldIn(db', held', r, g)]]
BY DEF askedVote, dueVote, toldVotes, VoteOf, VoteAt, VoteIn, AskedIn, Told, ToldIn

\* An address is that of one register of one regulator.
LEMMA VoteInPlace ==
  ASSUME NEW d \in Databases, NEW e \in RailsOf(d), NEW g \in Registers,
         NEW c, c.addr = e.address + Place[g]
  PROVE  VoteIn(d, c) = [rail |-> e.id, register |-> g, value |-> c.data]
<1> DEFINE places == {p \in RailsOf(d) \X Registers : p[1].address + Place[p[2]] = c.addr}
<1>1. WellFormed(d)
  BY DatabasesAssumption
<1>2. <<e, g>> \in places
  OBVIOUS
<1>3. ASSUME NEW p \in places PROVE p[1] = e /\ p[2] = g
  BY <1>1 DEF WellFormed
<1>4. (CHOOSE p \in places : TRUE) \in places
  BY <1>2
<1>5. QED
  BY <1>3, <1>4 DEF VoteIn

\* A regulator is an entry, and its name one of a regulator.
LEMMA RailIn ==
  ASSUME NEW d \in Databases, NEW e \in RailsOf(d)
  PROVE  e \in EntriesOf(d) /\ e.id \in Rails
BY DEF RailsOf, EntriesOf, Rails, RSC_SLAVE_HW_VRM, INVALID

\* What a register was last told is in the memory at its address.
LEMMA ToldInPlace ==
  ASSUME NEW d \in Databases, NEW e \in RailsOf(d), NEW g \in Registers, NEW h
  PROVE  ToldIn(d, h, e.id, g) = h[e.address + Place[g]]
<1> DEFINE own == {f \in RailsOf(d) : f.id = e.id}
<1>1. WellFormed(d)
  BY DatabasesAssumption
<1>2. own = {e}
  BY <1>1, RailIn DEF WellFormed
<1>3. QED
  BY <1>2 DEF ToldIn

\* What is asked for is a vote.
LEMMA AskedIsVote ==
  ASSUME NEW d \in Databases,
         NEW c, c \in ByName \/ (c \in WriteCalls /\ c.cmd.addr \in Addresses(d))
  PROVE  AskedIn(d, c) # NULL
<1>1. CASE c \in ByName
  <2>1. /\ c.op \in Registers /\ c.op # "write" /\ c.name \in Names
        /\ c.value \in Values \cup Modes
    BY <1>1 DEF ByName, EnableVreg, SetVregVoltage, SetVregMode, Registers, Values
  <2>2. AskedIn(d, c) \in Votes
    BY <2>1 DEF AskedIn, Votes
  <2>3. QED
    BY <2>2, NullAssumption
<1>2. CASE c \in WriteCalls /\ c.cmd.addr \in Addresses(d)
  <2>1. PICK e \in RailsOf(d), g \in Registers : c.cmd.addr = e.address + Place[g]
    BY <1>2 DEF Addresses
  <2>2. AskedIn(d, c) = [rail |-> e.id, register |-> g, value |-> c.cmd.data]
    BY <1>2, <2>1, VoteInPlace DEF AskedIn, WriteCalls
  <2>3. e.id \in Rails /\ c.cmd.data \in Values
    BY <1>2, RailIn, CallsAssumption DEF WriteCalls
  <2>4. QED
    BY <2>2, <2>3, NullAssumption DEF Votes
<1>3. QED
  BY <1>1, <1>2

\* A command in the slot is the vote for a register of a regulator.
LEMMA DueIsVote ==
  ASSUME NEW d \in Databases, NEW c \in [addr : Addresses(d), data : Values]
  PROVE  \E e \in RailsOf(d), g \in Registers :
           /\ c.addr = e.address + Place[g]
           /\ VoteIn(d, c) = [rail |-> e.id, register |-> g, value |-> c.data]
           /\ VoteIn(d, c) # NULL /\ e.id \in Rails
<1>1. PICK e \in RailsOf(d), g \in Registers : c.addr = e.address + Place[g]
  BY DEF Addresses
<1>2. VoteIn(d, c) = [rail |-> e.id, register |-> g, value |-> c.data]
  BY <1>1, VoteInPlace
<1>3. e.id \in Rails
  BY RailIn
<1>4. VoteIn(d, c) # NULL
  BY <1>2, <1>3, NullAssumption DEF Votes
<1>5. QED
  BY <1>1, <1>2, <1>3, <1>4

\* At first nothing is asked for, due or told.
LEMMA RegulatorsInit == Init => Named!RailInit
<1> SUFFICES ASSUME Init PROVE Named!RailInit
  OBVIOUS
<1>1. askedVote = NULL /\ dueVote = NULL
  BY DEF Init, Channel!ChanInit, askedVote, dueVote
<1>2. ASSUME NEW r \in Rails, NEW g \in Registers PROVE Told(r, g) = NULL
  <2> DEFINE own == {e \in RailsOf(db) : e.id = r}
  <2>1. CASE own = {}
    BY <2>1 DEF Told
  <2>2. CASE own # {}
    <3>1. PICK e \in own : e = CHOOSE f \in own : TRUE
      BY <2>2
    <3>2. e \in RailsOf(db)
      OBVIOUS
    <3>3. e.address + Place[g] \in Addresses(db)
      BY <3>2 DEF Addresses
    <3>4. Told(r, g) = held[e.address + Place[g]]
      BY <2>2, <3>1 DEF Told
    <3>5. QED
      BY <3>3, <3>4 DEF Init
  <2>3. QED
    BY <2>1, <2>2
<1>3. QED
  BY <1>1, <1>2 DEF Named!RailInit, askedVote, dueVote

\* Steps that concern neither a call nor the power controller.
LEMMA NoVoteStep ==
  ASSUME UNCHANGED <<db, call, slot, held>>
  PROVE  UNCHANGED <<askedVote, dueVote, toldVotes>>
BY VotesNow, VotesNext

\* Every step is one of Regulators or leaves its variables alone.
LEMMA RegulatorsNext ==
  ASSUME PlatformInv, PlatformInv', [Next]_vars
  PROVE  [Named!Ask \/ Named!Refuse \/ Named!Grant \/ Named!Land]_(Named!railVars)
<1>0. /\ Types /\ Booted /\ Commanded /\ Types' /\ Commanded'
      /\ db \in Databases
  BY DEF PlatformInv, Types
<1> USE DEF boot, library, Return
<1>a. ASSUME UNCHANGED <<askedVote, dueVote, toldVotes>>
      PROVE  UNCHANGED Named!railVars
  BY <1>a DEF askedVote, dueVote, toldVotes, Named!railVars
<1>b. ASSUME askedVote = NULL, askedVote' # NULL, UNCHANGED <<dueVote, toldVotes>>
      PROVE  Named!Ask
  BY <1>b DEF askedVote, dueVote, toldVotes, Named!Ask
<1>c. ASSUME askedVote # NULL, askedVote' = NULL, UNCHANGED <<dueVote, toldVotes>>
      PROVE  Named!Refuse
  BY <1>c DEF askedVote, dueVote, toldVotes, Named!Refuse
<1>1. CASE \/ \E d \in Drivers : Dispatch(d)
           \/ CmdDBEntryPoint \/ RpmhRefuses \/ RpmhInstalls \/ RpmhTested
           \/ ClockEntryPoint \/ GpioEntryPoint \/ Lt9611EntryPoint
           \/ RpmhWrite \/ UNCHANGED vars
  <2>1. UNCHANGED <<db, call, slot, held>>
    BY <1>1 DEF Dispatch, CmdDBEntryPoint, RpmhRefuses, RpmhInstalls, RpmhTested, ClockEntryPoint,
         GpioEntryPoint, Lt9611EntryPoint, RpmhWrite, Channel!Ask, Returns, vars
  <2>2. QED
    BY <2>1, <1>a, NoVoteStep
<1>2. CASE RpmhTests \/ Client
  <2>1. call = NULL /\ UNCHANGED <<db, slot, held>>
    BY <1>2 DEF RpmhTests, Client, Idle
  <2>2. askedVote = NULL /\ UNCHANGED <<dueVote, toldVotes>>
    BY <2>1, VotesNow, VotesNext
  <2>3. CASE call' = NULL
    BY <2>1, <2>2, <2>3, <1>a, VotesNext
  <2>4. CASE call' # NULL
    <3>1. call' \in ByName \/ (call' \in WriteCalls /\ call'.cmd.addr \in Addresses(db))
      BY <1>0, <2>1, <2>4 DEF Types
    <3>2. askedVote' # NULL
      BY <1>0, <2>1, <2>4, <3>1, VotesNext, AskedIsVote
    <3>3. QED
      BY <2>2, <3>2, <1>b
  <2>5. QED
    BY <2>3, <2>4
<1>3. CASE NotFound \/ Refused \/ NotWritten
  <2>1. call # NULL /\ call' = NULL /\ UNCHANGED <<db, slot, held>>
    BY <1>0, <1>3 DEF Commanded, NotFound, Refused, NotWritten, Channel!Drop
  <2>2. UNCHANGED <<dueVote, toldVotes>>
    BY <2>1, VotesNow, VotesNext
  <2>3. askedVote # NULL /\ askedVote' = NULL
    BY <1>0, <2>1, VotesNow, VotesNext, AskedIsVote DEF Types
  <2>4. QED
    BY <2>2, <2>3, <1>c
<1>4. CASE Written
  <2>1. /\ request # NULL /\ call # NULL /\ call' = NULL /\ UNCHANGED <<db, held>>
        /\ slot[Tcs] = NULL /\ slot'[Tcs] = request
    BY <1>0, <1>4 DEF Commanded, Written, Channel!Launch
  <2>2. request \in [addr : Addresses(db), data : Values]
    BY <1>0, <2>1, CommandPlaced
  <2>3. VoteIn(db, request) = AskedIn(db, call)
    <3>1. CASE call \in ByName
      <4>1. call.op # "write"
        BY <3>1 DEF ByName, EnableVreg, SetVregVoltage, SetVregMode
      <4>2. PICK e \in RailsOf(db) :
              /\ e.id = Id[call.name] /\ call.op \in Registers
              /\ request = [addr |-> e.address + Place[call.op], data |-> call.value]
        BY <1>0, <2>1, <3>1, <4>1, CommandByName DEF Commanded
      <4>3. VoteIn(db, request) = [rail |-> e.id, register |-> call.op, value |-> call.value]
        BY <1>0, <4>2, VoteInPlace
      <4>4. QED
        BY <4>1, <4>2, <4>3 DEF AskedIn
    <3>2. CASE call \in WriteCalls
      BY <1>0, <2>1, <3>2 DEF Commanded, Command, AskedIn, WriteCalls
    <3>3. QED
      BY <1>0, <2>1, <3>1, <3>2 DEF Types
  <2>4. PICK e \in RailsOf(db) : AskedIn(db, call).rail = e.id /\ e.id \in Rails /\ AskedIn(db, call) # NULL
    BY <1>0, <2>2, <2>3, DueIsVote
  <2>5. /\ askedVote # NULL /\ askedVote.rail \in Rails /\ askedVote' = NULL
        /\ dueVote = NULL /\ dueVote' = askedVote /\ UNCHANGED toldVotes
    BY <2>1, <2>3, <2>4, VotesNow, VotesNext
  <2>6. Named!Grant
    BY <2>5 DEF Named!Grant, askedVote, dueVote, toldVotes
  <2>7. QED
    BY <2>6
<1>5. CASE HwComplete
  <2>1. /\ slot[Tcs] \in [addr : Addresses(db), data : Values] /\ slot'[Tcs] = NULL
        /\ slot[Tcs] # NULL /\ UNCHANGED <<db, call>>
        /\ held' = [held EXCEPT ![slot[Tcs].addr] = slot[Tcs].data]
    BY <1>0, <1>5 DEF Commanded, HwComplete, Channel!Finish
  <2>2. PICK e \in RailsOf(db), g \in Registers :
          /\ slot[Tcs].addr = e.address + Place[g]
          /\ dueVote = [rail |-> e.id, register |-> g, value |-> slot[Tcs].data]
          /\ dueVote # NULL /\ e.id \in Rails
    BY <1>0, <2>1, VotesNow, DueIsVote
  <2>3. dueVote' = NULL /\ askedVote' = askedVote
    BY <2>1, VotesNow, VotesNext
  <2>4. ASSUME NEW r \in Rails, NEW k \in Registers
        PROVE  ToldIn(db, held', r, k) = IF r = e.id /\ k = g THEN slot[Tcs].data ELSE ToldIn(db, held, r, k)
    <3>1. CASE \A f \in RailsOf(db) : f.id # r
      BY <2>2, <3>1 DEF ToldIn
    <3>2. CASE \E f \in RailsOf(db) : f.id = r
      <4>1. PICK f \in RailsOf(db) : f.id = r
        BY <3>2
      <4>2. ToldIn(db, held', r, k) = held'[f.address + Place[k]] /\ ToldIn(db, held, r, k) = held[f.address + Place[k]]
        BY <1>0, <4>1, ToldInPlace
      <4>3. f.address + Place[k] \in Addresses(db) /\ e.address + Place[g] \in Addresses(db)
        BY <4>1, <2>2 DEF Addresses
      <4>4. (r = e.id /\ k = g) <=> (f.address + Place[k] = e.address + Place[g])
        <5>1. WellFormed(db) /\ e \in EntriesOf(db) /\ f \in EntriesOf(db)
          BY <1>0, RailIn, DatabasesAssumption
        <5>2. QED
          BY <4>1, <5>1 DEF WellFormed
      <4>5. QED
        BY <1>0, <2>1, <2>2, <4>2, <4>3, <4>4 DEF Types
    <3>3. QED
      BY <3>1, <3>2
  <2>5. toldVotes' = [toldVotes EXCEPT ![dueVote.rail][dueVote.register] = dueVote.value]
    <3> DEFINE before == [r \in Rails |-> [k \in Registers |-> ToldIn(db, held, r, k)]]
               after == [r \in Rails |-> [k \in Registers |-> ToldIn(db, held', r, k)]]
    <3>1. toldVotes = before /\ toldVotes' = after
      BY <2>1, VotesNow, VotesNext
    <3>2. after = [before EXCEPT ![e.id] = [@ EXCEPT ![g] = slot[Tcs].data]]
      BY <2>2, <2>4
    <3>3. QED
      BY <2>2, <3>1, <3>2
  <2>6. Named!Land
    BY <2>2, <2>3, <2>5 DEF Named!Land, askedVote, dueVote, toldVotes
  <2>7. QED
    BY <2>6
<1>6. QED
  BY <1>1, <1>2, <1>3, <1>4, <1>5 DEF Next, EntryPoint, CallStep

\* The protocol of the RPMh driver, the command database below it and the
\* RPMh library: a vote asked for by name is refused without effect, or
\* reaches that register of the regulator of that name, once.
THEOREM ImplementsRegulators == Spec => RefinesRegulators
<1>1. PlatformInv /\ [Next]_vars => PlatformInv'
  BY PlatformInvNext
<1>2. PlatformInv /\ PlatformInv' /\ [Next]_vars => [Named!Ask \/ Named!Refuse \/ Named!Grant \/ Named!Land]_(Named!railVars)
  BY RegulatorsNext
<1>3. QED
  BY <1>1, <1>2, PlatformInvInit, RegulatorsInit, PTL DEF Spec, RefinesRegulators, Named!RailSpec
=============================================================================
