------------------------------ MODULE Platform ------------------------------
(***************************************************************************)
(* The drivers as the firmware starts them, and the way of a regulator     *)
(* vote through three of them: a name, looked up in the command database,  *)
(* becomes an address, and the address and the value a request to the      *)
(* RPMh library, which module VoteChannel stands for (Rpmh refines it).    *)
(*                                                                         *)
(* The dispatcher starts the drivers of the a priori file in its order     *)
(* whatever they depend on, the others once the protocols of their [Depex] *)
(* are installed.  An entry point that returns an error has its image      *)
(* unloaded; what it installed or registered stays where it is.            *)
(*                                                                         *)
(* A definition marked (slip) is a wrong variant of the one after it, used *)
(* to see that the properties notice.                                      *)
(***************************************************************************)
EXTENDS CmdDb, FiniteSets

CONSTANTS
  Databases,  \* the command databases of the boards looked at
  Voltages, Modes,
  TestName,   \* the regulator the RPMh driver tries out, "ldoc3"
  TestVoltage,
  Writes,     \* the commands clients send with RpmhWrite, [addr, data]
  Tcs,        \* the one active TCS
  MaxCalls    \* bound on the calls of clients

APriori == <<"CmdDB", "Rpmh", "Clock", "Gpio">>
Drivers == {"CmdDB", "Rpmh", "Clock", "Gpio", "Lt9611"}

\* The protocols a driver waits for when it is not in the a priori file.
Depex == [d \in Drivers |-> CASE d = "Rpmh" -> {"CmdDB"}
                              [] d = "Clock" -> {"Rpmh"}
                              [] d = "Lt9611" -> {"Rpmh", "Gpio"}
                              [] OTHER -> {}]

RSC_SLAVE_HW_VRM == 4

\* The entries of the slaves in use.
EntriesOf(d) == UNION {{d[i].entries[j] : j \in DOMAIN d[i].entries} :
                         i \in {k \in DOMAIN d : d[k].slaveId # INVALID}}

\* The regulators of a database, and what a register of one may hold.
RailsOf(d) == UNION {{d[i].entries[j] : j \in DOMAIN d[i].entries} :
                       i \in {k \in DOMAIN d : d[k].slaveId = RSC_SLAVE_HW_VRM}}
Rails == {e.id : e \in UNION {RailsOf(d) : d \in Databases}}
Registers == {"voltage", "enable", "mode"}
Place == [voltage |-> 0, enable |-> 4, mode |-> 8]
Addresses(d) == {e.address + Place[g] : e \in RailsOf(d), g \in Registers}
Values == {0, 1} \cup Voltages \cup {m \in Modes : m <= 8}

EnableVreg == [op : {"enable"}, name : Names, value : {0, 1}]
SetVregVoltage == [op : {"voltage"}, name : Names, value : Voltages]
SetVregMode == [op : {"mode"}, name : Names, value : Modes]
ByName == EnableVreg \cup SetVregVoltage \cup SetVregMode

Requests == [addr : UNION {Addresses(d) : d \in Databases}, data : Values \cup Modes]
Votes == [rail : Rails \cup {Id[n] : n \in Names}, register : Registers, value : Values \cup Modes]

\* What the library relies on and does not look at: each entry is found in
\* the slave its address names, neither identifiers nor addresses are used
\* twice, registers of regulators do not overlap, and names that clients ask
\* for, where they are known, are those of regulators.
WellFormed(d) ==
  /\ DOMAIN d \subseteq Nat
  /\ \A i \in DOMAIN d : d[i].slaveId # INVALID =>
       /\ DOMAIN d[i].entries \subseteq 1 .. MaxEntries
       /\ \A j \in DOMAIN d[i].entries : LET e == d[i].entries[j] IN
            e # NULL /\ e.address \in Nat \ {0} /\ (e.address \div 65536) % 8 = d[i].slaveId
  /\ \A e, f \in EntriesOf(d) : e.id = f.id \/ e.address = f.address => e = f
  /\ \A e, f \in RailsOf(d), g, h \in Registers :
       e.address + Place[g] = f.address + Place[h] => e = f /\ g = h
  /\ \A e \in EntriesOf(d), n \in Names : e.id = Id[n] => e \in RailsOf(d)

ASSUME DatabasesAssumption == \A d \in Databases : WellFormed(d)
ASSUME MaxCallsAssumption == MaxCalls \in Nat
ASSUME CallsAssumption ==
  /\ Modes \subseteq Nat /\ Writes \subseteq [addr : Nat, data : Values]
  /\ TestName \in Names /\ TestVoltage \in Voltages
ASSUME NullAssumption == NULL \notin Requests \cup Votes

VARIABLES
  db,         \* what the always-on processor has left in memory
  image,      \* image[d]: how far the dispatcher is with driver d
  installed,  \* the drivers whose protocol is installed
  ready,      \* the drivers whose globals, which their protocols use, are set
  tested,     \* test calls the entry point of the RPMh driver has made
  call,       \* the protocol call in progress
  Status,     \* what the last one returned
  calls,      \* the calls clients have made
  request, ok, slot,  \* the RPMh library
  held        \* what the power controller has been told, by address

boot == <<image, installed, ready, tested>>
library == <<request, ok, slot>>
vars == <<db, boot, call, Status, calls, library, held>>

Channel == INSTANCE VoteChannel WITH Slots <- {Tcs}, NoRequest <- NULL,
  Requests <- Requests

TypeOK ==
  /\ db \in Databases
  /\ image \in [Drivers -> {"waiting", "running", "loaded", "unloaded"}]
  /\ installed \in SUBSET Drivers
  /\ ready \in SUBSET Drivers
  /\ tested \in 0 .. 3
  /\ call = NULL \/ call \in ByName \/ (call.op = "write" /\ call.cmd \in Writes)
  /\ Status \in {"SUCCESS", "NOT_FOUND", "DEVICE_ERROR"}
  /\ calls \in 0 .. MaxCalls
  /\ request = NULL \/ (request.addr \in Addresses(db) /\ request.data \in Values)
  /\ held \in [Addresses(db) -> Values \cup {NULL}]

-----------------------------------------------------------------------------
(* The dispatcher.                                                         *)

Idle == call = NULL /\ \A d \in Drivers : image[d] # "running"
Over(d) == image[d] \in {"loaded", "unloaded"}

\* d is the next of the a priori file, or that file is done with and what d
\* depends on is there.
Dispatchable(d) ==
  \/ \E i \in DOMAIN APriori : APriori[i] = d /\ \A k \in 1 .. (i - 1) : Over(APriori[k])
  \/ /\ \A i \in DOMAIN APriori : APriori[i] # d /\ Over(APriori[i])
     /\ Depex[d] \subseteq installed

Dispatch(d) ==
  /\ Idle /\ image[d] = "waiting" /\ Dispatchable(d)
  /\ image' = [image EXCEPT ![d] = "running"]
  /\ UNCHANGED <<db, installed, ready, tested, call, Status, calls, library, held>>

\* The entry point of d, which is running, returns.
Returns(d, how) ==
  /\ image[d] = "running"
  /\ image' = [image EXCEPT ![d] = how]
  /\ UNCHANGED <<db, tested, call, Status, calls, library, held>>

\* LocateProtocol.
Located(d) == d \in installed

-----------------------------------------------------------------------------
(* The entry points.                                                       *)

\* The region may not be in the memory map or its magic may be wrong, and
\* installing the protocol may fail, with gCmdDbHeader set.
CmdDBEntryPoint ==
  \/ Returns("CmdDB", "unloaded") /\ UNCHANGED <<installed, ready>>
  \/ Returns("CmdDB", "unloaded") /\ ready' = ready \cup {"CmdDB"} /\ UNCHANGED installed
  \/ /\ Returns("CmdDB", "loaded")
     /\ ready' = ready \cup {"CmdDB"}
     /\ installed' = installed \cup {"CmdDB"}

\* CmdDB is not there, RpmhLibInit fails, or the protocol cannot be installed.
RpmhRefuses ==
  \/ Returns("Rpmh", "unloaded") /\ "Rpmh" \notin installed /\ UNCHANGED <<installed, ready>>
  \/ /\ Located("CmdDB")
     /\ Returns("Rpmh", "unloaded") /\ "Rpmh" \notin installed
     /\ ready' = ready \cup {"Rpmh"}
     /\ UNCHANGED installed

RpmhInstalls ==
  /\ image["Rpmh"] = "running" /\ "Rpmh" \notin installed
  /\ Located("CmdDB")
  /\ ready' = ready \cup {"Rpmh"}
  /\ installed' = installed \cup {"Rpmh"}
  /\ UNCHANGED <<db, image, tested, call, Status, calls, library, held>>

TestCalls ==
  <<[op |-> "enable", name |-> TestName, value |-> 1],
    [op |-> "enable", name |-> TestName, value |-> 0],
    [op |-> "voltage", name |-> TestName, value |-> TestVoltage]>>

\* Between two calls the entry point sleeps for five seconds.
RpmhTests ==
  /\ image["Rpmh"] = "running" /\ "Rpmh" \in installed
  /\ call = NULL /\ tested < 3 /\ Status = "SUCCESS"
  /\ tested' = tested + 1
  /\ call' = TestCalls[tested + 1]
  /\ UNCHANGED <<db, image, installed, ready, Status, calls, library, held>>

\* An error of a test call is the entry point's, with the protocol installed.
RpmhTested ==
  /\ call = NULL
  /\ \/ Status # "SUCCESS" /\ Returns("Rpmh", "unloaded")
     \/ Status = "SUCCESS" /\ tested = 3 /\ Returns("Rpmh", "loaded")
  /\ UNCHANGED <<installed, ready>>

\* ClockDeinit, at the end of the entry point, only unmaps the controllers: the
\* library's context stays set, and so does ready.

\* (slip) The clock driver leaves its dependency to the dispatcher.
ClockEntryPointUnlocated ==
  \/ Returns("Clock", "unloaded") /\ UNCHANGED <<installed, ready>>
  \/ /\ Returns("Clock", "loaded")
     /\ ready' = ready \cup {"Clock"}
     /\ installed' = installed \cup {"Clock"}

ClockEntryPoint ==
  \/ Returns("Clock", "unloaded") /\ UNCHANGED <<installed, ready>>
  \/ /\ Located("Rpmh")
     /\ Returns("Clock", "loaded")
     /\ ready' = ready \cup {"Clock"}
     /\ installed' = installed \cup {"Clock"}

\* Module GpioDriver has the steps of this entry point.
GpioEntryPoint ==
  \/ Returns("Gpio", "unloaded") /\ UNCHANGED <<installed, ready>>
  \/ /\ Returns("Gpio", "loaded")
     /\ ready' = ready \cup {"Gpio"}
     /\ installed' = installed \cup {"Gpio"}

\* Configuring pins never fails, registering the interrupt may.
Lt9611EntryPoint ==
  /\ \/ Returns("Lt9611", "unloaded")
     \/ Located("Gpio") /\ Located("Rpmh") /\ Returns("Lt9611", "loaded")
  /\ UNCHANGED <<installed, ready>>

-----------------------------------------------------------------------------
(* A call of the RPMh protocol.                                            *)

\* Other drivers call while the RPMh driver is loaded.
Client ==
  /\ Idle /\ image["Rpmh"] = "loaded" /\ calls < MaxCalls
  /\ calls' = calls + 1
  /\ \/ call' \in ByName
     \/ \E w \in Writes : w.addr \in Addresses(db) /\ call' = [op |-> "write", cmd |-> w]
  /\ UNCHANGED <<db, boot, Status, library, held>>

Return(status) ==
  /\ Status' = status
  /\ call' = NULL

NotFound ==
  /\ call # NULL /\ call.op # "write"
  /\ AddressByName(db, call.name) = NULL
  /\ Return("NOT_FOUND")
  /\ UNCHANGED <<db, boot, calls, library, held>>

\* (slip) The largest mode is not checked.
RefusesNothing(c) == FALSE

\* RpmhSetVregMode knows modes 0 to 8.
Refuses(c) == c.op = "mode" /\ c.value > 8

Refused ==
  /\ call # NULL /\ call.op # "write"
  /\ AddressByName(db, call.name) # NULL /\ Refuses(call)
  /\ Return("DEVICE_ERROR")
  /\ UNCHANGED <<db, boot, calls, library, held>>

RPMH_REGULATOR_REG == [voltage |-> 0, enable |-> 4, mode |-> 8]

\* RpmhEnableVreg, RpmhSetVregVoltage and RpmhSetVregMode: the command.
Command(c) ==
  IF c.op = "write" THEN c.cmd
  ELSE [addr |-> AddressByName(db, c.name) + RPMH_REGULATOR_REG[c.op], data |-> c.value]

RpmhWrite ==
  /\ call # NULL /\ request = NULL
  /\ call.op # "write" => AddressByName(db, call.name) # NULL /\ ~Refuses(call)
  /\ Channel!Ask /\ request' = Command(call)
  /\ UNCHANGED <<db, boot, call, Status, calls, held>>

Written ==
  /\ Channel!Launch
  /\ Return("SUCCESS")
  /\ UNCHANGED <<db, boot, calls, held>>

\* The command is in flight, or no TCS is free.
NotWritten ==
  /\ Channel!Drop
  /\ Return("DEVICE_ERROR")
  /\ UNCHANGED <<db, boot, calls, held>>

HwComplete ==
  /\ Channel!Finish
  /\ held' = [held EXCEPT ![slot[Tcs].addr] = slot[Tcs].data]
  /\ UNCHANGED <<db, boot, call, Status, calls>>

-----------------------------------------------------------------------------
Init ==
  /\ db \in Databases
  /\ image = [d \in Drivers |-> "waiting"]
  /\ installed = {} /\ ready = {} /\ tested = 0
  /\ call = NULL /\ Status = "SUCCESS" /\ calls = 0
  /\ Channel!ChanInit
  /\ held = [a \in Addresses(db) |-> NULL]

EntryPoint ==
  \/ CmdDBEntryPoint
  \/ RpmhRefuses \/ RpmhInstalls \/ RpmhTests \/ RpmhTested
  \/ ClockEntryPoint \/ GpioEntryPoint \/ Lt9611EntryPoint

CallStep == NotFound \/ Refused \/ RpmhWrite \/ Written \/ NotWritten

Next ==
  \/ \E d \in Drivers : Dispatch(d)
  \/ EntryPoint \/ Client \/ CallStep \/ HwComplete

Spec == Init /\ [][Next]_vars

-----------------------------------------------------------------------------
(* Properties.                                                             *)

Entries == EntriesOf(db)

\* Whatever order slaves and entries are in, a name leads to its own entry,
\* its address leads back to it, both give the same data, and what is no
\* entry is not found: FindCmdDBEntry filters by slave only when it has an
\* address.
RoundTrip ==
  /\ \A e \in Entries :
       /\ NameByAddress(db, e.address) = e.id
       /\ AuxDataByAddress(db, e.address) = e.data
       /\ \A n \in Names : Id[n] = e.id => /\ AddressByName(db, n) = e.address
                                           /\ AuxDataByName(db, n) = e.data
  /\ \A n \in Names : Id[n] \notin {e.id : e \in Entries} => AddressByName(db, n) = NULL

\* Although the a priori file starts drivers whatever they depend on, and
\* any entry point may fail, a protocol that can be located has its globals
\* set and everything below it installed; and its image has been unloaded
\* only if it is the RPMh driver's, whose own test call has failed.
Ready ==
  \A p \in installed :
    /\ p \in ready
    /\ Depex[p] \subseteq installed
    /\ image[p] = "unloaded" => p = "Rpmh" /\ Status # "SUCCESS"

\* A vote asked for by name is refused without effect, or reaches that
\* register of the regulator the name stands for, once, and nothing else.
VoteAt(c) ==
  LET places == {p \in RailsOf(db) \X Registers : p[1].address + Place[p[2]] = c.addr}
      place == CHOOSE p \in places : TRUE
  IN  [rail |-> place[1].id, register |-> place[2], value |-> c.data]
VoteOf(c) ==
  IF c.op = "write" THEN VoteAt(c.cmd)
  ELSE [rail |-> Id[c.name], register |-> c.op, value |-> c.value]
Told(r, g) ==
  LET own == {e \in RailsOf(db) : e.id = r}
  IN  IF own = {} THEN NULL ELSE held[(CHOOSE e \in own : TRUE).address + Place[g]]

Named == INSTANCE Regulators
  WITH NoVote <- NULL,
       asked <- IF call = NULL THEN NULL ELSE VoteOf(call),
       due <- IF slot[Tcs] = NULL THEN NULL ELSE VoteAt(slot[Tcs]),
       vote <- [r \in Rails |-> [g \in Registers |-> Told(r, g)]]
RefinesRegulators == Named!RailSpec
=============================================================================
