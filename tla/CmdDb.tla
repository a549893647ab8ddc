------------------------------- MODULE CmdDb -------------------------------
(***************************************************************************)
(* The command database the always-on processor leaves in memory, and the  *)
(* look-ups of CmdDBLib: a database is a sequence of slaves, each with its *)
(* slaveId and its entries in memory order.                                *)
(***************************************************************************)
EXTENDS Integers, Sequences

CONSTANTS
  Names,     \* what callers ask for
  Id,        \* Id[n]: what cr_strncmp compares of n, its first 8 characters
  NULL       \* a name or an entry that is not there

ASSUME IdAssumption == NULL \notin Names /\ DOMAIN Id = Names

MaxEntries == 16  \* bound on the entries of a slave, for FindCmdDBEntry

INVALID == 0  \* RSC_SLAVE_HW_INVALID: a slave of the header not in use

\* (slip) The mask is one bit short.
SlaveOfShort(address) == (address \div 65536) % 4

\* GET_FIELD(address, SLAVE_ID_MSK): bits 18 to 16.
SlaveOf(address) == (address \div 65536) % 8

\* The slaves FindCmdDBEntry looks into: with an address, those it names.
Searched(db, address) ==
  {i \in DOMAIN db : /\ db[i].slaveId # INVALID
                     /\ address # 0 => db[i].slaveId = SlaveOf(address)}

Matches(e, address, name) ==
  \/ address # 0 /\ e.address = address
  \/ name # NULL /\ e.id = Id[name]

Before(p, q) == p[1] < q[1] \/ (p[1] = q[1] /\ p[2] < q[2])

\* (slip) The slave is found by the entry, which is taken to be its first.
FindCmdDBEntryFirst(db, address, name) ==
  LET found == {i \in Searched(db, address) :
                  \E j \in DOMAIN db[i].entries : Matches(db[i].entries[j], address, name)}
  IN  IF found = {} THEN NULL
      ELSE db[CHOOSE i \in found : \A k \in found : i <= k].entries[1]

\* The first entry, in the order of the slaves and of their entries, with
\* the address or the name; the loops end at it.
FindCmdDBEntry(db, address, name) ==
  LET found == {p \in Searched(db, address) \X (1 .. MaxEntries) :
                  /\ p[2] \in DOMAIN db[p[1]].entries
                  /\ Matches(db[p[1]].entries[p[2]], address, name)}
      first == CHOOSE p \in found : \A q \in found : p = q \/ Before(p, q)
  IN  IF found = {} THEN NULL ELSE db[first[1]].entries[first[2]]

\* GetCmdDBEntryAddressByName, ..NameByAddress, ..AuxDataByName and
\* ..AuxDataByAddress; the protocol turns every failure into NOT_FOUND, the
\* refusal of address 0 as a parameter included.
AddressByName(db, name) ==
  LET e == FindCmdDBEntry(db, 0, name) IN IF e = NULL THEN NULL ELSE e.address
NameByAddress(db, address) ==
  LET e == FindCmdDBEntry(db, address, NULL) IN IF e = NULL THEN NULL ELSE e.id
AuxDataByName(db, name) ==
  LET e == FindCmdDBEntry(db, 0, name) IN IF e = NULL THEN NULL ELSE e.data
AuxDataByAddress(db, address) ==
  LET e == FindCmdDBEntry(db, address, NULL) IN IF e = NULL THEN NULL ELSE e.data
=============================================================================
