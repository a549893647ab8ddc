----------------------------- MODULE MCPlatform -----------------------------
(* Values for TLC: boards with their databases, of three resources.         *)
EXTENDS Platform, TLC

CONSTANTS cx, ldoc3, smps_cor, CE0, gone,  \* identifiers of entries
          smps_core_a, smps_core_b         \* names longer than an identifier

MCNames == {ldoc3, smps_core_a, smps_core_b, gone}
MCId == ldoc3 :> ldoc3 @@ smps_core_a :> smps_cor @@ smps_core_b :> smps_cor @@ gone :> gone

Entry(id, address, data) == [id |-> id, address |-> address, data |-> data]
Slave(slaveId, entries) == [slaveId |-> slaveId, entries |-> entries]

\* Addresses as the boards use them: 16 apart for regulators, 4 for buses.
Arc == Slave(3, <<Entry(cx, 196608, {})>>)
Ldo == Entry(ldoc3, 262144 + 256, {})
Smps == Entry(smps_cor, 262144 + 272, {2})
Bcm == Slave(5, <<Entry(CE0, 327740, {3})>>)
Unused == Slave(0, <<>>)

MCDatabases ==
  {<<Arc, Slave(4, <<Ldo, Smps>>), Bcm, Unused>>,
   <<Unused, Slave(4, <<Smps, Ldo>>), Arc>>,
   <<Bcm, Unused, Slave(4, <<Ldo>>)>>,
   <<Slave(4, <<Smps>>), Bcm>>}

MCWrites == {[addr |-> Smps.address, data |-> 3300]}
=============================================================================
