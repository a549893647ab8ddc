------------------------------ MODULE MCClock ------------------------------
(***************************************************************************)
(* A clock tree and a frequency table for TLC: a branch above another, one *)
(* of its own that is waited for only when it is enabled, and a node of a  *)
(* type the library refuses, whose status the next parent overwrites.      *)
(***************************************************************************)
EXTENDS Clock

MCBranches == {"phy", "aux", "gpu"}
MCParents ==
  [n \in {"src", "old"} \cup MCBranches |->
     CASE n = "aux" -> <<"old", "phy">>
       [] n \in {"phy", "gpu"} -> <<"src">>
       [] OTHER -> <<>>]
MCHaltCheckFlag == [b \in MCBranches |-> IF b = "gpu" THEN "VOTED" ELSE "HALT"]
MCFreqTable ==
  <<[hz |-> 1, mnd |-> TRUE], [hz |-> 3, mnd |-> FALSE], [hz |-> 5, mnd |-> TRUE]>>
=============================================================================
