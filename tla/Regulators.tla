---------------------------- MODULE Regulators ----------------------------
(***************************************************************************)
(* What a user of the RPMh protocol may rely on, with no addresses, no     *)
(* database and no driver: a vote is asked for by the name of a rail; it   *)
(* is refused, and then nothing changes, or it is granted, and then it     *)
(* reaches that register of that rail, and nothing else, once.             *)
(***************************************************************************)
CONSTANTS
  Rails,      \* what names stand for
  Registers,  \* the registers of a rail
  NoVote

VARIABLES
  asked,      \* the vote of the call in progress, or NoVote
  due,        \* the vote granted and not yet executed, or NoVote
  vote        \* vote[r][g]: what register g of rail r was last told

railVars == <<asked, due, vote>>

\* Nothing has been voted for yet; what the registers hold is not known.
RailInit ==
  /\ asked = NoVote
  /\ due = NoVote
  /\ vote = [r \in Rails |-> [g \in Registers |-> NoVote]]

Ask ==
  /\ asked = NoVote
  /\ asked' # NoVote
  /\ UNCHANGED <<due, vote>>

Refuse ==
  /\ asked # NoVote
  /\ asked' = NoVote
  /\ UNCHANGED <<due, vote>>

Grant ==
  /\ asked # NoVote /\ asked.rail \in Rails
  /\ due = NoVote
  /\ due' = asked
  /\ asked' = NoVote
  /\ UNCHANGED vote

Land ==
  /\ due # NoVote
  /\ vote' = [vote EXCEPT ![due.rail][due.register] = due.value]
  /\ due' = NoVote
  /\ UNCHANGED asked

RailSpec == RailInit /\ [][Ask \/ Refuse \/ Grant \/ Land]_railVars
=============================================================================
