---------------------------- MODULE VoteChannel ----------------------------
(***************************************************************************)
(* What the RPMh driver promises its clients, with no registers, bitmaps   *)
(* or interrupts: a request is either dropped (the call returned an error) *)
(* or handed, once and unchanged, to one slot that is executing nothing;   *)
(* the hardware executes it and the slot is empty again.                   *)
(***************************************************************************)
CONSTANTS
  Slots,     \* the active TCSs
  Requests,  \* the commands clients ask for
  NoRequest  \* marks the absence of a command

VARIABLES
  request,   \* the command of the call in progress, or NoRequest
  ok,        \* the last call to return returned success
  slot       \* slot[s]: the command being executed in slot s, or NoRequest

chanVars == <<request, ok, slot>>

ChanInit ==
  /\ request = NoRequest
  /\ ok = TRUE
  /\ slot = [s \in Slots |-> NoRequest]

\* A client calls.
Ask ==
  /\ request = NoRequest
  /\ request' \in Requests
  /\ ok' = TRUE
  /\ UNCHANGED slot

\* The call returns an error: the command was not and will not be executed.
Drop ==
  /\ request # NoRequest
  /\ request' = NoRequest
  /\ ok' = FALSE
  /\ UNCHANGED slot

\* The call succeeds: exactly the client's command starts in an empty slot.
Launch ==
  /\ request # NoRequest
  /\ \E s \in Slots : slot[s] = NoRequest /\ slot' = [slot EXCEPT ![s] = request]
  /\ request' = NoRequest
  /\ UNCHANGED ok

\* The hardware finishes a command.
Finish ==
  /\ \E s \in Slots : slot[s] # NoRequest /\ slot' = [slot EXCEPT ![s] = NoRequest]
  /\ UNCHANGED <<request, ok>>

ChanNext == Ask \/ Drop \/ Launch \/ Finish

ChanSpec == ChanInit /\ [][ChanNext]_chanVars
=============================================================================
