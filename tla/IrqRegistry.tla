---------------------------- MODULE IrqRegistry ----------------------------
(***************************************************************************)
(* What the interrupt library promises the driver it is linked into: the   *)
(* registrations of an interrupt source form a queue, which each call      *)
(* changes at most once, at one moment; and an interrupt of that source    *)
(* calls the handler at its head, with that handler's own parameter.       *)
(***************************************************************************)
EXTENDS Sequences

CONSTANTS
  Sources,   \* interrupt numbers
  Handlers,  \* interrupt routines
  Params,    \* what they are called with
  NoCall     \* no routine is running

Idle == [op |-> "idle"]
Done == [op |-> "done"]
AddRequests == [op : {"add"}, source : Sources, handler : Handlers, param : Params]
RemoveRequests == [op : {"remove"}, source : Sources]

VARIABLES
  queue,     \* queue[s]: the <<handler, parameter>> pairs registered for s
  request,   \* the call in progress: still to be done, done, or Idle
  called     \* <<source, handler, parameter>> of the routine running, or NoCall

registryVars == <<queue, request, called>>

RegistryInit ==
  /\ queue = [s \in Sources |-> <<>>]
  /\ request = Idle
  /\ called = NoCall

Ask ==
  /\ request = Idle
  /\ request' \in AddRequests \cup RemoveRequests
  /\ UNCHANGED <<queue, called>>

Add ==
  /\ request.op = "add"
  /\ queue' = [queue EXCEPT ![request.source] = Append(@, <<request.handler, request.param>>)]
  /\ request' = Done
  /\ UNCHANGED called

Remove ==
  /\ request.op = "remove"
  /\ queue[request.source] # <<>>
  /\ queue' = [queue EXCEPT ![request.source] = Tail(@)]
  /\ request' = Done
  /\ UNCHANGED called

\* The call returns; if it was not done, with an error.
Reply ==
  /\ request # Idle
  /\ request' = Idle
  /\ UNCHANGED <<queue, called>>

Interrupt(s) ==
  /\ called = NoCall
  /\ queue[s] # <<>>
  /\ called' = <<s, Head(queue[s])[1], Head(queue[s])[2]>>
  /\ UNCHANGED <<queue, request>>

\* The routine running unregisters itself.
Resign ==
  /\ called # NoCall
  /\ queue[called[1]] # <<>>
  /\ Head(queue[called[1]]) = <<called[2], called[3]>>
  /\ queue' = [queue EXCEPT ![called[1]] = Tail(@)]
  /\ UNCHANGED <<request, called>>

Return ==
  /\ called # NoCall
  /\ called' = NoCall
  /\ UNCHANGED <<queue, request>>

RegistryNext ==
  \/ Ask \/ Add \/ Remove \/ Reply
  \/ Resign \/ Return \/ \E s \in Sources : Interrupt(s)

RegistrySpec == RegistryInit /\ [][RegistryNext]_registryVars
=============================================================================
