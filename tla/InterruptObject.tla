--------------------------- MODULE InterruptObject --------------------------
(***************************************************************************)
(* What the framework's interrupt objects ask of the library that owns     *)
(* them: an object is created, taken away by one actor, and deleted by it  *)
(* while none of its handler's activations is running; a deleted object is *)
(* never used again.                                                       *)
(***************************************************************************)
CONSTANTS
  Objects,     \* interrupt objects
  Processors

VARIABLES
  life,        \* life[o]: "absent", "registered", "taken" or "deleted"
  active       \* active[c]: the objects whose handler processor c is running

lifeVars == <<life, active>>

LifeInit ==
  /\ life = [o \in Objects |-> "absent"]
  /\ active = [c \in Processors |-> {}]

Become(o, from, to) == life[o] = from /\ life' = [life EXCEPT ![o] = to]

Create(o) == Become(o, "absent", "registered") /\ UNCHANGED active

Take(o) == Become(o, "registered", "taken") /\ UNCHANGED active

Delete(o) ==
  /\ \A c \in Processors : o \notin active[c]
  /\ Become(o, "taken", "deleted")
  /\ UNCHANGED active

Activate(c, o) ==
  /\ life[o] \in {"registered", "taken"}
  /\ active' = [active EXCEPT ![c] = @ \cup {o}]
  /\ UNCHANGED life

Return(c) ==
  /\ active' = [active EXCEPT ![c] = {}]
  /\ UNCHANGED life

LifeNext ==
  \/ \E o \in Objects : Create(o) \/ Take(o) \/ Delete(o)
  \/ \E c \in Processors : Return(c) \/ \E o \in Objects : Activate(c, o)

LifeSpec == LifeInit /\ [][LifeNext]_lifeVars
=============================================================================
