\* A table smaller than the registrations asked for; every call of the
\* interrupt controller may fail.
SPECIFICATION Spec
CONSTANTS
  Sources = {s1, s2}
  Clients = {c1, c2}
  MaxEntries = 3
  MayFail = {"route", "trigger", "enable", "disable"}
  Overtakes = FALSE
  None = None
INVARIANTS TypeOK Prefix Answered
PROPERTIES RefinesRegistry
CHECK_DEADLOCK FALSE
