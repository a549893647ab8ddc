\* Two threads above PASSIVE_LEVEL and one at it, two processors, and an
\* object registered again while another is still being deleted.
SPECIFICATION FairSpec
CONSTANTS
  Objects = {o1, o2}
  Processors = {c1, c2}
  Callers = {t1, t2, t3}
  Raised = {t1, t2}
  MayFail = {"create", "context", "device", "workitem"}
  PassiveRaces = FALSE
  None = None
INVARIANTS TypeOK HandleAlive OneActivation
PROPERTIES RefinesObject TakenIsDeleted
CHECK_DEADLOCK FALSE
