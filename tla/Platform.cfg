\* Four boards, one of them without the regulator of the driver's test, and
\* three calls of clients after it.
SPECIFICATION Spec
CONSTANTS
  NULL = NULL
  cx = cx
  ldoc3 = ldoc3
  smps_cor = smps_cor
  CE0 = CE0
  gone = gone
  smps_core_a = smps_core_a
  smps_core_b = smps_core_b
  Names <- MCNames
  Id <- MCId
  Databases <- MCDatabases
  Writes <- MCWrites
  Voltages = {3300}
  Modes = {7, 9}
  TestName = ldoc3
  TestVoltage = 3300
  Tcs = Tcs
  MaxCalls = 3
INVARIANTS TypeOK RoundTrip Ready
PROPERTIES RefinesRegulators
CHECK_DEADLOCK FALSE
