\* Three branches, a root with a table of three entries, and a power
\* domain with every step of ClockGdscEnable.
SPECIFICATION Spec
CONSTANTS
  Branches <- MCBranches
  Roots = {"src"}
  Others = {"old"}
  Parents <- MCParents
  HaltCheckFlag <- MCHaltCheckFlag
  HwGated = {}
  Disablable = {"gpu", "aux"}
  Tunable = {"src"}
  FreqTable <- MCFreqTable
  Rates = {0, 2, 6}
  Domains = {"pcie"}
  ClampIo = {"pcie"}
  ForceMem = {"pcie"}
  HwCtl = {"pcie"}
  PollsCfg = {}
INVARIANTS TypeOK ParentsOn EnabledRuns LatchedWhole RateIsRounded PowerSequence
CHECK_DEADLOCK FALSE
