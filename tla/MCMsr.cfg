\* assert_msr_presence on Intel, AMD and VIA processors, all of which have
\* MSRs: read_msr and write_msr must not panic on any of them.
CONSTANTS
  Processors <- MCMsrProcessors
  PrivLevels = {0}
  MSRs = {16}
  MsrValues = {0, 1}
  MaxNest = 1
SPECIFICATION Spec
INVARIANTS
  MsrGuardMatchesFeature
