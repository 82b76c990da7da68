\* The interrupt-flag helpers under a client that nests asm_irq_disable
\* sections two deep, with a device raising interrupts at any time; the MSR
\* helpers on a processor where assert_msr_presence holds and one where it
\* does not.
CONSTANTS
  Processors <- MCProcessors
  PrivLevels = {0}
  MSRs = {16}
  MsrValues = {0, 1}
  MaxNest = 2
SPECIFICATION Spec
INVARIANTS
  TypeOK
  InSectionMasked
PROPERTIES
  RefinesIrqSections
