---------------------------- MODULE IrqSections ----------------------------
(***************************************************************************)
(* What the interrupt helpers of cpu/mod.rs promise their callers, without *)
(* RFLAGS or instructions: interrupts are masked or not; a section masks   *)
(* them and remembers whether they were masked before; leaving it puts     *)
(* that back.  Sections nest.  A raised interrupt is taken only while      *)
(* unmasked, and is taken if it stays unmasked.                            *)
(***************************************************************************)
EXTENDS Integers, SequencesExt

CONSTANT MaxNest

VARIABLES
  masked,    \* interrupts are masked
  outer,     \* for each open section, innermost last: masked before it opened
  raised     \* an interrupt is waiting to be taken

avars == <<masked, outer, raised>>

AInit == masked = TRUE /\ outer = <<>> /\ raised = FALSE

\* Outside every section a caller may unmask interrupts.
Unmask ==
  /\ outer = <<>>
  /\ masked' = FALSE /\ UNCHANGED <<outer, raised>>

Enter ==
  /\ Len(outer) < MaxNest
  /\ masked' = TRUE /\ outer' = Append(outer, masked)
  /\ UNCHANGED raised

Leave ==
  /\ outer # <<>>
  /\ masked' = Last(outer) /\ outer' = Front(outer)
  /\ UNCHANGED raised

RaiseIrq == ~raised /\ raised' = TRUE /\ UNCHANGED <<masked, outer>>

Take == raised /\ ~masked /\ raised' = FALSE /\ UNCHANGED <<masked, outer>>

ANext == Unmask \/ Enter \/ Leave \/ RaiseIrq \/ Take

ASpec == AInit /\ [][ANext]_avars /\ WF_avars(Take)

=============================================================================
