-------------------------------- MODULE Cpu --------------------------------
(***************************************************************************)
(* The processor helpers of src/charlotte_core/src/arch/x86_64/cpu/mod.rs:  *)
(* the interrupt-flag helpers (asm_sti, asm_irq_enable, asm_irq_disable,   *)
(* asm_irq_restore, asm_are_interrupts_enabled) and the MSR helpers        *)
(* (get_privilege_level, assert_msr_presence, read_msr, write_msr).        *)
(*                                                                         *)
(* Of RFLAGS only IF (bit 9) is kept: the helpers read, set or restore     *)
(* that bit, and no other bit is read by anything in the sources.  The     *)
(* helpers have no caller in the sources, so their caller is a client that *)
(* may make any call, with one discipline: inside a section opened by      *)
(* asm_irq_disable it only nests further sections, restores the innermost  *)
(* one with the value that call returned, or tests the flag.  A device may *)
(* raise an interrupt at any time; the processor takes it at an           *)
(* instruction boundary where IF = 1 and the handler's iret restores       *)
(* RFLAGS.                                                                 *)
(***************************************************************************)
EXTENDS Integers, SequencesExt

CONSTANTS
  Processors,   \* records [leaf0Edx, msr]: CPUID.0:EDX and CPUID.1:EDX.MSR
  PrivLevels,   \* the privilege levels the kernel may run at
  MSRs,         \* MSR numbers
  MsrValues,    \* values written to and read from them
  MaxNest       \* bound on nested asm_irq_disable sections of the client

ASSUME MaxNest \in Nat \ {0}

VARIABLES
  intFlag,    \* RFLAGS.IF
  pc,         \* "idle", or "disable" between the pushf and the cli of asm_irq_disable
  tmp,        \* the RFLAGS value pushed by that pushf
  saved,      \* the client's stack of values returned by asm_irq_disable
  pending,    \* an interrupt raised and not yet taken
  cpu,        \* the processor
  cpl,        \* the current privilege level
  msr,        \* MSR contents
  ret,        \* the value asm_are_interrupts_enabled or asm_irq_disable returned
  msrRet,     \* the value read_msr returned
  panicked

vars == <<intFlag, pc, tmp, saved, pending, cpu, cpl, msr, ret, msrRet, panicked>>

-----------------------------------------------------------------------------
(* MSR helpers *)

\* get_privilege_level: asm_get_privilege_level reads CS.RPL.
GetPrivilegeLevel == cpl

\* assert_msr_presence: bit 5 of the EDX of CPUID leaf 0.  Leaf 0 returns
\* the vendor string in EBX, EDX, ECX, so this bit is bit 5 of the fifth
\* character of the vendor string.
AssertMsrPresence == (cpu.leaf0Edx \div 32) % 2 = 1

Busy == pending /\ intFlag   \* the processor takes the interrupt first

ReadMsrReturnsNumber(m) ==
  /\ ~panicked /\ pc = "idle" /\ ~Busy
  /\ IF ~AssertMsrPresence
       THEN panicked' = TRUE /\ UNCHANGED msrRet
       ELSE msrRet' = m /\ UNCHANGED panicked
  /\ UNCHANGED <<intFlag, pc, tmp, saved, pending, cpu, cpl, msr, ret>>

\* read_msr: panics unless assert_msr_presence, then rdmsr.
ReadMsr(m) ==
  /\ ~panicked /\ pc = "idle" /\ ~Busy
  /\ IF ~AssertMsrPresence
       THEN panicked' = TRUE /\ UNCHANGED msrRet
       ELSE msrRet' = msr[m] /\ UNCHANGED panicked
  /\ UNCHANGED <<intFlag, pc, tmp, saved, pending, cpu, cpl, msr, ret>>

\* write_msr: returns (after logging) at a privilege level other than 0,
\* panics unless assert_msr_presence, then wrmsr.
WriteMsr(m, v) ==
  /\ ~panicked /\ pc = "idle" /\ ~Busy
  /\ CASE GetPrivilegeLevel # 0 -> UNCHANGED <<msr, panicked>>
       [] ~AssertMsrPresence    -> panicked' = TRUE /\ UNCHANGED msr
       [] OTHER                 -> msr' = [msr EXCEPT ![m] = v] /\ UNCHANGED panicked
  /\ UNCHANGED <<intFlag, pc, tmp, saved, pending, cpu, cpl, ret, msrRet>>

-----------------------------------------------------------------------------
(* Interrupt-flag helpers *)

Client == ~panicked /\ pc = "idle" /\ ~Busy
InSection == saved # <<>>

\* asm_are_interrupts_enabled: pushf; pop; test bit 9.
AsmAreInterruptsEnabled ==
  /\ Client
  /\ ret' = intFlag
  /\ UNCHANGED <<intFlag, pc, tmp, saved, pending, cpu, cpl, msr, panicked, msrRet>>

\* asm_sti.
AsmSti ==
  /\ Client /\ ~InSection
  /\ intFlag' = TRUE
  /\ UNCHANGED <<pc, tmp, saved, pending, cpu, cpl, msr, ret, panicked, msrRet>>

\* asm_irq_enable: pushf; pop; flags | 1 << 9; push; popf.  An interrupt
\* taken between the pushf and the popf returns with iret to the same
\* RFLAGS, so the read-modify-write is one step here.
AsmIrqEnable ==
  /\ Client /\ ~InSection
  /\ intFlag' = TRUE
  /\ UNCHANGED <<pc, tmp, saved, pending, cpu, cpl, msr, ret, panicked, msrRet>>

\* asm_irq_disable, first instruction: pushf.  An interrupt may be taken
\* before the cli that follows.
AsmIrqDisablePushfCliFirst ==
  /\ Client /\ Len(saved) < MaxNest
  /\ pc' = "disable" /\ tmp' = FALSE /\ intFlag' = FALSE
  /\ UNCHANGED <<saved, pending, cpu, cpl, msr, ret, panicked, msrRet>>

AsmIrqDisablePushf ==
  /\ Client /\ Len(saved) < MaxNest
  /\ pc' = "disable" /\ tmp' = intFlag
  /\ UNCHANGED <<intFlag, saved, pending, cpu, cpl, msr, ret, panicked, msrRet>>

\* asm_irq_disable, then: cli; pop; return the flags pushed.
AsmIrqDisableCli ==
  /\ pc = "disable" /\ ~Busy
  /\ intFlag' = FALSE /\ pc' = "idle"
  /\ saved' = Append(saved, tmp) /\ ret' = tmp
  /\ UNCHANGED <<tmp, pending, cpu, cpl, msr, panicked, msrRet>>

AsmIrqRestoreEnables ==
  /\ Client /\ InSection
  /\ intFlag' = TRUE
  /\ saved' = Front(saved)
  /\ UNCHANGED <<pc, tmp, pending, cpu, cpl, msr, ret, panicked, msrRet>>

\* asm_irq_restore(flags): push; popf, with the value the innermost open
\* asm_irq_disable returned.
AsmIrqRestore ==
  /\ Client /\ InSection
  /\ intFlag' = Last(saved)
  /\ saved' = Front(saved)
  /\ UNCHANGED <<pc, tmp, pending, cpu, cpl, msr, ret, panicked, msrRet>>

-----------------------------------------------------------------------------
(* The processor *)

\* A device raises an interrupt.
Raise ==
  /\ ~pending /\ ~panicked
  /\ pending' = TRUE
  /\ UNCHANGED <<intFlag, pc, tmp, saved, cpu, cpl, msr, ret, panicked, msrRet>>

\* The processor takes it; the handler ends with iret, which restores RFLAGS.
Deliver ==
  /\ pending /\ intFlag
  /\ pending' = FALSE
  /\ UNCHANGED <<intFlag, pc, tmp, saved, cpu, cpl, msr, ret, panicked, msrRet>>

\* After a panic the kernel halts.
Halted == panicked /\ UNCHANGED vars

Init ==
  /\ intFlag = FALSE /\ pc = "idle" /\ tmp = FALSE
  /\ saved = <<>> /\ pending = FALSE
  /\ cpu \in Processors /\ cpl \in PrivLevels
  /\ msr \in [MSRs -> MsrValues]
  /\ ret = FALSE /\ msrRet \in MsrValues
  /\ panicked = FALSE

Next ==
  \/ AsmSti \/ AsmIrqEnable \/ AsmAreInterruptsEnabled
  \/ AsmIrqDisablePushf \/ AsmIrqDisableCli \/ AsmIrqRestore
  \/ \E m \in MSRs : ReadMsr(m) \/ \E v \in MsrValues : WriteMsr(m, v)
  \/ Raise \/ Deliver \/ Halted

\* The processor takes a pending interrupt whenever IF = 1 (it does so at
\* the next instruction boundary, which weak fairness understates).  The
\* client and the devices get no fairness.
Spec == Init /\ [][Next]_vars /\ WF_vars(Deliver)

-----------------------------------------------------------------------------
(* Properties *)

TypeOK ==
  /\ intFlag \in BOOLEAN /\ tmp \in BOOLEAN /\ pending \in BOOLEAN
  /\ pc \in {"idle", "disable"}
  /\ saved \in Seq(BOOLEAN)
  /\ Len(saved) <= MaxNest
  /\ cpu \in Processors /\ cpl \in PrivLevels
  /\ msr \in [MSRs -> MsrValues]
  /\ ret \in BOOLEAN /\ msrRet \in MsrValues
  /\ panicked \in BOOLEAN

\* Inside every section opened by asm_irq_disable, nested ones included,
\* interrupts stay masked: an inner asm_irq_restore must not unmask them
\* while an outer section is still open.
InSectionMasked == (InSection /\ pc = "idle") => ~intFlag

\* The helpers implement the section discipline of IrqSections: IF clear
\* is "masked", and each value asm_irq_disable returned is "masked before
\* the section" (pushf is read before the cli, and restore pops it back).
\* The pushf step, and any helper call that leaves IF as it is, stutter.
IRQ == INSTANCE IrqSections WITH
         masked <- ~intFlag,
         outer <- [i \in 1..Len(saved) |-> ~saved[i]],
         raised <- pending

RefinesIrqSections == IRQ!ASpec

\* read_msr and write_msr panic only on a processor without MSRs.
MsrGuardMatchesFeature == panicked => ~cpu.msr

=============================================================================
