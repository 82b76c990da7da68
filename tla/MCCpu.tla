------------------------------- MODULE MCCpu -------------------------------
(* Processors for Cpu: CPUID.0:EDX is the second quarter of the vendor      *)
(* string, little-endian ("ineI" of GenuineIntel is 0x49656E69).  Every    *)
(* x86-64 processor has MSRs (CPUID.1:EDX bit 5).                           *)
EXTENDS Cpu

Intel == [leaf0Edx |-> 1231384169, msr |-> TRUE]   \* "GenuineIntel"
AMD   == [leaf0Edx |-> 1769238117, msr |-> TRUE]   \* "AuthenticAMD"
VIA   == [leaf0Edx |-> 541149526,  msr |-> TRUE]   \* "VIA VIA VIA "

MCProcessors == {Intel, VIA}
MCMsrProcessors == {Intel, AMD, VIA}
=============================================================================
