---------------------------- MODULE AddressSpace ----------------------------
(***************************************************************************)
(* What an address space promises its callers (design document, 4.2):     *)
(* a partial map from virtual pages to physical frames.  map at a page    *)
(* size sets the whole naturally aligned range containing vaddr (last     *)
(* write wins); unmap clears it and returns the frame that was mapped at  *)
(* its base; a call that fails changes nothing.  Handles created from the *)
(* same CR3 share one space.  Tags are not part of this view.             *)
(*                                                                         *)
(* This is the contract of the design document, not of the code, and the  *)
(* page map does not refine it: large and huge maps skip the alignment    *)
(* check (map_round_trip), unmap of an absent entry allocates tables and   *)
(* can fail with OutOfMemory, and the search writes a translation          *)
(* (search_writes).  No run instantiates it.                               *)
(***************************************************************************)
EXTENDS Integers

CONSTANTS
  Handles,     \* handle slots
  Roots,       \* identities an address space can have (its root frame)
  NoRoot,      \* an empty slot
  Entries,     \* entries per table
  PageSize,    \* bytes per standard page
  PFrames,     \* mappable physical frames
  VAddrs,      \* virtual addresses callers pass
  BootRoot,    \* the address space the processor runs at boot
  BootSpace    \* what it maps

VARIABLES
  hroot,   \* the address space each handle slot refers to, or NoRoot
  croot,   \* the address space the processor translates with
  space,   \* address space -> (virtual page -> NoMap or [base, off])
  ret      \* the last call and its result

avars == <<hroot, croot, space, ret>>

NPages == Entries ^ 4
Pages == 0 .. (NPages - 1)
NoMap == [base |-> 0, off |-> 0]
Val == {NoMap} \cup [base : PFrames, off : 0 .. (Entries * Entries - 1)]
EmptySpace == [p \in Pages |-> NoMap]

Span == [s \in {"Standard", "Large", "Huge"} |->
           CASE s = "Standard" -> 1 [] s = "Large" -> Entries [] s = "Huge" -> Entries * Entries]
MapOp == [s \in DOMAIN Span |-> CASE s = "Standard" -> "map_page"
                                   [] s = "Large" -> "map_large_page"
                                   [] s = "Huge" -> "map_huge_page"]
UnmapOp == [s \in DOMAIN Span |-> CASE s = "Standard" -> "unmap_page"
                                     [] s = "Large" -> "unmap_large_page"
                                     [] s = "Huge" -> "unmap_huge_page"]
\* The first page of the size-aligned range holding vaddr; index fields
\* wrap at the top of the 4-level space.
BasePage(va, s) == LET p == (va \div PageSize) % NPages IN p - (p % Span[s])
RangeOf(va, s) == BasePage(va, s) .. (BasePage(va, s) + Span[s] - 1)

MapErrors == {"InvalidVAddrAlignment", "InvalidAddress", "OutOfMemory",
              "UnsupportedOperation"}
UnmapErrors == MapErrors \cup {"NotMapped"}

RA(op, h, res, val, arg) == [op |-> op, h |-> h, res |-> res, val |-> val, arg |-> arg]
R(op, h, res, val) == RA(op, h, res, val, 0)

TypeOK ==
  /\ hroot \in [Handles -> Roots \cup {NoRoot}]
  /\ croot \in Roots
  /\ DOMAIN space \subseteq Roots
  /\ \A r \in DOMAIN space : space[r] \in [Pages -> Val]

AInit ==
  /\ hroot = [h \in Handles |-> NoRoot]
  /\ croot = BootRoot
  /\ space = [r \in {BootRoot} |-> BootSpace]
  /\ ret = R("none", 0, "none", 0)

\* A new, empty address space, or OutOfMemory.  (Each action states its
\* result first: it names the call, and is cheap to compare.)
Create(h) ==
  /\ hroot[h] = NoRoot
  /\ \/ /\ ret' = R("try_new", h, "Ok", 0)
        /\ \E r \in Roots \ DOMAIN space :
             /\ hroot' = [hroot EXCEPT ![h] = r]
             /\ space' = [x \in DOMAIN space \cup {r} |-> IF x = r THEN EmptySpace ELSE space[x]]
     \/ ret' = R("try_new", h, "OutOfMemory", 0) /\ UNCHANGED <<hroot, space>>
  /\ UNCHANGED croot

\* A handle on the space the processor is running.
Adopt(h) ==
  /\ hroot[h] = NoRoot
  /\ ret' = R("from_cr3", h, "Ok", 0)
  /\ hroot' = [hroot EXCEPT ![h] = croot]
  /\ UNCHANGED <<croot, space>>

Tag(h) ==
  /\ hroot[h] # NoRoot
  /\ ret'.op = "set_pcid" /\ ret'.h = h /\ ret'.res \in {"Ok", "AlredyHasPcid"}
  /\ UNCHANGED <<hroot, croot, space>>

Activate(h) ==
  /\ hroot[h] # NoRoot
  /\ \/ ret' = R("load", h, "Ok", 0) /\ croot' = hroot[h]
     \/ ret' = R("load", h, "InvalidPcid", 0) /\ UNCHANGED croot
  /\ UNCHANGED <<hroot, space>>

\* Mapping validates that vaddr is non-null and aligned to the page size
\* (design 4.2, 8): a misaligned vaddr always fails with the alignment
\* error; an aligned one sets the range or fails with another error.
Aligned(va, s) == va % (PageSize * Span[s]) = 0

Map(h, va, pa, s) ==
  /\ hroot[h] # NoRoot
  /\ \/ /\ va # 0 /\ Aligned(va, s)
        /\ ret' = RA(MapOp[s], h, "Ok", va, pa)
        /\ space' = [space EXCEPT ![hroot[h]] =
                       [p \in Pages |-> IF p \in RangeOf(va, s)
                                          THEN [base |-> pa, off |-> p - BasePage(va, s)]
                                          ELSE @[p]]]
     \/ /\ ~Aligned(va, s)
        /\ ret' = RA(MapOp[s], h, "InvalidVAddrAlignment", va, pa) /\ UNCHANGED space
     \/ /\ Aligned(va, s)
        /\ \E e \in MapErrors \ {"InvalidVAddrAlignment"} : ret' = RA(MapOp[s], h, e, va, pa)
        /\ UNCHANGED space
  /\ UNCHANGED <<hroot, croot>>

\* Unmapping clears the range and returns the frame mapped at its base; an
\* absent entry fails with NotMapped (design 4.2, 8).
Unmap(h, va, s) ==
  LET b == BasePage(va, s)
      mapped == space[hroot[h]][b] # NoMap
  IN
  /\ hroot[h] # NoRoot
  /\ \/ /\ mapped
        /\ ret' = RA(UnmapOp[s], h, "Ok", space[hroot[h]][b].base, va)
        /\ space' = [space EXCEPT ![hroot[h]] =
                       [p \in Pages |-> IF p \in RangeOf(va, s) THEN NoMap ELSE @[p]]]
     \/ ~mapped /\ ret' = R(UnmapOp[s], h, "NotMapped", va) /\ UNCHANGED space
     \/ /\ mapped
        /\ \E e \in UnmapErrors \ {"NotMapped"} : ret' = R(UnmapOp[s], h, e, va)
        /\ UNCHANGED space
  /\ UNCHANGED <<hroot, croot>>

\* The search changes no translation.
Find(h) ==
  /\ hroot[h] # NoRoot
  /\ ret' \in [op : {"find"}, h : {h}, val : Nat, arg : Nat,
               res : {"Ok", "SubPageSizeNotAllowed", "InvalidArgument",
                      "InvalidVAddrAlignment", "VAddrRangeUnavailable"}]
  /\ UNCHANGED <<hroot, croot, space>>

ANext ==
  \E h \in Handles :
    \/ Create(h) \/ Adopt(h) \/ Tag(h) \/ Activate(h) \/ Find(h)
    \/ \E s \in DOMAIN Span, va \in VAddrs :
         \/ \E pa \in PFrames : Map(h, va, pa, s)
         \/ Unmap(h, va, s)

ASpec == AInit /\ [][ANext]_avars

=============================================================================
