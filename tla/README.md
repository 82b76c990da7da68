# TLA+ models of the CharlotteCore x86-64 page map

This directory holds TLA+ models of the page-table walker and address-space
abstraction of CharlotteCore
(`src/charlotte_core/src/isa/implementation/x86_64/memory/page_map/mod.rs`),
the contract of the `MemoryMap` trait it implements
(`src/charlotte_core/src/isa/interface/memory.rs`), and the parts of the
processor they drive: CR3, PCIDs and the TLB. The models are checked with
TLC.

## The system

| Part | Code | State | Operations |
|---|---|---|---|
| Page table | `page_table.rs` (declared at `mod.rs:1`, not among the sources) | 512 entries, each with present, page-size and address bits | `get_or_map_table`, `map_page`, `unmap_page` |
| Walker | `mod.rs:22-114` | the cached `pml4`, `pdpt`, `pd` and `pt` table references | `new`, `walk_cr3`, `walk_pml4`, `walk_pdpt`, `walk_pd` |
| PageMap handle | `mod.rs:119-162` | one CR3 value: the root frame, plus a 12-bit PCID | `try_new`, `from_cr3`, `set_pcid`, `load` |
| map / unmap | `mod.rs:262-389` | the tables reachable from the root | map and unmap at 4 KiB, 2 MiB and 1 GiB |
| Region search | `mod.rs:163-212`, `mod.rs:401-426` | none of its own; it walks, and so allocates tables | `find_available_region` |
| Processor | `mod.rs:430-468`, `cpu/mod.rs:92` | CR3, the TLB (with global entries), the huge-page support flag, CR4.PGE | `mov cr3`, memory accesses; `invlpg` exists but is never called |
| Flags | `mod.rs:219-240`, `memory.rs:4-8` | none | `get_flags`: `MemType` to PTE flags, `Global` always set |
| CPU helpers | `cpu/mod.rs:21-81` | RFLAGS.IF, MSRs, the privilege level, CPUID | `asm_sti`, `asm_irq_enable`, `asm_irq_disable`, `asm_irq_restore`, `asm_are_interrupts_enabled`, `read_msr`, `write_msr` |
| Frame allocator | `pmm` (external) | free frames | `allocate()`, or `OutOfMemory` |

How the parts interact:

- Each `MemoryMap` operation creates a `Walker` over its handle's root.
- The walker descends the levels, calling `get_or_map_table`. That call
  takes a frame from the allocator, zeroes it and links it wherever an
  entry is absent.
- The operation then installs or clears a leaf.
- `load` moves the handle's CR3 into the processor. Bit 63 is clear, so
  this drops the non-global TLB entries carrying the new CR3's tag. That
  tag is the PCID when CR4.PCIDE is set, and 0 for every entry when it is
  clear. Nothing in the sources writes CR4. So CR4.PCIDE and CR4.PGE are
  the constants `Pcide` and `GlobalPages`, and each run fixes them.
- The processor fills its TLB from the running tables.

### Hard behaviours

- A walk fails half way, on `OutOfMemory` or on a huge leaf. The tables it
  linked stay in place (design §5).
- The three unmap operations walk through `get_or_map_table` with flags 0.
  An unmap of an address that was never mapped therefore links new tables.
  Once the allocator is empty it fails with `OutOfMemory`, not `NotMapped`.
  The model's unmap actions use the same allocating walks.
  `TableOwnership` checks that such tables stay owned by one parent.
  `FailedEditPreservesTranslations` and `UnmapRoundTrip` check that they
  never change a translation. No run checks the `OutOfMemory` result
  itself against the `NotMapped` of the design.
- `walk_pd` stores the table it obtains in `pd`, not in `pt`.
- `is_range_available` reuses one walker across iterations, calls `walk_pd`
  twice per huge step, and divides a byte size by frame counts.
- `set_pcid` does not mask its input, and its one-shot check looks at the
  tag's value, not at whether a tag was ever set.
- Two handles may share a PCID, and the TLB keeps translations across
  switches.
- No operation invalidates a TLB entry after it edits the running space.
- Every leaf is written with the Global bit, which outlives `mov cr3`
  when CR4.PGE is set.
- `assert_msr_presence` tests a bit of the CPUID vendor string.
- `asm_irq_disable` reads RFLAGS before its `cli`; an interrupt can be
  taken between the two.

## Modules

- **`PageTable.tla`**: the geometry and one table.
  - Geometry: `Entries` entries per table and `PageSize` bytes per page.
    `Index(level, va)` is the 9-bit field extraction.
  - `GetOrMapTable`, `TMapPage`, `IsLeaf` and `TUnmapPage` model
    `page_table.rs`. Its source is not among the sources, so they follow
    the design document and are marked `spec_modelled` in the map.
  - `Translate(m, root, p)` is the hardware walk. It is used by the
    properties and by the TLB fill.
- **`PageMap.tla`**: the component model.
  - State variables:
    - `mem`: table frame → table.
    - `free`: the allocator's free table frames.
    - `cr3`: handle slot → CR3 value, or `NoCr3`.
    - `cpu_cr3`: the processor's CR3.
    - `tlb`: a set of `[pcid, page, root, val, global]` entries.
    - `hugeSupported`: `ARE_HUGE_PAGES_SUPPORTED`.
    - `panicked`: set when the kernel panics.
    - `tagged`: a ghost, the handles whose `set_pcid` has succeeded.
    - `ret`: the last call and its result.
    - `lastFind`: a ghost, the arguments and result of the last
      `find_available_region`, reset by any map or unmap.
  - One action per method: `TryNew`, `FromCr3`, `SetPcid`, `Load`,
    `MapPage`, `UnmapPage`, `MapLargePage`, `UnmapLargePage`,
    `MapHugePage`, `UnmapHugePage`, `FindAvailableRegion`.
  - Processor steps: `Access(p)`, a TLB fill, and `Halted`, the state after
    a panic.
  - Each action is the whole method. It runs every walk the method makes,
    in the code's order, through a walker record
    `[mem, free, err, tab, root, pml4, pdpt, pd, pt]`. The walk functions
    `WalkCr3`, `WalkPml4`, `WalkPdpt` and `WalkPd` reproduce the recursion
    and the field each one assigns.
  - The loops of `is_range_available` and `find_available_region` are the
    RECURSIVE operators `WalkLoop`, `RunWalks` and `Scan`.
  - Map operations take a `MemType`. The leaf gets the `Global` bit of
    `GetFlags(mt)`. A TLB fill marks the entry global when the leaf is
    global and the constant `GlobalPages` (CR4.PGE) is set. `mov cr3` keeps
    global entries. `TlbPcid(c)`, the tag of a CR3 value, is its PCID under
    `Pcide` and 0 otherwise. The code passes the same flags to the intermediate
    entries, where the processor ignores `Global`, so links are written
    without it.
  - Mutants: each one is an operator just before the action it replaces,
    and named for the bug it plants.
- **`AddressSpace.tla`**: the contract of the design document (§4.2,
  §8) for the `MemoryMap` trait, written as an abstract specification.
  - Every address space is a total function from virtual pages to `NoMap`
    or `[base, off]`.
  - A map of a non-null aligned address sets the size-aligned range. A
    misaligned one fails with the alignment error. An unmap clears the
    range and returns its base frame, and an absent entry fails with
    `NotMapped`. A failed call and a search change nothing.
  - The page map does not refine it, and no run instantiates it:
    - unaligned large and huge maps succeed (map_round_trip);
    - unmap walks allocate, and can fail with `OutOfMemory`;
    - the search writes a translation (search_writes).
    The clauses the code keeps are checked directly on `PageMap`:
    `UnmapRoundTrip` and `FailedEditPreservesTranslations`.
- **`Cpu.tla`**: the helpers of `cpu/mod.rs`.
  - State: `intFlag` (RFLAGS.IF), `pc` and `tmp` for the point between
    the `pushf` and the `cli` of `asm_irq_disable`, the client's stack
    `saved` of values returned by `asm_irq_disable`, `pending` (an interrupt raised),
    `cpu` (the processor's CPUID values), `cpl`, `msr`, and the return
    values.
  - One action per helper. `asm_irq_disable` is two actions,
    `AsmIrqDisablePushf` and `AsmIrqDisableCli`, because an interrupt
    may be taken between them. `asm_irq_enable`'s read-modify-write is
    one step: an interrupt inside it returns by `iret` to the same
    RFLAGS.
  - `Raise` and `Deliver` are the device and the processor. The
    processor takes a pending interrupt before the next instruction
    whenever IF = 1 (the guard `Busy` on every client step).
  - The helpers have no callers in the sources. The client is any
    sequence of calls, with the discipline that inside a section it
    only nests, restores the innermost section with the value that call
    returned, or tests the flag. Nesting is bounded by `MaxNest`.
  - `AssertMsrPresence` is bit 5 of `cpu.leaf0Edx`, the EDX of CPUID
    leaf 0, as the code reads it.
- **`IrqSections.tla`**: the abstract promise of the interrupt helpers.
  - State: interrupts `masked` or not; for each open section, whether they
    were masked before it (`outer`); an interrupt `raised`.
  - Actions: `Unmask` outside sections, `Enter`, `Leave` (which puts back
    the value saved on entry), `RaiseIrq`, and `Take` while unmasked, under
    weak fairness.
  - `Cpu` maps onto it with `IRQ == INSTANCE IrqSections WITH`:
    - `masked` is the negation of IF;
    - `outer` is the negation of each value `asm_irq_disable` returned;
    - the `pushf` step of `asm_irq_disable`, and helper calls that leave
      IF unchanged, are stutter steps.
- **`MCCpu.tla`**: processors for `Cpu`. `leaf0Edx` is the real value
  for "GenuineIntel", "AuthenticAMD" and "VIA VIA VIA ".
- **`MCPageMap.tla`**: the model-checking instance.
  - Geometry: 2 entries per table and 2-byte pages, so 16 pages, a large
    page of 2 pages and a huge page of 4.
  - Table frames 1–6, with boot tables in frames 1–4 that map page 1 to
    data frame 100.
  - CR3 values keep their real layout, `frame * 4096 + pcid`, so the
    `set_pcid` OR acts on real bits.

The action for a whole call is atomic. The design (§6) says operations are
synchronous and callers serialise activation. Nothing in the sources runs
concurrently, so the model has no interleaving inside a call.

## Runs

| Run | cfg | Expect | Checks |
|---|---|---|---|
| core | `MCPageMap.cfg` | pass | `TypeOK`, `TableOwnership`, `FailedEditPreservesTranslations`, `UnmapRoundTrip`, `SearchIdempotent` |
| tlb | `MCTlb.cfg` | pass | `TlbTaggedByActiveSpace` |
| cpu | `MCCpu.cfg` | pass | `TypeOK`, `InSectionMasked`, `RefinesIrqSections` |
| no_panic | `MCNoPanic.cfg` | violation | `NoPanic` |
| root_stable | `MCRootStable.cfg` | violation | `RootStable` |
| pcid_one_shot | `MCPcidOneShot.cfg` | violation | `PcidOneShot` |
| map_round_trip | `MCMapRoundTrip.cfg` | violation | `MapRoundTrip` |
| found_region | `MCFoundRegion.cfg` | violation | `FoundRegionUnmapped` |
| search_writes | `MCSearchWrites.cfg` | violation | `SearchPreservesTranslations` |
| tlb_coherent | `MCTlbCoherent.cfg` | violation | `TlbCoherent` |
| tlb_global | `MCTlbGlobal.cfg` | violation | `TlbTaggedByActiveSpace` |
| msr | `MCMsr.cfg` | violation | `MsrGuardMatchesFeature` |

### core

Inputs:

- one handle slot;
- PCID 1;
- vaddrs 2 (the boot-mapped page) and 8 (page 4, which starts a large
  page);
- data frame 101;
- searches of 2 and 4 bytes aligned to 4 over [0, 8), which reach the
  page, large and huge loops of `is_range_available`;
- huge-page support on and off.

What it shows:

- **`TableOwnership`:** no frame is both free and linked, or both free and
  a root. Every linked table frame is linked exactly once.
- **`FailedEditPreservesTranslations`:** a call other than the search
  that returns an error leaves every address space in use unchanged, even
  though its walk may have linked tables before it failed. The search is
  left out on purpose: a failing 4-byte search does write a translation,
  which is the search_writes finding.
- **`UnmapRoundTrip`:** an unmap that returns `Ok` returns the frame its
  address translated to before the call. Afterwards the address no longer
  translates, and no other address space changed.

- **`SearchIdempotent`:** a second `find_available_region` with the same
  arguments, and no map or unmap in between, returns the same result. This
  holds even though each search may link tables and may run out of frames.
  The search frees nothing, and a walk that has succeeded once succeeds
  again without allocating.

Size: 38,804 states in about 30 s.

### tlb

Inputs: CR4.PCIDE set, two handle slots with the one PCID, and accesses to
pages 1 and 4. That is enough for both handles to be tagged with the same
PCID and switched between.

What it shows: **`TlbTaggedByActiveSpace`**. A TLB entry under the running
PCID was filled from the running tables.

Size: 140,970 states in about 80 s.

### cpu

Inputs: nesting up to 2, privilege level 0, one MSR with two values, and an
Intel and a VIA processor.

What it shows:

- **`InSectionMasked`:** IF is clear inside every open section, including
  after an inner restore.
- **`RefinesIrqSections`:** the helpers implement `IrqSections`. Each
  `asm_irq_disable` saves whether interrupts were masked before it and
  masks them. Each `asm_irq_restore` puts that value back. An interrupt
  taken between the `pushf` and the `cli` changes neither. Weak fairness
  of `Take` follows from that of `Deliver`. So the refinement also checks
  that an interrupt deferred by a section is taken once the outermost
  restore has unmasked interrupts.

Size: 344 distinct states in under a second.

### Violation runs

Each one checks one claim of the design document or of a comment. The
findings in `PROJECT.json` give the line of code involved. The runs,
briefly:

- **no_panic:** `walk_pd` leaves `pt` unset, so `map_page` and
  `unmap_page` panic.
- **root_stable:** `set_pcid(0x2000)` on the handle in frame 5 moves its
  root to frame 7.
- **pcid_one_shot:** `set_pcid(0)` can be repeated.
- **map_round_trip:** after three steps an unaligned vaddr 6 (page 3)
  translates into the middle of frame 101. TLC reports one of two traces
  of the same length, depending on how its workers interleave:
  `from_cr3` then `map_large_page(6, 101)`, which maps page 3 at offset 1;
  or `try_new` then `map_huge_page(6, 101)` on the new root, which maps
  page 3 at offset 3.
- **found_region:** the search returns address 2, which the boot tables
  map.
- **search_writes:** a 4-byte search reaches the huge loop. Its second
  `walk_pd` links a new frame into the page table at entry 0, which
  creates a translation of page 0.
- **tlb_coherent:** page 1 is accessed, then remapped with
  `map_large_page(2, 101)` in the running space. The TLB keeps frame 100.
- **tlb_global:** CR4.PGE is set and CR4.PCIDE is clear, so no PCID is
  involved. The boot space maps vaddr 8 and page 4 is accessed. The global
  entry then survives `load` of a new handle, and it translates page 4 to a
  frame that the new space does not map.
- **msr:** on "VIA VIA VIA ", leaf 0's EDX is "VIA ", and bit 5 of 'V' is
  clear. So `read_msr` panics, although every x86-64 processor has MSRs.

## Bounds and why they are enough

- **Two entries per table** keep every decision of the code:
  - an entry present or absent, a leaf or a link;
  - index 0 and a non-zero index at each level;
  - a range that crosses a table boundary.
- **The page size of 2** keeps `va % PageSize`, so misalignment can happen.
- **Six table frames:** four are taken by the boot path, and two more allow
  a new root and then an allocator running out in the middle of a walk.
  So `OutOfMemory` is reached both from `try_new` and from inside a walk.
- **Search sizes** are chosen per run to reach the loop in question:
  - 2 bytes reaches the large loop and the page loop;
  - 4 bytes reaches the huge loop.
- **The TLB:** access inputs are in the tlb runs only, since every access
  multiplies the state space.

## Fairness and liveness

`PageMap` states no liveness property, so it assumes no fairness. Every
operation there is a synchronous call that returns in a bounded number of
steps. The one unbounded loop, the search, runs over a finite candidate
range. Nothing in the code waits.

`Cpu` assumes weak fairness of `Deliver` only:

- The processor takes a pending interrupt at the next instruction boundary
  where IF = 1, which is stronger than weak fairness.
- The client gets no fairness, nor does the device, since the code cannot
  make a caller close a section.

So the liveness `RefinesIrqSections` inherits from `WF_avars(Take)` only
requires an interrupt to be taken while interrupts stay unmasked.

## Not modelled

- **Flag bits other than present, page-size and global.** `GetFlags` holds
  all of them, but no property is about permissions.
- **`invalidate_tlb_entry`, `invalidate_pcid`, `load_page_map`,
  `get_cr4`.** Nothing in the sources calls them, so the model never takes
  them. CR4.PGE and CR4.PCIDE are the constants `GlobalPages` and
  `Pcide`.
- **The cache type bits of CR3 (PWT, PCD).** With CR4.PCIDE clear, bits 3
  and 4 of a PCID passed to `set_pcid` select them. No property is about
  caching; the hazard is listed in `PROJECT.json`.
- **Bits of RFLAGS other than IF, and `get_vendor_string`.** No helper
  reads another bit. `get_vendor_string` copies CPUID registers into a
  caller's buffer.
- **Privilege levels other than 0.** The kernel runs at ring 0, so the
  early return of `write_msr` is kept in the action but never taken.
- **Other processors and TLB shootdown.** The design leaves these out.
- **`validate_paddr` and the address-type helpers.** These are external.
  `from_cr3` is only applied to the running CR3.
- **The kernel heap allocator sketch and the `Init` trait.** The first
  declares statics, types and a trait with no implementation. The second is
  a trait with no implementation. Neither has an operation that changes
  state.

## Where the project stops

Every operation of the sources that changes state is an action of a
module. What remains is listed above: dead private functions, traits and
types without an implementation, and cache-type bits no property is about.
Two questions are still open:

- Two handles on one root, a handle adopted with `from_cr3` next to a
  created one. `MCPageMap.cfg` with two handles does not finish in the
  time a run is given.
- A TLB-coherent abstraction that the TLB model refines. It can only be
  stated once the code calls `invalidate_tlb_entry`.

The unmap round trip is checked directly as `UnmapRoundTrip`, not through
a refinement: the design's contract in `AddressSpace` is one the code does
not implement.
