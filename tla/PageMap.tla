------------------------------ MODULE PageMap ------------------------------
(***************************************************************************)
(* The x86-64 address space of CharlotteCore:                              *)
(*   src/charlotte_core/src/isa/implementation/x86_64/memory/page_map/mod.rs *)
(* PageMap handles (a CR3 value each), the transient Walker that descends  *)
(* the four table levels, the map/unmap operations at three page sizes,    *)
(* the free-region search, activation (mov cr3) and the processor's TLB.   *)
(*                                                                         *)
(* Every operation of the code runs to completion in one step: the core    *)
(* has no internal concurrency and callers serialise calls on one address  *)
(* space (design document, section 5).  A walk that fails part way keeps   *)
(* the tables it created, as the code does.  A panic (unwrap of None)      *)
(* halts the kernel.                                                       *)
(***************************************************************************)
EXTENDS PageTable, Bitwise, Sequences

CONSTANTS
  Handles,       \* slots holding the PageMap values callers own
  PCIDs,         \* tags passed to set_pcid (u16)
  VAddrs,        \* virtual addresses passed to map / unmap
  MapPAddrs,     \* physical frames passed to map (a subset of PFrames)
  MapTypes,      \* the MemType whose get_flags the caller passes to map
  SearchSizes,   \* size argument of find_available_region (bytes)
  SearchAligns,  \* alignment argument of find_available_region
  SearchStarts,  \* start argument of find_available_region
  SearchEnds,    \* end argument of find_available_region
  AccessPages,   \* virtual pages the processor touches
  HugeSupport,   \* the values CPUID may give ARE_HUGE_PAGES_SUPPORTED
  GlobalPages,   \* CR4.PGE: whether the processor honours the Global bit
  Pcide,         \* CR4.PCIDE: whether CR3 bits 11:0 tag TLB entries
  BootMem,       \* the tables the boot loader left in memory
  BootCr3        \* CR3 at boot

ASSUME MapPAddrs \subseteq PFrames
ASSUME HugeSupport \subseteq BOOLEAN /\ HugeSupport # {}
ASSUME GlobalPages \in BOOLEAN /\ Pcide \in BOOLEAN
ASSUME BootMem \in [Frames -> [Idx -> Entry]]

VARIABLES
  mem,            \* physical memory: table frame -> table
  free,           \* frames the physical frame allocator can still hand out
  cr3,            \* PageMap.cr3 of each handle slot, or NoCr3
  cpu_cr3,        \* the processor's CR3 register
  tlb,            \* the processor's TLB: cached translations tagged by PCID
  hugeSupported,  \* ARE_HUGE_PAGES_SUPPORTED, fixed at boot by CPUID
  panicked,       \* the kernel has panicked and halted
  tagged,         \* history: handles on which set_pcid has returned Ok
  ret,            \* the last call and what it returned
  lastFind        \* history: the last search since the tables were last edited

vars == <<mem, free, cr3, cpu_cr3, tlb, hugeSupported, panicked, tagged, ret, lastFind>>

NoCr3 == -1
FrameBytes == 4096                       \* CR3 bits 11:0 hold the PCID

\* get_pml4_paddr as a frame number: (cr3 & !0xFFF) / 4096.
RootOf(c) == c \div FrameBytes
\* get_pcid: (cr3 & 0xFFF) as u16.
GetPcid(c) == c % FrameBytes
\* The tag the TLB uses under CR3 value c: its PCID when CR4.PCIDE is set,
\* PCID 000H otherwise (bits 3 and 4 are then PWT and PCD).
TlbPcid(c) == IF Pcide THEN GetPcid(c) ELSE 0

Exists(h) == cr3[h] # NoCr3

\* arg: the frame passed to map, the size passed to find, 0 otherwise.
RetA(op, h, res, val, arg) == [op |-> op, h |-> h, res |-> res, val |-> val, arg |-> arg]
Ret(op, h, res, val) == RetA(op, h, res, val, 0)

MemTypes == {"KernelReadWrite", "KernelReadOnly", "KernelReadExecute"}
ASSUME MapTypes \subseteq MemTypes

\* MemoryMap::get_flags: the PteFlags each kind of kernel memory is mapped with.
GetFlags(mt) ==
  CASE mt = "KernelReadWrite" ->
         {"Present", "Write", "NoExecute", "Global", "WriteThrough"}
    [] mt = "KernelReadOnly" -> {"Present", "NoExecute", "Global", "WriteThrough"}
    [] mt = "KernelReadExecute" -> {"Present", "Global", "WriteThrough"}

\* The Global bit of the flags a map call passes down to the leaf.
GlobalIn(flags) == "Global" \in flags

NoFind == [h |-> 0, args |-> <<>>, res |-> "none", val |-> 0]

BootFrames == {f \in Frames : BootMem[f] # EmptyTable} \cup {RootOf(BootCr3)}

Init ==
  /\ mem = BootMem
  /\ free = Frames \ BootFrames
  /\ cr3 = [h \in Handles |-> NoCr3]
  /\ cpu_cr3 = BootCr3
  /\ tlb = {}
  /\ hugeSupported \in HugeSupport
  /\ panicked = FALSE
  /\ tagged = {}
  /\ ret = Ret("none", 0, "none", 0)
  /\ lastFind = NoFind

(***************************************************************************)
(* Walker: Walker::new and walk_cr3 / walk_pml4 / walk_pdpt / walk_pd.     *)
(* A walk whose field for the level is None first walks the level above,  *)
(* as the recursive calls of the code do.  walk_pd stores the table it    *)
(* obtains in the pd field, not in pt (mod.rs line 97).                   *)
(***************************************************************************)
NewWalker(m, fr, root) ==
  [mem |-> m, free |-> fr, err |-> "ok", tab |-> None, root |-> root,
   pml4 |-> None, pdpt |-> None, pd |-> None, pt |-> None]

WalkCr3(w) == [w EXCEPT !.pml4 = w.root]

\* After get_or_map_table: on success the table goes into field fld.
Descend(r, fld) == IF r.err # "ok" THEN r ELSE [r EXCEPT ![fld] = r.tab]

\* Each walk_X on a walker w1 whose field for level X is already set.
WalkPml4At(w1, va) == Descend(GetOrMapTable(w1, w1.pml4, va, "PML4"), "pdpt")
WalkPdptAt(w1, va) ==
  IF w1.err # "ok" THEN w1 ELSE Descend(GetOrMapTable(w1, w1.pdpt, va, "PDPT"), "pd")
WalkPdAt(w1, va) ==
  IF w1.err # "ok" THEN w1 ELSE Descend(GetOrMapTable(w1, w1.pd, va, "PD"), "pd")

WalkPml4(w, va) == WalkPml4At(IF w.pml4 = None THEN WalkCr3(w) ELSE w, va)
WalkPdpt(w, va) == WalkPdptAt(IF w.pdpt = None THEN WalkPml4(w, va) ELSE w, va)
WalkPd(w, va) == WalkPdAt(IF w.pd = None THEN WalkPdpt(w, va) ELSE w, va)

\* A fresh walker over handle h's tables in the current memory.
WalkerOf(h) == NewWalker(mem, free, RootOf(cr3[h]))

\* The call returns: memory and allocator as the walk left them.
Finish(w, r) == /\ mem' = w.mem /\ free' = w.free /\ ret' = r

\* The kernel panics: unwrap() on None.  Tables created before stay.
Panic(w) ==
  /\ mem' = w.mem /\ free' = w.free /\ panicked' = TRUE
  /\ UNCHANGED <<cr3, cpu_cr3, tlb, hugeSupported, tagged, ret>>


(***************************************************************************)
(* PageMap: construction, PCID and activation.                             *)
(***************************************************************************)

\* Mutant of TryNew: CR3 takes the frame number instead of its address bits.
TryNewFrameNumber(h) ==
  /\ ~panicked /\ ~Exists(h)
  /\ IF free = {}
       THEN /\ ret' = Ret("try_new", h, "OutOfMemory", 0)
            /\ UNCHANGED cr3 /\ UNCHANGED free
       ELSE LET f == Min(free) IN
            /\ cr3' = [cr3 EXCEPT ![h] = f]
            /\ free' = free \ {f}
            /\ ret' = Ret("try_new", h, "Ok", 0)
  /\ UNCHANGED <<mem, cpu_cr3, tlb, hugeSupported, panicked, tagged>>

\* Mutant of TryNew: the allocated root frame is not taken from the allocator.
TryNewKeepsFrame(h) ==
  /\ ~panicked /\ ~Exists(h)
  /\ IF free = {}
       THEN /\ ret' = Ret("try_new", h, "OutOfMemory", 0)
            /\ UNCHANGED cr3 /\ UNCHANGED free
       ELSE LET f == Min(free) IN
            /\ cr3' = [cr3 EXCEPT ![h] = f * FrameBytes]
            /\ ret' = Ret("try_new", h, "Ok", 0)
            /\ UNCHANGED free
  /\ UNCHANGED <<mem, cpu_cr3, tlb, hugeSupported, panicked, tagged>>

\* PageMap::try_new: CR3 is the bits of a frame from the allocator.
TryNew(h) ==
  /\ ~panicked /\ ~Exists(h)
  /\ IF free = {}
       THEN /\ ret' = Ret("try_new", h, "OutOfMemory", 0)
            /\ UNCHANGED cr3 /\ UNCHANGED free
       ELSE LET f == Min(free) IN
            /\ cr3' = [cr3 EXCEPT ![h] = f * FrameBytes]
            /\ free' = free \ {f}
            /\ ret' = Ret("try_new", h, "Ok", 0)
  /\ UNCHANGED <<mem, cpu_cr3, tlb, hugeSupported, panicked, tagged>>

\* PageMap::from_cr3(get_cr3()): the PCID bits are kept, not cleared.
\* validate_paddr accepts the value the processor is running on.
FromCr3(h) ==
  /\ ~panicked /\ ~Exists(h)
  /\ cr3' = [cr3 EXCEPT ![h] = cpu_cr3]
  /\ ret' = Ret("from_cr3", h, "Ok", 0)
  /\ UNCHANGED <<mem, free, cpu_cr3, tlb, hugeSupported, panicked, tagged>>

\* PageMap::set_pcid: refused only when get_pcid() is already non-zero;
\* the u16 is or-ed into CR3 without masking it to 12 bits.
SetPcid(h, pcid) ==
  /\ ~panicked /\ Exists(h)
  /\ IF GetPcid(cr3[h]) # 0
       THEN /\ ret' = Ret("set_pcid", h, "AlredyHasPcid", pcid)
            /\ UNCHANGED <<cr3, tagged>>
       ELSE /\ cr3' = [cr3 EXCEPT ![h] = (cr3[h] - GetPcid(cr3[h])) | pcid]
            /\ tagged' = tagged \cup {h}
            /\ ret' = Ret("set_pcid", h, "Ok", pcid)
  /\ UNCHANGED <<mem, free, cpu_cr3, tlb, hugeSupported, panicked>>

\* Mutant of Load: mov cr3 with bit 63 set, keeping the new PCID's entries.
LoadNoFlush(h) ==
  /\ ~panicked /\ Exists(h)
  /\ IF GetPcid(cr3[h]) # 0
       THEN /\ cpu_cr3' = cr3[h]
            /\ ret' = Ret("load", h, "Ok", 0)
            /\ UNCHANGED tlb
       ELSE /\ ret' = Ret("load", h, "InvalidPcid", 0)
            /\ UNCHANGED <<cpu_cr3, tlb>>
  /\ UNCHANGED <<mem, free, cr3, hugeSupported, panicked, tagged>>

\* MemoryMap::load: mov cr3 when the PCID is non-zero.  With bit 63 clear,
\* mov cr3 drops the TLB entries tagged with the new CR3's tag, except
\* global ones: with CR4.PCIDE clear every entry has tag 0, so all
\* non-global entries go.
Load(h) ==
  /\ ~panicked /\ Exists(h)
  /\ IF GetPcid(cr3[h]) # 0
       THEN /\ cpu_cr3' = cr3[h]
            /\ tlb' = {e \in tlb : e.pcid # TlbPcid(cr3[h]) \/ e.global}
            /\ ret' = Ret("load", h, "Ok", 0)
       ELSE /\ ret' = Ret("load", h, "InvalidPcid", 0)
            /\ UNCHANGED <<cpu_cr3, tlb>>
  /\ UNCHANGED <<mem, free, cr3, hugeSupported, panicked, tagged>>

(***************************************************************************)
(* map / unmap at the three page sizes.                                   *)
(***************************************************************************)

Unchanged4 == UNCHANGED <<cr3, cpu_cr3, tlb, hugeSupported>>

\* What map_page does once walk_pd has returned: pass its error on, or
\* unwrap walker.pt (None: panic) and map the entry at pt_index.
MapPageWalked(w, h, va, pa, mt) ==
  IF w.err # "ok" THEN Finish(w, RetA("map_page", h, w.err, va, pa)) /\ UNCHANGED panicked
  ELSE IF w.pt = None THEN Panic(w)
  ELSE /\ Finish([w EXCEPT !.mem = TMapPage(@, w.pt, "Standard", Index("PT", va), pa,
                                                 GlobalIn(GetFlags(mt)))],
                 RetA("map_page", h, "Ok", va, pa))
       /\ UNCHANGED panicked

\* map_page: alignment and null checks, walk_pd, then walker.pt.unwrap().
MapPage(h, va, pa, mt) ==
  /\ ~panicked /\ Exists(h)
  /\ IF va % PageSize # 0
       THEN /\ ret' = RetA("map_page", h, "InvalidVAddrAlignment", va, pa)
            /\ UNCHANGED <<mem, free, panicked>>
     ELSE IF va = 0
       THEN /\ ret' = RetA("map_page", h, "InvalidAddress", va, pa)
            /\ UNCHANGED <<mem, free, panicked>>
     ELSE MapPageWalked(WalkPd(WalkerOf(h), va), h, va, pa, mt)
  /\ Unchanged4 /\ UNCHANGED tagged

\* The leaf step shared by all sizes, once the walk has produced table t:
\* install, or clear and return the old frame.
LeafMap(w, t, size, va, pa, mt, op, h) ==
  Finish([w EXCEPT !.mem = TMapPage(@, t, size, Index(LeafLevel[size], va), pa,
                                    GlobalIn(GetFlags(mt)))],
         RetA(op, h, "Ok", va, pa))

\* Mutant of LeafUnmap: the frame is read from the entry after it is cleared.
LeafUnmapReadAfterClear(w, t, size, va, op, h) ==
  LET i == Index(LeafLevel[size], va)
      m2 == TUnmapPage(w.mem, t, i)
  IN  IF IsLeaf(w.mem, t, size, i)
        THEN Finish([w EXCEPT !.mem = m2], RetA(op, h, "Ok", m2[t][i].addr, va))
        ELSE Finish(w, Ret(op, h, "NotMapped", va))

\* A successful unmap reports the cleared frame, and the address in arg.
LeafUnmap(w, t, size, va, op, h) ==
  LET i == Index(LeafLevel[size], va) IN
  IF IsLeaf(w.mem, t, size, i)
    THEN Finish([w EXCEPT !.mem = TUnmapPage(@, t, i)], RetA(op, h, "Ok", w.mem[t][i].addr, va))
    ELSE Finish(w, Ret(op, h, "NotMapped", va))

\* unmap_page once walk_pd has returned.
UnmapPageWalked(w, h, va) ==
  IF w.err # "ok" THEN Finish(w, Ret("unmap_page", h, w.err, va)) /\ UNCHANGED panicked
  ELSE IF w.pt = None THEN Panic(w)
  ELSE LeafUnmap(w, w.pt, "Standard", va, "unmap_page", h) /\ UNCHANGED panicked

\* unmap_page: walk_pd with flags 0, then walker.pt.unwrap().
UnmapPage(h, va) ==
  /\ ~panicked /\ Exists(h)
  /\ UnmapPageWalked(WalkPd(WalkerOf(h), va), h, va)
  /\ Unchanged4 /\ UNCHANGED tagged

\* A large or huge map once the walk has returned: its error, or the leaf
\* in the table the walker holds in field tf.
MapWalked(w, tf, size, op, h, va, pa, mt) ==
  IF w.err # "ok" THEN Finish(w, RetA(op, h, w.err, va, pa))
  ELSE LeafMap(w, w[tf], size, va, pa, mt, op, h)

UnmapWalked(w, tf, size, op, h, va) ==
  IF w.err # "ok" THEN Finish(w, Ret(op, h, w.err, va))
  ELSE LeafUnmap(w, w[tf], size, va, op, h)

\* Mutant of MapLargePage: the leaf goes in at pt_index (copied from map_page).
MapLargeAtPtIndexWalked(w, h, va, pa, mt) ==
  IF w.err # "ok" THEN Finish(w, RetA("map_large_page", h, w.err, va, pa))
  ELSE Finish([w EXCEPT !.mem = TMapPage(@, w.pd, "Large", Index("PT", va), pa,
                                              GlobalIn(GetFlags(mt)))],
              RetA("map_large_page", h, "Ok", va, pa))

MapLargePageAtPtIndex(h, va, pa, mt) ==
  /\ ~panicked /\ Exists(h)
  /\ MapLargeAtPtIndexWalked(WalkPdpt(WalkerOf(h), va), h, va, pa, mt)
  /\ Unchanged4 /\ UNCHANGED <<panicked, tagged>>

\* map_large_page: walk_pdpt then map at pd_index; no alignment or null check.
MapLargePage(h, va, pa, mt) ==
  /\ ~panicked /\ Exists(h)
  /\ MapWalked(WalkPdpt(WalkerOf(h), va), "pd", "Large", "map_large_page", h, va, pa, mt)
  /\ Unchanged4 /\ UNCHANGED <<panicked, tagged>>

\* unmap_large_page: walk_pdpt with flags 0 then unmap at pd_index.
UnmapLargePage(h, va) ==
  /\ ~panicked /\ Exists(h)
  /\ UnmapWalked(WalkPdpt(WalkerOf(h), va), "pd", "Large", "unmap_large_page", h, va)
  /\ Unchanged4 /\ UNCHANGED <<panicked, tagged>>

\* Mutant of MapHugePage: the support check comes after the mapping.
MapHugeGateLateWalked(w, h, va, pa, mt) ==
  IF w.err # "ok" THEN Finish(w, RetA("map_huge_page", h, w.err, va, pa))
  ELSE IF ~hugeSupported
    THEN Finish([w EXCEPT !.mem = TMapPage(@, w.pdpt, "Huge", Index("PDPT", va), pa,
                                              GlobalIn(GetFlags(mt)))],
                RetA("map_huge_page", h, "UnsupportedOperation", va, pa))
  ELSE LeafMap(w, w.pdpt, "Huge", va, pa, mt, "map_huge_page", h)

MapHugePageGateLate(h, va, pa, mt) ==
  /\ ~panicked /\ Exists(h)
  /\ MapHugeGateLateWalked(WalkPml4(WalkerOf(h), va), h, va, pa, mt)
  /\ Unchanged4 /\ UNCHANGED <<panicked, tagged>>

\* map_huge_page: refused without huge-page support; walk_pml4, map at
\* pdpt_index.
MapHugePage(h, va, pa, mt) ==
  /\ ~panicked /\ Exists(h)
  /\ IF ~hugeSupported
       THEN ret' = RetA("map_huge_page", h, "UnsupportedOperation", va, pa) /\ UNCHANGED <<mem, free>>
       ELSE MapWalked(WalkPml4(WalkerOf(h), va), "pdpt", "Huge", "map_huge_page", h, va, pa, mt)
  /\ Unchanged4 /\ UNCHANGED <<panicked, tagged>>

\* unmap_huge_page: refused without huge-page support; walk_pml4, unmap.
UnmapHugePage(h, va) ==
  /\ ~panicked /\ Exists(h)
  /\ IF ~hugeSupported
       THEN ret' = Ret("unmap_huge_page", h, "UnsupportedOperation", va) /\ UNCHANGED <<mem, free>>
       ELSE UnmapWalked(WalkPml4(WalkerOf(h), va), "pdpt", "Huge", "unmap_huge_page", h, va)
  /\ Unchanged4 /\ UNCHANGED <<panicked, tagged>>


(***************************************************************************)
(* find_available_region and is_range_available.                           *)
(***************************************************************************)

N_FRAMES_PDPT == Entries * Entries       \* static N_FRAMES_PDPT = 512 * 512
N_FRAMES_PD == Entries                   \* static N_FRAMES_PD = 512

\* The walks one loop iteration of is_range_available makes, each with
\* flags 0, stopping at the first error.
RECURSIVE RunWalks(_, _, _)
RunWalks(w, walks, va) ==
  IF walks = <<>> \/ w.err # "ok" THEN w
  ELSE LET step == CASE Head(walks) = "pml4" -> WalkPml4(w, va)
                     [] Head(walks) = "pdpt" -> WalkPdpt(w, va)
                     [] Head(walks) = "pd"   -> WalkPd(w, va)
       IN RunWalks(step, Tail(walks), va)

\* for _ in 0..n { walks; vaddr += stride }, leaving on the first error.
RECURSIVE WalkLoop(_, _, _, _, _)
WalkLoop(w, va, n, walks, stride) ==
  IF n = 0 \/ w.err # "ok" THEN [w |-> w, va |-> va]
  ELSE WalkLoop(RunWalks(w, walks, va), va + stride, n - 1, walks, stride)

\* The next loop of is_range_available, from where the last one left off.
WalkLoopFrom(l, n, walks, stride) == WalkLoop(l.w, l.va, n, walks, stride)

\* is_range_available: one walker for the whole call; the huge loop calls
\* walk_pd twice; no leaf entry is ever inspected.  The size in bytes is
\* divided by frame counts.  Returns the walker: available iff err = "ok".
IsRangeAvailable(m, fr, root, start, size) ==
  LET nHuge   == size \div N_FRAMES_PDPT
      rem1    == size % N_FRAMES_PDPT
      nLarge  == rem1 \div N_FRAMES_PD
      rem2    == rem1 % N_FRAMES_PD
      nPages  == rem2 \div PageSize + 1
  IN  WalkLoopFrom(
        WalkLoopFrom(
          WalkLoop(NewWalker(m, fr, root), start, nHuge,
                   <<"pml4", "pdpt", "pd", "pd">>, N_FRAMES_PDPT * PageSize),
          nLarge, <<"pml4", "pdpt", "pd">>, N_FRAMES_PD * PageSize),
        nPages, <<"pml4", "pdpt", "pd">>, PageSize).w

\* (start.aligned_after(alignment)..end).step_by(alignment); start is
\* aligned, so the first candidate is start.
Candidates(start, align, end) ==
  LET n == IF end > start THEN (end - start + align - 1) \div align ELSE 0
  IN  [i \in 1..n |-> start + (i - 1) * align]

\* The first candidate whose range is available; memory as left behind.
\* ScanFrom continues after candidate Head(cands) was checked with walker w.
RECURSIVE Scan(_, _, _, _, _), ScanFrom(_, _, _, _)
Scan(m, fr, root, cands, size) ==
  IF cands = <<>> THEN [found |-> FALSE, val |-> 0, mem |-> m, free |-> fr]
  ELSE ScanFrom(IsRangeAvailable(m, fr, root, Head(cands), size), root, cands, size)
ScanFrom(w, root, cands, size) ==
  IF w.err = "ok" THEN [found |-> TRUE, val |-> Head(cands), mem |-> w.mem, free |-> w.free]
  ELSE Scan(w.mem, w.free, root, Tail(cands), size)

\* The call returns the scan's outcome; the tables it created stay.
FindResult(sc, h, size) ==
  /\ mem' = sc.mem /\ free' = sc.free
  /\ ret' = IF sc.found THEN RetA("find", h, "Ok", sc.val, size)
                        ELSE RetA("find", h, "VAddrRangeUnavailable", 0, size)

FindAvailableRegion(h, size, align, start, end) ==
  /\ ~panicked /\ Exists(h)
  /\ CASE size < PageSize ->
            ret' = RetA("find", h, "SubPageSizeNotAllowed", 0, size) /\ UNCHANGED <<mem, free>>
       [] align < PageSize ->
            ret' = RetA("find", h, "InvalidArgument", 0, size) /\ UNCHANGED <<mem, free>>
       [] start % align # 0 ->
            ret' = RetA("find", h, "InvalidVAddrAlignment", 0, size) /\ UNCHANGED <<mem, free>>
       [] OTHER ->
            FindResult(Scan(mem, free, RootOf(cr3[h]), Candidates(start, align, end), size), h, size)
  /\ Unchanged4 /\ UNCHANGED <<panicked, tagged>>

(***************************************************************************)
(* The processor.                                                          *)
(***************************************************************************)

CpuRoot == RootOf(cpu_cr3)

\* The TLB entries a lookup under the running CR3 may hit: those tagged with
\* its tag, and global ones whatever their tag.
Usable(e) == e.pcid = TlbPcid(cpu_cr3) \/ e.global

\* A memory access to page p: a TLB miss walks the active tables and caches
\* the translation under the active tag, as a global entry when the leaf
\* has the Global bit and CR4.PGE is set.  (root records, for the
\* properties only, which tables the walk used; the hardware keeps no such tag.)
Access(p) ==
  /\ ~panicked
  /\ ~\E e \in tlb : Usable(e) /\ e.page = p
  /\ Translate(mem, CpuRoot, p) # NoMap
  /\ tlb' = tlb \cup {[pcid |-> TlbPcid(cpu_cr3), page |-> p, root |-> CpuRoot,
                       global |-> GlobalPages /\ IsGlobal(mem, CpuRoot, p),
                       val |-> Translate(mem, CpuRoot, p)]}
  /\ UNCHANGED <<mem, free, cr3, cpu_cr3, hugeSupported, panicked, tagged, ret>>

\* After a panic the processor halts for ever.
Halted == panicked /\ UNCHANGED vars

\* lastFind is history only: a search records its arguments and result, a
\* call that edits tables (map or unmap) clears it, the others keep it.
Next ==
  \/ \E h \in Handles :
       \/ /\ \/ TryNew(h) \/ FromCr3(h) \/ Load(h)
             \/ \E p \in PCIDs : SetPcid(h, p)
          /\ UNCHANGED lastFind
       \/ /\ \E va \in VAddrs :
               \/ UnmapPage(h, va) \/ UnmapLargePage(h, va) \/ UnmapHugePage(h, va)
               \/ \E pa \in MapPAddrs, mt \in MapTypes :
                    MapPage(h, va, pa, mt) \/ MapLargePage(h, va, pa, mt) \/ MapHugePage(h, va, pa, mt)
          /\ lastFind' = NoFind
       \/ \E sz \in SearchSizes, al \in SearchAligns, st \in SearchStarts, en \in SearchEnds :
            /\ FindAvailableRegion(h, sz, al, st, en)
            /\ lastFind' = [h |-> h, args |-> <<sz, al, st, en>>, res |-> ret'.res, val |-> ret'.val]
  \/ \E p \in AccessPages : Access(p) /\ UNCHANGED lastFind
  \/ Halted

Spec == Init /\ [][Next]_vars


(***************************************************************************)
(* Properties.                                                             *)
(***************************************************************************)

Handled == {h \in Handles : Exists(h)}
\* Address spaces some handle or the processor refers to, and the boot one.
RootsInUse == {RootOf(cr3[h]) : h \in Handled} \cup {CpuRoot, RootOf(BootCr3)}

TypeOK ==
  /\ mem \in [Frames -> [Idx -> Entry]]
  /\ \A f \in Frames, i \in Idx : mem[f][i].present \/ mem[f][i] = ZeroEntry
  /\ free \subseteq Frames
  /\ DOMAIN cr3 = Handles
  /\ \A h \in Handles : cr3[h] = NoCr3 \/ (cr3[h] \in Nat /\ RootOf(cr3[h]) \in Frames)
  /\ RootOf(cpu_cr3) \in Frames
  /\ tlb \subseteq [pcid : Nat, page : Pages, root : Frames, global : BOOLEAN,
                    val : [base : PFrames, off : Nat]]
  /\ hugeSupported \in BOOLEAN /\ panicked \in BOOLEAN
  /\ tagged \subseteq Handles

\* Entries that link a table to a lower-level table frame.
Links == {<<t, i>> \in Frames \X Idx :
            mem[t][i].present /\ ~mem[t][i].huge /\ mem[t][i].addr \in Frames}

\* Frame ownership between the allocator, try_new and get_or_map_table:
\* every table frame is linked from at most one entry, a linked frame is
\* neither free nor the root of an address space in use, and the frames
\* the allocator still holds are zero.
TableOwnership ==
  /\ \A l1, l2 \in Links : l1 # l2 => mem[l1[1]][l1[2]].addr # mem[l2[1]][l2[2]].addr
  /\ \A l \in Links : mem[l[1]][l[2]].addr \notin free \cup RootsInUse
  /\ \A f \in free : mem[f] = EmptyTable /\ f \notin RootsInUse

\* A call other than find_available_region that returns an error (a walk
\* that ran out of frames part way, a huge leaf in the way, huge pages
\* unsupported, nothing to unmap) leaves every translation of every address
\* space as it was: the tables it linked are empty and reach no leaf
\* (section 7).  A failed search does write one (search_writes).
FailedEditPreservesTranslations ==
  [][ret'.res \notin {"Ok", "none"} /\ ret'.op # "find" =>
       \A r \in RootsInUse : SpaceOf(mem', r) = SpaceOf(mem, r)]_vars

\* Unmap round trip (section 8): an unmap that returns Ok returns the base
\* frame vaddr translated into before the call, vaddr no longer translates,
\* and every translation of the other address spaces is as it was.
UnmapRoundTrip ==
  [][ret'.op \in {"unmap_page", "unmap_large_page", "unmap_huge_page"}
     /\ ret'.res = "Ok" /\ ret' # ret
     => LET root == RootOf(cr3[ret'.h])
            p == (ret'.arg \div PageSize) % NPages
        IN  /\ Translate(mem, root, p).base = ret'.val
            /\ Translate(mem', root, p) = NoMap
            /\ \A r \in RootsInUse \ {root} : SpaceOf(mem', r) = SpaceOf(mem, r)]_vars

\* No call panics: map_page and unmap_page end in walker.pt.unwrap().
NoPanic == ~panicked

\* A handle's CR3 keeps pointing at the PML4 it was created with: setting
\* the tag never moves the root table.
RootStable ==
  [][\A h \in Handled : RootOf(cr3'[h]) = RootOf(cr3[h])]_vars

\* Tag one-shot law (section 8): once set_pcid has succeeded on a handle,
\* every later set_pcid on it fails, whatever the values.
PcidOneShot ==
  [][ret'.op = "set_pcid" /\ ret'.res = "Ok" /\ ret' # ret => ret'.h \notin tagged]_vars

\* Round trip (section 8): after map(vaddr, paddr) returns Ok, vaddr
\* translates to the first byte of paddr.
MapRoundTrip ==
  [][ret'.op \in {"map_page", "map_large_page", "map_huge_page"} /\ ret'.res = "Ok"
     /\ ret' # ret
     => Translate(mem', RootOf(cr3[ret'.h]), (ret'.val \div PageSize) % NPages)
          = Leaf(ret'.arg, 0)]_vars

\* Every page of a region find_available_region returns is unmapped in
\* that address space when the call returns.
FoundRegionUnmapped ==
  [][ret'.op = "find" /\ ret'.res = "Ok" /\ ret' # ret
     => \A p \in Pages :
          (p * PageSize + PageSize > ret'.val /\ p * PageSize < ret'.val + ret'.arg)
            => Translate(mem', RootOf(cr3[ret'.h]), p) = NoMap]_vars

\* find_available_region (a &self method) changes no translation.
SearchPreservesTranslations ==
  [][ret'.op = "find" /\ ret' # ret =>
       \A r \in RootsInUse : SpaceOf(mem', r) = SpaceOf(mem, r)]_vars

\* Search idempotence (design section 8): find_available_region called twice
\* on a handle with the same arguments and no map or unmap in between returns
\* the same result, although the first call may have allocated tables (or
\* run the allocator dry) on its way.
SearchIdempotent ==
  [][ret'.op = "find" /\ lastFind # NoFind
     /\ lastFind'.h = lastFind.h /\ lastFind'.args = lastFind.args
     => lastFind'.res = lastFind.res /\ lastFind'.val = lastFind.val]_vars

\* Address-space isolation in the TLB: every entry a lookup under the running
\* CR3 may hit was filled from the running tables.  set_pcid lets two spaces
\* share a tag, so this rests on load (mov cr3 without the no-flush bit)
\* dropping the tag's entries at every switch, and on no entry being global.
TlbTaggedByActiveSpace ==
  \A e \in tlb : Usable(e) => e.root = CpuRoot

\* Every TLB entry a lookup may hit agrees with the running tables
\* (section 4.3: an edit of the active space is invalidated).
TlbCoherent ==
  \A e \in tlb : Usable(e) => Translate(mem, CpuRoot, e.page) = e.val

=============================================================================
