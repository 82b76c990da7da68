----------------------------- MODULE PageTable -----------------------------
(***************************************************************************)
(* One x86-64 page table and the address geometry shared by all four       *)
(* levels (PML4, PDPT, PD, PT).  The Rust module page_table.rs that        *)
(* defines PageTable::get_or_map_table, map_page and unmap_page is not part *)
(* of the sources; those three operators are modelled from the design      *)
(* document (sections 3, 4.1 and 4.2) and marked so in PROJECT.json.        *)
(*                                                                         *)
(* Physical memory holding tables is a function from table frames to       *)
(* tables; a table is a function from 0..Entries-1 to entries.  A table    *)
(* frame is identified by its frame number (paddr = frame * 4096).          *)
(* The data frames a caller maps are numbers outside Frames.               *)
(***************************************************************************)
EXTENDS Integers, FiniteSetsExt

CONSTANTS
  Entries,    \* entries per table (512 on x86-64; 2 in the models)
  PageSize,   \* bytes of a standard page in virtual-address units (4096)
  Frames,     \* physical frames that can hold a page table
  PFrames     \* physical frames callers may map as data pages

ASSUME Entries \in Nat \ {0, 1}
ASSUME PageSize \in Nat \ {0}
ASSUME Frames \subseteq Nat \ {0} /\ PFrames \subseteq Nat \ {0}
ASSUME Frames \cap PFrames = {}

None == 0                       \* an Option<&mut PageTable> that is None

Idx == 0 .. (Entries - 1)

\* A page-table entry: present bit, page-size ("huge") bit, global bit, frame
\* address.  The remaining flag bits are abstracted away; the processor
\* ignores the global bit outside leaf entries, so links carry FALSE.
Entry == [present : BOOLEAN, huge : BOOLEAN, global : BOOLEAN,
          addr : Frames \cup PFrames \cup {0}]
ZeroEntry == [present |-> FALSE, huge |-> FALSE, global |-> FALSE, addr |-> 0]
TableLink(f) == [present |-> TRUE, huge |-> FALSE, global |-> FALSE, addr |-> f]
EmptyTable == [i \in Idx |-> ZeroEntry]

Levels == {"PML4", "PDPT", "PD", "PT"}

\* Number of 9-bit index fields below a level: vaddr.pml4_index() etc.
Shift == [l \in Levels |-> CASE l = "PT" -> 0 [] l = "PD" -> 1
                            [] l = "PDPT" -> 2 [] l = "PML4" -> 3]

\* The index of a virtual address into the table of a level.
Index(level, va) == (va \div (PageSize * Entries ^ Shift[level])) % Entries

\* Virtual pages, and the number of standard pages each page size spans.
NPages == Entries ^ 4
Pages == 0 .. (NPages - 1)
Sizes == {"Standard", "Large", "Huge"}
SpanOf == [s \in Sizes |-> CASE s = "Standard" -> 1 [] s = "Large" -> Entries
                               [] s = "Huge" -> Entries * Entries]
\* The table level whose entry is the leaf for a page size.
LeafLevel == [s \in Sizes |-> CASE s = "Standard" -> "PT" [] s = "Large" -> "PD"
                                  [] s = "Huge" -> "PDPT"]

(***************************************************************************)
(* A walker-like record threads memory and the allocator through a call:  *)
(*   mem, free: physical memory of tables and the frames still free;       *)
(*   err: "ok" or the error the call returns; tab: a table just obtained.  *)
(***************************************************************************)

\* Mutant of GetOrMapTable: the new frame is zeroed and returned but the
\* entry linking it is never written.
GetOrMapTableNoLink(w, t, va, level) ==
  LET i == Index(level, va)
      e == w.mem[t][i]
      f == Min(w.free)
  IN  IF e.present /\ e.huge THEN [w EXCEPT !.err = "InvalidAddress"]
      ELSE IF e.present THEN [w EXCEPT !.tab = e.addr]
      ELSE IF w.free = {} THEN [w EXCEPT !.err = "OutOfMemory"]
      ELSE [w EXCEPT !.mem = [@ EXCEPT ![f] = EmptyTable], !.free = @ \ {f}, !.tab = f]

\* PageTable::get_or_map_table: the table behind entry Index(level, va) of
\* table t, allocating, zeroing and linking a new frame when the entry is
\* not present.  A present huge entry is a leaf, not a table: error.
GetOrMapTable(w, t, va, level) ==
  LET i == Index(level, va)
      e == w.mem[t][i]
      f == Min(w.free)
  IN  IF e.present /\ e.huge THEN [w EXCEPT !.err = "InvalidAddress"]
      ELSE IF e.present THEN [w EXCEPT !.tab = e.addr]
      ELSE IF w.free = {} THEN [w EXCEPT !.err = "OutOfMemory"]
      ELSE [w EXCEPT !.mem = [@ EXCEPT ![f] = EmptyTable,
                                       ![t][i] = TableLink(f)],
                     !.free = @ \ {f},
                     !.tab = f]

\* PageTable::map_page: install a leaf at entry i, overwriting what is there;
\* global is the Global bit of the caller's flags.
TMapPage(m, t, size, i, paddr, global) ==
  [m EXCEPT ![t][i] = [present |-> TRUE, huge |-> size # "Standard", global |-> global,
                       addr |-> paddr]]

\* PageTable::unmap_page: whether entry i holds a leaf of this size.  A large
\* or huge leaf carries the page-size bit; any present PT entry is a leaf.
IsLeaf(m, t, size, i) ==
  m[t][i].present /\ (size = "Standard" \/ m[t][i].huge)

TUnmapPage(m, t, i) == [m EXCEPT ![t][i] = ZeroEntry]

(***************************************************************************)
(* The hardware translation of virtual page p under the tables rooted at  *)
(* root: NoMap, or the leaf's base frame and p's page offset inside it.    *)
(***************************************************************************)
NoMap == [base |-> 0, off |-> 0]
Leaf(base, off) == [base |-> base, off |-> off]

\* The leaf entry the hardware walk for page p ends on (ZeroEntry if none)
\* and p's page offset inside that leaf.
LeafOf(m, root, p) ==
  LET va == p * PageSize
      Ent(t, l) == IF t \in DOMAIN m THEN m[t][Index(l, va)] ELSE ZeroEntry
      e4 == Ent(root, "PML4")
      e3 == Ent(e4.addr, "PDPT")
      e2 == Ent(e3.addr, "PD")
      e1 == Ent(e2.addr, "PT")
      none == [e |-> ZeroEntry, off |-> 0]
  IN  CASE ~e4.present \/ ~e3.present -> none
        [] e3.huge -> [e |-> e3, off |-> p % (Entries * Entries)]
        [] ~e2.present -> none
        [] e2.huge -> [e |-> e2, off |-> p % Entries]
        [] OTHER -> [e |-> e1, off |-> 0]

LeafValue(l) == IF l.e.present THEN Leaf(l.e.addr, l.off) ELSE NoMap

Translate(m, root, p) == LeafValue(LeafOf(m, root, p))

\* The leaf mapping page p is a global page.
IsGlobal(m, root, p) == LeafOf(m, root, p).e.global

\* The whole address space of a root, page by page.
SpaceOf(m, root) == [p \in Pages |-> Translate(m, root, p)]

=============================================================================
