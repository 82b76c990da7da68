----------------------------- MODULE MCPageMap -----------------------------
(***************************************************************************)
(* Model-checking instance of PageMap.  Tables have Entries = 2 entries    *)
(* and a standard page is PageSize = 2 address units, so the four levels   *)
(* span 16 pages (32 addresses): a large page spans 2 pages, a huge page 4. *)
(* The boot loader left a 4-level path (frames 1-4) mapping virtual page 1 *)
(* (vaddr 2) to data frame 100 with a standard page; the other frames are  *)
(* free for the allocator.                                                 *)
(***************************************************************************)
EXTENDS PageMap

MCFrames == 1 .. 6
MCPFrames == {100, 101}

\* A table of two entries.  The boot loader's entries are not global.
Tbl(e0, e1) == [i \in Idx |-> IF i = 0 THEN e0 ELSE e1]
Link(f) == TableLink(f)

MCBootMem ==
  [f \in Frames |->
     CASE f = 1 -> Tbl(Link(2), ZeroEntry)
       [] f = 2 -> Tbl(Link(3), ZeroEntry)
       [] f = 3 -> Tbl(Link(4), ZeroEntry)
       [] f = 4 -> Tbl(ZeroEntry, Link(100))
       [] OTHER -> EmptyTable]

MCBootCr3 == 1 * FrameBytes
=============================================================================
