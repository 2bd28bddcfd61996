----------------------------- MODULE UserMemory -----------------------------
(***************************************************************************)
(* The memory of user processes: spawn_from_elf (elf/mod.rs) builds an     *)
(* address space, and SYS_FRAME_ALLOC, SYS_DMA_ALLOC and SYS_MAP_PHYS      *)
(* (syscall/mod.rs) hand out and map memory.  System calls run with        *)
(* interrupts masked, so each is one step.  Nothing is ever unmapped or    *)
(* released: the exit of a process does not change this state.             *)
(*                                                                         *)
(* Page tables are modelled with one level below the root instead of       *)
(* three.  Capabilities of other types are left out, and the handles of the *)
(* MemoryMap ones numbered without them.                                   *)
(***************************************************************************)
EXTENDS FrameAllocator, CSpace

LOCAL Lists == INSTANCE SequencesExt

CONSTANTS
  MaxProcesses,   \* bound on the processes ever created
  MaxHandles,     \* bound on the slots of a CSpace
  Image,          \* ELF images: the sequences of their PT_LOAD segments
  StackPages,     \* pages of a user stack (4)
  StackTop,       \* page number of the top of the user stack
  MapBase,        \* page number of 0x8000_0000
  SlotPages,      \* pages set aside for each handle by SYS_MAP_PHYS (4096)
  TablePages,     \* pages served by one page table
  BootRange,      \* device memory init is given a capability for at boot
  MapRequest      \* phys_addr (relative to the capability) and length pairs

Process == 1..MaxProcesses

Segment == [vaddr : Nat, memsz : Nat \ {0}, offset : Nat, filesz : Nat]

\* External (the linker): the segments of an image share no page, and lie
\* below the windows of SYS_MAP_PHYS.
PageOf(addr) == addr \div PAGE_SIZE

SegmentPages(s) == PageOf(s.vaddr)..PageOf(s.vaddr + s.memsz - 1)

ASSUME ImageAssumption ==
  \A image \in Image :
    /\ image \in Seq(Segment)
    /\ \A i \in DOMAIN image : image[i].filesz <= image[i].memsz
    /\ \A i, j \in DOMAIN image : i < j =>
         SegmentPages(image[i]) \cap SegmentPages(image[j]) = {}

\* The sizes passed to SYS_DMA_ALLOC round up without wrapping at 2^64: sizes
\* that wrap are among those of FrameAllocator alone.
ASSUME DmaRequestAssumption == \A bytes \in DmaRequest : Fits(bytes)

VARIABLES
  tables,     \* page-table frames: [process, region, frame]; region -1 is CR3
  pages,      \* user mappings: [process, page, frame, bytes]
  cspaces,    \* the MemoryMap capabilities of each process
  images,     \* history: the image each process was loaded from
  panicked

memoryVars == <<vars, tables, pages, cspaces, images, panicked>>

MemoryMapCap(start, length) ==
  [type |-> "MemoryMap", start |-> start, length |-> length]

NextProcess == Len(images) + 1

-----------------------------------------------------------------------------
(* The allocator, tables and mappings while one call runs; ok is FALSE     *)
(* once an expect has failed.                                              *)

Now == [a |-> ALLOCATOR, taken |-> {}, tables |-> tables, pages |-> pages,
        ok |-> TRUE]

\* allocate_frame().expect(..)
Alloc(m) ==
  IF m.ok /\ HasFrame(m.a)
  THEN [m EXCEPT !.a = Taken(@), !.taken = @ \cup {NextFrame(m.a)}]
  ELSE [m EXCEPT !.ok = FALSE]

Region(page) == page \div TablePages

AddTable(m, p, region) ==
  LET n == Alloc(m)
  IN  IF ~n.ok THEN n
      ELSE [n EXCEPT !.tables = @ \cup {[process |-> p, region |-> region,
                                         frame |-> NextFrame(m.a)]}]

\* External (OffsetPageTable::map_to): a missing table is allocated, and an
\* entry in use is an error.
map_to(m, p, page, frame, bytes) ==
  LET n == IF \E t \in m.tables : t.process = p /\ t.region = Region(page)
           THEN m ELSE AddTable(m, p, Region(page))
  IN  IF ~n.ok \/ \E x \in n.pages : x.process = p /\ x.page = page
      THEN [n EXCEPT !.ok = FALSE]
      ELSE [n EXCEPT !.pages = @ \cup {[process |-> p, page |-> page,
                                        frame |-> frame, bytes |-> bytes]}]

\* A newly allocated frame at a page.
MapNew(m, p, page, bytes) ==
  LET n == Alloc(m)
  IN  IF n.ok THEN map_to(n, p, page, NextFrame(m.a), bytes) ELSE n

Largest(a, b)  == IF a < b THEN b ELSE a
Smallest(a, b) == IF a < b THEN a ELSE b

Zero == -1     \* a zeroed byte; others are named by their offset in the file
NoBytes == <<>>

\* Mutant: the copy starts at the beginning of the page.
SegmentBytesUnclipped(s, page) ==
  LET page_vaddr == page * PAGE_SIZE
      copy_end   == Smallest(page_vaddr + PAGE_SIZE, s.vaddr + s.filesz)
  IN  [i \in 0..(PAGE_SIZE - 1) |->
         IF page_vaddr + i < copy_end THEN s.offset + i ELSE Zero]

\* The page zeroed, then the part of the segment's file bytes within it
\* copied.
SegmentBytes(s, page) ==
  LET page_vaddr == page * PAGE_SIZE
      copy_start == Largest(page_vaddr, s.vaddr)
      copy_end   == Smallest(page_vaddr + PAGE_SIZE, s.vaddr + s.filesz)
      src_offset == copy_start - s.vaddr
      dst        == copy_start - page_vaddr
  IN  [i \in 0..(PAGE_SIZE - 1) |->
         IF dst <= i /\ page_vaddr + i < copy_end
         THEN s.offset + src_offset + (i - dst)
         ELSE Zero]

LoadSegment(m, p, s) ==
  Lists!FoldLeft(LAMBDA n, page : MapNew(n, p, page, SegmentBytes(s, page)), m,
           Lists!SetToSortSeq(SegmentPages(s), <))

\* The root table, the segments in order, then the stack from its top down.
LoadImage(m, p, image) ==
  LET root   == AddTable(m, p, -1)
      loaded == Lists!FoldLeft(LAMBDA n, s : LoadSegment(n, p, s), root, image)
  IN  Lists!FoldLeft(LAMBDA n, i : MapNew(n, p, StackTop - i, NoBytes), loaded,
               [i \in 1..StackPages |-> i])

\* The call returns, or the kernel panics.
Finish(m) ==
  /\ ALLOCATOR' = m.a
  /\ owned' = owned \cup m.taken
  /\ tables' = m.tables
  /\ pages' = m.pages
  /\ panicked' = ~m.ok
  /\ UNCHANGED <<DMA_POOL_PHYS, DMA_POOL_USED, reserved, dma_owned>>

-----------------------------------------------------------------------------
(* Actions.                                                                *)

\* _start: init is spawned and given the device memory and the DMA pool.
BootCSpace ==
  <<MemoryMapCap(BootRange.start, BootRange.length),
    MemoryMapCap(DMA_POOL_PHYS, DmaPages * PAGE_SIZE)>>

boot(image) ==
  /\ ~panicked
  /\ images = <<>>
  /\ images' = <<image>>
  /\ Finish(LoadImage(Now, 1, image))
  /\ cspaces' = [cspaces EXCEPT ![1] = BootCSpace]

\* SYS_SPAWN by p.  The child gets p's capabilities (usize::MAX) or no
\* MemoryMap capability.  The Process capability p gets is left out.
spawn_from_elf(p, image, all) ==
  /\ ~panicked
  /\ NextProcess \in Process
  /\ images' = Append(images, image)
  /\ Finish(LoadImage(Now, NextProcess, image))
  /\ cspaces' = [cspaces EXCEPT ![NextProcess] = IF all THEN cspaces[p] ELSE <<>>]

\* SYS_FRAME_ALLOC; without a frame it returns 0 and nothing changes.
sys_frame_alloc(p) ==
  /\ ~panicked
  /\ HasFrame(ALLOCATOR)
  /\ Len(cspaces[p]) < MaxHandles
  /\ allocate_frame
  /\ cspaces' = [cspaces EXCEPT ![p] =
       Insert(@, MemoryMapCap(NextFrame(ALLOCATOR) * PAGE_SIZE, PAGE_SIZE))]
  /\ UNCHANGED <<tables, pages, images, panicked>>

\* SYS_DMA_ALLOC; the capability is for the size asked for.
sys_dma_alloc(p, bytes) ==
  /\ ~panicked
  /\ Len(cspaces[p]) < MaxHandles
  /\ allocate_dma_frames(bytes)
  /\ cspaces' = [cspaces EXCEPT ![p] =
       Insert(@, MemoryMapCap(DMA_POOL_PHYS + DMA_POOL_USED, bytes))]
  /\ UNCHANGED <<tables, pages, images, panicked>>

\* Mutant: only the first byte is compared with the capability.
AllowedStart(cap, phys, length) ==
  cap.start <= phys /\ phys <= cap.start + cap.length

\* The range asked for lies within the capability's.
Allowed(cap, phys, length) ==
  cap.start <= phys /\ phys + length <= cap.start + cap.length

\* The frame mapped at the i-th page.
WindowFrame(phys, i) == PageOf(phys + i * PAGE_SIZE)

\* SYS_MAP_PHYS of a range allowed by handle h: its frames, one after the
\* other, from the start of the handle's window.  An empty range ends on the
\* page before it starts.
sys_map_phys(p, h, phys, length) ==
  LET start_page == MapBase + h * SlotPages
      end_page   == PageOf(start_page * PAGE_SIZE + length - 1)
      window     == [i \in 1..(end_page - start_page + 1) |-> i - 1]
  IN  /\ ~panicked
      /\ Allowed(cspaces[p][h + 1], phys, length)
      /\ Finish(Lists!FoldLeft(LAMBDA m, i : map_to(m, p, start_page + i,
                                              WindowFrame(phys, i), NoBytes),
                         Now, window))
      /\ UNCHANGED <<cspaces, images>>

MemoryInit ==
  /\ Init
  /\ tables = {} /\ pages = {}
  /\ cspaces = [p \in Process |-> <<>>]
  /\ images = <<>>
  /\ panicked = FALSE

Boot == \E image \in Image : boot(image)

SysSpawn == \E p \in DOMAIN images, image \in Image, all \in BOOLEAN :
  spawn_from_elf(p, image, all)

SysFrameAlloc == \E p \in DOMAIN images : sys_frame_alloc(p)

SysDmaAlloc == \E p \in DOMAIN images, bytes \in DmaRequest :
  sys_dma_alloc(p, bytes)

SysMapPhys == \E p \in DOMAIN images : \E i \in DOMAIN cspaces[p] :
  \/ sys_map_phys(p, i - 1, cspaces[p][i].start, cspaces[p][i].length)
  \/ \E r \in MapRequest :
       sys_map_phys(p, i - 1, cspaces[p][i].start + r.offset, r.length)

MemoryNext == Boot \/ SysSpawn \/ SysFrameAlloc \/ SysDmaAlloc \/ SysMapPhys

MemorySpec == MemoryInit /\ [][MemoryNext]_memoryVars

-----------------------------------------------------------------------------
(* Properties.                                                             *)

\* The frames behind a mapping that the kernel allocated for it.
Private(x) == x.page < MapBase \/ x.page >= StackTop - StackPages

FramesOf(cap) ==
  IF cap.length = 0 THEN {} ELSE PageOf(cap.start)..PageOf(cap.start + cap.length - 1)

\* Isolation: a frame that holds a page table, or a page of a process's
\* image or stack, has no other use: no second table or mapping in any
\* process, and no capability that would let one be made.
PrivateFramesUnshared ==
  /\ \A t, u \in tables : t.frame = u.frame => t = u
  /\ \A t \in tables, x \in pages : t.frame # x.frame
  /\ \A x, y \in pages : Private(x) /\ x.frame = y.frame => x = y
  /\ \A p \in Process : \A i \in DOMAIN cspaces[p] :
       \A f \in FramesOf(cspaces[p][i]) :
         /\ \A t \in tables : t.frame # f
         /\ \A x \in pages : Private(x) => x.frame # f

\* SYS_MAP_PHYS maps only frames that a capability of the process reaches.
MappingsCovered ==
  \A x \in pages : ~Private(x) =>
    \E i \in DOMAIN cspaces[x.process] : x.frame \in FramesOf(cspaces[x.process][i])

\* A process whose load succeeded finds at each address of each segment the
\* byte of the file that belongs there, or zero past the end of the file's
\* part.
ImageLoaded ==
  ~panicked => \A p \in DOMAIN images : \A i \in DOMAIN images[p] :
    LET s == images[p][i]
    IN  \A addr \in s.vaddr..(s.vaddr + s.memsz - 1) :
          \E x \in pages :
            /\ x.process = p /\ x.page = PageOf(addr)
            /\ x.bytes[addr % PAGE_SIZE] =
                 IF addr < s.vaddr + s.filesz
                 THEN s.offset + (addr - s.vaddr) ELSE Zero

\* Every frame the allocator has handed out serves a process that was
\* created, as a table, as a page or through a capability: no call that
\* returns loses a frame on the way.
NoFrameLost ==
  ~panicked => \A f \in owned :
    \/ \E t \in tables : t.frame = f
    \/ \E x \in pages : x.frame = f
    \/ \E p \in Process : \E i \in DOMAIN cspaces[p] : f \in FramesOf(cspaces[p][i])
=============================================================================
