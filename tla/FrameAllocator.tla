--------------------------- MODULE FrameAllocator ---------------------------
(***************************************************************************)
(* The physical frame allocator (memory/frame_allocator.rs): the boot-time *)
(* construction of the bitmap from the bootloader's memory map, frame      *)
(* allocation and release, and the pool for device (DMA) memory.  The      *)
(* bitmap is the set of frames whose bit is 1.                             *)
(***************************************************************************)
EXTENDS Integers, Sequences, FiniteSets, FiniteSetsExt

CONSTANTS
  PAGE_SIZE,    \* bytes in a frame (4096)
  Word,         \* the number of values of a u64 (2^64)
  DmaPages,     \* frames in the DMA pool (16)
  MemoryMap,    \* the memory maps the bootloader may report
  DmaRequest    \* sizes passed to allocate_dma_frames

EntryType == {"USABLE", "BOOTLOADER_RECLAIMABLE", "EXECUTABLE_AND_MODULES",
              "ACPI_RECLAIMABLE", "ACPI_NVS", "RESERVED"}

Entry == [base : Nat, length : Nat \ {0}, type : EntryType]

End(entry) == entry.base + entry.length

\* External (the Limine protocol): entries do not overlap, and USABLE ones
\* are made of whole frames.
ASSUME MemoryMapAssumption ==
  /\ PAGE_SIZE \in Nat \ {0}
  /\ DmaPages \in Nat \ {0}
  /\ Word \in Nat /\ PAGE_SIZE <= Word
  /\ DmaRequest \subseteq 0..(Word - 1)
  /\ \A map \in MemoryMap :
       /\ map \in Seq(Entry)
       /\ \A i, j \in DOMAIN map :
            i < j => End(map[i]) <= map[j].base
       /\ \A i \in DOMAIN map : map[i].type = "USABLE" =>
            map[i].base % PAGE_SIZE = 0 /\ map[i].length % PAGE_SIZE = 0

VARIABLES
  ALLOCATOR,        \* the BitmapAllocator; used: the frames whose bit is set
  DMA_POOL_PHYS,    \* byte address
  DMA_POOL_USED,    \* bytes
  reserved,         \* history: frames the allocator may never hand out
  owned,            \* history: frames handed out and not released
  dma_owned         \* history: byte ranges of the pool handed out

vars == <<ALLOCATOR, DMA_POOL_PHYS, DMA_POOL_USED, reserved, owned, dma_owned>>

-----------------------------------------------------------------------------
(* init: one operator per numbered step of the source.                     *)

\* A range a..b of the source, its end excluded.
FrameRange(a, b) == a..(b - 1)

IsRam(entry) == entry.type # "RESERVED"

Entries(map) == {map[i] : i \in DOMAIN map}

\* 1. The frames below the end of RAM.
TotalFrames(map) ==
  Max({End(e) : e \in {x \in Entries(map) : IsRam(x)}} \cup {0}) \div PAGE_SIZE

BitmapBytes(map) == (TotalFrames(map) + 7) \div 8

\* 2. The base of the first usable entry that can hold the bitmap, or 0.
BitmapHolders(map) ==
  {i \in DOMAIN map : map[i].type = "USABLE"
                        /\ map[i].length >= BitmapBytes(map)}

BitmapAddr(map) ==
  IF BitmapHolders(map) = {} THEN 0 ELSE map[Min(BitmapHolders(map))].base

\* 3. The frames of an entry, and of all usable ones.
EntryFrames(e) == FrameRange(e.base \div PAGE_SIZE, End(e) \div PAGE_SIZE)

Usable(map) == {e \in Entries(map) : e.type = "USABLE"}

UsableFrames(map) == UNION {EntryFrames(e) : e \in Usable(map)}

\* Mutant: the end of the bitmap is rounded down.
BitmapFramesRoundedDown(map) ==
  FrameRange(BitmapAddr(map) \div PAGE_SIZE,
             (BitmapAddr(map) + BitmapBytes(map)) \div PAGE_SIZE)

\* 4. The frames of the bitmap itself.
BitmapFrames(map) ==
  FrameRange(BitmapAddr(map) \div PAGE_SIZE,
             (BitmapAddr(map) + BitmapBytes(map) + PAGE_SIZE - 1) \div PAGE_SIZE)

\* Some byte of the bitmap lies in frame f.
HoldsBitmap(map, f) ==
  /\ f * PAGE_SIZE < BitmapAddr(map) + BitmapBytes(map)
  /\ BitmapAddr(map) < (f + 1) * PAGE_SIZE

FreeAfterBitmap(map) ==
  {f \in 0..(TotalFrames(map) - 1) : f \in UsableFrames(map) \ BitmapFrames(map)}

\* 5. The first run of DmaPages free frames; 0 stands for none.
DmaRuns(map) ==
  {s \in 0..(TotalFrames(map) - DmaPages) :
     FrameRange(s, s + DmaPages) \subseteq FreeAfterBitmap(map)}

DmaStart(map) == IF DmaRuns(map) = {} THEN 0 ELSE Min(DmaRuns(map))

\* init runs to its end; it panics otherwise.
Boots(map) == BitmapAddr(map) # 0 /\ DmaStart(map) # 0

init(map) ==
  LET dma     == FrameRange(DmaStart(map), DmaStart(map) + DmaPages)
      counted == MapThenSumSet(LAMBDA e : Cardinality(EntryFrames(e)), Usable(map))
  IN  /\ Boots(map)
      /\ ALLOCATOR =
           [used |-> (0..(TotalFrames(map) - 1)) \ (FreeAfterBitmap(map) \ dma),
            total_frames |-> TotalFrames(map),
            free_frames |->
              counted - Cardinality(BitmapFrames(map) \cap UsableFrames(map))
                      - DmaPages,
            last_alloc_idx |-> 0]
      /\ DMA_POOL_PHYS = DmaStart(map) * PAGE_SIZE
      /\ DMA_POOL_USED = 0
      /\ reserved = {f \in 0..(TotalFrames(map) - 1) :
                       \/ f \notin UsableFrames(map)
                       \/ f \in dma
                       \/ HoldsBitmap(map, f)}
      /\ owned = {}
      /\ dma_owned = {}

Init == \E map \in MemoryMap : init(map)

-----------------------------------------------------------------------------
(* Operations.                                                             *)

\* The i-th frame looked at by the search of allocate_frame.
Probe(a, i) == (a.last_alloc_idx + i) % a.total_frames

\* How many frames the search may pass before it meets a free one.
Hits(a) == {i \in 0..(a.total_frames - 1) : Probe(a, i) \notin a.used}

\* allocate_frame returns a frame: the first free one, cyclically from
\* last_alloc_idx.
HasFrame(a) == a.free_frames # 0 /\ Hits(a) # {}

NextFrame(a) == Probe(a, Min(Hits(a)))

\* Mutant: the bit is not set.
TakenUnmarked(a) ==
  [a EXCEPT !.free_frames = @ - 1, !.last_alloc_idx = 0]

\* The allocator after it.
Taken(a) ==
  [a EXCEPT !.used = @ \cup {NextFrame(a)},
            !.free_frames = @ - 1,
            !.last_alloc_idx = NextFrame(a) + 1]

\* allocate_frame; nothing changes when it returns None.
allocate_frame ==
  /\ HasFrame(ALLOCATOR)
  /\ ALLOCATOR' = Taken(ALLOCATOR)
  /\ owned' = owned \cup {NextFrame(ALLOCATOR)}
  /\ UNCHANGED <<DMA_POOL_PHYS, DMA_POOL_USED, reserved, dma_owned>>

\* Mutant: a frame that is already free is counted again.
deallocate_unchecked(f) ==
  /\ f < ALLOCATOR.total_frames
  /\ ALLOCATOR' = [ALLOCATOR EXCEPT !.used = @ \ {f}, !.free_frames = @ + 1]
  /\ owned' = owned \ {f}
  /\ UNCHANGED <<DMA_POOL_PHYS, DMA_POOL_USED, reserved, dma_owned>>

\* deallocate_frame of a used frame; releasing a free one changes nothing.
deallocate_frame(f) ==
  /\ f < ALLOCATOR.total_frames
  /\ f \in ALLOCATOR.used
  /\ ALLOCATOR' = [ALLOCATOR EXCEPT !.used = @ \ {f}, !.free_frames = @ + 1]
  /\ owned' = owned \ {f}
  /\ UNCHANGED <<DMA_POOL_PHYS, DMA_POOL_USED, reserved, dma_owned>>

\* Mutant: the size is not rounded up to whole frames.
Unaligned(bytes) == bytes

\* The size rounded up to whole frames, in u64 arithmetic.
Aligned(bytes) ==
  (((bytes + PAGE_SIZE - 1) % Word) \div PAGE_SIZE) * PAGE_SIZE

\* allocate_dma_frames, when the pool has room; otherwise nothing changes.
allocate_dma_frames(bytes) ==
  LET addr == DMA_POOL_PHYS + DMA_POOL_USED
  IN  /\ DMA_POOL_USED + Aligned(bytes) <= DmaPages * PAGE_SIZE
      /\ DMA_POOL_USED' = DMA_POOL_USED + Aligned(bytes)
      /\ dma_owned' = dma_owned \cup {[start |-> addr, length |-> bytes]}
      /\ UNCHANGED <<ALLOCATOR, DMA_POOL_PHYS, reserved, owned>>

Frames == 0..(ALLOCATOR.total_frames - 1)

\* A frame is released by its owner; releasing it twice in a row is allowed.
Next ==
  \/ allocate_frame
  \/ \E f \in owned \cup (Frames \ ALLOCATOR.used) : deallocate_frame(f)
  \/ \E bytes \in DmaRequest : allocate_dma_frames(bytes)

Spec == Init /\ [][Next]_vars

-----------------------------------------------------------------------------
(* Properties.                                                             *)

\* The counter that guards allocate_frame agrees with the bitmap, so the
\* allocator neither refuses while a frame is free nor searches in vain.
FreeCountRight ==
  ALLOCATOR.free_frames = Cardinality(Frames \ ALLOCATOR.used)

\* The bits that are set are those of the frames handed out and of the
\* frames that may never be: the bitmap's own, the DMA pool's, and those
\* outside usable memory.  The two are disjoint, so no owner shares a frame,
\* and a released frame is never lost.
HandedOutExclusively ==
  /\ owned \cap reserved = {}
  /\ ALLOCATOR.used = owned \cup reserved

\* Rounding the size up stays below 2^64.
Fits(bytes) == bytes <= Word - PAGE_SIZE

\* The ranges of the DMA pool that allocate_dma_frames hands out start on
\* frame boundaries, lie inside the pool and do not share a frame.  A size in
\* the last page before 2^64 is rounded to 0 and granted: nothing is claimed
\* of its range, but it takes nothing from the others.
DmaRangesDisjoint ==
  /\ \A r \in dma_owned :
       /\ r.start % PAGE_SIZE = 0
       /\ DMA_POOL_PHYS <= r.start
       /\ Fits(r.length) =>
            r.start + r.length <= DMA_POOL_PHYS + DmaPages * PAGE_SIZE
  /\ \A r, s \in dma_owned :
       r.length > 0 /\ s.length > 0 /\ Fits(r.length) /\ r.start < s.start =>
         (r.start + r.length - 1) \div PAGE_SIZE < s.start \div PAGE_SIZE
=============================================================================
