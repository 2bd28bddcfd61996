------------------------ MODULE FrameAllocatorProofs ------------------------
(***************************************************************************)
(* The frame allocator hands out each frame to one owner, for every page   *)
(* size, pool size and memory map.                                         *)
(***************************************************************************)
EXTENDS FrameAllocator, TLAPS, WellFoundedInduction

-----------------------------------------------------------------------------
(* Arithmetic.                                                             *)

\* Multiplication is monotonic.
LEMMA TimesMonotone ==
  ASSUME NEW a \in Nat, NEW b \in Nat, NEW c \in Nat, a <= b
  PROVE  a * c <= b * c
<1>1. PICK d \in Nat : b = a + d
  <2>1. b - a \in Nat /\ b = a + (b - a)
    OBVIOUS
  <2> QED BY <2>1
<1>2. b * c = a * c + d * c
  BY <1>1
<1>3. d * c \in Nat /\ a * c \in Nat
  OBVIOUS
<1> QED BY <1>2, <1>3

\* Integer division.
LEMMA Division ==
  ASSUME NEW x \in Nat, NEW n \in Nat \ {0}
  PROVE  /\ x \div n \in Nat
         /\ n * (x \div n) <= x
         /\ x < n * ((x \div n) + 1)
<1>1. x \div n \in Nat
  OBVIOUS
<1>2. n * (x \div n) <= x
  OBVIOUS
<1>3. x < n * ((x \div n) + 1)
  OBVIOUS
<1> QED BY <1>1, <1>2, <1>3

\* Rounding down.
LEMMA DivisionBound ==
  ASSUME NEW x \in Nat, NEW k \in Nat, NEW n \in Nat \ {0}
  PROVE  k <= x \div n <=> k * n <= x
<1> DEFINE q == x \div n
<1>1. q \in Nat /\ n * q <= x /\ x < n * (q + 1)
  BY Division
<1> HIDE DEF q
<1>2. q * n = n * q /\ (q + 1) * n = n * (q + 1)
        /\ q * n \in Nat /\ (q + 1) * n \in Nat /\ k * n \in Nat
  BY <1>1
<1>3. ASSUME k <= q PROVE k * n <= x
  <2>1. k * n <= q * n
    BY <1>1, <1>3, TimesMonotone
  <2> QED BY <1>1, <1>2, <2>1
<1>4. ASSUME ~(k <= q) PROVE ~(k * n <= x)
  <2>1. q + 1 <= k
    BY <1>1, <1>4
  <2>2. (q + 1) * n <= k * n
    BY <1>1, <2>1, TimesMonotone
  <2> QED BY <1>1, <1>2, <2>2
<1> QED BY <1>3, <1>4 DEF q

\* A non-empty set of natural numbers has a least element.
LEMMA Least ==
  ASSUME NEW T, T \subseteq Nat, T # {}
  PROVE  \E x \in T : \A y \in T : x <= y
<1>1. PICK x \in T : \A y \in T : ~ (<<y, x>> \in OpToRel(<, Nat))
  BY NatLessThanWellFounded, WFMin, Zenon
<1>2. \A y \in T : ~ (y < x)
  BY <1>1, Zenon DEF OpToRel
<1> QED BY <1>2

\* The minimum of a nonempty set of naturals belongs to it.
LEMMA MinMember ==
  ASSUME NEW T, T \subseteq Nat, T # {}
  PROVE  Min(T) \in T
BY Least, Zenon DEF Min

\* A non-empty set of natural numbers with an upper bound has a greatest
\* element, and Max is it.
LEMMA MaxMember ==
  ASSUME NEW T, T \subseteq Nat, T # {}, NEW top \in Nat, \A x \in T : x <= top
  PROVE  Max(T) \in T
<1> DEFINE Above == {n \in Nat : \A x \in T : x <= n}
<1>1. Above \subseteq Nat /\ Above # {}
  OBVIOUS
<1>2. PICK u \in Above : \A n \in Above : u <= n
  BY <1>1, Least, Zenon
<1>3. u \in T
  <2> SUFFICES ASSUME u \notin T PROVE FALSE
    OBVIOUS
  <2>1. PICK x \in T : TRUE
    BY Zenon
  <2>2. \A y \in T : y <= u - 1 /\ y \in Nat
    OBVIOUS
  <2>3. u - 1 \in Above
    BY <2>1, <2>2
  <2> QED BY <1>2, <2>3
<1>4. \E m \in T : \A y \in T : m >= y
  BY <1>3
<1> QED BY <1>4, Zenon DEF Max

-----------------------------------------------------------------------------
(* The initial state.                                                      *)

\* What init computes from a memory map is a number of frames, the size of
\* the bitmap and its address.
LEMMA InitTypes ==
  ASSUME NEW map \in MemoryMap
  PROVE  /\ TotalFrames(map) \in Nat
         /\ BitmapBytes(map) \in Nat
         /\ BitmapAddr(map) \in Nat
<1> DEFINE ends == {End(e) : e \in {x \in Entries(map) : IsRam(x)}} \cup {0}
           top  == IF map = <<>> THEN 0 ELSE End(map[Len(map)])
<1>1. /\ map \in Seq(Entry)
      /\ \A i, j \in DOMAIN map : i < j => End(map[i]) <= map[j].base
      /\ PAGE_SIZE \in Nat \ {0}
  BY MemoryMapAssumption
<1>2. /\ Len(map) \in Nat /\ DOMAIN map = 1..Len(map)
      /\ \A i \in DOMAIN map : map[i] \in Entry
  BY <1>1
<1>3. \A e \in Entry : End(e) \in Nat /\ e.base \in Nat /\ e.base <= End(e)
  BY DEF Entry, End
<1>4. top \in Nat /\ \A i \in DOMAIN map : End(map[i]) <= top
  <2>1. CASE map = <<>>
    BY <1>2, <2>1
  <2>2. CASE map # <<>>
    <3>1. Len(map) \in DOMAIN map
      BY <1>1, <1>2, <2>2
    <3>2. ASSUME NEW i \in DOMAIN map PROVE End(map[i]) <= top
      <4>1. CASE i = Len(map)
        BY <1>2, <1>3, <2>2, <4>1
      <4>2. CASE i # Len(map)
        <5>1. i < Len(map)
          BY <1>2, <4>2
        <5>2. End(map[i]) <= map[Len(map)].base
          BY <1>1, <3>1, <5>1
        <5> QED BY <1>2, <1>3, <2>2, <3>1, <5>2
      <4> QED BY <4>1, <4>2
    <3> QED BY <1>2, <1>3, <2>2, <3>1, <3>2
  <2> QED BY <2>1, <2>2
<1> HIDE DEF top
<1>5. ends \subseteq Nat /\ ends # {} /\ \A x \in ends : x <= top
  BY <1>2, <1>3, <1>4 DEF Entries
<1>6. Max(ends) \in Nat
  BY <1>4, <1>5, MaxMember
<1>7. TotalFrames(map) \in Nat
  <2>1. TotalFrames(map) = Max(ends) \div PAGE_SIZE
    BY DEF TotalFrames
  <2> HIDE DEF ends
  <2> QED BY <1>1, <1>6, <2>1, Division
<1>8. BitmapBytes(map) \in Nat
  BY <1>7, Division DEF BitmapBytes
<1>9. BitmapAddr(map) \in Nat
  <2>1. CASE BitmapHolders(map) = {}
    BY <2>1 DEF BitmapAddr
  <2>2. CASE BitmapHolders(map) # {}
    <3>1. BitmapHolders(map) \subseteq DOMAIN map /\ BitmapHolders(map) \subseteq Nat
      BY <1>2 DEF BitmapHolders
    <3>2. Min(BitmapHolders(map)) \in DOMAIN map
      BY <2>2, <3>1, MinMember
    <3> QED BY <1>2, <1>3, <2>2, <3>2 DEF BitmapAddr
  <2> QED BY <2>1, <2>2
<1> QED BY <1>7, <1>8, <1>9

\* The frames marked for the bitmap are those it touches: rounding its end
\* up and its start down is right.
LEMMA BitmapRounding ==
  ASSUME NEW map \in MemoryMap, NEW f \in Nat
  PROVE  f \in BitmapFrames(map) <=> HoldsBitmap(map, f)
<1> DEFINE addr == BitmapAddr(map)
           last == BitmapAddr(map) + BitmapBytes(map)
<1>1. addr \in Nat /\ last \in Nat /\ PAGE_SIZE \in Nat \ {0}
  BY InitTypes, MemoryMapAssumption
<1>2. f \in BitmapFrames(map) <=>
        /\ addr \div PAGE_SIZE <= f
        /\ f <= (last + PAGE_SIZE - 1) \div PAGE_SIZE - 1
  <2>1. /\ addr \div PAGE_SIZE \in Nat
        /\ (last + PAGE_SIZE - 1) \div PAGE_SIZE \in Nat
    BY <1>1, Division
  <2> QED BY <1>1, <2>1 DEF BitmapFrames, FrameRange
<1>3. HoldsBitmap(map, f) <=> f * PAGE_SIZE < last /\ addr < (f + 1) * PAGE_SIZE
  BY DEF HoldsBitmap
<1> HIDE DEF addr, last
<1>4. addr \div PAGE_SIZE <= f <=> addr < (f + 1) * PAGE_SIZE
  <2>1. (f + 1) <= addr \div PAGE_SIZE <=> (f + 1) * PAGE_SIZE <= addr
    BY <1>1, DivisionBound
  <2>2. addr \div PAGE_SIZE \in Nat /\ (f + 1) * PAGE_SIZE \in Nat
    BY <1>1, Division
  <2> QED BY <1>1, <2>1, <2>2
<1>5. f <= (last + PAGE_SIZE - 1) \div PAGE_SIZE - 1 <=> f * PAGE_SIZE < last
  <2> DEFINE x == last + PAGE_SIZE - 1
  <2>1. x \in Nat
    BY <1>1
  <2>2. x \div PAGE_SIZE \in Nat /\ f * PAGE_SIZE \in Nat
    BY <1>1, <2>1, Division
  <2>3. (f + 1) <= x \div PAGE_SIZE <=> (f + 1) * PAGE_SIZE <= x
    <3> HIDE DEF x
    <3> QED BY <1>1, <2>1, DivisionBound
  <2>4. (f + 1) * PAGE_SIZE = f * PAGE_SIZE + PAGE_SIZE
    BY <1>1
  <2>5. (f + 1) * PAGE_SIZE <= x <=> f * PAGE_SIZE < last
    BY <1>1, <2>2, <2>4
  <2>6. f <= x \div PAGE_SIZE - 1 <=> (f + 1) <= x \div PAGE_SIZE
    <3> HIDE DEF x
    <3> QED BY <2>2
  <2> QED BY <2>3, <2>5, <2>6
<1> QED BY <1>2, <1>3, <1>4, <1>5

-----------------------------------------------------------------------------
(* Ownership of frames.                                                    *)

\* The inductive invariant: with the property, the bitmap covers only frames
\* that exist and the search starts at a natural number, so that Probe stays
\* within the bitmap.
OwnershipInv ==
  /\ DOMAIN ALLOCATOR = {"used", "total_frames", "free_frames", "last_alloc_idx"}
  /\ ALLOCATOR = [x \in DOMAIN ALLOCATOR |-> ALLOCATOR[x]]
  /\ ALLOCATOR.total_frames \in Nat
  /\ ALLOCATOR.last_alloc_idx \in Nat
  /\ ALLOCATOR.used \subseteq Frames
  /\ HandedOutExclusively

\* After init.
LEMMA OwnershipInit == Init => OwnershipInv
<1> SUFFICES ASSUME NEW map \in MemoryMap, init(map) PROVE OwnershipInv
  BY DEF Init
<1> DEFINE dma == FrameRange(DmaStart(map), DmaStart(map) + DmaPages)
<1>1. /\ ALLOCATOR.total_frames = TotalFrames(map)
      /\ ALLOCATOR.used =
           (0..(TotalFrames(map) - 1)) \ (FreeAfterBitmap(map) \ dma)
      /\ ALLOCATOR.last_alloc_idx = 0
      /\ DOMAIN ALLOCATOR = {"used", "total_frames", "free_frames", "last_alloc_idx"}
      /\ ALLOCATOR = [x \in DOMAIN ALLOCATOR |-> ALLOCATOR[x]]
  BY Zenon DEF init
<1>2. /\ owned = {}
      /\ reserved = {f \in 0..(TotalFrames(map) - 1) :
                       \/ f \notin UsableFrames(map)
                       \/ f \in dma
                       \/ HoldsBitmap(map, f)}
  BY DEF init
<1>3. TotalFrames(map) \in Nat
  BY InitTypes
<1> HIDE DEF dma
<1>4. \A f \in 0..(TotalFrames(map) - 1) :
        f \in FreeAfterBitmap(map) <=>
          f \in UsableFrames(map) /\ ~HoldsBitmap(map, f)
  BY <1>3, BitmapRounding DEF FreeAfterBitmap
<1>5. ALLOCATOR.used = reserved
  BY <1>1, <1>2, <1>4
<1> QED
  BY <1>1, <1>2, <1>3, <1>5 DEF OwnershipInv, HandedOutExclusively, Frames

\* The frame found by allocate_frame exists and is free.
LEMMA NextFrameFree ==
  ASSUME OwnershipInv, HasFrame(ALLOCATOR)
  PROVE  NextFrame(ALLOCATOR) \in Frames \ ALLOCATOR.used
<1> DEFINE n == ALLOCATOR.total_frames
           i == Min(Hits(ALLOCATOR))
<1>1. n \in Nat /\ ALLOCATOR.last_alloc_idx \in Nat
  BY DEF OwnershipInv
<1>2. i \in Hits(ALLOCATOR)
  <2>1. Hits(ALLOCATOR) \subseteq Nat /\ Hits(ALLOCATOR) # {}
    BY <1>1 DEF Hits, HasFrame
  <2> QED BY <2>1, MinMember
<1> HIDE DEF i
<1>3. i \in 0..(n - 1) /\ Probe(ALLOCATOR, i) \notin ALLOCATOR.used
  BY <1>2 DEF Hits
<1>4. Probe(ALLOCATOR, i) \in 0..(n - 1)
  BY <1>1, <1>3 DEF Probe
<1> QED BY <1>3, <1>4 DEF NextFrame, i, Frames

\* Every step keeps the invariant.
LEMMA OwnershipStep ==
  ASSUME OwnershipInv, [Next]_vars
  PROVE  OwnershipInv'
<1>1. CASE allocate_frame
  <2> DEFINE f == NextFrame(ALLOCATOR)
  <2>1. f \in Frames \ ALLOCATOR.used
    BY <1>1, NextFrameFree DEF allocate_frame
  <2>2. f \in Nat
    BY <2>1 DEF Frames, OwnershipInv
  <2>3. /\ ALLOCATOR' = [ALLOCATOR EXCEPT !.used = @ \cup {f},
                                          !.free_frames = @ - 1,
                                          !.last_alloc_idx = f + 1]
        /\ owned' = owned \cup {f} /\ reserved' = reserved
    BY <1>1 DEF allocate_frame, Taken
  <2> HIDE DEF f
  <2>4. /\ DOMAIN ALLOCATOR' = DOMAIN ALLOCATOR
        /\ ALLOCATOR'.used = ALLOCATOR.used \cup {f}
        /\ ALLOCATOR'.last_alloc_idx = f + 1
        /\ ALLOCATOR'.total_frames = ALLOCATOR.total_frames
        /\ ALLOCATOR' = [x \in DOMAIN ALLOCATOR' |-> ALLOCATOR'[x]]
    BY <2>3, Zenon DEF OwnershipInv
  <2>5. f \notin owned /\ f \notin reserved
    BY <2>1 DEF OwnershipInv, HandedOutExclusively
  <2> QED
    BY <2>1, <2>2, <2>3, <2>4, <2>5 DEF OwnershipInv, HandedOutExclusively, Frames
<1>2. CASE \E f \in owned \cup (Frames \ ALLOCATOR.used) : deallocate_frame(f)
  <2>1. PICK f \in owned \cup (Frames \ ALLOCATOR.used) : deallocate_frame(f)
    BY <1>2
  <2>2. /\ f \in owned
        /\ ALLOCATOR' = [ALLOCATOR EXCEPT !.used = @ \ {f}, !.free_frames = @ + 1]
        /\ owned' = owned \ {f} /\ reserved' = reserved
    BY <2>1 DEF deallocate_frame
  <2>3. /\ DOMAIN ALLOCATOR' = DOMAIN ALLOCATOR
        /\ ALLOCATOR'.used = ALLOCATOR.used \ {f}
        /\ ALLOCATOR'.last_alloc_idx = ALLOCATOR.last_alloc_idx
        /\ ALLOCATOR'.total_frames = ALLOCATOR.total_frames
        /\ ALLOCATOR' = [x \in DOMAIN ALLOCATOR' |-> ALLOCATOR'[x]]
    BY <2>2, Zenon DEF OwnershipInv
  <2> QED
    BY <2>2, <2>3 DEF OwnershipInv, HandedOutExclusively, Frames
<1>3. CASE UNCHANGED <<ALLOCATOR, owned, reserved>>
  BY <1>3 DEF OwnershipInv, HandedOutExclusively, Frames
<1>4. (\E bytes \in DmaRequest : allocate_dma_frames(bytes)) \/ UNCHANGED vars =>
        UNCHANGED <<ALLOCATOR, owned, reserved>>
  BY DEF allocate_dma_frames, vars
<1> QED BY <1>1, <1>2, <1>3, <1>4 DEF Next

\* allocate_frame and deallocate_frame, after init: the bitmap records
\* exactly the frames with an owner and those set aside, and no frame is
\* both.
THEOREM OwnershipTheorem == Spec => []HandedOutExclusively
<1>1. OwnershipInv /\ [Next]_vars => OwnershipInv'
  BY OwnershipStep
<1>2. OwnershipInv => HandedOutExclusively
  BY DEF OwnershipInv
<1> QED BY OwnershipInit, <1>1, <1>2, PTL DEF Spec

-----------------------------------------------------------------------------
(* The DMA pool.                                                           *)

Multiple(x) == \E k \in Nat : x = k * PAGE_SIZE

\* Sums of multiples.
LEMMA MultipleSum ==
  ASSUME NEW x \in Nat, NEW y \in Nat, Multiple(x), Multiple(y)
  PROVE  Multiple(x + y)
<1>1. PICK k \in Nat : x = k * PAGE_SIZE
  BY DEF Multiple
<1>2. PICK l \in Nat : y = l * PAGE_SIZE
  BY DEF Multiple
<1>3. PAGE_SIZE \in Nat \ {0}
  BY MemoryMapAssumption
<1>4. x + y = (k + l) * PAGE_SIZE /\ k + l \in Nat
  BY <1>1, <1>2, <1>3
<1> QED BY <1>4 DEF Multiple

\* A multiple leaves no remainder.
LEMMA MultipleRemainder ==
  ASSUME NEW k \in Nat, NEW n \in Nat \ {0}
  PROVE  (k * n) % n = 0
OBVIOUS

\* The size in whole frames is a multiple, and no smaller than a size that
\* does not wrap.
LEMMA AlignedUp ==
  ASSUME NEW bytes \in Nat
  PROVE  /\ Aligned(bytes) \in Nat /\ Multiple(Aligned(bytes))
         /\ Fits(bytes) => bytes <= Aligned(bytes)
<1> DEFINE x == (bytes + PAGE_SIZE - 1) % Word
           q == x \div PAGE_SIZE
<1>1. PAGE_SIZE \in Nat \ {0} /\ Word \in Nat \ {0} /\ x \in Nat
  BY MemoryMapAssumption
<1>2. Fits(bytes) => x = bytes + PAGE_SIZE - 1
  BY <1>1 DEF Fits
<1> HIDE DEF x
<1>3. q \in Nat /\ x < PAGE_SIZE * (q + 1)
  BY <1>1, Division
<1>4. Aligned(bytes) = q * PAGE_SIZE
  BY DEF Aligned, x
<1> HIDE DEF q
<1>5. PAGE_SIZE * (q + 1) = q * PAGE_SIZE + PAGE_SIZE /\ q * PAGE_SIZE \in Nat
  BY <1>1, <1>3
<1>6. Fits(bytes) => bytes <= q * PAGE_SIZE
  BY <1>1, <1>2, <1>3, <1>5
<1> QED BY <1>3, <1>4, <1>5, <1>6 DEF Multiple

\* The inductive invariant: everything lies on frame boundaries, and a range
\* ends, rounded up, before the next one starts and before the free part of
\* the pool.
DmaInv ==
  /\ DMA_POOL_PHYS \in Nat /\ Multiple(DMA_POOL_PHYS)
  /\ DMA_POOL_USED \in Nat /\ Multiple(DMA_POOL_USED)
  /\ DMA_POOL_USED <= DmaPages * PAGE_SIZE
  /\ \A r \in dma_owned :
       /\ r.start \in Nat /\ r.length \in Nat /\ Multiple(r.start)
       /\ DMA_POOL_PHYS <= r.start
       /\ r.start + Aligned(r.length) <= DMA_POOL_PHYS + DMA_POOL_USED
  /\ \A r, s \in dma_owned :
       r.start < s.start => r.start + Aligned(r.length) <= s.start

\* After init.
LEMMA DmaInit == Init => DmaInv
<1> SUFFICES ASSUME NEW map \in MemoryMap, init(map) PROVE DmaInv
  BY DEF Init
<1>1. /\ DMA_POOL_PHYS = DmaStart(map) * PAGE_SIZE
      /\ DMA_POOL_USED = 0 /\ dma_owned = {}
  BY DEF init
<1>2. PAGE_SIZE \in Nat \ {0} /\ DmaPages \in Nat \ {0}
  BY MemoryMapAssumption
<1>3. DmaStart(map) \in Nat
  <2>1. CASE DmaRuns(map) = {}
    BY <2>1 DEF DmaStart
  <2>2. CASE DmaRuns(map) # {}
    <3>1. DmaRuns(map) \subseteq Nat
      BY <1>2, InitTypes DEF DmaRuns
    <3> QED BY <2>2, <3>1, MinMember DEF DmaStart
  <2> QED BY <2>1, <2>2
<1>4. /\ DMA_POOL_PHYS \in Nat /\ Multiple(DMA_POOL_PHYS)
  BY <1>1, <1>2, <1>3 DEF Multiple
<1>5. Multiple(0) /\ DmaPages * PAGE_SIZE \in Nat
  BY <1>2 DEF Multiple
<1> QED BY <1>1, <1>4, <1>5 DEF DmaInv

\* Every step keeps it.
LEMMA DmaStep ==
  ASSUME DmaInv, [Next]_vars
  PROVE  DmaInv'
<1>1. CASE UNCHANGED <<DMA_POOL_PHYS, DMA_POOL_USED, dma_owned>>
  BY <1>1 DEF DmaInv
<1>2. ASSUME NEW bytes \in DmaRequest, allocate_dma_frames(bytes)
      PROVE  DmaInv'
  <2> DEFINE addr == DMA_POOL_PHYS + DMA_POOL_USED
             new == [start |-> addr, length |-> bytes]
  <2>1. bytes \in Nat
    BY MemoryMapAssumption
  <2>2. Aligned(bytes) \in Nat /\ Multiple(Aligned(bytes))
    BY <2>1, AlignedUp
  <2>3. /\ DMA_POOL_USED' = DMA_POOL_USED + Aligned(bytes)
        /\ DMA_POOL_USED' <= DmaPages * PAGE_SIZE
        /\ DMA_POOL_PHYS' = DMA_POOL_PHYS
        /\ dma_owned' = dma_owned \cup {new}
    BY <1>2 DEF allocate_dma_frames
  <2>4. /\ DMA_POOL_USED' \in Nat /\ Multiple(DMA_POOL_USED')
        /\ addr \in Nat /\ Multiple(addr)
    <3>1. /\ DMA_POOL_USED \in Nat /\ Multiple(DMA_POOL_USED)
          /\ DMA_POOL_PHYS \in Nat /\ Multiple(DMA_POOL_PHYS)
      BY DEF DmaInv
    <3>2. Multiple(DMA_POOL_USED + Aligned(bytes))
      BY <2>2, <3>1, MultipleSum
    <3>3. Multiple(DMA_POOL_PHYS + DMA_POOL_USED)
      BY <3>1, MultipleSum
    <3>4. addr \in Nat /\ DMA_POOL_USED + Aligned(bytes) \in Nat
      BY <2>2, <3>1
    <3> QED BY <2>3, <3>2, <3>3, <3>4
  <2>5. new.start = addr /\ new.length = bytes
    OBVIOUS
  <2> HIDE DEF new
  <2>6. \A r \in dma_owned : Aligned(r.length) \in Nat
    BY AlignedUp DEF DmaInv
  <2>7. \A r \in dma_owned' :
          /\ r.start \in Nat /\ r.length \in Nat /\ Multiple(r.start)
          /\ DMA_POOL_PHYS <= r.start
          /\ r.start + Aligned(r.length) <= DMA_POOL_PHYS + DMA_POOL_USED'
    BY <2>1, <2>2, <2>3, <2>4, <2>5, <2>6 DEF DmaInv
  <2>8. \A r \in dma_owned : r.start <= addr /\ r.start + Aligned(r.length) <= addr
    BY <2>4, <2>6 DEF DmaInv
  <2>9. \A r, s \in dma_owned' :
          r.start < s.start => r.start + Aligned(r.length) <= s.start
    BY <2>3, <2>4, <2>5, <2>7, <2>8 DEF DmaInv
  <2> QED BY <2>3, <2>4, <2>7, <2>9 DEF DmaInv
<1>3. \/ UNCHANGED <<DMA_POOL_PHYS, DMA_POOL_USED, dma_owned>>
      \/ \E bytes \in DmaRequest : allocate_dma_frames(bytes)
  BY Zenon DEF Next, allocate_frame, deallocate_frame, vars
<1> QED BY <1>1, <1>2, <1>3

\* The invariant implies the property.
LEMMA DmaInvImplies ==
  ASSUME DmaInv
  PROVE  DmaRangesDisjoint
<1>1. PAGE_SIZE \in Nat \ {0} /\ DmaPages \in Nat
  BY MemoryMapAssumption
<1>2. \A r \in dma_owned :
        /\ r.start \in Nat /\ r.length \in Nat
        /\ Aligned(r.length) \in Nat
        /\ Fits(r.length) => r.length <= Aligned(r.length)
  BY AlignedUp DEF DmaInv
<1>3. ASSUME NEW r \in dma_owned
      PROVE  /\ r.start % PAGE_SIZE = 0
             /\ DMA_POOL_PHYS <= r.start
             /\ Fits(r.length) =>
                  r.start + r.length <= DMA_POOL_PHYS + DmaPages * PAGE_SIZE
  <2>1. PICK k \in Nat : r.start = k * PAGE_SIZE
    BY DEF DmaInv, Multiple
  <2>2. r.start % PAGE_SIZE = 0
    BY <1>1, <2>1, MultipleRemainder
  <2>3. /\ DMA_POOL_PHYS \in Nat /\ DMA_POOL_USED \in Nat
        /\ DmaPages * PAGE_SIZE \in Nat /\ DMA_POOL_USED <= DmaPages * PAGE_SIZE
        /\ r.start + Aligned(r.length) <= DMA_POOL_PHYS + DMA_POOL_USED
        /\ DMA_POOL_PHYS <= r.start
    BY <1>1 DEF DmaInv
  <2> QED BY <1>2, <2>2, <2>3
<1>4. ASSUME NEW r \in dma_owned, NEW s \in dma_owned,
             r.length > 0, s.length > 0, Fits(r.length), r.start < s.start
      PROVE  (r.start + r.length - 1) \div PAGE_SIZE < s.start \div PAGE_SIZE
  <2> DEFINE x == r.start + r.length - 1
  <2>1. PICK k \in Nat : s.start = k * PAGE_SIZE
    BY DEF DmaInv, Multiple
  <2>2. r.start + Aligned(r.length) <= s.start
    BY <1>4 DEF DmaInv
  <2>3. x \in Nat /\ k * PAGE_SIZE \in Nat /\ x < k * PAGE_SIZE
    BY <1>2, <1>4, <2>1, <2>2
  <2> HIDE DEF x
  <2>4. ~(k <= x \div PAGE_SIZE)
    BY <1>1, <2>3, DivisionBound
  <2>5. k <= (k * PAGE_SIZE) \div PAGE_SIZE
    BY <1>1, <2>3, DivisionBound
  <2>6. x \div PAGE_SIZE \in Nat /\ (k * PAGE_SIZE) \div PAGE_SIZE \in Nat
    BY <1>1, <2>3, Division
  <2>7. x \div PAGE_SIZE < (k * PAGE_SIZE) \div PAGE_SIZE
    BY <2>4, <2>5, <2>6
  <2> QED BY <2>1, <2>7 DEF x
<1> QED BY <1>3, <1>4 DEF DmaRangesDisjoint

\* allocate_dma_frames hands out ranges of the pool that share no frame.
THEOREM DmaTheorem == Spec => []DmaRangesDisjoint
<1>1. DmaInv /\ [Next]_vars => DmaInv'
  BY DmaStep
<1>2. DmaInv => DmaRangesDisjoint
  BY DmaInvImplies
<1> QED BY DmaInit, <1>1, <1>2, PTL DEF Spec
=============================================================================
