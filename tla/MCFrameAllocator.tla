-------------------------- MODULE MCFrameAllocator --------------------------
(* Memory maps for model checking FrameAllocator.                          *)
EXTENDS FrameAllocator

\* Three adjacent entries above address MCBase: usable ones of 2 or 5 frames,
\* others that end within a frame or are large enough for the bitmap to need
\* a second frame.  Maps with more than MCMaxUsable usable frames are left
\* out.
MCBase == 2

MCMaxUsable == 9

MCEntries ==
  [length : {4, 10}, type : {"USABLE"}]
    \cup [length : {3, 24}, type : {"ACPI_NVS", "RESERVED"}]

RoundUp(n) == ((n + PAGE_SIZE - 1) \div PAGE_SIZE) * PAGE_SIZE

MCMemoryMap ==
  LET At(base, e) == [base |-> base, length |-> e.length, type |-> e.type]
  IN  {map \in
      {LET b2 == RoundUp(MCBase + a.length)
           b3 == RoundUp(b2 + b.length)
       IN  <<At(MCBase, a), At(b2, b), At(b3, c)>> :
         a \in MCEntries, b \in MCEntries, c \in MCEntries} :
      Cardinality(UsableFrames(map)) <= MCMaxUsable}

\* The last is rounded past the end of a word.
MCDmaRequest == {0, 1, 3, Word - 1}
=============================================================================
