---------------------------- MODULE MCUserMemory ----------------------------
(* Constants for model checking UserMemory.                                *)
EXTENDS UserMemory

\* Memory for one process and a few grants, and for two processes.
MCMemoryMap ==
  {<<[base |-> PAGE_SIZE, length |-> n * PAGE_SIZE, type |-> "USABLE"]>> :
     n \in {14, 22}}

\* A segment that starts and ends within pages, with less in the file than
\* in memory, followed by one on the next page.
MCImage ==
  {<<[vaddr |-> 1, memsz |-> 6, offset |-> 11, filesz |-> 4],
     [vaddr |-> 10, memsz |-> 2, offset |-> 20, filesz |-> 2]>>}

\* Device memory beyond the end of RAM that fills more than a window, its
\* end within a frame.
MCBootRange == [start |-> 50 * PAGE_SIZE, length |-> 2 * PAGE_SIZE + 1]

MCDmaRequest == {5}

MCMapRequest == {[offset |-> 0, length |-> 0], [offset |-> 4, length |-> 1]}
=============================================================================
