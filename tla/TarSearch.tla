------------------------------ MODULE TarSearch ------------------------------
(***************************************************************************)
(* The kernel's search for a program in the initial archive: find_file     *)
(* walks the archive from header to header.  An archive is a sequence of   *)
(* blocks of 512 bytes as tar -H ustar writes them; the blocks of a        *)
(* member's data hold anything, the image of another header included.      *)
(***************************************************************************)
EXTENDS Integers, Sequences, SequencesExt

CONSTANTS Names,      \* the names of members, and the names searched for
          Sizes,      \* the sizes of members in bytes
          MaxMembers  \* bound: members in an archive

Block == 512

\* Bytes of a header: NUL and space, the digits "0" and "7", and "5", the type
\* flag of a directory.
NUL == 0
SP == 32
Zero == 48
Seven == 55
Directory == 53

\* The size field as tar writes it: octal digits with zeros in front, then a
\* NUL or a space.  Four digits of the field's eleven are enough for Sizes.
SizeField(n, end) ==
  [i \in 1 .. 4 |-> Zero + ((n \div 8^(4 - i)) % 8)] \o <<end>>

Header(title, n, end, flag) ==
  [first |-> 1, name |-> title, size |-> SizeField(n, end), flag |-> flag]

\* A block whose first byte is 0.
ZeroBlock == [first |-> 0, name |-> "", size |-> <<>>, flag |-> NUL]

\* What a member's data blocks look like to a reader that takes them for
\* headers.
DataBlocks == {ZeroBlock} \cup {Header(n, 1, NUL, Zero) : n \in Names}

\* Regular files (flag "0", or NUL in old archives) and directories.
Members ==
  [name : Names, size : Sizes, flag : {Zero, NUL}, end : {NUL, SP},
   data : DataBlocks]
    \cup [name : Names, size : {0}, flag : {Directory}, end : {NUL},
          data : {ZeroBlock}]

DataLength(m) == (m.size + Block - 1) \div Block

\* The blocks of one member, and the archive: the members and two zero
\* blocks.
Written(m) ==
  <<Header(m.name, m.size, m.end, m.flag)>>
    \o [i \in 1 .. DataLength(m) |-> m.data]

Archive(ms) == FlattenSeq([i \in DOMAIN ms |-> Written(ms[i])])
                 \o <<ZeroBlock, ZeroBlock>>

-----------------------------------------------------------------------------
VARIABLES members, \* what the archive was written from
          archive,    \* the archive's blocks
          name,    \* the name searched for
          offset,
          result   \* "searching", None or the slice found

tarVars == <<members, archive, name, offset, result>>

None == [start |-> 0, size |-> 0]
Slice(start, size) == [start |-> start, size |-> size]
Searching == [start |-> -1, size |-> 0]

TarInit ==
  /\ members \in BoundedSeq(Members, MaxMembers)
  /\ archive = Archive(members)
  /\ name \in Names
  /\ offset = 0
  /\ result = Searching

\* The digits of a size field: the bytes before the first NUL or space,
\* without those that are no octal digits.
Digits(field) ==
  LET ends == {i \in DOMAIN field : field[i] \in {NUL, SP}}
      stop == IF ends = {} THEN Len(field) + 1
                           ELSE CHOOSE i \in ends : \A j \in ends : i <= j
  IN SelectSeq(SubSeq(field, 1, stop - 1), LAMBDA b : b \in Zero .. Seven)

ParseSize(field) ==
  FoldLeft(LAMBDA size, b : size * 8 + (b - Zero), 0, Digits(field))

\* Mutant: a partly filled last block is not counted.
NextHeaderFull(size) == Block + (size \div Block) * Block

NextHeader(size) == Block + ((size + Block - 1) \div Block) * Block

Length == Len(archive) * Block

IsFile(header) == header.flag \in {Zero, NUL}

\* The loop is left: the archive is used up, or a zero block marks its end.
AtEnd == offset + Block > Length \/ archive[offset \div Block + 1].first = 0

\* One turn of the loop at a header, and the end of the loop.
VisitHeader ==
  LET header == archive[offset \div Block + 1]
      size == ParseSize(header.size)
      start == offset + Block
  IN /\ result = Searching
     /\ ~AtEnd
     /\ IF IsFile(header) /\ header.name = name
          THEN /\ result' = IF start + size <= Length THEN Slice(start, size)
                                                     ELSE None
               /\ UNCHANGED offset
          ELSE /\ offset' = offset + NextHeader(size)
               /\ UNCHANGED result
     /\ UNCHANGED <<members, archive, name>>

NotFound ==
  /\ result = Searching
  /\ AtEnd
  /\ result' = None
  /\ UNCHANGED <<members, archive, name, offset>>

TarNext == VisitHeader \/ NotFound
TarSpec == TarInit /\ [][TarNext]_tarVars /\ WF_tarVars(TarNext)

-----------------------------------------------------------------------------
(* Reference: what the archive's author asked to be found.                 *)

IsNamed(m) == m.flag # Directory /\ m.name = name

Reference ==
  LET named == {i \in DOMAIN members : IsNamed(members[i])}
      i == CHOOSE k \in named : \A j \in named : k <= j
      before == FlattenSeq([k \in 1 .. i - 1 |-> Written(members[k])])
  IN IF named = {} THEN None
                   ELSE Slice(Len(before) * Block + Block, members[i].size)

\* Every search comes to an end, and SYS_SPAWN gets the bytes of the first
\* regular file of that name and exactly those, or none when there is no such
\* file: the search is never led into the data of an earlier member, whatever
\* that data looks like, nor caught at a member without data.
FindsTheFile == <>(result = Reference)
=============================================================================
