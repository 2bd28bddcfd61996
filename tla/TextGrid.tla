------------------------------ MODULE TextGrid ------------------------------
(***************************************************************************)
(* What the terminal promises: a page of Lines lines of Columns characters *)
(* and a place where the next character goes.  A full line continues on    *)
(* the next one, a character can be erased until its line is left, and     *)
(* what is typed below the last line is not shown.                         *)
(***************************************************************************)
EXTENDS Naturals

CONSTANTS Columns, LinesShown, Characters, Blank

VARIABLES page, line, column

Page == (1..LinesShown) \X (1..Columns)

GridInit ==
  /\ page = [p \in Page |-> Blank]
  /\ line = 1 /\ column = 1

Show(l, c, ch) ==
  page' = [p \in Page |-> IF p = <<l, c>> THEN ch ELSE page[p]]

Put(ch) ==
  /\ Show(line, column, ch)
  /\ IF column = Columns THEN line' = line + 1 /\ column' = 1
     ELSE column' = column + 1 /\ UNCHANGED line

NewLine == line' = line + 1 /\ column' = 1 /\ UNCHANGED page

Erase ==
  /\ column > 1
  /\ column' = column - 1
  /\ Show(line, column - 1, Blank)
  /\ UNCHANGED line

GridNext == NewLine \/ Erase \/ \E ch \in Characters : Put(ch)

GridSpec == GridInit /\ [][GridNext]_<<page, line, column>>
=============================================================================
