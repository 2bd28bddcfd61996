--------------------------- MODULE TerminalProofs ---------------------------
(***************************************************************************)
(* The terminal shows a page of text, for every size of the framebuffer.   *)
(***************************************************************************)
EXTENDS Terminal, TLAPS

\* The cursor is always on the grid, left of the right edge, and so is every
\* glyph that was drawn.
OnGrid ==
  /\ \E k \in Nat : cursor_x = Margin + 8 * k /\ k < Columns
  /\ \E j \in Nat : cursor_y = Margin + 10 * j
  /\ \A p \in DOMAIN drawn : \E l, c \in Nat \ {0} : p = CellAt(l, c)

\* Drawing on the grid changes one cell of the page and no other.
LEMMA DrawOneCell ==
  ASSUME NEW k \in Nat, NEW j \in Nat, NEW ch, OnGrid,
         Draw(Margin + 8 * k, Margin + 10 * j, ch)
  PROVE  /\ \A p \in DOMAIN drawn' : \E l, c \in Nat \ {0} : p = CellAt(l, c)
         /\ \A l \in 1..LinesShown, c \in 1..Columns :
              ShownAt(l, c)' = IF l = j + 1 /\ c = k + 1 THEN Glyph(ch) ELSE ShownAt(l, c)
PROOF
<1> DEFINE x == Margin + 8 * k
           y == Margin + 10 * j
           kept == {p \in DOMAIN drawn : Apart(p[1], x) >= 8 \/ Apart(p[2], y) >= 8}
           new == IF y + 8 <= Height THEN {<<x, y>>} ELSE {}
<1>1. drawn' = [p \in kept \cup new |-> IF p = <<x, y>> THEN Glyph(ch) ELSE drawn[p]]
  BY DEF Draw
<1>2. DOMAIN drawn' = kept \cup new
  BY <1>1
<1>3. <<x, y>> = CellAt(j + 1, k + 1)
  BY DEF CellAt, Margin
<1>4. \A p \in DOMAIN drawn' : \E l, c \in Nat \ {0} : p = CellAt(l, c)
  <2> SUFFICES ASSUME NEW p \in DOMAIN drawn'
               PROVE  \E l, c \in Nat \ {0} : p = CellAt(l, c)
    OBVIOUS
  <2>1. CASE p \in kept
    BY <2>1 DEF OnGrid
  <2>2. CASE p \in new
    <3>1. p = CellAt(j + 1, k + 1)
      BY <2>2, <1>3
    <3> QED
      BY <3>1
  <2> QED
    BY <1>2, <2>1, <2>2
<1>5. ASSUME NEW l \in 1..LinesShown, NEW c \in 1..Columns
      PROVE  ShownAt(l, c)' = IF l = j + 1 /\ c = k + 1 THEN Glyph(ch) ELSE ShownAt(l, c)
  <2> DEFINE cell == CellAt(l, c)
  <2>0. /\ l \in Nat \ {0} /\ c \in Nat \ {0}
        /\ cell = <<Margin + 8 * (c - 1), Margin + 10 * (l - 1)>>
        /\ ShownAt(l, c)' = IF cell \in DOMAIN drawn' THEN drawn'[cell] ELSE "space"
        /\ ShownAt(l, c) = IF cell \in DOMAIN drawn THEN drawn[cell] ELSE "space"
    BY DEF ShownAt, CellAt
  <2>1. CASE l = j + 1 /\ c = k + 1
    <3>1. cell = <<x, y>>
      BY <2>1, <1>3
    <3>2. y + 8 <= Height
      BY <2>1, SizeAssumption DEF LinesShown, Margin
    <3>3. cell \in DOMAIN drawn' /\ drawn'[cell] = Glyph(ch)
      BY <3>1, <3>2, <1>1, <1>2
    <3> QED
      BY <3>3, <2>0, <2>1
  <2>2. CASE ~(l = j + 1 /\ c = k + 1)
    <3>1. Apart(Margin + 8 * (c - 1), x) >= 8 \/ Apart(Margin + 10 * (l - 1), y) >= 8
      BY <2>2, <2>0 DEF Apart, Margin
    <3>2. cell # <<x, y>>
      BY <2>2, <2>0 DEF Margin
    <3>3. cell[1] = Margin + 8 * (c - 1) /\ cell[2] = Margin + 10 * (l - 1)
      BY <2>0
    <3>4. cell \in DOMAIN drawn' <=> cell \in DOMAIN drawn
      BY <3>1, <3>2, <3>3, <1>2
    <3>5. cell \in DOMAIN drawn' => drawn'[cell] = drawn[cell]
      BY <3>2, <1>1, <1>2
    <3> HIDE DEF cell
    <3> QED
      BY <3>4, <3>5, <2>0, <2>2
  <2> QED
    BY <2>1, <2>2
<1> QED
  BY <1>4, <1>5

\* The same, in the words of the page.
LEMMA DrawShows ==
  ASSUME NEW k \in Nat, NEW j \in Nat, NEW ch, OnGrid,
         Draw(Margin + 8 * k, Margin + 10 * j, ch)
  PROVE  Grid!Show(j + 1, k + 1, Glyph(ch))
PROOF
<1> DEFINE page(p) == ShownAt(p[1], p[2])
<1>1. \A l \in 1..LinesShown, c \in 1..Columns :
        ShownAt(l, c)' = IF l = j + 1 /\ c = k + 1 THEN Glyph(ch) ELSE ShownAt(l, c)
  BY DrawOneCell
<1>2. ASSUME NEW p \in (1..LinesShown) \X (1..Columns)
      PROVE  ShownAt(p[1], p[2])' =
               IF p = <<j + 1, k + 1>> THEN Glyph(ch) ELSE ShownAt(p[1], p[2])
  <2>1. PICK l \in 1..LinesShown, c \in 1..Columns : p = <<l, c>>
    OBVIOUS
  <2> QED
    BY <1>1, <2>1
<1> QED
  BY <1>2, Zenon DEF Grid!Show, Grid!Page

\* The left end of a line is on the grid.
LEMMA ColumnsPositive == Columns \in Nat /\ Columns > 0
  BY SizeAssumption DEF Columns, Margin

\* A place on the grid that is left of the right edge.
LEMMA ToGrid ==
  ASSUME NEW k \in Nat, NEW j \in Nat, k < Columns,
         cursor_x' = Margin + 8 * k, cursor_y' = Margin + 10 * j,
         \A p \in DOMAIN drawn' : \E l, c \in Nat \ {0} : p = CellAt(l, c)
  PROVE  OnGrid'
  BY Zenon DEF OnGrid, CellAt, Columns, Margin

\* Every key event keeps to the grid and is a step of the page.
LEMMA KeyStep ==
  ASSUME OnGrid, NEW key \in Key, KeyEvent(key)
  PROVE  OnGrid' /\ Grid!GridNext
PROOF
<1>1. PICK k \in Nat : cursor_x = Margin + 8 * k /\ k < Columns
  BY DEF OnGrid
<1>2. PICK j \in Nat : cursor_y = Margin + 10 * j
  BY DEF OnGrid
<1> DEFINE line == (cursor_y - Margin) \div 10 + 1
           column == (cursor_x - Margin) \div 8 + 1
<1>3. line = j + 1 /\ column = k + 1
  BY <1>1, <1>2 DEF Margin
<1>4. Columns \in Nat /\ Columns > 0
  BY ColumnsPositive
<1>5. ASSUME Enter(key) PROVE OnGrid' /\ Grid!NewLine
  <2>1. cursor_x' = Margin + 8 * 0 /\ cursor_y' = Margin + 10 * (j + 1)
    BY <1>5, <1>2 DEF Enter, Margin
  <2>2. drawn' = drawn
    BY <1>5 DEF Enter
  <2>3. OnGrid'
    <3>1. \A p \in DOMAIN drawn' : \E l, c \in Nat \ {0} : p = CellAt(l, c)
      BY <2>2 DEF OnGrid
    <3>2. 0 \in Nat /\ j + 1 \in Nat /\ 0 < Columns
      BY <1>4
    <3> QED
      BY <2>1, <3>1, <3>2, ToGrid
  <2>4. line' = line + 1 /\ column' = 1
    BY <2>1, <1>3 DEF Margin
  <2>5. \A l, c : ShownAt(l, c)' = ShownAt(l, c)
    BY <2>2 DEF ShownAt, CellAt
  <2> QED
    BY <2>3, <2>4, <2>5 DEF Grid!NewLine
<1>6. ASSUME Backspace(key) PROVE OnGrid' /\ Grid!Erase
  <2>0. cursor_x > Margin /\ cursor_x' = cursor_x - 8 /\ cursor_y' = cursor_y
    BY <1>6 DEF Backspace
  <2>1. k >= 1 /\ k - 1 \in Nat
    BY <2>0, <1>1 DEF Margin
  <2>2. cursor_x' = Margin + 8 * (k - 1) /\ cursor_y' = cursor_y
        /\ cursor_x - 8 = Margin + 8 * (k - 1)
    BY <2>0, <1>1 DEF Margin
  <2>3. Draw(Margin + 8 * (k - 1), Margin + 10 * j, " ")
    BY <1>6, <1>2, <2>2 DEF Backspace
  <2>4. OnGrid'
    <3>1. \A p \in DOMAIN drawn' : \E l, c \in Nat \ {0} : p = CellAt(l, c)
      BY <2>1, <2>3, DrawOneCell
    <3>2. k - 1 < Columns
      BY <2>1, <1>1, <1>4
    <3> QED
      BY <2>1, <2>2, <1>2, <3>1, <3>2, ToGrid
  <2>5. column > 1 /\ column' = column - 1 /\ line' = line /\ column - 1 = (k - 1) + 1
    BY <2>1, <2>2, <1>3 DEF Margin
  <2>6. Glyph(" ") = "space"
    BY DEF Glyph
  <2>7. Grid!Show(j + 1, (k - 1) + 1, "space")
    BY <2>1, <2>3, <2>6, DrawShows
  <2> QED
    BY <2>4, <2>5, <2>7, <1>3 DEF Grid!Erase
<1>7. ASSUME Character(key) PROVE OnGrid' /\ Grid!Put(Glyph(key))
  <2>1. Draw(Margin + 8 * k, Margin + 10 * j, key)
    BY <1>7, <1>1, <1>2 DEF Character
  <2>2. Grid!Show(line, column, Glyph(key))
    BY <2>1, <1>3, DrawShows
  <2>5. \A p \in DOMAIN drawn' : \E l, c \in Nat \ {0} : p = CellAt(l, c)
    BY <2>1, DrawOneCell
  <2>3. CASE k + 1 = Columns
    <3>1. cursor_x + 8 + 8 > Width
      BY <2>3, <1>1, SizeAssumption DEF Columns, Margin
    <3>2. cursor_x' = Margin + 8 * 0 /\ cursor_y' = Margin + 10 * (j + 1)
      BY <3>1, <1>7, <1>2 DEF Character, Margin
    <3>3. column = Columns /\ line' = line + 1 /\ column' = 1
      BY <3>2, <2>3, <1>3 DEF Margin
    <3>4. OnGrid'
      <4>1. 0 \in Nat /\ j + 1 \in Nat /\ 0 < Columns
        BY <1>4
      <4> QED
        BY <4>1, <3>2, <2>5, ToGrid
    <3> QED
      BY <3>3, <3>4, <2>2 DEF Grid!Put
  <2>4. CASE k + 1 # Columns
    <3>1. ~(cursor_x + 8 + 8 > Width) /\ k + 1 < Columns
      BY <2>4, <1>1, <1>4, SizeAssumption DEF Columns, Margin
    <3>2. cursor_x' = Margin + 8 * (k + 1) /\ cursor_y' = Margin + 10 * j
      BY <3>1, <1>7, <1>1, <1>2 DEF Character, Margin
    <3>3. column # Columns /\ line' = line /\ column' = column + 1
      BY <3>2, <2>4, <1>3 DEF Margin
    <3>4. OnGrid'
      <4>1. k + 1 \in Nat /\ k + 1 < Columns
        BY <3>1
      <4> QED
        BY <4>1, <3>2, <2>5, ToGrid
    <3> QED
      BY <3>3, <3>4, <2>2 DEF Grid!Put
  <2> QED
    BY <2>3, <2>4
<1>8. Character(key) => Glyph(key) \in {"A", "0", "space"}
  BY DEF Character, Printable, Key, Glyph
<1> QED
  BY <1>5, <1>6, <1>7, <1>8 DEF KeyEvent, Grid!GridNext

\* terminal_service.rs implements a page of text with (Width - 10) / 8 columns
\* for every size of the framebuffer: ShowsText, which the run checks for one.
THEOREM TerminalShowsText == Spec => ShowsText
PROOF
<1>1. Init => OnGrid /\ Grid!GridInit
  <2> SUFFICES ASSUME Init PROVE OnGrid /\ Grid!GridInit
    OBVIOUS
  <2>1. cursor_x = Margin + 8 * 0 /\ cursor_y = Margin + 10 * 0 /\ DOMAIN drawn = {}
    BY DEF Init, Margin
  <2>2. OnGrid
    BY <2>1, ColumnsPositive DEF OnGrid
  <2>3. (cursor_y - Margin) \div 10 + 1 = 1 /\ (cursor_x - Margin) \div 8 + 1 = 1
    BY <2>1 DEF Margin
  <2>4. \A l, c : ShownAt(l, c) = "space"
    BY <2>1 DEF ShownAt
  <2> QED
    BY <2>2, <2>3, <2>4 DEF Grid!GridInit, Grid!Page
<1>2. OnGrid /\ [Next]_termVars =>
        OnGrid' /\ [Grid!GridNext]_<<[p \in (1..LinesShown) \X (1..Columns) |->
                                        ShownAt(p[1], p[2])],
                                     (cursor_y - Margin) \div 10 + 1,
                                     (cursor_x - Margin) \div 8 + 1>>
  <2>1. CASE Next
    BY <2>1, KeyStep DEF Next
  <2>2. CASE UNCHANGED termVars
    BY <2>2 DEF termVars, OnGrid, CellAt, ShownAt, Columns
  <2> QED
    BY <2>1, <2>2
<1> QED
  BY <1>1, <1>2, PTL DEF Spec, ShowsText, Grid!GridSpec
=============================================================================
