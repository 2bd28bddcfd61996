------------------------------ MODULE Terminal ------------------------------
(***************************************************************************)
(* terminal_service: the reaction to each key event it receives.  A        *)
(* character is drawn as an 8 by 8 glyph at the cursor, in pixels; drawing *)
(* clips what lies below the framebuffer.                                  *)
(***************************************************************************)
EXTENDS Naturals

CONSTANTS Width, Height,  \* of the framebuffer, in pixels
          MaxY            \* bound on the cursor, which has none in the code

ASSUME SizeAssumption == Width \in Nat /\ Width >= 18 /\ Height \in Nat

VARIABLES
  cursor_x, cursor_y,
  drawn      \* the glyph at each pixel position where one was drawn

termVars == <<cursor_x, cursor_y, drawn>>

\* Keys the keyboard service sends: Enter, Backspace, Tab and characters.
Key == {"Enter", "Backspace", "Tab", "a", "B", "7", " "}

\* event.key >= 32 && event.key <= 126
Printable == Key \ {"Enter", "Backspace", "Tab"}

\* get_glyph: one glyph for all letters, one for all digits.
Glyph(c) == CASE c \in {"a", "B"} -> "A" [] c = "7" -> "0" [] c = " " -> "space"

Margin == 10

Init == cursor_x = Margin /\ cursor_y = Margin /\ drawn = [p \in {} |-> "space"]

Apart(a, b) == IF a < b THEN b - a ELSE a - b

\* draw_char: all 64 pixels are set, so what they overlap is gone; rows that
\* do not fit into the framebuffer are skipped.
Draw(x, y, c) ==
  LET kept == {p \in DOMAIN drawn : Apart(p[1], x) >= 8 \/ Apart(p[2], y) >= 8}
      new  == IF y + 8 <= Height THEN {<<x, y>>} ELSE {}
  IN  drawn' = [p \in kept \cup new |-> IF p = <<x, y>> THEN Glyph(c) ELSE drawn[p]]

Enter(key) ==
  /\ key = "Enter"
  /\ cursor_y < MaxY
  /\ cursor_x' = Margin
  /\ cursor_y' = cursor_y + 10
  /\ UNCHANGED drawn

\* Mutant: the margin is not respected.
BackspaceAnywhere(key) ==
  /\ key = "Backspace"
  /\ cursor_x >= 8
  /\ cursor_x' = cursor_x - 8
  /\ Draw(cursor_x - 8, cursor_y, " ")
  /\ UNCHANGED cursor_y

Backspace(key) ==
  /\ key = "Backspace"
  /\ cursor_x > Margin
  /\ cursor_x' = cursor_x - 8
  /\ Draw(cursor_x - 8, cursor_y, " ")
  /\ UNCHANGED cursor_y

Character(key) ==
  /\ key \in Printable
  /\ cursor_y < MaxY
  /\ Draw(cursor_x, cursor_y, key)
  /\ IF cursor_x + 8 + 8 > Width
     THEN cursor_x' = Margin /\ cursor_y' = cursor_y + 10
     ELSE cursor_x' = cursor_x + 8 /\ UNCHANGED cursor_y

KeyEvent(key) == Enter(key) \/ Backspace(key) \/ Character(key)

Next == \E key \in Key : KeyEvent(key)

Spec == Init /\ [][Next]_termVars

-----------------------------------------------------------------------------
\* The page that the pixels show: as many characters as fit to the right and
\* below the margin, each at its place.
Columns == (Width - Margin) \div 8
LinesShown == IF Height < 8 THEN 0 ELSE (Height - 8) \div 10

CellAt(l, c) == <<Margin + 8 * (c - 1), Margin + 10 * (l - 1)>>

ShownAt(l, c) ==
  IF CellAt(l, c) \in DOMAIN drawn THEN drawn[CellAt(l, c)] ELSE "space"

Grid == INSTANCE TextGrid WITH
          Characters <- {"A", "0", "space"},
          Blank <- "space",
          page <- [p \in (1..LinesShown) \X (1..Columns) |-> ShownAt(p[1], p[2])],
          line <- (cursor_y - Margin) \div 10 + 1,
          column <- (cursor_x - Margin) \div 8 + 1

\* The terminal's pixel arithmetic amounts to a page of text: no glyph lands
\* on another or across the right edge, a wrapped line starts at the margin,
\* and Backspace takes back exactly the last character of its line.
ShowsText == Grid!GridSpec
=============================================================================
