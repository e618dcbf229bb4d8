------------------------------- MODULE Screen -------------------------------
(***************************************************************************)
(* What a console promises to its writers: ROWS lines of text, each with   *)
(* an end, a cursor, and a region at the bottom that scrolls.  Lines are   *)
(* independent: a write changes one line and the lines scroll as wholes.   *)
(*                                                                         *)
(* One thing is left open, as the code leaves it open: what stands between *)
(* the old end of a line and a character written further right.  And as in *)
(* the code, a tab changes nothing and positions count from the corner of  *)
(* the screen, whatever the region.                                        *)
(***************************************************************************)
EXTENDS Integers, Sequences

CONSTANTS ROWS, COLUMNS, Chars, LF, CR, TAB, Cells

VARIABLES text, cursorX, cursorY, top

vars == <<text, cursorX, cursorY, top>>

Row == 0 .. ROWS - 1
Column == 0 .. COLUMNS - 1

\* the lines that have n characters and agree with line as far as they can
Resized(line, n) ==
  {new \in [1 .. n -> Cells] : \A i \in 1 .. n : i <= Len(line) => new[i] = line[i]}

\* the lines that have ch in column x
Written(line, x, ch) ==
  {[new EXCEPT ![x + 1] = ch] :
     new \in Resized(line, IF x < Len(line) THEN Len(line) ELSE x + 1)}

\* the region moves up by n lines, and n empty lines come in at the bottom
Up(n) ==
  [r \in Row |-> IF r < top THEN text[r]
                 ELSE IF r + n < ROWS THEN text[r + n] ELSE <<>>]

Init ==
  /\ text = [r \in Row |-> <<>>]
  /\ cursorX = 0 /\ cursorY = 0 /\ top = 0

-----------------------------------------------------------------------------

\* the cursor has left the last line: the next write needs a line
MakeRoom ==
  /\ cursorY = ROWS
  /\ text' = Up(1)
  /\ cursorY' = ROWS - 1
  /\ UNCHANGED <<cursorX, top>>

\* a character goes where the cursor is, in lines t and row y
TypeOn(t, y, ch) ==
  \/ /\ ch \in Chars
     /\ \E line \in Written(t[y], cursorX, ch) : text' = [t EXCEPT ![y] = line]
     /\ cursorX' = (cursorX + 1) % COLUMNS
     /\ cursorY' = IF cursorX + 1 = COLUMNS THEN y + 1 ELSE y
  \/ /\ ch = LF
     /\ \E line \in Resized(t[y], cursorX) : text' = [t EXCEPT ![y] = line]
     /\ cursorX' = 0 /\ cursorY' = y + 1
  \/ /\ ch = CR
     /\ text' = t /\ cursorX' = 0 /\ cursorY' = y
  \/ /\ ch = TAB
     /\ text' = t /\ cursorX' = cursorX /\ cursorY' = y

Type(ch) ==
  /\ IF cursorY = ROWS THEN TypeOn(Up(1), ROWS - 1, ch)
                       ELSE TypeOn(text, cursorY, ch)
  /\ UNCHANGED top

\* a character goes to column x of line y; a line feed ends the line there
Place(ch, x, y) ==
  /\ \E line \in IF ch = LF THEN Resized(text[y], x) ELSE Written(text[y], x, ch) :
       text' = [text EXCEPT ![y] = line]
  /\ UNCHANGED <<cursorX, cursorY, top>>

\* line y starts with n characters ch
Fill(ch, n, y) ==
  /\ text' = [text EXCEPT ![y] = [i \in 1 .. (IF n > Len(@) THEN n ELSE Len(@)) |->
                                    IF i <= n THEN ch ELSE @[i]]]
  /\ UNCHANGED <<cursorX, cursorY, top>>

Clear ==
  /\ text' = [r \in Row |-> <<>>]
  /\ cursorX' = 0 /\ cursorY' = top
  /\ UNCHANGED top

ClearRegion ==
  /\ text' = Up(ROWS - top)
  /\ cursorX' = 0 /\ cursorY' = 0
  /\ UNCHANGED top

Scroll(n) ==
  /\ n < ROWS - top
  /\ text' = Up(n)
  /\ UNCHANGED <<cursorX, cursorY, top>>

MoveTo(x, y) == cursorX' = x /\ cursorY' = y /\ UNCHANGED <<text, top>>

SetTop(t) ==
  /\ top' = t /\ cursorX' = 0 /\ cursorY' = t
  /\ UNCHANGED text

\* a line ends elsewhere, which no writer asked for: not a step of Next
LoseEnd ==
  /\ \E y \in Row, n \in 0 .. COLUMNS :
       \E line \in Resized(text[y], n) : text' = [text EXCEPT ![y] = line]
  /\ UNCHANGED <<cursorX, cursorY, top>>

Next ==
  \/ MakeRoom
  \/ \E ch \in Chars \cup {LF, CR, TAB} : Type(ch)
  \/ \E ch \in Chars \cup {LF}, x \in Column, y \in Row : Place(ch, x, y)
  \/ \E ch \in Chars, y \in Row : Fill(ch, COLUMNS, y)
  \/ Clear
  \/ ClearRegion
  \/ \E n \in 1 .. ROWS : Scroll(n)
  \/ \E x \in Column, y \in Row : MoveTo(x, y)
  \/ \E t \in Row : SetTop(t)

Spec == Init /\ [][Next]_vars
=============================================================================
