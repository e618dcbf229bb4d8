---------------------------- MODULE ConsoleProofs ----------------------------
(***************************************************************************)
(* Proofs about the console's two halves, which share no state: its output *)
(* (VConsole) and, at the end, its input (Keyboard).                       *)
(*                                                                         *)
(* Output, for any size of the console and any scroll regions that reach   *)
(* its last line: rows that are not marked dirty stand on the screen, and  *)
(* the console implements Screen, except that redrawProcess's store can    *)
(* undo the end of a line.                                                 *)
(*                                                                         *)
(* The invariant says that no two rows of the settled console (the one     *)
(* Printer will leave with what it has begun) share a cell of the          *)
(* character table, wherever scrolling has moved them; that Printer's      *)
(* copies are those of the line it writes to; that while it scrolls the    *)
(* lines of the table are lines of the settled one, one of them twice; and *)
(* that redrawProcess's copy of a line is only out of date when the row is *)
(* in missed.                                                              *)
(***************************************************************************)
EXTENDS VConsole, FiniteSetTheorems, SequenceTheorems, TLAPS

Storage == 0 .. ROWS * COLUMNS - 1
Lines == [offset : Nat, length : 0 .. COLUMNS, dirty : BOOLEAN]
Consoles == [cursorX : Column, cursorY : 0 .. ROWS, scrollStart : 0 .. ROWS - 2,
             scrollEnd : {ROWS}, lineTable : [Row -> Lines],
             charTable : [Storage -> Cells]]

\* every row has COLUMNS cells to itself
Apart(t) ==
  /\ \A r \in Row, i \in Column : t[r].offset + i \in Storage
  /\ \A r, s \in Row : r # s =>
       \A i, j \in Column : t[r].offset + i # t[s].offset + j

Well(c) == c \in Consoles /\ Apart(c.lineTable)

\* lines that show the same cells
Twins(k, l) == k.offset = l.offset /\ k.length = l.length

\* where Printer can be in vcon_putchar, and its copies
Typeable == Chars \cup {LF, CR, TAB}
Printers == [at : {"take", "put", "load", "cell", "mark"}, row : Row, col : Column,
             line : Lines, first : Lines, ch : Typeable]

\* Printer's copies are those of the console c and of the line it writes to,
\* and a cell that it has stored is still there.
Good(c, p) ==
  /\ p \in Printers /\ p.col = c.cursorX
  /\ p.at \in {"take", "put"} =>
       c.cursorY = ROWS /\ c.scrollStart <= p.row /\ p.first.dirty
  /\ p.at = "take" => p.row + 1 \in Row
  /\ p.at \in {"load", "cell", "mark"} => p.row = c.cursorY
  /\ p.at \in {"cell", "mark"} => p.line.offset = c.lineTable[p.row].offset
  /\ p.at = "cell" => p.ch \in Chars
  /\ p.at = "mark" /\ p.ch \in Chars => c.charTable[p.line.offset + p.col] = p.ch

\* While Printer scrolls the region from line top on, the line table t has one
\* line of the region twice.  All its lines are ones of the finished table u.
Aliased(t, u, p, top) ==
  \A r \in Row : \E s \in Row :
     /\ t[r].offset = u[s].offset
     /\ s = r \/ (p.at \in {"take", "put"} /\ r >= top /\ s >= top)

Printing ==
  ~Alone => /\ ~autoflush /\ printer = <<printer[1]>>
            /\ Good(con, printer[1])
            /\ Aliased(con.lineTable, Settled.lineTable, printer[1], con.scrollStart)

Drawing ==
  redraw.row \notin missed =>
    /\ redraw.at = "draw" => Twins(redraw.line, con.lineTable[redraw.row])
    /\ redraw.at \in {"load", "store"} => vga[redraw.row] = Text(con, redraw.row)
    /\ redraw.at = "store" => redraw.line.length = con.lineTable[redraw.row].length

Walks == [at : {"sleep", "test", "draw", "load", "store"}, row : Row, line : Lines]
Typed ==
  /\ vga = [r \in Row |-> vga[r]] /\ autoflush \in BOOLEAN
  /\ redraw \in Walks

IInv ==
  /\ con \in Consoles /\ Well(Settled) /\ Typed
  /\ Printing /\ Drawing /\ CleanRowsShown

-----------------------------------------------------------------------------
(* Rows and what they show *)

\* The sizes, as the provers need them.
LEMMA SizesAre ==
  /\ ROWS \in Nat /\ ROWS >= 2 /\ COLUMNS \in Nat /\ COLUMNS >= 1
  /\ 0 \in Row /\ ROWS - 1 \in Row /\ 0 \in Column
  /\ Row \subseteq Nat /\ Column \subseteq Nat
BY VConsoleAssumption DEF Row, Column

\* The control characters differ from each other and from those that print.
LEMMA Controls ==
  /\ LF # CR /\ LF # TAB /\ CR # TAB
  /\ \A ch \in Chars : ch # LF /\ ch # CR /\ ch # TAB
  /\ Chars \subseteq Cells
<1> DEFINE A == {Junk}
           B == A \cup {TAB}
           C == B \cup {CR}
           D == C \cup {LF}
<1>1. IsFiniteSet(A) /\ Cardinality(A) = 1
  BY FS_Singleton
<1> HIDE DEF A
<1>2. IsFiniteSet(B) /\ Cardinality(B) = IF TAB \in A THEN 1 ELSE 2
  BY <1>1, FS_AddElement
<1> HIDE DEF B
<1>3. IsFiniteSet(C) /\ Cardinality(C) = IF CR \in B THEN Cardinality(B) ELSE Cardinality(B) + 1
  BY <1>2, FS_AddElement
<1> HIDE DEF C
<1>4. Cardinality(D) = IF LF \in C THEN Cardinality(C) ELSE Cardinality(C) + 1
  BY <1>3, FS_AddElement
<1>5. D = {LF, CR, TAB, Junk}
  BY DEF A, B, C
<1>6. Cardinality(D) = 4
  BY <1>5, VConsoleAssumption
<1>7. CR \notin B /\ LF \notin C
  BY <1>2, <1>3, <1>4, <1>6
<1>8. LF # CR /\ LF # TAB /\ CR # TAB
  BY <1>7 DEF A, B, C
<1> QED BY <1>8, VConsoleAssumption DEF Cells

\* A line shows as many cells as it is long.
LEMMA ShowsIs ==
  ASSUME NEW c, Well(c), NEW r \in Row
  PROVE  /\ c.lineTable[r] \in Lines /\ c.lineTable[r].length \in 0 .. COLUMNS
         /\ DOMAIN Text(c, r) = 1 .. c.lineTable[r].length
         /\ Len(Text(c, r)) = c.lineTable[r].length
         /\ Text(c, r) \in Seq(Cells)
         /\ \A i \in 1 .. c.lineTable[r].length :
              Text(c, r)[i] = c.charTable[c.lineTable[r].offset + i - 1]
<1> DEFINE l == c.lineTable[r]
<1>1. l \in Lines /\ c.charTable \in [Storage -> Cells]
  BY DEF Well, Consoles
<1>2. l.length \in Nat /\ l.length <= COLUMNS /\ l.offset \in Nat
  BY <1>1, SizesAre DEF Lines
<1>3. \A i \in 1 .. l.length : l.offset + i - 1 \in Storage
  <2>1. ASSUME NEW i \in 1 .. l.length PROVE l.offset + i - 1 \in Storage
    <3>1. i - 1 \in Column
      BY <1>2, SizesAre DEF Column
    <3>2. l.offset + (i - 1) \in Storage
      BY <3>1 DEF Well, Apart
    <3> QED BY <1>2, <3>2
  <2> QED BY <2>1
<1>4. \A i \in 1 .. l.length : c.charTable[l.offset + i - 1] \in Cells
  BY <1>1, <1>3
<1>5. Text(c, r) = [i \in 1 .. l.length |-> c.charTable[l.offset + i - 1]]
  BY DEF Text, Shows
<1> HIDE DEF l
<1>6. /\ DOMAIN Text(c, r) = 1 .. l.length /\ Len(Text(c, r)) = l.length
      /\ Text(c, r) \in Seq(Cells)
      /\ \A i \in 1 .. l.length : Text(c, r)[i] = c.charTable[l.offset + i - 1]
  BY <1>2, <1>4, <1>5
<1> QED BY <1>1, <1>2, <1>6, SizesAre DEF l

\* Rows with the same cells show the same text; a row without cells is empty.
LEMMA SameText ==
  ASSUME NEW c, Well(c), NEW d, Well(d), NEW r \in Row, NEW s \in Row,
         Twins(c.lineTable[r], d.lineTable[s]),
         \A i \in Column : d.charTable[c.lineTable[r].offset + i]
                             = c.charTable[c.lineTable[r].offset + i]
  PROVE  Text(d, s) = Text(c, r)
<1> DEFINE l == c.lineTable[r]
<1>1. l.length \in 0 .. COLUMNS /\ l.offset \in Nat /\ l \in Lines
  BY ShowsIs DEF Lines
<1>2. /\ Text(c, r) = [i \in 1 .. l.length |-> c.charTable[l.offset + i - 1]]
      /\ Text(d, s) = [i \in 1 .. l.length |-> d.charTable[l.offset + i - 1]]
  BY DEF Text, Shows, Twins
<1>3. ASSUME NEW i \in 1 .. l.length
      PROVE  d.charTable[l.offset + i - 1] = c.charTable[l.offset + i - 1]
  <2>1. i - 1 \in Column /\ l.offset + (i - 1) = l.offset + i - 1
    BY <1>1, SizesAre DEF Column
  <2> QED BY <2>1
<1> HIDE DEF l
<1> QED BY <1>2, <1>3

\* A line of no length shows nothing.
LEMMA EmptyText ==
  ASSUME NEW c, Well(c), NEW r \in Row, c.lineTable[r].length = 0
  PROVE  Text(c, r) = <<>>
<1>1. Text(c, r) \in Seq(Cells) /\ Len(Text(c, r)) = 0
  BY ShowsIs
<1>2. \A seq \in Seq(Cells) : seq # <<>> => Len(seq) # 0
  BY EmptySeq
<1> QED BY <1>1, <1>2

\* What c.lineTable says about d's rows when d only moves whole lines.
LEMMA Permuted ==
  ASSUME NEW t \in [Row -> Lines], Apart(t), NEW u \in [Row -> Lines],
         NEW f \in [Row -> Row], \A r, s \in Row : r # s => f[r] # f[s],
         \A r \in Row : u[r].offset = t[f[r]].offset
  PROVE  Apart(u)
<1>1. ASSUME NEW r \in Row, NEW i \in Column PROVE u[r].offset + i \in Storage
  BY DEF Apart
<1>2. ASSUME NEW r \in Row, NEW s \in Row, r # s, NEW i \in Column, NEW j \in Column
      PROVE  u[r].offset + i # u[s].offset + j
  <2>1. f[r] # f[s] /\ f[r] \in Row /\ f[s] \in Row
    BY <1>2
  <2>2. t[f[r]].offset + i # t[f[s]].offset + j
    BY <2>1 DEF Apart
  <2> QED BY <2>2
<1> QED BY <1>1, <1>2 DEF Apart

\* a line that ends elsewhere, and one that is marked
Ended(l, n) == Line(l.offset, n, TRUE)
Marked(l) == [l EXCEPT !.dirty = TRUE]

\* Both keep their cells.
LEMMA EndedIs ==
  ASSUME NEW l \in Lines, NEW n \in 0 .. COLUMNS
  PROVE  /\ Ended(l, n) \in Lines /\ Ended(l, n).offset = l.offset
         /\ Ended(l, n).length = n /\ Ended(l, n).dirty
         /\ Marked(l) \in Lines /\ Twins(l, Marked(l)) /\ Marked(l).dirty
<1>1. /\ Ended(l, n) \in Lines /\ Ended(l, n).offset = l.offset
      /\ Ended(l, n).length = n /\ Ended(l, n).dirty
  BY DEF Ended, Line, Lines
<1>2. Marked(l) \in Lines /\ Twins(l, Marked(l)) /\ Marked(l).dirty
  BY DEF Marked, Lines, Twins
<1> QED BY <1>1, <1>2

\* What a writer does to the console: it stays well formed, and every line
\* that changes is marked.
Effect(c, d) ==
  /\ Well(d)
  /\ \A r \in Row : d.lineTable[r].dirty \/ (/\ d.lineTable[r] = c.lineTable[r]
                                              /\ Text(d, r) = Text(c, r))

\* Drawing everything at once only takes the marks away.
LEMMA CleanOK ==
  ASSUME NEW c, Well(c)
  PROVE  /\ Well(clean(c))
         /\ clean(c).cursorX = c.cursorX /\ clean(c).cursorY = c.cursorY
         /\ clean(c).scrollStart = c.scrollStart
         /\ \A r \in Row : /\ Text(clean(c), r) = Text(c, r)
                           /\ Twins(c.lineTable[r], clean(c).lineTable[r])
                           /\ ~clean(c).lineTable[r].dirty
<1> DEFINE d == clean(c)
           t == [r \in Row |-> [c.lineTable[r] EXCEPT !.dirty = FALSE]]
<1>1. c \in Consoles /\ Apart(c.lineTable) /\ c.lineTable \in [Row -> Lines]
  BY DEF Well, Consoles
<1>2. d = [c EXCEPT !.lineTable = t]
  BY DEF clean
<1>3. /\ t \in [Row -> Lines]
      /\ \A r \in Row : ~t[r].dirty /\ Twins(c.lineTable[r], t[r])
  BY <1>1 DEF Lines, Twins
<1> HIDE DEF d, t
<1>4. /\ d \in Consoles /\ d.lineTable = t /\ d.charTable = c.charTable
      /\ d.cursorX = c.cursorX /\ d.cursorY = c.cursorY /\ d.scrollStart = c.scrollStart
  BY <1>1, <1>2, <1>3 DEF Consoles
<1>5. Apart(d.lineTable)
  BY <1>1, <1>3, <1>4 DEF Apart, Twins
<1>6. Well(d)
  BY <1>4, <1>5 DEF Well
<1>7. \A r \in Row : Text(d, r) = Text(c, r)
  BY <1>3, <1>4, <1>6, SameText
<1> QED BY <1>3, <1>4, <1>6, <1>7 DEF d

-----------------------------------------------------------------------------
(* console.c and buffer.c *)

\* Lines from one row on are emptied.
LEMMA ClearLinesOK ==
  ASSUME NEW c, Well(c), NEW from \in Row
  PROVE  LET d == vcon_buf_clearLineTable(c, from, ROWS) IN
         /\ Effect(c, d) /\ d \in Consoles
         /\ d.cursorX = c.cursorX /\ d.cursorY = c.cursorY /\ d.scrollStart = c.scrollStart
         /\ \A r \in Row : Text(d, r) = IF r < from THEN Text(c, r) ELSE <<>>
<1> DEFINE d == vcon_buf_clearLineTable(c, from, ROWS)
           u == c.lineTable
           t == [r \in Row |-> IF from <= r /\ r < ROWS THEN Ended(u[r], 0) ELSE u[r]]
<1>1. c \in Consoles /\ Apart(u) /\ u \in [Row -> Lines]
  BY DEF Well, Consoles
<1>2. d = [c EXCEPT !.lineTable = t]
  BY DEF vcon_buf_clearLineTable, Ended
<1>3. \A r \in Row : t[r] = IF r < from THEN u[r] ELSE Ended(u[r], 0)
  BY SizesAre DEF Row
<1>4. \A r \in Row : /\ Ended(u[r], 0) \in Lines /\ Ended(u[r], 0).offset = u[r].offset
                     /\ Ended(u[r], 0).length = 0 /\ Ended(u[r], 0).dirty
  <2>1. 0 \in 0 .. COLUMNS
    BY SizesAre
  <2>2. \A r \in Row : u[r] \in Lines
    BY <1>1
  <2> HIDE DEF u, t, d
  <2> QED BY <2>1, <2>2, EndedIs
<1>5. t \in [Row -> Lines] /\ \A r \in Row : t[r].offset = u[r].offset
  BY <1>1, <1>3, <1>4
<1>6. d \in Consoles /\ d.lineTable = t /\ d.charTable = c.charTable
      /\ d.cursorX = c.cursorX /\ d.cursorY = c.cursorY /\ d.scrollStart = c.scrollStart
  <2> HIDE DEF t, d
  <2> QED BY <1>1, <1>2, <1>5 DEF Consoles
<1> HIDE DEF d, t
<1>7. Well(d)
  BY <1>1, <1>5, <1>6 DEF Well, Apart
<1>8. \A r \in Row : r < from => Text(d, r) = Text(c, r) /\ d.lineTable[r] = u[r]
  BY <1>3, <1>6, <1>7, SameText DEF Twins
<1>9. \A r \in Row : ~(r < from) => Text(d, r) = <<>> /\ d.lineTable[r].dirty
  BY <1>3, <1>4, <1>6, <1>7, EmptyText
<1>10. Effect(c, d)
  BY <1>7, <1>8, <1>9 DEF Effect
<1> QED BY <1>6, <1>8, <1>9, <1>10 DEF d

\* The cursor can be put anywhere.
LEMMA CursorOK ==
  ASSUME NEW c, Well(c), NEW d, d \in Consoles,
         d.lineTable = c.lineTable, d.charTable = c.charTable
  PROVE  Effect(c, d) /\ \A r \in Row : Text(d, r) = Text(c, r)
BY DEF Effect, Well, Text, Shows

\* Effects add up.
LEMMA EffectTrans ==
  ASSUME NEW c, NEW d, NEW e, Effect(c, d), Effect(d, e)
  PROVE  Effect(c, e)
BY DEF Effect

\* The whole console is cleared.
LEMMA ClearOK ==
  ASSUME NEW c, Well(c)
  PROVE  LET d == vcon_clear(c) IN
         /\ Effect(c, d) /\ \A r \in Row : Text(d, r) = <<>>
         /\ d.cursorX = 0 /\ d.cursorY = c.scrollStart /\ d.scrollStart = c.scrollStart
<1> DEFINE b == vcon_buf_clearLineTable(c, 0, ROWS)
           d == vcon_clear(c)
<1>1. /\ Effect(c, b) /\ b \in Consoles /\ b.scrollStart = c.scrollStart
      /\ \A r \in Row : Text(b, r) = <<>>
  BY SizesAre, ClearLinesOK
<1>2. d = [b EXCEPT !.cursorX = 0, !.cursorY = c.scrollStart]
  BY DEF vcon_clear
<1>3. c.scrollStart \in 0 .. ROWS
  BY SizesAre DEF Well, Consoles
<1> HIDE DEF b, d
<1>4. /\ d \in Consoles /\ d.lineTable = b.lineTable /\ d.charTable = b.charTable
      /\ d.cursorX = 0 /\ d.cursorY = c.scrollStart /\ d.scrollStart = c.scrollStart
  BY <1>1, <1>2, <1>3, SizesAre DEF Consoles
<1>5. Effect(b, d) /\ \A r \in Row : Text(d, r) = Text(b, r)
  BY <1>1, <1>4, CursorOK DEF Effect
<1> QED BY <1>1, <1>4, <1>5, EffectTrans DEF d

\* The scroll region is cleared.
LEMMA ClearScrollOK ==
  ASSUME NEW c, Well(c)
  PROVE  LET d == vcon_clearScroll(c) IN
         /\ Effect(c, d)
         /\ \A r \in Row : Text(d, r) = IF r < c.scrollStart THEN Text(c, r) ELSE <<>>
         /\ d.cursorX = 0 /\ d.cursorY = 0 /\ d.scrollStart = c.scrollStart
<1> DEFINE b == vcon_buf_clearLineTable(c, c.scrollStart, ROWS)
           d == vcon_clearScroll(c)
<1>1. c.scrollStart \in Row /\ c.scrollEnd = ROWS /\ 0 \in 0 .. ROWS
  BY SizesAre DEF Well, Consoles, Row
<1>2. /\ Effect(c, b) /\ b \in Consoles /\ b.scrollStart = c.scrollStart
      /\ \A r \in Row : Text(b, r) = IF r < c.scrollStart THEN Text(c, r) ELSE <<>>
  BY <1>1, ClearLinesOK
<1>3. d = [b EXCEPT !.cursorX = 0, !.cursorY = 0]
  BY <1>1 DEF vcon_clearScroll
<1> HIDE DEF b, d
<1>4. /\ d \in Consoles /\ d.lineTable = b.lineTable /\ d.charTable = b.charTable
      /\ d.cursorX = 0 /\ d.cursorY = 0 /\ d.scrollStart = c.scrollStart
  BY <1>1, <1>2, <1>3, SizesAre DEF Consoles
<1>5. Effect(b, d) /\ \A r \in Row : Text(d, r) = Text(b, r)
  BY <1>2, <1>4, CursorOK DEF Effect
<1> QED BY <1>2, <1>4, <1>5, EffectTrans DEF d

\* The region moves up; its first lines come in, emptied, at the bottom.
LEMMA ScrollOK ==
  ASSUME NEW c, Well(c), NEW n \in 1 .. ROWS, n < ROWS - c.scrollStart
  PROVE  LET d == vcon_scroll(c, n) IN
         /\ Effect(c, d) /\ d \in Consoles
         /\ d.cursorX = c.cursorX /\ d.cursorY = c.cursorY /\ d.scrollStart = c.scrollStart
         /\ \A r \in Row : Text(d, r) = IF r < c.scrollStart THEN Text(c, r)
                                        ELSE IF r + n < ROWS THEN Text(c, r + n) ELSE <<>>
<1> DEFINE d == vcon_scroll(c, n)
           u == c.lineTable
           top == c.scrollStart
           stop == ROWS - n
           f == [r \in Row |-> IF r < top THEN r ELSE IF r < stop THEN r + n
                               ELSE r - stop + top]
           t == [r \in Row |-> IF r < top \/ r >= ROWS THEN u[r]
                               ELSE IF r < stop THEN Marked(u[r + n])
                               ELSE Ended(u[r - stop + top], 0)]
<1>1. /\ c \in Consoles /\ Apart(u) /\ u \in [Row -> Lines]
      /\ top \in Nat /\ top <= ROWS - 2 /\ c.scrollEnd = ROWS
  BY SizesAre DEF Well, Consoles
<1>2. d = [c EXCEPT !.lineTable = t]
  <2>1. ~(n >= ROWS - top)
    BY <1>1, SizesAre
  <2> QED BY <1>1, <2>1 DEF vcon_scroll, Ended, Marked
<1> HIDE DEF top, u, d
<1>3. /\ f \in [Row -> Row] /\ stop \in Int /\ top <= stop
      /\ \A r, s \in Row : r # s => f[r] # f[s]
      /\ \A r \in Row : f[r] = IF r < top THEN r ELSE IF r < stop THEN r + n ELSE r - stop + top
  <2>1. n < ROWS - top
    BY DEF top
  <2> QED BY <1>1, <2>1, SizesAre DEF Row
<1>4. \A r \in Row : /\ t[r] = IF r < top THEN u[f[r]]
                               ELSE IF r < stop THEN Marked(u[f[r]])
                               ELSE Ended(u[f[r]], 0)
                     /\ f[r] \in Row /\ u[f[r]] \in Lines
  BY <1>1, <1>3, SizesAre DEF Row
<1> HIDE DEF f, t, stop
<1>5. \A r \in Row : /\ Ended(u[f[r]], 0) \in Lines /\ Ended(u[f[r]], 0).offset = u[f[r]].offset
                     /\ Ended(u[f[r]], 0).length = 0 /\ Ended(u[f[r]], 0).dirty
                     /\ Marked(u[f[r]]) \in Lines /\ Twins(u[f[r]], Marked(u[f[r]]))
                     /\ Marked(u[f[r]]).dirty
  <2>1. 0 \in 0 .. COLUMNS
    BY SizesAre
  <2> QED BY <1>4, <2>1, EndedIs
<1>6. \A r \in Row : t[r] \in Lines /\ t[r].offset = u[f[r]].offset
  BY <1>4, <1>5 DEF Twins
<1>7. t \in [Row -> Lines]
  <2>1. t = [r \in Row |-> t[r]]
    BY DEF t
  <2> QED BY <1>6, <2>1
<1>8. /\ d \in Consoles /\ d.lineTable = t /\ d.charTable = c.charTable
      /\ d.cursorX = c.cursorX /\ d.cursorY = c.cursorY /\ d.scrollStart = c.scrollStart
  BY <1>1, <1>2, <1>7 DEF Consoles
<1>9. Well(d)
  BY <1>1, <1>3, <1>6, <1>7, <1>8, Permuted DEF Well
<1>10. ASSUME NEW r \in Row, r < top PROVE Text(d, r) = Text(c, r) /\ d.lineTable[r] = u[r]
  <2>1. d.lineTable[r] = u[r]
    BY <1>3, <1>4, <1>8, <1>10
  <2> QED BY <1>8, <1>9, <2>1, SameText DEF Twins, u
<1>11. ASSUME NEW r \in Row, ~(r < top), r < stop
       PROVE  Text(d, r) = Text(c, r + n) /\ d.lineTable[r].dirty
  <2>1. f[r] = r + n /\ r + n \in Row
    BY <1>3, <1>4, <1>11
  <2>2. Twins(u[r + n], d.lineTable[r]) /\ d.lineTable[r].dirty
    <3>1. d.lineTable[r] = Marked(u[f[r]])
      BY <1>4, <1>8, <1>11
    <3> QED BY <1>5, <2>1, <3>1
  <2> QED BY <1>8, <1>9, <2>1, <2>2, SameText DEF u
<1>12. ASSUME NEW r \in Row, ~(r < top), ~(r < stop)
       PROVE  Text(d, r) = <<>> /\ d.lineTable[r].dirty
  <2>1. d.lineTable[r].length = 0 /\ d.lineTable[r].dirty
    <3>1. d.lineTable[r] = Ended(u[f[r]], 0)
      BY <1>4, <1>8, <1>12
    <3> QED BY <1>5, <3>1
  <2> QED BY <1>9, <2>1, EmptyText
<1>13. Effect(c, d)
  BY <1>9, <1>10, <1>11, <1>12 DEF Effect, u
<1>14. \A r \in Row : r < stop <=> r + n < ROWS
  BY SizesAre DEF stop, Row
<1> QED BY <1>8, <1>10, <1>11, <1>12, <1>13, <1>14 DEF d, top

\* A line entry is stored.
LEMMA RowStored ==
  ASSUME NEW e \in Consoles, NEW y \in Row, NEW l \in Lines
  PROVE  LET d == [e EXCEPT !.lineTable[y] = l] IN
         /\ d \in Consoles /\ d.lineTable = [e.lineTable EXCEPT ![y] = l]
         /\ d.charTable = e.charTable /\ d.cursorX = e.cursorX /\ d.cursorY = e.cursorY
         /\ d.scrollStart = e.scrollStart
BY DEF Consoles

\* row y gets another end, and all cells that change belong to it
OnlyIn(c, d, y, n) ==
  /\ d.lineTable = [c.lineTable EXCEPT ![y] = Ended(c.lineTable[y], n)]
  /\ \A k \in Storage : d.charTable[k] # c.charTable[k] =>
        \E i \in Column : k = c.lineTable[y].offset + i

\* no other row changes
OthersKept(c, d, y) ==
  \A r \in Row \ {y} : Text(d, r) = Text(c, r) /\ d.lineTable[r] = c.lineTable[r]

\* One line is written to: the others stay as they are.
LEMMA PutLine ==
  ASSUME NEW c, Well(c), NEW y \in Row, NEW n \in 0 .. COLUMNS, NEW d, d \in Consoles,
         OnlyIn(c, d, y, n)
  PROVE  /\ Effect(c, d) /\ d.lineTable[y].length = n
         /\ d.lineTable[y].offset = c.lineTable[y].offset
         /\ OthersKept(c, d, y)
<1> DEFINE l == c.lineTable[y]
<1>1. c.lineTable \in [Row -> Lines] /\ Apart(c.lineTable)
  BY DEF Well, Consoles
<1>2. d.lineTable[y] = Ended(l, n) /\ \A r \in Row \ {y} : d.lineTable[r] = c.lineTable[r]
  BY <1>1 DEF OnlyIn
<1>3. d.lineTable[y].length = n /\ d.lineTable[y].offset = l.offset /\ d.lineTable[y].dirty
  BY <1>1, <1>2, EndedIs
<1>4. Well(d)
  <2>1. \A r \in Row : d.lineTable[r].offset = c.lineTable[r].offset
    BY <1>2, <1>3
  <2> QED BY <1>1, <2>1 DEF Well, Apart
<1>5. ASSUME NEW r \in Row \ {y} PROVE Text(d, r) = Text(c, r)
  <2>1. ASSUME NEW i \in Column
        PROVE  d.charTable[c.lineTable[r].offset + i] = c.charTable[c.lineTable[r].offset + i]
    <3>1. c.lineTable[r].offset + i \in Storage
      BY <1>1 DEF Apart
    <3>2. \A j \in Column : c.lineTable[r].offset + i # l.offset + j
      BY <1>1 DEF Apart
    <3> QED BY <3>1, <3>2 DEF OnlyIn
  <2>2. Twins(c.lineTable[r], d.lineTable[r])
    BY <1>2 DEF Twins
  <2>3. \A i \in Column :
           d.charTable[c.lineTable[r].offset + i] = c.charTable[c.lineTable[r].offset + i]
    BY <2>1
  <2>4. r \in Row /\ Well(c)
    OBVIOUS
  <2> QED BY ONLY <1>4, <2>2, <2>3, <2>4, SameText
<1>6. Effect(c, d)
  BY <1>2, <1>3, <1>4, <1>5 DEF Effect
<1> QED BY <1>2, <1>3, <1>5, <1>6 DEF OthersKept

\* A line that only gets another end, as Screen sees it.
LEMMA ResizedIs ==
  ASSUME NEW c, Well(c), NEW d, Well(d), NEW y \in Row, NEW n,
         d.lineTable[y].length = n, d.lineTable[y].offset = c.lineTable[y].offset,
         d.charTable = c.charTable
  PROVE  Text(d, y) \in Abstract!Resized(Text(c, y), n)
<1>1. /\ Len(Text(c, y)) = c.lineTable[y].length /\ c.lineTable[y].length \in 0 .. COLUMNS
      /\ \A i \in 1 .. c.lineTable[y].length :
            Text(c, y)[i] = c.charTable[c.lineTable[y].offset + i - 1]
  BY ShowsIs
<1>2. /\ Text(d, y) \in Seq(Cells) /\ Len(Text(d, y)) = n /\ n \in 0 .. COLUMNS
      /\ \A i \in 1 .. n : Text(d, y)[i] = c.charTable[c.lineTable[y].offset + i - 1]
  BY ShowsIs
<1>3. Text(d, y) \in [1 .. n -> Cells]
  BY <1>2
<1>4. ASSUME NEW i \in 1 .. n, i <= Len(Text(c, y)) PROVE Text(d, y)[i] = Text(c, y)[i]
  <2>1. i \in 1 .. c.lineTable[y].length
    BY <1>1, <1>2, <1>4, SizesAre
  <2> QED BY <1>1, <1>2, <2>1
<1> QED BY <1>3, <1>4 DEF Abstract!Resized

\* A character is written into a line, as Screen sees it.
LEMMA WrittenIs ==
  ASSUME NEW c, Well(c), NEW d, Well(d), NEW y \in Row, NEW x \in Column, NEW ch \in Chars,
         d.lineTable[y].length = IF x >= c.lineTable[y].length THEN x + 1
                                 ELSE c.lineTable[y].length,
         d.lineTable[y].offset = c.lineTable[y].offset,
         d.charTable = [c.charTable EXCEPT ![c.lineTable[y].offset + x] = ch]
  PROVE  Text(d, y) \in Abstract!Written(Text(c, y), x, ch)
<1> DEFINE o == c.lineTable[y].offset
           n == d.lineTable[y].length
           k == c.lineTable[y].length
           new == [i \in 1 .. n |-> c.charTable[o + i - 1]]
<1>1. /\ Len(Text(c, y)) = k /\ k \in 0 .. COLUMNS
      /\ \A i \in 1 .. k : Text(c, y)[i] = c.charTable[o + i - 1]
  BY ShowsIs
<1>2. /\ n \in 0 .. COLUMNS
      /\ Text(d, y) = [i \in 1 .. n |-> d.charTable[o + i - 1]]
  BY ShowsIs DEF Text, Shows
<1>3. o \in Nat /\ c.charTable \in [Storage -> Cells] /\ COLUMNS \in Nat /\ x \in Nat
  BY SizesAre DEF Well, Consoles, Lines
<1>4. n = (IF x < k THEN k ELSE x + 1) /\ x + 1 \in 1 .. n
  BY <1>1, <1>3
<1>5. \A i \in Column : o + i \in Storage
  BY DEF Well, Apart
<1> HIDE DEF o, n, k
<1>6. \A i \in 1 .. n : i - 1 \in Column /\ o + (i - 1) = o + i - 1 /\ o + i - 1 \in Storage
  <2>1. ASSUME NEW i \in 1 .. n
        PROVE  i - 1 \in Column /\ o + (i - 1) = o + i - 1 /\ o + i - 1 \in Storage
    <3>1. i - 1 \in Column /\ o + (i - 1) = o + i - 1
      BY <1>2, <1>3 DEF Column
    <3>2. o + (i - 1) \in Storage
      BY <1>5, <3>1
    <3> QED BY <3>1, <3>2
  <2> QED BY <2>1
<1>7. new \in [1 .. n -> Cells]
  BY <1>3, <1>6
<1>8. \A i \in 1 .. n : i <= k => new[i] = Text(c, y)[i]
  BY <1>1, <1>2, <1>3
<1>9. new \in Abstract!Resized(Text(c, y), n)
  <2> HIDE DEF new
  <2> QED BY <1>1, <1>7, <1>8 DEF Abstract!Resized
<1>10. Text(d, y) = [new EXCEPT ![x + 1] = ch]
  <2>1. ASSUME NEW i \in 1 .. n
        PROVE  d.charTable[o + i - 1] = IF i = x + 1 THEN ch ELSE c.charTable[o + i - 1]
    BY <1>3, <1>6 DEF o
  <2> QED BY <1>2, <1>4, <2>1
<1> HIDE DEF new
<1> QED BY <1>1, <1>4, <1>9, <1>10 DEF Abstract!Written

\* what a character does to line y, where the cursor is, and to the cursor
Types(c, d, y, ch) ==
  /\ \A r \in Row \ {y} : Text(d, r) = Text(c, r)
  /\ d.scrollStart = c.scrollStart
  /\ ch \in Chars =>
       /\ Text(d, y) \in Abstract!Written(Text(c, y), c.cursorX, ch)
       /\ d.cursorX = (c.cursorX + 1) % COLUMNS
       /\ d.cursorY = IF c.cursorX + 1 = COLUMNS THEN y + 1 ELSE y
  /\ ch = LF => /\ Text(d, y) \in Abstract!Resized(Text(c, y), c.cursorX)
                /\ d.cursorX = 0 /\ d.cursorY = y + 1
  /\ ch = CR => Text(d, y) = Text(c, y) /\ d.cursorX = 0 /\ d.cursorY = y
  /\ ch = TAB => Text(d, y) = Text(c, y) /\ d.cursorX = c.cursorX /\ d.cursorY = y

\* The second half of vcon_putchar, for copies that are up to date.
LEMMA StoreOK ==
  ASSUME NEW c, Well(c), NEW at, NEW ch \in Chars \cup {LF, CR, TAB},
         at.row = c.cursorY, at.col = c.cursorX, c.cursorY \in Row,
         Twins(at.line, c.lineTable[c.cursorY])
  PROVE  LET d == putchar_store(c, at, ch) IN
         Effect(c, d) /\ Types(c, d, c.cursorY, ch)
<1> DEFINE d == putchar_store(c, at, ch)
           x == c.cursorX
           y == c.cursorY
           l == c.lineTable[y]
<1>1. /\ c \in Consoles /\ x \in Column /\ y \in Row /\ l \in Lines /\ Apart(c.lineTable)
      /\ x \in Nat /\ x < COLUMNS /\ y \in Nat /\ y < ROWS
      /\ l.offset \in Nat /\ l.length \in 0 .. COLUMNS /\ l.length \in Nat
      /\ COLUMNS \in Nat /\ COLUMNS >= 1 /\ ROWS \in Nat
  <2>1. c \in Consoles /\ Apart(c.lineTable) /\ x \in Column /\ y \in Row
    BY DEF Well, Consoles
  <2>2. c.lineTable \in [Row -> Lines]
    BY <2>1 DEF Consoles
  <2>3. l \in Lines
    BY <2>1, <2>2
  <2>4. l.offset \in Nat /\ l.length \in 0 .. COLUMNS
    BY <2>3 DEF Lines
  <2> HIDE DEF x, y, l
  <2> QED BY <2>1, <2>3, <2>4, SizesAre DEF Column, Row
<1>2. l.offset + x \in Storage
  BY <1>1 DEF Apart
<1>3. ASSUME NEW e \in Consoles, NEW n \in 0 .. COLUMNS,
             e.lineTable = c.lineTable, e.scrollStart = c.scrollStart,
             \A k \in Storage : e.charTable[k] # c.charTable[k] => k = l.offset + x,
             d = [e EXCEPT !.lineTable[y] = Ended(l, n)]
      PROVE  /\ Effect(c, d) /\ d.lineTable[y].length = n /\ d.lineTable[y].offset = l.offset
             /\ \A r \in Row \ {y} : Text(d, r) = Text(c, r)
             /\ d.charTable = e.charTable /\ d.cursorX = e.cursorX /\ d.cursorY = e.cursorY
             /\ d.scrollStart = c.scrollStart
  <2> HIDE DEF d, l, x, y
  <2>1. Ended(l, n) \in Lines
    BY <1>1, <1>3, EndedIs
  <2>2. /\ d \in Consoles /\ d.lineTable = [c.lineTable EXCEPT ![y] = Ended(l, n)]
        /\ d.charTable = e.charTable /\ d.cursorX = e.cursorX /\ d.cursorY = e.cursorY
        /\ d.scrollStart = c.scrollStart
    BY <1>1, <1>3, <2>1, RowStored
  <2>3. \A k \in Storage : d.charTable[k] # c.charTable[k] => \E i \in Column : k = l.offset + i
    BY <1>1, <1>3, <2>2
  <2>4. Well(c) /\ y \in Row /\ n \in 0 .. COLUMNS
    BY <1>1
  <2>5. d \in Consoles /\ OnlyIn(c, d, y, n)
    BY <2>2, <2>3 DEF l, OnlyIn
  <2>6. /\ Effect(c, d) /\ d.lineTable[y].length = n
        /\ d.lineTable[y].offset = c.lineTable[y].offset
        /\ OthersKept(c, d, y)
    BY ONLY <2>4, <2>5, PutLine
  <2> QED BY <2>2, <2>6 DEF l, OthersKept
<1>4. at.line.offset = l.offset /\ at.line.length = l.length /\ at.row = y /\ at.col = x
  BY DEF Twins
<1>5. CASE ch \in Chars
  <2> DEFINE n == IF x >= l.length THEN x + 1 ELSE l.length
             ct == [c.charTable EXCEPT ![l.offset + x] = ch]
             e == [c EXCEPT !.charTable[l.offset + x] = ch,
                            !.cursorX = IF x + 1 = COLUMNS THEN 0 ELSE x + 1,
                            !.cursorY = IF x + 1 = COLUMNS THEN y + 1 ELSE y]
  <2>1. d = [e EXCEPT !.lineTable[y] = Ended(l, n)]
    <3>1. ch # LF /\ ch # CR /\ ch # TAB
      BY <1>5, Controls
    <3> QED BY <1>4, <3>1 DEF putchar_store, Ended
  <2>2. n \in 0 .. COLUMNS
    BY <1>1
  <2>3. ct \in [Storage -> Cells]
    BY <1>1, <1>2, <1>5, Controls DEF Consoles
  <2>4. /\ e \in Consoles /\ e.lineTable = c.lineTable /\ e.scrollStart = c.scrollStart
        /\ e.charTable = ct
        /\ e.cursorX = IF x + 1 = COLUMNS THEN 0 ELSE x + 1
        /\ e.cursorY = IF x + 1 = COLUMNS THEN y + 1 ELSE y
    <3>1. /\ (IF x + 1 = COLUMNS THEN 0 ELSE x + 1) \in Column
          /\ (IF x + 1 = COLUMNS THEN y + 1 ELSE y) \in 0 .. ROWS
      BY <1>1 DEF Column
    <3> QED BY <1>1, <2>3, <3>1 DEF Consoles
  <2>5. \A k \in Storage : ct[k] # c.charTable[k] => k = l.offset + x
    BY <1>1 DEF Consoles
  <2> HIDE DEF n, e, ct
  <2>6. /\ Effect(c, d) /\ d.lineTable[y].length = n /\ d.lineTable[y].offset = l.offset
        /\ \A r \in Row \ {y} : Text(d, r) = Text(c, r)
        /\ d.charTable = ct /\ d.cursorX = e.cursorX /\ d.cursorY = e.cursorY
        /\ d.scrollStart = c.scrollStart
    BY <1>3, <2>1, <2>2, <2>4, <2>5
  <2>7. Text(d, y) \in Abstract!Written(Text(c, y), x, ch)
    <3>1. Well(d)
      BY <2>6 DEF Effect
    <3> QED BY <1>1, <1>5, <2>6, <3>1, WrittenIs DEF n, ct
  <2>8. d.cursorX = (x + 1) % COLUMNS
    <3>1. CASE x + 1 = COLUMNS
      BY <1>1, <2>4, <2>6, <3>1
    <3>2. CASE x + 1 # COLUMNS
      <4>1. x + 1 \in 0 .. COLUMNS - 1
        BY <1>1, <3>2
      <4> QED BY <1>1, <2>4, <2>6, <3>2, <4>1
    <3> QED BY <3>1, <3>2
  <2>9. ch # LF /\ ch # CR /\ ch # TAB
    BY <1>5, Controls
  <2> QED BY <2>4, <2>6, <2>7, <2>8, <2>9 DEF Types
<1>6. CASE ch = LF
  <2> DEFINE e == [c EXCEPT !.cursorX = 0, !.cursorY = y + 1]
  <2>1. d = [e EXCEPT !.lineTable[y] = Ended(l, x)]
    BY <1>4, <1>6, Controls DEF putchar_store, Ended
  <2>2. x \in 0 .. COLUMNS
    BY <1>1
  <2>3. /\ e \in Consoles /\ e.lineTable = c.lineTable /\ e.scrollStart = c.scrollStart
        /\ e.charTable = c.charTable /\ e.cursorX = 0 /\ e.cursorY = y + 1
    <3>1. 0 \in Column /\ y + 1 \in 0 .. ROWS
      BY <1>1 DEF Column
    <3> QED BY <1>1, <3>1 DEF Consoles
  <2> HIDE DEF e
  <2>4. /\ Effect(c, d) /\ d.lineTable[y].length = x /\ d.lineTable[y].offset = l.offset
        /\ \A r \in Row \ {y} : Text(d, r) = Text(c, r)
        /\ d.charTable = e.charTable /\ d.cursorX = e.cursorX /\ d.cursorY = e.cursorY
        /\ d.scrollStart = c.scrollStart
    BY <1>3, <2>1, <2>2, <2>3
  <2>5. Text(d, y) \in Abstract!Resized(Text(c, y), x)
    <3>1. Well(d)
      BY <2>4 DEF Effect
    <3> QED BY <1>1, <2>3, <2>4, <3>1, ResizedIs
  <2>6. ch \notin Chars /\ ch # CR /\ ch # TAB
    BY <1>6, Controls
  <2> QED BY <2>3, <2>4, <2>5, <2>6 DEF Types
<1>7. CASE ch \in {CR, TAB}
  <2> DEFINE e == IF ch = CR THEN [c EXCEPT !.cursorX = 0] ELSE c
  <2>1. d = [e EXCEPT !.lineTable[y] = Ended(l, l.length)]
    BY <1>4, <1>7, Controls DEF putchar_store, Ended
  <2>2. /\ e \in Consoles /\ e.lineTable = c.lineTable /\ e.scrollStart = c.scrollStart
        /\ e.charTable = c.charTable /\ e.cursorX = (IF ch = CR THEN 0 ELSE x) /\ e.cursorY = y
    <3>1. 0 \in Column
      BY <1>1 DEF Column
    <3> QED BY <1>1, <3>1 DEF Consoles
  <2> HIDE DEF e
  <2>3. /\ Effect(c, d) /\ d.lineTable[y].length = l.length /\ d.lineTable[y].offset = l.offset
        /\ \A r \in Row \ {y} : Text(d, r) = Text(c, r)
        /\ d.charTable = e.charTable /\ d.cursorX = e.cursorX /\ d.cursorY = e.cursorY
        /\ d.scrollStart = c.scrollStart
    BY <1>1, <1>3, <2>1, <2>2
  <2>4. Text(d, y) = Text(c, y)
    <3>1. Well(d)
      BY <2>3 DEF Effect
    <3> QED BY <1>1, <2>2, <2>3, <3>1, SameText DEF Twins
  <2>5. ch \notin Chars /\ ch # LF
    BY <1>7, Controls
  <2> QED BY <1>7, <2>2, <2>3, <2>4, <2>5, Controls DEF Types
<1> QED BY <1>5, <1>6, <1>7

\* The first half of vcon_putchar: a line comes free when the cursor has left
\* the last one.
LEMMA RoomOK ==
  ASSUME NEW c, Well(c)
  PROVE  LET d == putchar_scroll(c) IN
         /\ Effect(c, d) /\ d.cursorX = c.cursorX /\ d.scrollStart = c.scrollStart
         /\ d.cursorY \in Row
         /\ c.cursorY # ROWS => d = c
         /\ c.cursorY = ROWS =>
              /\ d.cursorY = ROWS - 1
              /\ \A r \in Row : Text(d, r) = IF r < c.scrollStart THEN Text(c, r)
                                             ELSE IF r + 1 < ROWS THEN Text(c, r + 1) ELSE <<>>
<1> DEFINE d == putchar_scroll(c)
           b == vcon_scroll(c, 1)
<1>1. /\ c \in Consoles /\ c.scrollEnd = ROWS /\ c.cursorY \in 0 .. ROWS
      /\ c.scrollStart \in 0 .. ROWS - 2
  BY DEF Well, Consoles
<1>2. CASE c.cursorY = ROWS
  <2>1. 1 \in 1 .. ROWS /\ 1 < ROWS - c.scrollStart
    BY <1>1, SizesAre
  <2>2. /\ Effect(c, b) /\ b \in Consoles
        /\ b.cursorX = c.cursorX /\ b.cursorY = ROWS /\ b.scrollStart = c.scrollStart
        /\ \A r \in Row : Text(b, r) = IF r < c.scrollStart THEN Text(c, r)
                                       ELSE IF r + 1 < ROWS THEN Text(c, r + 1) ELSE <<>>
    BY <1>2, <2>1, ScrollOK
  <2>3. d = [b EXCEPT !.cursorY = b.cursorY - 1]
    BY <1>1, <1>2 DEF putchar_scroll
  <2> HIDE DEF b, d
  <2>4. /\ d \in Consoles /\ d.lineTable = b.lineTable /\ d.charTable = b.charTable
        /\ d.cursorX = b.cursorX /\ d.scrollStart = b.scrollStart /\ d.cursorY = ROWS - 1
    <3>1. ROWS - 1 \in 0 .. ROWS
      BY SizesAre
    <3> QED BY <2>2, <2>3, <3>1 DEF Consoles
  <2>5. Effect(b, d) /\ \A r \in Row : Text(d, r) = Text(b, r)
    BY <2>2, <2>4, CursorOK DEF Effect
  <2>6. Effect(c, d)
    BY <2>2, <2>5, EffectTrans
  <2> QED BY <1>2, <2>2, <2>4, <2>5, <2>6, SizesAre DEF d
<1>3. CASE c.cursorY # ROWS
  <2>1. d = c
    BY <1>1, <1>3 DEF putchar_scroll
  <2>2. c.cursorY \in Row
    BY <1>1, <1>3, SizesAre DEF Row
  <2>3. Effect(c, c)
    BY DEF Effect
  <2> QED BY <1>3, <2>1, <2>2, <2>3
<1> QED BY <1>2, <1>3

\* All of vcon_putchar: what its two halves do.
LEMMA PutcharOK ==
  ASSUME NEW c, Well(c), NEW ch \in Chars \cup {LF, CR, TAB}
  PROVE  LET e == putchar_scroll(c)
             d == vcon_putchar(c, ch)
         IN Effect(c, d) /\ Types(e, d, e.cursorY, ch)
<1> DEFINE e == putchar_scroll(c)
           d == vcon_putchar(c, ch)
           at == Copies(e)
<1>1. Effect(c, e) /\ e.cursorY \in Row /\ Well(e)
  BY RoomOK DEF Effect
<1>2. d = putchar_store(e, at, ch)
  BY DEF vcon_putchar
<1> HIDE DEF e
<1>3. /\ at.row = e.cursorY /\ at.col = e.cursorX
      /\ Twins(at.line, e.lineTable[e.cursorY])
  BY DEF Copies, Twins
<1> HIDE DEF d, at
<1>4. Effect(e, d) /\ Types(e, d, e.cursorY, ch)
  BY <1>1, <1>2, <1>3, StoreOK
<1> QED BY <1>1, <1>4, EffectTrans DEF e, d

\* The cells of row y are in the character table (other rows may share them).
InCells(c, y) == \A i \in Column : c.lineTable[y].offset + i \in Storage

\* line y of c gets n cells, and nothing but its cells changes
LineWritten(c, d, y, n) ==
  /\ d \in Consoles /\ OnlyIn(c, d, y, n)
  /\ d.cursorX = c.cursorX /\ d.cursorY = c.cursorY /\ d.scrollStart = c.scrollStart

\* how long a line is with ch in column x, and its cells
PutLength(l, ch, x) == IF ch = LF THEN x ELSE IF x >= l.length THEN x + 1 ELSE l.length
PutCells(ct, l, ch, x) == IF ch = LF THEN ct ELSE [ct EXCEPT ![l.offset + x] = ch]

\* vcon_putcharAt writes to the line it names.
LEMMA PutcharAtIs ==
  ASSUME NEW c \in Consoles, NEW ch \in Chars \cup {LF}, NEW x \in Column, NEW y \in Row,
         InCells(c, y)
  PROVE  LET d == vcon_putcharAt(c, ch, x, y)
             n == PutLength(c.lineTable[y], ch, x)
         IN /\ n \in 0 .. COLUMNS /\ LineWritten(c, d, y, n)
            /\ d.charTable = PutCells(c.charTable, c.lineTable[y], ch, x)
<1> DEFINE d == vcon_putcharAt(c, ch, x, y)
           l == c.lineTable[y]
           n == PutLength(l, ch, x)
           b == [c EXCEPT !.lineTable[y] = Ended(l, n)]
           ct == [c.charTable EXCEPT ![l.offset + x] = ch]
<1>1. /\ l \in Lines /\ l.offset \in Nat
      /\ l.length \in 0 .. COLUMNS /\ l.offset + x \in Storage
      /\ c.charTable \in [Storage -> Cells]
  BY DEF Consoles, Lines, InCells
<1>2. n \in 0 .. COLUMNS /\ ~(x >= COLUMNS \/ y >= ROWS)
  BY <1>1, SizesAre DEF Column, Row, PutLength
<1>3. d = IF ch = LF THEN b ELSE [b EXCEPT !.charTable[l.offset + x] = ch]
  BY <1>2 DEF vcon_putcharAt, Ended, PutLength
<1> HIDE DEF n, d
<1>5. Ended(l, n) \in Lines
  BY <1>1, <1>2, EndedIs
<1>6. /\ b \in Consoles /\ b.lineTable = [c.lineTable EXCEPT ![y] = Ended(l, n)]
      /\ b.charTable = c.charTable
      /\ b.cursorX = c.cursorX /\ b.cursorY = c.cursorY /\ b.scrollStart = c.scrollStart
  <2> HIDE DEF l
  <2> QED BY <1>1, <1>5, RowStored
<1> HIDE DEF b
<1>7. ct \in [Storage -> Cells] \/ ch = LF
  BY <1>1, Controls
<1>8. /\ d \in Consoles /\ d.lineTable = b.lineTable
      /\ d.charTable = IF ch = LF THEN c.charTable ELSE ct
      /\ d.cursorX = c.cursorX /\ d.cursorY = c.cursorY /\ d.scrollStart = c.scrollStart
  <2>1. CASE ch = LF
    BY <1>3, <1>6, <2>1
  <2>2. CASE ch # LF
    <3>1. d = [b EXCEPT !.charTable = ct]
      BY <1>3, <1>6, <2>2
    <3> HIDE DEF ct
    <3> QED BY <1>6, <1>7, <2>2, <3>1 DEF Consoles
  <2> QED BY <2>1, <2>2
<1>9. OnlyIn(c, d, y, n)
  <2>1. ASSUME NEW k \in Storage, d.charTable[k] # c.charTable[k] PROVE k = l.offset + x
    BY <1>1, <1>8, <2>1
  <2>2. d.lineTable = [c.lineTable EXCEPT ![y] = Ended(c.lineTable[y], n)]
    BY <1>6, <1>8
  <2> QED BY <2>1, <2>2 DEF OnlyIn
<1> QED BY <1>2, <1>8, <1>9 DEF d, n, LineWritten, PutCells

\* In a console whose rows do not meet it leaves the other lines alone.
LEMMA PutcharAtOK ==
  ASSUME NEW c, Well(c), NEW ch \in Chars \cup {LF}, NEW x \in Column, NEW y \in Row
  PROVE  LET d == vcon_putcharAt(c, ch, x, y) IN
         /\ Effect(c, d) /\ OthersKept(c, d, y)
         /\ d.cursorX = c.cursorX /\ d.cursorY = c.cursorY /\ d.scrollStart = c.scrollStart
         /\ ch = LF => Text(d, y) \in Abstract!Resized(Text(c, y), x)
         /\ ch # LF => Text(d, y) \in Abstract!Written(Text(c, y), x, ch)
<1> DEFINE d == vcon_putcharAt(c, ch, x, y)
           n == PutLength(c.lineTable[y], ch, x)
<1>1. c \in Consoles /\ InCells(c, y)
  BY DEF Well, Apart, InCells
<1>2. /\ n \in 0 .. COLUMNS /\ LineWritten(c, d, y, n)
      /\ d.charTable = PutCells(c.charTable, c.lineTable[y], ch, x)
  BY <1>1, PutcharAtIs
<1>3. n = PutLength(c.lineTable[y], ch, x)
  OBVIOUS
<1> HIDE DEF d, n
<1>4. /\ Effect(c, d) /\ d.lineTable[y].length = n
      /\ d.lineTable[y].offset = c.lineTable[y].offset
      /\ OthersKept(c, d, y)
  <2>1. Well(c) /\ y \in Row /\ d \in Consoles /\ OnlyIn(c, d, y, n)
    BY <1>2 DEF LineWritten
  <2> QED BY ONLY <1>2, <2>1, PutLine
<1>5. Well(d)
  BY <1>4 DEF Effect
<1>6. ASSUME ch = LF PROVE Text(d, y) \in Abstract!Resized(Text(c, y), x)
  <2>1. n = x /\ d.charTable = c.charTable
    BY <1>2, <1>3, <1>6 DEF PutLength, PutCells
  <2> QED BY <1>4, <1>5, <2>1, ResizedIs
<1>7. ASSUME ch # LF PROVE Text(d, y) \in Abstract!Written(Text(c, y), x, ch)
  <2>1. /\ n = IF x >= c.lineTable[y].length THEN x + 1 ELSE c.lineTable[y].length
        /\ d.charTable = [c.charTable EXCEPT ![c.lineTable[y].offset + x] = ch]
    BY <1>2, <1>3, <1>7 DEF PutLength, PutCells
  <2> QED BY <1>4, <1>5, <1>7, <2>1, WrittenIs
<1> QED BY <1>2, <1>4, <1>6, <1>7 DEF d, LineWritten

\* line 0 filled with one character
Filled(c, ch) == vcon_putsAt(c, [i \in 1 .. COLUMNS |-> ch], 0, 0)
FilledCells(ct, l, ch) ==
  [k \in Storage |-> IF l.offset <= k /\ k < l.offset + COLUMNS THEN ch ELSE ct[k]]

\* marquee_animate fills line 0 with one character.
LEMMA MarqueeIs ==
  ASSUME NEW c \in Consoles, NEW ch \in Chars, InCells(c, 0)
  PROVE  LET d == Filled(c, ch) IN
         /\ COLUMNS \in 0 .. COLUMNS /\ LineWritten(c, d, 0, COLUMNS)
         /\ d.charTable = FilledCells(c.charTable, c.lineTable[0], ch)
<1> DEFINE str == [i \in 1 .. COLUMNS |-> ch]
           d == vcon_putsAt(c, str, 0, 0)
           l == c.lineTable[0]
           o == l.offset
           ct == [k \in DOMAIN c.charTable |->
                    IF o + 0 <= k /\ k < o + COLUMNS
                    THEN str[k - (o + 0) + 1] ELSE c.charTable[k]]
           b == [c EXCEPT !.lineTable[0] = Ended(l, COLUMNS)]
<1>1. /\ l \in Lines /\ o \in Nat
      /\ l.length \in 0 .. COLUMNS /\ c.charTable \in [Storage -> Cells]
      /\ \A i \in Column : o + i \in Storage
  BY SizesAre DEF Consoles, Lines, InCells
<1>2. str # <<>> /\ Len(str) = COLUMNS /\ str \in Seq(Chars)
  <2>1. Len(str) = COLUMNS /\ str \in Seq(Chars)
    BY SizesAre
  <2> QED BY <2>1, SizesAre
<1>3. d = [b EXCEPT !.charTable = ct]
  <2> DEFINE end == IF 0 + Len(str) < COLUMNS THEN 0 + Len(str) ELSE COLUMNS
             length == IF end > l.length THEN end ELSE l.length
  <2>1. end = COLUMNS /\ length = COLUMNS /\ ~(str = <<>> \/ 0 >= COLUMNS \/ 0 >= ROWS)
    <3> HIDE DEF str
    <3> QED BY <1>1, <1>2, SizesAre
  <2>2. d = IF str = <<>> \/ 0 >= COLUMNS \/ 0 >= ROWS THEN c
            ELSE [c EXCEPT !.lineTable[0] = Ended(l, length),
                    !.charTable = [i \in DOMAIN c.charTable |->
                       IF o + 0 <= i /\ i < o + end
                       THEN str[i - (o + 0) + 1] ELSE c.charTable[i]]]
    BY DEF vcon_putsAt, Ended
  <2> HIDE DEF end, length, str
  <2> QED BY <2>1, <2>2
<1>4. ct = [k \in Storage |-> IF o <= k /\ k < o + COLUMNS THEN ch ELSE c.charTable[k]]
  <2>1. ASSUME NEW k \in Storage, o <= k, k < o + COLUMNS PROVE str[k - (o + 0) + 1] = ch
    BY <1>1, <2>1, SizesAre DEF Storage
  <2>2. DOMAIN c.charTable = Storage /\ o + 0 = o
    BY <1>1
  <2> HIDE DEF str
  <2> QED BY <2>1, <2>2
<1>5. ct \in [Storage -> Cells]
  BY <1>1, <1>4, Controls
<1> HIDE DEF ct, d, str
<1>6. Ended(l, COLUMNS) \in Lines /\ COLUMNS \in 0 .. COLUMNS
  <2>1. l \in Lines /\ COLUMNS \in 0 .. COLUMNS
    BY <1>1, SizesAre
  <2> HIDE DEF l
  <2> QED BY <2>1, EndedIs
<1>7. /\ b \in Consoles /\ b.lineTable = [c.lineTable EXCEPT ![0] = Ended(l, COLUMNS)]
      /\ b.cursorX = c.cursorX /\ b.cursorY = c.cursorY /\ b.scrollStart = c.scrollStart
  <2> HIDE DEF l
  <2> QED BY <1>1, <1>6, RowStored, SizesAre
<1> HIDE DEF b
<1>8. /\ d \in Consoles /\ d.lineTable = b.lineTable /\ d.charTable = ct
      /\ d.cursorX = c.cursorX /\ d.cursorY = c.cursorY /\ d.scrollStart = c.scrollStart
  BY <1>3, <1>5, <1>7 DEF Consoles
<1>9. OnlyIn(c, d, 0, COLUMNS)
  <2>1. ASSUME NEW k \in Storage, d.charTable[k] # c.charTable[k]
        PROVE  k - o \in Column /\ k = o + (k - o)
    <3>1. o <= k /\ k < o + COLUMNS
      BY <1>4, <1>8, <2>1
    <3> HIDE DEF o
    <3> QED BY <1>1, <3>1, SizesAre DEF Column, Storage
  <2>2. d.lineTable = [c.lineTable EXCEPT ![0] = Ended(c.lineTable[0], COLUMNS)]
    BY <1>7, <1>8
  <2> QED BY <2>1, <2>2 DEF OnlyIn
<1>10. d.charTable = FilledCells(c.charTable, c.lineTable[0], ch)
  BY <1>4, <1>8 DEF FilledCells
<1>11. d = Filled(c, ch)
  BY DEF d, str, Filled
<1> QED BY <1>6, <1>8, <1>9, <1>10, <1>11 DEF LineWritten

\* It leaves the other lines alone.
LEMMA MarqueeOK ==
  ASSUME NEW c, Well(c), NEW ch \in Chars
  PROVE  LET d == Filled(c, ch) IN
         /\ Effect(c, d) /\ OthersKept(c, d, 0)
         /\ d.cursorX = c.cursorX /\ d.cursorY = c.cursorY /\ d.scrollStart = c.scrollStart
         /\ Text(d, 0) = [i \in 1 .. COLUMNS |-> ch]
<1> DEFINE d == Filled(c, ch)
           o == c.lineTable[0].offset
<1>1. c \in Consoles /\ InCells(c, 0) /\ 0 \in Row
  BY SizesAre DEF Well, Apart, InCells
<1>2. /\ COLUMNS \in 0 .. COLUMNS /\ LineWritten(c, d, 0, COLUMNS)
      /\ d.charTable = FilledCells(c.charTable, c.lineTable[0], ch)
  BY <1>1, MarqueeIs
<1> HIDE DEF d
<1>3. /\ Effect(c, d) /\ d.lineTable[0].length = COLUMNS
      /\ d.lineTable[0].offset = o
      /\ OthersKept(c, d, 0)
  <2>1. Well(c) /\ d \in Consoles /\ OnlyIn(c, d, 0, COLUMNS)
    BY <1>2 DEF LineWritten
  <2> QED BY ONLY <1>1, <1>2, <2>1, PutLine
<1>4. Text(d, 0) = [i \in 1 .. COLUMNS |-> d.charTable[o + i - 1]]
  BY <1>3 DEF Text, Shows
<1>5. ASSUME NEW i \in 1 .. COLUMNS PROVE d.charTable[o + i - 1] = ch
  <2>1. o \in Nat
    BY <1>1 DEF Consoles, Lines
  <2>2. i - 1 \in Column /\ o + (i - 1) = o + i - 1 /\ o <= o + i - 1 /\ o + i - 1 < o + COLUMNS
    BY <2>1, SizesAre DEF Column
  <2>3. o + i - 1 \in Storage
    BY <1>1, <2>2 DEF InCells
  <2> QED BY <1>2, <2>2, <2>3 DEF FilledCells
<1>6. Text(d, 0) = [i \in 1 .. COLUMNS |-> ch]
  BY <1>4, <1>5
<1> QED BY <1>2, <1>3, <1>6 DEF d, LineWritten

-----------------------------------------------------------------------------
(* Printer *)

\* how long the line is with Printer's character, and where the cursor goes
NewLength(p) ==
  IF p.ch = LF THEN p.col
  ELSE IF p.ch \in {CR, TAB} \/ p.col < p.line.length THEN p.line.length
  ELSE p.col + 1
NewX(c, ch) == IF ch \in {LF, CR} THEN 0
               ELSE IF ch = TAB THEN c.cursorX
               ELSE IF c.cursorX + 1 = COLUMNS THEN 0 ELSE c.cursorX + 1
NewY(c, ch) == IF ch = LF \/ (ch \in Chars /\ c.cursorX + 1 = COLUMNS)
               THEN c.cursorY + 1 ELSE c.cursorY

\* What the end of vcon_putchar leaves, whatever Printer's copies are.
LEMMA StoreIs ==
  ASSUME NEW c \in Consoles, NEW p \in Printers, c.cursorY \in Row, p.col = c.cursorX
  PROVE  LET d == putchar_store(c, p, p.ch) IN
         /\ d \in Consoles /\ d.scrollStart = c.scrollStart
         /\ d.lineTable = [c.lineTable EXCEPT ![p.row] = Ended(p.line, NewLength(p))]
         /\ d.charTable = IF p.ch \in Chars
                          THEN [c.charTable EXCEPT ![p.line.offset + p.col] = p.ch]
                          ELSE c.charTable
         /\ d.cursorX = NewX(c, p.ch) /\ d.cursorY = NewY(c, p.ch)
         /\ NewLength(p) \in 0 .. COLUMNS
<1> DEFINE d == putchar_store(c, p, p.ch)
           ct == IF p.ch \in Chars THEN [c.charTable EXCEPT ![p.line.offset + p.col] = p.ch]
                 ELSE c.charTable
           x == NewX(c, p.ch)
           y == NewY(c, p.ch)
           n == NewLength(p)
           l == Ended(p.line, n)
           e == [c EXCEPT !.charTable = ct, !.cursorX = x, !.cursorY = y]
<1>1. /\ c.cursorX \in Nat /\ c.cursorX < COLUMNS /\ c.cursorY \in Nat /\ c.cursorY < ROWS
      /\ p.line \in Lines /\ p.row \in Row /\ p.ch \in Typeable /\ c.cursorX \in Column
      /\ c.charTable \in [Storage -> Cells]
      /\ p.line.length \in 0 .. COLUMNS /\ COLUMNS \in Nat /\ COLUMNS >= 1 /\ ROWS \in Nat
  <2>1. /\ p.line \in Lines /\ p.row \in Row /\ p.ch \in Typeable /\ c.cursorX \in Column
        /\ c.charTable \in [Storage -> Cells]
    BY DEF Consoles, Printers
  <2>2. p.line.length \in 0 .. COLUMNS
    BY <2>1 DEF Lines
  <2> QED BY <2>1, <2>2, SizesAre DEF Column, Row
<1>2. n \in 0 .. COLUMNS
  BY <1>1 DEF NewLength
<1>3. x \in Column /\ y \in 0 .. ROWS
  BY <1>1 DEF NewX, NewY, Column
<1>4. ct \in [Storage -> Cells]
  BY <1>1, Controls
<1>5. l \in Lines
  <2> HIDE DEF n
  <2> QED BY <1>1, <1>2, EndedIs
<1>6. d = [c EXCEPT !.charTable = ct, !.cursorX = x, !.cursorY = y, !.lineTable[p.row] = l]
  <2>1. CASE p.ch \in Chars
    <3>1. p.ch # LF /\ p.ch # CR /\ p.ch # TAB
      BY <2>1, Controls
    <3>2. /\ x = IF c.cursorX + 1 = COLUMNS THEN 0 ELSE c.cursorX + 1
          /\ y = IF c.cursorX + 1 = COLUMNS THEN c.cursorY + 1 ELSE c.cursorY
          /\ n = IF p.col >= p.line.length THEN p.col + 1 ELSE p.line.length
          /\ ct = [c.charTable EXCEPT ![p.line.offset + p.col] = p.ch]
      BY <1>1, <2>1, <3>1 DEF NewX, NewY, NewLength
    <3> HIDE DEF x, y, n, ct
    <3> QED BY <3>1, <3>2 DEF putchar_store, Ended
  <2>2. CASE p.ch = LF
    <3>1. x = 0 /\ y = c.cursorY + 1 /\ n = p.col /\ ct = c.charTable
      BY <2>2, Controls DEF NewX, NewY, NewLength
    <3> HIDE DEF x, y, n, ct
    <3> QED BY <2>2, <3>1, Controls DEF putchar_store, Ended, Consoles
  <2>3. CASE p.ch = CR
    <3>1. x = 0 /\ y = c.cursorY /\ n = p.line.length /\ ct = c.charTable
      BY <2>3, Controls DEF NewX, NewY, NewLength
    <3> HIDE DEF x, y, n, ct
    <3> QED BY <2>3, <3>1, Controls DEF putchar_store, Ended, Consoles
  <2>4. CASE p.ch = TAB
    <3>1. x = c.cursorX /\ y = c.cursorY /\ n = p.line.length /\ ct = c.charTable
      BY <2>4, Controls DEF NewX, NewY, NewLength
    <3> HIDE DEF x, y, n, ct
    <3> QED BY <2>4, <3>1, Controls DEF putchar_store, Ended, Consoles
  <2> QED BY <1>1, <2>1, <2>2, <2>3, <2>4 DEF Typeable
<1> HIDE DEF d, ct, x, y, n, l
<1>7. /\ e \in Consoles /\ e.lineTable = c.lineTable /\ e.scrollStart = c.scrollStart
      /\ e.charTable = ct /\ e.cursorX = x /\ e.cursorY = y
  BY <1>3, <1>4 DEF Consoles
<1>8. d = [e EXCEPT !.lineTable[p.row] = l]
  BY <1>6
<1> HIDE DEF e
<1>9. /\ d \in Consoles /\ d.lineTable = [e.lineTable EXCEPT ![p.row] = l]
      /\ d.charTable = e.charTable /\ d.cursorX = e.cursorX /\ d.cursorY = e.cursorY
      /\ d.scrollStart = e.scrollStart
  BY <1>1, <1>5, <1>7, <1>8, RowStored
<1> QED BY <1>2, <1>7, <1>9 DEF d, ct, x, y, n, l

\* the line that Printer will leave in row r of the table t
SettledLine(t, p, r) ==
  IF p.at \in {"take", "put"}
  THEN IF r < p.row THEN t[r]
       ELSE IF r = p.row /\ p.at = "put" THEN Ended(p.line, p.line.length)
       ELSE IF r + 1 = ROWS THEN p.first
       ELSE Ended(t[r + 1], t[r + 1].length)
  ELSE IF p.at = "load" \/ r # p.row THEN t[r]
  ELSE IF p.at = "cell" THEN p.line
  ELSE Ended(p.line, NewLength(p))

\* where it will leave the cursor
SettledX(c, p) == IF p.at = "mark" THEN NewX(c, p.ch) ELSE c.cursorX
SettledY(c, p) == IF p.at = "mark" THEN NewY(c, p.ch)
                  ELSE IF p.at \in {"take", "put"} THEN c.cursorY - 1 ELSE c.cursorY

\* What Printer will leave, field by field.
LEMMA SettleIs ==
  ASSUME NEW c \in Consoles, NEW p, Good(c, p)
  PROVE  LET d == Settle(c, p) IN
         /\ d \in Consoles /\ d.scrollStart = c.scrollStart /\ d.charTable = c.charTable
         /\ d.cursorX = SettledX(c, p) /\ d.cursorY = SettledY(c, p)
         /\ \A r \in Row : d.lineTable[r] = SettledLine(c.lineTable, p, r)
<1> DEFINE d == Settle(c, p)
           t == c.lineTable
<1>1. /\ p \in Printers /\ p.row \in Row /\ p.line \in Lines /\ p.first \in Lines
      /\ p.col = c.cursorX /\ t \in [Row -> Lines]
      /\ p.line.length \in 0 .. COLUMNS /\ c.charTable \in [Storage -> Cells]
      /\ p.at \in {"take", "put", "load", "cell", "mark"}
  BY DEF Good, Printers, Consoles, Lines
<1>2. CASE p.at = "load"
  <2>1. d = c
    BY <1>2 DEF Settle
  <2> QED BY <1>2, <2>1 DEF SettledX, SettledY, SettledLine
<1>3. CASE p.at \in {"take", "put"}
  <2> DEFINE u == [r \in Row |-> SettledLine(t, p, r)]
  <2>1. \A r \in Row : SettledLine(t, p, r) \in Lines
    <3>1. ASSUME NEW r \in Row PROVE SettledLine(t, p, r) \in Lines
      <4>1. \A m \in Lines : Ended(m, m.length) \in Lines
        BY DEF Ended, Line, Lines
      <4>2. r + 1 # ROWS => r + 1 \in Row
        BY SizesAre DEF Row
      <4> QED BY <1>1, <1>3, <4>1, <4>2 DEF SettledLine
    <3> QED BY <3>1
  <2>2. d = [c EXCEPT !.cursorY = @ - 1, !.lineTable = u]
    <3>1. u = [r \in Row |-> IF r < p.row THEN t[r]
                ELSE IF r = p.row /\ p.at = "put" THEN Line(p.line.offset, p.line.length, TRUE)
                ELSE IF r + 1 = ROWS THEN p.first
                ELSE Line(t[r + 1].offset, t[r + 1].length, TRUE)]
      BY <1>3 DEF SettledLine, Ended
    <3> QED BY <1>3, <3>1 DEF Settle
  <2>3. u \in [Row -> Lines] /\ \A r \in Row : u[r] = SettledLine(t, p, r)
    BY <2>1
  <2>4. c.cursorY - 1 \in 0 .. ROWS
    BY <1>3, SizesAre DEF Good
  <2> HIDE DEF u, d
  <2>5. /\ d \in Consoles /\ d.scrollStart = c.scrollStart /\ d.charTable = c.charTable
        /\ d.cursorX = c.cursorX /\ d.cursorY = c.cursorY - 1 /\ d.lineTable = u
    BY <2>2, <2>3, <2>4 DEF Consoles
  <2> QED BY <1>3, <2>3, <2>5 DEF d, SettledX, SettledY
<1>4. CASE p.at = "cell"
  <2>1. d = [c EXCEPT !.lineTable[p.row] = p.line]
    BY <1>4 DEF Settle
  <2> HIDE DEF d
  <2>2. /\ d \in Consoles /\ d.lineTable = [t EXCEPT ![p.row] = p.line]
        /\ d.charTable = c.charTable /\ d.cursorX = c.cursorX /\ d.cursorY = c.cursorY
        /\ d.scrollStart = c.scrollStart
    BY <1>1, <2>1, RowStored
  <2>3. \A r \in Row : d.lineTable[r] = IF r # p.row THEN t[r] ELSE p.line
    BY <1>1, <2>2
  <2> QED BY <1>4, <2>2, <2>3 DEF d, SettledX, SettledY, SettledLine
<1>5. CASE p.at = "mark"
  <2>1. d = putchar_store(c, p, p.ch)
    BY <1>5 DEF Settle
  <2>2. c.cursorY \in Row
    BY <1>1, <1>5 DEF Good
  <2> HIDE DEF d
  <2>3. /\ d \in Consoles /\ d.scrollStart = c.scrollStart
        /\ d.lineTable = [t EXCEPT ![p.row] = Ended(p.line, NewLength(p))]
        /\ d.charTable = IF p.ch \in Chars
                         THEN [c.charTable EXCEPT ![p.line.offset + p.col] = p.ch]
                         ELSE c.charTable
        /\ d.cursorX = NewX(c, p.ch) /\ d.cursorY = NewY(c, p.ch)
    BY <1>1, <2>1, <2>2, StoreIs
  <2>4. d.charTable = c.charTable
    <3>1. p.ch \in Chars => c.charTable[p.line.offset + p.col] = p.ch
      BY <1>5 DEF Good
    <3> QED BY <1>1, <2>3, <3>1
  <2>5. \A r \in Row : d.lineTable[r] = IF r # p.row THEN t[r]
                                        ELSE Ended(p.line, NewLength(p))
    BY <1>1, <2>3
  <2> QED BY <1>5, <2>3, <2>4, <2>5 DEF d, SettledX, SettledY, SettledLine
<1> QED BY <1>1, <1>2, <1>3, <1>4, <1>5

-----------------------------------------------------------------------------
(* The kernel writes while Printer is away *)

\* What Screen sees of a console.
View(c) == <<[r \in Row |-> Text(c, r)], c.cursorX, c.cursorY, c.scrollStart>>

\* With Printer away the console is as it stands.
LEMMA AloneIs ==
  /\ Alone => Settled = con /\ Unmarked = {}
  /\ Alone' => Settled' = con' /\ Unmarked' = {}
<1>1. Alone => Settled = con /\ Unmarked = {}
  BY DEF Settled, Unmarked, Inside
<1>2. Alone' => Settled' = con' /\ Unmarked' = {}
  BY DEF Settled, Unmarked, Inside
<1> QED BY <1>1, <1>2

\* A row that the kernel or Printer changes counts as missed if redrawProcess
\* is drawing it, and is marked unless the mark is yet to come.
Stores(d) ==
  /\ con' = d /\ vga' = vga /\ redraw' = redraw
  /\ missed' = missed \cup Overwritten(d)
MarksAll(d) ==
  \A r \in Row : r \in Unmarked' \/ d.lineTable[r].dirty
                 \/ (/\ d.lineTable[r] = con.lineTable[r]
                     /\ Text(d, r) = Text(con, r) /\ r \notin Unmarked)

\* Such a change keeps what the invariant says of the screen.
LEMMA MarksOK ==
  ASSUME Typed, Drawing, CleanRowsShown, NEW d, Stores(d), MarksAll(d)
  PROVE  Drawing' /\ CleanRowsShown'
<1>1. con' = d /\ vga' = vga /\ redraw' = redraw /\ missed' = missed \cup Overwritten(d)
  BY DEF Stores
<1>2. CleanRowsShown'
  <2>1. ASSUME NEW r \in Row, r \notin missed', r \notin Unmarked', ~d.lineTable[r].dirty
        PROVE  vga[r] = Text(d, r)
    <3>1. /\ d.lineTable[r] = con.lineTable[r] /\ Text(d, r) = Text(con, r)
          /\ r \notin Unmarked /\ r \notin missed
      BY <1>1, <2>1 DEF MarksAll
    <3> QED BY <2>1, <3>1 DEF CleanRowsShown
  <2> QED BY <1>1, <2>1 DEF CleanRowsShown
<1>3. Drawing'
  <2> SUFFICES ASSUME redraw.row \notin missed', redraw.at \in {"draw", "load", "store"}
               PROVE  /\ redraw.at = "draw" => Twins(redraw.line, d.lineTable[redraw.row])
                      /\ redraw.at \in {"load", "store"} =>
                           vga[redraw.row] = Text(d, redraw.row)
                      /\ redraw.at = "store" =>
                           redraw.line.length = d.lineTable[redraw.row].length
    BY <1>1 DEF Drawing
  <2>1. redraw.row \notin missed /\ redraw.row \notin Overwritten(d) /\ redraw.row \in Row
    BY <1>1 DEF Typed, Walks
  <2>2. /\ d.lineTable[redraw.row] = con.lineTable[redraw.row]
        /\ Text(d, redraw.row) = Text(con, redraw.row)
    BY <2>1 DEF Overwritten
  <2> QED BY <2>1, <2>2 DEF Drawing
<1> QED BY <1>2, <1>3

\* A writer that leaves the console d: drawn at once, or left to redrawProcess.
Update(d) ==
  /\ \/ con' = clean(d) /\ vga' = drawn(d, vga)
     \/ con' = d /\ vga' = vga
  /\ missed' = missed \cup Overwritten(d)
  /\ UNCHANGED <<autoflush, redraw, printer>>

\* Whichever way, the console looks like d, and the invariant is kept.
LEMMA UpdateOK ==
  ASSUME IInv, Alone, NEW d, Effect(con, d), Update(d)
  PROVE  IInv' /\ View(Settled)' = View(d)
<1>1. Well(con) /\ Well(d) /\ Typed /\ Drawing /\ CleanRowsShown
  BY AloneIs DEF IInv, Effect
<1>2. Alone' /\ Printing'
  BY DEF Update, Alone, Printing
<1>3. Settled' = con' /\ Unmarked' = {} /\ Unmarked = {}
  BY <1>2, AloneIs
<1>4. CASE con' = clean(d) /\ vga' = drawn(d, vga)
  <2>1. /\ Well(con') /\ con'.cursorX = d.cursorX /\ con'.cursorY = d.cursorY
        /\ con'.scrollStart = d.scrollStart
        /\ \A r \in Row : /\ Text(con', r) = Text(d, r)
                          /\ Twins(d.lineTable[r], con'.lineTable[r])
    BY <1>1, <1>4, CleanOK
  <2>2. \A r \in Row : vga'[r] = IF d.lineTable[r].dirty THEN Text(d, r) ELSE vga[r]
    BY <1>4 DEF drawn
  <2>3. vga' = [r \in Row |-> vga'[r]]
    BY <1>4 DEF drawn
  <2>4. Typed'
    BY <1>1, <2>3 DEF Typed, Update
  <2>5. ASSUME NEW r \in Row, r \notin missed
        PROVE  vga'[r] = Text(con', r) \/ (con.lineTable[r].dirty /\ ~d.lineTable[r].dirty)
    BY <1>1, <1>3, <2>1, <2>2, <2>5 DEF CleanRowsShown, Effect
  <2>6. CleanRowsShown'
    <3>1. ASSUME NEW r \in Row, r \notin missed' PROVE vga'[r] = Text(con', r)
      <4>1. r \notin missed
        BY <3>1 DEF Update
      <4>2. ~con.lineTable[r].dirty \/ d.lineTable[r].dirty
        BY DEF Effect
      <4> QED BY <2>5, <4>1, <4>2
    <3> QED BY <3>1 DEF CleanRowsShown
  <2>7. Drawing'
    <3> SUFFICES ASSUME redraw.row \notin missed', redraw.at \in {"draw", "load", "store"}
                 PROVE  /\ redraw.at = "draw" => Twins(redraw.line, con'.lineTable[redraw.row])
                        /\ redraw.at \in {"load", "store"} =>
                             vga'[redraw.row] = Text(con', redraw.row)
                        /\ redraw.at = "store" =>
                             redraw.line.length = con'.lineTable[redraw.row].length
      BY DEF Drawing, Update
    <3>1. redraw.row \notin missed /\ redraw.row \notin Overwritten(d) /\ redraw.row \in Row
      BY <1>1 DEF Update, Typed, Walks
    <3>2. /\ d.lineTable[redraw.row] = con.lineTable[redraw.row]
          /\ Text(d, redraw.row) = Text(con, redraw.row)
      BY <3>1 DEF Overwritten
    <3>3. redraw.at = "draw" => Twins(redraw.line, con'.lineTable[redraw.row])
      BY <1>1, <2>1, <3>1, <3>2 DEF Drawing, Twins
    <3>4. redraw.at \in {"load", "store"} => vga'[redraw.row] = Text(con', redraw.row)
      BY <1>1, <2>1, <2>2, <3>1, <3>2 DEF Drawing
    <3>5. redraw.at = "store" => redraw.line.length = con'.lineTable[redraw.row].length
      BY <1>1, <2>1, <3>1, <3>2 DEF Drawing, Twins
    <3> QED BY <3>3, <3>4, <3>5
  <2>8. [r \in Row |-> Text(con', r)] = [r \in Row |-> Text(d, r)]
    BY <2>1
  <2>9. con' \in Consoles
    BY <2>1 DEF Well
  <2> QED BY <1>2, <1>3, <2>1, <2>4, <2>6, <2>7, <2>8, <2>9 DEF IInv, View
<1>5. CASE con' = d /\ vga' = vga
  <2>1. Typed' /\ Well(con') /\ con' \in Consoles
    BY <1>1, <1>5 DEF Typed, Update, Well
  <2>2. Stores(d)
    BY <1>5 DEF Stores, Update
  <2>3. MarksAll(d)
    BY <1>3 DEF MarksAll, Effect
  <2>4. Drawing' /\ CleanRowsShown'
    BY <1>1, <2>2, <2>3, MarksOK
  <2> QED BY <1>2, <1>3, <1>5, <2>1, <2>4 DEF IInv, View
<1> QED BY <1>4, <1>5 DEF Update

\* The kernel's writes are such updates.
LEMMA WriteOK ==
  ASSUME IInv, Alone, NEW d, Effect(con, d), Write(d)
  PROVE  IInv' /\ View(Settled)' = View(d)
<1>1. Update(d)
  BY DEF Update, Write
<1> QED BY <1>1, UpdateOK

\* Moving the cursor or the region is an update that changes no line.
LEMMA PlaceOK ==
  ASSUME IInv, NEW d, d \in Consoles, Place(d),
         d.lineTable = con.lineTable, d.charTable = con.charTable
  PROVE  IInv' /\ View(Settled)' = View(d)
<1>1. Effect(con, d) /\ \A r \in Row : Text(d, r) = Text(con, r)
  BY AloneIs, CursorOK DEF IInv, Place
<1>2. Overwritten(d) = {}
  BY <1>1 DEF Overwritten
<1>3. Update(d) /\ Alone
  BY <1>2 DEF Update, Place
<1> QED BY <1>1, <1>3, UpdateOK
-----------------------------------------------------------------------------
(* The kernel writes to another line than Printer *)

\* The line y that Printer keeps away from shares no cell with another one,
\* though Printer may have a line twice in the table.
LEMMA LinesApart ==
  ASSUME NEW t, NEW e, Well(e), NEW p, NEW top \in Nat, Aliased(t, e.lineTable, p, top),
         NEW y \in Row, p.at \in {"take", "put"} => y < top
  PROVE  /\ t[y].offset = e.lineTable[y].offset
         /\ \A r \in Row, i \in Column : t[r].offset + i \in Storage
         /\ \A r \in Row \ {y} : \A i, j \in Column : t[r].offset + i # t[y].offset + j
<1>1. Apart(e.lineTable) /\ y \in Nat
  BY SizesAre DEF Well
<1>2. t[y].offset = e.lineTable[y].offset
  BY <1>1 DEF Aliased
<1>3. \A r \in Row, i \in Column : t[r].offset + i \in Storage
  BY <1>1 DEF Apart, Aliased
<1>4. ASSUME NEW r \in Row \ {y}, NEW i \in Column, NEW j \in Column
      PROVE  t[r].offset + i # t[y].offset + j
  <2>1. PICK s \in Row : /\ t[r].offset = e.lineTable[s].offset
                         /\ s = r \/ (p.at \in {"take", "put"} /\ r >= top /\ s >= top)
    BY DEF Aliased
  <2>2. s # y
    <3>1. s \in Nat
      BY SizesAre
    <3> QED BY <1>1, <2>1, <3>1
  <2> QED BY <1>1, <1>2, <2>1, <2>2 DEF Apart
<1> QED BY <1>2, <1>3, <1>4

\* A line shows the same after cells of other lines have changed.
LEMMA KeptText ==
  ASSUME NEW c \in Consoles, NEW d, NEW r \in Row, d.lineTable[r] = c.lineTable[r],
         \A i \in Column : d.charTable[c.lineTable[r].offset + i]
                             = c.charTable[c.lineTable[r].offset + i]
  PROVE  Text(d, r) = Text(c, r)
<1> DEFINE l == c.lineTable[r]
<1>1. l.length \in 0 .. COLUMNS /\ l.offset \in Nat
  BY DEF Consoles, Lines
<1>2. /\ Text(c, r) = [i \in 1 .. l.length |-> c.charTable[l.offset + i - 1]]
      /\ Text(d, r) = [i \in 1 .. l.length |-> d.charTable[l.offset + i - 1]]
  BY DEF Text, Shows
<1>3. ASSUME NEW i \in 1 .. l.length
      PROVE  d.charTable[l.offset + i - 1] = c.charTable[l.offset + i - 1]
  <2>1. i - 1 \in Column /\ l.offset + (i - 1) = l.offset + i - 1
    BY <1>1, SizesAre DEF Column
  <2> QED BY <2>1
<1> HIDE DEF l
<1> QED BY <1>2, <1>3

\* cells change only in line y
InLine(c, d, y) ==
  \A k \in Storage : d.charTable[k] # c.charTable[k] =>
     \E i \in Column : k = c.lineTable[y].offset + i

\* The lines other than y show what they did, if y shares no cell with them.
LEMMA OthersText ==
  ASSUME NEW c \in Consoles, NEW d \in Consoles, NEW y \in Row, InLine(c, d, y),
         NEW r \in Row, d.lineTable[r] = c.lineTable[r], InCells(c, r),
         \A i, j \in Column : c.lineTable[r].offset + i # c.lineTable[y].offset + j
  PROVE  Text(d, r) = Text(c, r)
<1>1. \A i \in Column :
         d.charTable[c.lineTable[r].offset + i] = c.charTable[c.lineTable[r].offset + i]
  BY DEF InLine, InCells
<1> QED BY <1>1, KeptText

\* What Printer keeps away from is what it will leave there.
LEMMA BesideIs ==
  ASSUME IInv, ~Alone, NEW y \in Row, AloneIn(y)
  PROVE  LET p == printer[1] IN
         /\ Settled = Settle(con, p) /\ Good(con, p) /\ con \in Consoles
         /\ Aliased(con.lineTable, Settled.lineTable, p, con.scrollStart)
         /\ Settled.lineTable[y] = con.lineTable[y] /\ Settled.charTable = con.charTable
         /\ p.at \in {"take", "put"} => y < con.scrollStart
         /\ y # p.row /\ p.row \in Row
         /\ con.scrollStart \in Nat
         /\ \A r \in Row : InCells(con, r)
         /\ \A r \in Row \ {y} : \A i, j \in Column :
              con.lineTable[r].offset + i # con.lineTable[y].offset + j
<1> DEFINE p == printer[1]
<1>1. /\ con \in Consoles /\ Good(con, p) /\ Settled = Settle(con, p) /\ Well(Settled)
      /\ Aliased(con.lineTable, Settled.lineTable, p, con.scrollStart)
  BY DEF IInv, Printing, Settled
<1>2. con.scrollStart \in Nat /\ y \in Nat
  BY <1>1, SizesAre DEF Consoles
<1>3. Scrolling <=> p.at \in {"take", "put"}
  BY DEF Scrolling
<1>4. p.at \in {"take", "put"} => y < con.scrollStart
  BY <1>3 DEF AloneIn
<1>5. p.row \in Row /\ (p.at \in {"take", "put"} => con.scrollStart <= p.row)
  BY <1>1 DEF Good, Printers
<1>6. y # p.row /\ (p.at \in {"take", "put"} => y < p.row)
  <2>1. p.row \in Nat
    BY <1>5, SizesAre
  <2>2. ~(p.at \in {"take", "put"}) => y # p.row
    BY <1>3 DEF AloneIn
  <2> HIDE DEF p
  <2> QED BY <1>2, <1>4, <1>5, <2>1, <2>2
<1> HIDE DEF p
<1>7. Settled.lineTable[y] = SettledLine(con.lineTable, p, y) /\ Settled.charTable = con.charTable
  BY <1>1, SettleIs
<1>8. Settled.lineTable[y] = con.lineTable[y]
  BY <1>6, <1>7 DEF SettledLine
<1>9. /\ \A r \in Row, i \in Column : con.lineTable[r].offset + i \in Storage
      /\ \A r \in Row \ {y} : \A i, j \in Column :
           con.lineTable[r].offset + i # con.lineTable[y].offset + j
  BY <1>1, <1>2, <1>4, LinesApart
<1> QED BY <1>1, <1>2, <1>4, <1>5, <1>6, <1>7, <1>8, <1>9 DEF p, InCells

\* The kernel writes to line y.  To the console that Printer will leave it
\* does the same.
LEMMA BesideOK ==
  ASSUME IInv, ~Alone, NEW y \in Row, AloneIn(y), NEW d, Write(d), NEW n \in 0 .. COLUMNS,
         LineWritten(con, d, y, n), NEW e, LineWritten(Settled, e, y, n),
         e.charTable = d.charTable
  PROVE  IInv' /\ View(Settled)' = View(e)
<1>1. PICK p : p = printer[1]
  OBVIOUS
<1>2. /\ Settled = Settle(con, p) /\ Good(con, p) /\ con \in Consoles
      /\ Aliased(con.lineTable, Settled.lineTable, p, con.scrollStart)
      /\ Settled.lineTable[y] = con.lineTable[y] /\ Settled.charTable = con.charTable
      /\ p.at \in {"take", "put"} => y < con.scrollStart
      /\ y # p.row /\ p.row \in Row /\ con.scrollStart \in Nat
      /\ \A r \in Row : InCells(con, r)
      /\ \A r \in Row \ {y} : \A i, j \in Column :
           con.lineTable[r].offset + i # con.lineTable[y].offset + j
  BY <1>1, BesideIs
<1>3. /\ con' = d /\ vga' = vga /\ printer' = printer /\ autoflush' = autoflush
      /\ ~autoflush /\ Stores(d) /\ ~Alone' /\ redraw' = redraw
  BY DEF IInv, Printing, Write, Stores, Alone
<1>4. /\ d \in Consoles /\ d.cursorX = con.cursorX /\ d.cursorY = con.cursorY
      /\ d.scrollStart = con.scrollStart
      /\ con.lineTable \in [Row -> Lines] /\ Settled.lineTable \in [Row -> Lines]
      /\ d.lineTable = [con.lineTable EXCEPT ![y] = Ended(con.lineTable[y], n)]
      /\ e.lineTable = [Settled.lineTable EXCEPT ![y] = Ended(con.lineTable[y], n)]
      /\ InLine(con, d, y)
  BY <1>2 DEF IInv, Well, Consoles, LineWritten, OnlyIn, InLine
<1>5. PICK l : l = Ended(con.lineTable[y], n)
  OBVIOUS
<1>6. l \in Lines /\ l.offset = con.lineTable[y].offset /\ l.dirty
  BY <1>4, <1>5, EndedIs
<1>7. /\ d.lineTable[y] = l /\ \A r \in Row \ {y} : d.lineTable[r] = con.lineTable[r]
      /\ e.lineTable[y] = l /\ \A r \in Row \ {y} : e.lineTable[r] = Settled.lineTable[r]
  BY <1>4, <1>5
<1>8. \A r \in Row \ {y} : Text(d, r) = Text(con, r)
  BY <1>2, <1>4, <1>7, OthersText
<1>9. Good(d, p)
  <2>1. d.lineTable[p.row] = con.lineTable[p.row]
    BY <1>2, <1>7
  <2>2. p.at = "mark" /\ p.ch \in Chars => d.charTable[p.line.offset + p.col] = p.ch
    <3> SUFFICES ASSUME p.at = "mark", p.ch \in Chars
                 PROVE  d.charTable[p.line.offset + p.col] = p.ch
      OBVIOUS
    <3>1. /\ p.line.offset = con.lineTable[p.row].offset /\ p.col \in Column
          /\ con.charTable[p.line.offset + p.col] = p.ch
      BY <1>2 DEF Good, Printers
    <3>2. p.line.offset + p.col \in Storage
      BY <1>2, <3>1 DEF InCells
    <3>3. \A j \in Column : p.line.offset + p.col # con.lineTable[y].offset + j
      BY <1>2, <3>1
    <3> QED BY <1>4, <3>1, <3>2, <3>3 DEF InLine
  <2> QED BY <1>2, <1>4, <2>1, <2>2 DEF Good
<1>10. Settled' = Settle(d, p)
  BY <1>1, <1>3 DEF Settled
<1>11. PICK f : f = Settle(d, p)
  OBVIOUS
<1>12. /\ f \in Consoles /\ f.scrollStart = d.scrollStart /\ f.charTable = d.charTable
       /\ f.cursorX = SettledX(d, p) /\ f.cursorY = SettledY(d, p)
       /\ \A r \in Row : f.lineTable[r] = SettledLine(d.lineTable, p, r)
  BY <1>4, <1>9, <1>11, SettleIs
<1>13. /\ Settled.scrollStart = con.scrollStart
       /\ Settled.cursorX = SettledX(con, p) /\ Settled.cursorY = SettledY(con, p)
       /\ \A r \in Row : Settled.lineTable[r] = SettledLine(con.lineTable, p, r)
  BY <1>2, SettleIs
<1>14. ASSUME NEW r \in Row PROVE f.lineTable[r] = e.lineTable[r]
  <2>1. r \in Nat /\ y \in Nat /\ p.row \in Nat
    BY <1>2, SizesAre
  <2>2. p.at \in {"take", "put"} => con.scrollStart <= p.row
    BY <1>2 DEF Good
  <2>3. CASE r = y
    <3>1. SettledLine(d.lineTable, p, y) = d.lineTable[y]
      BY <1>2, <2>1, <2>2 DEF SettledLine
    <3> QED BY <1>7, <1>12, <2>3, <3>1
  <2>4. CASE r # y
    <3>1. d.lineTable[r] = con.lineTable[r] /\ e.lineTable[r] = SettledLine(con.lineTable, p, r)
      BY <1>7, <1>13, <2>4
    <3>2. p.at \in {"take", "put"} /\ ~(r < p.row) /\ r + 1 # ROWS =>
            d.lineTable[r + 1] = con.lineTable[r + 1]
      <4>1. r + 1 # ROWS => r + 1 \in Row
        BY SizesAre DEF Row
      <4>2. p.at \in {"take", "put"} /\ ~(r < p.row) => r + 1 # y
        BY <1>2, <2>1, <2>2
      <4> QED BY <1>7, <4>1, <4>2
    <3>3. SettledLine(d.lineTable, p, r) = SettledLine(con.lineTable, p, r)
      BY <3>1, <3>2 DEF SettledLine
    <3> QED BY <1>12, <3>1, <3>3
  <2> QED BY <2>3, <2>4
<1>15. /\ f.cursorX = e.cursorX /\ f.cursorY = e.cursorY /\ f.scrollStart = e.scrollStart
       /\ f.charTable = e.charTable
  BY <1>4, <1>12, <1>13 DEF LineWritten, SettledX, SettledY, NewX, NewY
<1>16. Well(e) /\ e \in Consoles
  <2>1. Well(Settled) /\ OnlyIn(Settled, e, y, n) /\ e \in Consoles
    BY DEF IInv, LineWritten
  <2> QED BY <2>1, PutLine DEF Effect
<1>17. Well(f) /\ \A r \in Row : Text(f, r) = Text(e, r)
  <2>1. Apart(f.lineTable)
    BY <1>14, <1>16 DEF Well, Apart
  <2> QED BY <1>12, <1>14, <1>15, <2>1 DEF Well, Text, Shows
<1>18. View(Settled)' = View(e)
  <2>1. [r \in Row |-> Text(f, r)] = [r \in Row |-> Text(e, r)]
    BY <1>17
  <2> QED BY <1>10, <1>11, <1>15, <2>1 DEF View
<1>19. Aliased(d.lineTable, f.lineTable, p, d.scrollStart)
  <2>1. \A r \in Row : /\ d.lineTable[r].offset = con.lineTable[r].offset
                       /\ f.lineTable[r].offset = Settled.lineTable[r].offset
    BY <1>2, <1>6, <1>7, <1>14
  <2> QED BY <1>2, <1>4, <2>1 DEF Aliased
<1>20. Printing'
  <2>1. /\ ~autoflush' /\ printer' = <<printer'[1]>> /\ Good(con', printer'[1])
        /\ Aliased(con'.lineTable, Settled'.lineTable, printer'[1], con'.scrollStart)
    BY <1>1, <1>3, <1>9, <1>10, <1>11, <1>19 DEF IInv, Printing
  <2> QED BY <2>1 DEF Printing
<1>21. MarksAll(d)
  <2>1. Unmarked' = Unmarked
    BY <1>3 DEF Unmarked, Inside, Alone
  <2> QED BY <1>6, <1>7, <1>8, <2>1 DEF MarksAll
<1>22. Drawing' /\ CleanRowsShown' /\ Typed'
  <2>1. Typed /\ Drawing /\ CleanRowsShown
    BY DEF IInv
  <2>2. Typed'
    BY <1>3, <2>1 DEF Typed
  <2> QED BY <1>3, <1>21, <2>1, <2>2, MarksOK
<1> QED BY <1>3, <1>4, <1>10, <1>11, <1>17, <1>18, <1>20, <1>22 DEF IInv

-----------------------------------------------------------------------------
(* Each action keeps the invariant and is a step of Screen, or none *)

\* What Screen's variables are.
LEMMA Seen ==
  ASSUME NEW d, View(Settled)' = View(d)
  PROVE  /\ [r \in Row |-> Text(Settled, r)]' = [r \in Row |-> Text(d, r)]
         /\ Settled'.cursorX = d.cursorX /\ Settled'.cursorY = d.cursorY
         /\ Settled'.scrollStart = d.scrollStart
         /\ \A r \in Row : Text(Settled', r) = Text(d, r)
<1>1. [r \in Row |-> Text(Settled', r)] = [r \in Row |-> Text(d, r)]
  BY DEF View
<1>2. \A r \in Row : Text(Settled', r) = Text(d, r)
  BY <1>1
<1> QED BY <1>1, <1>2 DEF View

\* A character typed in row y of what console e shows, as Screen sees it.
LEMMA TypeStep ==
  ASSUME NEW e, NEW d, NEW y \in Row, NEW ch \in Chars \cup {LF, CR, TAB},
         Types(e, d, y, ch), e.cursorX = Settled.cursorX, View(Settled)' = View(d)
  PROVE  Abstract!TypeOn([r \in Row |-> Text(e, r)], y, ch)
<1> DEFINE t == [r \in Row |-> Text(e, r)]
<1>1. /\ [r \in Row |-> Text(Settled, r)]' = [r \in Row |-> Text(d, r)]
      /\ Settled'.cursorX = d.cursorX /\ Settled'.cursorY = d.cursorY
  BY Seen
<1>2. t[y] = Text(e, y)
  OBVIOUS
<1>3. [r \in Row |-> Text(d, r)] = [t EXCEPT ![y] = Text(d, y)]
  BY DEF Types
<1>4. Text(d, y) = Text(e, y) => [r \in Row |-> Text(d, r)] = t
  BY DEF Types
<1> SUFFICES Abstract!TypeOn(t, y, ch)
  OBVIOUS
<1> HIDE DEF t
<1>5. CASE ch \in Chars
  <2>1. Text(d, y) \in Abstract!Written(t[y], Settled.cursorX, ch)
    BY <1>2, <1>5 DEF Types
  <2>2. [r \in Row |-> Text(Settled, r)]' = [t EXCEPT ![y] = Text(d, y)]
    BY <1>1, <1>3
  <2>3. /\ Settled'.cursorX = (Settled.cursorX + 1) % COLUMNS
        /\ Settled'.cursorY = IF Settled.cursorX + 1 = COLUMNS THEN y + 1 ELSE y
    BY <1>1, <1>5 DEF Types
  <2> QED BY <1>5, <2>1, <2>2, <2>3 DEF Abstract!TypeOn
<1>6. CASE ch = LF
  <2>1. Text(d, y) \in Abstract!Resized(t[y], Settled.cursorX)
    BY <1>2, <1>6 DEF Types
  <2>2. [r \in Row |-> Text(Settled, r)]' = [t EXCEPT ![y] = Text(d, y)]
    BY <1>1, <1>3
  <2>3. Settled'.cursorX = 0 /\ Settled'.cursorY = y + 1
    BY <1>1, <1>6 DEF Types
  <2> QED BY <1>6, <2>1, <2>2, <2>3 DEF Abstract!TypeOn
<1>7. CASE ch = CR
  BY <1>1, <1>4, <1>7 DEF Types, Abstract!TypeOn
<1>8. CASE ch = TAB
  BY <1>1, <1>4, <1>8 DEF Types, Abstract!TypeOn
<1> QED BY <1>5, <1>6, <1>7, <1>8

\* Screen's lines after its region has moved up.
LEMMA UpIs ==
  ASSUME NEW d, NEW n \in 1 .. ROWS, Settled.scrollStart \in Nat,
         \A r \in Row : Text(d, r) = IF r < Settled.scrollStart THEN Text(Settled, r)
                                     ELSE IF r + n < ROWS THEN Text(Settled, r + n) ELSE <<>>
  PROVE  [r \in Row |-> Text(d, r)] = Abstract!Up(n)
<1> DEFINE t == [r \in Row |-> Text(Settled, r)]
<1>1. ASSUME NEW r \in Row, r + n < ROWS PROVE r + n \in Row
  BY <1>1, SizesAre DEF Row
<1>2. /\ \A r \in Row : t[r] = Text(Settled, r)
      /\ \A r \in Row : r + n < ROWS => t[r + n] = Text(Settled, r + n)
  BY <1>1
<1>3. Abstract!Up(n) = [r \in Row |-> IF r < Settled.scrollStart THEN t[r]
                                     ELSE IF r + n < ROWS THEN t[r + n] ELSE <<>>]
  BY DEF Abstract!Up, Abstract!Row, Row
<1> HIDE DEF t
<1> QED BY <1>2, <1>3

\* a step of Screen, or none, or the end of a line undone
Refines ==
  \/ UNCHANGED Abstract!vars
  \/ Abstract!Next
  \/ Undoes /\ Abstract!LoseEnd

\* Nothing that Screen sees changes.
LEMMA Unseen ==
  ASSUME View(Settled)' = View(Settled) PROVE Refines
BY DEF Refines, View, Abstract!vars

\* Nothing happens but in writes.
LEMMA Stands ==
  ASSUME IInv, UNCHANGED <<con, vga, printer, autoflush, redraw, missed>>
  PROVE  IInv' /\ Refines
<1>1. Settled' = Settled /\ Unmarked' = Unmarked
  BY DEF Settled, Unmarked, Inside, Alone
<1>2. IInv'
  BY <1>1 DEF IInv, Typed, Printing, Alone, Drawing, CleanRowsShown
<1>3. View(Settled)' = View(Settled)
  BY <1>1 DEF View
<1> QED BY <1>2, <1>3, Unseen

\* The kernel writes nothing.
LEMMA NothingStep ==
  ASSUME IInv, Write(con)
  PROVE  IInv' /\ Refines
<1>1. CASE Alone
  <2>1. Settled = con /\ Well(con)
    BY <1>1, AloneIs DEF IInv
  <2>2. Effect(con, con)
    BY <2>1 DEF Effect
  <2>3. IInv' /\ View(Settled)' = View(con)
    BY <1>1, <2>2, WriteOK
  <2> QED BY <2>1, <2>3, Unseen
<1>2. CASE ~Alone
  <2>1. /\ con' = con /\ vga' = vga /\ printer' = printer /\ autoflush' = autoflush
        /\ redraw' = redraw /\ missed' = missed \cup Overwritten(con)
    BY <1>2 DEF IInv, Printing, Write
  <2>2. Overwritten(con) = {}
    BY DEF Overwritten
  <2>3. missed' = missed
    BY <2>1, <2>2
  <2> QED BY <2>1, <2>3, Stands
<1> QED BY <1>1, <1>2

\* c_putchar
LEMMA PutcharStep ==
  ASSUME IInv, NEW ch \in Chars \cup {LF, CR, TAB}, c_putchar(ch)
  PROVE  IInv' /\ Refines
<1> DEFINE e == putchar_scroll(Settled)
           d == vcon_putchar(Settled, ch)
<1>1. Well(Settled) /\ Settled.scrollStart \in Nat /\ Settled.cursorY \in 0 .. ROWS
  BY SizesAre DEF IInv, Well, Consoles
<1>2. Effect(Settled, d) /\ Types(e, d, e.cursorY, ch)
  BY <1>1, PutcharOK
<1>3. Alone /\ Settled = con /\ Write(d)
  BY AloneIs DEF c_putchar
<1>4. /\ e.cursorX = Settled.cursorX /\ e.scrollStart = Settled.scrollStart /\ e.cursorY \in Row
      /\ Settled.cursorY # ROWS => e = Settled
      /\ Settled.cursorY = ROWS =>
           /\ e.cursorY = ROWS - 1
           /\ \A r \in Row : Text(e, r) = IF r < Settled.scrollStart THEN Text(Settled, r)
                                          ELSE IF r + 1 < ROWS THEN Text(Settled, r + 1) ELSE <<>>
  BY <1>1, RoomOK
<1> HIDE DEF e, d
<1>5. IInv' /\ View(Settled)' = View(d)
  BY <1>2, <1>3, WriteOK
<1>6. Abstract!TypeOn([r \in Row |-> Text(e, r)], e.cursorY, ch)
  BY <1>2, <1>4, <1>5, TypeStep
<1>7. Settled'.scrollStart = Settled.scrollStart
  BY <1>2, <1>4, <1>5, Seen DEF Types
<1>8. CASE Settled.cursorY = ROWS
  <2>1. [r \in Row |-> Text(e, r)] = Abstract!Up(1)
    BY <1>1, <1>4, <1>8, UpIs, SizesAre
  <2>2. Abstract!TypeOn(Abstract!Up(1), ROWS - 1, ch)
    BY <1>4, <1>6, <1>8, <2>1
  <2>3. Abstract!Type(ch)
    BY <1>7, <1>8, <2>2 DEF Abstract!Type
  <2> QED BY <1>5, <2>3 DEF Refines, Abstract!Next
<1>9. CASE Settled.cursorY # ROWS
  <2>1. Abstract!TypeOn([r \in Row |-> Text(Settled, r)], Settled.cursorY, ch)
    BY <1>4, <1>6, <1>9
  <2>2. Abstract!Type(ch)
    BY <1>7, <1>9, <2>1 DEF Abstract!Type
  <2> QED BY <1>5, <2>2 DEF Refines, Abstract!Next
<1> QED BY <1>8, <1>9

\* c_putchar_at
LEMMA PutcharAtStep ==
  ASSUME IInv, NEW p \in Places, NEW ch \in Chars \cup {LF}, c_putchar_at(p[1], p[2], ch)
  PROVE  IInv' /\ Refines
<1> DEFINE x == p[1]
           y == p[2]
           d == vcon_putcharAt(Settled, ch, x, y)
           b == vcon_putcharAt(con, ch, x, y)
<1>1. Well(Settled) /\ x \in Nat /\ y \in Nat /\ con \in Consoles
  BY VConsoleAssumption DEF IInv
<1>2. AloneIn(y) /\ Write(b)
  BY DEF c_putchar_at
<1>3. CASE x >= COLUMNS \/ y >= ROWS
  <2>1. b = con
    BY <1>3 DEF vcon_putcharAt
  <2> HIDE DEF b
  <2> QED BY <1>2, <2>1, NothingStep
<1>4. CASE ~(x >= COLUMNS \/ y >= ROWS)
  <2>1. x \in Column /\ y \in Row
    BY <1>1, <1>4, SizesAre DEF Column, Row
  <2>2. /\ Effect(Settled, d) /\ OthersKept(Settled, d, y)
        /\ d.cursorX = Settled.cursorX /\ d.cursorY = Settled.cursorY
        /\ d.scrollStart = Settled.scrollStart
        /\ ch = LF => Text(d, y) \in Abstract!Resized(Text(Settled, y), x)
        /\ ch # LF => Text(d, y) \in Abstract!Written(Text(Settled, y), x, ch)
    BY <1>1, <2>1, PutcharAtOK
  <2>3. ASSUME Alone PROVE IInv' /\ View(Settled)' = View(d)
    <3>1. Settled = con
      BY <2>3, AloneIs
    <3> HIDE DEF b, d
    <3>2. Effect(con, d) /\ Write(d)
      BY <1>2, <2>2, <3>1 DEF b, d
    <3> QED BY <2>3, <3>2, WriteOK
  <2>4. ASSUME ~Alone PROVE IInv' /\ View(Settled)' = View(d)
    <3> DEFINE n == PutLength(con.lineTable[y], ch, x)
    <3>1. /\ Settled.lineTable[y] = con.lineTable[y] /\ Settled.charTable = con.charTable
          /\ InCells(con, y) /\ InCells(Settled, y) /\ Settled \in Consoles
      BY <1>1, <1>2, <2>1, <2>4, BesideIs DEF Well, Apart, InCells
    <3> HIDE DEF b, d, x, y, n
    <3>2. /\ n \in 0 .. COLUMNS /\ LineWritten(con, b, y, n)
          /\ b.charTable = PutCells(con.charTable, con.lineTable[y], ch, x)
      BY <1>1, <2>1, <3>1, PutcharAtIs DEF b, n
    <3>3. /\ LineWritten(Settled, d, y, n)
          /\ d.charTable = PutCells(con.charTable, con.lineTable[y], ch, x)
      BY <2>1, <3>1, PutcharAtIs DEF d, n
    <3>4. d.charTable = b.charTable
      BY <3>2, <3>3
    <3> QED BY <1>2, <2>1, <2>4, <3>2, <3>3, <3>4, BesideOK
  <2> HIDE DEF d, x, y
  <2>5. IInv' /\ View(Settled)' = View(d)
    BY <2>3, <2>4
  <2> DEFINE t == [r \in Row |-> Text(Settled, r)]
  <2>6. /\ [r \in Row |-> Text(Settled, r)]' = [t EXCEPT ![y] = Text(d, y)]
        /\ t[y] = Text(Settled, y)
    <3>1. [r \in Row |-> Text(d, r)] = [t EXCEPT ![y] = Text(d, y)]
      BY <2>2 DEF OthersKept
    <3>2. t[y] = Text(Settled, y)
      BY <2>1
    <3>3. [r \in Row |-> Text(Settled, r)]' = [r \in Row |-> Text(d, r)]
      BY <2>5, Seen
    <3> QED BY <3>1, <3>2, <3>3
  <2>7. Settled'.cursorX = Settled.cursorX /\ Settled'.cursorY = Settled.cursorY
        /\ Settled'.scrollStart = Settled.scrollStart
    BY <2>2, <2>5, Seen
  <2>8. Abstract!Place(ch, x, y)
    BY <2>2, <2>6, <2>7 DEF Abstract!Place
  <2>9. Abstract!Next
    BY <2>1, <2>8 DEF Abstract!Next, Abstract!Row, Abstract!Column, Row, Column
  <2> QED BY <2>5, <2>9 DEF Refines
<1> QED BY <1>3, <1>4

\* marquee_animate
LEMMA MarqueeStep ==
  ASSUME IInv, NEW ch \in Chars, marquee_animate(ch)
  PROVE  IInv' /\ Refines
<1> DEFINE d == Filled(Settled, ch)
           b == Filled(con, ch)
           t == [r \in Row |-> Text(Settled, r)]
           full == [i \in 1 .. COLUMNS |-> ch]
<1>1. Well(Settled) /\ con \in Consoles /\ AloneIn(0) /\ Write(b) /\ 0 \in Row
  BY SizesAre DEF IInv, marquee_animate, Filled
<1>2. /\ Effect(Settled, d) /\ OthersKept(Settled, d, 0)
      /\ d.cursorX = Settled.cursorX /\ d.cursorY = Settled.cursorY /\ d.scrollStart = Settled.scrollStart
      /\ Text(d, 0) = full
  BY <1>1, MarqueeOK
<1> HIDE DEF b, d
<1>3. ASSUME Alone PROVE IInv' /\ View(Settled)' = View(d)
  <2>1. Settled = con
    BY <1>3, AloneIs
  <2>2. Effect(con, d) /\ Write(d)
    BY <1>1, <1>2, <2>1 DEF b, d
  <2> QED BY <1>3, <2>2, WriteOK
<1>4. ASSUME ~Alone PROVE IInv' /\ View(Settled)' = View(d)
  <2>1. /\ Settled.lineTable[0] = con.lineTable[0] /\ Settled.charTable = con.charTable
        /\ InCells(con, 0) /\ InCells(Settled, 0) /\ Settled \in Consoles
    BY <1>1, <1>4, BesideIs DEF Well, Apart, InCells
  <2>2. /\ COLUMNS \in 0 .. COLUMNS /\ LineWritten(con, b, 0, COLUMNS)
        /\ b.charTable = FilledCells(con.charTable, con.lineTable[0], ch)
    BY <1>1, <2>1, MarqueeIs DEF b
  <2>3. /\ LineWritten(Settled, d, 0, COLUMNS)
        /\ d.charTable = FilledCells(con.charTable, con.lineTable[0], ch)
    BY <2>1, MarqueeIs DEF d
  <2>4. d.charTable = b.charTable
    BY <2>2, <2>3
  <2> QED BY <1>1, <1>4, <2>2, <2>3, <2>4, BesideOK
<1>5. IInv' /\ View(Settled)' = View(d)
  BY <1>3, <1>4
<1>6. [r \in Row |-> Text(d, r)] = [t EXCEPT ![0] = full]
  BY <1>2, SizesAre DEF OthersKept
<1>7. [r \in Row |-> Text(Settled, r)]' = [t EXCEPT ![0] = full]
  BY <1>5, <1>6, Seen
<1>8. t[0] = Text(Settled, 0) /\ Len(Text(Settled, 0)) \in 0 .. COLUMNS
  BY <1>1, SizesAre, ShowsIs
<1>9. full = [i \in 1 .. (IF COLUMNS > Len(t[0]) THEN COLUMNS ELSE Len(t[0])) |->
                IF i <= COLUMNS THEN ch ELSE t[0][i]]
  <2>1. (IF COLUMNS > Len(t[0]) THEN COLUMNS ELSE Len(t[0])) = COLUMNS
    BY <1>8, SizesAre
  <2> HIDE DEF t
  <2> QED BY <2>1, SizesAre
<1>10. Settled'.cursorX = Settled.cursorX /\ Settled'.cursorY = Settled.cursorY
      /\ Settled'.scrollStart = Settled.scrollStart
  BY <1>2, <1>5, Seen
<1>11. Abstract!Fill(ch, COLUMNS, 0)
  <2>1. [t EXCEPT ![0] = full]
          = [t EXCEPT ![0] = [i \in 1 .. (IF COLUMNS > Len(@) THEN COLUMNS ELSE Len(@)) |->
                                IF i <= COLUMNS THEN ch ELSE @[i]]]
    BY <1>9
  <2> QED BY <1>7, <1>10, <2>1 DEF Abstract!Fill
<1>12. Abstract!Next
  BY <1>11, SizesAre DEF Abstract!Next, Abstract!Row, Row
<1> QED BY <1>5, <1>12 DEF Refines

\* c_clearscreen
LEMMA ClearStep ==
  ASSUME IInv, c_clearscreen
  PROVE  IInv' /\ Refines
<1> DEFINE d == vcon_clear(Settled)
<1>1. Well(Settled) /\ Alone /\ Settled = con /\ Write(d)
  BY AloneIs DEF IInv, c_clearscreen
<1>2. /\ Effect(Settled, d) /\ \A r \in Row : Text(d, r) = <<>>
      /\ d.cursorX = 0 /\ d.cursorY = Settled.scrollStart /\ d.scrollStart = Settled.scrollStart
  BY <1>1, ClearOK
<1> HIDE DEF d
<1>3. IInv' /\ View(Settled)' = View(d)
  BY <1>1, <1>2, WriteOK
<1>4. /\ [r \in Row |-> Text(Settled, r)]' = [r \in Row |-> Text(d, r)]
      /\ Settled'.cursorX = 0 /\ Settled'.cursorY = Settled.scrollStart
      /\ Settled'.scrollStart = Settled.scrollStart
  BY <1>2, <1>3, Seen
<1>5. [r \in Row |-> Text(d, r)] = [r \in Row |-> <<>>]
  BY <1>2
<1>6. Abstract!Clear
  BY <1>4, <1>5 DEF Abstract!Clear, Abstract!Row, Row
<1> QED BY <1>3, <1>6 DEF Refines, Abstract!Next

\* Clearing the region, by c_clearscroll or by scrolling all of it away.
LEMMA ClearRegionStep ==
  ASSUME IInv, Alone, Write(vcon_clearScroll(con))
  PROVE  IInv' /\ Refines
<1> DEFINE d == vcon_clearScroll(Settled)
           n == ROWS - Settled.scrollStart
<1>1. /\ Well(Settled) /\ Settled = con /\ Write(d)
      /\ Settled.scrollStart \in 0 .. ROWS - 2
  BY AloneIs DEF IInv, Well, Consoles
<1>2. /\ Effect(Settled, d)
      /\ \A r \in Row : Text(d, r) = IF r < Settled.scrollStart THEN Text(Settled, r) ELSE <<>>
      /\ d.cursorX = 0 /\ d.cursorY = 0 /\ d.scrollStart = Settled.scrollStart
  BY <1>1, ClearScrollOK
<1> HIDE DEF d
<1>3. IInv' /\ View(Settled)' = View(d)
  BY <1>1, <1>2, WriteOK
<1>4. n \in 1 .. ROWS /\ Settled.scrollStart \in Nat
  BY <1>1, SizesAre
<1>5. ASSUME NEW r \in Row
      PROVE  Text(d, r) = IF r < Settled.scrollStart THEN Text(Settled, r)
                          ELSE IF r + n < ROWS THEN Text(Settled, r + n) ELSE <<>>
  <2>1. ~(r < Settled.scrollStart) => ~(r + n < ROWS)
    BY <1>1, SizesAre DEF Row
  <2> HIDE DEF n
  <2> QED BY <1>2, <2>1
<1>6. [r \in Row |-> Text(d, r)] = Abstract!Up(n)
  <2> HIDE DEF n
  <2> QED BY <1>4, <1>5, UpIs
<1>7. /\ [r \in Row |-> Text(Settled, r)]' = Abstract!Up(n)
      /\ Settled'.cursorX = 0 /\ Settled'.cursorY = 0 /\ Settled'.scrollStart = Settled.scrollStart
  BY <1>2, <1>3, <1>6, Seen
<1>8. Abstract!ClearRegion
  BY <1>7 DEF Abstract!ClearRegion
<1> QED BY <1>3, <1>8 DEF Refines, Abstract!Next

\* c_scroll
LEMMA ScrollStep ==
  ASSUME IInv, NEW lines \in 1 .. ROWS, c_scroll(lines)
  PROVE  IInv' /\ Refines
<1> DEFINE d == vcon_scroll(Settled, lines)
<1>1. /\ Well(Settled) /\ Alone /\ Settled = con /\ Write(d)
      /\ Settled.scrollStart \in 0 .. ROWS - 2 /\ Settled.scrollEnd = ROWS /\ Settled.scrollStart \in Nat
  BY SizesAre, AloneIs DEF IInv, Well, Consoles, c_scroll
<1>2. CASE lines >= ROWS - Settled.scrollStart
  <2>1. d = vcon_clearScroll(Settled)
    BY <1>1, <1>2 DEF vcon_scroll
  <2> HIDE DEF d
  <2> QED BY <1>1, <2>1, ClearRegionStep
<1>3. CASE ~(lines >= ROWS - Settled.scrollStart)
  <2>1. lines < ROWS - Settled.scrollStart
    BY <1>1, <1>3, SizesAre
  <2>2. /\ Effect(Settled, d)
        /\ d.cursorX = Settled.cursorX /\ d.cursorY = Settled.cursorY
        /\ d.scrollStart = Settled.scrollStart
        /\ \A r \in Row : Text(d, r) = IF r < Settled.scrollStart THEN Text(Settled, r)
                                       ELSE IF r + lines < ROWS THEN Text(Settled, r + lines)
                                       ELSE <<>>
    BY <1>1, <2>1, ScrollOK
  <2> HIDE DEF d
  <2>3. IInv' /\ View(Settled)' = View(d)
    BY <1>1, <2>2, WriteOK
  <2>4. [r \in Row |-> Text(d, r)] = Abstract!Up(lines)
    BY <1>1, <2>2, UpIs
  <2>5. /\ [r \in Row |-> Text(Settled, r)]' = Abstract!Up(lines)
        /\ Settled'.cursorX = Settled.cursorX /\ Settled'.cursorY = Settled.cursorY
        /\ Settled'.scrollStart = Settled.scrollStart
    BY <2>2, <2>3, <2>4, Seen
  <2>6. Abstract!Scroll(lines)
    BY <2>1, <2>5 DEF Abstract!Scroll
  <2> QED BY <2>3, <2>6 DEF Refines, Abstract!Next
<1> QED BY <1>2, <1>3

\* c_moveto
LEMMA MoveStep ==
  ASSUME IInv, NEW p \in Places, c_moveto(p[1], p[2])
  PROVE  IInv' /\ Refines
<1> DEFINE x == p[1]
           y == p[2]
           d == vcon_setCursor(Settled, x, y)
<1>1. /\ Well(Settled) /\ Settled \in Consoles /\ x \in Nat /\ y \in Nat
      /\ Settled = con /\ Place(d)
  BY VConsoleAssumption, AloneIs DEF IInv, Well, c_moveto, Place
<1>2. CASE x >= COLUMNS \/ y >= ROWS
  <2>1. d = Settled
    BY <1>2 DEF vcon_setCursor
  <2> HIDE DEF d
  <2>2. IInv' /\ View(Settled)' = View(Settled)
    BY <1>1, <2>1, PlaceOK
  <2> QED BY <2>2, Unseen
<1>3. CASE ~(x >= COLUMNS \/ y >= ROWS)
  <2>1. x \in Column /\ y \in Row /\ y \in 0 .. ROWS
    BY <1>1, <1>3, SizesAre DEF Column, Row
  <2>2. d = [Settled EXCEPT !.cursorX = x, !.cursorY = y]
    BY <1>3 DEF vcon_setCursor
  <2> HIDE DEF d, x, y
  <2>3. /\ d \in Consoles /\ d.lineTable = Settled.lineTable /\ d.charTable = Settled.charTable
        /\ d.cursorX = x /\ d.cursorY = y /\ d.scrollStart = Settled.scrollStart
    BY <1>1, <2>1, <2>2 DEF Consoles
  <2>4. IInv' /\ View(Settled)' = View(d)
    BY <1>1, <2>3, PlaceOK
  <2>5. \A r \in Row : Text(d, r) = Text(Settled, r)
    BY <1>1, <2>3, CursorOK
  <2>6. /\ [r \in Row |-> Text(Settled, r)]' = [r \in Row |-> Text(Settled, r)]
        /\ Settled'.cursorX = x /\ Settled'.cursorY = y /\ Settled'.scrollStart = Settled.scrollStart
    BY <2>3, <2>4, <2>5, Seen
  <2>7. Abstract!MoveTo(x, y)
    BY <2>6 DEF Abstract!MoveTo
  <2>8. Abstract!Next
    BY <2>1, <2>7 DEF Abstract!Next, Abstract!Row, Abstract!Column, Row, Column
  <2> QED BY <2>4, <2>8 DEF Refines
<1> QED BY <1>2, <1>3

\* c_setscroll
LEMMA SetScrollStep ==
  ASSUME IInv, NEW start \in Tops, c_setscroll(start)
  PROVE  IInv' /\ Refines
<1> DEFINE d == vcon_setScroll(Settled, start, ROWS)
<1>1. /\ Well(Settled) /\ Settled \in Consoles /\ Settled = con /\ Place(d)
      /\ start \in 0 .. ROWS - 2
  BY VConsoleAssumption, AloneIs DEF IInv, Well, c_setscroll, Place
<1>2. start \in Row /\ start \in 0 .. ROWS /\ ~(start >= ROWS \/ ROWS > ROWS)
  BY <1>1, SizesAre DEF Row
<1>3. d = [Settled EXCEPT !.scrollStart = start, !.scrollEnd = ROWS, !.cursorX = 0,
                      !.cursorY = start]
  BY <1>2 DEF vcon_setScroll
<1> HIDE DEF d
<1>4. /\ d \in Consoles /\ d.lineTable = Settled.lineTable /\ d.charTable = Settled.charTable
      /\ d.cursorX = 0 /\ d.cursorY = start /\ d.scrollStart = start
  BY <1>1, <1>2, <1>3, SizesAre DEF Consoles
<1>5. IInv' /\ View(Settled)' = View(d)
  BY <1>1, <1>4, PlaceOK
<1>6. \A r \in Row : Text(d, r) = Text(Settled, r)
  BY <1>1, <1>4, CursorOK
<1>7. /\ [r \in Row |-> Text(Settled, r)]' = [r \in Row |-> Text(Settled, r)]
      /\ Settled'.cursorX = 0 /\ Settled'.cursorY = start /\ Settled'.scrollStart = start
  BY <1>4, <1>5, <1>6, Seen
<1>8. Abstract!SetTop(start)
  BY <1>7 DEF Abstract!SetTop
<1>9. Abstract!Next
  BY <1>2, <1>8 DEF Abstract!Next, Abstract!Row, Row
<1> QED BY <1>5, <1>9 DEF Refines

-----------------------------------------------------------------------------
(* Printer's steps *)

\* f has the lines, the cells and the cursor of e
Alike(f, e) ==
  /\ \A r \in Row : f.lineTable[r] = e.lineTable[r]
  /\ f.charTable = e.charTable /\ f.cursorX = e.cursorX /\ f.cursorY = e.cursorY
  /\ f.scrollStart = e.scrollStart

\* Then it looks like e.
LEMMA AlikeIs ==
  ASSUME NEW e, Well(e), NEW f \in Consoles, Alike(f, e)
  PROVE  Well(f) /\ View(f) = View(e)
<1>1. Apart(f.lineTable)
  BY DEF Well, Apart, Alike
<1>2. \A r \in Row : Text(f, r) = Text(e, r)
  BY DEF Text, Shows, Alike
<1>3. [r \in Row |-> Text(f, r)] = [r \in Row |-> Text(e, r)]
  BY <1>2
<1> QED BY <1>1, <1>3 DEF Well, View, Alike

\* What is known while Printer is inside.
LEMMA PrinterIs ==
  ASSUME IInv, ~Alone, NEW p, p = printer[1]
  PROVE  /\ printer = <<p>> /\ Good(con, p) /\ p \in Printers /\ p.row \in Row
         /\ p.line \in Lines /\ p.first \in Lines /\ p.col \in Column
         /\ ~autoflush /\ con \in Consoles /\ Settled = Settle(con, p) /\ Well(Settled)
         /\ con.lineTable \in [Row -> Lines] /\ con.charTable \in [Storage -> Cells]
         /\ con.scrollStart \in Nat
         /\ Aliased(con.lineTable, Settled.lineTable, p, con.scrollStart)
         /\ Alike(Settled, Settle(con, p)) /\ Settled \in Consoles
         /\ Settled.scrollStart = con.scrollStart /\ Settled.charTable = con.charTable
         /\ Settled.cursorX = SettledX(con, p) /\ Settled.cursorY = SettledY(con, p)
         /\ \A r \in Row : Settled.lineTable[r] = SettledLine(con.lineTable, p, r)
<1>1. /\ printer = <<p>> /\ Good(con, p) /\ ~autoflush /\ con \in Consoles
      /\ Settled = Settle(con, p) /\ Well(Settled)
      /\ Aliased(con.lineTable, Settled.lineTable, p, con.scrollStart)
  BY DEF IInv, Printing, Settled
<1>2. /\ p \in Printers /\ p.row \in Row /\ p.line \in Lines /\ p.first \in Lines
      /\ p.col \in Column
  BY <1>1 DEF Good, Printers
<1>3. /\ con.lineTable \in [Row -> Lines] /\ con.charTable \in [Storage -> Cells]
      /\ con.scrollStart \in Nat
  BY <1>1, SizesAre DEF Consoles
<1>4. /\ Settled \in Consoles
      /\ Settled.scrollStart = con.scrollStart /\ Settled.charTable = con.charTable
      /\ Settled.cursorX = SettledX(con, p) /\ Settled.cursorY = SettledY(con, p)
      /\ \A r \in Row : Settled.lineTable[r] = SettledLine(con.lineTable, p, r)
  BY <1>1, SettleIs
<1> QED BY <1>1, <1>2, <1>3, <1>4 DEF Alike

\* Printer, which is or stays inside and comes to q, leaves the console d.
Comes(q, d) ==
  /\ ~autoflush /\ autoflush' = autoflush /\ printer' = <<q>>
  /\ d \in Consoles /\ Stores(d) /\ MarksAll(d) /\ Good(d, q)

\* The invariant is kept if what Printer will leave is like a console e.
LEMMA ComesOK ==
  ASSUME IInv, NEW q, NEW d, Comes(q, d), NEW e, Well(e), Alike(Settle(d, q), e),
         Aliased(d.lineTable, e.lineTable, q, d.scrollStart)
  PROVE  IInv' /\ View(Settled)' = View(e)
<1>1. PICK f : f = Settle(d, q)
  OBVIOUS
<1>2. f \in Consoles
  BY <1>1, SettleIs DEF Comes
<1>3. Well(f) /\ View(f) = View(e)
  BY <1>1, <1>2, AlikeIs
<1>4. con' = d /\ printer' = <<q>> /\ ~autoflush' /\ printer'[1] = q /\ vga' = vga /\ redraw' = redraw
  BY DEF Comes, Stores
<1>5. ~Alone'
  BY <1>4 DEF Alone
<1>6. Settled' = f
  BY <1>1, <1>4, <1>5 DEF Settled
<1>7. Aliased(d.lineTable, f.lineTable, q, d.scrollStart)
  <2>1. \A r \in Row : f.lineTable[r] = e.lineTable[r]
    BY <1>1 DEF Alike
  <2> QED BY <2>1 DEF Aliased
<1>8. Printing'
  BY <1>4, <1>6, <1>7 DEF Printing, Comes
<1>9. Typed'
  BY <1>4 DEF IInv, Typed, Comes
<1>10. Drawing' /\ CleanRowsShown'
  BY MarksOK DEF IInv, Comes
<1> QED BY <1>3, <1>4, <1>6, <1>8, <1>9, <1>10 DEF IInv, Comes

\* Printer goes on with what it has begun.
LEMMA OnwardOK ==
  ASSUME IInv, NEW q, NEW d, Comes(q, d), Alike(Settle(d, q), Settled),
         Aliased(d.lineTable, Settled.lineTable, q, d.scrollStart)
  PROVE  IInv' /\ Refines
<1>1. Well(Settled)
  BY DEF IInv
<1>2. IInv' /\ View(Settled)' = View(Settled)
  BY <1>1, ComesOK
<1> QED BY <1>2, Unseen

\* Only loads: nothing is overwritten, and no mark is due.
LEMMA LoadsOK ==
  ASSUME UNCHANGED <<con, vga, redraw, missed>>, Unmarked = {}
  PROVE  Stores(con) /\ MarksAll(con)
<1>1. Overwritten(con) = {}
  BY DEF Overwritten
<1> QED BY <1>1 DEF Stores, MarksAll

\* Printer has stored no cell that is not marked.
LEMMA NoneUnmarked ==
  ASSUME NEW p, p = printer[1], p.at # "mark" \/ p.ch \notin Chars
  PROVE  Unmarked = {}
BY DEF Unmarked, Inside

\* A character typed where the cursor is.
LEMMA TypedStep ==
  ASSUME NEW e, NEW ch \in Typeable, Settled.cursorY \in Row,
         Types(Settled, e, Settled.cursorY, ch), View(Settled)' = View(e)
  PROVE  Refines
<1>1. Abstract!TypeOn([r \in Row |-> Text(Settled, r)], Settled.cursorY, ch)
  BY TypeStep DEF Typeable
<1>2. Settled'.scrollStart = Settled.scrollStart /\ Settled.cursorY # ROWS
  BY Seen, SizesAre DEF Types, Row
<1>3. Abstract!Type(ch)
  BY <1>1, <1>2 DEF Abstract!Type
<1> QED BY <1>3 DEF Refines, Abstract!Next, Typeable

\* Marking a line keeps its end.
LEMMA MarkedIs ==
  ASSUME NEW l \in Lines
  PROVE  Marked(l) = Ended(l, l.length)
<1>1. PICK b : b = TRUE
  OBVIOUS
<1>2. [l EXCEPT !.dirty = b] = [offset |-> l.offset, length |-> l.length, dirty |-> b]
  BY SMT DEF Lines
<1> QED BY <1>1, <1>2, Zenon DEF Marked, Ended, Line

\* Printer enters vcon_putchar.
LEMMA EnterStep ==
  ASSUME IInv, NEW ch \in Typeable, printer_enter(ch)
  PROVE  IInv' /\ Refines
<1> DEFINE t == con.lineTable
           top == con.scrollStart
           full == con.cursorY = con.scrollEnd
           row == IF full THEN top ELSE con.cursorY
           first == Line(t[row].offset, 0, TRUE)
           e == putchar_scroll(con)
<1>1. /\ Settled = con /\ Unmarked = {} /\ Well(con) /\ con \in Consoles /\ ~autoflush
      /\ con.scrollEnd = ROWS /\ con.cursorY \in 0 .. ROWS /\ top \in 0 .. ROWS - 2
      /\ con.cursorX \in Column /\ t \in [Row -> Lines]
  BY AloneIs DEF IInv, printer_enter, Consoles
<1>2. PICK q : q = [at |-> IF full THEN "take" ELSE "load", row |-> row,
                    col |-> con.cursorX, line |-> first, first |-> first, ch |-> ch]
  OBVIOUS
<1>3. /\ printer' = <<q>> /\ autoflush' = autoflush /\ Stores(con) /\ MarksAll(con)
  BY <1>1, <1>2, LoadsOK DEF printer_enter
<1>4. row \in Row /\ row \in Nat
  BY <1>1, SizesAre DEF Row
<1>5. first \in Lines /\ first.dirty /\ first.offset = t[row].offset /\ first.length = 0
  <2>1. t[row] \in Lines /\ 0 \in 0 .. COLUMNS
    BY <1>1, <1>4, SizesAre
  <2>2. first = Ended(t[row], 0)
    BY DEF Ended
  <2> HIDE DEF first, row
  <2> QED BY <2>1, <2>2, EndedIs
<1> HIDE DEF first
<1>6. /\ q \in Printers /\ q.col = con.cursorX /\ q.row = row /\ q.line = first
      /\ q.first = first /\ q.ch = ch /\ q.at = IF full THEN "take" ELSE "load"
  <2> HIDE DEF row, full
  <2> QED BY <1>1, <1>2, <1>4, <1>5 DEF Printers
<1>7. full => row = top /\ row + 1 \in Row /\ con.cursorY = ROWS
  BY <1>1, SizesAre DEF Row
<1>8. ~full => row = con.cursorY /\ con.cursorY # ROWS
  BY <1>1
<1> HIDE DEF full, row
<1>9. Good(con, q)
  <2>1. full => top <= row
    BY <1>1, <1>7, SizesAre
  <2> QED BY <1>5, <1>6, <1>7, <1>8, <2>1 DEF Good
<1>10. Comes(q, con)
  BY <1>1, <1>3, <1>9 DEF Comes
<1>11. CASE ~full
  <2>1. Settle(con, q) = con
    BY <1>6, <1>11 DEF Settle
  <2>2. Alike(Settle(con, q), Settled) /\ Aliased(t, Settled.lineTable, q, top)
    BY <1>1, <2>1 DEF Alike, Aliased
  <2> QED BY <1>10, <2>2, OnwardOK
<1>12. CASE full
  <2>1. /\ Effect(con, e) /\ e.cursorX = con.cursorX /\ e.scrollStart = top
        /\ e.cursorY = ROWS - 1
        /\ \A r \in Row : Text(e, r) = IF r < top THEN Text(con, r)
                                       ELSE IF r + 1 < ROWS THEN Text(con, r + 1) ELSE <<>>
    BY <1>1, <1>7, <1>12, RoomOK
  <2>2. /\ Settle(con, q) \in Consoles /\ Settle(con, q).scrollStart = top
        /\ Settle(con, q).charTable = con.charTable
        /\ Settle(con, q).cursorX = con.cursorX /\ Settle(con, q).cursorY = ROWS - 1
        /\ \A r \in Row : Settle(con, q).lineTable[r] = SettledLine(t, q, r)
    BY <1>1, <1>6, <1>7, <1>9, <1>12, SettleIs DEF SettledX, SettledY
  <2> DEFINE u == [r \in Row |-> IF r < top \/ r >= ROWS THEN t[r]
                                 ELSE IF r < ROWS - 1 THEN Marked(t[r + 1])
                                 ELSE Line(t[r - (ROWS - 1) + top].offset, 0, TRUE)]
  <2>3. e.lineTable = u /\ e.charTable = con.charTable
    <3>1. ~(1 >= ROWS - top)
      BY <1>1, SizesAre
    <3>2. vcon_scroll(con, 1) = [con EXCEPT !.lineTable = u]
      BY <1>1, <3>1 DEF vcon_scroll, Marked
    <3>3. e = [vcon_scroll(con, 1) EXCEPT !.cursorY = @ - 1]
      BY <1>1, <1>7, <1>12 DEF putchar_scroll
    <3> HIDE DEF u
    <3> QED BY <1>1, <3>2, <3>3 DEF Consoles
  <2>4. ASSUME NEW r \in Row PROVE u[r] = SettledLine(t, q, r)
    <3>1. r \in Nat /\ r < ROWS /\ (r + 1 # ROWS => r + 1 \in Row)
      BY SizesAre DEF Row
    <3>2. CASE r < top
      BY <1>6, <1>7, <1>12, <3>2 DEF SettledLine
    <3>3. CASE ~(r < top) /\ r < ROWS - 1
      <4>1. SettledLine(t, q, r) = Ended(t[r + 1], t[r + 1].length)
        BY <1>6, <1>7, <1>12, <3>1, <3>3, SizesAre DEF SettledLine
      <4>2. Marked(t[r + 1]) = Ended(t[r + 1], t[r + 1].length)
        <5>1. t[r + 1] \in Lines
          BY <1>1, <3>1, <3>3, SizesAre
        <5> QED BY <5>1, MarkedIs
      <4>3. u[r] = Marked(t[r + 1])
        <5>1. ~(r < top \/ r >= ROWS)
          BY <3>1, <3>3, SizesAre
        <5> QED BY <3>3, <5>1
      <4> QED BY <4>1, <4>2, <4>3
    <3>4. CASE ~(r < top) /\ ~(r < ROWS - 1)
      <4>1. r = ROWS - 1 /\ r - (ROWS - 1) + top = top /\ r + 1 = ROWS /\ ~(r >= ROWS)
        BY <1>1, <3>1, <3>4, SizesAre
      <4>2. u[r] = Line(t[top].offset, 0, TRUE)
        BY <3>4, <4>1
      <4>3. SettledLine(t, q, r) = first
        BY <1>6, <1>7, <1>12, <3>4, <4>1 DEF SettledLine
      <4>4. first = Line(t[top].offset, 0, TRUE)
        BY <1>7, <1>12 DEF first
      <4> QED BY <4>2, <4>3, <4>4
    <3> QED BY <3>2, <3>3, <3>4
  <2> HIDE DEF u, e
  <2>5. Alike(Settle(con, q), e) /\ Well(e)
    BY <2>1, <2>2, <2>3, <2>4 DEF Alike, Effect
  <2>6. Aliased(t, e.lineTable, q, top)
    <3>1. ASSUME NEW r \in Row
          PROVE  \E s \in Row : /\ t[r].offset = e.lineTable[s].offset
                                /\ s = r \/ (r >= top /\ s >= top)
      <4>0. r \in Nat /\ top \in Nat /\ ROWS \in Nat /\ r < ROWS
        BY <1>1, SizesAre DEF Row
      <4>1. CASE r < top
        <5>1. e.lineTable[r] = t[r]
          BY <1>6, <1>7, <1>12, <2>3, <2>4, <4>1 DEF SettledLine
        <5> QED BY <5>1
      <4>2. CASE r = top
        <5>1. ROWS - 1 \in Row /\ ROWS - 1 >= top /\ ~(ROWS - 1 < top) /\ ROWS - 1 + 1 = ROWS
          BY <1>1, SizesAre
        <5>2. SettledLine(t, q, ROWS - 1) = first
          BY <1>6, <1>7, <1>12, <5>1 DEF SettledLine
        <5>3. e.lineTable[ROWS - 1].offset = t[r].offset
          BY <1>5, <1>7, <1>12, <2>3, <2>4, <4>2, <5>1, <5>2
        <5> QED BY <4>0, <4>2, <5>1, <5>3
      <4>3. CASE r > top
        <5>1. /\ r - 1 \in Row /\ ~(r - 1 < top) /\ r - 1 >= top /\ r - 1 + 1 = r /\ r # ROWS
              /\ r >= top
          BY <4>0, <4>3 DEF Row
        <5>2. SettledLine(t, q, r - 1) = Ended(t[r], t[r].length)
          BY <1>6, <1>7, <1>12, <5>1 DEF SettledLine
        <5>3. e.lineTable[r - 1].offset = t[r].offset
          BY <2>3, <2>4, <5>1, <5>2 DEF Ended, Line
        <5> QED BY <5>1, <5>3
      <4> QED BY <4>0, <4>1, <4>2, <4>3
    <3> QED BY <1>6, <1>12, <3>1 DEF Aliased
  <2>7. IInv' /\ View(Settled)' = View(e)
    BY <1>10, <2>5, <2>6, ComesOK
  <2>8. [r \in Row |-> Text(e, r)] = Abstract!Up(1)
    <3>1. 1 \in 1 .. ROWS /\ Settled.scrollStart \in Nat
      BY <1>1, SizesAre
    <3>2. \A r \in Row : Text(e, r) = IF r < Settled.scrollStart THEN Text(Settled, r)
                                       ELSE IF r + 1 < ROWS THEN Text(Settled, r + 1) ELSE <<>>
      BY <1>1, <2>1
    <3> QED BY <3>1, <3>2, UpIs
  <2>9. /\ [r \in Row |-> Text(Settled, r)]' = Abstract!Up(1)
        /\ Settled'.cursorX = Settled.cursorX /\ Settled'.cursorY = ROWS - 1
        /\ Settled'.scrollStart = Settled.scrollStart
    BY <1>1, <2>1, <2>7, <2>8, Seen
  <2>10. Abstract!MakeRoom
    BY <1>1, <1>7, <1>12, <2>9 DEF Abstract!MakeRoom
  <2> QED BY <2>7, <2>10 DEF Refines, Abstract!Next
<1> QED BY <1>11, <1>12

\* A line that is marked is not changed by marking it.
LEMMA DirtyIs ==
  ASSUME NEW l \in Lines, l.dirty
  PROVE  Ended(l, l.length) = l
<1>1. PICK b : b = TRUE
  OBVIOUS
<1>2. l.dirty = b
  BY <1>1, Zenon DEF Lines
<1>3. l = [offset |-> l.offset, length |-> l.length, dirty |-> b]
  BY <1>2, SMT DEF Lines
<1> QED BY <1>1, <1>3, Zenon DEF Ended, Line

\* A line of the region's is loaded.
LEMMA TakeStep ==
  ASSUME IInv, scroll_take
  PROVE  IInv' /\ Refines
<1>1. ~Alone /\ printer[1].at = "take"
  BY DEF scroll_take, Inside
<1>2. PICK p : p = printer[1]
  OBVIOUS
<1>3. /\ printer = <<p>> /\ Good(con, p) /\ p \in Printers /\ p.row \in Row
      /\ ~autoflush /\ con \in Consoles /\ con.lineTable \in [Row -> Lines]
      /\ Aliased(con.lineTable, Settled.lineTable, p, con.scrollStart)
      /\ Settled.scrollStart = con.scrollStart /\ Settled.charTable = con.charTable
      /\ Settled.cursorX = SettledX(con, p) /\ Settled.cursorY = SettledY(con, p)
      /\ \A r \in Row : Settled.lineTable[r] = SettledLine(con.lineTable, p, r)
  BY <1>1, <1>2, PrinterIs
<1>4. PICK l : l = con.lineTable[p.row + 1]
  OBVIOUS
<1>5. l \in Lines /\ p.at = "take" /\ p.row + 1 \in Row
  BY <1>1, <1>2, <1>3, <1>4 DEF Good
<1>6. PICK q : q = [p EXCEPT !.at = "put", !.line = l]
  OBVIOUS
<1>7. /\ q \in Printers /\ q.at = "put" /\ q.row = p.row /\ q.col = p.col /\ q.line = l
      /\ q.first = p.first /\ q.ch = p.ch
  BY <1>3, <1>5, <1>6 DEF Printers
<1>8. printer' = <<q>> /\ autoflush' = autoflush /\ UNCHANGED <<con, vga, redraw, missed>>
  BY <1>2, <1>3, <1>4, <1>6 DEF scroll_take, Goto
<1>9. Stores(con) /\ MarksAll(con)
  BY <1>2, <1>5, <1>8, LoadsOK, NoneUnmarked
<1>10. Good(con, q)
  BY <1>3, <1>5, <1>7 DEF Good
<1>11. Comes(q, con)
  BY <1>3, <1>8, <1>9, <1>10 DEF Comes
<1>12. /\ Settle(con, q).scrollStart = con.scrollStart
       /\ Settle(con, q).charTable = con.charTable
       /\ Settle(con, q).cursorX = SettledX(con, q) /\ Settle(con, q).cursorY = SettledY(con, q)
       /\ \A r \in Row : Settle(con, q).lineTable[r] = SettledLine(con.lineTable, q, r)
  BY <1>3, <1>10, SettleIs
<1>13. ASSUME NEW r \in Row
       PROVE  SettledLine(con.lineTable, q, r) = SettledLine(con.lineTable, p, r)
  <2>1. p.row + 1 # ROWS
    BY <1>3, <1>5, SizesAre DEF Row
  <2>2. CASE r = p.row
    <3>1. ~(r < p.row)
      BY <1>3, <2>2, SizesAre
    <3> QED BY <1>4, <1>5, <1>7, <2>1, <2>2, <3>1 DEF SettledLine
  <2>3. CASE r # p.row
    BY <1>5, <1>7, <2>3 DEF SettledLine
  <2> QED BY <2>2, <2>3
<1>14. Alike(Settle(con, q), Settled)
  BY <1>3, <1>5, <1>7, <1>12, <1>13 DEF Alike, SettledX, SettledY
<1>15. Aliased(con.lineTable, Settled.lineTable, q, con.scrollStart)
  BY <1>3, <1>5, <1>7 DEF Aliased
<1> QED BY <1>11, <1>14, <1>15, OnwardOK

\* It is stored one row higher, or the first one at the bottom.
LEMMA PutStep ==
  ASSUME IInv, scroll_put
  PROVE  IInv' /\ Refines
<1>1. ~Alone /\ printer[1].at = "put"
  BY DEF scroll_put, Inside
<1>2. PICK p : p = printer[1]
  OBVIOUS
<1>3. /\ printer = <<p>> /\ Good(con, p) /\ p \in Printers /\ p.row \in Row
      /\ p.line \in Lines /\ p.first \in Lines
      /\ ~autoflush /\ con \in Consoles /\ con.lineTable \in [Row -> Lines]
      /\ con.scrollStart \in Nat
      /\ Aliased(con.lineTable, Settled.lineTable, p, con.scrollStart)
      /\ Settled.scrollStart = con.scrollStart /\ Settled.charTable = con.charTable
      /\ Settled.cursorX = SettledX(con, p) /\ Settled.cursorY = SettledY(con, p)
      /\ \A r \in Row : Settled.lineTable[r] = SettledLine(con.lineTable, p, r)
  BY <1>1, <1>2, PrinterIs
<1>4. /\ p.at = "put" /\ con.cursorY = ROWS /\ con.scrollStart <= p.row /\ p.first.dirty
      /\ p.col = con.cursorX /\ con.scrollEnd = ROWS
  BY <1>1, <1>2, <1>3 DEF Good, Consoles
<1>5. PICK k : k = p.row
  OBVIOUS
<1>6. k \in Row /\ k \in Nat /\ k < ROWS /\ ROWS \in Nat /\ ROWS >= 2
  BY <1>3, <1>5, SizesAre DEF Row
<1>7. PICK l : l = Ended(p.line, p.line.length)
  OBVIOUS
<1>8. l \in Lines /\ l.dirty
  <2>1. p.line.length \in 0 .. COLUMNS
    BY <1>3 DEF Lines
  <2> QED BY <1>3, <1>7, <2>1, EndedIs
<1>9. PICK b : b = [con EXCEPT !.lineTable[k] = l]
  OBVIOUS
<1>10. /\ b \in Consoles /\ b.lineTable = [con.lineTable EXCEPT ![k] = l]
       /\ b.charTable = con.charTable /\ b.cursorX = con.cursorX /\ b.cursorY = con.cursorY
       /\ b.scrollStart = con.scrollStart
  BY <1>3, <1>6, <1>8, <1>9, RowStored
<1>11. b.lineTable[k] = l /\ \A r \in Row \ {k} : b.lineTable[r] = con.lineTable[r]
  BY <1>3, <1>6, <1>10
<1>12. Settled.lineTable[k] = l
  <2>1. ~(k < k)
    BY <1>6
  <2> QED BY <1>3, <1>4, <1>5, <1>6, <1>7, <2>1 DEF SettledLine
<1>13. ASSUME NEW d, d.lineTable = b.lineTable, d.charTable = b.charTable, Stores(d)
       PROVE  MarksAll(d)
  <2>1. Unmarked = {}
    BY <1>2, <1>4, NoneUnmarked
  <2>2. \A r \in Row \ {k} : Text(d, r) = Text(con, r)
    BY <1>10, <1>11, <1>13 DEF Text, Shows
  <2> QED BY <1>8, <1>11, <1>13, <2>1, <2>2 DEF MarksAll
<1>14. CASE k = ROWS - 1
  <2>1. PICK d : d = [b EXCEPT !.cursorY = @ - 1]
    OBVIOUS
  <2>2. PICK q : q = [p EXCEPT !.at = "load"]
    OBVIOUS
  <2>3. /\ d \in Consoles /\ d.lineTable = b.lineTable /\ d.charTable = b.charTable
        /\ d.cursorX = con.cursorX /\ d.cursorY = ROWS - 1 /\ d.scrollStart = con.scrollStart
    <3>1. ROWS - 1 \in 0 .. ROWS
      BY <1>6
    <3> QED BY <1>4, <1>10, <2>1, <3>1 DEF Consoles
  <2>4. /\ q \in Printers /\ q.at = "load" /\ q.row = p.row /\ q.col = p.col /\ q.line = p.line
        /\ q.first = p.first /\ q.ch = p.ch
    BY <1>3, <2>2 DEF Printers
  <2>5. printer' = <<q>> /\ autoflush' = autoflush /\ Stores(d)
    <3>1. printer' = Goto("load") /\ Store(d)
      BY <1>2, <1>4, <1>5, <1>7, <1>9, <1>14, <2>1 DEF scroll_put, Ended
    <3> QED BY <1>2, <1>3, <2>2, <3>1 DEF Goto, Store, Stores
  <2>6. Good(d, q)
    BY <1>4, <1>5, <1>14, <2>3, <2>4 DEF Good
  <2>7. Comes(q, d)
    BY <1>3, <1>13, <2>3, <2>5, <2>6 DEF Comes
  <2>8. Settle(d, q) = d
    BY <2>4 DEF Settle
  <2>9. ASSUME NEW r \in Row PROVE d.lineTable[r] = Settled.lineTable[r]
    <3>1. CASE r = k
      BY <1>11, <1>12, <2>3, <3>1
    <3>2. CASE r # k
      <4>1. r < p.row
        BY <1>5, <1>6, <1>14, <3>2 DEF Row
      <4> QED BY <1>3, <1>4, <1>11, <2>3, <3>2, <4>1 DEF SettledLine
    <3> QED BY <3>1, <3>2
  <2>10. Alike(Settle(d, q), Settled)
    BY <1>3, <1>4, <1>10, <2>3, <2>8, <2>9 DEF Alike, SettledX, SettledY
  <2>11. Aliased(d.lineTable, Settled.lineTable, q, d.scrollStart)
    BY <2>9 DEF Aliased
  <2> QED BY <2>7, <2>10, <2>11, OnwardOK
<1>15. CASE k # ROWS - 1
  <2>1. k + 1 \in Row /\ k + 1 \in Nat /\ k + 1 # ROWS
    BY <1>6, <1>15 DEF Row
  <2>2. PICK q : q = IF k + 1 = ROWS - 1 THEN [p EXCEPT !.row = k + 1, !.line = p.first]
                     ELSE [p EXCEPT !.at = "take", !.row = k + 1]
    OBVIOUS
  <2>3. /\ q \in Printers /\ q.row = k + 1 /\ q.col = p.col /\ q.first = p.first /\ q.ch = p.ch
        /\ k + 1 = ROWS - 1 => q.at = "put" /\ q.line = p.first
        /\ k + 1 # ROWS - 1 => q.at = "take"
    BY <1>3, <1>4, <2>1, <2>2 DEF Printers
  <2>4. printer' = <<q>> /\ autoflush' = autoflush /\ Stores(b)
    <3>1. /\ Store(b)
          /\ printer' = IF k + 1 = ROWS - 1
                        THEN [printer EXCEPT ![1].row = @ + 1, ![1].line = p.first]
                        ELSE [Goto("take") EXCEPT ![1].row = @ + 1]
      BY <1>2, <1>4, <1>5, <1>7, <1>9, <1>15 DEF scroll_put, Ended
    <3>2. CASE k + 1 = ROWS - 1
      <4>1. printer' = [printer EXCEPT ![1].row = @ + 1, ![1].line = p.first]
        BY <3>1, <3>2
      <4>2. printer' = <<[p EXCEPT !.row = p.row + 1, !.line = p.first]>>
        BY <1>3, <4>1
      <4> QED BY <1>5, <2>2, <3>1, <3>2, <4>2 DEF Store, Stores
    <3>3. CASE k + 1 # ROWS - 1
      <4>1. printer' = [Goto("take") EXCEPT ![1].row = @ + 1]
        BY <3>1, <3>3
      <4>2. PICK m : m = [p EXCEPT !.at = "take"]
        OBVIOUS
      <4>3. Goto("take") = <<m>> /\ m.row = p.row
        BY <1>3, <4>2 DEF Goto, Printers
      <4>4. printer' = <<[m EXCEPT !.row = m.row + 1]>>
        BY <4>1, <4>3
      <4>5. [m EXCEPT !.row = m.row + 1] = q
        BY <1>5, <2>2, <3>3, <4>2, <4>3
      <4> QED BY <3>1, <4>4, <4>5 DEF Store, Stores
    <3> QED BY <3>2, <3>3
  <2>5. Good(b, q)
    <3>1. con.scrollStart <= k + 1
      BY <1>3, <1>4, <1>5, <1>6
    <3>2. k + 1 # ROWS - 1 => k + 1 + 1 \in Row
      BY <1>6, <1>15, <2>1 DEF Row
    <3> QED BY <1>4, <1>10, <2>3, <3>1, <3>2 DEF Good
  <2>6. Comes(q, b)
    BY <1>3, <1>10, <1>13, <2>4, <2>5 DEF Comes
  <2>7. /\ Settle(b, q).scrollStart = con.scrollStart
        /\ Settle(b, q).charTable = con.charTable
        /\ Settle(b, q).cursorX = SettledX(b, q) /\ Settle(b, q).cursorY = SettledY(b, q)
        /\ \A r \in Row : Settle(b, q).lineTable[r] = SettledLine(b.lineTable, q, r)
    BY <1>10, <2>5, SettleIs
  <2>8. ASSUME NEW r \in Row PROVE SettledLine(b.lineTable, q, r) = Settled.lineTable[r]
    <3>0. r \in Nat /\ r < ROWS
      BY SizesAre DEF Row
    <3>1. CASE r = k
      <4>1. r < q.row
        BY <1>6, <2>3, <3>1
      <4> QED BY <1>11, <1>12, <2>3, <3>1, <4>1 DEF SettledLine
    <3>2. CASE r < k
      <4>1. r < q.row /\ r < p.row /\ r # k
        BY <1>5, <1>6, <2>3, <3>0, <3>2
      <4> QED BY <1>3, <1>4, <1>11, <2>3, <4>1 DEF SettledLine
    <3>3. CASE r > k
      <4>1. ~(r < q.row) /\ ~(r < p.row) /\ r # p.row /\ (r + 1 # ROWS => r + 1 \in Row \ {k})
        BY <1>5, <1>6, <2>3, <3>0, <3>3 DEF Row
      <4>2. Settled.lineTable[r] = IF r + 1 = ROWS THEN p.first
                                   ELSE Ended(con.lineTable[r + 1], con.lineTable[r + 1].length)
        BY <1>3, <1>4, <4>1 DEF SettledLine
      <4>3. CASE k + 1 = ROWS - 1
        <5>1. r = ROWS - 1 /\ r = q.row /\ r + 1 = ROWS
          BY <1>6, <2>3, <3>0, <3>3, <4>3
        <5>2. SettledLine(b.lineTable, q, r) = Ended(p.first, p.first.length)
          BY <2>3, <4>1, <4>3, <5>1 DEF SettledLine
        <5>3. Ended(p.first, p.first.length) = p.first
          BY <1>3, <1>4, DirtyIs
        <5> QED BY <4>2, <5>1, <5>2, <5>3
      <4>4. CASE k + 1 # ROWS - 1
        <5>1. SettledLine(b.lineTable, q, r)
                = IF r + 1 = ROWS THEN p.first
                  ELSE Ended(b.lineTable[r + 1], b.lineTable[r + 1].length)
          BY <2>3, <4>1, <4>4 DEF SettledLine
        <5> QED BY <1>11, <4>1, <4>2, <5>1
      <4> QED BY <4>3, <4>4
    <3> QED BY <1>6, <3>0, <3>1, <3>2, <3>3
  <2>9. Alike(Settle(b, q), Settled)
    BY <1>3, <1>4, <1>10, <2>3, <2>7, <2>8 DEF Alike, SettledX, SettledY
  <2>10. Aliased(b.lineTable, Settled.lineTable, q, b.scrollStart)
    <3>1. ASSUME NEW r \in Row
          PROVE  \E s \in Row : /\ b.lineTable[r].offset = Settled.lineTable[s].offset
                                /\ s = r \/ (r >= con.scrollStart /\ s >= con.scrollStart)
      <4>1. CASE r = k
        BY <1>11, <1>12, <4>1
      <4>2. CASE r # k
        BY <1>3, <1>11, <4>2 DEF Aliased
      <4> QED BY <4>1, <4>2
    <3>2. q.at \in {"take", "put"}
      BY <2>3
    <3> QED BY <1>10, <3>1, <3>2 DEF Aliased
  <2> QED BY <2>6, <2>9, <2>10, OnwardOK
<1> QED BY <1>14, <1>15

\* curRow, curCol and curLine are loaded.
LEMMA LoadStep ==
  ASSUME IInv, printer_load
  PROVE  IInv' /\ Refines
<1>1. ~Alone /\ printer[1].at = "load"
  BY DEF printer_load, Inside
<1>2. PICK p : p = printer[1]
  OBVIOUS
<1>3. /\ printer = <<p>> /\ Good(con, p) /\ p \in Printers /\ p.row \in Row
      /\ ~autoflush /\ con \in Consoles /\ con.lineTable \in [Row -> Lines]
      /\ Settled = Settle(con, p) /\ Well(Settled)
  BY <1>1, <1>2, PrinterIs
<1>4. /\ p.at = "load" /\ p.row = con.cursorY /\ p.col = con.cursorX /\ p.ch \in Typeable
      /\ Settled = con
  BY <1>1, <1>2, <1>3 DEF Good, Printers, Settle
<1>5. PICK l : l = con.lineTable[p.row]
  OBVIOUS
<1>6. l \in Lines
  BY <1>3, <1>5
<1>7. PICK q : q = [p EXCEPT !.at = IF p.ch \in Chars THEN "cell" ELSE "mark", !.line = l]
  OBVIOUS
<1>8. /\ q \in Printers /\ q.row = p.row /\ q.col = p.col /\ q.line = l /\ q.ch = p.ch
      /\ p.ch \in Chars => q.at = "cell"
      /\ p.ch \notin Chars => q.at = "mark"
  BY <1>3, <1>6, <1>7 DEF Printers
<1>9. printer' = <<q>> /\ autoflush' = autoflush /\ UNCHANGED <<con, vga, redraw, missed>>
  BY <1>2, <1>3, <1>5, <1>7 DEF printer_load, Goto
<1>10. Stores(con) /\ MarksAll(con)
  BY <1>2, <1>4, <1>9, LoadsOK, NoneUnmarked
<1>11. Good(con, q)
  BY <1>4, <1>5, <1>8 DEF Good
<1>12. Comes(q, con)
  BY <1>3, <1>9, <1>10, <1>11 DEF Comes
<1>13. /\ Settle(con, q) \in Consoles
       /\ Settle(con, q).scrollStart = con.scrollStart
       /\ Settle(con, q).charTable = con.charTable
       /\ Settle(con, q).cursorX = SettledX(con, q) /\ Settle(con, q).cursorY = SettledY(con, q)
       /\ \A r \in Row : Settle(con, q).lineTable[r] = SettledLine(con.lineTable, q, r)
  BY <1>3, <1>11, SettleIs
<1>14. CASE p.ch \in Chars
  <2>1. \A r \in Row : SettledLine(con.lineTable, q, r) = con.lineTable[r]
    BY <1>5, <1>8, <1>14 DEF SettledLine
  <2>2. Alike(Settle(con, q), Settled)
    BY <1>4, <1>8, <1>13, <1>14, <2>1 DEF Alike, SettledX, SettledY
  <2>3. Aliased(con.lineTable, Settled.lineTable, q, con.scrollStart)
    BY <1>4 DEF Aliased
  <2> QED BY <1>12, <2>2, <2>3, OnwardOK
<1>15. CASE p.ch \notin Chars
  <2>1. PICK e : e = Settle(con, q)
    OBVIOUS
  <2>2. e = putchar_store(Settled, q, p.ch)
    BY <1>4, <1>8, <1>15, <2>1 DEF Settle
  <2>3. Effect(Settled, e) /\ Types(Settled, e, Settled.cursorY, p.ch)
    <3>1. /\ q.row = Settled.cursorY /\ q.col = Settled.cursorX /\ Settled.cursorY \in Row
          /\ Twins(q.line, Settled.lineTable[Settled.cursorY])
      BY <1>3, <1>4, <1>5, <1>8 DEF Twins
    <3>2. p.ch \in Chars \cup {LF, CR, TAB}
      BY <1>4 DEF Typeable
    <3> QED BY <1>3, <2>2, <3>1, <3>2, StoreOK
  <2>4. Well(e) /\ Alike(Settle(con, q), e)
    BY <2>1, <2>3 DEF Effect, Alike
  <2>5. Aliased(con.lineTable, e.lineTable, q, con.scrollStart)
    <3>1. \A r \in Row : e.lineTable[r].offset = con.lineTable[r].offset
      <4>1. ASSUME NEW r \in Row PROVE e.lineTable[r].offset = con.lineTable[r].offset
        <5>1. e.lineTable[r] = IF r # q.row THEN con.lineTable[r] ELSE Ended(q.line, NewLength(q))
          BY <1>8, <1>13, <1>15, <2>1 DEF SettledLine
        <5> QED BY <1>5, <1>8, <5>1 DEF Ended, Line
      <4> QED BY <4>1
    <3> QED BY <3>1 DEF Aliased
  <2>6. IInv' /\ View(Settled)' = View(e)
    BY <1>12, <2>4, <2>5, ComesOK
  <2>7. Settled.cursorY \in Row
    BY <1>3, <1>4
  <2> QED BY <1>4, <2>3, <2>6, <2>7, TypedStep
<1> QED BY <1>14, <1>15

\* The character is stored.
LEMMA CellStep ==
  ASSUME IInv, printer_cell
  PROVE  IInv' /\ Refines
<1>1. ~Alone /\ printer[1].at = "cell"
  BY DEF printer_cell, Inside
<1>2. PICK p : p = printer[1]
  OBVIOUS
<1>3. /\ printer = <<p>> /\ Good(con, p) /\ p \in Printers /\ p.row \in Row
      /\ p.line \in Lines /\ p.col \in Column
      /\ ~autoflush /\ con \in Consoles /\ Settled = Settle(con, p) /\ Well(Settled)
      /\ con.lineTable \in [Row -> Lines] /\ con.charTable \in [Storage -> Cells]
      /\ con.scrollStart \in Nat
      /\ Aliased(con.lineTable, Settled.lineTable, p, con.scrollStart)
      /\ Settled \in Consoles
      /\ Settled.scrollStart = con.scrollStart /\ Settled.charTable = con.charTable
      /\ Settled.cursorX = SettledX(con, p) /\ Settled.cursorY = SettledY(con, p)
      /\ \A r \in Row : Settled.lineTable[r] = SettledLine(con.lineTable, p, r)
  BY <1>1, <1>2, PrinterIs
<1>4. /\ p.at = "cell" /\ p.row = con.cursorY /\ p.col = con.cursorX /\ p.ch \in Chars
      /\ p.line.offset = con.lineTable[p.row].offset
  BY <1>1, <1>2, <1>3 DEF Good
<1>5. /\ Settled.cursorX = con.cursorX /\ Settled.cursorY = con.cursorY
      /\ \A r \in Row : Settled.lineTable[r] = IF r # p.row THEN con.lineTable[r] ELSE p.line
  BY <1>3, <1>4 DEF SettledX, SettledY, SettledLine
<1>6. /\ \A r \in Row, i \in Column : con.lineTable[r].offset + i \in Storage
      /\ \A r \in Row \ {p.row} : \A i, j \in Column :
           con.lineTable[r].offset + i # con.lineTable[p.row].offset + j
  BY <1>3, <1>4, LinesApart
<1>7. PICK k : k = p.line.offset + p.col
  OBVIOUS
<1>8. PICK ct : ct = [con.charTable EXCEPT ![k] = p.ch]
  OBVIOUS
<1>9. k \in Storage /\ ct \in [Storage -> Cells] /\ ct[k] = p.ch
  BY <1>3, <1>4, <1>6, <1>7, <1>8, Controls
<1>10. PICK d : d = [con EXCEPT !.charTable = ct]
  OBVIOUS
<1>11. /\ d \in Consoles /\ d.lineTable = con.lineTable /\ d.charTable = ct
       /\ d.cursorX = con.cursorX /\ d.cursorY = con.cursorY /\ d.scrollStart = con.scrollStart
  BY <1>3, <1>9, <1>10 DEF Consoles
<1>12. PICK q : q = [p EXCEPT !.at = "mark"]
  OBVIOUS
<1>13. /\ q \in Printers /\ q.at = "mark" /\ q.row = p.row /\ q.col = p.col /\ q.line = p.line
       /\ q.ch = p.ch
  BY <1>3, <1>12 DEF Printers
<1>14. printer' = <<q>> /\ autoflush' = autoflush /\ Stores(d)
  <2>1. d = [con EXCEPT !.charTable[p.line.offset + p.col] = p.ch]
    BY <1>7, <1>8, <1>10
  <2>2. Store(d) /\ printer' = Goto("mark")
    BY <1>2, <2>1 DEF printer_cell
  <2> QED BY <1>2, <1>3, <1>12, <2>2 DEF Store, Stores, Goto
<1>15. MarksAll(d)
  <2>1. Unmarked = {} /\ p.row \in Unmarked'
    <3>1. Unmarked = {}
      BY <1>2, <1>4, NoneUnmarked
    <3>2. Inside("mark")' /\ printer'[1] = q
      BY <1>13, <1>14 DEF Inside, Alone
    <3> QED BY <1>3, <1>4, <1>13, <3>1, <3>2 DEF Unmarked
  <2>2. InLine(con, d, p.row)
    BY <1>3, <1>4, <1>7, <1>8, <1>11 DEF InLine
  <2>3. \A r \in Row \ {p.row} : Text(d, r) = Text(con, r)
    BY <1>3, <1>6, <1>11, <2>2, OthersText DEF InCells
  <2> QED BY <1>11, <2>1, <2>3 DEF MarksAll
<1>16. Good(d, q)
  BY <1>4, <1>7, <1>9, <1>11, <1>13 DEF Good
<1>17. Comes(q, d)
  BY <1>3, <1>11, <1>14, <1>15, <1>16 DEF Comes
<1>18. PICK e : e = putchar_store(Settled, p, p.ch)
  OBVIOUS
<1>19. Effect(Settled, e) /\ Types(Settled, e, Settled.cursorY, p.ch)
  <2>1. /\ p.row = Settled.cursorY /\ p.col = Settled.cursorX /\ Settled.cursorY \in Row
        /\ Twins(p.line, Settled.lineTable[Settled.cursorY])
    BY <1>3, <1>4, <1>5 DEF Twins
  <2>2. p.ch \in Chars \cup {LF, CR, TAB}
    BY <1>4
  <2> QED BY <1>3, <1>18, <2>1, <2>2, StoreOK
<1>20. /\ e.lineTable = [Settled.lineTable EXCEPT ![p.row] = Ended(p.line, NewLength(p))]
       /\ e.charTable = ct /\ e.scrollStart = con.scrollStart
       /\ e.cursorX = NewX(Settled, p.ch) /\ e.cursorY = NewY(Settled, p.ch)
  <2>1. Settled.cursorY \in Row /\ p.col = Settled.cursorX
    BY <1>3, <1>4, <1>5
  <2> QED BY <1>3, <1>4, <1>7, <1>8, <1>18, <2>1, StoreIs
<1>21. \A r \in Row : e.lineTable[r] = IF r # p.row THEN con.lineTable[r]
                                       ELSE Ended(p.line, NewLength(p))
  <2>1. Settled.lineTable \in [Row -> Lines]
    BY <1>3 DEF Consoles
  <2> QED BY <1>3, <1>5, <1>20, <2>1
<1>22. /\ Settle(d, q).scrollStart = con.scrollStart
       /\ Settle(d, q).charTable = ct
       /\ Settle(d, q).cursorX = SettledX(d, q) /\ Settle(d, q).cursorY = SettledY(d, q)
       /\ \A r \in Row : Settle(d, q).lineTable[r] = SettledLine(con.lineTable, q, r)
  BY <1>11, <1>16, SettleIs
<1>23. Well(e) /\ Alike(Settle(d, q), e)
  <2>1. NewLength(q) = NewLength(p)
    BY <1>13 DEF NewLength
  <2>2. \A r \in Row : Settle(d, q).lineTable[r] = e.lineTable[r]
    BY <1>13, <1>21, <1>22, <2>1 DEF SettledLine
  <2>3. Settle(d, q).cursorX = e.cursorX /\ Settle(d, q).cursorY = e.cursorY
    BY <1>5, <1>11, <1>13, <1>20, <1>22 DEF SettledX, SettledY, NewX, NewY
  <2> QED BY <1>19, <1>20, <1>22, <2>2, <2>3 DEF Effect, Alike
<1>24. Aliased(d.lineTable, e.lineTable, q, d.scrollStart)
  <2>1. \A r \in Row : e.lineTable[r].offset = d.lineTable[r].offset
    BY <1>4, <1>11, <1>21 DEF Ended, Line
  <2> QED BY <2>1 DEF Aliased
<1>25. IInv' /\ View(Settled)' = View(e)
  BY <1>17, <1>23, <1>24, ComesOK
<1>26. Settled.cursorY \in Row /\ p.ch \in Typeable
  BY <1>3, <1>4, <1>5 DEF Typeable
<1> QED BY <1>19, <1>25, <1>26, TypedStep

\* The line entry is stored, with its mark.
LEMMA MarkStep ==
  ASSUME IInv, printer_mark
  PROVE  IInv' /\ Refines
<1>1. ~Alone /\ printer[1].at = "mark"
  BY DEF printer_mark, Inside
<1>2. PICK p : p = printer[1]
  OBVIOUS
<1>3. /\ printer = <<p>> /\ Good(con, p) /\ p \in Printers /\ p.row \in Row
      /\ ~autoflush /\ con \in Consoles /\ Settled = Settle(con, p) /\ Well(Settled)
      /\ Settled \in Consoles /\ Settled.charTable = con.charTable
      /\ \A r \in Row : Settled.lineTable[r] = SettledLine(con.lineTable, p, r)
  BY <1>1, <1>2, PrinterIs
<1>4. p.at = "mark" /\ Settled = putchar_store(con, p, p.ch)
  BY <1>1, <1>2, <1>3 DEF Settle
<1>5. /\ con' = Settled /\ printer' = <<>> /\ autoflush' = autoflush /\ Stores(Settled)
      /\ vga' = vga /\ redraw' = redraw
  BY <1>2, <1>4 DEF printer_mark, Store, Stores
<1>6. Alone' /\ Settled' = con' /\ Unmarked' = {}
  BY <1>5, AloneIs DEF Alone
<1>7. MarksAll(Settled)
  <2>1. \A r \in Row \ {p.row} : r \notin Unmarked
    BY <1>2 DEF Unmarked
  <2>2. /\ \A r \in Row \ {p.row} : Settled.lineTable[r] = con.lineTable[r]
        /\ Settled.lineTable[p.row].dirty
    BY <1>3, <1>4 DEF SettledLine, Ended, Line
  <2>3. \A r \in Row \ {p.row} : Text(Settled, r) = Text(con, r)
    BY <1>3, <2>2 DEF Text, Shows
  <2> QED BY <2>1, <2>2, <2>3 DEF MarksAll
<1>8. Drawing' /\ CleanRowsShown'
  BY <1>5, <1>7, MarksOK DEF IInv
<1>9. Typed' /\ Printing'
  BY <1>5, <1>6 DEF IInv, Typed, Printing
<1>10. IInv'
  BY <1>3, <1>5, <1>6, <1>8, <1>9 DEF IInv
<1>11. View(Settled)' = View(Settled)
  BY <1>5, <1>6 DEF View
<1> QED BY <1>10, <1>11, Unseen
-----------------------------------------------------------------------------
(* redrawProcess's steps *)

\* The end of _init.
LEMMA InitDoneStep ==
  ASSUME IInv, init_done
  PROVE  IInv' /\ Refines
<1>1. Alone /\ printer' = printer /\ con' = con
  BY DEF IInv, Printing, init_done
<1>2. Settled' = Settled /\ Unmarked' = Unmarked
  BY <1>1 DEF Settled, Unmarked, Inside, Alone
<1>3. IInv'
  BY <1>1, <1>2 DEF IInv, Typed, Printing, Alone, Drawing, CleanRowsShown, init_done
<1>4. View(Settled)' = View(Settled)
  BY <1>2 DEF View
<1> QED BY <1>3, <1>4, Unseen

\* redrawProcess's next row.
LEMMA NextRowIs ==
  ASSUME IInv
  PROVE  RedrawNext \in Walks /\ RedrawNext.at \in {"sleep", "test"}
<1>1. redraw \in Walks /\ redraw.row \in Row
  BY DEF IInv, Typed, Walks
<1>2. redraw.row + 1 # ROWS => redraw.row + 1 \in Row
  BY <1>1, SizesAre DEF Row
<1> QED BY <1>1, <1>2, SizesAre DEF RedrawNext, Walks

\* While redrawProcess only looks and draws, Printer and Screen see nothing.
LEMMA LooksOK ==
  ASSUME IInv, UNCHANGED <<con, printer, autoflush>>
  PROVE  /\ con' \in Consoles /\ Well(Settled)' /\ Printing' /\ Unmarked' = Unmarked
         /\ Refines
<1>1. Settled' = Settled /\ Unmarked' = Unmarked
  BY DEF Settled, Unmarked, Inside, Alone
<1>2. con' \in Consoles /\ Well(Settled)' /\ Printing'
  BY <1>1 DEF IInv, Printing, Alone
<1>3. View(Settled)' = View(Settled)
  BY <1>1 DEF View
<1> QED BY <1>1, <1>2, <1>3, Unseen

\* redrawProcess looks at a row, or wakes up to look at the first.
LEMMA TestStep ==
  ASSUME IInv, redraw_wake \/ redraw_test
  PROVE  IInv' /\ Refines
<1>1. /\ redraw \in Walks /\ redraw.row \in Row /\ con.lineTable[redraw.row] \in Lines
  BY DEF IInv, Typed, Walks, Consoles
<1>2. con' = con /\ vga' = vga /\ autoflush' = autoflush /\ printer' = printer
  BY DEF redraw_wake, redraw_test
<1>3. /\ con' \in Consoles /\ Well(Settled)' /\ Printing' /\ Unmarked' = Unmarked
      /\ Refines
  BY <1>2, LooksOK
<1>4. redraw' \in Walks
  BY <1>1, NextRowIs DEF redraw_wake, redraw_test, Walks
<1>5. Typed'
  BY <1>2, <1>4 DEF IInv, Typed
<1>6. ASSUME redraw_test, con.lineTable[redraw.row].dirty PROVE IInv'
  <2>1. /\ redraw'.at = "draw" /\ redraw'.row = redraw.row
        /\ redraw'.line = con.lineTable[redraw.row] /\ missed' = missed \ {redraw.row}
    BY <1>1, <1>6 DEF redraw_test, Walks
  <2>2. Drawing'
    BY <1>2, <2>1 DEF Drawing, Twins
  <2>3. CleanRowsShown'
    BY <1>2, <1>3, <1>6, <2>1 DEF IInv, CleanRowsShown
  <2> QED BY <1>3, <1>5, <2>2, <2>3 DEF IInv
<1>7. ASSUME ~(redraw_test /\ con.lineTable[redraw.row].dirty) PROVE IInv'
  <2>1. redraw'.at \in {"sleep", "test"} /\ missed' = missed
    BY <1>1, <1>7, NextRowIs DEF redraw_wake, redraw_test, Walks
  <2>2. Drawing'
    BY <2>1 DEF Drawing
  <2>3. CleanRowsShown'
    BY <1>2, <1>3, <2>1 DEF IInv, CleanRowsShown
  <2> QED BY <1>3, <1>5, <2>2, <2>3 DEF IInv
<1> QED BY <1>3, <1>6, <1>7

\* redrawProcess draws its copy of the line.
LEMMA DrawStep ==
  ASSUME IInv, vcon_vga_draw
  PROVE  IInv' /\ Refines
<1>1. redraw \in Walks /\ redraw.row \in Row /\ vga = [r \in Row |-> vga[r]]
  BY DEF IInv, Typed, Walks
<1>2. /\ con' = con /\ autoflush' = autoflush /\ printer' = printer /\ missed' = missed
      /\ redraw.at = "draw" /\ redraw' = [redraw EXCEPT !.at = "load"]
      /\ vga' = [vga EXCEPT ![redraw.row] = Shows(con, redraw.line)]
  BY DEF vcon_vga_draw
<1>3. redraw' \in Walks /\ redraw'.at = "load" /\ redraw'.row = redraw.row
  BY <1>1, <1>2 DEF Walks
<1>4. /\ vga' = [r \in Row |-> vga'[r]]
      /\ vga'[redraw.row] = Shows(con, redraw.line)
      /\ \A r \in Row : r # redraw.row => vga'[r] = vga[r]
  BY <1>1, <1>2
<1>5. ASSUME redraw.row \notin missed PROVE vga'[redraw.row] = Text(con, redraw.row)
  <2>1. Twins(redraw.line, con.lineTable[redraw.row])
    BY <1>2, <1>5 DEF IInv, Drawing
  <2> QED BY <1>4, <2>1 DEF Twins, Text, Shows
<1>6. /\ con' \in Consoles /\ Well(Settled)' /\ Printing' /\ Unmarked' = Unmarked
      /\ Refines
  BY <1>2, LooksOK
<1>7. Typed'
  BY <1>2, <1>3, <1>4 DEF IInv, Typed
<1>8. Drawing'
  BY <1>2, <1>3, <1>5 DEF Drawing
<1>9. CleanRowsShown'
  BY <1>2, <1>4, <1>5, <1>6 DEF IInv, CleanRowsShown
<1> QED BY <1>6, <1>7, <1>8, <1>9 DEF IInv

\* redrawProcess loads the word that holds the mark.
LEMMA LoadMarkStep ==
  ASSUME IInv, redraw_load
  PROVE  IInv' /\ Refines
<1>1. redraw \in Walks /\ redraw.row \in Row /\ con.lineTable[redraw.row] \in Lines
  BY DEF IInv, Typed, Walks, Consoles
<1>2. /\ con' = con /\ vga' = vga /\ autoflush' = autoflush /\ printer' = printer
      /\ missed' = missed /\ redraw.at = "load"
      /\ redraw' = [redraw EXCEPT !.at = "store", !.line = con.lineTable[redraw.row]]
  BY DEF redraw_load
<1>3. /\ redraw' \in Walks /\ redraw'.at = "store" /\ redraw'.row = redraw.row
      /\ redraw'.line = con.lineTable[redraw.row]
  BY <1>1, <1>2 DEF Walks
<1>4. /\ con' \in Consoles /\ Well(Settled)' /\ Printing' /\ Unmarked' = Unmarked
      /\ Refines
  BY <1>2, LooksOK
<1>5. Typed'
  BY <1>2, <1>3 DEF IInv, Typed
<1>6. Drawing'
  BY <1>2, <1>3 DEF IInv, Drawing
<1>7. CleanRowsShown'
  BY <1>2, <1>4 DEF IInv, CleanRowsShown
<1> QED BY <1>4, <1>5, <1>6, <1>7 DEF IInv

\* g is f with another end of line y
EndMoved(f, g, y, n) ==
  /\ g.lineTable[y].offset = f.lineTable[y].offset /\ g.lineTable[y].length = n
  /\ \A r \in Row \ {y} : Twins(f.lineTable[r], g.lineTable[r])
  /\ g.charTable = f.charTable /\ g.cursorX = f.cursorX /\ g.cursorY = f.cursorY
  /\ g.scrollStart = f.scrollStart

\* To Screen this loses the end of a line, or nothing.
LEMMA EndMovedOK ==
  ASSUME Well(Settled), NEW g \in Consoles, g = Settled', NEW y \in Row, NEW n \in 0 .. COLUMNS,
         EndMoved(Settled, g, y, n), Settled.lineTable[y].length = n \/ Undoes
  PROVE  Well(Settled)' /\ Refines
<1>1. \A r \in Row : g.lineTable[r].offset = Settled.lineTable[r].offset
  BY DEF EndMoved, Twins
<1>2. Well(g)
  <2>1. Apart(g.lineTable)
    BY <1>1 DEF Well, Apart
  <2> QED BY <2>1 DEF Well
<1>3. \A r \in Row \ {y} : Text(g, r) = Text(Settled, r)
  BY DEF EndMoved, Twins, Text, Shows
<1>4. PICK t : t = [r \in Row |-> Text(Settled, r)]
  OBVIOUS
<1>5. PICK u : u = [r \in Row |-> Text(g, r)]
  OBVIOUS
<1>6. u = [t EXCEPT ![y] = Text(g, y)] /\ t[y] = Text(Settled, y)
  BY <1>3, <1>4, <1>5
<1>7. CASE Settled.lineTable[y].length = n
  <2>1. Text(g, y) = Text(Settled, y)
    BY <1>7 DEF EndMoved, Text, Shows
  <2>2. u = t
    BY <1>3, <1>4, <1>5, <2>1
  <2>3. View(g) = View(Settled)
    BY <1>4, <1>5, <2>2 DEF View, EndMoved
  <2>4. View(Settled)' = View(Settled)
    BY <2>3 DEF View
  <2> QED BY <1>2, <2>4, Unseen
<1>8. CASE Undoes
  <2>1. Text(g, y) \in Abstract!Resized(Text(Settled, y), n)
    BY <1>2, ResizedIs DEF EndMoved
  <2>2. [r \in Row |-> Text(Settled, r)]' = [t EXCEPT ![y] = Text(g, y)]
    BY <1>5, <1>6
  <2>3. /\ Settled'.cursorX = Settled.cursorX /\ Settled'.cursorY = Settled.cursorY
        /\ Settled'.scrollStart = Settled.scrollStart
    BY DEF EndMoved
  <2>4. Text(g, y) \in Abstract!Resized(t[y], n)
    BY <1>6, <2>1
  <2>5. \E z \in Abstract!Row, k \in 0 .. COLUMNS :
          \E line \in Abstract!Resized([r \in Row |-> Text(Settled, r)][z], k) :
             [r \in Row |-> Text(Settled, r)]'
               = [[r \in Row |-> Text(Settled, r)] EXCEPT ![z] = line]
    BY <1>4, <2>2, <2>4 DEF Abstract!Row, Row
  <2>6. Abstract!LoseEnd
    BY <2>3, <2>5 DEF Abstract!LoseEnd
  <2> QED BY <1>2, <1>8, <2>6 DEF Refines
<1> QED BY <1>7, <1>8

\* redrawProcess stores the word back, without the mark.
LEMMA StoreMarkStep ==
  ASSUME IInv, redraw_store
  PROVE  IInv' /\ Refines
<1>1. PICK k : k = redraw.row
  OBVIOUS
<1>2. PICK n : n = redraw.line.length
  OBVIOUS
<1>3. /\ k \in Row /\ k \in Nat /\ n \in 0 .. COLUMNS /\ con \in Consoles
      /\ con.lineTable \in [Row -> Lines] /\ con.lineTable[k] \in Lines
      /\ con.lineTable[k].offset \in Nat
  <2>1. redraw.row \in Row /\ redraw.line \in Lines
    BY DEF IInv, Typed, Walks
  <2>2. con \in Consoles /\ con.lineTable \in [Row -> Lines]
    BY DEF IInv, Consoles
  <2> QED BY <1>1, <1>2, <2>1, <2>2, SizesAre DEF Lines
<1>4. PICK l : l = Line(con.lineTable[k].offset, n, FALSE)
  OBVIOUS
<1>5. l \in Lines /\ l.offset = con.lineTable[k].offset /\ l.length = n /\ ~l.dirty
  BY <1>3, <1>4 DEF Line, Lines
<1>6. /\ vga' = vga /\ autoflush' = autoflush /\ printer' = printer /\ missed' = missed
      /\ redraw.at = "store" /\ redraw' = [RedrawNext EXCEPT !.line = Line(0, 0, FALSE)]
      /\ con' = [con EXCEPT !.lineTable[k] = l]
  BY <1>1, <1>2, <1>4 DEF redraw_store
<1>7. PICK d : d = con'
  OBVIOUS
<1>8. /\ d \in Consoles /\ d.lineTable = [con.lineTable EXCEPT ![k] = l]
      /\ d.charTable = con.charTable
      /\ d.cursorX = con.cursorX /\ d.cursorY = con.cursorY
      /\ d.scrollStart = con.scrollStart
  BY <1>3, <1>5, <1>6, <1>7, RowStored
<1>9. d.lineTable[k] = l /\ \A r \in Row \ {k} : d.lineTable[r] = con.lineTable[r]
  BY <1>3, <1>8
<1>10. Line(0, 0, FALSE) \in Lines
  BY SizesAre DEF Line, Lines
<1>11. redraw' \in Walks /\ redraw'.at \in {"sleep", "test"}
  BY <1>6, <1>10, NextRowIs DEF Walks
<1>12. Typed' /\ Drawing'
  BY <1>6, <1>11 DEF IInv, Typed, Drawing
<1>13. Unmarked' = Unmarked
  BY <1>6 DEF Unmarked, Inside, Alone
<1>14. \A r \in Row \ {k} : Text(d, r) = Text(con, r)
  BY <1>8, <1>9 DEF Text, Shows
<1>15. CleanRowsShown'
  <2>1. ASSUME NEW r \in Row, r \notin missed, r \notin Unmarked, ~d.lineTable[r].dirty
        PROVE  vga[r] = Text(d, r)
    <3>1. CASE r = k
      <4>1. vga[k] = Text(con, k) /\ n = con.lineTable[k].length
        BY <1>1, <1>2, <1>6, <2>1, <3>1 DEF IInv, Drawing
      <4>2. Text(d, k) = Text(con, k)
        BY <1>5, <1>8, <1>9, <4>1 DEF Text, Shows
      <4> QED BY <3>1, <4>1, <4>2
    <3>2. CASE r # k
      BY <1>9, <1>14, <2>1, <3>2 DEF IInv, CleanRowsShown
    <3> QED BY <3>1, <3>2
  <2> QED BY <1>6, <1>7, <1>13, <2>1 DEF CleanRowsShown
<1>16. con.lineTable[k].length = n \/ Undoes
  BY <1>1, <1>2, <1>6 DEF Undoes
<1>17. CASE Alone
  <2>1. Alone' /\ Settled = con /\ Settled' = d /\ Printing'
    BY <1>6, <1>7, <1>17, AloneIs DEF Alone, Printing
  <2>2. EndMoved(Settled, d, k, n)
    BY <1>5, <1>8, <1>9, <2>1 DEF EndMoved, Twins
  <2>3. Well(Settled)
    BY DEF IInv
  <2>4. Well(Settled)' /\ Refines
    BY <1>3, <1>8, <1>16, <2>1, <2>2, <2>3, EndMovedOK
  <2> QED BY <1>7, <1>8, <1>12, <1>15, <2>1, <2>4 DEF IInv
<1>18. CASE ~Alone
  <2>1. PICK p : p = printer[1]
    OBVIOUS
  <2>2. /\ printer = <<p>> /\ Good(con, p) /\ p \in Printers /\ p.row \in Row
        /\ p.line \in Lines /\ p.first \in Lines /\ ~autoflush
        /\ Well(Settled) /\ Settled \in Consoles
        /\ Aliased(con.lineTable, Settled.lineTable, p, con.scrollStart)
        /\ Settled.scrollStart = con.scrollStart /\ Settled.charTable = con.charTable
        /\ Settled.cursorX = SettledX(con, p) /\ Settled.cursorY = SettledY(con, p)
        /\ \A r \in Row : Settled.lineTable[r] = SettledLine(con.lineTable, p, r)
    BY <1>18, <2>1, PrinterIs
  <2>3. \A r \in Row : d.lineTable[r].offset = con.lineTable[r].offset
    BY <1>5, <1>9
  <2>4. Good(d, p)
    BY <1>8, <2>2, <2>3 DEF Good
  <2>5. PICK g : g = Settle(d, p)
    OBVIOUS
  <2>6. Settled' = g /\ ~Alone'
    BY <1>6, <1>7, <1>18, <2>1, <2>5 DEF Settled, Alone
  <2>7. /\ g \in Consoles /\ g.scrollStart = d.scrollStart /\ g.charTable = d.charTable
        /\ g.cursorX = SettledX(d, p) /\ g.cursorY = SettledY(d, p)
        /\ \A r \in Row : g.lineTable[r] = SettledLine(d.lineTable, p, r)
    BY <1>8, <2>4, <2>5, SettleIs
  <2>8. /\ g.cursorX = Settled.cursorX /\ g.cursorY = Settled.cursorY
        /\ g.scrollStart = Settled.scrollStart /\ g.charTable = Settled.charTable
    BY <1>8, <2>2, <2>7 DEF SettledX, SettledY, NewX, NewY
  <2>9. PICK y : y = IF p.at \in {"take", "put"} /\ k > p.row THEN k - 1 ELSE k
    OBVIOUS
  <2>10. y \in Row
    BY <1>3, <2>2, <2>9, SizesAre DEF Row
  <2>11. ASSUME NEW r \in Row, r # y PROVE g.lineTable[r] = Settled.lineTable[r]
    <3>1. r \in Nat /\ p.row \in Nat /\ (r + 1 # ROWS => r + 1 \in Row)
      BY <2>2, SizesAre DEF Row
    <3>2. CASE p.at \in {"take", "put"}
      <4>1. r < p.row => r # k
        BY <1>3, <2>9, <2>11, <3>1, <3>2
      <4>2. ~(r < p.row) => r + 1 # k
        BY <1>3, <2>9, <2>11, <3>1, <3>2
      <4> QED BY <1>9, <2>2, <2>7, <3>1, <3>2, <4>1, <4>2 DEF SettledLine
    <3>3. CASE ~(p.at \in {"take", "put"})
      <4>1. r # k
        BY <2>9, <2>11, <3>3
      <4> QED BY <1>9, <2>2, <2>7, <3>3, <4>1 DEF SettledLine
    <3> QED BY <3>2, <3>3
  <2>12. \/ g.lineTable[y] = Settled.lineTable[y]
         \/ /\ g.lineTable[y].offset = Settled.lineTable[y].offset
            /\ g.lineTable[y].length = n
            /\ Settled.lineTable[y].length = con.lineTable[k].length
    <3>1. y \in Nat /\ p.row \in Nat
      BY <2>2, <2>10, SizesAre
    <3>2. CASE p.at \in {"take", "put"} /\ k > p.row
      <4>1. y + 1 = k /\ ~(y < p.row) /\ y + 1 # ROWS
        BY <1>3, <2>9, <3>1, <3>2, SizesAre DEF Row
      <4>2. CASE y = p.row /\ p.at = "put"
        BY <2>2, <2>7, <2>10, <3>2, <4>1, <4>2 DEF SettledLine
      <4>3. CASE ~(y = p.row /\ p.at = "put")
        <5>1. /\ g.lineTable[y] = Ended(l, l.length)
              /\ Settled.lineTable[y] = Ended(con.lineTable[k], con.lineTable[k].length)
          BY <1>9, <2>2, <2>7, <2>10, <3>2, <4>1, <4>3 DEF SettledLine
        <5> QED BY <1>5, <5>1 DEF Ended, Line
      <4> QED BY <4>2, <4>3
    <3>3. CASE ~(p.at \in {"take", "put"} /\ k > p.row)
      <4>1. y = k
        BY <2>9, <3>3
      <4>2. CASE p.at \in {"take", "put"} /\ k < p.row
        BY <1>5, <1>9, <2>2, <2>7, <2>10, <4>1, <4>2 DEF SettledLine
      <4>3. CASE p.at \in {"take", "put"} /\ k = p.row
        <5>1. ~(k < p.row) /\ (k + 1 # ROWS => k + 1 \in Row \ {k})
          BY <1>3, <4>3, SizesAre DEF Row
        <5> QED BY <1>9, <2>2, <2>7, <2>10, <4>1, <4>3, <5>1 DEF SettledLine
      <4>4. CASE ~(p.at \in {"take", "put"})
        BY <1>5, <1>9, <2>2, <2>7, <2>10, <4>1, <4>4 DEF SettledLine
      <4> QED BY <1>3, <3>1, <3>3, <4>2, <4>3, <4>4
    <3> QED BY <3>2, <3>3
  <2>13. PICK m : m = g.lineTable[y].length
    OBVIOUS
  <2>14. m \in 0 .. COLUMNS
    BY <2>7, <2>10, <2>13 DEF Consoles, Lines
  <2>15. EndMoved(Settled, g, y, m) /\ (Settled.lineTable[y].length = m \/ Undoes)
    BY <1>16, <2>8, <2>11, <2>12, <2>13 DEF EndMoved, Twins
  <2>16. Well(Settled)' /\ Refines
    BY <2>2, <2>6, <2>7, <2>10, <2>14, <2>15, EndMovedOK
  <2>17. Aliased(d.lineTable, g.lineTable, p, d.scrollStart)
    <3>1. \A r \in Row : g.lineTable[r].offset = Settled.lineTable[r].offset
      BY <2>11, <2>12
    <3> QED BY <1>8, <2>2, <2>3, <3>1 DEF Aliased
  <2>18. Printing'
    BY <1>6, <1>7, <2>2, <2>4, <2>6, <2>17 DEF Printing
  <2> QED BY <1>7, <1>8, <1>12, <1>15, <2>16, <2>18 DEF IInv
<1> QED BY <1>17, <1>18
-----------------------------------------------------------------------------
(* The start *)

\* Rows that start COLUMNS cells apart do not meet.
LEMMA Products ==
  ASSUME NEW a \in Nat, NEW b \in Nat, a < b
  PROVE  /\ a * COLUMNS \in Nat /\ b * COLUMNS \in Nat
         /\ a * COLUMNS + COLUMNS <= b * COLUMNS
<1> DEFINE k == b - a - 1
<1>1. k \in Nat /\ b = a + 1 + k /\ COLUMNS \in Nat
  BY SizesAre
<1> HIDE DEF k
<1>2. /\ a * COLUMNS \in Nat /\ k * COLUMNS \in Nat
      /\ (a + 1 + k) * COLUMNS = a * COLUMNS + COLUMNS + k * COLUMNS
  BY <1>1
<1> QED BY <1>1, <1>2

\* The tables that c_io_init makes are well formed.
LEMMA FreshOK == Well(vcon_init) /\ vcon_init.scrollStart = 0
<1> DEFINE t == vcon_buf_initLineTable
           ct == [i \in Storage |-> Junk]
<1>1. \A r \in Row : t[r] = Line(r * COLUMNS, 0, TRUE)
  BY DEF vcon_buf_initLineTable
<1>2. \A r \in Row : r \in Nat /\ r < ROWS /\ r * COLUMNS \in Nat
  BY SizesAre, Products DEF Row
<1>3. \A r \in Row : t[r] \in Lines /\ t[r].offset = r * COLUMNS
  <2>1. ASSUME NEW r \in Row PROVE t[r] \in Lines /\ t[r].offset = r * COLUMNS
    <3> DEFINE o == r * COLUMNS
    <3>1. o \in Nat /\ t[r] = Line(o, 0, TRUE)
      BY <1>1, <1>2
    <3> HIDE DEF o
    <3>2. 0 \in 0 .. COLUMNS
      BY SizesAre
    <3>3. Line(o, 0, TRUE) \in Lines /\ Line(o, 0, TRUE).offset = o
      BY <3>1, <3>2 DEF Line, Lines
    <3> QED BY <3>1, <3>3 DEF o
  <2> QED BY <2>1
<1>4. t \in [Row -> Lines]
  <2>1. t = [r \in Row |-> t[r]]
    BY DEF vcon_buf_initLineTable
  <2> HIDE DEF t
  <2> QED BY <1>3, <2>1
<1> HIDE DEF t
<1>5. \A r \in Row, i \in Column : t[r].offset + i \in Storage
  <2>1. ASSUME NEW r \in Row, NEW i \in Column PROVE r * COLUMNS + i \in Storage
    <3>1. /\ r * COLUMNS \in Nat /\ ROWS * COLUMNS \in Nat
          /\ r * COLUMNS + COLUMNS <= ROWS * COLUMNS
      BY <1>2, Products, SizesAre
    <3> DEFINE o == r * COLUMNS
               m == ROWS * COLUMNS
    <3>2. o \in Nat /\ m \in Nat /\ o + COLUMNS <= m
      BY <3>1
    <3> SUFFICES o + i \in 0 .. m - 1
      BY DEF Storage
    <3> HIDE DEF o, m
    <3> QED BY <3>2, SizesAre DEF Column
  <2> QED BY <1>3, <2>1
<1>6. ASSUME NEW r \in Row, NEW s \in Row, r < s, NEW i \in Column, NEW j \in Column
      PROVE  t[r].offset + i # t[s].offset + j
  <2>1. /\ r * COLUMNS \in Nat /\ s * COLUMNS \in Nat
        /\ r * COLUMNS + COLUMNS <= s * COLUMNS
    BY <1>2, <1>6, Products
  <2> DEFINE o == r * COLUMNS
             m == s * COLUMNS
  <2>2. o \in Nat /\ m \in Nat /\ o + COLUMNS <= m
    BY <2>1
  <2>3. t[r].offset = o /\ t[s].offset = m
    BY <1>3
  <2> HIDE DEF o, m
  <2>4. o + i # m + j
    BY <2>2, SizesAre DEF Column
  <2> QED BY <2>3, <2>4
<1>7. Apart(t)
  <2>1. ASSUME NEW r \in Row, NEW s \in Row, r # s, NEW i \in Column, NEW j \in Column
        PROVE  t[r].offset + i # t[s].offset + j
    <3>1. r < s \/ s < r
      BY <1>2, <2>1
    <3> QED BY <1>6, <3>1
  <2> QED BY <1>5, <2>1 DEF Apart
<1>8. ct \in [Storage -> Cells]
  BY DEF Cells
<1>9. vcon_init = [cursorX |-> 0, cursorY |-> 0, scrollStart |-> 0, scrollEnd |-> ROWS,
                   lineTable |-> t, charTable |-> ct]
  BY DEF vcon_init, t, Storage
<1> HIDE DEF ct
<1>10. vcon_init \in Consoles /\ vcon_init.lineTable = t /\ vcon_init.scrollStart = 0
  <2>1. 0 \in 0 .. ROWS /\ 0 \in 0 .. ROWS - 2 /\ 0 \in Column
    BY SizesAre
  <2> QED BY <1>4, <1>8, <1>9, <2>1 DEF Consoles
<1> QED BY <1>7, <1>10 DEF Well

\* The invariant holds when c_io_init is done, and the screen is empty.
LEMMA InitOK ==
  ASSUME Init
  PROVE  IInv /\ Abstract!Init
<1> DEFINE b == vcon_init
           c == vcon_clear(b)
<1>1. Well(b) /\ b.scrollStart = 0
  BY FreshOK
<1> HIDE DEF b
<1>2. /\ Well(c) /\ \A r \in Row : Text(c, r) = <<>>
      /\ c.cursorX = 0 /\ c.cursorY = 0 /\ c.scrollStart = 0
  BY <1>1, ClearOK DEF Effect
<1>3. /\ con = clean(c) /\ vga = drawn(c, [r \in Row |-> <<>>]) /\ autoflush = TRUE
      /\ redraw = [at |-> "sleep", row |-> 0, line |-> Line(0, 0, FALSE)]
      /\ printer = <<>>
  BY DEF Init, b
<1> HIDE DEF c
<1>4. /\ Well(con) /\ con.cursorX = 0 /\ con.cursorY = 0 /\ con.scrollStart = 0
      /\ \A r \in Row : Text(con, r) = <<>>
  BY <1>2, <1>3, CleanOK
<1>5. vga = [r \in Row |-> <<>>]
  BY <1>2, <1>3 DEF drawn
<1>6. Line(0, 0, FALSE) \in Lines
  BY SizesAre DEF Line, Lines
<1>7. redraw \in Walks /\ redraw.at = "sleep"
  BY <1>3, <1>6, SizesAre DEF Walks
<1>8. Typed /\ Drawing /\ Printing /\ Alone
  BY <1>3, <1>5, <1>7 DEF Typed, Drawing, Printing, Alone
<1>9. CleanRowsShown
  BY <1>4, <1>5 DEF CleanRowsShown
<1>10. Settled = con /\ con \in Consoles
  BY <1>4, <1>8, AloneIs DEF Well
<1>11. [r \in Row |-> Text(Settled, r)] = [r \in Row |-> <<>>]
  BY <1>4, <1>10
<1>12. Abstract!Init
  BY <1>4, <1>10, <1>11 DEF Abstract!Init, Abstract!Row, Row
<1> QED BY <1>4, <1>8, <1>9, <1>10, <1>12 DEF IInv

-----------------------------------------------------------------------------

\* Every step keeps the invariant and is one of Screen, or none, or undoes the
\* end of a line.
LEMMA StepOK ==
  ASSUME IInv, [Next]_vars
  PROVE  IInv' /\ Refines
<1>1. CASE UNCHANGED vars
  BY <1>1, Stands DEF vars
<1>2. CASE Next
  <2>1. ASSUME NEW ch \in Chars \cup {LF, CR, TAB}, c_putchar(ch) \/ printer_enter(ch)
        PROVE  IInv' /\ Refines
    BY <2>1, PutcharStep, EnterStep DEF Typeable
  <2>2. ASSUME NEW p \in Places, NEW ch \in Chars \cup {LF}, c_putchar_at(p[1], p[2], ch)
        PROVE  IInv' /\ Refines
    BY <2>2, PutcharAtStep
  <2>3. ASSUME NEW ch \in Chars, marquee_animate(ch) PROVE IInv' /\ Refines
    BY <2>3, MarqueeStep
  <2>4. ASSUME c_clearscreen \/ c_clearscroll PROVE IInv' /\ Refines
    BY <2>4, ClearStep, ClearRegionStep DEF c_clearscroll
  <2>5. ASSUME NEW lines \in 1 .. ROWS, c_scroll(lines) PROVE IInv' /\ Refines
    BY <2>5, ScrollStep
  <2>6. ASSUME NEW p \in Places, c_moveto(p[1], p[2]) PROVE IInv' /\ Refines
    BY <2>6, MoveStep
  <2>7. ASSUME NEW start \in Tops, c_setscroll(start) PROVE IInv' /\ Refines
    BY <2>7, SetScrollStep
  <2>8. ASSUME init_done PROVE IInv' /\ Refines
    BY <2>8, InitDoneStep
  <2>9. ASSUME printer_putchar PROVE IInv' /\ Refines
    BY <2>9, TakeStep, PutStep, LoadStep, CellStep, MarkStep DEF printer_putchar
  <2>10. ASSUME vcon_redraw PROVE IInv' /\ Refines
    BY <2>10, TestStep, DrawStep, LoadMarkStep, StoreMarkStep DEF vcon_redraw
  <2> QED BY <1>2, <2>1, <2>2, <2>3, <2>4, <2>5, <2>6, <2>7, <2>8, <2>9, <2>10 DEF Next
<1> QED BY <1>1, <1>2

\* The invariant always holds.
THEOREM Invariance == Spec => []IInv
<1>1. Init => IInv
  BY InitOK
<1>2. IInv /\ [Next]_vars => IInv'
  BY StepOK
<1> QED BY <1>1, <1>2, PTL DEF Spec

\* Every row that is not marked dirty stands on the screen as its text, unless
\* it changed while redrawProcess was drawing it, or Printer has stored a cell
\* of it and not yet its mark.
THEOREM MarksAreKept == Spec => []CleanRowsShown
<1>1. IInv => CleanRowsShown
  BY DEF IInv
<1> QED BY <1>1, Invariance, PTL

\* The console implements a screen of independent lines: every step of every
\* party is a step of Screen, or none that its writers can see, or the store
\* of redrawProcess that undoes the end of a line.
THEOREM ConsoleIsScreen == Spec => BehavesAsScreen
<1>1. Init => Abstract!Init
  BY InitOK
<1>2. IInv /\ [Next]_vars => Refines
  BY StepOK
<1>3. Refines => [\/ UNCHANGED Abstract!vars
                  \/ Abstract!Next
                  \/ Undoes /\ Abstract!LoseEnd]_vars
  BY DEF Refines
<1> QED BY <1>1, <1>2, <1>3, Invariance, PTL DEF Spec, BehavesAsScreen

-----------------------------------------------------------------------------
(***************************************************************************)
(* Input, for any size of the ring.  Held is what the ring holds, oldest   *)
(* first.  The invariant is KeysInOrder itself with the types it needs;    *)
(* storing a character appends to Held, and taking one moves its head to   *)
(* the end of taken.                                                       *)
(***************************************************************************)

CONSTANTS Procs, Sizes, C_BUFSIZE, MaxCodes, MaxWaiting
VARIABLES input_buffer, next_char, next_space, shift, ctrl, port, codes, reader,
          reading, typed, taken, echoed

Keys == INSTANCE Keyboard

KeyChars == {"LF", "EOT", "D", "d", "0xff", "US", "NUL"}
Offsets == 0 .. C_BUFSIZE - 1

\* the offset after p, and the characters from offset c up to offset s
After(p) == IF p + 1 >= C_BUFSIZE THEN 0 ELSE p + 1
Count(c, s) == IF s < c THEN s - c + C_BUFSIZE ELSE s - c
Cell(c, i) == (c + i - 1) % C_BUFSIZE
Held(b, c, s) == [i \in 1 .. Count(c, s) |-> b[Cell(c, i)]]

KeysTyped ==
  /\ input_buffer \in [Offsets -> KeyChars]
  /\ next_char \in Offsets /\ next_space \in Offsets
  /\ typed \in Seq(KeyChars) /\ taken \in Seq(KeyChars) /\ echoed \in Seq(KeyChars)

\* the characters of t up to n that c_getchar sends to the console
Sent(t, n) == {i \in 1 .. n : t[i] # "EOT"}
Echo(t, e) ==
  /\ Len(e) = Cardinality(Sent(t, Len(t)))
  /\ \A i \in 1 .. Len(t) : t[i] # "EOT" => e[Cardinality(Sent(t, i))] = t[i]

KeysInv ==
  /\ KeysTyped
  /\ typed = taken \o Held(input_buffer, next_char, next_space)
  /\ Echo(taken, echoed)

\* Where a cell of the ring lies.
LEMMA CellIs ==
  ASSUME Keys!KeyboardAssumption, NEW c \in Offsets, NEW i \in 1 .. C_BUFSIZE
  PROVE  /\ Cell(c, i) = IF c + i - 1 < C_BUFSIZE THEN c + i - 1 ELSE c + i - 1 - C_BUFSIZE
         /\ Cell(c, i) \in Offsets
BY DEF Keys!KeyboardAssumption, Offsets, Cell

\* The characters between two places of the ring are a sequence of keys.
LEMMA HeldIsSeq ==
  ASSUME Keys!KeyboardAssumption, NEW b \in [Offsets -> KeyChars],
         NEW c \in Offsets, NEW s \in Offsets
  PROVE  /\ Count(c, s) \in 0 .. C_BUFSIZE - 1
         /\ Held(b, c, s) \in Seq(KeyChars)
         /\ Len(Held(b, c, s)) = Count(c, s)
         /\ \A i \in 1 .. Count(c, s) : Held(b, c, s)[i] = b[Cell(c, i)]
<1>1. Count(c, s) \in 0 .. C_BUFSIZE - 1
  BY DEF Keys!KeyboardAssumption, Offsets, Count
<1>2. \A i \in 1 .. Count(c, s) : b[Cell(c, i)] \in KeyChars
  <2> TAKE i \in 1 .. Count(c, s)
  <2>1. i \in 1 .. C_BUFSIZE
    BY <1>1 DEF Keys!KeyboardAssumption
  <2> QED BY <2>1, CellIs
<1>3. Held(b, c, s) \in [1 .. Count(c, s) -> KeyChars]
  BY <1>2 DEF Held
<1>4. Held(b, c, s) \in Seq(KeyChars) /\ Len(Held(b, c, s)) = Count(c, s)
  BY <1>1, <1>3, IsASeq, LenProperties
<1> QED BY <1>1, <1>4 DEF Held

\* The ring has room for one more exactly if fewer than C_BUFSIZE - 1 wait.
LEMMA RoomIs ==
  ASSUME Keys!KeyboardAssumption, NEW c \in Offsets, NEW s \in Offsets
  PROVE  /\ After(s) # c <=> Count(c, s) < C_BUFSIZE - 1
         /\ After(s) \in Offsets
         /\ After(s) # c => Count(c, After(s)) = Count(c, s) + 1
         /\ c # s => Count(c, s) = Count(After(c), s) + 1
BY DEF Keys!KeyboardAssumption, Offsets, After, Count

\* Storing a character adds it at the end.
LEMMA StoreAdds ==
  ASSUME Keys!KeyboardAssumption, NEW b \in [Offsets -> KeyChars],
         NEW c \in Offsets, NEW s \in Offsets, NEW ch \in KeyChars, After(s) # c
  PROVE  Held([b EXCEPT ![s] = ch], c, After(s)) = Append(Held(b, c, s), ch)
<1> DEFINE n == Count(c, s)
           b2 == [b EXCEPT ![s] = ch]
           old == Held(b, c, s)
           new == Held(b2, c, After(s))
<1>1. b2 \in [Offsets -> KeyChars]
  OBVIOUS
<1>2. After(s) \in Offsets /\ Count(c, After(s)) = n + 1
  BY RoomIs
<1>3. /\ n \in 0 .. C_BUFSIZE - 1 /\ old \in Seq(KeyChars) /\ Len(old) = n
      /\ \A i \in 1 .. n : old[i] = b[Cell(c, i)]
  BY HeldIsSeq
<1>4. /\ n + 1 \in 0 .. C_BUFSIZE - 1 /\ new \in Seq(KeyChars) /\ Len(new) = n + 1
      /\ \A i \in 1 .. n + 1 : new[i] = b2[Cell(c, i)]
  <2> DEFINE k == Count(c, After(s))
  <2> HIDE DEF b2
  <2>1. /\ k \in 0 .. C_BUFSIZE - 1 /\ new \in Seq(KeyChars) /\ Len(new) = k
        /\ \A i \in 1 .. k : new[i] = b2[Cell(c, i)]
    BY <1>1, <1>2, HeldIsSeq
  <2>2. k = n + 1
    BY <1>2
  <2> HIDE DEF k, new, n
  <2> QED BY <2>1, <2>2
<1>5. \A i \in 1 .. n + 1 : new[i] = Append(old, ch)[i]
  <2> TAKE i \in 1 .. n + 1
  <2>1. i \in 1 .. C_BUFSIZE
    BY <1>4 DEF Keys!KeyboardAssumption
  <2>2. Cell(c, i) \in Offsets /\ (Cell(c, i) = s <=> i = n + 1)
    <3>1. /\ Cell(c, i) = IF c + i - 1 < C_BUFSIZE THEN c + i - 1 ELSE c + i - 1 - C_BUFSIZE
          /\ Cell(c, i) \in Offsets
      BY <2>1, CellIs
    <3> QED BY <3>1, <2>1, <1>4 DEF Count, Offsets, Keys!KeyboardAssumption
  <2>3. CASE i = n + 1
    <3>1. b2[Cell(c, i)] = ch
      BY <2>2, <2>3
    <3>2. Append(old, ch)[n + 1] = ch
      <4> HIDE DEF old, n
      <4> QED BY <1>3, AppendProperties
    <3> HIDE DEF b2, new, old, n
    <3> QED BY <3>1, <3>2, <2>3, <1>4
  <2>4. CASE i # n + 1
    <3>1. i \in 1 .. n
      BY <2>4, <1>3
    <3>2. b2[Cell(c, i)] = b[Cell(c, i)]
      BY <2>2, <2>4
    <3>3. Append(old, ch)[i] = old[i]
      <4> HIDE DEF old, n
      <4> QED BY <1>3, <3>1, AppendProperties
    <3> HIDE DEF b2, new, old, n
    <3> QED BY <3>1, <3>2, <3>3, <1>3, <1>4
  <2> QED BY <2>3, <2>4
<1> HIDE DEF b2, new, old, n
<1>6. Append(old, ch) \in Seq(KeyChars) /\ Len(Append(old, ch)) = n + 1
  BY <1>3, AppendProperties
<1>7. new = Append(old, ch)
  BY <1>4, <1>5, <1>6, SeqEqual
<1> QED BY <1>7 DEF new, old, b2

\* Taking the oldest character leaves the others, in order.
LEMMA TakeRemoves ==
  ASSUME Keys!KeyboardAssumption, NEW b \in [Offsets -> KeyChars],
         NEW c \in Offsets, NEW s \in Offsets, c # s,
         NEW t \in Seq(KeyChars)
  PROVE  t \o Held(b, c, s) = Append(t, b[c]) \o Held(b, After(c), s)
<1> DEFINE n == Count(After(c), s)
           m == Len(t)
           old == Held(b, c, s)
           new == Held(b, After(c), s)
           lhs == t \o old
           rhs == Append(t, b[c]) \o new
<1>1. After(c) \in Offsets /\ Count(c, s) = n + 1 /\ b[c] \in KeyChars
  BY RoomIs
<1>2. /\ n + 1 \in 0 .. C_BUFSIZE - 1 /\ old \in Seq(KeyChars) /\ Len(old) = n + 1
      /\ \A i \in 1 .. n + 1 : old[i] = b[Cell(c, i)]
  <2> DEFINE k == Count(c, s)
  <2>1. /\ k \in 0 .. C_BUFSIZE - 1 /\ old \in Seq(KeyChars) /\ Len(old) = k
        /\ \A i \in 1 .. k : old[i] = b[Cell(c, i)]
    BY HeldIsSeq
  <2>2. k = n + 1
    BY <1>1
  <2> HIDE DEF k, old, n
  <2> QED BY <2>1, <2>2
<1>3. /\ n \in 0 .. C_BUFSIZE - 1 /\ new \in Seq(KeyChars) /\ Len(new) = n
      /\ \A i \in 1 .. n : new[i] = b[Cell(After(c), i)]
  BY <1>1, HeldIsSeq
<1>4. Cell(c, 1) = c /\ \A i \in 1 .. n : Cell(After(c), i) = Cell(c, i + 1)
  <2>1. C_BUFSIZE \in Nat /\ C_BUFSIZE >= 2 /\ 1 \in 1 .. C_BUFSIZE
    BY DEF Keys!KeyboardAssumption
  <2>2. Cell(c, 1) = c
    BY <2>1, CellIs DEF Offsets
  <2> SUFFICES ASSUME NEW i \in 1 .. n PROVE Cell(After(c), i) = Cell(c, i + 1)
    BY <2>2
  <2> HIDE DEF n
  <2>3. i \in 1 .. C_BUFSIZE /\ i + 1 \in 1 .. C_BUFSIZE
    BY <2>1, <1>2, <1>3
  <2>4. Cell(c, i + 1) = IF c + (i + 1) - 1 < C_BUFSIZE THEN c + (i + 1) - 1
                         ELSE c + (i + 1) - 1 - C_BUFSIZE
    BY <2>3, CellIs
  <2>5. Cell(After(c), i) = IF After(c) + i - 1 < C_BUFSIZE THEN After(c) + i - 1
                            ELSE After(c) + i - 1 - C_BUFSIZE
    BY <2>3, <1>1, CellIs
  <2>6. c \in 0 .. C_BUFSIZE - 1
    BY DEF Offsets
  <2>7. CASE c + 1 >= C_BUFSIZE
    <3>1. After(c) = 0
      BY <2>7 DEF After
    <3> QED BY <2>1, <2>3, <2>4, <2>5, <2>6, <2>7, <3>1
  <2>8. CASE ~(c + 1 >= C_BUFSIZE)
    <3>1. After(c) = c + 1
      BY <2>8 DEF After
    <3> QED BY <2>1, <2>3, <2>4, <2>5, <2>6, <2>8, <3>1
  <2> QED BY <2>7, <2>8
<1>5. old[1] = b[c] /\ \A i \in 1 .. n : new[i] = old[i + 1]
  <2> HIDE DEF old, new, n
  <2> QED BY <1>2, <1>3, <1>4
<1>6. \A v, w \in Seq(KeyChars) :
        /\ v \o w \in Seq(KeyChars) /\ Len(v \o w) = Len(v) + Len(w)
        /\ \A i \in 1 .. Len(v) : (v \o w)[i] = v[i]
        /\ \A i \in 1 .. Len(w) : (v \o w)[Len(v) + i] = w[i]
  OBVIOUS
<1>7. /\ m \in Nat /\ Append(t, b[c]) \in Seq(KeyChars) /\ Len(Append(t, b[c])) = m + 1
      /\ \A i \in 1 .. m : Append(t, b[c])[i] = t[i]
      /\ Append(t, b[c])[m + 1] = b[c]
  BY <1>1, AppendProperties
<1> DEFINE u == Append(t, b[c])
<1> HIDE DEF old, new, n, u
<1>8. /\ lhs \in Seq(KeyChars) /\ Len(lhs) = m + (n + 1)
      /\ \A i \in 1 .. m : lhs[i] = t[i]
      /\ \A i \in 1 .. n + 1 : lhs[m + i] = old[i]
  <2>1. /\ t \o old \in Seq(KeyChars) /\ Len(t \o old) = Len(t) + Len(old)
        /\ \A i \in 1 .. Len(t) : (t \o old)[i] = t[i]
        /\ \A i \in 1 .. Len(old) : (t \o old)[Len(t) + i] = old[i]
    BY <1>2, <1>6, Zenon
  <2>2. Len(old) = n + 1 /\ Len(t) = m /\ lhs = t \o old
    BY <1>2
  <2> HIDE DEF lhs, m
  <2> QED BY <2>1, <2>2, Zenon
<1>9. /\ rhs \in Seq(KeyChars) /\ Len(rhs) = (m + 1) + n
      /\ \A i \in 1 .. m + 1 : rhs[i] = u[i]
      /\ \A i \in 1 .. n : rhs[(m + 1) + i] = new[i]
  <2>1. u \in Seq(KeyChars) /\ Len(u) = m + 1
    BY <1>7 DEF u
  <2>2. rhs = u \o new
    BY DEF u
  <2> HIDE DEF rhs, m
  <2>3. /\ u \o new \in Seq(KeyChars) /\ Len(u \o new) = Len(u) + Len(new)
        /\ \A i \in 1 .. Len(u) : (u \o new)[i] = u[i]
        /\ \A i \in 1 .. Len(new) : (u \o new)[Len(u) + i] = new[i]
    BY <2>1, <1>3, <1>6, Zenon
  <2>4. Len(new) = n
    BY <1>3
  <2> QED BY <2>1, <2>2, <2>3, <2>4, Zenon
<1>10. \A i \in 1 .. Len(lhs) : lhs[i] = rhs[i]
  <2> HIDE DEF lhs, rhs, m
  <2> TAKE i \in 1 .. Len(lhs)
  <2>0. i \in 1 .. m + (n + 1)
    BY <1>8
  <2>1. CASE i <= m
    BY <2>0, <2>1, <1>7, <1>8, <1>9 DEF u
  <2>2. CASE i = m + 1
    <3>1. lhs[m + 1] = old[1] /\ rhs[m + 1] = u[m + 1]
      BY <1>3, <1>7, <1>8, <1>9
    <3> QED BY <3>1, <2>2, <1>5, <1>7 DEF u
  <2>3. CASE i > m + 1
    <3> DEFINE k == i - (m + 1)
    <3>1. k \in 1 .. n /\ k + 1 \in 1 .. n + 1 /\ i = m + (k + 1) /\ i = (m + 1) + k
      BY <2>0, <2>3, <1>3, <1>7
    <3> HIDE DEF k
    <3>2. lhs[m + (k + 1)] = old[k + 1] /\ rhs[(m + 1) + k] = new[k]
      BY <3>1, <1>8, <1>9
    <3> QED BY <3>1, <3>2, <1>5
  <2> QED BY <2>0, <2>1, <2>2, <2>3, <1>3, <1>7
<1> HIDE DEF lhs, rhs
<1>11. lhs = rhs
  <2>1. Len(lhs) = Len(rhs)
    BY <1>3, <1>7, <1>8, <1>9
  <2> QED BY <2>1, <1>8, <1>9, <1>10, SeqEqual
<1> QED BY <1>11 DEF lhs, rhs, old, new

\* Reading one character more sends it to the console, unless it is EOT.
LEMMA EchoGrows ==
  ASSUME NEW t \in Seq(KeyChars), NEW e \in Seq(KeyChars), Echo(t, e), NEW ch \in KeyChars
  PROVE  Echo(Append(t, ch), IF ch = "EOT" THEN e ELSE Append(e, ch))
<1> DEFINE m == Len(t)
           u == Append(t, ch)
           f == IF ch = "EOT" THEN e ELSE Append(e, ch)
           n == Cardinality(Sent(t, m))
<1>1. /\ m \in Nat /\ u \in Seq(KeyChars) /\ Len(u) = m + 1
      /\ (\A i \in 1 .. m : u[i] = t[i]) /\ u[m + 1] = ch
  BY AppendProperties
<1> HIDE DEF m, u
<1>2. \A k \in 0 .. m : Sent(u, k) = Sent(t, k)
  BY <1>1 DEF Sent
<1>3. \A k \in 0 .. m : IsFiniteSet(Sent(t, k)) /\ Cardinality(Sent(t, k)) \in Nat
  <2> TAKE k \in 0 .. m
  <2>1. IsFiniteSet(1 .. k) /\ Sent(t, k) \in SUBSET (1 .. k)
    BY <1>1, FS_Interval DEF Sent
  <2>2. IsFiniteSet(Sent(t, k))
    BY <2>1, FS_Subset
  <2> QED BY <2>2, FS_CardinalityType
<1>4. n \in Nat /\ Len(e) = n
  BY <1>1, <1>3 DEF Echo, m
<1>5. \A i \in 1 .. m : t[i] # "EOT" => Cardinality(Sent(t, i)) \in 1 .. n
  <2> SUFFICES ASSUME NEW i \in 1 .. m, t[i] # "EOT"
               PROVE  Cardinality(Sent(t, i)) \in 1 .. n
    OBVIOUS
  <2>1. i \in 0 .. m /\ m \in 0 .. m
    BY <1>1
  <2>2. Sent(t, i) \in SUBSET Sent(t, m) /\ i \in Sent(t, i)
    BY <1>1 DEF Sent
  <2>3. Cardinality(Sent(t, i)) <= n
    BY <2>1, <2>2, <1>3, FS_Subset
  <2>4. Cardinality(Sent(t, i)) # 0
    BY <2>1, <2>2, <1>3, FS_EmptySet
  <2> QED BY <2>1, <2>3, <2>4, <1>3, <1>4
<1>6. CASE ch = "EOT"
  <2>1. Sent(u, m + 1) = Sent(t, m)
    BY <1>6, <1>1 DEF Sent
  <2>2. Len(e) = Cardinality(Sent(u, m + 1))
    BY <2>1, <1>4
  <2>3. ASSUME NEW i \in 1 .. m + 1, u[i] # "EOT"
        PROVE  e[Cardinality(Sent(u, i))] = u[i]
    <3>1. i \in 1 .. m /\ i \in 0 .. m
      BY <2>3, <1>6, <1>1
    <3>2. e[Cardinality(Sent(t, i))] = t[i]
      BY <3>1, <2>3, <1>1 DEF Echo, m
    <3> QED BY <3>1, <3>2, <1>1, <1>2
  <2> QED BY <2>2, <2>3, <1>6, <1>1 DEF Echo, u
<1>7. CASE ch # "EOT"
  <2>1. Sent(u, m + 1) = Sent(t, m) \cup {m + 1} /\ m + 1 \notin Sent(t, m)
    BY <1>7, <1>1 DEF Sent
  <2>2. Cardinality(Sent(u, m + 1)) = n + 1
    <3>1. IsFiniteSet(Sent(t, m))
      BY <1>1, <1>3
    <3>2. Cardinality(Sent(t, m) \cup {m + 1}) = n + 1
      BY <3>1, <2>1, FS_AddElement
    <3> QED BY <3>2, <2>1
  <2> HIDE DEF n
  <2>3. /\ Len(Append(e, ch)) = n + 1 /\ Append(e, ch)[n + 1] = ch
        /\ \A i \in 1 .. n : Append(e, ch)[i] = e[i]
    BY <1>4, AppendProperties
  <2>4. ASSUME NEW i \in 1 .. m + 1, u[i] # "EOT"
        PROVE  Append(e, ch)[Cardinality(Sent(u, i))] = u[i]
    <3>1. CASE i = m + 1
      BY <3>1, <2>2, <2>3, <1>1
    <3>2. CASE i # m + 1
      <4>1. i \in 1 .. m /\ i \in 0 .. m
        BY <3>2, <1>1
      <4>2. e[Cardinality(Sent(t, i))] = t[i] /\ t[i] # "EOT" /\ u[i] = t[i]
        BY <4>1, <2>4, <1>1 DEF Echo, m
      <4>3. Append(e, ch)[Cardinality(Sent(t, i))] = e[Cardinality(Sent(t, i))]
        BY <4>1, <4>2, <2>3, <1>5
      <4> QED BY <4>1, <4>2, <4>3, <1>2
    <3> QED BY <3>1, <3>2
  <2>5. Len(Append(e, ch)) = Cardinality(Sent(u, Len(u)))
    BY <2>2, <2>3, <1>1
  <2> QED BY <2>4, <2>5, <1>7, <1>1 DEF Echo, u
<1> QED BY <1>6, <1>7

-----------------------------------------------------------------------------
(* The steps *)

\* The module's definitions are the ones used here.
LEMMA KeysAre ==
  ASSUME Keys!KeyboardAssumption, KeysTyped
  PROVE  /\ Keys!Queued = Held(input_buffer, next_char, next_space)
         /\ Keys!c_input_queue = Count(next_char, next_space)
         /\ \A p : Keys!c_increment(p) = After(p)
         /\ Keys!KeysInOrder <=>
              /\ typed = taken \o Held(input_buffer, next_char, next_space)
              /\ Echo(taken, echoed)
<1>1. Keys!c_input_queue = Count(next_char, next_space)
  BY DEF Keys!c_input_queue, Count
<1>2. Keys!Queued = Held(input_buffer, next_char, next_space)
  BY <1>1 DEF Keys!Queued, Held, Cell
<1>3. \A p : Keys!c_increment(p) = After(p)
  BY DEF Keys!c_increment, After
<1>4. DOMAIN taken = 1 .. Len(taken)
  BY DEF KeysTyped
<1>5. \A n : Keys!Shown(n) = Cardinality(Sent(taken, n))
  <2>1. \A S : Keys!Cardinality(S) = Cardinality(S)
    BY Zenon DEF Keys!Cardinality, Cardinality
  <2> QED BY <2>1, Zenon DEF Keys!Shown, Sent, Keys!EOT
<1> QED BY <1>1, <1>2, <1>3, <1>4, <1>5 DEF Keys!KeysInOrder, Echo, Keys!EOT

\* At the start nothing is typed, held or taken.
LEMMA KeysInit ==
  ASSUME Keys!KeyboardAssumption, Keys!Init
  PROVE  KeysInv
<1>1. KeysTyped
  BY DEF Keys!Init, KeysTyped, Offsets, KeyChars, Keys!KeyboardAssumption
<1>2. Held(input_buffer, 0, 0) = <<>>
  BY DEF Held, Count
<1>3. Sent(<<>>, 0) = {}
  BY DEF Sent
<1>4. Echo(<<>>, <<>>)
  BY <1>3, FS_EmptySet DEF Echo
<1> QED BY <1>1, <1>2, <1>4 DEF KeysInv, Keys!Init

\* c_input_scan_code stores a character, drops it for lack of room, or has
\* none to store.
LEMMA ScanKeeps ==
  ASSUME Keys!KeyboardAssumption, KeysInv, NEW code, Keys!c_input_scan_code(code)
  PROVE  KeysInv'
<1> DEFINE held == Held(input_buffer, next_char, next_space)
           ch == Keys!scan_code(code)
<1>1. KeysTyped /\ typed = taken \o held /\ Echo(taken, echoed)
  BY DEF KeysInv
<1>2. next_char' = next_char /\ taken' = taken /\ echoed' = echoed
  BY DEF Keys!c_input_scan_code
<1>3. held \in Seq(KeyChars) /\ Len(held) = Count(next_char, next_space)
  BY <1>1, HeldIsSeq DEF KeysTyped
<1>4. Len(typed) - Len(taken) = Count(next_char, next_space)
  <2> HIDE DEF held
  <2>1. Len(typed) = Len(taken) + Len(held) /\ Len(taken) \in Nat /\ Len(held) \in Nat
    <3>1. taken \in Seq(KeyChars)
      BY <1>1 DEF KeysTyped
    <3>2. Len(taken \o held) = Len(taken) + Len(held)
      BY <3>1, <1>3, ConcatProperties
    <3> QED BY <3>1, <3>2, <1>1, <1>3, LenProperties
  <2> QED BY <2>1, <1>3
<1>5. ch \in KeyChars
  BY DEF Keys!scan_code, KeyChars, Keys!LF, Keys!EOT
<1> HIDE DEF ch
<1>6. CASE UNCHANGED <<input_buffer, next_space, typed>>
  BY <1>6, <1>1, <1>2 DEF KeysInv, KeysTyped
<1>7. CASE /\ Keys!store(ch)
           /\ typed' = IF Len(typed) - Len(taken) < C_BUFSIZE - 1
                       THEN Append(typed, ch) ELSE typed
  <2>1. /\ After(next_space) # next_char <=> Count(next_char, next_space) < C_BUFSIZE - 1
        /\ After(next_space) \in Offsets
    BY <1>1, RoomIs DEF KeysTyped
  <2>2. Keys!c_increment(next_space) = After(next_space)
    BY <1>1, KeysAre
  <2>3. CASE After(next_space) # next_char
    <3>1. /\ input_buffer' = [input_buffer EXCEPT ![next_space] = ch]
          /\ next_space' = After(next_space)
      BY <1>7, <2>2, <2>3 DEF Keys!store
    <3>2. typed' = Append(typed, ch)
      BY <1>4, <1>7, <2>1, <2>3
    <3>3. Held(input_buffer', next_char', next_space') = Append(held, ch)
      BY <3>1, <1>1, <1>2, <1>5, <2>3, StoreAdds DEF KeysTyped
    <3>4. Append(taken \o held, ch) = taken \o Append(held, ch)
      <4> HIDE DEF held
      <4>1. taken \in Seq(KeyChars) /\ taken \o held \in Seq(KeyChars) /\ <<ch>> \in Seq(KeyChars)
        BY <1>1, <1>3, <1>5 DEF KeysTyped
      <4>2. /\ Append(taken \o held, ch) = (taken \o held) \o <<ch>>
            /\ Append(held, ch) = held \o <<ch>>
        BY <4>1, <1>3, <1>5, AppendIsConcat
      <4>3. (taken \o held) \o <<ch>> = taken \o (held \o <<ch>>)
        BY <4>1, <1>3, ConcatAssociative
      <4> QED BY <4>2, <4>3
    <3>5. typed' = taken' \o Held(input_buffer', next_char', next_space')
      <4> HIDE DEF held
      <4> QED BY <3>2, <3>3, <3>4, <1>1, <1>2
    <3>6. KeysTyped'
      BY <3>1, <3>2, <1>1, <1>2, <1>5, <2>1, AppendProperties DEF KeysTyped
    <3> QED BY <3>5, <3>6, <1>1, <1>2 DEF KeysInv
  <2>4. CASE After(next_space) = next_char
    <3>1. UNCHANGED <<input_buffer, next_space, typed>>
      BY <1>4, <1>7, <2>1, <2>2, <2>4 DEF Keys!store
    <3> QED BY <3>1, <1>6
  <2> QED BY <2>3, <2>4
<1> QED BY <1>6, <1>7 DEF Keys!c_input_scan_code, ch

\* c_getchar takes the oldest character.
LEMMA GetKeeps ==
  ASSUME Keys!KeyboardAssumption, KeysInv, Keys!c_getchar
  PROVE  KeysInv'
<1> DEFINE ch == input_buffer[next_char]
<1>1. /\ KeysTyped /\ typed = taken \o Held(input_buffer, next_char, next_space)
      /\ Echo(taken, echoed)
  BY DEF KeysInv
<1>2. /\ next_char # next_space /\ taken' = Append(taken, ch)
      /\ echoed' = IF ch = "EOT" THEN echoed ELSE Append(echoed, ch)
      /\ UNCHANGED <<input_buffer, next_space, typed>>
  BY DEF Keys!c_getchar, Keys!Untouched, Keys!EOT
<1>3. next_char' = After(next_char)
  BY <1>1, KeysAre DEF Keys!c_getchar
<1>4. ch \in KeyChars /\ After(next_char) \in Offsets
  BY <1>1, RoomIs DEF KeysTyped
<1>5. typed' = taken' \o Held(input_buffer', next_char', next_space')
  BY <1>1, <1>2, <1>3, TakeRemoves DEF KeysTyped
<1>6. Echo(taken', echoed')
  <2> HIDE DEF ch
  <2> QED BY <1>1, <1>2, <1>4, EchoGrows DEF KeysTyped
<1>7. KeysTyped'
  <2> HIDE DEF ch
  <2> QED BY <1>1, <1>2, <1>3, <1>4, AppendProperties DEF KeysTyped
<1> QED BY <1>5, <1>6, <1>7 DEF KeysInv

\* Every step of the keyboard keeps the invariant.
LEMMA KeysStep ==
  ASSUME Keys!KeyboardAssumption, KeysInv, [Keys!Next]_(Keys!vars)
  PROVE  KeysInv'
<1> DEFINE Same == UNCHANGED <<input_buffer, next_char, next_space, typed, taken, echoed>>
<1>0. Same => KeysInv'
  BY DEF KeysInv, KeysTyped
<1>1. ASSUME NEW code, Keys!key(code) PROVE KeysInv'
  BY <1>0, <1>1 DEF Keys!key, Keys!Ring
<1>2. ASSUME NEW p, NEW size, Keys!sys_read(p, size) PROVE KeysInv'
  BY <1>0, <1>2 DEF Keys!sys_read, Keys!Ring, Keys!Untouched
<1>3. ASSUME Keys!sys_read_return \/ Keys!sio_isr PROVE KeysInv'
  BY <1>0, <1>3 DEF Keys!sys_read_return, Keys!sio_isr, Keys!Ring, Keys!Untouched
<1>4. ASSUME Keys!c_keyboard_isr \/ Keys!c_getchar_poll PROVE KeysInv'
  BY <1>4, ScanKeeps DEF Keys!c_keyboard_isr, Keys!c_getchar_poll
<1>5. ASSUME Keys!c_getchar PROVE KeysInv'
  BY <1>5, GetKeeps
<1>6. ASSUME UNCHANGED Keys!vars PROVE KeysInv'
  BY <1>0, <1>6 DEF Keys!vars
<1> QED BY <1>1, <1>2, <1>3, <1>4, <1>5, <1>6 DEF Keys!Next

\* Every key typed while the ring had room is read exactly once and in order,
\* and echoed unless it is EOT, for any size of the ring, any buffers of the
\* readers and any interleaving of the interrupt with the polling read.
THEOREM KeysDelivered ==
  Keys!KeyboardAssumption => (Keys!Spec => []Keys!KeysInOrder)
<1> SUFFICES ASSUME Keys!KeyboardAssumption PROVE Keys!Spec => []Keys!KeysInOrder
  OBVIOUS
<1>1. Keys!Init => KeysInv
  BY KeysInit
<1>2. KeysInv /\ [Keys!Next]_(Keys!vars) => KeysInv'
  BY KeysStep
<1>3. KeysInv => Keys!KeysInOrder
  BY KeysAre DEF KeysInv
<1> QED BY <1>1, <1>2, <1>3, PTL DEF Keys!Spec
=============================================================================
