------------------------------ MODULE VConsole ------------------------------
(***************************************************************************)
(* The console of kern/vconsole and the c_io.c layer above it: a table of  *)
(* lines, each an index into a table of characters, so that scrolling only *)
(* permutes the line table; and the process that draws the lines marked    *)
(* dirty on the screen.                                                    *)
(*                                                                         *)
(* Three parties run here.  The kernel (system calls, the marquee of the   *)
(* clock interrupt, the boot code) writes with interrupts off.  Printer    *)
(* stands for the network processes, which call c_printf themselves and    *)
(* can be preempted inside vcon_putchar, redrawProcess can be preempted    *)
(* inside vcon_redraw: their steps are single accesses to the two tables.  *)
(* A line entry is 32 bits wide and loaded and stored at once, but its     *)
(* mark and its length share a halfword, which control.c:64 loads, clears  *)
(* the mark in and stores back.  vcon_vga_draw, which reads only, is one   *)
(* step: a row that changes while it is drawn counts as missed in any case.*)
(*                                                                         *)
(* Two writers inside vcon_putchar at once corrupt the line table for good *)
(* (the second stores a line entry it read before the first one scrolled). *)
(* The model leaves that overlap out: while Printer is inside, the kernel  *)
(* writes only to other lines, and to none of the region while Printer     *)
(* scrolls it, as the marquee does.  For the same reason nobody looks at   *)
(* the cursor between Printer's accesses to the tables.                    *)
(***************************************************************************)
EXTENDS Integers, Sequences, FiniteSets

CONSTANTS
  ROWS, COLUMNS,
  Chars,          \* printable characters
  LF, CR, TAB,
  Junk,           \* a cell of the character table nobody has written
  Tops,           \* the first lines of the scroll regions that are set
  Places,         \* the positions <<x, y>> that calls name
  MaxWrites       \* bound: calls that write

Row == 0 .. ROWS - 1
Column == 0 .. COLUMNS - 1
Cells == Chars \cup {Junk}

\* The program only uses regions that reach the last line and have at least
\* two lines.  In others the cursor can pass scrollEnd, or --cursorY wraps.
ASSUME VConsoleAssumption ==
  /\ ROWS \in Nat /\ ROWS >= 2
  /\ COLUMNS \in Nat \ {0}
  /\ Tops \subseteq 0 .. ROWS - 2
  /\ Places \subseteq Nat \X Nat
  /\ Cardinality({LF, CR, TAB, Junk}) = 4 /\ Chars \cap {LF, CR, TAB, Junk} = {}
  /\ MaxWrites \in Nat

VARIABLES
  con,        \* the VCon: cursor, scroll region, line and character tables
  vga,        \* what stands in each row of the video memory
  autoflush,  \* CIO_AUTOFLUSH
  redraw,     \* redrawProcess: where it is, its row and its copy of the line
  printer,    \* Printer in vcon_putchar: where it is, and its copies
  missed,     \* rows that changed between their last draw and its end
  writes

vars == <<con, vga, autoflush, redraw, printer, missed, writes>>

Line(offset, length, dirty) == [offset |-> offset, length |-> length, dirty |-> dirty]

\* the cells that a line shows
Shows(c, line) == [i \in 1 .. line.length |-> c.charTable[line.offset + i - 1]]
Text(c, r) == Shows(c, c.lineTable[r])

-----------------------------------------------------------------------------
(* console.c and buffer.c *)

vcon_buf_initLineTable ==
  [r \in Row |-> Line(r * COLUMNS, 0, TRUE)]

vcon_buf_clearLineTable(c, from, to) ==
  [c EXCEPT !.lineTable = [r \in Row |-> IF from <= r /\ r < to
                                         THEN Line(@[r].offset, 0, TRUE) ELSE @[r]]]

vcon_clear(c) ==
  [vcon_buf_clearLineTable(c, 0, ROWS) EXCEPT !.cursorX = 0, !.cursorY = c.scrollStart]

vcon_clearScroll(c) ==
  [vcon_buf_clearLineTable(c, c.scrollStart, c.scrollEnd) EXCEPT
     !.cursorX = 0, !.cursorY = 0]

\* Mutant: the lines that move up are not marked.
vcon_scroll_unmarked(c, lines) ==
  LET stop == c.scrollEnd - lines IN
  IF lines >= c.scrollEnd - c.scrollStart THEN vcon_clearScroll(c)
  ELSE [c EXCEPT !.lineTable =
          [r \in Row |-> IF r < c.scrollStart \/ r >= c.scrollEnd THEN @[r]
                         ELSE IF r < stop THEN @[r + lines]
                         ELSE Line(@[r - stop + c.scrollStart].offset, 0, TRUE)]]

\* Mutant: the lines that come in at the bottom keep their characters' place.
vcon_scroll_shared(c, lines) ==
  LET stop == c.scrollEnd - lines IN
  IF lines >= c.scrollEnd - c.scrollStart THEN vcon_clearScroll(c)
  ELSE [c EXCEPT !.lineTable =
          [r \in Row |-> IF r < c.scrollStart \/ r >= c.scrollEnd THEN @[r]
                         ELSE IF r < stop THEN [@[r + lines] EXCEPT !.dirty = TRUE]
                         ELSE Line(@[r].offset, 0, TRUE)]]

\* the first lines of the region become, emptied, its last ones
vcon_scroll(c, lines) ==
  LET stop == c.scrollEnd - lines IN
  IF lines >= c.scrollEnd - c.scrollStart THEN vcon_clearScroll(c)
  ELSE [c EXCEPT !.lineTable =
          [r \in Row |-> IF r < c.scrollStart \/ r >= c.scrollEnd THEN @[r]
                         ELSE IF r < stop THEN [@[r + lines] EXCEPT !.dirty = TRUE]
                         ELSE Line(@[r - stop + c.scrollStart].offset, 0, TRUE)]]

\* the start of vcon_putchar
putchar_scroll(c) ==
  IF c.cursorY = c.scrollEnd
  THEN [vcon_scroll(c, 1) EXCEPT !.cursorY = @ - 1]
  ELSE c

\* the rest of vcon_putchar, with its copies curRow, curCol and curLine
putchar_store(c, at, ch) ==
  LET store(d, length) == [d EXCEPT !.lineTable[at.row] = Line(at.line.offset, length, TRUE)]
  IN CASE ch = LF  -> store([c EXCEPT !.cursorX = 0, !.cursorY = @ + 1], at.col)
       [] ch = CR  -> store([c EXCEPT !.cursorX = 0], at.line.length)
       [] ch = TAB -> store(c, at.line.length)
       [] OTHER ->
            store([c EXCEPT
                     !.charTable[at.line.offset + at.col] = ch,
                     !.cursorX = IF @ + 1 = COLUMNS THEN 0 ELSE @ + 1,
                     !.cursorY = IF c.cursorX + 1 = COLUMNS THEN @ + 1 ELSE @],
                  IF at.col >= at.line.length THEN at.col + 1 ELSE at.line.length)

Copies(c) == [row |-> c.cursorY, col |-> c.cursorX, line |-> c.lineTable[c.cursorY]]

vcon_putchar(c, ch) ==
  LET d == putchar_scroll(c) IN putchar_store(d, Copies(d), ch)

vcon_putcharAt(c, ch, x, y) ==
  LET line == c.lineTable[y]
      length == IF ch = LF THEN x
                ELSE IF x >= line.length THEN x + 1 ELSE line.length
      d == [c EXCEPT !.lineTable[y] = Line(line.offset, length, TRUE)]
  IN IF x >= COLUMNS \/ y >= ROWS THEN c
     ELSE IF ch = LF THEN d ELSE [d EXCEPT !.charTable[line.offset + x] = ch]

\* the loop over vcon_putcharAt from column x on, until a character does not
\* fit, for a string without line feeds
vcon_putsAt(c, str, x, y) ==
  LET line == c.lineTable[y]
      end == IF x + Len(str) < COLUMNS THEN x + Len(str) ELSE COLUMNS
      length == IF end > line.length THEN end ELSE line.length
  IN IF str = <<>> \/ x >= COLUMNS \/ y >= ROWS THEN c
     ELSE [c EXCEPT !.lineTable[y] = Line(line.offset, length, TRUE),
                    !.charTable = [i \in DOMAIN @ |->
                       IF line.offset + x <= i /\ i < line.offset + end
                       THEN str[i - (line.offset + x) + 1] ELSE @[i]]]

vcon_setCursor(c, x, y) ==
  IF x >= COLUMNS \/ y >= ROWS THEN c ELSE [c EXCEPT !.cursorX = x, !.cursorY = y]

vcon_setScroll(c, start, end) ==
  IF start >= end \/ end > ROWS THEN c
  ELSE [c EXCEPT !.scrollStart = start, !.scrollEnd = end, !.cursorX = 0, !.cursorY = start]

\* vcon_init and the tables that c_io_init gives the console
vcon_init ==
  [cursorX |-> 0, cursorY |-> 0, scrollStart |-> 0, scrollEnd |-> ROWS,
   lineTable |-> vcon_buf_initLineTable,
   charTable |-> [i \in 0 .. ROWS * COLUMNS - 1 |-> Junk]]

-----------------------------------------------------------------------------
(* vcon_redraw, run to the end with interrupts off *)

drawn(c, v) == [r \in Row |-> IF c.lineTable[r].dirty THEN Text(c, r) ELSE v[r]]
clean(c) == [c EXCEPT !.lineTable = [r \in Row |-> [@[r] EXCEPT !.dirty = FALSE]]]

\* c_io_init clears the console and draws it
Init ==
  LET c == vcon_clear(vcon_init) IN
  /\ con = clean(c)
  /\ vga = drawn(c, [r \in Row |-> <<>>])
  /\ autoflush = TRUE
  /\ redraw = [at |-> "sleep", row |-> 0, line |-> Line(0, 0, FALSE)]
  /\ printer = <<>>
  /\ missed = {}
  /\ writes = 0

\* the rows that d changes while redrawProcess is drawing them
Overwritten(d) ==
  {r \in Row : /\ redraw.at \in {"draw", "load", "store"} /\ redraw.row = r
               /\ d.lineTable[r] # con.lineTable[r] \/ Text(d, r) # Text(con, r)}

\* a call of c_io.c by the kernel, which leaves the console d
Write(d) ==
  /\ writes < MaxWrites
  /\ writes' = writes + 1
  /\ IF autoflush THEN con' = clean(d) /\ vga' = drawn(d, vga)
                  ELSE con' = d /\ vga' = vga
  /\ missed' = missed \cup Overwritten(d)
  /\ UNCHANGED <<autoflush, redraw, printer>>

Alone == printer = <<>>
Scrolling == ~Alone /\ printer[1].at \in {"take", "put"}
AloneIn(y) == ~Alone => IF Scrolling THEN y < con.scrollStart ELSE printer[1].row # y

c_putchar(ch) == Alone /\ Write(vcon_putchar(con, ch))
c_putchar_at(x, y, ch) == AloneIn(y) /\ Write(vcon_putcharAt(con, ch, x, y))
\* marquee_animate fills its row with c_puts_at
marquee_animate(ch) ==
  AloneIn(0) /\ Write(vcon_putsAt(con, [i \in 1 .. COLUMNS |-> ch], 0, 0))
c_clearscreen == Alone /\ Write(vcon_clear(con))
c_clearscroll == Alone /\ Write(vcon_clearScroll(con))
c_scroll(lines) == Alone /\ Write(vcon_scroll(con, lines))

\* these two never draw
Place(d) ==
  /\ Alone
  /\ con' = d
  /\ UNCHANGED <<vga, autoflush, redraw, printer, missed, writes>>

c_moveto(x, y) == Place(vcon_setCursor(con, x, y))
c_setscroll(start) == Place(vcon_setScroll(con, start, ROWS))

\* the end of _init: from here on redrawProcess draws
init_done ==
  /\ autoflush
  /\ autoflush' = FALSE
  /\ UNCHANGED <<con, vga, redraw, printer, missed, writes>>

-----------------------------------------------------------------------------
(* vcon_putchar by a process that can be preempted *)

\* is there a line for ch?  If not, vcon_scroll sets its first one aside.
printer_enter(ch) ==
  LET full == con.cursorY = con.scrollEnd
      row == IF full THEN con.scrollStart ELSE con.cursorY
      first == Line(con.lineTable[row].offset, 0, TRUE)
  IN /\ ~autoflush /\ Alone /\ writes < MaxWrites
     /\ printer' = <<[at |-> IF full THEN "take" ELSE "load", row |-> row,
                      col |-> con.cursorX, line |-> first, first |-> first, ch |-> ch]>>
     /\ writes' = writes + 1
     /\ UNCHANGED <<con, vga, autoflush, redraw, missed>>

Inside(label) == ~Alone /\ printer[1].at = label

\* Printer stores into the tables, which leaves the console d
Store(d) ==
  /\ con' = d
  /\ missed' = missed \cup Overwritten(d)
  /\ UNCHANGED <<vga, autoflush, redraw, writes>>

Goto(label) == [printer EXCEPT ![1].at = label]

\* the loop over the lines that move up: a line's entry is loaded ...
scroll_take ==
  /\ Inside("take")
  /\ printer' = [Goto("put") EXCEPT ![1].line = con.lineTable[printer[1].row + 1]]
  /\ UNCHANGED <<con, vga, autoflush, redraw, missed, writes>>

\* ... and stored one row higher, marked; the first one goes to the bottom
scroll_put ==
  LET p == printer[1]
      stop == con.scrollEnd - 1
      d == [con EXCEPT !.lineTable[p.row] = Line(p.line.offset, p.line.length, TRUE)]
  IN /\ Inside("put")
     /\ IF p.row = stop THEN /\ Store([d EXCEPT !.cursorY = @ - 1])
                             /\ printer' = Goto("load")
        ELSE /\ Store(d)
             /\ printer' = IF p.row + 1 = stop
                           THEN [printer EXCEPT ![1].row = @ + 1, ![1].line = p.first]
                           ELSE [Goto("take") EXCEPT ![1].row = @ + 1]

\* curRow, curCol and curLine
printer_load ==
  LET p == printer[1] IN
  /\ Inside("load")
  /\ printer' = [Goto(IF p.ch \in Chars THEN "cell" ELSE "mark") EXCEPT
                   ![1].line = con.lineTable[p.row]]
  /\ UNCHANGED <<con, vga, autoflush, redraw, missed, writes>>

\* charTable[index] = cell
printer_cell ==
  LET p == printer[1] IN
  /\ Inside("cell")
  /\ Store([con EXCEPT !.charTable[p.line.offset + p.col] = p.ch])
  /\ printer' = Goto("mark")

\* the cursor moves, and the entry is stored with its mark
printer_mark ==
  LET p == printer[1] IN
  /\ Inside("mark")
  /\ Store(putchar_store(con, p, p.ch))
  /\ printer' = <<>>

printer_putchar ==
  scroll_take \/ scroll_put \/ printer_load \/ printer_cell \/ printer_mark

-----------------------------------------------------------------------------
(* redrawProcess: vcon_redraw with interrupts on *)

RedrawNext ==
  IF redraw.row + 1 = ROWS THEN [redraw EXCEPT !.at = "sleep", !.row = 0]
                           ELSE [redraw EXCEPT !.at = "test", !.row = @ + 1]

redraw_wake ==
  /\ ~autoflush /\ redraw.at = "sleep"
  /\ redraw' = [redraw EXCEPT !.at = "test"]
  /\ UNCHANGED <<con, vga, autoflush, printer, missed, writes>>

\* Mutant: the walk ends at the first row that is clean.
redraw_test_stop ==
  LET line == con.lineTable[redraw.row] IN
  /\ redraw.at = "test"
  /\ redraw' = IF line.dirty THEN [redraw EXCEPT !.at = "draw", !.line = line]
               ELSE [redraw EXCEPT !.at = "sleep", !.row = 0]
  /\ missed' = IF line.dirty THEN missed \ {redraw.row} ELSE missed
  /\ UNCHANGED <<con, vga, autoflush, printer, writes>>

redraw_test ==
  LET line == con.lineTable[redraw.row] IN
  /\ redraw.at = "test"
  /\ redraw' = IF line.dirty THEN [redraw EXCEPT !.at = "draw", !.line = line]
               ELSE RedrawNext
  /\ missed' = IF line.dirty THEN missed \ {redraw.row} ELSE missed
  /\ UNCHANGED <<con, vga, autoflush, printer, writes>>

\* vcon_vga_draw: the line's characters, and zeros to the end of the row
vcon_vga_draw ==
  /\ redraw.at = "draw"
  /\ vga' = [vga EXCEPT ![redraw.row] = Shows(con, redraw.line)]
  /\ redraw' = [redraw EXCEPT !.at = "load"]
  /\ UNCHANGED <<con, autoflush, printer, missed, writes>>

\* length &= ~VCON_LINE_FLAG_DIRTY: the load ...
redraw_load ==
  /\ redraw.at = "load"
  /\ redraw' = [redraw EXCEPT !.at = "store", !.line = con.lineTable[redraw.row]]
  /\ UNCHANGED <<con, vga, autoflush, printer, missed, writes>>

\* ... and the store, of the length that was loaded
redraw_store ==
  /\ redraw.at = "store"
  /\ con' = [con EXCEPT !.lineTable[redraw.row] = Line(@.offset, redraw.line.length, FALSE)]
  /\ redraw' = [RedrawNext EXCEPT !.line = Line(0, 0, FALSE)]
  /\ UNCHANGED <<vga, autoflush, printer, missed, writes>>

vcon_redraw == redraw_wake \/ redraw_test \/ vcon_vga_draw \/ redraw_load
               \/ redraw_store

Next ==
  \/ \E ch \in Chars \cup {LF, CR, TAB} : c_putchar(ch)
  \/ \E p \in Places, ch \in Chars \cup {LF} : c_putchar_at(p[1], p[2], ch)
  \/ \E ch \in Chars : marquee_animate(ch)
  \/ c_clearscreen
  \/ c_clearscroll
  \/ \E lines \in 1 .. ROWS : c_scroll(lines)
  \/ \E p \in Places : c_moveto(p[1], p[2])
  \/ \E start \in Tops : c_setscroll(start)
  \/ init_done
  \/ \E ch \in Chars \cup {LF, CR, TAB} : printer_enter(ch)
  \/ printer_putchar
  \/ vcon_redraw

\* redrawProcess and the network processes have the highest priority: they
\* go on after a preemption, and redrawProcess sleeps for ten milliseconds
Spec == Init /\ [][Next]_vars /\ WF_vars(vcon_redraw) /\ WF_vars(printer_putchar)

-----------------------------------------------------------------------------
(* Properties *)

\* The console c as Printer, which has come to p, will leave it with what it
\* has begun: the rest of the lines moved up, the character's line ended and
\* marked.
Settle(c, p) ==
  CASE p.at = "load" -> c
    [] p.at \in {"take", "put"} ->
         [c EXCEPT !.cursorY = @ - 1,
                   !.lineTable =
            [r \in Row |-> IF r < p.row THEN @[r]
                           ELSE IF r = p.row /\ p.at = "put"
                           THEN Line(p.line.offset, p.line.length, TRUE)
                           ELSE IF r + 1 = ROWS THEN p.first
                           ELSE Line(@[r + 1].offset, @[r + 1].length, TRUE)]]
    [] p.at = "cell" -> [c EXCEPT !.lineTable[p.row] = p.line]
    [] p.at = "mark" -> putchar_store(c, p, p.ch)

Settled == IF Alone THEN con ELSE Settle(con, printer[1])

Abstract == INSTANCE Screen WITH
  text <- [r \in Row |-> Text(Settled, r)], cursorX <- Settled.cursorX,
  cursorY <- Settled.cursorY, top <- Settled.scrollStart

\* redrawProcess is about to store a length that a writer has replaced
Undoes ==
  redraw.at = "store" /\ redraw.line.length # con.lineTable[redraw.row].length

\* Refinement: for every writer the console behaves as a screen of
\* independent lines, although the lines are indices into a shared table that
\* scrolling permutes, one entry at a time when it is Printer that scrolls: no
\* two lines ever end up with the same storage, and no write or scroll changes
\* a line it does not name.  What redrawProcess does to the table is seen by
\* no writer, except that its store can undo the end of the one line it has
\* just drawn.
BehavesAsScreen ==
  /\ Abstract!Init
  /\ [][\/ UNCHANGED Abstract!vars
        \/ Abstract!Next
        \/ Undoes /\ Abstract!LoseEnd]_vars

\* the row whose cell Printer has changed and whose mark it has not stored
Unmarked ==
  {r \in Row : Inside("mark") /\ printer[1].ch \in Chars /\ printer[1].row = r}

\* Invariant: a row that is not marked dirty is on the screen as it stands,
\* unless it changed while redrawProcess was drawing it, or Printer is between
\* its cell and its mark.  Every path that changes a line, scrolling included,
\* marks it.
CleanRowsShown ==
  \A r \in Row \ (missed \cup Unmarked) :
     ~con.lineTable[r].dirty => vga[r] = Text(con, r)

\* Liveness: once redrawProcess draws, a row that differs from its text is
\* drawn, unless it changes under redrawProcess's hands.
RowsGetDrawn ==
  \A r \in Row : vga[r] # Text(con, r) ~> vga[r] = Text(con, r) \/ r \in missed
=============================================================================
