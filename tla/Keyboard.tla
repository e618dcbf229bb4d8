------------------------------ MODULE Keyboard ------------------------------
(***************************************************************************)
(* Console input: the keyboard half of c_io.c and the console half of      *)
(* _sys_read.  The keyboard interrupt decodes scan codes into a ring; a    *)
(* process that reads takes a line out of it inside the system call, with  *)
(* interrupts off, and polls the keyboard controller itself when the ring  *)
(* runs dry before the line ends.                                          *)
(*                                                                         *)
(* The controller is external: it keeps codes until they are read from its *)
(* data port and interrupts while it has one.                              *)
(***************************************************************************)
EXTENDS Integers, Sequences, FiniteSets, SequencesExt

CONSTANTS
  Procs,       \* processes that read
  Sizes,       \* buffer sizes passed to read()
  C_BUFSIZE,
  MaxCodes,    \* bound: scan codes the keyboard sends
  MaxWaiting   \* bound: scan codes waiting in the controller

ASSUME KeyboardAssumption ==
  /\ C_BUFSIZE \in Nat /\ C_BUFSIZE >= 2
  /\ Sizes \subseteq Nat
  /\ MaxCodes \in Nat /\ MaxWaiting \in Nat \ {0}

VARIABLES
  input_buffer, next_char, next_space,   \* the ring, as offsets
  shift, ctrl,
  port,       \* the controller: the codes it holds
  codes,      \* how many the keyboard has sent
  reader,     \* <<>>, or the process inside c_gets and what its loop holds
  reading,    \* processes that this module put on _reading, the serial queue
  typed,      \* characters that found room, in the order they were typed
  taken,      \* characters c_getchar has returned
  echoed      \* characters it has sent to the console (VConsole's c_putchar)

vars == <<input_buffer, next_char, next_space, shift, ctrl, port, codes, reader,
          reading, typed, taken, echoed>>

Ring == <<input_buffer, next_char, next_space>>

\* The scan codes: modifiers, two keys, one whose entry in the table is '\377'
\* (no character), and the release of a key.
Modifiers == {"shift down", "shift up", "ctrl down", "ctrl up"}
ScanCodes == Modifiers \cup {"d", "enter", "F1", "release"}

EOT == "EOT"
LF == "LF"

(***************************************************************************)
(* scan_code[shift][code] & ctrl_mask.  The table is of unsigned char, so  *)
(* a key without a character gives 255, which is never equal to '\377', a  *)
(* signed char: the test that should ignore the key does not, and 0xff is  *)
(* stored, or 0x1f (US) with control down.                                 *)
(***************************************************************************)
scan_code(code) ==
  CASE code = "enter" -> LF
    [] code = "F1" -> IF ctrl THEN "US" ELSE "0xff"
    [] code = "d" /\ ctrl -> EOT
    [] code = "d" /\ ~ctrl /\ shift -> "D"
    [] OTHER -> "d"

-----------------------------------------------------------------------------
(* Into the ring *)

c_increment(pointer) == IF pointer + 1 >= C_BUFSIZE THEN 0 ELSE pointer + 1

c_input_queue ==
  IF next_space < next_char THEN next_space - next_char + C_BUFSIZE
                            ELSE next_space - next_char

\* Mutant: the last free cell is used, after which the ring looks empty.
store_full(ch) ==
  /\ input_buffer' = [input_buffer EXCEPT ![next_space] = ch]
  /\ next_space' = c_increment(next_space)

\* the character is stored only if there is room
store(ch) ==
  IF c_increment(next_space) # next_char
  THEN /\ input_buffer' = [input_buffer EXCEPT ![next_space] = ch]
       /\ next_space' = c_increment(next_space)
  ELSE UNCHANGED <<input_buffer, next_space>>

\* typed is what a queue for C_BUFSIZE - 1 characters would have accepted
c_input_scan_code(code) ==
  /\ shift' = IF code = "shift down" THEN TRUE ELSE IF code = "shift up" THEN FALSE ELSE shift
  /\ ctrl' = IF code = "ctrl down" THEN TRUE ELSE IF code = "ctrl up" THEN FALSE ELSE ctrl
  /\ IF code \in Modifiers \cup {"release"}
     THEN UNCHANGED <<input_buffer, next_space, typed>>
     ELSE /\ store(scan_code(code))
          /\ typed' = IF Len(typed) - Len(taken) < C_BUFSIZE - 1
                      THEN Append(typed, scan_code(code)) ELSE typed
  /\ port' = Tail(port)
  /\ UNCHANGED <<next_char, codes, reading, taken, echoed>>

key(code) ==
  /\ codes < MaxCodes /\ Len(port) < MaxWaiting
  /\ codes' = codes + 1
  /\ port' = Append(port, code)
  /\ UNCHANGED <<Ring, shift, ctrl, reader, reading, typed, taken, echoed>>

\* the interrupt comes through when nobody is in the kernel
c_keyboard_isr ==
  /\ reader = <<>> /\ port # <<>>
  /\ c_input_scan_code(Head(port))
  /\ UNCHANGED reader

-----------------------------------------------------------------------------
(* Out of the ring *)

Untouched == UNCHANGED <<shift, ctrl, port, codes, typed>>

\* _sys_read on CHAN_CONSOLE: E_NO_CHAR, or c_gets
sys_read(p, size) ==
  /\ reader = <<>> /\ p \notin ToSet(reading)
  /\ reader' = IF c_input_queue < 1 THEN <<>>
               ELSE <<[proc |-> p, size |-> size, count |-> 0, done |-> FALSE]>>
  /\ UNCHANGED <<Ring, reading, taken, echoed>> /\ Untouched

InLoop == reader # <<>> /\ reader[1].size > 1 /\ ~reader[1].done

\* c_getchar with interrupts off and nothing in the ring
c_getchar_poll ==
  /\ InLoop /\ next_char = next_space /\ port # <<>>
  /\ c_input_scan_code(Head(port))
  /\ UNCHANGED reader

\* c_getchar, and what c_gets does with the character
c_getchar ==
  LET c == input_buffer[next_char] IN
  /\ InLoop /\ next_char # next_space
  /\ next_char' = c_increment(next_char)
  /\ taken' = Append(taken, c)
  /\ echoed' = IF c = EOT THEN echoed ELSE Append(echoed, c)
  /\ reader' = IF c = EOT THEN <<[reader[1] EXCEPT !.done = TRUE]>>
               ELSE <<[reader[1] EXCEPT !.count = @ + 1, !.size = @ - 1, !.done = c = LF]>>
  /\ UNCHANGED <<input_buffer, next_space, reading>> /\ Untouched

\* The line is complete.  With no character to return, the process is put on
\* the queue of those who wait for the serial line.
sys_read_return ==
  /\ reader # <<>> /\ ~InLoop
  /\ reading' = IF reader[1].count > 0 THEN reading ELSE Append(reading, reader[1].proc)
  /\ reader' = <<>>
  /\ UNCHANGED <<Ring, taken, echoed>> /\ Untouched

\* a character comes in on the serial line, for the first who waits
sio_isr ==
  /\ reader = <<>> /\ reading # <<>>
  /\ reading' = Tail(reading)
  /\ UNCHANGED <<Ring, reader, taken, echoed>> /\ Untouched

-----------------------------------------------------------------------------

Init ==
  /\ input_buffer = [i \in 0 .. C_BUFSIZE - 1 |-> "NUL"]
  /\ next_char = 0 /\ next_space = 0
  /\ shift = FALSE /\ ctrl = FALSE
  /\ port = <<>> /\ codes = 0
  /\ reader = <<>> /\ reading = <<>>
  /\ typed = <<>> /\ taken = <<>> /\ echoed = <<>>

Next ==
  \/ \E code \in ScanCodes : key(code)
  \/ c_keyboard_isr
  \/ \E p \in Procs, size \in Sizes : sys_read(p, size)
  \/ c_getchar_poll
  \/ c_getchar
  \/ sys_read_return
  \/ sio_isr

Spec == Init /\ [][Next]_vars

\* the characters in the ring, oldest first
Queued ==
  [i \in 1 .. c_input_queue |-> input_buffer[(next_char + i - 1) % C_BUFSIZE]]

\* how many of the first n characters read are not EOT
Shown(n) == Cardinality({i \in 1 .. n : taken[i] # EOT})

\* Invariant: every character typed while fewer than C_BUFSIZE - 1 waited,
\* the 0xff of a key without one included, is read exactly once and in the
\* order of typing, whoever moved it into the ring (the interrupt, or the
\* system call polling), and what was read was echoed, except EOT.
KeysInOrder ==
  /\ typed = taken \o Queued
  /\ Len(echoed) = Shown(Len(taken))
  /\ \A i \in DOMAIN taken : taken[i] # EOT => echoed[Shown(i)] = taken[i]

\* Invariant, which the code does not keep: a process that reads the console
\* does not wait.  With room for one character (creadch) or EOT at the start
\* of the line, c_gets returns 0 and _sys_read blocks the process.
ConsoleDoesNotBlock == reading = <<>>
=============================================================================
