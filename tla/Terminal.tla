------------------------------ MODULE Terminal ------------------------------
(***************************************************************************)
(* The terminal of SBUnix: the keyboard interrupt, which edits the line    *)
(* buffer and echoes it, terminal_read, which hands the buffer to a        *)
(* program, and the console both write on.                                 *)
(*                                                                         *)
(* terminal_read turns interrupts on, so the keyboard interrupts it        *)
(* between any two instructions: it is cut at every access to what the     *)
(* interrupt changes, the row and column of the console, its cells, the    *)
(* buffer and its count.  memcpy and memset stay whole, because an         *)
(* interrupt changes one byte of the buffer, which they have or have not   *)
(* yet passed.                                                             *)
(* terminal_read is not preempted (isr_timer switches in user mode only):  *)
(* there is one reader at a time.  The other calls run with interrupts off.*)
(* The timer interrupt saves and restores row and column and writes in the *)
(* last row of the screen only: it is left out.                            *)
(***************************************************************************)
EXTENDS Integers, Sequences, SequencesExt

CONSTANTS
  MAX_BUFF,              \* 4096; every program reads MAX_BUFF bytes
  VGA_WIDTH, VGA_HEIGHT, \* 80 and 25
  SIZE_MAX_1,            \* 2^64, the modulus of size_t, scaled down
  MAX_KEYS,              \* bound: the characters the user types
  MAX_WRITES             \* bound: the calls that write on or clear the screen

ASSUME TerminalAssumption ==
  /\ MAX_BUFF \in Nat \ {0} /\ MAX_KEYS \in Nat /\ MAX_WRITES \in Nat
  /\ VGA_WIDTH \in Nat \ {0} /\ VGA_HEIGHT \in Nat \ {0, 1}
  /\ SIZE_MAX_1 \in Nat /\ SIZE_MAX_1 > 2 * VGA_WIDTH * VGA_HEIGHT

VARIABLES
  terminal_buffer,    \* index -> character
  terminal_buf_count,
  press_over,         \* Enter was pressed since the read began
  user_input,         \* echo what is typed
  console,            \* [row, column, cells]
  x, local,           \* of the cursor that a read draws: the loop variable,
                      \* and the index, column or row it computes with
  pc,                 \* where the program, or its read, is
  str, n,             \* what the read in progress has copied, and its result
  \* history, which no step but for the bounds depends on:
  writes,             \* calls that wrote on the screen or cleared it
  typed,              \* characters typed so far; each one's id is its number
  got,                \* what the calls of read returned
  line, lines,        \* the line being typed, those that Enter ended
  careful,            \* the user typed only while a program waits for it,
                      \* and lines that fit the buffer
  late,               \* a key was pressed in the window of a read
  torn,               \* a key was pressed while the column or the row was one
                      \* beyond the screen, between two stores of a read
  forfeited           \* ids that backspace, a full buffer or a key in the
                      \* last instructions of a read may take away

vars == <<terminal_buffer, terminal_buf_count, press_over, user_input,
          console, x, local, pc, str, n, writes, typed, got, line, lines,
          careful, late, torn, forfeited>>

buffer  == <<terminal_buffer, terminal_buf_count>>
flags   == <<press_over, user_input>>
locals  == <<x, local>>
result  == <<str, n>>
history == <<writes, typed, got, line, lines, careful, late, torn, forfeited>>

\* Characters: a typed one has an id, which tells it from the others.
Typed  == [ch : {"char", "newline"}, id : 1 .. MAX_KEYS]
Nul    == [ch |-> "nul", id |-> 0]
Space  == [ch |-> "space", id |-> 0]
Cells  == 0 .. VGA_WIDTH * VGA_HEIGHT - 1
Window == {"count", "clear", "reset"}   \* of terminal_read: after its memcpy
Torn   == {"wrap", "top"}               \* of console_putchar
Cursor == {"cursor", "blank", "erase", "offset", "index", "put", "next", "column",
           "down", "row", "back", "bottom", "below"} \cup Torn
Where  == {"user", "spin", "copy", "finish"} \cup Cursor \cup Window
----------------------------------------------------------------------------
(* The console.                                                            *)

\* On a size_t, as all that follows.
Row(r) == {(r * VGA_WIDTH + i) % SIZE_MAX_1 : i \in 0 .. VGA_WIDTH - 1}

\* Where the next character goes: beyond the screen when the column is one
\* below zero in row 0.
index(con) == (con.row * VGA_WIDTH + con.column) % SIZE_MAX_1

\* A row is blanked when the first character is put into it.
blanked(con) ==
  IF con.column = 0 /\ con.row # VGA_HEIGHT - 1
  THEN [i \in Cells |-> IF i \in Row(con.row) THEN "space" ELSE con.cells[i]]
  ELSE con.cells

next_row(r) == ((r + 1) % SIZE_MAX_1) % (VGA_HEIGHT - 1)

\* console_row after a character in the last column.
row_below(r) == IF r + 1 = VGA_HEIGHT - 1 THEN 0 ELSE (r + 1) % SIZE_MAX_1

console_putchar(con, c) ==
  IF c = "newline"
  THEN [row |-> next_row(con.row), column |-> 0, cells |-> blanked(con)]
  ELSE LET after == (con.column + 1) % SIZE_MAX_1
           full  == after = VGA_WIDTH
       IN [row    |-> IF full THEN row_below(con.row) ELSE con.row,
           column |-> IF full THEN 0 ELSE after,
           cells  |-> [i \in Cells |-> IF i = index(con) THEN c
                                       ELSE blanked(con)[i]]]

\* console_column--, on a size_t.
left(con) == [con EXCEPT !.column = (@ - 1) % SIZE_MAX_1]

\* The cursor is a character that the next one overwrites.
show_cursor(con) == left(console_putchar(con, "cursor"))

put_all(con, s) == FoldLeft(console_putchar, con, s)
----------------------------------------------------------------------------
Init ==
  /\ terminal_buffer = [i \in 0 .. MAX_BUFF - 1 |-> Nul]
  /\ terminal_buf_count = 0
  /\ press_over = 0
  /\ user_input = 0
  /\ console = [row |-> 0, column |-> 0,
                cells |-> [i \in Cells |-> IF i \in Row(VGA_HEIGHT - 1)
                                           THEN "clock" ELSE "space"]]
  /\ x = 0
  /\ local = 0
  /\ pc = "user"
  /\ str = [i \in 0 .. MAX_BUFF - 1 |-> Nul]
  /\ n = 0
  /\ writes = 0
  /\ typed = 0
  /\ got = <<>>
  /\ line = <<>>
  /\ lines = <<>>
  /\ careful = TRUE
  /\ late = FALSE
  /\ torn = FALSE
  /\ forfeited = {}
----------------------------------------------------------------------------
(* The program.                                                            *)

\* A call of the program that changes the screen.
writes_screen ==
  /\ pc = "user"
  /\ writes < MAX_WRITES
  /\ writes' = writes + 1
  /\ UNCHANGED <<buffer, flags, locals, pc, result, typed, got, line, lines,
                 careful, late, torn, forfeited>>

terminal_write(s) == writes_screen /\ console' = put_all(console, s)

do_clear ==
  /\ writes_screen
  /\ console' = [row |-> 0, column |-> 0,
                 cells |-> [i \in Cells |-> IF i \in Row(VGA_HEIGHT - 1)
                                            THEN console.cells[i] ELSE "space"]]

\* terminal_read, up to sti, which takes effect after the store to user_input.
terminal_read ==
  /\ pc = "user"
  /\ pc' = "cursor"
  /\ press_over' = 0
  /\ user_input' = 1
  /\ UNCHANGED <<buffer, console, locals, result, history>>

\* A step of console_putchar(CURSOR), or of what comes behind it.
draws(from, to) ==
  /\ pc = from /\ pc' = to
  /\ UNCHANGED <<buffer, flags, result, history>>

\* The column at the left has the row blanked first.
putchar_begins ==
  /\ draws("cursor", IF console.column = 0 /\ console.row # VGA_HEIGHT - 1
                     THEN "blank" ELSE "offset")
  /\ x' = 0
  /\ UNCHANGED <<console, local>>

stores(cell, what) ==
  console' = [console EXCEPT !.cells = [i \in Cells |-> IF i = cell THEN what ELSE @[i]]]

putchar_blank ==
  /\ draws("blank", "erase")
  /\ local' = (console.row * VGA_WIDTH + x) % SIZE_MAX_1
  /\ UNCHANGED <<console, x>>

putchar_erase ==
  /\ draws("erase", IF x + 1 = VGA_WIDTH THEN "offset" ELSE "blank")
  /\ x' = IF x + 1 = VGA_WIDTH THEN 0 ELSE x + 1
  /\ stores(local, "space")
  /\ UNCHANGED local

putchar_offset ==
  /\ draws("offset", "index")
  /\ local' = console.row * VGA_WIDTH
  /\ UNCHANGED <<console, x>>

putchar_index ==
  /\ draws("index", "put")
  /\ local' = (local + console.column) % SIZE_MAX_1
  /\ UNCHANGED <<console, x>>

putchar_put ==
  /\ draws("put", "next")
  /\ stores(local, "cursor")
  /\ local' = 0
  /\ UNCHANGED x

\* ++console_column, a load and a store, and ++console_row.
putchar_next ==
  /\ draws("next", "column")
  /\ local' = console.column
  /\ UNCHANGED <<console, x>>

putchar_column ==
  LET after == (local + 1) % SIZE_MAX_1
  IN /\ draws("column", IF after = VGA_WIDTH THEN "wrap" ELSE "back")
     /\ console' = [console EXCEPT !.column = after]
     /\ local' = 0
     /\ UNCHANGED x

putchar_wrap ==
  /\ draws("wrap", "down")
  /\ console' = [console EXCEPT !.column = 0]
  /\ UNCHANGED locals

putchar_down ==
  /\ draws("down", "row")
  /\ local' = console.row
  /\ UNCHANGED <<console, x>>

putchar_row ==
  /\ draws("row", IF local + 1 = VGA_HEIGHT - 1 THEN "top" ELSE "back")
  /\ console' = [console EXCEPT !.row = local + 1]
  /\ local' = 0
  /\ UNCHANGED x

putchar_top ==
  /\ draws("top", "back")
  /\ console' = [console EXCEPT !.row = 0]
  /\ UNCHANGED locals

\* console_column--, one instruction (decq) of the build.
read_back ==
  /\ draws("back", "bottom")
  /\ console' = left(console)
  /\ UNCHANGED locals

\* The cells below the row that the loop began with, up to the timer's.
clear_bottom ==
  LET first == (console.row + 1) * VGA_WIDTH
      empty == console.row + 1 = VGA_HEIGHT - 1
  IN /\ draws("bottom", IF empty THEN "spin" ELSE "below")
     /\ local' = IF empty THEN 0 ELSE first
     /\ UNCHANGED <<console, x>>

clear_below ==
  LET last == local + 1 = (VGA_HEIGHT - 1) * VGA_WIDTH
  IN /\ draws("below", IF last THEN "spin" ELSE "below")
     /\ stores(local, "space")
     /\ local' = IF last THEN 0 ELSE local + 1
     /\ UNCHANGED x

read_pressed ==
  /\ pc = "spin"
  /\ press_over # 0
  /\ pc' = "copy"
  /\ UNCHANGED <<buffer, flags, console, locals, result, history>>

read_copy ==
  /\ pc = "copy"
  /\ pc' = "count"
  /\ str' = terminal_buffer
  /\ UNCHANGED <<buffer, flags, console, locals, n, history>>

\* count is MAX_BUFF, never less than terminal_buf_count.
read_count ==
  /\ pc = "count"
  /\ pc' = "clear"
  /\ n' = terminal_buf_count
  /\ UNCHANGED <<buffer, flags, console, locals, str, history>>

read_clear ==
  /\ pc = "clear"
  /\ pc' = "reset"
  /\ terminal_buffer' = [i \in 0 .. MAX_BUFF - 1 |-> Nul]
  /\ UNCHANGED <<terminal_buf_count, flags, console, locals, result, history>>

\* Faulty variant: the buffer is not emptied.
count_after_read_kept == terminal_buf_count

count_after_read == 0

read_reset ==
  /\ pc = "reset"
  /\ pc' = "finish"
  /\ terminal_buf_count' = count_after_read
  /\ UNCHANGED <<terminal_buffer, flags, console, locals, result, history>>

read_return ==
  /\ pc = "finish"
  /\ pc' = "user"
  /\ user_input' = 0
  /\ got' = Append(got, [i \in 1 .. n |-> str[i - 1]])
  /\ str' = [i \in 0 .. MAX_BUFF - 1 |-> Nul]
  /\ n' = 0
  /\ UNCHANGED <<buffer, press_over, console, locals, writes, typed, line, lines,
                 careful, late, torn, forfeited>>
----------------------------------------------------------------------------
(* The keyboard interrupt, one action for each kind of key.                *)

Buffered == {terminal_buffer[i].id : i \in 0 .. terminal_buf_count - 1} \ {0}

\* The history of what the user means to type, kept while the user is careful.
follow(new_line, new_lines) ==
  LET attentive == /\ careful /\ pc = "spin" /\ press_over = 0
                   /\ Len(new_line) < MAX_BUFF
  IN /\ careful' = attentive
     /\ late' = (late \/ pc \in Window)
     /\ torn' = (torn \/ pc \in Torn)
     /\ line' = IF attentive THEN new_line ELSE <<>>
     /\ lines' = IF attentive THEN new_lines ELSE <<>>

\* Faulty variant: the cursor is not drawn again.
echo_no_cursor(c) == console_putchar(console, c.ch)

echo(c) ==
  LET c1 == IF c.ch = "newline" THEN console_putchar(console, "space")
            ELSE console
  IN show_cursor(console_putchar(c1, c.ch))

\* The buffer is full: "Terminal buffer is full!! And will be cleared !"
clear_full ==
  /\ terminal_buf_count = MAX_BUFF
  /\ console' = put_all(console, <<"text", "newline">>)
  /\ terminal_buffer' = [i \in 0 .. MAX_BUFF - 1 |-> Nul]
  /\ terminal_buf_count' = 0

\* Faulty variant: without the test for room.
put_in_buffer_unchecked(c) ==
  /\ terminal_buffer' = [terminal_buffer EXCEPT ![terminal_buf_count] = c]
  /\ terminal_buf_count' = terminal_buf_count + 1
  /\ console' = IF user_input = 1 THEN echo(c) ELSE console

\* Faulty variant: a key that is not echoed is not put into the buffer either.
put_in_buffer_echoed(c) ==
  /\ terminal_buf_count < MAX_BUFF
  /\ IF user_input = 1
     THEN /\ terminal_buffer' = [terminal_buffer EXCEPT ![terminal_buf_count] = c]
          /\ terminal_buf_count' = terminal_buf_count + 1
          /\ console' = echo(c)
     ELSE UNCHANGED <<buffer, console>>

put_in_buffer(c) ==
  /\ terminal_buf_count < MAX_BUFF
  /\ terminal_buffer' = [terminal_buffer EXCEPT ![terminal_buf_count] = c]
  /\ terminal_buf_count' = terminal_buf_count + 1
  /\ console' = IF user_input = 1 THEN echo(c) ELSE console

\* A character c, the next to be typed, reaches terminal_get_char.
terminal_get_char(c) ==
  /\ typed < MAX_KEYS
  /\ c.id = typed + 1
  /\ typed' = typed + 1
  /\ put_in_buffer(c) \/ clear_full
  /\ forfeited' = forfeited
       \cup (IF terminal_buf_count = MAX_BUFF THEN Buffered \cup {c.id}
             ELSE IF pc \in Window THEN {c.id} ELSE {})
  /\ UNCHANGED <<user_input, locals, pc, result, writes, got>>

\* A key that stands for a character; how shift and control choose it is left
\* out.
key_character ==
  LET c == [ch |-> "char", id |-> typed + 1]
  IN /\ terminal_get_char(c)
     /\ follow(Append(line, c), lines)
     /\ UNCHANGED press_over

\* Faulty variant: a program that waits is not told of Enter.
pressed_ignored == press_over

pressed == 1

key_enter ==
  LET c == [ch |-> "newline", id |-> typed + 1]
  IN /\ terminal_get_char(c)
     /\ press_over' = pressed
     /\ follow(<<>>, Append(lines, Append(line, c)))

\* Faulty variant: the erased character stays in the buffer.
erased_count_kept == terminal_buf_count

erased_count == terminal_buf_count - 1

key_backspace ==
  /\ IF terminal_buf_count > 0
     THEN /\ terminal_buf_count' = erased_count
          /\ terminal_buffer' =
               [terminal_buffer EXCEPT ![terminal_buf_count - 1] = Space]
          /\ console' = show_cursor(left(left(console_putchar(console, "space"))))
          /\ forfeited' = forfeited
                            \cup {terminal_buffer[terminal_buf_count - 1].id}
     ELSE UNCHANGED <<console, buffer, forfeited>>
  /\ follow(IF line = <<>> THEN line ELSE SubSeq(line, 1, Len(line) - 1), lines)
  /\ UNCHANGED <<flags, locals, pc, result, writes, typed, got>>

\* The steps of a read, once it has begun.
read_draws ==
  \/ putchar_begins \/ putchar_blank \/ putchar_erase \/ putchar_offset
  \/ putchar_index \/ putchar_put \/ putchar_next \/ putchar_column
  \/ putchar_wrap \/ putchar_down \/ putchar_row \/ putchar_top
  \/ read_back \/ clear_bottom \/ clear_below

read_goes_on ==
  \/ read_draws
  \/ read_pressed \/ read_copy \/ read_count \/ read_clear \/ read_reset
  \/ read_return

Next ==
  \/ terminal_write(<<"text">>)
  \/ terminal_write(<<"text", "newline">>)
  \/ do_clear
  \/ terminal_read
  \/ read_goes_on
  \/ key_character
  \/ key_enter
  \/ key_backspace

Spec == Init /\ [][Next]_vars

\* The CPU keeps executing terminal_read: an interrupt returns.  Neither the
\* program nor the user has to do anything.
Fairness == WF_<<pc, locals>>(read_goes_on)

FairSpec == Spec /\ Fairness
----------------------------------------------------------------------------
Char == Typed \cup {Nul, Space}

\* The types; in particular that the buffer never holds more than MAX_BUFF and
\* the row is that of the timer, or beyond it, only until putchar_top.
TypeOK ==
  /\ terminal_buffer \in [0 .. MAX_BUFF - 1 -> Char]
  /\ terminal_buf_count \in 0 .. MAX_BUFF
  /\ press_over \in {0, 1}
  /\ user_input \in {0, 1}
  /\ console.row \in 0 .. (IF pc = "top" THEN SIZE_MAX_1 - 1 ELSE VGA_HEIGHT - 2)
  /\ console.column \in 0 .. SIZE_MAX_1 - 1
  /\ console.cells \in [Cells -> {"char", "space", "cursor", "text", "clock"}]
  /\ x \in 0 .. VGA_WIDTH - 1 /\ local \in 0 .. SIZE_MAX_1 - 1
  /\ pc \in Where
  /\ str \in [0 .. MAX_BUFF - 1 -> Char]
  /\ n \in 0 .. MAX_BUFF
  /\ writes \in 0 .. MAX_WRITES
  /\ typed \in 0 .. MAX_KEYS
  /\ careful \in BOOLEAN /\ late \in BOOLEAN /\ torn \in BOOLEAN
  /\ forfeited \subseteq 0 .. MAX_KEYS

\* The characters handed to programs, in order.
Received == FlattenSeq(got)

\* Programs get what was typed, each character once and in order, over all
\* reads and with keys pressed at any other time than after the memcpy of a
\* read: then a NUL may be returned for a character, or a stale byte later.
InOrder ==
  ~late => \A i, j \in DOMAIN Received :
             /\ Received[i].id # 0
             /\ i < j => Received[i].id < Received[j].id

\* What is typed ahead, or while a read begins, is kept: a character is with
\* a program, on its way to it or in the buffer, unless the user erased it, the
\* buffer was full, or it was typed after the memcpy of a read.
TypedIsKept ==
  LET taken == IF pc \in Window \cup {"finish"}
               THEN {str[i].id : i \in DOMAIN str} ELSE {}
  IN 1 .. typed \subseteq
       {Received[i].id : i \in DOMAIN Received} \cup taken \cup Buffered \cup forfeited

\* If the user types while programs wait, each read returns the line that Enter
\* ended, as edited with backspace.
LinesArrive == careful /\ pc = "user" => got = lines

\* Under the same condition the screen shows the line and a cursor behind it,
\* also when it is wrapped to a second row or backspace returns to the first.
\* A line that is wrapped from the bottom row to the top one is excepted.
EchoShowsLine ==
  LET at == index(console)
  IN careful /\ pc = "spin" /\ press_over = 0 /\ at \in Cells /\ Len(line) <= at =>
       /\ console.cells[at] = "cursor"
       /\ \A i \in DOMAIN line : console.cells[at - Len(line) + i - 1] = line[i].ch

\* "don't write to the last row (used by timer)" (console_putchar), whatever
\* the column has become and wherever the keyboard interrupts another call of
\* console_putchar, but between the two pairs of stores that first take the
\* column, or the row, one too far.
TimerRowKept ==
  ~torn => \A i \in Row(VGA_HEIGHT - 1) : console.cells[i] = "clock"

\* Whatever a wrap, a backspace or a key between any other two instructions
\* does to the column, the screen shows the line and the clock.
ScreenIsKept == EchoShowsLine /\ TimerRowKept

\* Enter ends a read: once the line that a program waits for is ended, the
\* program gets it, whatever else is typed meanwhile.
EnterEndsRead == pc = "spin" /\ Len(got) < Len(lines) ~> pc = "user"
============================================================================
