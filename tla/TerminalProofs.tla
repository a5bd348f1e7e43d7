--------------------------- MODULE TerminalProofs ---------------------------
(***************************************************************************)
(* Proofs about the terminal.                                              *)
(***************************************************************************)
EXTENDS Terminal, SequenceLemmas
-----------------------------------------------------------------------------
\* Writing several characters is writing one after the other.

\* it folds console_putchar over the characters of s with the indexes in the
\* sets of D.
Folds(it, con, s, D) ==
  it = [S \in SUBSET D |->
          IF S = {} THEN con
          ELSE console_putchar(it[S \ {Max(S)}], s[Max(S)])]

LEMMA FoldIs ==
  ASSUME NEW con, NEW s, NEW D, DOMAIN s = D
  PROVE  put_all(con, s) = (CHOOSE it : Folds(it, con, s, D))[D]
BY Zenon DEF put_all, FoldLeft, MapThenFoldSet, Folds

LEMMA MaxOfOneOrTwo == Max({1}) = 1 /\ Max({2}) = 2 /\ Max({1, 2}) = 2
BY DEF Max

LEMMA FoldsTwo ==
  ASSUME NEW con, NEW a, NEW b
  PROVE  \E it : Folds(it, con, <<a, b>>, {1, 2})
<1> DEFINE s == <<a, b>>
           one(y) == console_putchar(con, s[y])
           g == [S \in SUBSET {1, 2} |->
                   IF S = {} THEN con ELSE IF S = {1} THEN one(1)
                   ELSE IF S = {2} THEN one(2) ELSE console_putchar(one(1), s[2])]
           h == [S \in SUBSET {1, 2} |->
                   IF S = {} THEN con
                   ELSE console_putchar(g[S \ {Max(S)}], s[Max(S)])]
<1>1. SUBSET {1, 2} = {{}, {1}, {2}, {1, 2}}
  OBVIOUS
<1>2. g[{}] = con /\ g[{1}] = one(1) /\ g[{2}] = one(2)
      /\ g[{1, 2}] = console_putchar(one(1), s[2])
  BY <1>1
<1>3. {1} \ {1} = {} /\ {2} \ {2} = {} /\ {1, 2} \ {2} = {1}
  OBVIOUS
<1>4. h[{}] = con /\ h[{1}] = console_putchar(g[{}], s[1])
      /\ h[{2}] = console_putchar(g[{}], s[2])
      /\ h[{1, 2}] = console_putchar(g[{1}], s[2])
  <2> HIDE DEF g, s
  <2>1. QED
    BY <1>1, <1>3, MaxOfOneOrTwo
<1>5. ASSUME NEW S \in SUBSET {1, 2} PROVE g[S] = h[S]
  <2>1. S = {} \/ S = {1} \/ S = {2} \/ S = {1, 2}
    OBVIOUS
  <2> HIDE DEF g, h, s
  <2>2. h[S] = g[S]
    <3>1. CASE S = {}
      BY <1>2, <1>4, <3>1
    <3>2. CASE S = {1}
      BY <1>2, <1>4, <3>2
    <3>3. CASE S = {2}
      BY <1>2, <1>4, <3>3
    <3>4. CASE S = {1, 2}
      BY <1>2, <1>4, <3>4
    <3>5. QED
      BY <2>1, <3>1, <3>2, <3>3, <3>4
  <2>3. QED
    BY <2>2
<1>6. g = h
  BY <1>5
<1>7. QED
  BY <1>6 DEF Folds

\* One character, and two.
LEMMA PutOne ==
  ASSUME NEW con, NEW a
  PROVE  put_all(con, <<a>>) = console_putchar(con, a)
<1> DEFINE s == <<a>>
           g == [S \in SUBSET {1} |-> IF S = {} THEN con ELSE console_putchar(con, a)]
           h == [S \in SUBSET {1} |->
                   IF S = {} THEN con
                   ELSE console_putchar(g[S \ {Max(S)}], s[Max(S)])]
           F == CHOOSE it : Folds(it, con, s, {1})
<1>1. SUBSET {1} = {{}, {1}} /\ {1} \ {1} = {} /\ s[1] = a
  OBVIOUS
<1>2. g[{}] = con /\ g[{1}] = console_putchar(con, a)
  BY <1>1
<1>3. h[{}] = con /\ h[{1}] = console_putchar(g[{}], a)
  <2> HIDE DEF g, s
  <2>1. QED
    BY <1>1, MaxOfOneOrTwo
<1>4. ASSUME NEW S \in SUBSET {1} PROVE g[S] = h[S]
  <2>1. S = {} \/ S = {1}
    OBVIOUS
  <2> HIDE DEF g, h, s
  <2>2. QED
    BY <1>2, <1>3, <2>1
<1>5. Folds(g, con, s, {1})
  <2>1. g = h
    BY <1>4
  <2>2. QED
    BY <2>1 DEF Folds
<1>6. Folds(F, con, s, {1})
  BY <1>5
<1>7. DOMAIN s = {1}
  OBVIOUS
<1>8. put_all(con, s) = F[{1}]
  <2> HIDE DEF s
  <2>1. QED
    BY <1>7, FoldIs DEF F
<1>9. F[{}] = con /\ F[{1}] = console_putchar(F[{}], a)
  <2> HIDE DEF F, s
  <2>1. F = [S \in SUBSET {1} |->
               IF S = {} THEN con
               ELSE console_putchar(F[S \ {Max(S)}], s[Max(S)])]
    BY <1>6 DEF Folds
  <2>2. F[{}] = con
    BY <2>1
  <2>3. F[{1}] = console_putchar(F[{1} \ {Max({1})}], s[Max({1})])
    BY <2>1
  <2>4. QED
    BY <1>1, <2>2, <2>3, MaxOfOneOrTwo
<1>10. QED
  BY <1>8, <1>9

LEMMA PutTwo ==
  ASSUME NEW con, NEW a, NEW b
  PROVE  put_all(con, <<a, b>>) = console_putchar(console_putchar(con, a), b)
<1> DEFINE s == <<a, b>>
           F == CHOOSE it : Folds(it, con, s, {1, 2})
<1>1. s[1] = a /\ s[2] = b /\ DOMAIN s = {1, 2}
  <2>1. DOMAIN s = 1 .. 2
    OBVIOUS
  <2>2. QED
    BY <2>1
<1>2. Folds(F, con, s, {1, 2})
  BY FoldsTwo
<1>3. put_all(con, s) = F[{1, 2}]
  <2> HIDE DEF s
  <2>1. QED
    BY <1>1, FoldIs DEF F
<1>4. {1} \ {1} = {} /\ {1, 2} \ {2} = {1}
  OBVIOUS
<1>5. F[{}] = con /\ F[{1}] = console_putchar(F[{}], a)
      /\ F[{1, 2}] = console_putchar(F[{1}], b)
  <2> HIDE DEF F, s
  <2>1. F = [S \in SUBSET {1, 2} |->
               IF S = {} THEN con
               ELSE console_putchar(F[S \ {Max(S)}], s[Max(S)])]
    BY <1>2 DEF Folds
  <2>2. F[{}] = con
    BY <2>1
  <2>3. F[{1}] = console_putchar(F[{1} \ {1}], s[1])
    <3>1. F[{1}] = console_putchar(F[{1} \ {Max({1})}], s[Max({1})])
      BY <2>1
    <3>2. QED
      BY <3>1, MaxOfOneOrTwo
  <2>4. F[{1, 2}] = console_putchar(F[{1, 2} \ {2}], s[2])
    <3>1. F[{1, 2}] = console_putchar(F[{1, 2} \ {Max({1, 2})}], s[Max({1, 2})])
      BY <2>1
    <3>2. QED
      BY <3>1, MaxOfOneOrTwo
  <2>5. QED
    BY <1>1, <1>4, <2>2, <2>3, <2>4
<1>6. QED
  BY <1>3, <1>5
-----------------------------------------------------------------------------
(* Types.                                                                  *)

Glyph    == {"char", "space", "cursor", "text", "clock"}
Put      == Glyph \cup {"newline"}
Buffers  == [0 .. MAX_BUFF - 1 -> Char]

\* A console whose row is above that of the clock, and one that a key in the
\* middle of a wrap left with any row.
Shown    == 0 .. VGA_HEIGHT - 2
Anywhere == 0 .. SIZE_MAX_1 - 1

ConsolesOf(R) == [row : R, column : 0 .. SIZE_MAX_1 - 1, cells : [Cells -> Glyph]]

Consoles == ConsolesOf(Shown)
Wide     == ConsolesOf(Anywhere)

\* The first cell of the row of the clock.
End == (VGA_HEIGHT - 1) * VGA_WIDTH

\* What a read that was interrupted goes on with: a row above that of the
\* clock, whatever the keys did to the row meanwhile.
LocalInv ==
  /\ pc = "row" => local \in Shown
  /\ pc = "index" => \E r \in Shown : local = r * VGA_WIDTH
  /\ pc \in {"erase", "below"} => local < End

\* The types, the sequences of the history among them; a program that reads
\* is in terminal_read with the echo on.
TypeInv ==
  /\ TypeOK
  /\ console \in IF pc = "top" THEN Wide ELSE Consoles
  /\ LocalInv
  /\ got \in Seq(Seq(Char))
  /\ line \in Seq(Char)
  /\ lines \in Seq(Seq(Char))
  /\ pc # "user" => user_input = 1

LEMMA ModRange ==
  ASSUME NEW a \in Int, NEW m \in Nat, m > 0
  PROVE  a % m \in 0 .. m - 1
OBVIOUS

LEMMA ModSmall ==
  ASSUME NEW a \in Int, NEW m \in Nat, m > 0
  PROVE  /\ 0 <= a /\ a < m => a % m = a
         /\ a = m => a % m = 0
         /\ m <= a /\ a < 2 * m => a % m = a - m
         /\ a < 0 /\ -m <= a => a % m = a + m
OBVIOUS

\* The screen: its rows do not overlap.
LEMMA Products ==
  ASSUME NEW a \in Nat, NEW b \in Nat, NEW w \in Nat, a < b
  PROVE  a * w \in Nat /\ b * w \in Nat /\ a * w + w <= b * w
<1>1. a + 1 <= b
  OBVIOUS
<1>2. (a + 1) * w <= b * w
  BY <1>1, SMTT(30)
<1>3. (a + 1) * w = a * w + w
  BY SMTT(30)
<1>4. a * w \in Nat /\ b * w \in Nat
  BY SMTT(30)
<1>5. QED
  BY <1>2, <1>3, <1>4

LEMMA ScreenSizes ==
  /\ VGA_WIDTH \in Nat /\ VGA_WIDTH > 0 /\ VGA_HEIGHT \in Nat /\ VGA_HEIGHT > 1
  /\ VGA_WIDTH * VGA_HEIGHT = End + VGA_WIDTH /\ End \in Nat
  /\ End >= VGA_WIDTH /\ End >= VGA_HEIGHT - 1
  /\ SIZE_MAX_1 \in Nat /\ SIZE_MAX_1 > End + VGA_WIDTH
<1>1. /\ VGA_WIDTH \in Nat /\ VGA_WIDTH > 0 /\ VGA_HEIGHT \in Nat /\ VGA_HEIGHT > 1
      /\ SIZE_MAX_1 \in Nat /\ SIZE_MAX_1 > 2 * VGA_WIDTH * VGA_HEIGHT
  BY TerminalAssumption
<1>2. PICK g \in Nat : g = VGA_HEIGHT - 1 /\ g > 0
  BY <1>1
<1>3. End = g * VGA_WIDTH
  BY <1>2 DEF End
<1>4. VGA_WIDTH * VGA_HEIGHT = g * VGA_WIDTH + VGA_WIDTH
  <2>1. VGA_HEIGHT = g + 1
    BY <1>1, <1>2
  <2>2. VGA_WIDTH * (g + 1) = g * VGA_WIDTH + VGA_WIDTH
    BY <1>1, SMTT(30)
  <2>3. QED
    BY <2>1, <2>2
<1>5. g * VGA_WIDTH \in Nat /\ 0 * VGA_WIDTH + VGA_WIDTH <= g * VGA_WIDTH
  BY <1>1, <1>2, Products
<1>6. 0 * VGA_WIDTH = 0
  BY <1>1
<1>7. g <= g * VGA_WIDTH
  <2>1. PICK v \in Nat : VGA_WIDTH = v + 1
    <3>1. VGA_WIDTH - 1 \in Nat /\ VGA_WIDTH = (VGA_WIDTH - 1) + 1
      BY <1>1
    <3>2. QED
      BY <3>1
  <2>2. g * (v + 1) = g * v + g /\ g * v \in Nat
    BY SMTT(30)
  <2>3. QED
    BY <1>2, <2>1, <2>2
<1>8. SIZE_MAX_1 > VGA_WIDTH * VGA_HEIGHT
  <2>1. VGA_WIDTH * VGA_HEIGHT \in Nat
    BY <1>1, <1>4, <1>5
  <2>2. 2 * VGA_WIDTH * VGA_HEIGHT = 2 * (VGA_WIDTH * VGA_HEIGHT)
    BY <1>1, SMTT(30)
  <2>3. QED
    BY <1>1, <2>1, <2>2
<1>9. QED
  BY <1>1, <1>2, <1>3, <1>4, <1>5, <1>6, <1>7, <1>8

LEMMA ShownIs ==
  ASSUME NEW r \in Shown
  PROVE  /\ r \in Nat /\ r <= VGA_HEIGHT - 2 /\ r + 1 < SIZE_MAX_1
         /\ r * VGA_WIDTH \in Nat /\ r * VGA_WIDTH + VGA_WIDTH <= End
         /\ (r + 1) * VGA_WIDTH = r * VGA_WIDTH + VGA_WIDTH
<1>1. r \in Nat /\ r <= VGA_HEIGHT - 2
  BY ScreenSizes DEF Shown
<1>2. PICK g \in Nat : g = VGA_HEIGHT - 1 /\ r < g
  BY <1>1, ScreenSizes
<1>3. r * VGA_WIDTH \in Nat /\ r * VGA_WIDTH + VGA_WIDTH <= g * VGA_WIDTH
  BY <1>1, <1>2, ScreenSizes, Products
<1>4. (r + 1) * VGA_WIDTH = r * VGA_WIDTH + VGA_WIDTH
  BY <1>1, ScreenSizes, SMTT(30)
<1>5. QED
  BY <1>1, <1>2, <1>3, <1>4, ScreenSizes DEF End

LEMMA ColumnType ==
  ASSUME NEW a \in Int PROVE a % SIZE_MAX_1 \in 0 .. SIZE_MAX_1 - 1
BY ScreenSizes, ModRange

\* The row below one of the screen is one of the screen; console_putchar takes
\* the same for a newline and for a wrap.
LEMMA NextRowType ==
  ASSUME NEW r \in Nat PROVE next_row(r) \in Shown
<1>1. PICK m \in Nat : m = VGA_HEIGHT - 1 /\ m > 0
  BY ScreenSizes
<1>2. (r + 1) % SIZE_MAX_1 \in Int
  BY ColumnType, ScreenSizes
<1>3. ((r + 1) % SIZE_MAX_1) % m \in 0 .. m - 1
  BY <1>1, <1>2, ModRange
<1>4. next_row(r) = ((r + 1) % SIZE_MAX_1) % m
  BY <1>1 DEF next_row
<1>5. 0 .. m - 1 = Shown
  BY <1>1, ScreenSizes DEF Shown
<1>6. QED
  BY <1>3, <1>4, <1>5

LEMMA NextRowIs ==
  ASSUME NEW r \in Shown
  PROVE  /\ row_below(r) = next_row(r)
         /\ next_row(r) = IF r + 1 = VGA_HEIGHT - 1 THEN 0 ELSE r + 1
<1>1. PICK m \in Nat : m = VGA_HEIGHT - 1 /\ m > 0
  BY ScreenSizes
<1>2. r \in Nat /\ r + 1 <= m /\ r + 1 < SIZE_MAX_1
  BY <1>1, ShownIs, ScreenSizes
<1>3. (r + 1) % SIZE_MAX_1 = r + 1
  BY <1>2, ModSmall, ScreenSizes
<1>4. (r + 1) % m = IF r + 1 = m THEN 0 ELSE r + 1
  BY <1>1, <1>2, ModSmall
<1>5. QED
  BY <1>1, <1>3, <1>4 DEF row_below, next_row

LEMMA BelowType ==
  ASSUME NEW R \in {Shown, Anywhere}, NEW r \in R
  PROVE  /\ 0 \in R /\ r \in Nat /\ next_row(r) \in R /\ row_below(r) \in R
<1>1. 0 \in Shown /\ 0 \in Anywhere /\ Shown \subseteq Anywhere
  BY ScreenSizes DEF Shown, Anywhere
<1>2. r \in Nat
  BY ScreenSizes DEF Shown, Anywhere
<1>3. next_row(r) \in R
  BY <1>1, <1>2, NextRowType
<1>4. row_below(r) \in R
  <2>1. CASE r \in Shown
    BY <1>3, <2>1, NextRowIs
  <2>2. CASE R = Anywhere
    <3>1. (r + 1) % SIZE_MAX_1 \in Anywhere
      BY <1>2, ColumnType DEF Anywhere
    <3>2. QED
      BY <1>1, <2>2, <3>1 DEF row_below
  <2>3. QED
    BY <2>1, <2>2
<1>5. QED
  BY <1>1, <1>2, <1>3, <1>4

LEMMA BlankedType ==
  ASSUME NEW R, NEW con \in ConsolesOf(R) PROVE blanked(con) \in [Cells -> Glyph]
BY DEF blanked, ConsolesOf, Glyph

\* console_putchar gives a console, whatever it puts where.
LEMMA PutIn ==
  ASSUME NEW R \in {Shown, Anywhere}, NEW con \in ConsolesOf(R), NEW c \in Put
  PROVE  console_putchar(con, c) \in ConsolesOf(R)
<1> DEFINE after == (con.column + 1) % SIZE_MAX_1
           full  == after = VGA_WIDTH
           kept  == [i \in Cells |-> IF i = index(con) THEN c ELSE blanked(con)[i]]
<1>1. con.row \in R /\ con.column \in 0 .. SIZE_MAX_1 - 1
  BY DEF ConsolesOf
<1>2. next_row(con.row) \in R /\ row_below(con.row) \in R
  BY <1>1, BelowType
<1>3. 0 \in 0 .. SIZE_MAX_1 - 1 /\ after \in 0 .. SIZE_MAX_1 - 1
  <2>1. con.column + 1 \in Int
    BY <1>1, ScreenSizes
  <2>2. QED
    BY <2>1, ColumnType, ScreenSizes
<1>4. blanked(con) \in [Cells -> Glyph]
  BY BlankedType
<1>5. CASE c = "newline"
  BY <1>2, <1>3, <1>4, <1>5 DEF console_putchar, ConsolesOf
<1>6. CASE c # "newline"
  <2>1. kept \in [Cells -> Glyph]
    <3>1. c \in Glyph
      BY <1>6 DEF Put
    <3>2. QED
      BY <1>4, <3>1
  <2>2. console_putchar(con, c) =
          [row |-> IF full THEN row_below(con.row) ELSE con.row,
           column |-> IF full THEN 0 ELSE after, cells |-> kept]
    BY <1>6 DEF console_putchar
  <2>3. QED
    <3> HIDE DEF kept, after
    <3>1. QED
      BY <1>1, <1>2, <1>3, <2>1, <2>2 DEF ConsolesOf
<1>7. QED
  BY <1>5, <1>6

LEMMA LeftIn ==
  ASSUME NEW R, NEW con \in ConsolesOf(R) PROVE left(con) \in ConsolesOf(R)
<1>1. (con.column - 1) % SIZE_MAX_1 \in 0 .. SIZE_MAX_1 - 1
  <2>1. con.column - 1 \in Int
    BY ScreenSizes DEF ConsolesOf
  <2>2. QED
    BY <2>1, ColumnType
<1>2. QED
  <2> DEFINE d == (con.column - 1) % SIZE_MAX_1
  <2>1. left(con) = [con EXCEPT !.column = d]
    BY DEF left
  <2> HIDE DEF d
  <2>2. d \in 0 .. SIZE_MAX_1 - 1
    BY <1>1 DEF d
  <2>3. QED
    BY <2>1, <2>2 DEF ConsolesOf

LEMMA PutType ==
  ASSUME NEW con \in Consoles, NEW c \in Put
  PROVE  console_putchar(con, c) \in Consoles
BY PutIn DEF Consoles

LEMMA LeftType ==
  ASSUME NEW con \in Consoles PROVE left(con) \in Consoles
BY LeftIn DEF Consoles

LEMMA CursorType ==
  ASSUME NEW R \in {Shown, Anywhere}, NEW con \in ConsolesOf(R)
  PROVE  show_cursor(con) \in ConsolesOf(R)
<1>1. "cursor" \in Put
  BY DEF Put, Glyph
<1>2. QED
  BY <1>1, PutIn, LeftIn DEF show_cursor

LEMMA EchoType ==
  ASSUME NEW R \in {Shown, Anywhere}, console \in ConsolesOf(R),
         NEW c, c.ch \in {"char", "newline"}
  PROVE  echo(c) \in ConsolesOf(R)
<1>1. c.ch \in Put /\ "space" \in Put
  BY DEF Put, Glyph
<1>2. console_putchar(console, "space") \in ConsolesOf(R)
  BY <1>1, PutIn
<1> DEFINE c1 == IF c.ch = "newline" THEN console_putchar(console, "space")
                 ELSE console
<1>3. c1 \in ConsolesOf(R)
  BY <1>2
<1>4. show_cursor(console_putchar(c1, c.ch)) \in ConsolesOf(R)
  <2> HIDE DEF c1
  <2>1. QED
    BY <1>1, <1>3, PutIn, CursorType
<1>5. QED
  BY <1>4 DEF echo

\* A key leaves the row on the screen, unless it was beyond it.
LEMMA KeyConsole ==
  ASSUME NEW R \in {Shown, Anywhere}, console \in ConsolesOf(R),
         key_character \/ key_enter \/ key_backspace
  PROVE  console' \in ConsolesOf(R)
<1>1. {"text", "newline", "space", "cursor"} \subseteq Put
  BY DEF Put, Glyph
<1>2. put_all(console, <<"text", "newline">>) \in ConsolesOf(R)
  BY <1>1, PutTwo, PutIn
<1>3. ASSUME NEW c, c.ch \in {"char", "newline"}, terminal_get_char(c)
      PROVE  console' \in ConsolesOf(R)
  <2>1. CASE put_in_buffer(c)
    BY <1>3, <2>1, EchoType DEF put_in_buffer
  <2>2. CASE clear_full
    BY <1>2, <2>2 DEF clear_full
  <2>3. QED
    BY <1>3, <2>1, <2>2 DEF terminal_get_char
<1>4. CASE key_character
  BY <1>3, <1>4 DEF key_character
<1>5. CASE key_enter
  BY <1>3, <1>5 DEF key_enter
<1>6. CASE key_backspace
  <2>1. show_cursor(left(left(console_putchar(console, "space")))) \in ConsolesOf(R)
    <3>1. console_putchar(console, "space") \in ConsolesOf(R)
      BY <1>1, PutIn
    <3> DEFINE p == console_putchar(console, "space")
    <3> HIDE DEF p
    <3>2. left(left(p)) \in ConsolesOf(R)
      BY <3>1, LeftIn DEF p
    <3>3. QED
      BY <3>2, CursorType DEF p
  <2>2. QED
    BY <1>6, <2>1 DEF key_backspace
<1>7. QED
  BY <1>4, <1>5, <1>6

\* What a program writes leaves a console.
LEMMA WriteConsole ==
  ASSUME console \in Consoles,
         terminal_write(<<"text">>) \/ terminal_write(<<"text", "newline">>) \/ do_clear
  PROVE  console' \in Consoles
<1>1. {"text", "newline"} \subseteq Put
  BY DEF Put, Glyph
<1>2. put_all(console, <<"text">>) \in Consoles
  BY <1>1, PutOne, PutType
<1>3. put_all(console, <<"text", "newline">>) \in Consoles
  BY <1>1, PutTwo, PutType
<1>4. 0 \in Shown /\ 0 \in 0 .. SIZE_MAX_1 - 1
  BY ScreenSizes DEF Shown
<1>5. CASE do_clear
  BY <1>4, <1>5 DEF do_clear, Consoles, ConsolesOf, Glyph
<1>6. QED
  BY <1>2, <1>3, <1>5 DEF terminal_write

\* While a read draws, nothing but the screen and its locals changes.
LEMMA DrawsOnly ==
  ASSUME read_draws
  PROVE  /\ UNCHANGED <<terminal_buffer, terminal_buf_count, press_over, user_input,
                        str, n, writes, typed, got, line, lines, careful, late, torn,
                        forfeited>>
         /\ pc \in Cursor /\ pc' \in Cursor \cup {"spin"}
         /\ pc' = "spin" => pc \in {"bottom", "below"}
<1>1. ASSUME NEW from, NEW to, draws(from, to)
      PROVE  /\ UNCHANGED <<terminal_buffer, terminal_buf_count, press_over, user_input,
                            str, n, writes, typed, got, line, lines, careful, late, torn,
                            forfeited>>
             /\ pc = from /\ pc' = to
  BY <1>1 DEF draws, buffer, flags, result, history
<1>2. CASE putchar_begins
  BY <1>1, <1>2 DEF putchar_begins,
     Cursor, Torn
<1>3. CASE putchar_blank \/ putchar_erase \/ putchar_offset
  BY <1>1, <1>3 DEF putchar_blank, putchar_erase, putchar_offset,
     Cursor, Torn
<1>4. CASE putchar_index \/ putchar_put \/ putchar_next
  BY <1>1, <1>4 DEF putchar_index, putchar_put, putchar_next,
     Cursor, Torn
<1>5. CASE putchar_column \/ putchar_wrap \/ putchar_down
  BY <1>1, <1>5 DEF putchar_column, putchar_wrap, putchar_down,
     Cursor, Torn
<1>6. CASE putchar_row \/ putchar_top \/ read_back
  BY <1>1, <1>6 DEF putchar_row, putchar_top, read_back,
     Cursor, Torn
<1>7. CASE clear_bottom \/ clear_below
  BY <1>1, <1>7 DEF clear_bottom, clear_below,
     Cursor, Torn
<1>8. QED
  BY <1>2, <1>3, <1>4, <1>5, <1>6, <1>7 DEF read_draws

\* A step of console_putchar that changes a part of the console.
LEMMA ConsoleParts ==
  ASSUME NEW R, NEW con \in ConsolesOf(R)
  PROVE  /\ \A r : [con EXCEPT !.row = r].row = r
         /\ \A Q : \A r \in Q : [con EXCEPT !.row = r] \in ConsolesOf(Q)
         /\ \A k \in Anywhere : [con EXCEPT !.column = k] \in ConsolesOf(R)
         /\ \A d \in [Cells -> Glyph] : [con EXCEPT !.cells = d] \in ConsolesOf(R)
BY DEF ConsolesOf, Anywhere

LEMMA StoresType ==
  ASSUME console \in Consoles, NEW cell, NEW what \in Glyph, stores(cell, what)
  PROVE  console' \in Consoles
<1> DEFINE d == [i \in Cells |-> IF i = cell THEN what ELSE console.cells[i]]
<1>1. console.cells \in [Cells -> Glyph]
  BY DEF Consoles, ConsolesOf
<1>2. console' = [console EXCEPT !.cells = d]
  BY DEF stores
<1>3. d \in [Cells -> Glyph]
  BY <1>1
<1> HIDE DEF d
<1>4. QED
  BY <1>2, <1>3, ConsoleParts DEF Consoles

\* While a read draws, the row is that of the clock only at putchar_top.
LEMMA DrawType ==
  ASSUME TypeInv, read_draws
  PROVE  /\ console' \in IF pc' = "top" THEN Wide ELSE Consoles
         /\ x' \in 0 .. VGA_WIDTH - 1 /\ local' \in Anywhere
         /\ LocalInv'
<1>1. /\ x \in 0 .. VGA_WIDTH - 1 /\ x \in Nat /\ local \in Anywhere /\ local \in Nat
      /\ pc # "top" => console \in Consoles
      /\ pc = "top" => console \in Wide
      /\ LocalInv
  <2>1. x \in 0 .. VGA_WIDTH - 1 /\ local \in 0 .. SIZE_MAX_1 - 1
    BY DEF TypeInv, TypeOK
  <2>2. x \in Nat /\ local \in Nat
    BY <2>1, ScreenSizes
  <2>3. QED
    BY <2>1, <2>2 DEF TypeInv, Anywhere
<1>2. pc # "top" =>
        /\ console.row \in Shown /\ console.column \in Anywhere
        /\ console.row \in Nat /\ console.column \in Nat
  BY <1>1, ScreenSizes, ShownIs DEF Consoles, ConsolesOf, Anywhere
<1>3. /\ 0 \in 0 .. VGA_WIDTH - 1 /\ 0 \in Anywhere /\ 0 \in Shown
      /\ Shown \subseteq Anywhere
  BY ScreenSizes DEF Anywhere, Shown
<1>4. \A a \in Int : a % SIZE_MAX_1 \in Anywhere
  BY ColumnType DEF Anywhere
<1>5. {"space", "cursor"} \subseteq Glyph
  BY DEF Glyph
<1>6. CASE putchar_begins
  <2>1. /\ pc = "cursor" /\ pc' \in {"blank", "offset"}
        /\ console' = console /\ x' = 0 /\ local' = local
    BY <1>6 DEF putchar_begins, draws
  <2>2. QED
    BY <1>1, <1>3, <2>1 DEF LocalInv
<1>7. CASE putchar_blank
  <2>1. /\ pc = "blank" /\ pc' = "erase" /\ console' = console /\ x' = x
        /\ local' = (console.row * VGA_WIDTH + x) % SIZE_MAX_1
    BY <1>7 DEF putchar_blank, draws
  <2>2. PICK p \in Nat : p = console.row * VGA_WIDTH /\ p + VGA_WIDTH <= End
    BY <1>2, <2>1, ShownIs
  <2>3. p + x \in Nat /\ p + x < End
    BY <1>1, <2>2, ScreenSizes
  <2>4. local' = p + x
    BY <2>1, <2>2, <2>3, ScreenSizes, ModSmall
  <2>5. local' \in Anywhere
    BY <2>3, <2>4, ScreenSizes DEF Anywhere
  <2>6. QED
    BY <1>1, <2>1, <2>3, <2>4, <2>5 DEF LocalInv
<1>8. CASE putchar_erase
  <2>1. /\ pc = "erase" /\ pc' \in {"offset", "blank"} /\ stores(local, "space")
        /\ x' = (IF x + 1 = VGA_WIDTH THEN 0 ELSE x + 1) /\ local' = local
    BY <1>8 DEF putchar_erase, draws
  <2>2. x' \in 0 .. VGA_WIDTH - 1
    BY <1>1, <2>1, ScreenSizes
  <2>3. console' \in Consoles
    BY <1>1, <1>5, <2>1, StoresType
  <2>4. QED
    BY <1>1, <2>1, <2>2, <2>3 DEF LocalInv
<1>9. CASE putchar_offset
  <2>1. /\ pc = "offset" /\ pc' = "index" /\ console' = console /\ x' = x
        /\ local' = console.row * VGA_WIDTH
    BY <1>9 DEF putchar_offset, draws
  <2>2. local' \in Anywhere
    BY <1>2, <2>1, ShownIs, ScreenSizes DEF Anywhere
  <2>3. QED
    BY <1>1, <1>2, <2>1, <2>2 DEF LocalInv
<1>10. CASE putchar_index
  <2>1. /\ pc = "index" /\ pc' = "put" /\ console' = console /\ x' = x
        /\ local' = (local + console.column) % SIZE_MAX_1
    BY <1>10 DEF putchar_index, draws
  <2>2. local' \in Anywhere
    BY <1>1, <1>2, <1>4, <2>1
  <2>3. QED
    BY <1>1, <2>1, <2>2 DEF LocalInv
<1>11. CASE putchar_put
  <2>1. /\ pc = "put" /\ pc' = "next" /\ stores(local, "cursor") /\ x' = x /\ local' = 0
    BY <1>11 DEF putchar_put, draws
  <2>2. console' \in Consoles
    BY <1>1, <1>5, <2>1, StoresType
  <2>3. QED
    BY <1>1, <1>3, <2>1, <2>2 DEF LocalInv
<1>12. CASE putchar_next
  <2>1. /\ pc = "next" /\ pc' = "column" /\ console' = console /\ x' = x
        /\ local' = console.column
    BY <1>12 DEF putchar_next, draws
  <2>2. QED
    BY <1>1, <1>2, <2>1 DEF LocalInv
<1>13. CASE putchar_column
  <2>1. /\ pc = "column" /\ pc' \in {"wrap", "back"} /\ x' = x /\ local' = 0
        /\ console' = [console EXCEPT !.column = (local + 1) % SIZE_MAX_1]
    BY <1>13 DEF putchar_column, draws
  <2>2. (local + 1) % SIZE_MAX_1 \in Anywhere
    BY <1>1, <1>4
  <2>3. console' \in Consoles
    BY <1>1, <2>1, <2>2, ConsoleParts DEF Consoles
  <2>4. QED
    BY <1>1, <1>3, <2>1, <2>3 DEF LocalInv
<1>14. CASE putchar_wrap
  <2>1. /\ pc = "wrap" /\ pc' = "down" /\ x' = x /\ local' = local
        /\ console' = [console EXCEPT !.column = 0]
    BY <1>14 DEF putchar_wrap, draws, locals
  <2>2. console' \in Consoles
    BY <1>1, <1>3, <2>1, ConsoleParts DEF Consoles
  <2>3. QED
    BY <1>1, <2>1, <2>2 DEF LocalInv
<1>15. CASE putchar_down
  <2>1. /\ pc = "down" /\ pc' = "row" /\ console' = console /\ x' = x
        /\ local' = console.row
    BY <1>15 DEF putchar_down, draws
  <2>2. QED
    BY <1>1, <1>2, <1>3, <2>1 DEF LocalInv
<1>16. CASE putchar_row
  <2>1. /\ pc = "row" /\ x' = x /\ local' = 0
        /\ pc' = IF local + 1 = VGA_HEIGHT - 1 THEN "top" ELSE "back"
        /\ console' = [console EXCEPT !.row = local + 1]
    BY <1>16 DEF putchar_row, draws
  <2>2. local \in Shown
    BY <1>1, <2>1 DEF LocalInv
  <2>3. local + 1 \in IF pc' = "top" THEN Anywhere ELSE Shown
    BY <2>1, <2>2, ShownIs, ScreenSizes DEF Anywhere, Shown
  <2>4. console' \in IF pc' = "top" THEN Wide ELSE Consoles
    BY <1>1, <2>1, <2>3, ConsoleParts DEF Consoles, Wide
  <2>5. QED
    BY <1>1, <1>3, <2>1, <2>4 DEF LocalInv
<1>17. CASE putchar_top
  <2>1. /\ pc = "top" /\ pc' = "back" /\ x' = x /\ local' = local
        /\ console' = [console EXCEPT !.row = 0]
    BY <1>17 DEF putchar_top, draws, locals
  <2>2. console' \in Consoles
    BY <1>1, <1>3, <2>1, ConsoleParts DEF Consoles, Wide
  <2>3. QED
    BY <1>1, <2>1, <2>2 DEF LocalInv
<1>18. CASE read_back
  <2>1. /\ pc = "back" /\ pc' = "bottom" /\ x' = x /\ local' = local
        /\ console' = left(console)
    BY <1>18 DEF read_back, draws, locals
  <2>2. console' \in Consoles
    BY <1>1, <2>1, LeftType
  <2>3. QED
    BY <1>1, <2>1, <2>2 DEF LocalInv
<1>19. CASE clear_bottom
  <2>1. /\ pc = "bottom" /\ console' = console /\ x' = x
        /\ IF console.row + 1 = VGA_HEIGHT - 1
           THEN pc' = "spin" /\ local' = 0
           ELSE pc' = "below" /\ local' = (console.row + 1) * VGA_WIDTH
    BY <1>19 DEF clear_bottom, draws
  <2>2. pc' = "below" => local' \in Anywhere /\ local' < End
    <3>1. CASE console.row + 1 # VGA_HEIGHT - 1
      <4>1. console.row + 1 \in Shown
        BY <1>2, <2>1, <3>1, ShownIs, ScreenSizes DEF Shown
      <4>2. QED
        BY <2>1, <3>1, <4>1, ShownIs, ScreenSizes DEF Anywhere
    <3>2. QED
      BY <2>1, <3>1
  <2>3. QED
    BY <1>1, <1>3, <2>1, <2>2 DEF LocalInv
<1>20. CASE clear_below
  <2>1. /\ pc = "below" /\ x' = x /\ stores(local, "space")
        /\ IF local + 1 = End THEN pc' = "spin" /\ local' = 0
           ELSE pc' = "below" /\ local' = local + 1
    BY <1>20 DEF clear_below, draws, End
  <2>2. console' \in Consoles
    BY <1>1, <1>5, <2>1, StoresType
  <2>3. local < End
    BY <1>1, <2>1 DEF LocalInv
  <2>4. pc' = "below" => local' \in Anywhere /\ local' < End
    BY <1>1, <2>1, <2>3, ScreenSizes DEF Anywhere
  <2>5. QED
    BY <1>1, <1>3, <2>1, <2>2, <2>4 DEF LocalInv
<1>21. QED
  BY <1>6, <1>7, <1>8, <1>9, <1>10, <1>11, <1>12, <1>13, <1>14, <1>15, <1>16, <1>17,
     <1>18, <1>19, <1>20 DEF read_draws

LEMMA TypeInit ==
  ASSUME Init PROVE TypeInv
<1>1. 0 \in Shown /\ 0 \in Anywhere /\ 0 \in 0 .. VGA_WIDTH - 1
  BY ScreenSizes DEF Shown, Anywhere
<1>2. console \in Consoles /\ pc = "user" /\ LocalInv
  BY <1>1 DEF Init, Consoles, ConsolesOf, Anywhere, Glyph, LocalInv
<1>3. Nul \in Char
  BY DEF Char
<1>4. terminal_buffer \in Buffers /\ str \in Buffers
  BY <1>3 DEF Init, Buffers
<1>5. <<>> \in Seq(Char) /\ <<>> \in Seq(Seq(Char))
  BY EmptySeq
<1>6. TypeOK
  <2>1. /\ console.row \in 0 .. VGA_HEIGHT - 2
        /\ console.column \in 0 .. SIZE_MAX_1 - 1
        /\ console.cells \in [Cells -> Glyph]
        /\ x \in 0 .. VGA_WIDTH - 1 /\ local \in 0 .. SIZE_MAX_1 - 1
    BY <1>1, <1>2 DEF Init, Consoles, ConsolesOf, Shown, Anywhere
  <2>2. pc \in Where
    BY DEF Init, Where
  <2>3. /\ terminal_buf_count \in 0 .. MAX_BUFF /\ n \in 0 .. MAX_BUFF
        /\ writes \in 0 .. MAX_WRITES /\ typed \in 0 .. MAX_KEYS
    BY TerminalAssumption DEF Init
  <2>4. /\ press_over \in {0, 1} /\ user_input \in {0, 1}
        /\ careful \in BOOLEAN /\ late \in BOOLEAN /\ torn \in BOOLEAN
        /\ forfeited \subseteq 0 .. MAX_KEYS
    BY DEF Init
  <2>5. QED
    BY <1>2, <1>4, <2>1, <2>2, <2>3, <2>4 DEF TypeOK, Buffers, Glyph
<1>7. QED
  BY <1>2, <1>5, <1>6 DEF Init, TypeInv

LEMMA CountTypes ==
  ASSUME TypeInv
  PROVE  /\ terminal_buf_count \in Nat /\ terminal_buf_count <= MAX_BUFF
         /\ n \in Nat /\ n <= MAX_BUFF
         /\ typed \in Nat /\ typed <= MAX_KEYS
         /\ MAX_BUFF \in Nat /\ MAX_BUFF > 0 /\ MAX_KEYS \in Nat
         /\ terminal_buffer \in Buffers /\ str \in Buffers
<1>1. MAX_BUFF \in Nat /\ MAX_BUFF > 0 /\ MAX_KEYS \in Nat
  BY TerminalAssumption
<1>2. terminal_buf_count \in 0 .. MAX_BUFF
  BY DEF TypeInv, TypeOK
<1>3. n \in 0 .. MAX_BUFF
  BY DEF TypeInv, TypeOK
<1>4. typed \in 0 .. MAX_KEYS
  BY DEF TypeInv, TypeOK
<1>5. terminal_buffer \in Buffers /\ str \in Buffers
  BY DEF TypeInv, TypeOK, Buffers
<1>6. QED
  BY <1>1, <1>2, <1>3, <1>4, <1>5

\* A read hands a program a sequence of characters.
LEMMA HandedType ==
  ASSUME NEW s \in Buffers, NEW k \in 0 .. MAX_BUFF
  PROVE  [i \in 1 .. k |-> s[i - 1]] \in Seq(Char)
<1>1. k \in Nat
  BY TerminalAssumption
<1>2. \A i \in 1 .. k : i - 1 \in 0 .. MAX_BUFF - 1
  BY TerminalAssumption
<1>3. \A i \in 1 .. k : s[i - 1] \in Char
  BY <1>2 DEF Buffers
<1> DEFINE h == [i \in 1 .. k |-> s[i - 1]]
<1>4. h \in [1 .. k -> Char]
  BY <1>3
<1>5. QED
  BY <1>1, <1>4, SeqDef

\* What a key leaves in the history of a careful user.
LEMMA FollowType ==
  ASSUME TypeInv, NEW new_line \in Seq(Char), NEW new_lines \in Seq(Seq(Char)),
         follow(new_line, new_lines)
  PROVE  /\ line' \in Seq(Char) /\ lines' \in Seq(Seq(Char))
         /\ careful' \in BOOLEAN /\ late' \in BOOLEAN /\ torn' \in BOOLEAN
<1>1. <<>> \in Seq(Char) /\ <<>> \in Seq(Seq(Char))
  BY EmptySeq
<1>2. QED
  BY <1>1 DEF follow, TypeInv, TypeOK

LEMMA BlankType == [i \in 0 .. MAX_BUFF - 1 |-> Nul] \in Buffers
BY DEF Buffers, Char

\* What a character that reaches the buffer leaves of the types.
LEMMA CharacterType ==
  ASSUME TypeInv, NEW c, c = [ch |-> c.ch, id |-> typed + 1],
         c.ch \in {"char", "newline"}, terminal_get_char(c)
  PROVE  /\ c \in Char
         /\ terminal_buffer' \in Buffers
         /\ terminal_buf_count' \in 0 .. MAX_BUFF
         /\ typed' \in 0 .. MAX_KEYS
         /\ forfeited' \subseteq 0 .. MAX_KEYS
<1>1. typed + 1 \in 1 .. MAX_KEYS /\ typed' = typed + 1
  <2>1. typed < MAX_KEYS /\ typed' = typed + 1
    BY DEF terminal_get_char
  <2>2. QED
    BY <2>1, CountTypes
<1>2. c \in Char
  BY <1>1 DEF Char, Typed
<1>3. terminal_buffer' \in Buffers /\ terminal_buf_count' \in 0 .. MAX_BUFF
  <2>1. CASE put_in_buffer(c)
    <3>1. /\ terminal_buf_count < MAX_BUFF
          /\ terminal_buffer' = [terminal_buffer EXCEPT ![terminal_buf_count] = c]
          /\ terminal_buf_count' = terminal_buf_count + 1
      BY <2>1 DEF put_in_buffer
    <3>2. terminal_buffer' \in Buffers
      BY <1>2, <3>1, CountTypes DEF Buffers
    <3>3. QED
      BY <3>1, <3>2, CountTypes
  <2>2. CASE clear_full
    BY <2>2, BlankType, TerminalAssumption DEF clear_full
  <2>3. QED
    BY <2>1, <2>2 DEF terminal_get_char
<1>4. Buffered \subseteq 0 .. MAX_KEYS
  <2>1. ASSUME NEW i \in 0 .. terminal_buf_count - 1
        PROVE  terminal_buffer[i].id \in 0 .. MAX_KEYS
    <3>1. i \in 0 .. MAX_BUFF - 1
      BY CountTypes
    <3>2. terminal_buffer[i] \in Char
      BY <3>1, CountTypes DEF Buffers
    <3>3. QED
      BY <3>2, TerminalAssumption DEF Char, Typed, Nul, Space
  <2>2. QED
    BY <2>1 DEF Buffered
<1>5. c.id \in 0 .. MAX_KEYS
  BY <1>1, TerminalAssumption
<1>6. forfeited' \subseteq 0 .. MAX_KEYS
  BY <1>4, <1>5 DEF terminal_get_char, TypeInv, TypeOK
<1>7. QED
  BY <1>1, <1>2, <1>3, <1>6, TerminalAssumption

\* What the keys keep of the types.
LEMMA KeyType ==
  ASSUME TypeInv, key_character \/ key_enter \/ key_backspace
  PROVE  /\ terminal_buffer' \in Buffers
         /\ terminal_buf_count' \in 0 .. MAX_BUFF
         /\ press_over' \in {0, 1}
         /\ typed' \in 0 .. MAX_KEYS
         /\ forfeited' \subseteq 0 .. MAX_KEYS
         /\ line' \in Seq(Char) /\ lines' \in Seq(Seq(Char))
         /\ careful' \in BOOLEAN /\ late' \in BOOLEAN /\ torn' \in BOOLEAN
         /\ UNCHANGED <<user_input, x, local, pc, str, n, writes, got>>
<1>1. press_over \in {0, 1} /\ line \in Seq(Char) /\ lines \in Seq(Seq(Char))
  BY DEF TypeInv, TypeOK
<1>2. CASE key_character
  <2> DEFINE c == [ch |-> "char", id |-> typed + 1]
  <2>1. terminal_get_char(c) /\ follow(Append(line, c), lines) /\ UNCHANGED press_over
    BY <1>2 DEF key_character
  <2>2. c = [ch |-> c.ch, id |-> typed + 1] /\ c.ch \in {"char", "newline"}
    OBVIOUS
  <2> HIDE DEF c
  <2>3. /\ c \in Char
        /\ terminal_buffer' \in Buffers /\ terminal_buf_count' \in 0 .. MAX_BUFF
        /\ typed' \in 0 .. MAX_KEYS /\ forfeited' \subseteq 0 .. MAX_KEYS
    BY <2>1, <2>2, CharacterType
  <2>4. Append(line, c) \in Seq(Char)
    BY <1>1, <2>3, AppendProperties
  <2>5. /\ line' \in Seq(Char) /\ lines' \in Seq(Seq(Char))
        /\ careful' \in BOOLEAN /\ late' \in BOOLEAN /\ torn' \in BOOLEAN
    BY <1>1, <2>1, <2>4, FollowType
  <2>6. UNCHANGED <<user_input, x, local, pc, str, n, writes, got>>
    BY <2>1 DEF terminal_get_char, locals, result
  <2>7. QED
    BY <1>1, <2>1, <2>3, <2>5, <2>6
<1>3. CASE key_enter
  <2> DEFINE c == [ch |-> "newline", id |-> typed + 1]
  <2>1. terminal_get_char(c) /\ follow(<<>>, Append(lines, Append(line, c)))
        /\ press_over' = 1
    BY <1>3 DEF key_enter, pressed
  <2>2. c = [ch |-> c.ch, id |-> typed + 1] /\ c.ch \in {"char", "newline"}
    OBVIOUS
  <2> HIDE DEF c
  <2>3. /\ c \in Char
        /\ terminal_buffer' \in Buffers /\ terminal_buf_count' \in 0 .. MAX_BUFF
        /\ typed' \in 0 .. MAX_KEYS /\ forfeited' \subseteq 0 .. MAX_KEYS
    BY <2>1, <2>2, CharacterType
  <2>4. Append(line, c) \in Seq(Char) /\ <<>> \in Seq(Char)
    BY <1>1, <2>3, AppendProperties, EmptySeq
  <2>5. Append(lines, Append(line, c)) \in Seq(Seq(Char))
    BY <1>1, <2>4, AppendProperties
  <2>6. /\ line' \in Seq(Char) /\ lines' \in Seq(Seq(Char))
        /\ careful' \in BOOLEAN /\ late' \in BOOLEAN /\ torn' \in BOOLEAN
    BY <2>1, <2>4, <2>5, FollowType
  <2>7. UNCHANGED <<user_input, x, local, pc, str, n, writes, got>>
    BY <2>1 DEF terminal_get_char, locals, result
  <2>8. QED
    BY <2>1, <2>3, <2>6, <2>7
<1>4. CASE key_backspace
  <2> DEFINE rest == IF line = <<>> THEN line ELSE SubSeq(line, 1, Len(line) - 1)
  <2>1. follow(rest, lines) /\ UNCHANGED <<flags, locals, pc, result, writes, typed, got>>
    BY <1>4 DEF key_backspace
  <2>2. rest \in Seq(Char)
    <3>1. CASE line # <<>>
      <4>1. Len(line) - 1 \in 0 .. Len(line)
        BY <1>1, <3>1, LenProperties
      <4>2. SubSeq(line, 1, Len(line) - 1) \in Seq(Char)
        BY <1>1, <4>1, SubSeqProperties, LenProperties
      <4>3. QED
        BY <4>2, <3>1
    <3>2. QED
      BY <1>1, <3>1
  <2>3. /\ line' \in Seq(Char) /\ lines' \in Seq(Seq(Char))
        /\ careful' \in BOOLEAN /\ late' \in BOOLEAN /\ torn' \in BOOLEAN
    <3> HIDE DEF rest
    <3>1. QED
      BY <1>1, <2>1, <2>2, FollowType
  <2>4. /\ terminal_buffer' \in Buffers /\ terminal_buf_count' \in 0 .. MAX_BUFF
        /\ forfeited' \subseteq 0 .. MAX_KEYS
    <3>1. forfeited \subseteq 0 .. MAX_KEYS
      BY DEF TypeInv, TypeOK
    <3>2. CASE terminal_buf_count > 0
      <4>1. /\ terminal_buf_count' = terminal_buf_count - 1
            /\ terminal_buffer' =
                 [terminal_buffer EXCEPT ![terminal_buf_count - 1] = Space]
            /\ forfeited' = forfeited
                              \cup {terminal_buffer[terminal_buf_count - 1].id}
        BY <1>4, <3>2 DEF key_backspace, erased_count
      <4>2. terminal_buf_count - 1 \in 0 .. MAX_BUFF - 1
        BY <3>2, CountTypes
      <4>3. terminal_buffer[terminal_buf_count - 1] \in Char
        BY <4>2, CountTypes DEF Buffers
      <4>4. terminal_buffer[terminal_buf_count - 1].id \in 0 .. MAX_KEYS
        BY <4>3, CountTypes DEF Char, Typed, Nul, Space
      <4>5. Space \in Char
        BY DEF Char
      <4>6. terminal_buffer' \in Buffers
        BY <4>1, <4>5, CountTypes DEF Buffers
      <4>7. terminal_buf_count' \in 0 .. MAX_BUFF
        BY <4>1, <4>2, CountTypes
      <4>8. forfeited' \subseteq 0 .. MAX_KEYS
        BY <3>1, <4>1, <4>4
      <4>9. QED
        BY <4>6, <4>7, <4>8
    <3>3. CASE ~(terminal_buf_count > 0)
      <4>1. UNCHANGED <<buffer, forfeited>>
        BY <1>4, <3>3 DEF key_backspace
      <4>2. QED
        BY <3>1, <4>1, CountTypes DEF buffer
    <3>4. QED
      BY <3>2, <3>3
  <2>5. typed' \in 0 .. MAX_KEYS
    BY <2>1, CountTypes
  <2>6. QED
    BY <1>1, <2>1, <2>3, <2>4, <2>5 DEF flags, locals, result
<1>5. QED
  BY <1>2, <1>3, <1>4

\* What the program and its read keep of the types.
LEMMA ProgramType ==
  ASSUME TypeInv,
         \/ terminal_write(<<"text">>) \/ terminal_write(<<"text", "newline">>)
         \/ do_clear \/ terminal_read \/ read_draws
         \/ read_pressed \/ read_copy \/ read_count \/ read_clear \/ read_reset
         \/ read_return
  PROVE  /\ terminal_buffer' \in Buffers /\ str' \in Buffers
         /\ terminal_buf_count' \in 0 .. MAX_BUFF /\ n' \in 0 .. MAX_BUFF
         /\ press_over' \in {0, 1} /\ user_input' \in {0, 1}
         /\ pc' \in Where /\ (pc' # "user" => user_input' = 1)
         /\ writes' \in 0 .. MAX_WRITES
         /\ got' \in Seq(Seq(Char))
         /\ UNCHANGED <<typed, line, lines, careful, late, torn, forfeited>>
<1>1. /\ press_over \in {0, 1} /\ user_input \in {0, 1} /\ pc \in Where
      /\ got \in Seq(Seq(Char)) /\ (pc # "user" => user_input = 1)
      /\ writes \in 0 .. MAX_WRITES
  BY DEF TypeInv, TypeOK
<1>2. /\ terminal_buf_count \in 0 .. MAX_BUFF /\ n \in 0 .. MAX_BUFF
      /\ 0 \in 0 .. MAX_BUFF
  BY CountTypes
<1>3. terminal_buffer \in Buffers /\ str \in Buffers
  BY CountTypes
<1>4. CASE terminal_write(<<"text">>) \/ terminal_write(<<"text", "newline">>)
           \/ do_clear
  <2>1. writes_screen
    BY <1>4 DEF terminal_write, do_clear
  <2>2. writes' \in 0 .. MAX_WRITES
    BY <1>1, <2>1, TerminalAssumption DEF writes_screen
  <2>3. QED
    BY <1>1, <1>2, <1>3, <2>1, <2>2 DEF writes_screen, buffer, flags, result
<1>5. CASE terminal_read
  BY <1>1, <1>2, <1>3, <1>5 DEF terminal_read, buffer, result, history, Where, Cursor
<1>6. CASE read_draws
  <2>1. "user" \notin Cursor /\ Cursor \cup {"spin"} \subseteq Where
    BY DEF Cursor, Torn, Where
  <2>2. QED
    BY <1>1, <1>2, <1>3, <1>6, <2>1, DrawsOnly
<1>7. CASE read_pressed \/ read_copy \/ read_count
  BY <1>1, <1>2, <1>3, <1>7 DEF read_pressed, read_copy, read_count, buffer, flags,
     result, history, Where, Window
<1>8. CASE read_clear \/ read_reset
  BY <1>1, <1>2, <1>3, <1>8, BlankType DEF read_clear, read_reset, count_after_read,
     flags, result, history, Where, Window
<1>9. CASE read_return
  <2> DEFINE h == [i \in 1 .. n |-> str[i - 1]]
  <2>1. Append(got, h) \in Seq(Seq(Char))
    <3>1. h \in Seq(Char)
      BY <1>2, <1>3, HandedType
    <3> HIDE DEF h
    <3>2. QED
      BY <1>1, <3>1, AppendProperties
  <2>2. got' = Append(got, h)
    BY <1>9 DEF read_return
  <2> HIDE DEF h
  <2>3. QED
    BY <1>1, <1>2, <1>3, <1>9, <2>1, <2>2, BlankType DEF read_return, buffer, Where
<1>10. QED
  BY <1>4, <1>5, <1>6, <1>7, <1>8, <1>9

\* Every step leaves a console.
LEMMA ConsoleStep ==
  ASSUME TypeInv, Next
  PROVE  /\ console' \in IF pc' = "top" THEN Wide ELSE Consoles
         /\ x' \in 0 .. VGA_WIDTH - 1 /\ local' \in Anywhere
         /\ LocalInv'
<1>1. /\ x \in 0 .. VGA_WIDTH - 1 /\ local \in Anywhere /\ LocalInv
      /\ pc # "top" => console \in Consoles
      /\ pc = "top" => console \in Wide
  BY DEF TypeInv, TypeOK, Anywhere
<1>2. CASE terminal_write(<<"text">>) \/ terminal_write(<<"text", "newline">>) \/ do_clear
  <2>1. pc = "user" /\ UNCHANGED <<x, local, pc>>
    BY <1>2 DEF terminal_write, do_clear, writes_screen, locals
  <2>2. console' \in Consoles
    BY <1>1, <1>2, <2>1, WriteConsole
  <2>3. QED
    BY <1>1, <2>1, <2>2 DEF LocalInv
<1>3. CASE terminal_read
  <2>1. pc = "user" /\ pc' = "cursor" /\ UNCHANGED <<x, local, console>>
    BY <1>3 DEF terminal_read, locals
  <2>2. QED
    BY <1>1, <2>1 DEF LocalInv
<1>4. CASE read_draws
  BY <1>4, DrawType
<1>5. CASE read_pressed \/ read_copy \/ read_count \/ read_clear \/ read_reset
           \/ read_return
  <2>1. /\ pc \in {"spin", "copy", "count", "clear", "reset", "finish"}
        /\ pc' \in {"copy", "count", "clear", "reset", "finish", "user"}
        /\ UNCHANGED <<x, local, console>>
    BY <1>5 DEF read_pressed, read_copy, read_count, read_clear, read_reset,
       read_return, locals
  <2>2. QED
    BY <1>1, <2>1 DEF LocalInv
<1>6. CASE key_character \/ key_enter \/ key_backspace
  <2>1. UNCHANGED <<x, local, pc>>
    BY <1>6, KeyType
  <2>2. pc # "top" => console' \in Consoles
    BY <1>1, <1>6, KeyConsole DEF Consoles
  <2>3. pc = "top" => console' \in Wide
    BY <1>1, <1>6, KeyConsole DEF Wide
  <2>4. LocalInv'
    BY <1>1, <2>1 DEF LocalInv
  <2>5. QED
    BY <1>1, <2>1, <2>2, <2>3, <2>4
<1>7. QED
  BY <1>2, <1>3, <1>4, <1>5, <1>6 DEF Next, read_goes_on

LEMMA TypeStep ==
  ASSUME TypeInv, [Next]_vars PROVE TypeInv'
<1>1. CASE UNCHANGED vars
  BY <1>1 DEF vars, TypeInv, TypeOK, LocalInv
<1>2. CASE Next
  <2>1. /\ console' \in IF pc' = "top" THEN Wide ELSE Consoles
        /\ x' \in 0 .. VGA_WIDTH - 1 /\ local' \in Anywhere
        /\ LocalInv'
    BY <1>2, ConsoleStep
  <2>2. /\ console'.row \in 0 .. (IF pc' = "top" THEN SIZE_MAX_1 - 1 ELSE VGA_HEIGHT - 2)
        /\ console'.column \in 0 .. SIZE_MAX_1 - 1
        /\ console'.cells \in [Cells -> Glyph]
        /\ x' \in 0 .. VGA_WIDTH - 1 /\ local' \in 0 .. SIZE_MAX_1 - 1
    <3>1. CASE pc' = "top"
      BY <2>1, <3>1 DEF Wide, ConsolesOf, Anywhere
    <3>2. CASE pc' # "top"
      BY <2>1, <3>2 DEF Consoles, ConsolesOf, Shown, Anywhere
    <3>3. QED
      BY <3>1, <3>2
  <2>3. CASE key_character \/ key_enter \/ key_backspace
    <3>1. /\ terminal_buffer' \in Buffers
          /\ terminal_buf_count' \in 0 .. MAX_BUFF
          /\ press_over' \in {0, 1}
          /\ typed' \in 0 .. MAX_KEYS
          /\ forfeited' \subseteq 0 .. MAX_KEYS
          /\ line' \in Seq(Char) /\ lines' \in Seq(Seq(Char))
          /\ careful' \in BOOLEAN /\ late' \in BOOLEAN /\ torn' \in BOOLEAN
          /\ UNCHANGED <<user_input, x, local, pc, str, n, writes, got>>
      BY <2>3, KeyType
    <3>2. /\ user_input \in {0, 1} /\ pc \in Where /\ n \in 0 .. MAX_BUFF
          /\ writes \in 0 .. MAX_WRITES /\ got \in Seq(Seq(Char)) /\ str \in Buffers
          /\ (pc # "user" => user_input = 1)
      BY DEF TypeInv, TypeOK, Buffers
    <3>3. TypeOK'
      BY <2>2, <3>1, <3>2 DEF TypeOK, Buffers, Glyph
    <3>4. QED
      BY <2>1, <3>1, <3>2, <3>3 DEF TypeInv
  <2>4. CASE \/ terminal_write(<<"text">>) \/ terminal_write(<<"text", "newline">>)
             \/ do_clear \/ terminal_read \/ read_draws
             \/ read_pressed \/ read_copy \/ read_count \/ read_clear \/ read_reset
             \/ read_return
    <3>1. /\ terminal_buffer' \in Buffers /\ str' \in Buffers
          /\ terminal_buf_count' \in 0 .. MAX_BUFF /\ n' \in 0 .. MAX_BUFF
          /\ press_over' \in {0, 1} /\ user_input' \in {0, 1}
          /\ pc' \in Where /\ (pc' # "user" => user_input' = 1)
          /\ writes' \in 0 .. MAX_WRITES
          /\ got' \in Seq(Seq(Char))
          /\ UNCHANGED <<typed, line, lines, careful, late, torn, forfeited>>
      BY <2>4, ProgramType
    <3>2. /\ typed \in 0 .. MAX_KEYS /\ line \in Seq(Char) /\ lines \in Seq(Seq(Char))
          /\ careful \in BOOLEAN /\ late \in BOOLEAN /\ torn \in BOOLEAN
          /\ forfeited \subseteq 0 .. MAX_KEYS
      BY DEF TypeInv, TypeOK
    <3>3. TypeOK'
      BY <2>2, <3>1, <3>2 DEF TypeOK, Buffers, Glyph
    <3>4. QED
      BY <2>1, <3>1, <3>2, <3>3 DEF TypeInv
  <2>5. QED
    BY <1>2, <2>3, <2>4 DEF Next, read_goes_on
<1>3. QED
  BY <1>1, <1>2

LEMMA TypeInvariant == Spec => []TypeInv
<1>1. Init => TypeInv
  BY TypeInit
<1>2. TypeInv /\ [Next]_vars => TypeInv'
  BY TypeStep
<1>3. QED
  BY <1>1, <1>2, PTL DEF Spec

\* Whatever keys come when: the buffer never holds more than its size, and the
\* console never writes in the row of the clock on purpose (terminal_get_char,
\* console_putchar).
THEOREM TypeCorrect == Spec => []TypeOK
<1>1. TypeInv => TypeOK
  BY DEF TypeInv
<1>2. QED
  BY <1>1, TypeInvariant, PTL
-----------------------------------------------------------------------------
(* What programs received.                                                 *)

Slots       == 0 .. MAX_BUFF - 1
Chunk(s, k) == [i \in 1 .. k |-> s[i - 1]]

LEMMA ReceivedType ==
  ASSUME TypeInv PROVE Received \in Seq(Char)
<1>1. got \in Seq(Seq(Char)) /\ <<>> \in Seq(Char)
  BY EmptySeq DEF TypeInv
<1>2. QED
  BY <1>1, FlattenAppend DEF Received

\* A read that returns adds what it copied to what programs received.
LEMMA HandedOver ==
  ASSUME TypeInv, read_return
  PROVE  /\ Received \in Seq(Char)
         /\ Chunk(str, n) \in Seq(Char)
         /\ Received' = Received \o Chunk(str, n)
<1>1. got \in Seq(Seq(Char))
  BY DEF TypeInv
<1>2. Chunk(str, n) \in Seq(Char)
  <2>1. n \in 0 .. MAX_BUFF /\ str \in Buffers
    BY CountTypes
  <2>2. QED
    BY <2>1, HandedType DEF Chunk
<1>3. got' = Append(got, Chunk(str, n))
  BY DEF read_return, Chunk
<1>4. QED
  BY <1>1, <1>2, <1>3, FlattenAppend, ReceivedType DEF Received

\* One of the characters that programs received has the id y.
HasReceived(y) == \E i \in DOMAIN Received : Received[i].id = y

LEMMA ReceivedParts ==
  ASSUME TypeInv, read_return
  PROVE  /\ Len(Received) \in Nat
         /\ DOMAIN Received = 1 .. Len(Received)
         /\ DOMAIN Received' = 1 .. Len(Received) + n
         /\ \A i \in 1 .. Len(Received) : Received'[i] = Received[i]
         /\ \A k \in Slots : k < n => Received'[Len(Received) + k + 1] = str[k]
<1> DEFINE r == Received
           h == Chunk(str, n)
<1>1. r \in Seq(Char) /\ h \in Seq(Char) /\ Received' = r \o h
  BY HandedOver
<1>2. n \in Nat /\ MAX_BUFF \in Nat
  BY CountTypes
<1>3. Len(h) = n /\ \A i \in 1 .. n : h[i] = str[i - 1]
  BY <1>2 DEF Chunk
<1>4. Len(r) \in Nat /\ DOMAIN r = 1 .. Len(r)
  <2> HIDE DEF r, h
  <2>1. QED
    BY <1>1, LenProperties
<1>5. r \o h \in Seq(Char) /\ Len(r \o h) = Len(r) + n
  <2> HIDE DEF r, h
  <2>1. QED
    BY <1>1, <1>3, ConcatProperties
<1>6. DOMAIN (r \o h) = 1 .. Len(r) + n
  <2> DEFINE t == r \o h
  <2>1. t \in Seq(Char) /\ Len(t) = Len(r) + n
    BY <1>5
  <2> HIDE DEF r, h, t
  <2>2. DOMAIN t = 1 .. Len(t)
    BY <2>1, LenProperties
  <2>3. QED
    BY <2>1, <2>2 DEF t
<1>7. \A i \in 1 .. Len(r) + n :
        (r \o h)[i] = IF i <= Len(r) THEN r[i] ELSE h[i - Len(r)]
  <2> HIDE DEF r, h
  <2>1. QED
    BY <1>1, <1>3, ConcatProperties
<1>8. \A i \in 1 .. Len(r) : (r \o h)[i] = r[i]
  <2> HIDE DEF r, h
  <2>1. QED
    BY <1>2, <1>4, <1>7
<1>9. ASSUME NEW k \in Slots, k < n PROVE (r \o h)[Len(r) + k + 1] = str[k]
  <2>1. PICK i \in 1 .. n : i = k + 1 /\ i - 1 = k
    BY <1>2, <1>9 DEF Slots
  <2>2. h[i] = str[k]
    BY <1>3, <2>1
  <2> HIDE DEF r, h
  <2>3. PICK j \in 1 .. Len(r) + n :
          j = Len(r) + k + 1 /\ ~(j <= Len(r)) /\ j - Len(r) = i
    BY <1>2, <1>4, <1>9, <2>1 DEF Slots
  <2>4. (r \o h)[j] = h[j - Len(r)]
    BY <1>7, <2>3
  <2>5. QED
    BY <2>2, <2>3, <2>4
<1>10. QED
  BY <1>1, <1>4, <1>6, <1>8, <1>9

LEMMA ReceivedGrows ==
  ASSUME TypeInv, read_return
  PROVE  /\ \A y : HasReceived(y) => HasReceived(y)'
         /\ \A y : \A i \in Slots : i < n /\ str[i].id = y => HasReceived(y)'
<1>1. n \in Nat /\ MAX_BUFF \in Nat
  BY CountTypes
<1>2. ASSUME NEW y, HasReceived(y) PROVE HasReceived(y)'
  <2>1. PICK i \in DOMAIN Received : Received[i].id = y
    BY <1>2 DEF HasReceived
  <2>2. i \in DOMAIN Received' /\ Received'[i] = Received[i]
    BY <1>1, <2>1, ReceivedParts
  <2>3. QED
    BY <2>1, <2>2 DEF HasReceived
<1>3. ASSUME NEW y, NEW i \in Slots, i < n, str[i].id = y
      PROVE  HasReceived(y)'
  <2>1. Len(Received) + i + 1 \in DOMAIN Received'
    BY <1>1, <1>3, ReceivedParts DEF Slots
  <2>2. Received'[Len(Received) + i + 1] = str[i]
    BY <1>3, ReceivedParts
  <2>3. QED
    BY <1>3, <2>1, <2>2 DEF HasReceived
<1>4. QED
  BY <1>2, <1>3
-----------------------------------------------------------------------------
(* Typed characters are kept.                                              *)

Lost == forfeited \cup {0}

\* What is beyond the count, or beyond what a read copied, was erased, cleared
\* or typed after the memcpy; after it, too, the buffer holds nothing else that
\* was not copied.
EmptyIsLost ==
  \A i \in Slots : i >= terminal_buf_count \/ pc = "reset"
                     => terminal_buffer[i].id \in Lost

CopyIsHeld ==
  pc = "count" => \A i \in Slots : \/ str[i].id \in Lost
                                   \/ /\ i < terminal_buf_count
                                      /\ str[i].id = terminal_buffer[i].id

RestIsLost ==
  pc \in {"clear", "reset", "finish"} =>
    \A i \in Slots : i >= n => str[i].id \in Lost

HeldIsCopied ==
  pc \in {"count", "clear"} =>
    \A i \in Slots : i < terminal_buf_count =>
      \/ terminal_buffer[i].id \in Lost
      \/ \E j \in Slots : str[j].id = terminal_buffer[i].id

\* A program has the character y, or is to get it, or the buffer has it.
IsCopied(y) == pc \in Window \cup {"finish"} /\ \E i \in Slots : str[i].id = y

IsBuffered(y) ==
  \E i \in Slots : i < terminal_buf_count /\ terminal_buffer[i].id = y

Kept(y) == HasReceived(y) \/ IsCopied(y) \/ IsBuffered(y) \/ y \in forfeited

KeptInv ==
  /\ EmptyIsLost
  /\ CopyIsHeld
  /\ RestIsLost
  /\ HeldIsCopied
  /\ \A y \in 1 .. typed : Kept(y)

LEMMA KeptIsKept ==
  ASSUME TypeInv, \A y \in 1 .. typed : Kept(y) PROVE TypedIsKept
<1> SUFFICES ASSUME NEW y \in 1 .. typed
             PROVE  \/ y \in {Received[i].id : i \in DOMAIN Received}
                    \/ y \in IF pc \in Window \cup {"finish"}
                             THEN {str[i].id : i \in DOMAIN str} ELSE {}
                    \/ y \in Buffered
                    \/ y \in forfeited
  BY Zenon DEF TypedIsKept
<1>1. Kept(y)
  OBVIOUS
<1>2. CASE HasReceived(y)
  BY <1>2 DEF HasReceived
<1>3. CASE IsCopied(y)
  <2>1. DOMAIN str = Slots
    BY CountTypes DEF Buffers, Slots
  <2>2. QED
    BY <1>3, <2>1 DEF IsCopied
<1>4. CASE IsBuffered(y)
  <2>1. PICK i \in Slots : i < terminal_buf_count /\ terminal_buffer[i].id = y
    BY <1>4 DEF IsBuffered
  <2>2. i \in 0 .. terminal_buf_count - 1
    BY <2>1, CountTypes DEF Slots
  <2>3. y # 0
    BY CountTypes
  <2>4. QED
    BY <2>1, <2>2, <2>3 DEF Buffered
<1>5. QED
  BY <1>1, <1>2, <1>3, <1>4 DEF Kept

LEMMA SameReceived ==
  ASSUME got' = got PROVE \A y : HasReceived(y)' <=> HasReceived(y)
<1>1. Received' = Received
  BY DEF Received
<1>2. QED
  BY <1>1 DEF HasReceived

LEMMA KeptInit ==
  ASSUME Init PROVE KeptInv
<1>1. typed = 0 /\ pc = "user"
  BY DEF Init
<1>2. \A y \in 1 .. typed : Kept(y)
  BY <1>1
<1>3. \A i \in Slots : terminal_buffer[i].id \in Lost
  BY DEF Init, Slots, Nul, Lost
<1>4. QED
  BY <1>1, <1>2, <1>3 DEF KeptInv, EmptyIsLost, CopyIsHeld, RestIsLost, HeldIsCopied,
     Window

\* The steps of the program that concern neither the buffer nor a copy.
Quiet ==
  \/ terminal_write(<<"text">>) \/ terminal_write(<<"text", "newline">>)
  \/ do_clear \/ terminal_read \/ read_draws
  \/ read_pressed

LEMMA QuietStep ==
  ASSUME Quiet
  PROVE  /\ UNCHANGED <<terminal_buffer, terminal_buf_count, str, n, typed, got, line,
                        lines, careful, late, torn, forfeited>>
         /\ pc \in {"user", "spin"} \cup Cursor
         /\ pc' \in {"user", "spin", "copy"} \cup Cursor
<1>1. CASE terminal_write(<<"text">>) \/ terminal_write(<<"text", "newline">>)
           \/ do_clear
  BY <1>1 DEF terminal_write, do_clear, writes_screen, buffer, flags, result
<1>2. CASE terminal_read
  BY <1>2 DEF terminal_read, buffer, result, history, Cursor
<1>3. CASE read_draws
  BY <1>3, DrawsOnly
<1>4. CASE read_pressed
  BY <1>4 DEF read_pressed, buffer, flags, result, history
<1>5. QED
  BY <1>1, <1>2, <1>3, <1>4 DEF Quiet

LEMMA CursorIs ==
  Cursor \cap {"user", "spin", "copy", "count", "clear", "reset", "finish"} = {}
BY DEF Cursor, Torn

LEMMA KeptQuiet ==
  ASSUME KeptInv, Quiet PROVE KeptInv'
<1>1. /\ UNCHANGED <<terminal_buffer, terminal_buf_count, str, n, typed, got, forfeited>>
      /\ pc \in {"user", "spin"} \cup Cursor
      /\ pc' \in {"user", "spin", "copy"} \cup Cursor
  BY QuietStep
<1>2. Lost' = Lost
  BY <1>1 DEF Lost
<1>3. EmptyIsLost'
  BY <1>1, <1>2, CursorIs DEF KeptInv, EmptyIsLost
<1>4. CopyIsHeld' /\ RestIsLost' /\ HeldIsCopied'
  BY <1>1, CursorIs DEF CopyIsHeld, RestIsLost, HeldIsCopied
<1>5. ASSUME NEW y \in 1 .. typed' PROVE Kept(y)'
  <2>1. Kept(y) /\ ~IsCopied(y)
    BY <1>1, CursorIs DEF KeptInv, IsCopied, Window
  <2>2. IsBuffered(y)' <=> IsBuffered(y)
    BY <1>1 DEF IsBuffered
  <2>3. QED
    BY <1>1, <2>1, <2>2, SameReceived DEF Kept
<1>6. QED
  BY <1>3, <1>4, <1>5 DEF KeptInv

LEMMA KeptCopy ==
  ASSUME TypeInv, KeptInv, read_copy PROVE KeptInv'
<1>1. /\ UNCHANGED <<terminal_buffer, terminal_buf_count, n, typed, got, forfeited>>
      /\ pc = "copy" /\ pc' = "count" /\ str' = terminal_buffer
  BY DEF read_copy, buffer, history
<1>2. Lost' = Lost
  BY <1>1 DEF Lost
<1>3. EmptyIsLost'
  BY <1>1, <1>2 DEF KeptInv, EmptyIsLost
<1>4. CopyIsHeld'
  <2>1. ASSUME NEW i \in Slots
        PROVE  \/ str'[i].id \in Lost'
               \/ i < terminal_buf_count' /\ str'[i].id = terminal_buffer'[i].id
    <3>1. CASE i < terminal_buf_count
      BY <1>1, <3>1
    <3>2. CASE ~(i < terminal_buf_count)
      <4>1. terminal_buffer[i].id \in Lost
        <5>1. i >= terminal_buf_count
          BY <3>2, CountTypes DEF Slots
        <5>2. QED
          BY <5>1 DEF KeptInv, EmptyIsLost
      <4>2. QED
        BY <1>1, <1>2, <4>1
    <3>3. QED
      BY <3>1, <3>2
  <2>2. QED
    BY <2>1 DEF CopyIsHeld
<1>5. RestIsLost'
  BY <1>1 DEF RestIsLost
<1>6. HeldIsCopied'
  BY <1>1 DEF HeldIsCopied
<1>7. ASSUME NEW y \in 1 .. typed' PROVE Kept(y)'
  <2>1. Kept(y) /\ ~IsCopied(y)
    BY <1>1, CursorIs DEF KeptInv, IsCopied, Window
  <2>2. IsBuffered(y)' <=> IsBuffered(y)
    BY <1>1 DEF IsBuffered
  <2>3. QED
    BY <1>1, <2>1, <2>2, SameReceived DEF Kept
<1>8. QED
  BY <1>3, <1>4, <1>5, <1>6, <1>7 DEF KeptInv

LEMMA KeptCount ==
  ASSUME TypeInv, KeptInv, read_count PROVE KeptInv'
<1>1. /\ UNCHANGED <<terminal_buffer, terminal_buf_count, str, typed, got, forfeited>>
      /\ pc = "count" /\ pc' = "clear" /\ n' = terminal_buf_count
  BY DEF read_count, buffer, history
<1>2. Lost' = Lost
  BY <1>1 DEF Lost
<1>3. EmptyIsLost'
  BY <1>1, <1>2 DEF KeptInv, EmptyIsLost
<1>4. CopyIsHeld'
  BY <1>1 DEF CopyIsHeld
<1>5. RestIsLost'
  <2>1. ASSUME NEW i \in Slots, i >= terminal_buf_count PROVE str[i].id \in Lost
    <3>1. ~(i < terminal_buf_count)
      BY <2>1, CountTypes DEF Slots
    <3>2. QED
      BY <1>1, <3>1 DEF KeptInv, CopyIsHeld
  <2>2. QED
    BY <1>1, <1>2, <2>1 DEF RestIsLost
<1>6. HeldIsCopied'
  BY <1>1, <1>2 DEF KeptInv, HeldIsCopied
<1>7. ASSUME NEW y \in 1 .. typed' PROVE Kept(y)'
  <2>1. Kept(y)
    BY <1>1 DEF KeptInv
  <2>2. (IsBuffered(y)' <=> IsBuffered(y)) /\ (IsCopied(y)' <=> IsCopied(y))
    BY <1>1 DEF IsBuffered, IsCopied, Window
  <2>3. QED
    BY <1>1, <2>1, <2>2, SameReceived DEF Kept
<1>8. QED
  BY <1>3, <1>4, <1>5, <1>6, <1>7 DEF KeptInv

LEMMA KeptClear ==
  ASSUME TypeInv, KeptInv, read_clear PROVE KeptInv'
<1>1. /\ UNCHANGED <<terminal_buf_count, str, n, typed, got, forfeited>>
      /\ pc = "clear" /\ pc' = "reset"
      /\ terminal_buffer' = [i \in Slots |-> Nul]
  BY DEF read_clear, result, history, Slots
<1>2. Lost' = Lost
  BY <1>1 DEF Lost
<1>3. EmptyIsLost'
  <2>1. \A i \in Slots : terminal_buffer'[i].id = 0
    BY <1>1 DEF Nul
  <2>2. QED
    BY <2>1 DEF EmptyIsLost, Lost
<1>4. CopyIsHeld' /\ HeldIsCopied'
  BY <1>1 DEF CopyIsHeld, HeldIsCopied
<1>5. RestIsLost'
  BY <1>1, <1>2 DEF KeptInv, RestIsLost
<1>6. ASSUME NEW y \in 1 .. typed' PROVE Kept(y)'
  <2>1. Kept(y)
    BY <1>1, <1>6 DEF KeptInv
  <2>2. IsCopied(y)' <=> IsCopied(y)
    BY <1>1 DEF IsCopied, Window
  <2>3. CASE IsBuffered(y)
    <3>1. PICK i \in Slots : i < terminal_buf_count /\ terminal_buffer[i].id = y
      BY <2>3 DEF IsBuffered
    <3>2. y # 0
      BY <1>1, CountTypes
    <3>3. CASE y \in Lost
      BY <1>1, <3>2, <3>3 DEF Lost, Kept
    <3>4. CASE y \notin Lost
      <4>1. \E j \in Slots : str[j].id = y
        BY <1>1, <3>1, <3>4 DEF KeptInv, HeldIsCopied
      <4>2. IsCopied(y)
        BY <1>1, <4>1 DEF IsCopied, Window
      <4>3. QED
        BY <2>2, <4>2 DEF Kept
    <3>5. QED
      BY <3>3, <3>4
  <2>4. QED
    BY <1>1, <2>1, <2>2, <2>3, SameReceived DEF Kept
<1>7. QED
  BY <1>3, <1>4, <1>5, <1>6 DEF KeptInv

LEMMA KeptReset ==
  ASSUME TypeInv, KeptInv, read_reset PROVE KeptInv'
<1>1. /\ UNCHANGED <<terminal_buffer, str, n, typed, got, forfeited>>
      /\ pc = "reset" /\ pc' = "finish"
  BY DEF read_reset, result, history
<1>2. Lost' = Lost
  BY <1>1 DEF Lost
<1>3. \A i \in Slots : terminal_buffer[i].id \in Lost
  BY <1>1 DEF KeptInv, EmptyIsLost
<1>4. EmptyIsLost'
  BY <1>1, <1>2, <1>3 DEF EmptyIsLost
<1>5. CopyIsHeld' /\ HeldIsCopied'
  BY <1>1 DEF CopyIsHeld, HeldIsCopied
<1>6. RestIsLost'
  BY <1>1, <1>2 DEF KeptInv, RestIsLost
<1>7. ASSUME NEW y \in 1 .. typed' PROVE Kept(y)'
  <2>1. Kept(y)
    BY <1>1, <1>7 DEF KeptInv
  <2>2. IsCopied(y)' <=> IsCopied(y)
    BY <1>1 DEF IsCopied, Window
  <2>3. IsBuffered(y) => y \in forfeited
    <3>1. y # 0
      BY <1>1, CountTypes
    <3>2. QED
      BY <1>3, <3>1 DEF IsBuffered, Lost
  <2>4. QED
    BY <1>1, <2>1, <2>2, <2>3, SameReceived DEF Kept
<1>8. QED
  BY <1>4, <1>5, <1>6, <1>7 DEF KeptInv

LEMMA KeptReturn ==
  ASSUME TypeInv, KeptInv, read_return PROVE KeptInv'
<1>1. /\ UNCHANGED <<terminal_buffer, terminal_buf_count, typed, forfeited>>
      /\ pc = "finish" /\ pc' = "user"
  BY DEF read_return, buffer
<1>2. Lost' = Lost
  BY <1>1 DEF Lost
<1>3. EmptyIsLost'
  BY <1>1, <1>2 DEF KeptInv, EmptyIsLost
<1>4. CopyIsHeld' /\ HeldIsCopied' /\ RestIsLost'
  BY <1>1 DEF CopyIsHeld, HeldIsCopied, RestIsLost
<1>5. ASSUME NEW y \in 1 .. typed' PROVE Kept(y)'
  <2>1. Kept(y)
    BY <1>1, <1>5 DEF KeptInv
  <2>2. IsBuffered(y)' <=> IsBuffered(y)
    BY <1>1 DEF IsBuffered
  <2>3. CASE IsCopied(y)
    <3>1. PICK i \in Slots : str[i].id = y
      BY <2>3 DEF IsCopied
    <3>2. CASE i < n
      BY <3>1, <3>2, ReceivedGrows DEF Kept
    <3>3. CASE ~(i < n)
      <4>1. i >= n
        BY <3>3, CountTypes DEF Slots
      <4>2. y \in Lost
        BY <1>1, <3>1, <4>1 DEF KeptInv, RestIsLost
      <4>3. y # 0
        BY <1>1, CountTypes
      <4>4. QED
        BY <1>1, <4>2, <4>3 DEF Lost, Kept
    <3>4. QED
      BY <3>2, <3>3
  <2>4. QED
    BY <1>1, <2>1, <2>2, <2>3, ReceivedGrows DEF Kept
<1>6. QED
  BY <1>3, <1>4, <1>5 DEF KeptInv

\* What a key changes of the buffer: a character is put there, or the full
\* buffer is cleared instead, or the last character is erased.
PutsCharacter(c) ==
  /\ terminal_buf_count < MAX_BUFF
  /\ terminal_buffer' = [terminal_buffer EXCEPT ![terminal_buf_count] = c]
  /\ terminal_buf_count' = terminal_buf_count + 1
  /\ forfeited' = forfeited \cup IF pc \in Window THEN {typed + 1} ELSE {}
  /\ typed' = typed + 1 /\ c.id = typed + 1
  /\ UNCHANGED <<pc, str, n, got>>

ClearsFull ==
  /\ terminal_buf_count = MAX_BUFF
  /\ terminal_buffer' = [i \in Slots |-> Nul]
  /\ terminal_buf_count' = 0
  /\ forfeited' = forfeited \cup Buffered \cup {typed + 1}
  /\ typed' = typed + 1
  /\ UNCHANGED <<pc, str, n, got>>

Erases ==
  /\ terminal_buf_count > 0
  /\ terminal_buffer' = [terminal_buffer EXCEPT ![terminal_buf_count - 1] = Space]
  /\ terminal_buf_count' = terminal_buf_count - 1
  /\ forfeited' = forfeited \cup {terminal_buffer[terminal_buf_count - 1].id}
  /\ UNCHANGED <<pc, str, n, got, typed>>

ErasesNothing ==
  UNCHANGED <<terminal_buffer, terminal_buf_count, forfeited, pc, str, n, got, typed>>

LEMMA CharacterEffect ==
  ASSUME TypeInv, NEW c, terminal_get_char(c)
  PROVE  PutsCharacter(c) \/ ClearsFull
<1>1. /\ typed' = typed + 1 /\ c.id = typed + 1
      /\ UNCHANGED <<pc, str, n, got>>
  BY DEF terminal_get_char, result
<1>2. forfeited' = forfeited
        \cup (IF terminal_buf_count = MAX_BUFF THEN Buffered \cup {c.id}
              ELSE IF pc \in Window THEN {c.id} ELSE {})
  BY DEF terminal_get_char
<1>3. CASE put_in_buffer(c)
  <2>1. terminal_buf_count # MAX_BUFF
    BY <1>3, CountTypes DEF put_in_buffer
  <2>2. QED
    BY <1>1, <1>2, <1>3, <2>1 DEF put_in_buffer, PutsCharacter
<1>4. CASE clear_full
  <2>1. /\ terminal_buf_count = MAX_BUFF /\ terminal_buf_count' = 0
        /\ terminal_buffer' = [i \in Slots |-> Nul]
    BY <1>4 DEF clear_full, Slots
  <2>2. forfeited' = forfeited \cup Buffered \cup {typed + 1}
    BY <1>1, <1>2, <2>1
  <2>3. QED
    BY <1>1, <2>1, <2>2 DEF ClearsFull
<1>5. QED
  BY <1>3, <1>4 DEF terminal_get_char

LEMMA BackspaceEffect ==
  ASSUME TypeInv, key_backspace PROVE Erases \/ ErasesNothing
<1>1. CASE terminal_buf_count > 0
  BY <1>1 DEF key_backspace, Erases, erased_count, flags, result
<1>2. CASE ~(terminal_buf_count > 0)
  BY <1>2 DEF key_backspace, ErasesNothing, buffer, flags, result
<1>3. QED
  BY <1>1, <1>2

LEMMA KeptPut ==
  ASSUME TypeInv, KeptInv, NEW c, PutsCharacter(c) PROVE KeptInv'
<1> DEFINE count == terminal_buf_count
<1>1. /\ UNCHANGED <<pc, str, n, got>> /\ terminal_buf_count' = count + 1
      /\ typed' = typed + 1 /\ typed \in Nat /\ MAX_BUFF \in Nat
      /\ count \in Slots /\ count \in Nat
  BY CountTypes DEF PutsCharacter, Slots
<1>2. Lost \subseteq Lost' /\ (pc \in Window => typed + 1 \in Lost')
  BY DEF PutsCharacter, Lost
<1>3. /\ terminal_buffer'[count].id = typed + 1
      /\ \A i \in Slots : i # count => terminal_buffer'[i] = terminal_buffer[i]
  <2>1. terminal_buffer \in Buffers
    BY CountTypes
  <2>2. QED
    BY <1>1, <2>1 DEF PutsCharacter, Buffers, Slots
<1>4. EmptyIsLost'
  <2>1. ASSUME NEW i \in Slots, i >= count + 1 \/ pc = "reset"
        PROVE  terminal_buffer'[i].id \in Lost'
    <3>1. CASE i = count
      BY <1>1, <1>2, <1>3, <2>1, <3>1 DEF Window
    <3>2. CASE i # count
      <4>1. i >= count \/ pc = "reset"
        BY <1>1, <2>1 DEF Slots
      <4>2. terminal_buffer[i].id \in Lost
        BY <4>1 DEF KeptInv, EmptyIsLost
      <4>3. QED
        BY <1>2, <1>3, <3>2, <4>2
    <3>3. QED
      BY <3>1, <3>2
  <2>2. QED
    BY <1>1, <2>1 DEF EmptyIsLost
<1>5. CopyIsHeld'
  <2>1. ASSUME pc = "count", NEW i \in Slots, ~(str[i].id \in Lost')
        PROVE  i < count + 1 /\ str[i].id = terminal_buffer'[i].id
    <3>1. i < count /\ str[i].id = terminal_buffer[i].id
      BY <1>2, <2>1 DEF KeptInv, CopyIsHeld
    <3>2. i # count /\ i < count + 1
      BY <1>1, <3>1 DEF Slots
    <3>3. QED
      BY <1>3, <3>1, <3>2
  <2>2. QED
    BY <1>1, <2>1 DEF CopyIsHeld
<1>6. RestIsLost'
  BY <1>1, <1>2 DEF KeptInv, RestIsLost
<1>7. HeldIsCopied'
  <2>1. ASSUME pc \in {"count", "clear"}, NEW i \in Slots, i < count + 1
        PROVE  \/ terminal_buffer'[i].id \in Lost'
               \/ \E j \in Slots : str[j].id = terminal_buffer'[i].id
    <3>1. CASE i = count
      BY <1>2, <1>3, <2>1, <3>1 DEF Window
    <3>2. CASE i # count
      <4>1. i < count
        BY <1>1, <2>1, <3>2 DEF Slots
      <4>2. \/ terminal_buffer[i].id \in Lost
            \/ \E j \in Slots : str[j].id = terminal_buffer[i].id
        BY <2>1, <4>1 DEF KeptInv, HeldIsCopied
      <4>3. QED
        BY <1>2, <1>3, <3>2, <4>2
    <3>3. QED
      BY <3>1, <3>2
  <2>2. QED
    BY <1>1, <2>1 DEF HeldIsCopied
<1>8. ASSUME NEW y \in 1 .. typed' PROVE Kept(y)'
  <2>1. CASE y = typed + 1
    <3>1. IsBuffered(y)'
      BY <1>1, <1>3, <2>1 DEF IsBuffered, Slots
    <3>2. QED
      BY <3>1 DEF Kept
  <2>2. CASE y # typed + 1
    <3>1. y \in 1 .. typed
      BY <1>1, <1>8, <2>2
    <3>2. Kept(y)
      BY <3>1 DEF KeptInv
    <3>3. IsCopied(y)' <=> IsCopied(y)
      BY <1>1 DEF IsCopied
    <3>4. ASSUME IsBuffered(y) PROVE IsBuffered(y)'
      <4>1. PICK i \in Slots : i < count /\ terminal_buffer[i].id = y
        BY <3>4 DEF IsBuffered
      <4>2. i < count + 1 /\ terminal_buffer'[i].id = y
        BY <1>1, <1>3, <4>1 DEF Slots
      <4>3. QED
        BY <1>1, <4>2 DEF IsBuffered
    <3>5. y \in forfeited => y \in forfeited'
      BY DEF PutsCharacter
    <3>6. QED
      BY <1>1, <3>2, <3>3, <3>4, <3>5, SameReceived DEF Kept
  <2>3. QED
    BY <2>1, <2>2
<1>9. QED
  BY <1>4, <1>5, <1>6, <1>7, <1>8 DEF KeptInv

LEMMA KeptFull ==
  ASSUME TypeInv, KeptInv, ClearsFull PROVE KeptInv'
<1> DEFINE count == terminal_buf_count
<1>1. /\ UNCHANGED <<pc, str, n, got>> /\ terminal_buf_count' = 0
      /\ typed' = typed + 1 /\ typed \in Nat /\ MAX_BUFF \in Nat
  BY CountTypes DEF ClearsFull
<1>2. Lost \subseteq Lost' /\ typed + 1 \in forfeited' /\ forfeited \subseteq forfeited'
  BY DEF ClearsFull, Lost
<1>3. \A i \in Slots : terminal_buffer'[i].id = 0 /\ 0 \in Lost'
  BY DEF ClearsFull, Nul, Lost
<1>4. ASSUME NEW i \in Slots PROVE terminal_buffer[i].id \in Lost'
  <2>1. i \in 0 .. terminal_buf_count - 1
    BY DEF ClearsFull, Slots
  <2>2. QED
    BY <2>1 DEF ClearsFull, Buffered, Lost
<1>5. EmptyIsLost'
  BY <1>3 DEF EmptyIsLost
<1>6. CopyIsHeld'
  <2>1. ASSUME pc = "count", NEW i \in Slots PROVE str[i].id \in Lost'
    BY <1>2, <1>4, <2>1 DEF KeptInv, CopyIsHeld
  <2>2. QED
    BY <1>1, <2>1 DEF CopyIsHeld
<1>7. RestIsLost'
  BY <1>1, <1>2 DEF KeptInv, RestIsLost
<1>8. HeldIsCopied'
  BY <1>3 DEF HeldIsCopied
<1>9. ASSUME NEW y \in 1 .. typed' PROVE Kept(y)'
  <2>1. CASE y = typed + 1
    BY <1>2, <2>1 DEF Kept
  <2>2. CASE y # typed + 1
    <3>1. y \in 1 .. typed
      BY <1>1, <1>9, <2>2
    <3>2. Kept(y) /\ y # 0
      BY <3>1 DEF KeptInv
    <3>3. IsCopied(y)' <=> IsCopied(y)
      BY <1>1 DEF IsCopied
    <3>4. IsBuffered(y) => y \in forfeited'
      BY <1>4, <3>2 DEF IsBuffered, Lost
    <3>5. QED
      BY <1>1, <1>2, <3>2, <3>3, <3>4, SameReceived DEF Kept
  <2>3. QED
    BY <2>1, <2>2
<1>10. QED
  BY <1>5, <1>6, <1>7, <1>8, <1>9 DEF KeptInv

LEMMA KeptErase ==
  ASSUME TypeInv, KeptInv, Erases PROVE KeptInv'
<1> DEFINE last == terminal_buf_count - 1
<1>1. /\ UNCHANGED <<pc, str, n, got, typed>> /\ terminal_buf_count' = last
      /\ typed \in Nat /\ MAX_BUFF \in Nat
      /\ last \in Slots /\ terminal_buf_count = last + 1 /\ last \in Nat
  BY CountTypes DEF Erases, Slots
<1>2. Lost \subseteq Lost' /\ forfeited \subseteq forfeited'
      /\ terminal_buffer[last].id \in forfeited' /\ forfeited' \subseteq Lost'
  BY DEF Erases, Lost
<1>3. /\ terminal_buffer'[last].id = 0 /\ 0 \in Lost'
      /\ \A i \in Slots : i # last => terminal_buffer'[i] = terminal_buffer[i]
  <2>1. terminal_buffer \in Buffers
    BY CountTypes
  <2>2. QED
    BY <1>1, <2>1 DEF Erases, Buffers, Slots, Space, Lost
<1> HIDE DEF last
<1>4. EmptyIsLost'
  <2>1. ASSUME NEW i \in Slots, i >= last \/ pc = "reset"
        PROVE  terminal_buffer'[i].id \in Lost'
    <3>1. CASE i = last
      BY <1>3, <3>1
    <3>2. CASE i # last
      <4>1. i >= last + 1 \/ pc = "reset"
        BY <1>1, <2>1, <3>2 DEF Slots
      <4>2. terminal_buffer[i].id \in Lost
        BY <1>1, <4>1 DEF KeptInv, EmptyIsLost
      <4>3. QED
        BY <1>2, <1>3, <3>2, <4>2
    <3>3. QED
      BY <3>1, <3>2
  <2>2. QED
    BY <1>1, <2>1 DEF EmptyIsLost
<1>5. CopyIsHeld'
  <2>1. ASSUME pc = "count", NEW i \in Slots, ~(str[i].id \in Lost')
        PROVE  i < last /\ str[i].id = terminal_buffer'[i].id
    <3>1. i < last + 1 /\ str[i].id = terminal_buffer[i].id
      BY <1>1, <1>2, <2>1 DEF KeptInv, CopyIsHeld
    <3>2. i # last
      BY <1>2, <2>1, <3>1
    <3>3. i < last
      BY <1>1, <3>1, <3>2 DEF Slots
    <3>4. QED
      BY <1>3, <3>1, <3>2, <3>3
  <2>2. QED
    BY <1>1, <2>1 DEF CopyIsHeld
<1>6. RestIsLost'
  BY <1>1, <1>2 DEF KeptInv, RestIsLost
<1>7. HeldIsCopied'
  <2>1. ASSUME pc \in {"count", "clear"}, NEW i \in Slots, i < last
        PROVE  \/ terminal_buffer'[i].id \in Lost'
               \/ \E j \in Slots : str[j].id = terminal_buffer'[i].id
    <3>1. i # last /\ i < last + 1
      BY <1>1, <2>1 DEF Slots
    <3>2. \/ terminal_buffer[i].id \in Lost
          \/ \E j \in Slots : str[j].id = terminal_buffer[i].id
      BY <1>1, <2>1, <3>1 DEF KeptInv, HeldIsCopied
    <3>3. QED
      BY <1>2, <1>3, <3>1, <3>2
  <2>2. QED
    BY <1>1, <2>1 DEF HeldIsCopied
<1>8. ASSUME NEW y \in 1 .. typed' PROVE Kept(y)'
  <2>1. Kept(y)
    BY <1>1, <1>8 DEF KeptInv
  <2>2. IsCopied(y)' <=> IsCopied(y)
    BY <1>1 DEF IsCopied
  <2>3. ASSUME IsBuffered(y) PROVE Kept(y)'
    <3>1. PICK i \in Slots : i < last + 1 /\ terminal_buffer[i].id = y
      BY <1>1, <2>3 DEF IsBuffered
    <3>2. CASE i = last
      BY <1>2, <3>1, <3>2 DEF Kept
    <3>3. CASE i # last
      <4>1. i < last
        BY <1>1, <3>1, <3>3 DEF Slots
      <4>2. terminal_buffer'[i].id = y
        BY <1>3, <3>1, <3>3
      <4>3. IsBuffered(y)'
        BY <1>1, <4>1, <4>2 DEF IsBuffered
      <4>4. QED
        BY <4>3 DEF Kept
    <3>4. QED
      BY <3>2, <3>3
  <2>4. QED
    BY <1>1, <1>2, <2>1, <2>2, <2>3, SameReceived DEF Kept
<1>9. QED
  BY <1>4, <1>5, <1>6, <1>7, <1>8 DEF KeptInv

\* Nothing that these invariants speak of changes.
LEMMA KeptSame ==
  ASSUME KeptInv,
         UNCHANGED <<terminal_buffer, terminal_buf_count, forfeited, pc, str, n, got,
                     typed>>
  PROVE  KeptInv'
<1>1. Lost' = Lost
  BY DEF Lost
<1>2. EmptyIsLost' /\ CopyIsHeld' /\ RestIsLost' /\ HeldIsCopied'
  BY <1>1 DEF KeptInv, EmptyIsLost, CopyIsHeld, RestIsLost, HeldIsCopied
<1>3. ASSUME NEW y \in 1 .. typed' PROVE Kept(y)'
  <2>1. Kept(y)
    BY <1>3 DEF KeptInv
  <2>2. (IsCopied(y)' <=> IsCopied(y)) /\ (IsBuffered(y)' <=> IsBuffered(y))
    BY DEF IsCopied, IsBuffered
  <2>3. QED
    BY <2>1, <2>2, SameReceived DEF Kept
<1>4. QED
  BY <1>2, <1>3 DEF KeptInv

LEMMA KeptStep ==
  ASSUME TypeInv, KeptInv, [Next]_vars PROVE KeptInv'
<1>1. CASE UNCHANGED vars
  BY <1>1, KeptSame DEF vars
<1>2. CASE Quiet
  BY <1>2, KeptQuiet
<1>3. CASE read_copy \/ read_count \/ read_clear \/ read_reset \/ read_return
  BY <1>3, KeptCopy, KeptCount, KeptClear, KeptReset, KeptReturn
<1>4. ASSUME NEW c, terminal_get_char(c) PROVE KeptInv'
  BY <1>4, CharacterEffect, KeptPut, KeptFull
<1>5. CASE key_character \/ key_enter
  BY <1>4, <1>5 DEF key_character, key_enter
<1>6. CASE key_backspace
  BY <1>6, BackspaceEffect, KeptErase, KeptSame DEF ErasesNothing
<1>7. QED
  BY <1>1, <1>2, <1>3, <1>5, <1>6 DEF Next, read_goes_on, Quiet

LEMMA KeptInvariant == Spec => []KeptInv
<1>1. Init => KeptInv
  BY KeptInit
<1>2. TypeInv /\ KeptInv /\ [Next]_vars => KeptInv'
  BY KeptStep
<1>3. QED
  BY <1>1, <1>2, TypeInvariant, PTL DEF Spec

\* Whenever the interrupt comes between the instructions of terminal_read, a
\* character that was typed is with a program, on its way to one or still in
\* the buffer, unless backspace, a full buffer or the last instructions of a
\* read took it.
THEOREM TypedStaysKept == Spec => []TypedIsKept
<1>1. TypeInv /\ KeptInv => TypedIsKept
  BY KeptIsKept DEF KeptInv
<1>2. QED
  BY <1>1, TypeInvariant, KeptInvariant, PTL
-----------------------------------------------------------------------------
(* Characters arrive in order.                                             *)

\* The first k characters of s were typed in this order, and after all that
\* programs received.
Rising(s, k) ==
  /\ \A i \in Slots : i < k => /\ s[i].id \in 1 .. typed
                               /\ \A y : HasReceived(y) => y < s[i].id
  /\ \A i, j \in Slots : i < j /\ j < k => s[i].id < s[j].id

ReceivedRising ==
  /\ \A y : HasReceived(y) => y \in 1 .. typed
  /\ \A i, j \in DOMAIN Received : i < j => Received[i].id < Received[j].id

CopiedRising ==
  /\ Rising(str, n)
  /\ pc = "finish" =>
       \A i, j \in Slots :
         i < n /\ j < terminal_buf_count => str[i].id < terminal_buffer[j].id

\* Unless a key came in the window of a read, the buffer is what was copied
\* until it is cleared.
OrderInv ==
  ~late =>
    /\ ReceivedRising
    /\ pc # "reset" => Rising(terminal_buffer, terminal_buf_count)
    /\ pc \in {"count", "clear"} => str = terminal_buffer
    /\ pc = "clear" => n = terminal_buf_count
    /\ pc \in {"reset", "finish"} => CopiedRising

LEMMA OrderIsInOrder ==
  ASSUME TypeInv, OrderInv PROVE InOrder
<1> SUFFICES ASSUME ~late, NEW i \in DOMAIN Received, NEW j \in DOMAIN Received
             PROVE  /\ Received[i].id # 0
                    /\ i < j => Received[i].id < Received[j].id
  BY DEF InOrder
<1>1. ReceivedRising
  BY DEF OrderInv
<1>2. HasReceived(Received[i].id)
  BY DEF HasReceived
<1>3. QED
  BY <1>1, <1>2, CountTypes DEF ReceivedRising

LEMMA OrderInit ==
  ASSUME Init PROVE OrderInv
<1>1. typed = 0 /\ pc = "user" /\ terminal_buf_count = 0 /\ got = <<>>
  BY DEF Init
<1>2. Received = <<>>
  BY <1>1 DEF Received, FlattenSeq
<1>3. ReceivedRising
  BY <1>2 DEF ReceivedRising, HasReceived
<1>4. Rising(terminal_buffer, terminal_buf_count)
  BY <1>1, TerminalAssumption DEF Rising, Slots
<1>5. QED
  BY <1>1, <1>3, <1>4 DEF OrderInv

\* What does not change.
LEMMA RisingSame ==
  ASSUME got' = got, typed' = typed
  PROVE  /\ ReceivedRising => ReceivedRising'
         /\ UNCHANGED <<terminal_buffer, terminal_buf_count>> =>
              (Rising(terminal_buffer, terminal_buf_count)
                 => Rising(terminal_buffer, terminal_buf_count)')
         /\ UNCHANGED <<str, n>> => (Rising(str, n) => Rising(str, n)')
<1>1. ReceivedRising => ReceivedRising'
  BY SameReceived DEF ReceivedRising, Received
<1>2. UNCHANGED <<terminal_buffer, terminal_buf_count>> =>
              (Rising(terminal_buffer, terminal_buf_count)
                 => Rising(terminal_buffer, terminal_buf_count)')
  BY SameReceived DEF Rising
<1>3. UNCHANGED <<str, n>> => (Rising(str, n) => Rising(str, n)')
  BY SameReceived DEF Rising
<1>4. QED
  BY <1>1, <1>2, <1>3

LEMMA OrderQuiet ==
  ASSUME OrderInv, Quiet PROVE OrderInv'
<1>1. /\ UNCHANGED <<terminal_buffer, terminal_buf_count, typed, got, late>>
      /\ pc \in {"user", "spin"} \cup Cursor
      /\ pc' \in {"user", "spin", "copy"} \cup Cursor
  BY QuietStep
<1>2. QED
  BY <1>1, RisingSame, CursorIs DEF OrderInv

LEMMA OrderCopy ==
  ASSUME OrderInv, read_copy \/ read_count PROVE OrderInv'
<1>1. UNCHANGED <<terminal_buffer, terminal_buf_count, typed, got, late>>
  BY DEF read_copy, read_count, buffer, history
<1>2. CASE read_copy
  BY <1>1, <1>2, RisingSame DEF OrderInv, read_copy
<1>3. CASE read_count
  BY <1>1, <1>3, RisingSame DEF OrderInv, read_count
<1>4. QED
  BY <1>2, <1>3

LEMMA OrderClear ==
  ASSUME OrderInv, read_clear PROVE OrderInv'
<1>1. /\ UNCHANGED <<str, n, typed, got, late>> /\ pc = "clear" /\ pc' = "reset"
  BY DEF read_clear, result, history
<1>2. SUFFICES ASSUME ~late PROVE ReceivedRising' /\ CopiedRising'
  BY <1>1 DEF OrderInv
<1>3. Rising(str, n) /\ ReceivedRising
  BY <1>1, <1>2 DEF OrderInv
<1>4. Rising(str, n)' /\ ReceivedRising'
  BY <1>1, <1>3, RisingSame
<1>5. QED
  BY <1>1, <1>4 DEF CopiedRising

LEMMA OrderReset ==
  ASSUME TypeInv, OrderInv, read_reset PROVE OrderInv'
<1>1. /\ UNCHANGED <<str, n, typed, got, late>> /\ pc = "reset" /\ pc' = "finish"
      /\ terminal_buf_count' = 0
  BY DEF read_reset, count_after_read, result, history
<1>2. SUFFICES ASSUME ~late
               PROVE  /\ ReceivedRising' /\ CopiedRising'
                      /\ Rising(terminal_buffer, terminal_buf_count)'
  BY <1>1 DEF OrderInv
<1>3. Rising(str, n) /\ ReceivedRising
  BY <1>1, <1>2 DEF OrderInv, CopiedRising
<1>4. Rising(str, n)' /\ ReceivedRising'
  BY <1>1, <1>3, RisingSame
<1>5. \A i \in Slots : ~(i < terminal_buf_count')
  BY <1>1 DEF Slots
<1>6. Rising(terminal_buffer, terminal_buf_count)'
  BY <1>5 DEF Rising
<1>7. CopiedRising'
  BY <1>4, <1>5 DEF CopiedRising
<1>8. QED
  BY <1>4, <1>6, <1>7

LEMMA OrderReturn ==
  ASSUME TypeInv, OrderInv, read_return PROVE OrderInv'
<1>1. /\ UNCHANGED <<terminal_buffer, terminal_buf_count, typed, late>>
      /\ pc = "finish" /\ pc' = "user"
  BY DEF read_return, buffer
<1>2. SUFFICES ASSUME ~late
               PROVE  /\ ReceivedRising'
                      /\ Rising(terminal_buffer, terminal_buf_count)'
  BY <1>1 DEF OrderInv
<1>3. ReceivedRising /\ CopiedRising /\ Rising(terminal_buffer, terminal_buf_count)
  BY <1>1, <1>2 DEF OrderInv
<1>4. n \in Nat /\ MAX_BUFF \in Nat /\ n <= MAX_BUFF /\ typed \in Nat
  BY CountTypes
<1> DEFINE l == Len(Received)
<1>5. /\ l \in Nat /\ DOMAIN Received = 1 .. l /\ DOMAIN Received' = 1 .. l + n
      /\ \A i \in 1 .. l : Received'[i] = Received[i]
      /\ \A k \in Slots : k < n => Received'[l + k + 1] = str[k]
  BY ReceivedParts
<1> HIDE DEF l
<1>6. ASSUME NEW i \in DOMAIN Received'
      PROVE  \/ i \in DOMAIN Received /\ Received'[i] = Received[i]
             \/ \E k \in Slots : k < n /\ i = l + k + 1 /\ Received'[i] = str[k]
  <2>1. CASE i <= l
    BY <1>4, <1>5, <2>1
  <2>2. CASE ~(i <= l)
    <3>1. PICK k \in Slots : k < n /\ i = l + k + 1
      <4>1. i - l - 1 \in Slots /\ i - l - 1 < n /\ i = l + (i - l - 1) + 1
        BY <1>4, <1>5, <2>2 DEF Slots
      <4>2. QED
        BY <4>1
    <3>2. QED
      BY <1>5, <3>1
  <2>3. QED
    BY <2>1, <2>2
<1>7. \A i \in DOMAIN Received : HasReceived(Received[i].id)
  BY DEF HasReceived
<1>8. ASSUME NEW y, HasReceived(y)'
      PROVE  HasReceived(y) \/ \E k \in Slots : k < n /\ str[k].id = y
  <2>1. PICK i \in DOMAIN Received' : Received'[i].id = y
    BY <1>8 DEF HasReceived
  <2>2. CASE i \in DOMAIN Received /\ Received'[i] = Received[i]
    BY <2>1, <2>2 DEF HasReceived
  <2>3. CASE \E k \in Slots : k < n /\ i = l + k + 1 /\ Received'[i] = str[k]
    BY <2>1, <2>3
  <2>4. QED
    BY <1>6, <2>2, <2>3
<1>9. \A y : HasReceived(y)' => y \in 1 .. typed'
  BY <1>1, <1>3, <1>8 DEF ReceivedRising, CopiedRising, Rising
<1>10. ASSUME NEW i \in DOMAIN Received', NEW j \in DOMAIN Received', i < j
       PROVE  Received'[i].id < Received'[j].id
  <2>1. CASE j \in DOMAIN Received /\ Received'[j] = Received[j]
    <3>1. i \in 1 .. l
      BY <1>4, <1>5, <1>10, <2>1
    <3>2. QED
      BY <1>3, <1>5, <1>10, <2>1, <3>1 DEF ReceivedRising
  <2>2. ASSUME NEW k \in Slots, k < n, j = l + k + 1, Received'[j] = str[k]
        PROVE  Received'[i].id < Received'[j].id
    <3>1. CASE i \in DOMAIN Received /\ Received'[i] = Received[i]
      <4>1. HasReceived(Received[i].id)
        BY <1>7, <3>1
      <4>2. QED
        BY <1>3, <2>2, <3>1, <4>1 DEF CopiedRising, Rising
    <3>2. ASSUME NEW m \in Slots, m < n, i = l + m + 1, Received'[i] = str[m]
          PROVE  Received'[i].id < Received'[j].id
      <4>1. m < k
        BY <1>5, <1>10, <2>2, <3>2 DEF Slots
      <4>2. QED
        BY <1>3, <2>2, <3>2, <4>1 DEF CopiedRising, Rising
    <3>3. QED
      BY <1>6, <3>1, <3>2
  <2>3. QED
    BY <1>6, <2>1, <2>2
<1>11. ReceivedRising'
  BY <1>9, <1>10 DEF ReceivedRising
<1>12. Rising(terminal_buffer, terminal_buf_count)'
  <2>1. ASSUME NEW i \in Slots, i < terminal_buf_count, NEW y, HasReceived(y)'
        PROVE  y < terminal_buffer[i].id
    <3>1. CASE HasReceived(y)
      BY <1>3, <2>1, <3>1 DEF Rising
    <3>2. CASE \E k \in Slots : k < n /\ str[k].id = y
      BY <1>1, <1>3, <2>1, <3>2 DEF CopiedRising
    <3>3. QED
      BY <1>8, <2>1, <3>1, <3>2
  <2>2. \A i \in Slots : i < terminal_buf_count => terminal_buffer[i].id \in 1 .. typed
    BY <1>3 DEF Rising
  <2>3. \A i, j \in Slots :
          i < j /\ j < terminal_buf_count => terminal_buffer[i].id < terminal_buffer[j].id
    BY <1>3 DEF Rising
  <2>4. QED
    BY <1>1, <2>1, <2>2, <2>3 DEF Rising
<1>13. QED
  BY <1>11, <1>12

LEMMA KeyIsLate ==
  ASSUME key_character \/ key_enter \/ key_backspace
  PROVE  late' = (late \/ pc \in Window)
BY Zenon DEF key_character, key_enter, key_backspace, follow

LEMMA OrderPut ==
  ASSUME TypeInv, OrderInv, NEW c, PutsCharacter(c), late' = (late \/ pc \in Window)
  PROVE  OrderInv'
<1> SUFFICES ASSUME ~late' PROVE OrderInv'
  BY DEF OrderInv
<1> DEFINE count == terminal_buf_count
<1>1. ~late /\ pc \notin Window
  OBVIOUS
<1>2. /\ UNCHANGED <<pc, str, n, got>> /\ terminal_buf_count' = count + 1
      /\ typed' = typed + 1 /\ typed \in Nat /\ MAX_BUFF \in Nat
      /\ count \in Slots /\ count \in Nat
  BY CountTypes DEF PutsCharacter, Slots
<1>3. /\ terminal_buffer'[count].id = typed + 1
      /\ \A i \in Slots : i # count => terminal_buffer'[i] = terminal_buffer[i]
  <2>1. terminal_buffer \in Buffers
    BY CountTypes
  <2>2. QED
    BY <1>2, <2>1 DEF PutsCharacter, Buffers, Slots
<1>4. ReceivedRising /\ Rising(terminal_buffer, count)
  BY <1>1 DEF OrderInv, Window
<1>5. \A y : HasReceived(y)' <=> HasReceived(y)
  BY <1>2, SameReceived
<1>6. \A y : HasReceived(y) => y \in 1 .. typed
  BY <1>4 DEF ReceivedRising
<1> HIDE DEF count
<1>7. \A i \in Slots : i < count + 1 => i = count \/ (i # count /\ i < count)
  BY <1>2 DEF Slots
<1>8. Rising(terminal_buffer, terminal_buf_count)'
  <2>1. ASSUME NEW i \in Slots, i < count + 1
        PROVE  /\ terminal_buffer'[i].id \in 1 .. typed + 1
               /\ \A y : HasReceived(y)' => y < terminal_buffer'[i].id
    <3>1. CASE i = count
      BY <1>2, <1>3, <1>5, <1>6, <3>1
    <3>2. CASE i # count /\ i < count
      <4>1. /\ terminal_buffer[i].id \in 1 .. typed
            /\ \A y : HasReceived(y) => y < terminal_buffer[i].id
        BY <1>4, <3>2 DEF Rising, count
      <4>2. QED
        BY <1>2, <1>3, <1>5, <3>2, <4>1
    <3>3. QED
      BY <1>7, <2>1, <3>1, <3>2
  <2>2. ASSUME NEW i \in Slots, NEW j \in Slots, i < j, j < count + 1
        PROVE  terminal_buffer'[i].id < terminal_buffer'[j].id
    <3>1. i # count /\ i < count
      BY <1>2, <2>2 DEF Slots
    <3>2. terminal_buffer[i].id \in 1 .. typed
      BY <1>4, <3>1 DEF Rising, count
    <3>3. CASE j = count
      <4>1. terminal_buffer'[i] = terminal_buffer[i]
        BY <1>3, <3>1
      <4>2. terminal_buffer'[j].id = typed + 1
        BY <1>3, <3>3
      <4>3. QED
        BY <1>2, <3>2, <4>1, <4>2
    <3>4. CASE j # count /\ j < count
      <4>1. terminal_buffer[i].id < terminal_buffer[j].id
        BY <1>4, <2>2, <3>4 DEF Rising, count
      <4>2. QED
        BY <1>3, <3>1, <3>4, <4>1
    <3>5. QED
      BY <1>7, <2>2, <3>3, <3>4
  <2>3. QED
    BY <1>2, <2>1, <2>2 DEF Rising
<1>9. ReceivedRising'
  <2>1. Received' = Received
    BY <1>2 DEF Received
  <2>2. QED
    BY <1>2, <1>4, <1>5, <2>1 DEF ReceivedRising
<1>10. ASSUME pc = "finish" PROVE CopiedRising'
  <2>1. CopiedRising
    BY <1>1, <1>10 DEF OrderInv
  <2>2. Rising(str, n)'
    <3>1. \A i \in Slots : i < n => str[i].id \in 1 .. typed + 1
      <4>1. \A i \in Slots : i < n => str[i].id \in 1 .. typed
        BY <2>1 DEF CopiedRising, Rising
      <4>2. QED
        BY <1>2, <4>1
    <3>2. \A i \in Slots : i < n => \A y : HasReceived(y)' => y < str[i].id
      BY <1>5, <2>1 DEF CopiedRising, Rising
    <3>3. \A i, j \in Slots : i < j /\ j < n => str[i].id < str[j].id
      BY <2>1 DEF CopiedRising, Rising
    <3>4. QED
      BY <1>2, <3>1, <3>2, <3>3 DEF Rising
  <2>3. ASSUME NEW i \in Slots, NEW j \in Slots, i < n, j < count + 1
        PROVE  str[i].id < terminal_buffer'[j].id
    <3>1. CASE j = count
      BY <1>2, <1>3, <2>1, <2>3, <3>1 DEF CopiedRising, Rising
    <3>2. CASE j # count /\ j < count
      BY <1>3, <1>10, <2>1, <2>3, <3>2 DEF CopiedRising, count
    <3>3. QED
      BY <1>7, <2>3, <3>1, <3>2
  <2>4. QED
    BY <1>2, <2>2, <2>3 DEF CopiedRising
<1>11. QED
  BY <1>1, <1>2, <1>8, <1>9, <1>10 DEF OrderInv, Window

LEMMA OrderFull ==
  ASSUME TypeInv, OrderInv, ClearsFull, late' = (late \/ pc \in Window)
  PROVE  OrderInv'
<1> SUFFICES ASSUME ~late' PROVE OrderInv'
  BY DEF OrderInv
<1>1. ~late /\ pc \notin Window
  OBVIOUS
<1>2. /\ UNCHANGED <<pc, str, n, got>> /\ terminal_buf_count' = 0
      /\ typed' = typed + 1 /\ typed \in Nat
  BY CountTypes DEF ClearsFull
<1>3. \A y : HasReceived(y)' <=> HasReceived(y)
  BY <1>2, SameReceived
<1>4. \A i \in Slots : ~(i < terminal_buf_count')
  BY <1>2 DEF Slots
<1>5. Rising(terminal_buffer, terminal_buf_count)'
  BY <1>4 DEF Rising
<1>6. ReceivedRising'
  <2>1. Received' = Received
    BY <1>2 DEF Received
  <2>2. ReceivedRising
    BY <1>1 DEF OrderInv
  <2>3. QED
    BY <1>2, <1>3, <2>1, <2>2 DEF ReceivedRising
<1>7. ASSUME pc = "finish" PROVE CopiedRising'
  <2>1. CopiedRising
    BY <1>1, <1>7 DEF OrderInv
  <2>2. \A i \in Slots : i < n => str[i].id \in 1 .. typed + 1
    BY <1>2, <2>1 DEF CopiedRising, Rising
  <2>3. Rising(str, n)'
    BY <1>2, <1>3, <2>1, <2>2 DEF CopiedRising, Rising
  <2>4. QED
    BY <1>4, <2>3 DEF CopiedRising
<1>8. QED
  BY <1>1, <1>2, <1>5, <1>6, <1>7 DEF OrderInv, Window

LEMMA OrderErase ==
  ASSUME TypeInv, OrderInv, Erases, late' = (late \/ pc \in Window)
  PROVE  OrderInv'
<1> SUFFICES ASSUME ~late' PROVE OrderInv'
  BY DEF OrderInv
<1> DEFINE last == terminal_buf_count - 1
<1>1. ~late /\ pc \notin Window
  OBVIOUS
<1>2. /\ UNCHANGED <<pc, str, n, got, typed>> /\ terminal_buf_count' = last
      /\ MAX_BUFF \in Nat
      /\ last \in Slots /\ terminal_buf_count = last + 1 /\ last \in Nat
  BY CountTypes DEF Erases, Slots
<1>3. \A i \in Slots : i # last => terminal_buffer'[i] = terminal_buffer[i]
  <2>1. terminal_buffer \in Buffers
    BY CountTypes
  <2>2. QED
    BY <1>2, <2>1 DEF Erases, Buffers, Slots
<1> HIDE DEF last
<1>4. \A i \in Slots : i < last => i < terminal_buf_count /\ i # last
  BY <1>2 DEF Slots
<1>5. Rising(terminal_buffer, terminal_buf_count) /\ ReceivedRising
  BY <1>1 DEF OrderInv, Window
<1>6. \A y : HasReceived(y)' <=> HasReceived(y)
  BY <1>2, SameReceived
<1>7. Rising(terminal_buffer, terminal_buf_count)'
  <2>1. ASSUME NEW i \in Slots, i < last
        PROVE  /\ terminal_buffer'[i].id \in 1 .. typed
               /\ \A y : HasReceived(y)' => y < terminal_buffer'[i].id
    BY <1>3, <1>4, <1>5, <1>6, <2>1 DEF Rising
  <2>2. ASSUME NEW i \in Slots, NEW j \in Slots, i < j, j < last
        PROVE  terminal_buffer'[i].id < terminal_buffer'[j].id
    <3>1. i < last
      BY <1>2, <2>2 DEF Slots
    <3>2. QED
      BY <1>3, <1>4, <1>5, <2>2, <3>1 DEF Rising
  <2>3. QED
    BY <1>2, <2>1, <2>2 DEF Rising
<1>8. ReceivedRising'
  BY <1>2, <1>5, RisingSame
<1>9. ASSUME pc = "finish" PROVE CopiedRising'
  <2>1. CopiedRising
    BY <1>1, <1>9 DEF OrderInv
  <2>2. Rising(str, n)'
    BY <1>2, <2>1, RisingSame DEF CopiedRising
  <2>3. ASSUME NEW i \in Slots, NEW j \in Slots, i < n, j < last
        PROVE  str[i].id < terminal_buffer'[j].id
    BY <1>3, <1>4, <1>9, <2>1, <2>3 DEF CopiedRising
  <2>4. QED
    BY <1>2, <2>2, <2>3 DEF CopiedRising
<1>10. QED
  BY <1>1, <1>2, <1>7, <1>8, <1>9 DEF OrderInv, Window

LEMMA OrderStep ==
  ASSUME TypeInv, OrderInv, [Next]_vars PROVE OrderInv'
<1>1. ASSUME UNCHANGED <<terminal_buffer, terminal_buf_count, pc, str, n, got, typed>>,
             late' = late \/ late' = (late \/ pc \in Window)
      PROVE  OrderInv'
  <2>1. late => late'
    BY <1>1
  <2>2. CASE ~late
    <3>1. CopiedRising => CopiedRising'
      BY <1>1, RisingSame DEF CopiedRising
    <3>2. QED
      BY <1>1, <2>2, <3>1, RisingSame DEF OrderInv
  <2>3. QED
    BY <2>1, <2>2 DEF OrderInv
<1>2. CASE UNCHANGED vars
  BY <1>1, <1>2 DEF vars
<1>3. CASE Quiet
  BY <1>3, OrderQuiet
<1>4. CASE read_copy \/ read_count \/ read_clear \/ read_reset \/ read_return
  BY <1>4, OrderCopy, OrderClear, OrderReset, OrderReturn
<1>5. ASSUME NEW c, terminal_get_char(c), late' = (late \/ pc \in Window)
      PROVE  OrderInv'
  BY <1>5, CharacterEffect, OrderPut, OrderFull
<1>6. CASE key_character \/ key_enter
  BY <1>5, <1>6, KeyIsLate DEF key_character, key_enter
<1>7. CASE key_backspace
  BY <1>1, <1>7, KeyIsLate, BackspaceEffect, OrderErase DEF ErasesNothing
<1>8. QED
  BY <1>2, <1>3, <1>4, <1>6, <1>7 DEF Next, read_goes_on, Quiet

LEMMA OrderInvariant == Spec => []OrderInv
<1>1. Init => OrderInv
  BY OrderInit
<1>2. TypeInv /\ OrderInv /\ [Next]_vars => OrderInv'
  BY OrderStep
<1>3. QED
  BY <1>1, <1>2, TypeInvariant, PTL DEF Spec

\* Programs get each character once and in the order in which it was typed,
\* over all reads and whatever the user erases, unless a key came between the
\* memcpy and the reset of a terminal_read.
THEOREM ArrivesInOrder == Spec => []InOrder
<1>1. TypeInv /\ OrderInv => InOrder
  BY OrderIsInOrder
<1>2. QED
  BY <1>1, TypeInvariant, OrderInvariant, PTL
-----------------------------------------------------------------------------
(* Lines arrive.                                                           *)

\* While the user is careful, the buffer and what a read copied of it are the
\* line that is typed, or was ended.
LinesInv ==
  careful =>
    /\ pc \in {"user"} \cup Cursor =>
         terminal_buf_count = 0 /\ line = <<>> /\ got = lines
    /\ pc \in Cursor => press_over = 0
    /\ pc = "spin" /\ press_over = 0 =>
         /\ Len(line) < MAX_BUFF
         /\ line = Chunk(terminal_buffer, terminal_buf_count)
         /\ got = lines
    /\ (pc = "spin" /\ press_over # 0) \/ pc \in {"copy", "count", "clear"} =>
         line = <<>> /\ lines = Append(got, Chunk(terminal_buffer, terminal_buf_count))
    /\ pc \in {"count", "clear"} => str = terminal_buffer
    /\ pc = "clear" => n = terminal_buf_count
    /\ pc \in {"reset", "finish"} => line = <<>> /\ lines = Append(got, Chunk(str, n))
    /\ pc = "finish" => terminal_buf_count = 0

LEMMA LinesInit ==
  ASSUME Init PROVE LinesInv
BY DEF Init, LinesInv

LEMMA ChunkType ==
  ASSUME TypeInv
  PROVE  /\ Chunk(terminal_buffer, terminal_buf_count) \in Seq(Char)
         /\ Len(Chunk(terminal_buffer, terminal_buf_count)) = terminal_buf_count
<1>1. terminal_buf_count \in 0 .. MAX_BUFF /\ terminal_buffer \in Buffers
  BY CountTypes
<1>2. Chunk(terminal_buffer, terminal_buf_count) \in Seq(Char)
  BY <1>1, HandedType DEF Chunk
<1>3. Len(Chunk(terminal_buffer, terminal_buf_count)) = terminal_buf_count
  BY CountTypes DEF Chunk
<1>4. QED
  BY <1>2, <1>3

LEMMA ChunkPut ==
  ASSUME TypeInv, NEW c \in Char, PutsCharacter(c)
  PROVE  Chunk(terminal_buffer, terminal_buf_count)'
           = Append(Chunk(terminal_buffer, terminal_buf_count), c)
<1> DEFINE s == Chunk(terminal_buffer, terminal_buf_count)
           t == [i \in 1 .. terminal_buf_count + 1 |-> terminal_buffer'[i - 1]]
<1>1. s \in Seq(Char) /\ Len(s) = terminal_buf_count
  BY ChunkType
<1>2. /\ terminal_buf_count \in Nat /\ MAX_BUFF \in Nat
      /\ terminal_buf_count < MAX_BUFF /\ terminal_buf_count' = terminal_buf_count + 1
      /\ terminal_buffer' = [terminal_buffer EXCEPT ![terminal_buf_count] = c]
      /\ terminal_buffer \in Buffers
  BY CountTypes DEF PutsCharacter
<1>3. Chunk(terminal_buffer, terminal_buf_count)' = t
  BY <1>2 DEF Chunk
<1>4. terminal_buffer' \in Buffers /\ terminal_buf_count + 1 \in 0 .. MAX_BUFF
  BY <1>2 DEF Buffers
<1>5. t \in Seq(Char) /\ Len(t) = terminal_buf_count + 1
  BY <1>2, <1>4, HandedType
<1>6. Append(s, c) \in Seq(Char) /\ Len(Append(s, c)) = terminal_buf_count + 1
      /\ Append(s, c)[terminal_buf_count + 1] = c
      /\ \A i \in 1 .. terminal_buf_count : Append(s, c)[i] = s[i]
  <2> HIDE DEF s
  <2>1. QED
    BY <1>1, AppendProperties
<1>7. ASSUME NEW i \in 1 .. terminal_buf_count + 1 PROVE t[i] = Append(s, c)[i]
  <2>1. t[i] = terminal_buffer'[i - 1]
    OBVIOUS
  <2>2. CASE i = terminal_buf_count + 1
    <3>1. i - 1 = terminal_buf_count /\ terminal_buf_count \in 0 .. MAX_BUFF - 1
      BY <1>2, <2>2
    <3>2. terminal_buffer'[i - 1] = c
      BY <1>2, <3>1 DEF Buffers
    <3>3. QED
      BY <1>6, <2>1, <2>2, <3>2
  <2>3. CASE i # terminal_buf_count + 1
    <3>1. i \in 1 .. terminal_buf_count /\ i - 1 \in 0 .. MAX_BUFF - 1
          /\ i - 1 # terminal_buf_count
      BY <1>2, <2>3
    <3>2. terminal_buffer'[i - 1] = terminal_buffer[i - 1]
      BY <1>2, <3>1 DEF Buffers
    <3>3. s[i] = terminal_buffer[i - 1]
      BY <3>1 DEF Chunk
    <3>4. QED
      BY <1>6, <2>1, <3>1, <3>2, <3>3
  <2>4. QED
    BY <2>2, <2>3
<1>8. t = Append(s, c)
  <2> HIDE DEF s, t
  <2>1. QED
    BY <1>5, <1>6, <1>7, SeqEqual
<1>9. QED
  BY <1>3, <1>8

LEMMA ChunkErase ==
  ASSUME TypeInv, Erases,
         NEW l, l = Chunk(terminal_buffer, terminal_buf_count)
  PROVE  /\ l # <<>>
         /\ Chunk(terminal_buffer, terminal_buf_count)' = SubSeq(l, 1, Len(l) - 1)
<1> DEFINE last == terminal_buf_count - 1
           s == SubSeq(l, 1, last)
           t == [i \in 1 .. last |-> terminal_buffer'[i - 1]]
<1>1. l \in Seq(Char) /\ Len(l) = last + 1
  BY ChunkType, CountTypes
<1>2. /\ last \in Nat /\ MAX_BUFF \in Nat
      /\ last < MAX_BUFF /\ terminal_buf_count' = last
      /\ terminal_buffer' = [terminal_buffer EXCEPT ![last] = Space]
      /\ terminal_buffer \in Buffers /\ terminal_buf_count = last + 1
  BY CountTypes DEF Erases
<1>3. Chunk(terminal_buffer, terminal_buf_count)' = t
  BY <1>2 DEF Chunk
<1>4. l # <<>>
  BY <1>1, <1>2
<1>5. terminal_buffer' \in Buffers /\ last \in 0 .. MAX_BUFF
  BY <1>2 DEF Buffers, Char
<1>6. t \in Seq(Char) /\ Len(t) = last
  <2> HIDE DEF last
  <2>1. t \in Seq(Char)
    BY <1>5, HandedType
  <2>2. Len(t) = last
    BY <1>2
  <2>3. QED
    BY <2>1, <2>2
<1>7. \A i \in 1 .. last : l[i] \in Char /\ l[i] = terminal_buffer[i - 1]
  <2>1. \A i \in 1 .. last : i - 1 \in 0 .. MAX_BUFF - 1 /\ i \in 1 .. terminal_buf_count
    BY <1>2
  <2>2. QED
    BY <1>2, <2>1 DEF Chunk, Buffers
<1>8. s \in Seq(Char) /\ Len(s) = last /\ \A i \in 1 .. last : s[i] = l[i]
  <2> HIDE DEF last
  <2>1. SubSeq(l, 1, last) \in Seq(Char)
    BY <1>2, <1>7, SubSeqProperties
  <2>2. Len(SubSeq(l, 1, last)) = IF 1 <= last THEN last - 1 + 1 ELSE 0
    BY <1>2, <1>7, SubSeqProperties
  <2>3. \A i \in 1 .. last - 1 + 1 : SubSeq(l, 1, last)[i] = l[1 + i - 1]
    BY <1>2, <1>7, SubSeqProperties
  <2>4. QED
    BY <1>2, <2>1, <2>2, <2>3
<1>9. ASSUME NEW i \in 1 .. last PROVE t[i] = s[i]
  <2>1. i - 1 \in 0 .. MAX_BUFF - 1 /\ i - 1 # last
    BY <1>2
  <2>2. terminal_buffer'[i - 1] = terminal_buffer[i - 1]
    BY <1>2, <2>1 DEF Buffers
  <2>3. QED
    BY <1>7, <1>8, <2>2
<1>10. t = s
  <2> HIDE DEF s, t, last
  <2>1. QED
    BY <1>6, <1>8, <1>9, SeqEqual
<1>11. Len(l) - 1 = last
  BY <1>1, <1>2
<1>12. QED
  BY <1>3, <1>4, <1>10, <1>11

\* A user stays careful only by typing while a program waits, on a line that
\* fits.
LEMMA CarefulFollow ==
  ASSUME NEW new_line, NEW new_lines, follow(new_line, new_lines), careful'
  PROVE  /\ careful /\ pc = "spin" /\ press_over = 0 /\ Len(new_line) < MAX_BUFF
         /\ line' = new_line /\ lines' = new_lines
BY Zenon DEF follow

LEMMA LinesCharacter ==
  ASSUME TypeInv, LinesInv, key_character, careful' PROVE LinesInv'
<1> DEFINE c == [ch |-> "char", id |-> typed + 1]
           s == Chunk(terminal_buffer, terminal_buf_count)
<1>1. terminal_get_char(c) /\ follow(Append(line, c), lines) /\ UNCHANGED press_over
  BY DEF key_character
<1>2. /\ careful /\ pc = "spin" /\ press_over = 0 /\ Len(Append(line, c)) < MAX_BUFF
      /\ line' = Append(line, c) /\ lines' = lines
  <2> HIDE DEF c
  <2>1. QED
    BY <1>1, CarefulFollow
<1>3. Len(line) < MAX_BUFF /\ line = s /\ got = lines
  BY <1>2, CursorIs DEF LinesInv
<1>4. Len(line) = terminal_buf_count
  BY <1>3, ChunkType
<1>5. c = [ch |-> c.ch, id |-> typed + 1] /\ c.ch \in {"char", "newline"}
  OBVIOUS
<1> HIDE DEF c
<1>6. c \in Char
  BY <1>1, <1>5, CharacterType
<1>7. PutsCharacter(c)
  <2>1. ~ClearsFull
    BY <1>3, <1>4, CountTypes DEF ClearsFull
  <2>2. QED
    BY <1>1, <2>1, CharacterEffect
<1>8. Chunk(terminal_buffer, terminal_buf_count)' = Append(line, c)
  BY <1>3, <1>6, <1>7, ChunkPut
<1>9. got' = got /\ pc' = pc
  BY <1>7 DEF PutsCharacter
<1>10. QED
  BY <1>1, <1>2, <1>3, <1>8, <1>9, CursorIs DEF LinesInv

LEMMA LinesEnter ==
  ASSUME TypeInv, LinesInv, key_enter, careful' PROVE LinesInv'
<1> DEFINE c == [ch |-> "newline", id |-> typed + 1]
           s == Chunk(terminal_buffer, terminal_buf_count)
<1>1. /\ terminal_get_char(c) /\ follow(<<>>, Append(lines, Append(line, c)))
      /\ press_over' = 1
  BY DEF key_enter, pressed
<1>2. /\ careful /\ pc = "spin" /\ press_over = 0
      /\ line' = <<>> /\ lines' = Append(lines, Append(line, c))
  <2> HIDE DEF c
  <2>1. QED
    BY <1>1, CarefulFollow
<1>3. Len(line) < MAX_BUFF /\ line = s /\ got = lines
  BY <1>2, CursorIs DEF LinesInv
<1>4. Len(line) = terminal_buf_count
  BY <1>3, ChunkType
<1>5. c = [ch |-> c.ch, id |-> typed + 1] /\ c.ch \in {"char", "newline"}
  OBVIOUS
<1> HIDE DEF c
<1>6. c \in Char
  BY <1>1, <1>5, CharacterType
<1>7. PutsCharacter(c)
  <2>1. ~ClearsFull
    BY <1>3, <1>4, CountTypes DEF ClearsFull
  <2>2. QED
    BY <1>1, <2>1, CharacterEffect
<1>8. Chunk(terminal_buffer, terminal_buf_count)' = Append(line, c)
  BY <1>3, <1>6, <1>7, ChunkPut
<1>9. got' = got /\ pc' = pc
  BY <1>7 DEF PutsCharacter
<1>10. QED
  BY <1>1, <1>2, <1>3, <1>8, <1>9, CursorIs DEF LinesInv

LEMMA LinesBackspace ==
  ASSUME TypeInv, LinesInv, key_backspace, careful' PROVE LinesInv'
<1> DEFINE rest == IF line = <<>> THEN line ELSE SubSeq(line, 1, Len(line) - 1)
<1>1. follow(rest, lines) /\ UNCHANGED <<press_over, pc, got>>
  BY DEF key_backspace, flags
<1>2. /\ careful /\ pc = "spin" /\ press_over = 0 /\ Len(rest) < MAX_BUFF
      /\ line' = rest /\ lines' = lines
  <2> HIDE DEF rest
  <2>1. QED
    BY <1>1, CarefulFollow
<1>3. line = Chunk(terminal_buffer, terminal_buf_count) /\ got = lines
  BY <1>2, CursorIs DEF LinesInv
<1>4. Chunk(terminal_buffer, terminal_buf_count)' = rest
  <2>1. CASE Erases
    <3>1. /\ line # <<>>
          /\ Chunk(terminal_buffer, terminal_buf_count)' = SubSeq(line, 1, Len(line) - 1)
      BY <1>3, <2>1, ChunkErase
    <3>2. QED
      BY <3>1
  <2>2. CASE ErasesNothing /\ terminal_buf_count = 0
    <3>1. line = <<>>
      BY <1>3, <2>2 DEF Chunk
    <3>2. Chunk(terminal_buffer, terminal_buf_count)'
            = Chunk(terminal_buffer, terminal_buf_count)
      BY <2>2 DEF ErasesNothing, Chunk
    <3>3. QED
      BY <1>3, <3>1, <3>2
  <2>3. terminal_buf_count = 0 \/ terminal_buf_count > 0
    BY CountTypes
  <2>4. terminal_buf_count > 0 => Erases
    BY DEF key_backspace, Erases, erased_count, flags, result
  <2>5. QED
    BY <2>1, <2>2, <2>3, <2>4, BackspaceEffect
<1> HIDE DEF rest
<1>5. QED
  BY <1>1, <1>2, <1>3, <1>4, CursorIs DEF LinesInv

LEMMA LinesProgram ==
  ASSUME TypeInv, LinesInv,
         Quiet \/ read_copy \/ read_count \/ read_clear \/ read_reset \/ read_return
  PROVE  LinesInv'
<1>1. CASE Quiet
  <2>1. /\ UNCHANGED <<terminal_buffer, terminal_buf_count, got, line, lines, careful>>
        /\ pc \in {"user", "spin"} \cup Cursor
    BY <1>1, QuietStep
  <2>2. Chunk(terminal_buffer, terminal_buf_count)'
          = Chunk(terminal_buffer, terminal_buf_count)
    BY <2>1 DEF Chunk
  <2>3. CASE terminal_write(<<"text">>) \/ terminal_write(<<"text", "newline">>)
             \/ do_clear
    <3>1. UNCHANGED <<pc, press_over>> /\ pc = "user"
      BY <2>3 DEF terminal_write, do_clear, writes_screen, flags
    <3>2. QED
      BY <2>1, <2>2, <3>1, CursorIs DEF LinesInv
  <2>4. CASE terminal_read
    <3>1. pc = "user" /\ pc' = "cursor" /\ press_over' = 0
      BY <2>4 DEF terminal_read
    <3>2. QED
      BY <2>1, <2>2, <3>1, CursorIs DEF LinesInv
  <2>5. CASE read_draws /\ pc' # "spin"
    <3>1. pc \in Cursor /\ pc' \in Cursor /\ press_over' = press_over
      BY <2>5, DrawsOnly
    <3>2. QED
      BY <2>1, <2>2, <3>1, CursorIs DEF LinesInv
  <2>6. CASE read_draws /\ pc' = "spin"
    <3>1. pc \in Cursor /\ pc' = "spin" /\ press_over' = press_over
      BY <2>6, DrawsOnly
    <3>2. careful => /\ terminal_buf_count = 0 /\ line = <<>> /\ got = lines
                     /\ press_over = 0
      BY <3>1, CursorIs DEF LinesInv
    <3>3. terminal_buf_count = 0 => Chunk(terminal_buffer, terminal_buf_count) = <<>>
      BY DEF Chunk
    <3>4. QED
      BY <2>1, <2>2, <3>1, <3>2, <3>3, CountTypes, CursorIs DEF LinesInv
  <2>7. CASE read_pressed
    BY <2>1, <2>2, <2>7, CursorIs DEF LinesInv, read_pressed, flags
  <2>8. QED
    BY <1>1, <2>3, <2>4, <2>5, <2>6, <2>7 DEF Quiet
<1>2. CASE read_copy
  <2>1. /\ UNCHANGED <<terminal_buffer, terminal_buf_count, got, line, lines, careful>>
        /\ pc = "copy" /\ pc' = "count" /\ str' = terminal_buffer
    BY <1>2 DEF read_copy, buffer, history
  <2>2. Chunk(terminal_buffer, terminal_buf_count)'
          = Chunk(terminal_buffer, terminal_buf_count)
    BY <2>1 DEF Chunk
  <2>3. QED
    BY <2>1, <2>2, CursorIs DEF LinesInv
<1>3. CASE read_count
  <2>1. /\ UNCHANGED <<terminal_buffer, terminal_buf_count, got, line, lines, careful, str>>
        /\ pc = "count" /\ pc' = "clear" /\ n' = terminal_buf_count
    BY <1>3 DEF read_count, buffer, history
  <2>2. Chunk(terminal_buffer, terminal_buf_count)'
          = Chunk(terminal_buffer, terminal_buf_count)
    BY <2>1 DEF Chunk
  <2>3. QED
    BY <2>1, <2>2, CursorIs DEF LinesInv
<1>4. CASE read_clear
  <2>1. /\ UNCHANGED <<got, line, lines, careful, str, n>>
        /\ pc = "clear" /\ pc' = "reset"
    BY <1>4 DEF read_clear, result, history
  <2>2. Chunk(str, n)' = Chunk(str, n)
    BY <2>1 DEF Chunk
  <2>3. QED
    BY <2>1, <2>2, CursorIs DEF LinesInv
<1>5. CASE read_reset
  <2>1. /\ UNCHANGED <<got, line, lines, careful, str, n>>
        /\ pc = "reset" /\ pc' = "finish" /\ terminal_buf_count' = 0
    BY <1>5 DEF read_reset, count_after_read, result, history
  <2>2. Chunk(str, n)' = Chunk(str, n)
    BY <2>1 DEF Chunk
  <2>3. QED
    BY <2>1, <2>2, CursorIs DEF LinesInv
<1>6. CASE read_return
  <2>1. /\ UNCHANGED <<terminal_buf_count, line, lines, careful>>
        /\ pc = "finish" /\ pc' = "user" /\ got' = Append(got, Chunk(str, n))
    BY <1>6 DEF read_return, buffer, Chunk
  <2>2. QED
    BY <2>1, CursorIs DEF LinesInv
<1>7. QED
  BY <1>1, <1>2, <1>3, <1>4, <1>5, <1>6

LEMMA LinesStep ==
  ASSUME TypeInv, LinesInv, [Next]_vars PROVE LinesInv'
<1>1. CASE UNCHANGED vars
  <2>1. /\ Chunk(terminal_buffer, terminal_buf_count)'
             = Chunk(terminal_buffer, terminal_buf_count)
        /\ Chunk(str, n)' = Chunk(str, n)
    BY <1>1 DEF vars, Chunk
  <2>2. QED
    BY <1>1, <2>1 DEF vars, LinesInv
<1>2. CASE key_character \/ key_enter \/ key_backspace
  <2>1. CASE careful'
    BY <1>2, <2>1, LinesCharacter, LinesEnter, LinesBackspace
  <2>2. CASE ~careful'
    BY <2>2, CursorIs DEF LinesInv
  <2>3. QED
    BY <2>1, <2>2
<1>3. QED
  BY <1>1, <1>2, LinesProgram DEF Next, read_goes_on, Quiet

LEMMA LinesInvariant == Spec => []LinesInv
<1>1. Init => LinesInv
  BY LinesInit
<1>2. TypeInv /\ LinesInv /\ [Next]_vars => LinesInv'
  BY LinesStep
<1>3. QED
  BY <1>1, <1>2, TypeInvariant, PTL DEF Spec

\* A user who types only while a program waits, and lines that fit the buffer,
\* gives each terminal_read the line that Enter ended, as edited with
\* backspace.
THEOREM EveryLineArrives == Spec => []LinesArrive
<1>1. LinesInv => LinesArrive
  BY DEF LinesInv, LinesArrive
<1>2. QED
  BY <1>1, LinesInvariant, PTL
-----------------------------------------------------------------------------
(* The screen.                                                             *)

\* size_t is wide enough for the screen and for a column that every key typed
\* took one further below zero: 2^64 in the code.
KeysFit == SIZE_MAX_1 >= VGA_WIDTH * VGA_HEIGHT + MAX_KEYS + 2

Lowest == -(MAX_KEYS + 2)

\* A column as a signed number, and the position that it stands for.
signed(k) == IF k < VGA_WIDTH THEN k ELSE k - SIZE_MAX_1
col(con)  == signed(con.column)
at(con)   == con.row * VGA_WIDTH + col(con)

LEMMA Sizes ==
  ASSUME KeysFit
  PROVE  /\ VGA_WIDTH \in Nat /\ VGA_WIDTH > 0 /\ VGA_HEIGHT \in Nat /\ VGA_HEIGHT > 1
         /\ VGA_WIDTH * VGA_HEIGHT \in Nat /\ MAX_KEYS \in Nat
         /\ End \in Nat /\ VGA_WIDTH * VGA_HEIGHT = End + VGA_WIDTH
         /\ End >= VGA_WIDTH
         /\ SIZE_MAX_1 \in Nat
         /\ SIZE_MAX_1 >= End + VGA_WIDTH + MAX_KEYS + 2
BY ScreenSizes, TerminalAssumption DEF KeysFit

\* A row of the console is above that of the clock.
LEMMA RowIs ==
  ASSUME NEW r \in Shown
  PROVE  /\ r * VGA_WIDTH \in Nat
         /\ r * VGA_WIDTH + VGA_WIDTH <= End
         /\ next_row(r) \in Shown /\ row_below(r) = next_row(r)
         /\ \/ next_row(r) * VGA_WIDTH = r * VGA_WIDTH + VGA_WIDTH
            \/ next_row(r) * VGA_WIDTH = 0 /\ r * VGA_WIDTH + VGA_WIDTH = End
         /\ Row(r) \subseteq r * VGA_WIDTH .. r * VGA_WIDTH + VGA_WIDTH - 1
<1>1. PICK p \in Nat : p = r * VGA_WIDTH /\ p + VGA_WIDTH <= End
  BY ShownIs
<1>2. /\ row_below(r) = next_row(r) /\ next_row(r) \in Shown
      /\ next_row(r) = IF r + 1 = VGA_HEIGHT - 1 THEN 0 ELSE r + 1
  BY NextRowIs, NextRowType, ShownIs
<1>3. \/ next_row(r) * VGA_WIDTH = p + VGA_WIDTH
      \/ next_row(r) * VGA_WIDTH = 0 /\ p + VGA_WIDTH = End
  <2>1. (r + 1) * VGA_WIDTH = p + VGA_WIDTH
    BY <1>1, ShownIs
  <2>2. CASE r + 1 = VGA_HEIGHT - 1
    <3>1. 0 * VGA_WIDTH = 0
      BY ScreenSizes
    <3>2. QED
      BY <1>2, <2>1, <2>2, <3>1 DEF End
  <2>3. CASE r + 1 # VGA_HEIGHT - 1
    BY <1>2, <2>1, <2>3
  <2>4. QED
    BY <2>2, <2>3
<1>4. ASSUME NEW i \in 0 .. VGA_WIDTH - 1
      PROVE  (r * VGA_WIDTH + i) % SIZE_MAX_1 \in p .. p + VGA_WIDTH - 1
  <2>1. p + i \in Nat /\ p + i < SIZE_MAX_1 /\ p + i \in p .. p + VGA_WIDTH - 1
    BY <1>1, ScreenSizes
  <2>2. (p + i) % SIZE_MAX_1 = p + i
    BY <2>1, ModSmall, ScreenSizes
  <2>3. QED
    BY <1>1, <2>1, <2>2
<1>5. Row(r) \subseteq p .. p + VGA_WIDTH - 1
  BY <1>4 DEF Row
<1>6. QED
  BY <1>1, <1>2, <1>3, <1>5

\* What the column, the row and the position of a console can be.
LEMMA AtIs ==
  ASSUME KeysFit, NEW con \in Consoles
  PROVE  /\ con.row \in Shown /\ con.column \in 0 .. SIZE_MAX_1 - 1
         /\ con.column \in Nat
         /\ col(con) \in Int /\ col(con) < VGA_WIDTH
         /\ con.row * VGA_WIDTH \in Nat
         /\ con.row * VGA_WIDTH + VGA_WIDTH <= End
         /\ at(con) = con.row * VGA_WIDTH + col(con)
         /\ at(con) \in Int /\ at(con) < End
<1>1. con.row \in Shown /\ con.column \in 0 .. SIZE_MAX_1 - 1
  BY DEF Consoles, ConsolesOf
<1>2. PICK p \in Nat : p = con.row * VGA_WIDTH /\ p + VGA_WIDTH <= End
  BY <1>1, RowIs
<1>3. col(con) \in Int /\ col(con) < VGA_WIDTH /\ con.column \in Nat
  BY <1>1, Sizes DEF col, signed
<1>4. at(con) = p + col(con)
  BY <1>2 DEF at
<1>5. QED
  BY <1>1, <1>2, <1>3, <1>4, Sizes

LEMMA IndexIs ==
  ASSUME KeysFit, NEW con \in Consoles, col(con) >= Lowest
  PROVE  /\ at(con) >= 0 => index(con) = at(con)
         /\ at(con) < 0 => index(con) \notin Cells
<1>1. PICK p \in Nat : p = con.row * VGA_WIDTH /\ p + VGA_WIDTH <= End
  BY AtIs
<1>2. con.column \in Nat /\ con.column < SIZE_MAX_1
  BY AtIs, Sizes
<1>3. at(con) = p + col(con) /\ index(con) = (p + con.column) % SIZE_MAX_1
  BY <1>1 DEF at, index
<1>4. Cells = 0 .. End + VGA_WIDTH - 1
  BY Sizes DEF Cells
<1>5. PICK q \in Nat : q = p + con.column
  BY <1>2
<1>6. /\ q < SIZE_MAX_1 => q % SIZE_MAX_1 = q
      /\ SIZE_MAX_1 <= q => q % SIZE_MAX_1 = q - SIZE_MAX_1
  <2>1. q < 2 * SIZE_MAX_1 /\ SIZE_MAX_1 > 0 /\ 0 <= q
    BY <1>1, <1>2, <1>5, Sizes
  <2>2. q \in Int /\ SIZE_MAX_1 \in Nat
    BY Sizes
  <2>3. QED
    BY <2>1, <2>2, ModSmall
<1>7. CASE con.column < VGA_WIDTH
  <2>1. col(con) = con.column
    BY <1>7 DEF col, signed
  <2>2. q < SIZE_MAX_1
    BY <1>1, <1>2, <1>5, <1>7, Sizes
  <2>3. QED
    BY <1>2, <1>3, <1>5, <1>6, <2>1, <2>2
<1>8. CASE ~(con.column < VGA_WIDTH)
  <2>1. col(con) = con.column - SIZE_MAX_1
    BY <1>8 DEF col, signed
  <2>2. con.column >= End + VGA_WIDTH
    BY <1>2, <2>1, Sizes DEF Lowest
  <2>3. CASE q < SIZE_MAX_1
    <3>1. index(con) = q
      BY <1>3, <1>5, <1>6, <2>3
    <3>2. at(con) < 0
      BY <1>2, <1>3, <1>5, <2>1, <2>3, Sizes
    <3>3. q >= End + VGA_WIDTH
      BY <1>2, <1>5, <2>2, Sizes
    <3>4. q \notin Cells
      BY <1>4, <3>3, Sizes
    <3>5. QED
      BY <3>1, <3>2, <3>4, AtIs
  <2>4. CASE ~(q < SIZE_MAX_1)
    <3>1. index(con) = q - SIZE_MAX_1
      BY <1>3, <1>5, <1>6, <2>4, Sizes
    <3>2. at(con) = q - SIZE_MAX_1 /\ at(con) >= 0
      BY <1>2, <1>3, <1>5, <2>1, <2>4, Sizes
    <3>3. QED
      BY <3>1, <3>2, AtIs
  <2>5. QED
    BY <2>3, <2>4
<1>9. QED
  BY <1>7, <1>8

\* A row that is blanked is that of the position and what follows.
LEMMA BlankedIs ==
  ASSUME KeysFit, NEW con \in Consoles, NEW i \in Cells, i < at(con) \/ i >= End
  PROVE  blanked(con)[i] = con.cells[i]
<1>1. CASE con.column = 0
  <2>1. PICK p \in Nat : p = con.row * VGA_WIDTH /\ p + VGA_WIDTH <= End
    BY AtIs
  <2>2. col(con) = 0
    BY <1>1, Sizes DEF col, signed
  <2>3. at(con) = p
    BY <2>1, <2>2 DEF at
  <2>4. Row(con.row) \subseteq p .. p + VGA_WIDTH - 1
    BY <2>1, RowIs, AtIs
  <2>5. i \in Nat
    BY Sizes DEF Cells
  <2>6. i \notin Row(con.row)
    BY <2>1, <2>3, <2>4, <2>5, Sizes
  <2>7. QED
    BY <2>6 DEF blanked
<1>2. CASE con.column # 0
  BY <1>2 DEF blanked
<1>3. QED
  BY <1>1, <1>2

\* b is a with c put at its position.
Written(a, b, c) ==
  \A i \in Cells : /\ i < at(a) \/ i >= End => b.cells[i] = a.cells[i]
                   /\ i = at(a) => b.cells[i] = c

LEMMA PutCells ==
  ASSUME KeysFit, NEW con \in Consoles, col(con) >= Lowest, NEW c \in Glyph
  PROVE  Written(con, console_putchar(con, c), c)
<1>1. c # "newline"
  BY DEF Glyph
<1>2. console_putchar(con, c).cells
        = [i \in Cells |-> IF i = index(con) THEN c ELSE blanked(con)[i]]
  BY <1>1 DEF console_putchar
<1>3. ASSUME NEW i \in Cells, i < at(con) \/ i >= End
      PROVE  console_putchar(con, c).cells[i] = con.cells[i]
  <2>1. i \in Nat
    BY Sizes DEF Cells
  <2>2. i # index(con)
    <3>1. CASE at(con) >= 0
      BY <1>3, <2>1, <3>1, IndexIs, AtIs, Sizes
    <3>2. CASE at(con) < 0
      BY <3>2, IndexIs
    <3>3. QED
      BY <3>1, <3>2, AtIs
  <2>3. QED
    BY <1>2, <1>3, <2>2, BlankedIs
<1>4. ASSUME NEW i \in Cells, i = at(con)
      PROVE  console_putchar(con, c).cells[i] = c
  <2>1. at(con) >= 0
    BY <1>4, Sizes DEF Cells
  <2>2. index(con) = i
    BY <1>4, <2>1, IndexIs
  <2>3. QED
    BY <1>2, <2>2
<1>5. QED
  BY <1>3, <1>4 DEF Written

\* Where the next character goes after one was put.
LEMMA PutAt ==
  ASSUME KeysFit, NEW con \in Consoles, col(con) >= Lowest, NEW c \in Glyph
  PROVE  LET b == console_putchar(con, c)
         IN /\ b \in Consoles
            /\ col(b) = IF col(con) + 1 = VGA_WIDTH THEN 0 ELSE col(con) + 1
            /\ at(b) = at(con) + 1 \/ (at(b) = 0 /\ at(con) + 1 = End)
<1> DEFINE b     == console_putchar(con, c)
           after == (con.column + 1) % SIZE_MAX_1
<1>1. c # "newline" /\ c \in Put
  BY DEF Glyph, Put
<1>2. b \in Consoles
  BY <1>1, PutType
<1>3. /\ b.row = IF after = VGA_WIDTH THEN next_row(con.row) ELSE con.row
      /\ b.column = IF after = VGA_WIDTH THEN 0 ELSE after
  BY <1>1, AtIs, RowIs DEF console_putchar
<1>4. con.column \in Nat /\ con.column < SIZE_MAX_1
  BY AtIs, Sizes
<1>5. /\ con.column + 1 < SIZE_MAX_1 => after = con.column + 1
      /\ con.column + 1 = SIZE_MAX_1 => after = 0
  <2>1. con.column + 1 \in Int /\ SIZE_MAX_1 > 0 /\ SIZE_MAX_1 \in Nat /\ 0 <= con.column + 1
    BY <1>4, Sizes
  <2>2. QED
    BY <2>1, ModSmall
<1> HIDE DEF b, after
<1>6. /\ (after = VGA_WIDTH <=> col(con) + 1 = VGA_WIDTH)
      /\ after # VGA_WIDTH => b.column = after /\ col(b) = col(con) + 1
  <2>1. CASE con.column < VGA_WIDTH
    <3>1. col(con) = con.column
      BY <2>1 DEF col, signed
    <3>2. after = con.column + 1
      BY <1>4, <1>5, <2>1, Sizes
    <3>3. QED
      BY <1>3, <1>4, <2>1, <3>1, <3>2, Sizes DEF col, signed
  <2>2. CASE ~(con.column < VGA_WIDTH)
    <3>1. col(con) = con.column - SIZE_MAX_1
      BY <2>2 DEF col, signed
    <3>2. con.column >= End + VGA_WIDTH
      BY <1>4, <3>1, Sizes DEF Lowest
    <3>3. CASE con.column + 1 = SIZE_MAX_1
      BY <1>3, <1>4, <1>5, <3>1, <3>3, Sizes DEF col, signed
    <3>4. CASE con.column + 1 # SIZE_MAX_1
      <4>1. after = con.column + 1 /\ after > VGA_WIDTH
        BY <1>4, <1>5, <3>2, <3>4, Sizes
      <4>2. col(con) + 1 # VGA_WIDTH
        BY <1>4, <3>1, Sizes
      <4>3. QED
        BY <1>3, <1>4, <3>1, <4>1, <4>2, Sizes DEF col, signed
    <3>5. QED
      BY <3>3, <3>4
  <2>3. QED
    BY <2>1, <2>2
<1>7. after = VGA_WIDTH => col(b) = 0
  BY <1>3, Sizes DEF col, signed
<1>8. col(b) = IF col(con) + 1 = VGA_WIDTH THEN 0 ELSE col(con) + 1
  BY <1>6, <1>7
<1>9. at(b) = at(con) + 1 \/ (at(b) = 0 /\ at(con) + 1 = End)
  <2>1. PICK p \in Nat : p = con.row * VGA_WIDTH
    BY AtIs
  <2>2. at(con) = p + col(con) /\ col(con) \in Int
    BY <2>1, AtIs
  <2>3. CASE after # VGA_WIDTH
    <3>1. at(b) = p + (col(con) + 1)
      <4>1. b.row = con.row /\ col(b) = col(con) + 1
        BY <1>3, <1>6, <2>3
      <4>2. QED
        BY <2>1, <4>1 DEF at
    <3>2. QED
      BY <2>2, <3>1
  <2>4. CASE after = VGA_WIDTH
    <3>1. b.row = next_row(con.row) /\ col(b) = 0 /\ col(con) = VGA_WIDTH - 1
      BY <1>3, <1>6, <1>7, <2>2, <2>4, Sizes
    <3>2. PICK q \in Nat : q = next_row(con.row) * VGA_WIDTH
      BY AtIs, RowIs
    <3>3. q = p + VGA_WIDTH \/ (q = 0 /\ p + VGA_WIDTH = End)
      BY <2>1, <3>2, AtIs, RowIs
    <3>4. at(b) = q
      BY <3>1, <3>2 DEF at
    <3>5. QED
      BY <2>2, <3>1, <3>3, <3>4, Sizes
  <2>5. QED
    BY <2>3, <2>4
<1>10. QED
  BY <1>2, <1>8, <1>9 DEF b

LEMMA NewlineIs ==
  ASSUME KeysFit, NEW con \in Consoles
  PROVE  LET b == console_putchar(con, "newline")
         IN /\ b \in Consoles /\ col(b) = 0
            /\ \A i \in Cells : i >= End => b.cells[i] = con.cells[i]
<1> DEFINE b == console_putchar(con, "newline")
<1>1. b \in Consoles
  BY PutType DEF Put
<1>2. b.column = 0 /\ b.cells = blanked(con)
  BY DEF console_putchar
<1>3. col(b) = 0
  BY <1>2, Sizes DEF col, signed
<1>4. QED
  BY <1>1, <1>2, <1>3, BlankedIs

LEMMA LeftAt ==
  ASSUME KeysFit, NEW con \in Consoles, col(con) > Lowest
  PROVE  LET b == left(con)
         IN /\ b \in Consoles
            /\ col(b) = col(con) - 1 /\ at(b) = at(con) - 1
            /\ b.cells = con.cells
<1> DEFINE b == left(con)
           d == (con.column - 1) % SIZE_MAX_1
<1>1. b \in Consoles
  BY LeftType
<1>2. b = [con EXCEPT !.column = d]
  BY DEF left
<1>3. con.column \in Nat /\ con.column < SIZE_MAX_1
  BY AtIs, Sizes
<1>4. con.column > 0 => d = con.column - 1
  <2>1. con.column > 0 => con.column - 1 \in Int /\ 0 <= con.column - 1
                            /\ con.column - 1 < SIZE_MAX_1
    BY <1>3, Sizes
  <2>2. SIZE_MAX_1 > 0 /\ SIZE_MAX_1 \in Nat /\ con.column - 1 \in Int
    BY <1>3, Sizes
  <2>3. QED
    BY <2>1, <2>2, ModSmall
<1>5. con.column = 0 => d = SIZE_MAX_1 - 1
  <2>1. SIZE_MAX_1 > 0 /\ SIZE_MAX_1 \in Nat /\ con.column - 1 \in Int
    BY <1>3, Sizes
  <2>2. con.column = 0 => con.column - 1 < 0 /\ -SIZE_MAX_1 <= con.column - 1
    BY <2>1
  <2>3. con.column = 0 => d = con.column - 1 + SIZE_MAX_1
    BY <2>1, <2>2, ModSmall
  <2>4. QED
    BY <2>1, <2>3
<1> HIDE DEF d
<1>6. b.row = con.row /\ b.column = d /\ b.cells = con.cells
  BY <1>2 DEF Consoles, ConsolesOf
<1> HIDE DEF b
<1>7. col(b) = col(con) - 1
  <2>1. CASE con.column = 0
    BY <1>5, <1>6, <2>1, Sizes DEF col, signed
  <2>2. CASE con.column > 0 /\ con.column < VGA_WIDTH
    BY <1>3, <1>4, <1>6, <2>2, Sizes DEF col, signed
  <2>3. CASE ~(con.column < VGA_WIDTH)
    <3>1. col(con) = con.column - SIZE_MAX_1
      BY <2>3 DEF col, signed
    <3>2. con.column > End + VGA_WIDTH
      BY <1>3, <3>1, Sizes DEF Lowest
    <3>3. d = con.column - 1 /\ ~(d < VGA_WIDTH)
      BY <1>3, <1>4, <3>2, Sizes
    <3>4. QED
      BY <1>3, <1>6, <3>1, <3>3, Sizes DEF col, signed
  <2>4. QED
    BY <1>3, <2>1, <2>2, <2>3, Sizes
<1>8. at(b) = at(con) - 1
  <2>1. PICK p \in Nat : p = con.row * VGA_WIDTH
    BY AtIs
  <2>2. at(con) = p + col(con) /\ col(con) \in Int
    BY <2>1, AtIs
  <2>3. at(b) = p + (col(con) - 1)
    BY <1>6, <1>7, <2>1 DEF at
  <2>4. QED
    BY <2>2, <2>3
<1>9. QED
  BY <1>1, <1>6, <1>7, <1>8 DEF b

\* The cursor stands where the next character goes, unless that is the first
\* cell of the screen, after the last one above the clock.
LEMMA CursorAt ==
  ASSUME KeysFit, NEW con \in Consoles, col(con) >= Lowest
  PROVE  LET b == show_cursor(con)
         IN /\ b \in Consoles
            /\ col(b) >= -1 \/ col(b) = col(con)
            /\ at(b) = at(con) \/ at(b) = -1
            /\ Written(con, b, "cursor")
<1> DEFINE a == console_putchar(con, "cursor")
           b == left(a)
<1>1. "cursor" \in Glyph
  BY DEF Glyph
<1>2. /\ a \in Consoles
      /\ col(a) = IF col(con) + 1 = VGA_WIDTH THEN 0 ELSE col(con) + 1
      /\ at(a) = at(con) + 1 \/ at(a) = 0
  BY <1>1, PutAt
<1>3. Written(con, a, "cursor")
  BY <1>1, PutCells
<1> HIDE DEF a
<1>4. col(a) > Lowest
  BY <1>2, AtIs, Sizes DEF Lowest
<1>5. b \in Consoles /\ col(b) = col(a) - 1 /\ at(b) = at(a) - 1 /\ b.cells = a.cells
  BY <1>2, <1>4, LeftAt
<1> HIDE DEF b
<1>6. col(b) >= -1 \/ col(b) = col(con)
  BY <1>2, <1>5, AtIs
<1>7. at(b) = at(con) \/ at(b) = -1
  BY <1>2, <1>5, AtIs
<1>8. Written(con, b, "cursor")
  BY <1>3, <1>5 DEF Written
<1>9. show_cursor(con) = b
  BY DEF show_cursor, a, b
<1>10. QED
  BY <1>5, <1>6, <1>7, <1>8, <1>9

\* What a character that is echoed leaves on the screen.
LEMMA EchoAt ==
  ASSUME KeysFit, console \in Consoles, col(console) >= Lowest,
         NEW c, c.ch \in {"char", "newline"}
  PROVE  LET b == echo(c)
         IN /\ b \in Consoles
            /\ col(b) >= -1 \/ col(b) = col(console) + 1
            /\ \A i \in Cells : i >= End => b.cells[i] = console.cells[i]
            /\ c.ch = "char" =>
                 /\ at(b) = at(console) + 1 \/ at(b) <= 0
                 /\ \A i \in Cells : i < at(console) /\ i < at(b)
                                       => b.cells[i] = console.cells[i]
                 /\ at(b) = at(console) + 1 =>
                      \A i \in Cells : /\ i = at(console) => b.cells[i] = c.ch
                                       /\ i = at(b) => b.cells[i] = "cursor"
<1>1. CASE c.ch = "newline"
  <2> DEFINE d == console_putchar(console, "space")
             e == console_putchar(d, "newline")
             b == show_cursor(e)
  <2>1. "space" \in Glyph
    BY DEF Glyph
  <2>2. d \in Consoles
    BY <2>1, PutAt
  <2>3. Written(console, d, "space")
    BY <2>1, PutCells
  <2> HIDE DEF d
  <2>4. e \in Consoles /\ col(e) = 0 /\ \A i \in Cells : i >= End => e.cells[i] = d.cells[i]
    BY <2>2, NewlineIs
  <2> HIDE DEF e
  <2>5. col(e) >= Lowest
    BY <2>4, Sizes DEF Lowest
  <2>6. b \in Consoles /\ (col(b) >= -1 \/ col(b) = col(e)) /\ Written(e, b, "cursor")
    BY <2>4, <2>5, CursorAt
  <2> HIDE DEF b
  <2>7. \A i \in Cells : i >= End => b.cells[i] = console.cells[i]
    BY <2>3, <2>4, <2>6 DEF Written
  <2>8. echo(c) = b
    BY <1>1 DEF echo, b, d, e
  <2>9. col(b) >= -1
    BY <2>4, <2>6
  <2>10. QED
    BY <1>1, <2>6, <2>7, <2>8, <2>9
<1>2. CASE c.ch = "char"
  <2> DEFINE d == console_putchar(console, "char")
             b == show_cursor(d)
  <2>1. "char" \in Glyph
    BY DEF Glyph
  <2>2. /\ d \in Consoles
        /\ col(d) = IF col(console) + 1 = VGA_WIDTH THEN 0 ELSE col(console) + 1
        /\ at(d) = at(console) + 1 \/ (at(d) = 0 /\ at(console) + 1 = End)
    BY <2>1, PutAt
  <2>3. Written(console, d, "char")
    BY <2>1, PutCells
  <2> HIDE DEF d
  <2>4. col(d) >= Lowest
    BY <2>2, AtIs, Sizes DEF Lowest
  <2>5. /\ b \in Consoles /\ (col(b) >= -1 \/ col(b) = col(d))
        /\ at(b) = at(d) \/ at(b) = -1
        /\ Written(d, b, "cursor")
    BY <2>2, <2>4, CursorAt
  <2> HIDE DEF b
  <2>6. \A i \in Cells : i >= End => b.cells[i] = console.cells[i]
    BY <2>3, <2>5 DEF Written
  <2>7. at(console) \in Int /\ at(d) \in Int /\ at(b) \in Int /\ col(console) \in Int
    BY <2>2, <2>5, AtIs
  <2>8. at(b) = at(console) + 1 \/ at(b) <= 0
    BY <2>2, <2>5, <2>7
  <2>9. col(b) >= -1 \/ col(b) = col(console) + 1
    BY <2>2, <2>5, <2>7
  <2>10. Cells \subseteq Nat
    BY Sizes DEF Cells
  <2>11. ASSUME NEW i \in Cells, i < at(console), i < at(b)
         PROVE  b.cells[i] = console.cells[i]
    <3>1. d.cells[i] = console.cells[i]
      BY <2>3, <2>11 DEF Written
    <3>2. i < at(d)
      BY <2>5, <2>7, <2>10, <2>11
    <3>3. b.cells[i] = d.cells[i]
      BY <2>5, <3>2 DEF Written
    <3>4. QED
      BY <3>1, <3>3
  <2>12. ASSUME at(b) = at(console) + 1, NEW i \in Cells
         PROVE  /\ i = at(console) => b.cells[i] = "char"
                /\ i = at(b) => b.cells[i] = "cursor"
    <3>1. at(d) = at(b)
      BY <2>2, <2>5, <2>7, <2>12, Sizes
    <3>2. QED
      BY <2>3, <2>5, <2>7, <2>10, <2>12, <3>1 DEF Written
  <2>13. echo(c) = b
    BY <1>2 DEF echo, b, d
  <2>14. QED
    BY <1>2, <2>5, <2>6, <2>8, <2>9, <2>11, <2>12, <2>13
<1>3. QED
  BY <1>1, <1>2

\* What a backspace leaves on the screen.
LEMMA EraseAt ==
  ASSUME KeysFit, console \in Consoles, col(console) > Lowest
  PROVE  LET b == show_cursor(left(left(console_putchar(console, "space"))))
         IN /\ b \in Consoles
            /\ col(b) >= -2 \/ col(b) = col(console) - 1
            /\ at(b) = at(console) - 1 \/ at(b) < 0
            /\ \A i \in Cells : i >= End => b.cells[i] = console.cells[i]
            /\ at(b) >= 0 => \A i \in Cells : /\ i < at(b) => b.cells[i] = console.cells[i]
                                              /\ i = at(b) => b.cells[i] = "cursor"
<1> DEFINE p == console_putchar(console, "space")
           e == left(p)
           d == left(e)
           b == show_cursor(d)
<1>1. "space" \in Glyph /\ col(console) >= Lowest /\ Lowest < -1 /\ Lowest \in Int
  BY AtIs, Sizes DEF Glyph, Lowest
<1>2. /\ p \in Consoles
      /\ col(p) = IF col(console) + 1 = VGA_WIDTH THEN 0 ELSE col(console) + 1
      /\ at(p) = at(console) + 1 \/ at(p) = 0
  BY <1>1, PutAt
<1>3. Written(console, p, "space")
  BY <1>1, PutCells
<1> HIDE DEF p
<1>4. col(console) \in Int /\ at(console) \in Int /\ col(p) \in Int /\ at(p) \in Int
  BY <1>2, AtIs
<1>5. e \in Consoles /\ col(e) = col(p) - 1 /\ at(e) = at(p) - 1 /\ e.cells = p.cells
  BY <1>1, <1>2, <1>4, LeftAt
<1> HIDE DEF e
<1>6. col(e) > Lowest
  BY <1>1, <1>2, <1>4, <1>5
<1>7. d \in Consoles /\ col(d) = col(e) - 1 /\ at(d) = at(e) - 1 /\ d.cells = e.cells
  BY <1>5, <1>6, LeftAt
<1> HIDE DEF d
<1>8. col(d) >= Lowest
  BY <1>1, <1>4, <1>5, <1>6, <1>7
<1>9. /\ b \in Consoles /\ (col(b) >= -1 \/ col(b) = col(d))
      /\ at(b) = at(d) \/ at(b) = -1
      /\ Written(d, b, "cursor")
  BY <1>7, <1>8, CursorAt
<1> HIDE DEF b
<1>10. col(b) \in Int /\ at(b) \in Int /\ Cells \subseteq Nat
  BY <1>9, AtIs, Sizes DEF Cells
<1>11. col(b) >= -2 \/ col(b) = col(console) - 1
  BY <1>2, <1>4, <1>5, <1>7, <1>9, <1>10
<1>12. at(d) = at(console) - 1 \/ at(d) = -2
  BY <1>2, <1>4, <1>5, <1>7
<1>13. at(b) = at(console) - 1 \/ at(b) < 0
  BY <1>9, <1>12
<1>14. \A i \in Cells : i >= End => b.cells[i] = console.cells[i]
  BY <1>3, <1>5, <1>7, <1>9 DEF Written
<1>15. ASSUME at(b) >= 0, NEW i \in Cells
       PROVE  /\ i < at(b) => b.cells[i] = console.cells[i]
              /\ i = at(b) => b.cells[i] = "cursor"
  <2>1. at(b) = at(d) /\ at(d) = at(console) - 1
    BY <1>9, <1>12, <1>15
  <2>2. i = at(b) => b.cells[i] = "cursor"
    BY <1>9, <2>1 DEF Written
  <2>3. ASSUME i < at(b) PROVE b.cells[i] = console.cells[i]
    <3>1. i < at(console) /\ i < at(d)
      BY <1>4, <1>10, <2>1, <2>3
    <3>2. QED
      BY <1>3, <1>5, <1>7, <1>9, <3>1 DEF Written
  <2>4. QED
    BY <2>2, <2>3
<1>16. QED
  BY <1>9, <1>11, <1>13, <1>14, <1>15 DEF b, d, e, p

\* The steps after the column went to the right, up to read_back.
After == {"down", "row", "top", "back"}

\* The column goes below zero by no more than was typed and is not in the
\* buffer, and by the cursor of a read; a read that was interrupted goes on
\* with a column that it has read before.
ColumnInv ==
  /\ terminal_buf_count <= typed
  /\ pc # "wrap" => col(console) >= terminal_buf_count - typed - 2
  /\ pc = "column" => signed(local) >= terminal_buf_count - typed - 2
  /\ pc \in After => col(console) > terminal_buf_count - typed - 2

ClockInv == \A i \in Cells : i >= End => console.cells[i] = "clock"

\* An index is computed before the character is stored: a key between the two
\* does not make it one of the row of the clock.
StoreInv == pc = "put" => local \notin Cells \/ local < End

\* The line and the cursor are before and at the position p, unless the line
\* was wrapped from the bottom row to the top one.
Shows(p, s) ==
  \/ p < Len(s)
  \/ /\ console.cells[p] = "cursor"
     /\ \A i \in 1 .. Len(s) : console.cells[p - Len(s) + i - 1] = s[i].ch

Marked(p) == p < 0 \/ console.cells[p] = "cursor"

\* Where the cursor is while a read draws and no key interrupts it.
CursorInv ==
  /\ pc = "index" => local = console.row * VGA_WIDTH
  /\ pc = "put" => local = index(console)
  /\ pc \in {"next", "column"} => Marked(at(console))
  /\ pc = "column" => local = console.column
  /\ pc \in {"wrap", "down", "row"} =>
       Marked(console.row * VGA_WIDTH + VGA_WIDTH - 1)
  /\ pc \in {"down", "row", "top"} => console.column = 0
  /\ pc = "row" => local = console.row
  /\ pc = "back" => Marked(at(console) - 1)
  /\ pc \in {"bottom", "below"} => Marked(at(console))
  /\ pc = "below" => local > at(console)

EchoInv ==
  careful => /\ CursorInv
             /\ pc = "spin" /\ press_over = 0 => Shows(at(console), line)

ScreenInv == ColumnInv /\ ClockInv /\ StoreInv /\ EchoInv

\* Once a key was pressed while the column or the row was beyond the screen,
\* nothing is known; a careful user pressed none.
TornInv ==
  /\ careful => ~torn
  /\ ~torn => ScreenInv

LEMMA ClockRow ==
  ASSUME KeysFit
  PROVE  /\ Row(VGA_HEIGHT - 1) = {i \in Cells : i >= End}
         /\ Cells = 0 .. End + VGA_WIDTH - 1
<1>1. Cells = 0 .. End + VGA_WIDTH - 1
  BY Sizes DEF Cells
<1>2. \A y \in 0 .. VGA_WIDTH - 1 : (End + y) % SIZE_MAX_1 = End + y
  <2>1. \A y \in 0 .. VGA_WIDTH - 1 : End + y \in Int /\ 0 <= End + y /\ End + y < SIZE_MAX_1
    BY Sizes
  <2>2. QED
    BY <2>1, ModSmall, Sizes
<1>3. Row(VGA_HEIGHT - 1) = {End + y : y \in 0 .. VGA_WIDTH - 1}
  BY <1>2 DEF Row, End
<1>4. ASSUME NEW i \in Cells, i >= End PROVE i \in {End + y : y \in 0 .. VGA_WIDTH - 1}
  <2>1. i - End \in 0 .. VGA_WIDTH - 1 /\ i = End + (i - End)
    <3>1. End \in Nat /\ VGA_WIDTH \in Nat /\ i \in 0 .. End + VGA_WIDTH - 1
      BY <1>1, Sizes
    <3>2. ASSUME NEW e \in Nat, NEW w \in Nat, NEW j \in 0 .. e + w - 1, j >= e
          PROVE  j - e \in 0 .. w - 1 /\ j = e + (j - e)
      BY <3>2
    <3>3. QED
      BY <1>4, <3>1, <3>2
  <2>2. QED
    BY <2>1
<1>5. ASSUME NEW y \in 0 .. VGA_WIDTH - 1 PROVE End + y \in Cells /\ End + y >= End
  <2>1. End \in Nat /\ VGA_WIDTH \in Nat
    BY Sizes
  <2>2. ASSUME NEW e \in Nat, NEW w \in Nat, y \in 0 .. w - 1
        PROVE  e + y \in 0 .. e + w - 1 /\ e + y >= e
    BY <2>2
  <2>3. QED
    BY <1>1, <2>1, <2>2
<1>6. QED
  BY <1>1, <1>3, <1>4, <1>5

\* What it takes to be a cell.
LEMMA CellIs ==
  ASSUME KeysFit
  PROVE  /\ \A i \in Int : i >= 0 /\ i < End => i \in Cells
         /\ Cells \subseteq Int
BY Sizes DEF Cells

\* Outside the two windows, the console is one above the clock.
LEMMA ColumnIs ==
  ASSUME KeysFit, TypeInv, ColumnInv, pc \notin Torn
  PROVE  /\ console \in Consoles
         /\ col(console) \in Int /\ at(console) \in Int /\ at(console) < End
         /\ col(console) >= Lowest /\ Lowest \in Int /\ Lowest <= -2
         /\ col(console) >= terminal_buf_count - typed - 2
         /\ terminal_buf_count - typed - 2 >= Lowest
         /\ terminal_buf_count - typed - 2 <= -2
         /\ terminal_buf_count \in Nat /\ typed \in Nat
<1>1. console \in Consoles /\ pc # "wrap"
  BY DEF TypeInv, Torn
<1>2. terminal_buf_count \in Nat /\ typed \in Nat /\ typed <= MAX_KEYS /\ MAX_KEYS \in Nat
  BY CountTypes
<1>3. terminal_buf_count <= typed /\ col(console) >= terminal_buf_count - typed - 2
  BY <1>1 DEF ColumnInv
<1>4. col(console) \in Int /\ at(console) \in Int /\ at(console) < End
  BY <1>1, AtIs
<1>5. QED
  BY <1>1, <1>2, <1>3, <1>4 DEF Lowest

LEMMA ScreenKeeps ==
  ASSUME KeysFit, TypeInv, TornInv PROVE ScreenIsKept
<1>1. line \in Seq(Char)
  BY DEF TypeInv
<1>2. TimerRowKept
  BY ClockRow DEF TornInv, ScreenInv, ClockInv, TimerRowKept
<1>3. EchoShowsLine
  <2> DEFINE p == index(console)
  <2> SUFFICES ASSUME careful, pc = "spin", press_over = 0, p \in Cells, Len(line) <= p
               PROVE  /\ console.cells[p] = "cursor"
                      /\ \A i \in DOMAIN line :
                           console.cells[p - Len(line) + i - 1] = line[i].ch
    BY DEF EchoShowsLine
  <2>1. ScreenInv /\ pc \notin Torn
    BY DEF TornInv, Torn
  <2>2. p = at(console) /\ at(console) \in Int
    BY <2>1, ColumnIs, IndexIs DEF ScreenInv
  <2>3. Shows(at(console), line)
    BY <2>1 DEF ScreenInv, EchoInv
  <2> HIDE DEF p
  <2>4. Len(line) \in Nat /\ DOMAIN line = 1 .. Len(line)
    BY <1>1, LenProperties
  <2>5. ~(p < Len(line))
    BY <2>4, <2>2
  <2>6. QED
    BY <2>2, <2>3, <2>4, <2>5 DEF Shows
<1>4. QED
  BY <1>2, <1>3 DEF ScreenIsKept

LEMMA ScreenInit ==
  ASSUME KeysFit, Init PROVE TornInv
<1>1. /\ console = [row |-> 0, column |-> 0,
                    cells |-> [i \in Cells |-> IF i \in Row(VGA_HEIGHT - 1)
                                               THEN "clock" ELSE "space"]]
      /\ pc = "user" /\ typed = 0 /\ terminal_buf_count = 0 /\ torn = FALSE
  BY DEF Init
<1>2. col(console) = 0
  BY <1>1, Sizes DEF col, signed
<1>3. ColumnInv
  BY <1>1, <1>2 DEF ColumnInv, After
<1>4. ClockInv
  BY <1>1, ClockRow DEF ClockInv
<1>5. StoreInv /\ EchoInv
  BY <1>1 DEF StoreInv, EchoInv, CursorInv
<1>6. QED
  BY <1>1, <1>3, <1>4, <1>5 DEF TornInv, ScreenInv

\* The parts of the invariant that do not depend on what the cells hold.
LEMMA ClockStays ==
  ASSUME KeysFit, TypeInv, ScreenInv, pc' # "wrap",
         terminal_buf_count' <= typed',
         col(console') >= terminal_buf_count' - typed' - 2,
         pc' \in After => col(console') > terminal_buf_count' - typed' - 2,
         pc' = "column" => signed(local') >= terminal_buf_count' - typed' - 2,
         pc' = "put" => local' \notin Cells \/ local' < End,
         \A i \in Cells : i >= End => console'.cells[i] = console.cells[i]
  PROVE  ColumnInv' /\ ClockInv' /\ StoreInv'
<1>1. col(console)' = col(console') /\ signed(local)' = signed(local')
  BY DEF col, signed
<1>2. ColumnInv'
  BY <1>1 DEF ColumnInv
<1>3. ClockInv' /\ StoreInv'
  BY DEF ScreenInv, ClockInv, StoreInv
<1>4. QED
  BY <1>2, <1>3

\* Writes leave the clock, and the column is not left of where it was.
LEMMA ScreenWrite ==
  ASSUME KeysFit, TypeInv, ScreenInv,
         terminal_write(<<"text">>) \/ terminal_write(<<"text", "newline">>) \/ do_clear
  PROVE  ScreenInv'
<1>1. /\ UNCHANGED <<terminal_buf_count, typed, pc>> /\ pc = "user"
  BY DEF terminal_write, do_clear, writes_screen, buffer
<1>2. EchoInv'
  BY <1>1 DEF EchoInv, CursorInv
<1>3. /\ console \in Consoles /\ col(console) \in Int /\ col(console) >= Lowest
      /\ col(console) >= terminal_buf_count - typed - 2
      /\ terminal_buf_count - typed - 2 <= -2
      /\ terminal_buf_count \in Nat /\ typed \in Nat
  BY <1>1, ColumnIs DEF ScreenInv, Torn
<1>4. /\ col(console') >= 0 \/ col(console') >= col(console)
      /\ console' \in Consoles
      /\ \A i \in Cells : i >= End => console'.cells[i] = console.cells[i]
  <2> DEFINE b == console_putchar(console, "text")
  <2>1. b \in Consoles /\ (col(b) = 0 \/ col(b) = col(console) + 1)
        /\ Written(console, b, "text")
    <3>1. "text" \in Glyph
      BY DEF Glyph
    <3>2. QED
      BY <1>3, <3>1, PutAt, PutCells
  <2>2. CASE terminal_write(<<"text">>)
    <3>1. console' = b
      BY <2>2, PutOne DEF terminal_write
    <3> HIDE DEF b
    <3>2. QED
      BY <1>3, <2>1, <3>1 DEF Written
  <2>3. CASE terminal_write(<<"text", "newline">>)
    <3>1. console' = console_putchar(b, "newline")
      BY <2>3, PutTwo DEF terminal_write
    <3> HIDE DEF b
    <3>2. /\ console' \in Consoles /\ col(console') = 0
          /\ \A i \in Cells : i >= End => console'.cells[i] = b.cells[i]
      BY <2>1, <3>1, NewlineIs
    <3>3. QED
      BY <2>1, <3>2 DEF Written
  <2>4. CASE do_clear
    <3>1. console' = [row |-> 0, column |-> 0,
                      cells |-> [i \in Cells |-> IF i \in Row(VGA_HEIGHT - 1)
                                                 THEN console.cells[i] ELSE "space"]]
      BY <2>4 DEF do_clear
    <3>2. col(console') = 0
      BY <3>1, Sizes DEF col, signed
    <3>3. \A i \in Cells : i >= End => console'.cells[i] = console.cells[i]
      BY <3>1, ClockRow
    <3>4. console' \in Consoles
      BY <1>3, <2>4, WriteConsole
    <3>5. QED
      BY <3>2, <3>3, <3>4
  <2>5. QED
    BY <2>2, <2>3, <2>4
<1>5. terminal_buf_count <= typed
  BY DEF ScreenInv, ColumnInv
<1>6. col(console') >= terminal_buf_count - typed - 2
  <2>1. col(console') \in Int
    BY <1>4, AtIs
  <2>2. QED
    BY <1>3, <1>4, <2>1
<1>7. ColumnInv' /\ ClockInv' /\ StoreInv'
  BY <1>1, <1>4, <1>5, <1>6, ClockStays DEF After
<1>8. QED
  BY <1>2, <1>7 DEF ScreenInv

\* A part of terminal_read that leaves the screen, or goes on to draw on it.
LEMMA ScreenQuiet ==
  ASSUME KeysFit, TypeInv, ScreenInv,
         \/ terminal_read \/ read_pressed \/ read_copy \/ read_count \/ read_clear
         \/ read_reset \/ read_return
  PROVE  ScreenInv'
<1>1. /\ console' = console /\ typed' = typed
      /\ pc \in {"user", "spin", "copy", "count", "clear", "reset", "finish"}
      /\ pc' \in {"user", "cursor", "copy", "count", "clear", "reset", "finish"}
      /\ terminal_buf_count' = terminal_buf_count \/ terminal_buf_count' = 0
  BY DEF terminal_read, read_pressed, read_copy, read_count, read_clear,
     read_reset, read_return, buffer, history, count_after_read
<1>2. /\ terminal_buf_count \in Nat /\ typed \in Nat /\ col(console) \in Int
      /\ col(console) >= terminal_buf_count - typed - 2
  BY <1>1, ColumnIs DEF ScreenInv, Torn
<1>3. terminal_buf_count <= typed
  BY DEF ScreenInv, ColumnInv
<1>4. terminal_buf_count' <= terminal_buf_count /\ terminal_buf_count' \in Nat
  BY <1>1, <1>2
<1>5. terminal_buf_count' <= typed' /\ col(console) >= terminal_buf_count' - typed' - 2
  BY <1>1, <1>2, <1>3, <1>4
<1>6. col(console') = col(console)
  BY <1>1
<1>7. ColumnInv' /\ ClockInv' /\ StoreInv'
  BY <1>1, <1>5, <1>6, ClockStays DEF After
<1>8. EchoInv'
  BY <1>1 DEF EchoInv, CursorInv
<1>9. QED
  BY <1>7, <1>8 DEF ScreenInv

\* A step of a read that draws: what does not change, and where the console is.
LEMMA DrawFacts ==
  ASSUME KeysFit, TypeInv, ScreenInv, read_draws
  PROVE  /\ UNCHANGED <<terminal_buf_count, typed, careful, line, press_over>>
         /\ terminal_buf_count <= typed
         /\ terminal_buf_count \in Nat /\ typed \in Nat
         /\ terminal_buf_count - typed - 2 \in Int /\ terminal_buf_count - typed - 2 <= -2
         /\ terminal_buf_count - typed - 2 >= Lowest /\ Lowest \in Int
         /\ pc # "top" =>
              /\ console \in Consoles /\ console.row \in Shown
              /\ console.column \in 0 .. SIZE_MAX_1 - 1
              /\ col(console) \in Int /\ at(console) \in Int /\ at(console) < End
         /\ pc # "wrap" => col(console) >= terminal_buf_count - typed - 2
         /\ local \in Anywhere /\ local \in Nat /\ LocalInv
         /\ careful => CursorInv
<1>1. UNCHANGED <<terminal_buf_count, typed, careful, line, press_over>>
  BY DrawsOnly
<1>2. /\ terminal_buf_count \in Nat /\ typed \in Nat /\ typed <= MAX_KEYS
      /\ MAX_KEYS \in Nat /\ terminal_buf_count <= typed
  BY CountTypes DEF ScreenInv, ColumnInv
<1>3. /\ terminal_buf_count - typed - 2 \in Int /\ terminal_buf_count - typed - 2 <= -2
      /\ terminal_buf_count - typed - 2 >= Lowest /\ Lowest \in Int
  BY <1>2 DEF Lowest
<1>4. pc # "top" => console \in Consoles
  BY DEF TypeInv
<1>5. pc # "top" => /\ console.row \in Shown /\ console.column \in 0 .. SIZE_MAX_1 - 1
                    /\ col(console) \in Int /\ at(console) \in Int /\ at(console) < End
  BY <1>4, AtIs
<1>6. local \in Anywhere /\ local \in Nat /\ LocalInv
  BY ScreenSizes DEF TypeInv, TypeOK, Anywhere
<1>7. /\ pc # "wrap" => col(console) >= terminal_buf_count - typed - 2
      /\ careful => CursorInv
  BY DEF ScreenInv, ColumnInv, EchoInv
<1>8. QED
  BY <1>1, <1>2, <1>3, <1>4, <1>5, <1>6, <1>7

\* Two consoles with the same row and column.
LEMMA SamePlace ==
  ASSUME NEW a, NEW b, b.row = a.row, b.column = a.column
  PROVE  col(b) = col(a) /\ at(b) = at(a) /\ index(b) = index(a)
BY DEF col, at, index

LEMMA Stored ==
  ASSUME console \in Consoles, NEW cell, NEW what, stores(cell, what)
  PROVE  /\ console'.row = console.row /\ console'.column = console.column
         /\ \A i \in Cells : console'.cells[i] = IF i = cell THEN what ELSE console.cells[i]
<1> DEFINE d == [i \in Cells |-> IF i = cell THEN what ELSE console.cells[i]]
<1>1. console' = [console EXCEPT !.cells = d]
  BY DEF stores
<1> HIDE DEF d
<1>2. /\ console'.row = console.row /\ console'.column = console.column
      /\ console'.cells = d
  BY <1>1 DEF Consoles, ConsolesOf
<1>3. QED
  BY <1>2 DEF d

\* The column at the left: the row is blanked, and the offset of the row read.
LEMMA ScreenBegins ==
  ASSUME KeysFit, TypeInv, ScreenInv,
         putchar_begins \/ putchar_blank \/ putchar_erase \/ putchar_offset
  PROVE  ScreenInv'
<1>1. read_draws
  BY DEF read_draws
<1>2. /\ pc \in {"cursor", "blank", "erase", "offset"}
      /\ pc' \in {"blank", "erase", "offset", "index"}
      /\ (console' = console /\ pc # "erase") \/ (stores(local, "space") /\ pc = "erase")
      /\ pc' = "index" => local' = console.row * VGA_WIDTH
  BY DEF putchar_begins, putchar_blank, putchar_erase, putchar_offset, draws
<1>3. /\ console'.row = console.row /\ console'.column = console.column
      /\ \A i \in Cells : i >= End => console'.cells[i] = console.cells[i]
  <2>1. CASE console' = console
    BY <2>1
  <2>2. CASE stores(local, "space") /\ pc = "erase"
    <3>1. console \in Consoles /\ local < End /\ local \in Nat
      BY <1>1, <2>2, DrawFacts DEF LocalInv
    <3>2. \A i \in Cells : i >= End => i # local
      BY <3>1, CellIs, Sizes
    <3>3. QED
      BY <2>2, <3>1, <3>2, Stored
  <2>3. QED
    BY <1>2, <2>1, <2>2
<1>4. col(console') = col(console)
  BY <1>3, SamePlace
<1>5. ColumnInv' /\ ClockInv' /\ StoreInv'
  <2>1. /\ terminal_buf_count' <= typed'
        /\ col(console') >= terminal_buf_count' - typed' - 2
    BY <1>1, <1>2, <1>4, DrawFacts
  <2>2. QED
    BY <1>2, <1>3, <2>1, ClockStays DEF After
<1>6. EchoInv'
  BY <1>2, <1>3 DEF EchoInv, CursorInv
<1>7. QED
  BY <1>5, <1>6 DEF ScreenInv

\* The index is computed with a row of the screen, whatever the row has become.
LEMMA ScreenIndex ==
  ASSUME KeysFit, TypeInv, ScreenInv, putchar_index PROVE ScreenInv'
<1>1. read_draws
  BY DEF read_draws
<1>2. /\ pc = "index" /\ pc' = "put" /\ console' = console
      /\ local' = (local + console.column) % SIZE_MAX_1
  BY DEF putchar_index, draws
<1>3. /\ console \in Consoles /\ col(console) >= Lowest
      /\ careful => local = console.row * VGA_WIDTH
  BY <1>1, <1>2, DrawFacts DEF CursorInv
<1>4. PICK r \in Shown : local = r * VGA_WIDTH
  BY <1>1, <1>2, DrawFacts DEF LocalInv
<1>5. local' \notin Cells \/ local' < End
  <2> DEFINE con == [console EXCEPT !.row = r]
  <2>1. con \in Consoles
    BY <1>3, ConsoleParts DEF Consoles
  <2>2. con.row = r /\ con.column = console.column
    BY <1>3 DEF Consoles, ConsolesOf
  <2> HIDE DEF con
  <2>3. col(con) >= Lowest /\ index(con) = local'
    BY <1>2, <1>3, <1>4, <2>2 DEF col, index
  <2>4. at(con) \in Int /\ at(con) < End
    BY <2>1, AtIs
  <2>5. index(con) = at(con) \/ index(con) \notin Cells
    BY <2>1, <2>3, <2>4, IndexIs
  <2>6. QED
    BY <2>3, <2>4, <2>5
<1>6. ColumnInv' /\ ClockInv' /\ StoreInv'
  <2>1. /\ terminal_buf_count' <= typed'
        /\ col(console') >= terminal_buf_count' - typed' - 2
    BY <1>1, <1>2, DrawFacts
  <2>2. QED
    BY <1>2, <1>5, <2>1, ClockStays DEF After
<1>7. EchoInv'
  <2>1. careful => local' = index(console')
    BY <1>2, <1>3 DEF index
  <2>2. careful' = careful
    BY <1>1, DrawFacts
  <2>3. index(console)' = index(console')
    BY DEF index
  <2>4. QED
    BY <1>2, <2>1, <2>2, <2>3 DEF EchoInv, CursorInv
<1>8. QED
  BY <1>6, <1>7 DEF ScreenInv

\* The cursor is stored, and the column read.
LEMMA ScreenPuts ==
  ASSUME KeysFit, TypeInv, ScreenInv, putchar_put \/ putchar_next PROVE ScreenInv'
<1>1. read_draws
  BY DEF read_draws
<1>2. \/ pc = "put" /\ pc' = "next" /\ stores(local, "cursor")
      \/ /\ pc = "next" /\ pc' = "column" /\ console' = console
         /\ local' = console.column
  BY DEF putchar_put, putchar_next, draws
<1>3. /\ console \in Consoles /\ col(console) \in Int /\ at(console) \in Int
      /\ col(console) >= terminal_buf_count - typed - 2 /\ col(console) >= Lowest
      /\ at(console) < End
  BY <1>1, <1>2, DrawFacts
<1>4. /\ console'.row = console.row /\ console'.column = console.column
      /\ \A i \in Cells : i >= End => console'.cells[i] = console.cells[i]
  <2>1. CASE console' = console
    BY <2>1
  <2>2. CASE pc = "put" /\ stores(local, "cursor")
    <3>1. local \notin Cells \/ local < End
      BY <2>2 DEF ScreenInv, StoreInv
    <3>2. local \in Nat
      BY <1>1, DrawFacts
    <3>3. \A i \in Cells : i >= End => i # local
      BY <3>1, <3>2, CellIs, Sizes
    <3>4. QED
      BY <1>3, <2>2, <3>3, Stored
  <2>3. QED
    BY <1>2, <2>1, <2>2
<1>5. col(console') = col(console) /\ at(console') = at(console)
  BY <1>4, SamePlace
<1>6. ColumnInv' /\ ClockInv' /\ StoreInv'
  <2>1. /\ terminal_buf_count' <= typed'
        /\ col(console') >= terminal_buf_count' - typed' - 2
    BY <1>1, <1>3, <1>5, DrawFacts
  <2>2. pc' = "column" => signed(local') >= terminal_buf_count' - typed' - 2
    BY <1>1, <1>2, <1>3, DrawFacts DEF col
  <2>3. QED
    BY <1>2, <1>4, <2>1, <2>2, ClockStays DEF After
<1>7. EchoInv'
  <2>1. ASSUME careful
        PROVE  at(console') < 0 \/ console'.cells[at(console')] = "cursor"
    <3>1. CursorInv
      BY <1>1, <2>1, DrawFacts
    <3>2. CASE pc = "put" /\ stores(local, "cursor") /\ at(console) >= 0
      <4>1. local = index(console) /\ index(console) = at(console)
        BY <1>3, <3>1, <3>2, IndexIs DEF CursorInv
      <4>2. at(console) \in Cells
        BY <1>3, <3>2, CellIs
      <4>3. QED
        BY <1>3, <1>5, <3>2, <4>1, <4>2, Stored
    <3>3. CASE pc = "next" /\ console' = console
      BY <3>1, <3>3 DEF CursorInv, Marked
    <3>4. QED
      BY <1>2, <1>3, <1>5, <3>2, <3>3
  <2>2. careful' = careful
    BY <1>1, DrawFacts
  <2>3. at(console)' = at(console')
    BY DEF at, col, signed
  <2>4. pc' = "column" => local' = console'.column
    BY <1>2, <1>4
  <2>5. QED
    BY <1>2, <2>1, <2>2, <2>3, <2>4 DEF EchoInv, CursorInv, Marked
<1>8. QED
  BY <1>6, <1>7 DEF ScreenInv

\* The column that was read goes to the right.
LEMMA ScreenColumn ==
  ASSUME KeysFit, TypeInv, ScreenInv, putchar_column PROVE ScreenInv'
<1> DEFINE after == (local + 1) % SIZE_MAX_1
           con   == [console EXCEPT !.column = local]
           b     == console_putchar(con, "cursor")
<1>1. read_draws
  BY DEF read_draws
<1>2. /\ pc = "column" /\ pc' = IF after = VGA_WIDTH THEN "wrap" ELSE "back"
      /\ console' = [console EXCEPT !.column = after]
  BY DEF putchar_column, draws
<1>3. /\ console \in Consoles /\ local \in Anywhere
      /\ terminal_buf_count - typed - 2 >= Lowest /\ Lowest \in Int
      /\ terminal_buf_count - typed - 2 <= -2 /\ terminal_buf_count - typed - 2 \in Int
      /\ careful => CursorInv
  BY <1>1, <1>2, DrawFacts
<1>4. con \in Consoles
  BY <1>3, ConsoleParts DEF Consoles
<1>5. con.row = console.row /\ con.column = local
  BY <1>3 DEF Consoles, ConsolesOf
<1>6. col(con) = signed(local) /\ signed(local) >= terminal_buf_count - typed - 2
  BY <1>2, <1>5 DEF col, ScreenInv, ColumnInv
<1>7. /\ console'.row = console.row /\ console'.column = after
      /\ console'.cells = console.cells
  <2> HIDE DEF after
  <2>1. QED
    BY <1>2, <1>3 DEF Consoles, ConsolesOf
<1>8. "cursor" \in Glyph /\ "cursor" # "newline"
  BY DEF Glyph
<1>9. col(con) \in Int /\ at(con) \in Int /\ at(con) < End /\ col(con) >= Lowest
  BY <1>3, <1>4, <1>6, AtIs
<1>10. after # VGA_WIDTH => b.row = console.row /\ b.column = after
  BY <1>5, <1>8 DEF console_putchar
<1>11. /\ col(b) = IF col(con) + 1 = VGA_WIDTH THEN 0 ELSE col(con) + 1
       /\ at(b) = at(con) + 1 \/ at(b) = 0
  BY <1>4, <1>8, <1>9, PutAt
<1>12. after # VGA_WIDTH => col(console') = col(b) /\ at(console') = at(b)
  <2> HIDE DEF after, b
  <2>1. QED
    BY <1>7, <1>10, SamePlace
<1> HIDE DEF con, b
<1>13. EchoInv'
  <2>1. careful' = careful
    BY <1>1, DrawFacts
  <2>2. ASSUME careful
        PROVE  local = console.column /\ Marked(at(console)) /\ at(console) = at(con)
    <3>1. local = console.column /\ Marked(at(console))
      BY <1>2, <1>3, <2>2 DEF CursorInv
    <3>2. QED
      BY <1>5, <3>1, SamePlace
  <2>3. ASSUME careful, after # VGA_WIDTH
        PROVE  at(console') - 1 < 0 \/ console'.cells[at(console') - 1] = "cursor"
    <3>1. at(console') = at(con) + 1 \/ at(console') = 0
      BY <1>11, <1>12, <2>3
    <3>2. CASE at(console') = at(con) + 1
      BY <1>7, <1>9, <2>2, <2>3, <3>2 DEF Marked
    <3>3. CASE at(console') = 0
      BY <3>3
    <3>4. QED
      BY <3>1, <3>2, <3>3
  <2>4. ASSUME careful, after = VGA_WIDTH
        PROVE  \/ console'.row * VGA_WIDTH + VGA_WIDTH - 1 < 0
               \/ console'.cells[console'.row * VGA_WIDTH + VGA_WIDTH - 1] = "cursor"
    <3>1. local \in Nat /\ local < SIZE_MAX_1
      BY <1>3, Sizes DEF Anywhere
    <3>2. local + 1 = VGA_WIDTH
      <4>1. CASE local + 1 < SIZE_MAX_1
        <5>1. after = local + 1
          BY <3>1, <4>1, ModSmall, Sizes
        <5>2. QED
          BY <2>4, <5>1
      <4>2. CASE local + 1 = SIZE_MAX_1
        <5>1. after = 0
          BY <3>1, <4>2, ModSmall, Sizes
        <5>2. QED
          BY <2>4, <5>1, Sizes
      <4>3. QED
        BY <3>1, <4>1, <4>2, Sizes
    <3>3. signed(local) = VGA_WIDTH - 1
      BY <3>1, <3>2, Sizes DEF signed
    <3>4. PICK p \in Nat : p = console.row * VGA_WIDTH
      BY <1>3, AtIs
    <3>5. at(con) = p + (VGA_WIDTH - 1)
      BY <1>5, <1>6, <3>3, <3>4 DEF at
    <3>6. at(con) = console'.row * VGA_WIDTH + VGA_WIDTH - 1
      BY <1>7, <3>4, <3>5, Sizes
    <3>7. QED
      BY <1>7, <2>2, <2>4, <3>6 DEF Marked
  <2>5. at(console)' = at(console')
    BY DEF at, col, signed
  <2> HIDE DEF after
  <2>6. QED
    BY <1>2, <2>1, <2>3, <2>4, <2>5 DEF EchoInv, CursorInv, Marked
<1>14. terminal_buf_count' = terminal_buf_count /\ typed' = typed /\ terminal_buf_count <= typed
  BY <1>1, DrawFacts
<1>15. CASE after # VGA_WIDTH
  <2>1. pc' = "back" /\ col(console') \in Int /\ col(console') = col(b)
    BY <1>2, <1>9, <1>11, <1>12, <1>15
  <2>2. /\ col(console') > terminal_buf_count' - typed' - 2
        /\ col(console') >= terminal_buf_count' - typed' - 2
    BY <1>3, <1>6, <1>9, <1>11, <1>14, <2>1
  <2>3. ColumnInv' /\ ClockInv' /\ StoreInv'
    BY <1>7, <1>14, <2>1, <2>2, ClockStays
  <2>4. QED
    BY <1>13, <2>3 DEF ScreenInv
<1>16. CASE after = VGA_WIDTH
  <2>1. pc' = "wrap"
    BY <1>2, <1>16
  <2>2. ColumnInv' /\ StoreInv'
    BY <1>14, <2>1 DEF ColumnInv, StoreInv, After
  <2>3. ClockInv'
    BY <1>7 DEF ScreenInv, ClockInv
  <2>4. QED
    BY <1>13, <2>2, <2>3 DEF ScreenInv
<1>17. QED
  BY <1>15, <1>16

\* The column wraps, and the row that was read goes down.
LEMMA ScreenWraps ==
  ASSUME KeysFit, TypeInv, ScreenInv,
         putchar_wrap \/ putchar_down \/ putchar_row \/ putchar_top
  PROVE  ScreenInv'
<1>1. read_draws
  BY DEF read_draws
<1>2. \/ /\ pc = "wrap" /\ pc' = "down" /\ console' = [console EXCEPT !.column = 0]
      \/ /\ pc = "down" /\ pc' = "row" /\ console' = console /\ local' = console.row
      \/ /\ pc = "row" /\ pc' = IF local + 1 = VGA_HEIGHT - 1 THEN "top" ELSE "back"
         /\ console' = [console EXCEPT !.row = local + 1]
      \/ /\ pc = "top" /\ pc' = "back" /\ console' = [console EXCEPT !.row = 0]
  BY DEF putchar_wrap, putchar_down, putchar_row, putchar_top, draws
<1>3. console \in Consoles \/ console \in Wide
  BY DEF TypeInv
<1>4. /\ console'.cells = console.cells
      /\ pc = "wrap" => console'.row = console.row /\ console'.column = 0
      /\ pc # "wrap" => console'.column = console.column
      /\ pc = "row" => console'.row = local + 1
      /\ pc = "top" => console'.row = 0
  BY <1>2, <1>3 DEF Consoles, Wide, ConsolesOf
<1>5. /\ terminal_buf_count' = terminal_buf_count /\ typed' = typed /\ careful' = careful
      /\ terminal_buf_count <= typed
      /\ terminal_buf_count - typed - 2 \in Int /\ terminal_buf_count - typed - 2 <= -2
      /\ careful => CursorInv
  BY <1>1, DrawFacts
<1>6. col(console') > terminal_buf_count - typed - 2
      /\ col(console') >= terminal_buf_count - typed - 2
  <2>1. CASE pc = "wrap"
    <3>1. col(console') = 0
      BY <1>4, <2>1, Sizes DEF col, signed
    <3>2. QED
      BY <1>5, <3>1
  <2>2. CASE pc # "wrap"
    <3>1. col(console') = col(console)
      BY <1>4, <2>2 DEF col
    <3>2. col(console) > terminal_buf_count - typed - 2
          /\ col(console) >= terminal_buf_count - typed - 2
      BY <1>2, <2>2 DEF ScreenInv, ColumnInv, After
    <3>3. QED
      BY <3>1, <3>2
  <2>3. QED
    BY <2>1, <2>2
<1>7. ColumnInv' /\ ClockInv' /\ StoreInv'
  BY <1>2, <1>4, <1>5, <1>6, ClockStays
<1>8. EchoInv'
  <2>1. SUFFICES ASSUME careful PROVE CursorInv' /\ pc' # "spin"
    BY <1>5 DEF EchoInv
  <2>2. CursorInv
    BY <1>5, <2>1
  <2>3. CASE pc = "wrap" \/ pc = "down"
    <3>1. /\ Marked(console.row * VGA_WIDTH + VGA_WIDTH - 1)
          /\ pc = "down" => console.column = 0
      BY <2>2, <2>3 DEF CursorInv
    <3>2. console'.row = console.row /\ console'.column = 0
      BY <1>2, <1>4, <2>3, <3>1
    <3>3. \/ console'.row * VGA_WIDTH + VGA_WIDTH - 1 < 0
          \/ console'.cells[console'.row * VGA_WIDTH + VGA_WIDTH - 1] = "cursor"
      BY <1>4, <3>1, <3>2 DEF Marked
    <3>4. QED
      BY <1>2, <2>3, <3>2, <3>3 DEF CursorInv, Marked
  <2>4. CASE pc = "row"
    <3>1. /\ Marked(console.row * VGA_WIDTH + VGA_WIDTH - 1)
          /\ console.column = 0 /\ local = console.row
      BY <2>2, <2>4 DEF CursorInv
    <3>2. console'.row = console.row + 1 /\ console'.column = 0 /\ console.row \in Shown
      BY <1>1, <1>4, <2>4, <3>1, DrawFacts
    <3>3. PICK p \in Nat : p = console.row * VGA_WIDTH
                           /\ (console.row + 1) * VGA_WIDTH = p + VGA_WIDTH
      BY <3>2, ShownIs
    <3>4. col(console') = 0
      BY <3>2, Sizes DEF col, signed
    <3>5. at(console') - 1 = console.row * VGA_WIDTH + VGA_WIDTH - 1
      <4>1. at(console') = (p + VGA_WIDTH) + 0
        BY <3>2, <3>3, <3>4 DEF at
      <4>2. QED
        BY <3>3, <4>1, Sizes
    <3>6. at(console') - 1 < 0 \/ console'.cells[at(console') - 1] = "cursor"
      BY <1>4, <3>1, <3>5 DEF Marked
    <3>7. at(console)' = at(console')
      BY DEF at, col, signed
    <3>8. QED
      BY <1>2, <2>4, <3>2, <3>6, <3>7 DEF CursorInv, Marked
  <2>5. CASE pc = "top"
    <3>1. console'.column = 0 /\ console'.row = 0
      BY <1>4, <2>2, <2>5 DEF CursorInv
    <3>2. at(console') = 0
      <4>1. col(console') = 0 /\ 0 * VGA_WIDTH = 0
        BY <3>1, Sizes DEF col, signed
      <4>2. QED
        BY <3>1, <4>1 DEF at
    <3>3. at(console)' = at(console')
      BY DEF at, col, signed
    <3>4. QED
      BY <1>2, <2>5, <3>2, <3>3 DEF CursorInv, Marked
  <2>6. QED
    BY <1>2, <2>3, <2>4, <2>5
<1>9. QED
  BY <1>7, <1>8 DEF ScreenInv

\* The column goes back to the cursor.
LEMMA ScreenBack ==
  ASSUME KeysFit, TypeInv, ScreenInv, read_back PROVE ScreenInv'
<1>1. read_draws
  BY DEF read_draws
<1>2. console' = left(console) /\ pc = "back" /\ pc' = "bottom"
  BY DEF read_back, draws
<1>3. /\ console \in Consoles /\ col(console) \in Int /\ at(console) \in Int
      /\ terminal_buf_count - typed - 2 >= Lowest /\ Lowest \in Int
      /\ terminal_buf_count - typed - 2 \in Int /\ terminal_buf_count <= typed
      /\ UNCHANGED <<terminal_buf_count, typed, careful>>
      /\ careful => CursorInv
  BY <1>1, <1>2, DrawFacts
<1>4. col(console) > terminal_buf_count - typed - 2
  BY <1>2 DEF ScreenInv, ColumnInv, After
<1>5. col(console) > Lowest
  BY <1>3, <1>4
<1>6. /\ col(console') = col(console) - 1 /\ at(console') = at(console) - 1
      /\ console'.cells = console.cells
  BY <1>2, <1>3, <1>5, LeftAt
<1>7. col(console') >= terminal_buf_count - typed - 2
  BY <1>3, <1>4, <1>6
<1>8. ColumnInv' /\ ClockInv' /\ StoreInv'
  BY <1>2, <1>3, <1>6, <1>7, ClockStays DEF After
<1>9. EchoInv'
  <2>1. at(console)' = at(console')
    BY DEF at, col, signed
  <2>2. careful => at(console') < 0 \/ console'.cells[at(console')] = "cursor"
    BY <1>2, <1>3, <1>6 DEF CursorInv, Marked
  <2>3. QED
    BY <1>2, <1>3, <2>1, <2>2 DEF EchoInv, CursorInv, Marked
<1>10. QED
  BY <1>8, <1>9 DEF ScreenInv

\* The rows below it, but for that of the clock, are cleared; the read then
\* waits for a line of which nothing is typed yet.
LEMMA ScreenBottom ==
  ASSUME KeysFit, TypeInv, LinesInv, ScreenInv, clear_bottom \/ clear_below
  PROVE  ScreenInv'
<1>1. read_draws
  BY DEF read_draws
<1>2. /\ pc \in {"bottom", "below"} /\ pc' \in {"below", "spin"}
      /\ \/ console' = console /\ pc = "bottom"
         \/ stores(local, "space") /\ pc = "below"
      /\ pc' = "below" =>
           \/ pc = "bottom" /\ local' = (console.row + 1) * VGA_WIDTH
           \/ pc = "below" /\ local' = local + 1
  BY DEF clear_bottom, clear_below, draws
<1>3. /\ console \in Consoles /\ console.row \in Shown
      /\ col(console) \in Int /\ at(console) \in Int /\ at(console) < End
      /\ col(console) >= terminal_buf_count - typed - 2
      /\ terminal_buf_count <= typed /\ local \in Nat /\ LocalInv
      /\ UNCHANGED <<terminal_buf_count, typed, careful, line, press_over>>
      /\ careful => CursorInv
  BY <1>1, <1>2, DrawFacts
<1>4. /\ console'.row = console.row /\ console'.column = console.column
      /\ \A i \in Cells : i >= End => console'.cells[i] = console.cells[i]
      /\ \A i \in Cells : pc = "below" /\ i < local => console'.cells[i] = console.cells[i]
      /\ pc = "bottom" => console'.cells = console.cells
  <2>1. CASE console' = console
    BY <2>1
  <2>2. CASE stores(local, "space") /\ pc = "below"
    <3>1. local < End
      BY <1>3, <2>2 DEF LocalInv
    <3>2. \A i \in Cells : i >= End \/ i < local => i # local
      BY <1>3, <3>1, CellIs, Sizes
    <3>3. QED
      BY <1>3, <2>2, <3>2, Stored
  <2>3. QED
    BY <1>2, <2>1, <2>2
<1>5. col(console') = col(console) /\ at(console') = at(console)
  BY <1>4, SamePlace
<1>6. ColumnInv' /\ ClockInv' /\ StoreInv'
  BY <1>2, <1>3, <1>4, <1>5, ClockStays DEF After
<1>7. EchoInv'
  <2>1. SUFFICES ASSUME careful
                 PROVE  CursorInv' /\ (pc' = "spin" => Shows(at(console), line)')
    BY <1>3 DEF EchoInv
  <2>2. at(console)' = at(console')
    BY DEF at, col, signed
  <2>3. Marked(at(console)) /\ (pc = "below" => local > at(console))
    BY <1>2, <1>3, <2>1 DEF CursorInv
  <2>4. at(console') < 0 \/ console'.cells[at(console')] = "cursor"
    <3>1. at(console) >= 0 => at(console) \in Cells
      BY <1>3, CellIs
    <3>2. QED
      BY <1>2, <1>3, <1>4, <1>5, <2>3, <3>1 DEF Marked
  <2>5. pc' = "below" => local' > at(console')
    <3>1. CASE pc = "bottom" /\ local' = (console.row + 1) * VGA_WIDTH
      <4>1. PICK p \in Nat : p = console.row * VGA_WIDTH /\ local' = p + VGA_WIDTH
        BY <1>3, <3>1, ShownIs
      <4>2. at(console) = p + col(console) /\ col(console) < VGA_WIDTH
        BY <1>3, <4>1, AtIs
      <4>3. QED
        BY <1>3, <1>5, <4>1, <4>2, Sizes
    <3>2. CASE pc = "below" /\ local' = local + 1
      BY <1>3, <1>5, <2>3, <3>2
    <3>3. QED
      BY <1>2, <3>1, <3>2
  <2>6. CursorInv'
    BY <1>2, <2>2, <2>4, <2>5 DEF CursorInv, Marked
  <2>7. line = <<>>
    BY <1>2, <2>1 DEF LinesInv, Cursor
  <2>8. Shows(at(console), line)'
    <3>1. line' = <<>> /\ Len(line') = 0
      BY <1>3, <2>7
    <3>2. QED
      BY <1>3, <1>5, <2>2, <2>4, <3>1 DEF Shows
  <2>9. QED
    BY <2>6, <2>8
<1>8. QED
  BY <1>6, <1>7 DEF ScreenInv

LEMMA ScreenDraws ==
  ASSUME KeysFit, TypeInv, LinesInv, ScreenInv, read_draws PROVE ScreenInv'
BY ScreenBegins, ScreenIndex, ScreenPuts, ScreenColumn, ScreenWraps, ScreenBack,
   ScreenBottom DEF read_draws

\* The same for a key: the interrupted read keeps its place and its locals.
LEMMA KeyStays ==
  ASSUME KeysFit, TypeInv, ScreenInv, pc \notin Torn, pc' = pc, local' = local,
         terminal_buf_count' \in Nat, typed' \in Nat, col(console') \in Int,
         terminal_buf_count' <= typed',
         terminal_buf_count' - typed' <= terminal_buf_count - typed,
         col(console') >= terminal_buf_count' - typed' - 2,
         pc \in After => col(console') > terminal_buf_count' - typed' - 2,
         \A i \in Cells : i >= End => console'.cells[i] = console.cells[i]
  PROVE  ColumnInv' /\ ClockInv' /\ StoreInv'
<1>1. pc' # "wrap" /\ (pc' \in After => col(console') > terminal_buf_count' - typed' - 2)
  BY DEF Torn
<1>2. pc' = "put" => local' \notin Cells \/ local' < End
  BY DEF ScreenInv, StoreInv
<1>3. ASSUME pc' = "column" PROVE signed(local') >= terminal_buf_count' - typed' - 2
  <2>1. signed(local) >= terminal_buf_count - typed - 2
    BY <1>3 DEF ScreenInv, ColumnInv
  <2>2. terminal_buf_count \in Nat /\ typed \in Nat
    BY ColumnIs DEF ScreenInv
  <2>3. local \in 0 .. SIZE_MAX_1 - 1
    BY DEF TypeInv, TypeOK
  <2>4. signed(local) \in Int
    BY <2>3, Sizes DEF signed
  <2>5. PICK k \in Int : k = signed(local) /\ k = signed(local')
    BY <2>4
  <2>6. k >= terminal_buf_count' - typed' - 2
    <3>1. ASSUME NEW a \in Int, NEW b \in Int, NEW c \in Int, NEW d \in Int,
                 a - b <= c - d, k >= c - d - 2
          PROVE  k >= a - b - 2
      BY <3>1
    <3>2. k >= terminal_buf_count - typed - 2
      BY <2>1, <2>5
    <3>3. /\ terminal_buf_count' \in Int /\ typed' \in Int
          /\ terminal_buf_count \in Int /\ typed \in Int
      BY <2>2
    <3>4. QED
      BY <3>1, <3>2, <3>3
  <2>7. QED
    BY <2>5, <2>6
<1>4. QED
  BY <1>1, <1>2, <1>3, ClockStays

\* A key whose character fits is echoed behind the line if a program waits.
LEMMA ScreenPut ==
  ASSUME KeysFit, TypeInv, LinesInv, ScreenInv, pc \notin Torn,
         NEW c, c.ch \in {"char", "newline"}, terminal_get_char(c), PutsCharacter(c),
         careful' =>
           /\ careful /\ pc = "spin" /\ press_over = 0
           /\ press_over' = 0 => c.ch = "char" /\ line' = Append(line, c)
  PROVE  ScreenInv'
<1>1. /\ terminal_buf_count' = terminal_buf_count + 1 /\ typed' = typed + 1 /\ pc' = pc
      /\ terminal_buf_count < MAX_BUFF
  BY DEF PutsCharacter
<1>0. local' = local
  BY DEF terminal_get_char, locals
<1>2. /\ console \in Consoles /\ col(console) \in Int /\ at(console) \in Int
      /\ at(console) < End /\ col(console) >= Lowest
      /\ terminal_buf_count - typed - 2 <= -2
      /\ terminal_buf_count \in Nat /\ typed \in Nat
  BY ColumnIs DEF ScreenInv
<1>3. console' = IF user_input = 1 THEN echo(c) ELSE console
  <2>1. ~clear_full
    BY <1>1, CountTypes DEF clear_full
  <2>2. QED
    BY <2>1 DEF terminal_get_char, put_in_buffer
<1>4. /\ terminal_buf_count <= typed /\ col(console) >= terminal_buf_count - typed - 2
      /\ pc \in After => col(console) > terminal_buf_count - typed - 2
  BY DEF ScreenInv, ColumnInv, Torn
<1>5. CASE user_input # 1
  <2>1. console' = console /\ pc' = "user"
    BY <1>1, <1>3, <1>5 DEF TypeInv
  <2>2. EchoInv'
    BY <2>1 DEF EchoInv, CursorInv
  <2>3. col(console') = col(console)
    BY <2>1
  <2>4. terminal_buf_count' <= typed' /\ col(console) >= terminal_buf_count' - typed' - 2
    BY <1>1, <1>2, <1>4
  <2>5. ColumnInv' /\ ClockInv' /\ StoreInv'
    <3>1. /\ terminal_buf_count' \in Nat /\ typed' \in Nat /\ pc \notin After
          /\ terminal_buf_count' - typed' <= terminal_buf_count - typed
      BY <1>1, <1>2, <2>1 DEF After
    <3>2. QED
      BY <1>0, <1>1, <1>2, <2>1, <2>3, <2>4, <3>1, KeyStays
  <2>6. QED
    BY <2>2, <2>5 DEF ScreenInv
<1>6. CASE user_input = 1
  <2>1. /\ console' \in Consoles
        /\ col(console') >= -1 \/ col(console') = col(console) + 1
        /\ \A i \in Cells : i >= End => console'.cells[i] = console.cells[i]
    BY <1>2, <1>3, <1>6, EchoAt
  <2>2. col(console') \in Int /\ at(console') \in Int /\ at(console') < End
    BY <2>1, AtIs
  <2>3. terminal_buf_count' - typed' - 2 = terminal_buf_count - typed - 2
        /\ terminal_buf_count' <= typed'
    BY <1>1, <1>2, <1>4
  <2>4. col(console') > terminal_buf_count - typed - 2
    BY <1>2, <1>4, <2>1, <2>2
  <2>5. col(console') >= terminal_buf_count - typed - 2
    BY <1>2, <2>2, <2>4
  <2>6. ColumnInv' /\ ClockInv' /\ StoreInv'
    <3>1. /\ terminal_buf_count' \in Nat /\ typed' \in Nat
          /\ terminal_buf_count' - typed' <= terminal_buf_count - typed
      BY <1>1, <1>2
    <3>2. QED
      BY <1>0, <1>1, <2>1, <2>2, <2>3, <2>4, <2>5, <3>1, KeyStays
  <2>7. ASSUME careful', pc' = "spin", press_over' = 0
        PROVE  Shows(at(console), line)'
    <3>1. /\ c.ch = "char" /\ careful /\ pc = "spin" /\ press_over = 0
          /\ line' = Append(line, c)
      BY <2>7
    <3>2. Shows(at(console), line)
      BY <3>1 DEF ScreenInv, EchoInv
    <3>3. /\ at(console') = at(console) + 1 \/ at(console') <= 0
          /\ \A i \in Cells : i < at(console) /\ i < at(console')
                                => console'.cells[i] = console.cells[i]
          /\ at(console') = at(console) + 1 =>
               \A i \in Cells : /\ i = at(console) => console'.cells[i] = c.ch
                                /\ i = at(console') => console'.cells[i] = "cursor"
      BY <1>2, <1>3, <1>6, <3>1, EchoAt
    <3>4. line \in Seq(Char) /\ Len(line) \in Nat
      BY LenProperties DEF TypeInv
    <3>5. PICK k \in Nat : k = Len(line)
      BY <3>4
    <3>6. /\ Len(line') = k + 1
          /\ \A i \in 1 .. k : line'[i] = line[i]
          /\ line'[k + 1] = c
      <4>1. ASSUME NEW i \in 1 .. k PROVE line'[i] = line[i]
        BY <3>1, <3>4, <3>5 DEF Char
      <4>2. QED
        BY <3>1, <3>4, <3>5, <4>1
    <3>7. CASE at(console') < k + 1
      <4>1. at(console)' = at(console')
        BY DEF at, col, signed
      <4>2. QED
        BY <3>6, <3>7, <4>1 DEF Shows
    <3>8. CASE at(console') >= k + 1
      <4>1. at(console') = at(console) + 1 /\ at(console) >= k
        BY <1>2, <2>2, <3>3, <3>8
      <4>2. console.cells[at(console)] = "cursor"
            /\ \A i \in 1 .. k : console.cells[at(console) - k + i - 1] = line[i].ch
        BY <1>2, <3>2, <3>5, <4>1 DEF Shows
      <4>3. at(console) \in Cells /\ at(console') \in Cells
        <5>1. at(console) >= 0 /\ at(console') >= 0
          BY <1>2, <3>5, <4>1
        <5>2. QED
          BY <1>2, <2>2, <5>1, CellIs
      <4>4. console'.cells[at(console')] = "cursor" /\ console'.cells[at(console)] = c.ch
        BY <3>3, <4>1, <4>3
      <4>5. ASSUME NEW i \in 1 .. k + 1
            PROVE  console'.cells[at(console') - (k + 1) + i - 1] = line'[i].ch
        <5>1. CASE i = k + 1
          <6>1. at(console') - (k + 1) + i - 1 = at(console)
            BY <1>2, <4>1, <5>1
          <6>2. QED
            BY <3>6, <4>4, <5>1, <6>1
        <5>2. CASE i # k + 1
          <6>1. i \in 1 .. k
            BY <5>2
          <6>2. PICK q \in Int : q = at(console) - k + i - 1
            BY <1>2, <6>1
          <6>3. /\ q = at(console') - (k + 1) + i - 1
                /\ q < at(console) /\ q < at(console') /\ q \in Cells
            <7>1. i \in Nat /\ 1 <= i /\ i <= k
              BY <6>1
            <7>2. /\ q = at(console') - (k + 1) + i - 1
                  /\ q < at(console) /\ q < at(console') /\ q >= 0
              BY <1>2, <4>1, <6>2, <7>1
            <7>3. q < End
              <8>1. at(console) \in Int /\ at(console) <= End /\ End \in Nat
                BY <1>2, Sizes
              <8>2. QED
                BY <6>2, <7>2, <8>1
            <7>4. QED
              BY <7>2, <7>3, CellIs
          <6>4. console'.cells[q] = console.cells[q]
            BY <3>3, <6>3
          <6>5. QED
            BY <3>6, <4>2, <6>1, <6>2, <6>3, <6>4
        <5>3. QED
          BY <5>1, <5>2
      <4>6. at(console)' = at(console')
        BY DEF at, col, signed
      <4>7. QED
        BY <3>6, <4>4, <4>5, <4>6 DEF Shows
    <3>9. QED
      BY <2>2, <3>5, <3>7, <3>8
  <2>8. EchoInv'
    <3>1. careful' => pc' = "spin"
      BY <1>1
    <3>2. QED
      BY <2>7, <3>1 DEF EchoInv, CursorInv
  <2>9. QED
    BY <2>6, <2>8 DEF ScreenInv
<1>7. QED
  BY <1>5, <1>6

\* A key that finds the buffer full has a message written and the line lost.
LEMMA ScreenFull ==
  ASSUME KeysFit, TypeInv, ScreenInv, pc \notin Torn,
         NEW c, terminal_get_char(c), ClearsFull,
         careful' => pc = "spin" /\ press_over' = 1
  PROVE  ScreenInv'
<1>1. /\ terminal_buf_count' = 0 /\ typed' = typed + 1
      /\ pc' = pc /\ local' = local
  BY DEF ClearsFull, terminal_get_char, locals
<1>2. /\ console \in Consoles /\ col(console) >= Lowest
      /\ typed \in Nat /\ terminal_buf_count \in Nat
  BY ColumnIs DEF ScreenInv
<1>3. console' = put_all(console, <<"text", "newline">>)
  <2>1. ~put_in_buffer(c)
    BY CountTypes DEF ClearsFull, put_in_buffer
  <2>2. QED
    BY <2>1 DEF terminal_get_char, clear_full
<1> DEFINE b == console_putchar(console, "text")
<1>4. b \in Consoles /\ Written(console, b, "text")
  <2>1. "text" \in Glyph
    BY DEF Glyph
  <2>2. QED
    BY <1>2, <2>1, PutAt, PutCells
<1>5. console' = console_putchar(b, "newline")
  BY <1>3, PutTwo
<1> HIDE DEF b
<1>6. /\ col(console') = 0
      /\ \A i \in Cells : i >= End => console'.cells[i] = b.cells[i]
  BY <1>4, <1>5, NewlineIs
<1>7. \A i \in Cells : i >= End => console'.cells[i] = console.cells[i]
  BY <1>4, <1>6 DEF Written
<1>8. /\ terminal_buf_count' <= typed'
      /\ 0 > terminal_buf_count' - typed' - 2 /\ 0 >= terminal_buf_count' - typed' - 2
  BY <1>1, <1>2
<1>9. ColumnInv' /\ ClockInv' /\ StoreInv'
  <2>1. /\ terminal_buf_count' \in Nat /\ typed' \in Nat
        /\ terminal_buf_count' - typed' <= terminal_buf_count - typed
    BY <1>1, <1>2
  <2>2. QED
    BY <1>1, <1>6, <1>7, <1>8, <2>1, KeyStays
<1>10. EchoInv'
  BY <1>1 DEF EchoInv, CursorInv
<1>11. QED
  BY <1>9, <1>10 DEF ScreenInv

LEMMA ScreenCharacter ==
  ASSUME KeysFit, TypeInv, LinesInv, ScreenInv, pc \notin Torn, key_character
  PROVE  ScreenInv'
<1> DEFINE c == [ch |-> "char", id |-> typed + 1]
<1>1. terminal_get_char(c) /\ follow(Append(line, c), lines) /\ press_over' = press_over
  BY DEF key_character
<1>2. c.ch = "char"
  OBVIOUS
<1> HIDE DEF c
<1>3. careful' =>
        /\ careful /\ pc = "spin" /\ press_over = 0 /\ Len(Append(line, c)) < MAX_BUFF
        /\ line' = Append(line, c)
  BY <1>1, CarefulFollow
<1>4. CASE PutsCharacter(c)
  BY <1>1, <1>2, <1>3, <1>4, ScreenPut
<1>5. CASE ClearsFull
  <2>1. ASSUME careful' PROVE FALSE
    <3>1. line \in Seq(Char) /\ Len(line) < MAX_BUFF
          /\ line = Chunk(terminal_buffer, terminal_buf_count)
      BY <1>3, <2>1 DEF LinesInv, TypeInv
    <3>2. Len(line) = MAX_BUFF
      BY <1>5, <3>1, ChunkType DEF ClearsFull
    <3>3. QED
      BY <3>1, <3>2, CountTypes
  <2>2. QED
    BY <1>1, <1>5, <2>1, ScreenFull
<1>6. QED
  BY <1>1, <1>4, <1>5, CharacterEffect

LEMMA ScreenEnter ==
  ASSUME KeysFit, TypeInv, LinesInv, ScreenInv, pc \notin Torn, key_enter
  PROVE  ScreenInv'
<1> DEFINE c == [ch |-> "newline", id |-> typed + 1]
<1>1. /\ terminal_get_char(c) /\ press_over' = 1
      /\ follow(<<>>, Append(lines, Append(line, c)))
  BY DEF key_enter, pressed
<1>2. c.ch = "newline"
  OBVIOUS
<1> HIDE DEF c
<1>3. careful' => careful /\ pc = "spin" /\ press_over = 0
  BY <1>1, CarefulFollow
<1>4. CASE PutsCharacter(c)
  BY <1>1, <1>2, <1>3, <1>4, ScreenPut
<1>5. CASE ClearsFull
  BY <1>1, <1>3, <1>5, ScreenFull
<1>6. QED
  BY <1>1, <1>4, <1>5, CharacterEffect

\* A backspace takes the last character of the line from the screen, too.
LEMMA ScreenErase ==
  ASSUME KeysFit, TypeInv, LinesInv, ScreenInv, pc \notin Torn,
         key_backspace, Erases
  PROVE  ScreenInv'
<1> DEFINE shorter == IF line = <<>> THEN line ELSE SubSeq(line, 1, Len(line) - 1)
<1>1. /\ terminal_buf_count > 0 /\ terminal_buf_count' = terminal_buf_count - 1
      /\ UNCHANGED <<typed, pc, local>>
  BY DEF Erases, key_backspace, locals
<1>2. /\ console' = show_cursor(left(left(console_putchar(console, "space"))))
      /\ press_over' = press_over
      /\ follow(shorter, lines)
  BY <1>1 DEF key_backspace, flags
<1>3. /\ console \in Consoles /\ col(console) \in Int /\ at(console) \in Int
      /\ at(console) < End /\ Lowest \in Int
      /\ terminal_buf_count - typed - 2 >= Lowest
      /\ terminal_buf_count \in Nat /\ typed \in Nat
  BY ColumnIs DEF ScreenInv
<1>4. /\ terminal_buf_count <= typed /\ col(console) >= terminal_buf_count - typed - 2
      /\ pc \in After => col(console) > terminal_buf_count - typed - 2
  BY DEF ScreenInv, ColumnInv, Torn
<1>5. -(MAX_KEYS + 2) = Lowest /\ typed <= MAX_KEYS /\ MAX_KEYS \in Nat
  BY CountTypes DEF Lowest
<1>6. col(console) > Lowest
  BY <1>1, <1>3, <1>4, <1>5
<1>7. /\ console' \in Consoles
      /\ col(console') >= -2 \/ col(console') = col(console) - 1
      /\ at(console') = at(console) - 1 \/ at(console') < 0
      /\ \A i \in Cells : i >= End => console'.cells[i] = console.cells[i]
      /\ at(console') >= 0 =>
           \A i \in Cells : /\ i < at(console') => console'.cells[i] = console.cells[i]
                            /\ i = at(console') => console'.cells[i] = "cursor"
  BY <1>2, <1>3, <1>6, EraseAt
<1>8. col(console') \in Int /\ at(console') \in Int /\ at(console') < End
  BY <1>7, AtIs
<1>9. terminal_buf_count' - typed' - 2 = terminal_buf_count - typed - 3
      /\ terminal_buf_count' <= typed'
  BY <1>1, <1>3, <1>4
<1>10. /\ col(console') >= terminal_buf_count - typed - 3
       /\ pc \in After => col(console') > terminal_buf_count - typed - 3
  BY <1>3, <1>4, <1>7, <1>8
<1>11. ColumnInv' /\ ClockInv' /\ StoreInv'
  <2>1. /\ terminal_buf_count' \in Nat /\ typed' \in Nat
        /\ terminal_buf_count' - typed' <= terminal_buf_count - typed
    BY <1>1, <1>3
  <2>2. QED
    BY <1>1, <1>7, <1>8, <1>9, <1>10, <2>1, KeyStays
<1>12. ASSUME careful' PROVE Shows(at(console), line)'
  <2>1. /\ careful /\ pc = "spin" /\ press_over = 0
        /\ line' = shorter
    <3> HIDE DEF shorter
    <3>1. QED
      BY <1>2, <1>12, CarefulFollow
  <2>2. Shows(at(console), line) /\ line = Chunk(terminal_buffer, terminal_buf_count)
    BY <2>1 DEF ScreenInv, EchoInv, LinesInv
  <2>3. line # <<>> /\ line \in Seq(Char)
    BY <2>2, ChunkErase DEF TypeInv
  <2>4. PICK k \in Nat : Len(line) = k + 1
    <3>1. Len(line) \in Nat /\ Len(line) # 0
      BY <2>3, EmptySeq, LenProperties
    <3>2. Len(line) - 1 \in Nat /\ Len(line) = (Len(line) - 1) + 1
      BY <3>1
    <3>3. QED
      BY <3>2
  <2>5. Len(line') = k /\ \A i \in 1 .. k : line'[i] = line[i]
    <3>1. line' = SubSeq(line, 1, k)
      BY <2>1, <2>3, <2>4
    <3>2. QED
      BY <2>3, <2>4, <3>1, SubSeqProperties
  <2>6. at(console)' = at(console')
    BY DEF at, col, signed
  <2>7. CASE at(console') < k
    BY <2>5, <2>6, <2>7 DEF Shows
  <2>8. CASE at(console') >= k
    <3>1. at(console') = at(console) - 1 /\ at(console') >= 0 /\ at(console) >= k + 1
      BY <1>3, <1>7, <1>8, <2>8
    <3>2. \A i \in 1 .. k + 1 :
            console.cells[at(console) - (k + 1) + i - 1] = line[i].ch
      BY <1>3, <2>2, <2>4, <3>1 DEF Shows
    <3>3. at(console') \in Cells
      BY <1>8, <3>1, CellIs, Sizes
    <3>4. console'.cells[at(console')] = "cursor"
      BY <1>7, <3>1, <3>3
    <3>5. ASSUME NEW i \in 1 .. k
          PROVE  console'.cells[at(console') - k + i - 1] = line'[i].ch
      <4>1. i \in 1 .. k + 1
        OBVIOUS
      <4>2. PICK q \in Int : q = at(console') - k + i - 1
        BY <1>8
      <4>3. /\ q = at(console) - (k + 1) + i - 1 /\ q \in Cells /\ q < at(console')
        BY <1>3, <1>8, <2>8, <3>1, <4>2, CellIs, Sizes
      <4>4. console'.cells[q] = console.cells[q]
        BY <1>7, <3>1, <4>3
      <4>5. QED
        BY <2>5, <3>2, <4>1, <4>2, <4>3, <4>4
    <3>6. QED
      BY <2>5, <2>6, <3>4, <3>5 DEF Shows
  <2>9. QED
    BY <1>8, <2>7, <2>8
<1>13. EchoInv'
  <2>1. careful' => pc' = "spin"
    BY <1>1, <1>2, CarefulFollow
  <2>2. QED
    BY <1>12, <2>1 DEF EchoInv, CursorInv
<1>14. QED
  BY <1>11, <1>13 DEF ScreenInv

LEMMA ScreenBackspace ==
  ASSUME KeysFit, TypeInv, LinesInv, ScreenInv, pc \notin Torn, key_backspace
  PROVE  ScreenInv'
<1> DEFINE shorter == IF line = <<>> THEN line ELSE SubSeq(line, 1, Len(line) - 1)
<1>1. CASE terminal_buf_count > 0
  <2>1. Erases
    BY <1>1 DEF key_backspace, Erases, erased_count, flags, result
  <2>2. QED
    BY <2>1, ScreenErase
<1>2. CASE ~(terminal_buf_count > 0)
  <2>1. /\ UNCHANGED <<console, terminal_buf_count, typed, pc, press_over, local>>
        /\ follow(shorter, lines)
    BY <1>2 DEF key_backspace, buffer, flags, locals
  <2>2. ColumnInv' /\ ClockInv' /\ StoreInv'
    <3>1. col(console') = col(console)
      BY <2>1
    <3>2. /\ terminal_buf_count' \in Nat /\ typed' \in Nat /\ col(console) \in Int
          /\ terminal_buf_count' - typed' <= terminal_buf_count - typed
      BY <2>1, ColumnIs DEF ScreenInv
    <3>3. QED
      BY <2>1, <3>1, <3>2, KeyStays DEF ScreenInv, ColumnInv, Torn
  <2>3. ASSUME careful' PROVE pc' = "spin" /\ Shows(at(console), line)'
    <3>1. /\ careful /\ pc = "spin" /\ press_over = 0
          /\ line' = shorter
      <4> HIDE DEF shorter
      <4>1. QED
        BY <2>1, <2>3, CarefulFollow
    <3>2. line = <<>>
      <4>1. line = Chunk(terminal_buffer, terminal_buf_count) /\ line \in Seq(Char)
        BY <3>1 DEF LinesInv, TypeInv
      <4>2. Len(line) = 0
        BY <1>2, <4>1, ChunkType, CountTypes
      <4>3. QED
        BY <4>1, <4>2, EmptySeq
    <3>3. Shows(at(console), line)
      BY <3>1 DEF ScreenInv, EchoInv
    <3>4. console' = console /\ line' = line
      BY <2>1, <3>1, <3>2
    <3>5. QED
      BY <2>1, <3>1, <3>3, <3>4 DEF Shows, at, col, signed
  <2>4. EchoInv'
    BY <2>3 DEF EchoInv, CursorInv
  <2>5. QED
    BY <2>2, <2>4 DEF ScreenInv
<1>3. QED
  BY <1>1, <1>2

\* A key is torn from the two windows, and then the user is not careful.
LEMMA TornFollow ==
  ASSUME NEW a, NEW b, follow(a, b)
  PROVE  torn' = (torn \/ pc \in Torn) /\ (careful' => careful /\ pc = "spin")
BY DEF follow

\* No other step changes either.
LEMMA TornSame ==
  ASSUME \/ UNCHANGED vars \/ terminal_read \/ read_goes_on \/ do_clear
         \/ terminal_write(<<"text">>) \/ terminal_write(<<"text", "newline">>)
  PROVE  UNCHANGED <<careful, torn>>
<1>1. ASSUME read_goes_on PROVE UNCHANGED <<careful, torn>>
  <2>1. ASSUME read_draws PROVE UNCHANGED <<careful, torn>>
    BY <2>1, DrawsOnly
  <2>2. QED
    BY <1>1, <2>1 DEF read_goes_on, read_pressed, read_copy, read_count,
                      read_clear, read_reset, read_return, history
<1>2. QED
  BY <1>1 DEF vars, terminal_read, do_clear, terminal_write, writes_screen, history

LEMMA ScreenStep ==
  ASSUME KeysFit, TypeInv, LinesInv, TornInv, [Next]_vars PROVE TornInv'
<1>1. CASE UNCHANGED vars
  BY <1>1 DEF vars, TornInv, ScreenInv, ColumnInv, ClockInv, StoreInv, EchoInv,
              CursorInv, Shows, Marked, col, at, index, signed
<1>2. CASE \/ terminal_write(<<"text">>) \/ terminal_write(<<"text", "newline">>)
           \/ do_clear \/ terminal_read \/ read_goes_on
  <2>1. UNCHANGED <<careful, torn>>
    BY <1>2, TornSame
  <2>2. ScreenInv => ScreenInv'
    BY <1>2, ScreenWrite, ScreenQuiet, ScreenDraws DEF read_goes_on
  <2>3. QED
    BY <2>1, <2>2 DEF TornInv
<1>3. CASE key_character \/ key_enter \/ key_backspace
  <2>1. torn' = (torn \/ pc \in Torn) /\ (careful' => careful /\ pc = "spin")
    BY <1>3, TornFollow DEF key_character, key_enter, key_backspace
  <2>2. careful' => ~torn'
    BY <2>1 DEF TornInv, Torn
  <2>3. ASSUME ~torn' PROVE ScreenInv'
    <3>1. ScreenInv /\ pc \notin Torn
      BY <2>1, <2>3 DEF TornInv, TypeInv
    <3>2. QED
      BY <1>3, <3>1, ScreenCharacter, ScreenEnter, ScreenBackspace
  <2>4. QED
    BY <2>2, <2>3 DEF TornInv
<1>4. QED
  BY <1>1, <1>2, <1>3 DEF Next

\* Whatever a wrap, a backspace or a key at any instruction of a read does to
\* the console's column, as long as size_t is wide enough for it, the screen
\* shows the line a user types to a waiting program; and what console_putchar
\* writes never reaches the row of the clock, unless a key comes between the
\* stores of printf.c:51 and :52, or :53 and :54, of a cursor being drawn.
THEOREM ScreenStaysKept ==
  ASSUME KeysFit PROVE Spec => []ScreenIsKept
<1>1. Init => TornInv
  BY ScreenInit
<1>2. TypeInv /\ LinesInv /\ TornInv /\ [Next]_vars => TornInv'
  BY ScreenStep
<1>3. TypeInv /\ TornInv => ScreenIsKept
  BY ScreenKeeps
<1>4. QED
  BY <1>1, <1>2, <1>3, TypeInvariant, LinesInvariant, PTL DEF Spec
=============================================================================
