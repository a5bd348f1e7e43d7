------------------------------ MODULE Library -------------------------------
(***************************************************************************)
(* What programs and kernel compute with: strings, words and lines,        *)
(* numbers, files as bytes, the heap that malloc hands out, and the stack  *)
(* on which execve passes its arguments to the next program.  Each call    *)
(* is one step: call holds its arguments and its result until the next.    *)
(* The buffer of scanf, an open file and the heap outlive the call.        *)
(*                                                                         *)
(* A character is a number, 0 ends a string, and what lies behind the      *)
(* bytes that are known is Wild.                                           *)
(***************************************************************************)
EXTENDS Integers, Sequences, FiniteSets, SequencesExt

CONSTANTS
  INT_LIMIT,    \* 2^31, scaled down
  STACK_DIGITS, \* 10, the digits print_int has room for
  MAX_BUFFER,   \* 1024, what a shell reads of a script
  ADDRESSES,    \* 2^32, scaled down
  PAGE_SIZE, HEAP_BASE, BRK_LIMIT,
  BLOCK,        \* 512, the block of an archive, scaled down
  STACK_PAGE,   \* the bytes of the page of the stack, and of
  WORD,         \* a word, 4096 and 8, scaled down
  STACK_BASE,   \* the address of that page
  MAX_ARGUMENT, \* bounds: the length of an argument of a program,
  SIZES,        \* the sizes programs ask malloc for,
  MAX_LEN,      \* the length of strings and lines
  MAX_CALLS     \* the calls of malloc

ASSUME LibraryAssumption ==
  /\ INT_LIMIT \in Nat \ {0} /\ 10 ^ STACK_DIGITS > INT_LIMIT
  /\ SIZES \subseteq 0 .. ADDRESSES - PAGE_SIZE
  /\ MAX_LEN \in Nat /\ MAX_BUFFER \in Nat /\ MAX_CALLS \in Nat
  /\ PAGE_SIZE \in Nat \ {0} /\ BLOCK \in Nat \ {0}
  /\ ADDRESSES \in Nat /\ HEAP_BASE \in Nat
  /\ BRK_LIMIT \in Nat /\ HEAP_BASE % PAGE_SIZE = 0
  /\ STACK_BASE \in Nat \ {0} /\ WORD \in Nat \ {0}
  /\ STACK_PAGE \in Nat /\ STACK_PAGE % WORD = 0
  /\ MAX_ARGUMENT \in Nat /\ 4 * (MAX_ARGUMENT + 1) + 10 * WORD <= STACK_PAGE
  /\ HEAP_BASE + PAGE_SIZE + MAX_CALLS * (BRK_LIMIT + PAGE_SIZE) < ADDRESSES

VARIABLES
  call,       \* [fn, args, out] of the last call
  scanf_buf,  \* what reads have left in the buffer of scanf
  file,       \* [body, start, size] of the file that is read
  brk, blocks \* the heap's end, and [at, size] of the calls of malloc

vars == <<call, scanf_buf, file, brk, blocks>>

Strings(S) == UNION {[1 .. n -> S] : n \in 0 .. MAX_LEN}
Wild == -1

at(s, i) == IF i \in DOMAIN s THEN s[i] ELSE IF i = Len(s) + 1 THEN 0 ELSE Wild

least(S) == CHOOSE i \in S : \A j \in S : i <= j

\* The k-th of the numbers of S is the one with k of them up to it.
nth(S, k) == CHOOSE i \in S : Cardinality({j \in S : j <= i}) = k
----------------------------------------------------------------------------
(* Strings.                                                                *)

strcmp(s1, s2) ==
  LET i == least({j \in 1 .. Len(s1) + 1 : at(s1, j) = 0 \/ at(s1, j) # at(s2, j)})
  IN at(s1, i) - at(s2, i)

\* Faulty variant: one character too many.
strncmp_late(s1, s2, n) ==
  IF n = 0 THEN 0
  ELSE LET i == least({j \in 1 .. Len(s1) + 1 :
                         at(s1, j) = 0 \/ at(s2, j) = 0 \/ j = n + 1 \/ at(s1, j) # at(s2, j)})
       IN at(s1, i) - at(s2, i)

strncmp(s1, s2, n) ==
  IF n = 0 THEN 0
  ELSE LET i == least({j \in 1 .. Len(s1) + 1 :
                         at(s1, j) = 0 \/ at(s2, j) = 0 \/ j = n \/ at(s1, j) # at(s2, j)})
       IN at(s1, i) - at(s2, i)

begins_at(s1, s2, i) == \A j \in DOMAIN s2 : at(s1, i + j - 1) = s2[j]

\* The place of s2 in s1.  Where there is none the walk steps over the end of
\* s1 and goes on in what lies behind.
strstr(s1, s2) ==
  LET from[i \in 1 .. 2 * MAX_LEN + 2] ==
        IF i > Len(s1) THEN Wild
        ELSE IF begins_at(s1, s2, i) THEN i ELSE from[i + 1]
  IN from[1]
----------------------------------------------------------------------------
(* Words and lines: 1 and 2 are letters, 3 is the separator, 4 ends a line. *)

SEP == 3
LF  == 4

\* The text up to its first line feed, where parseInputToParams stops; it
\* looks at the first character before it looks for the line feed.
parsed_text(input) ==
  LET ends == {i \in 2 .. Len(input) : input[i] = LF}
  IN IF ends = {} THEN input ELSE SubSeq(input, 1, least(ends) - 1)

\* Where words begin: behind a separator, or first.
starts(text) ==
  {i \in DOMAIN text : text[i] # SEP /\ (i = 1 \/ text[i - 1] = SEP)}

\* Faulty variant: a separator ends a word only if no other follows.
cuts_single(text) ==
  {i \in 2 .. Len(text) : text[i] = SEP /\ text[i - 1] # SEP
                          /\ (i < Len(text) => text[i + 1] # SEP)}

\* The separators it overwrites: those behind a word.
cuts(text) == {i \in 2 .. Len(text) : text[i] = SEP /\ text[i - 1] # SEP}

parseInputToParams(input) ==
  LET text == parsed_text(input)
      ends(i) == {j \in cuts(text) \cup {Len(text) + 1} : j > i}
      word(i) == SubSeq(text, i, least(ends(i)) - 1)
  IN [k \in 1 .. Cardinality(starts(text)) |-> word(nth(starts(text), k))]

\* The line at index i of a buffer that holds body and is zero behind it;
\* Wild if the buffer ends before the line.
line_end(body, i) ==
  LET ends == {j \in i .. Len(body) : body[j] = LF}
  IN IF ends = {} THEN Wild ELSE least(ends)

\* The index behind a line that ends at i.
next_line(i) == i + 1

\* The lines of a script that sh_cmd executes, the first left out.
sh_cmd(body) ==
  LET count == IF Len(body) < MAX_BUFFER THEN Len(body) ELSE MAX_BUFFER
      input == SubSeq(body, 1, count)
      from[i \in 1 .. count + 1] ==
        IF i > count THEN <<>>
        ELSE LET e == line_end(input, i)
             IN IF e = Wild THEN << <<Wild>> >>
                ELSE <<SubSeq(input, i, e - 1)>>
                       \o (IF next_line(e) > i THEN from[next_line(e)] ELSE << <<Wild>> >>)
  IN IF line_end(input, 1) = Wild THEN << <<Wild>> >> ELSE from[next_line(line_end(input, 1))]
----------------------------------------------------------------------------
(* Numbers.                                                                *)

wrapped(n) == ((n + INT_LIMIT) % (2 * INT_LIMIT)) - INT_LIMIT

\* Division of C, towards zero.
quotient(a, b) == IF a < 0 THEN -((-a) \div b) ELSE a \div b
remainder(a, b) == a - b * quotient(a, b)

\* The digits of a number, the last first.
digits(a, base) ==
  LET from[n \in -INT_LIMIT .. INT_LIMIT] ==
        IF quotient(n, base) = 0 THEN <<n>>
        ELSE <<remainder(n, base)>> \o from[quotient(n, base)]
  IN from[a]

\* Faulty variant: the padding is one digit short.
padded_short(ds, width) == ds \o [i \in 1 .. width - 1 - Len(ds) |-> 0]

\* The rest of the array is zero.
padded(ds, width) == ds \o [i \in 1 .. width - Len(ds) |-> 0]

\* The sign and the digits that are printed; -INT_LIMIT stays what it is
\* when it is negated.
print_int(arg, desire_length) ==
  [minus |-> arg < 0,
   digits |-> Reverse(padded(digits(IF arg < 0 THEN wrapped(-arg) ELSE arg, 10),
                             desire_length))]

print_hex(arg) == Reverse(digits(arg, 16))

value(ds, base) == FoldLeft(LAMBDA v, d : v * base + d, 0, ds)

\* The length of the digits a string begins with.
numeral(s) == least({i \in 0 .. Len(s) : i = Len(s) \/ s[i + 1] \notin 0 .. 9})

stoi(s) ==
  IF numeral(s) = 0 THEN -1
  ELSE FoldLeft(LAMBDA v, d : wrapped(v * 10 + d), 0, SubSeq(s, 1, numeral(s)))

\* An octal size in a header, last digit first in the loop, modulo 2^32.
get_size_oct(string) ==
  LET from[i \in 0 .. Len(string)] ==
        IF i = 0 THEN 0
        ELSE wrapped(from[i - 1] + wrapped(string[Len(string) + 1 - i] * 8 ^ (i - 1)))
  IN from[Len(string)]
----------------------------------------------------------------------------
(* scanf: letters are 10, a space is 11, a line feed 12.                   *)

SPACE   == 11
NEWLINE == 12

\* read overwrites the beginning of the buffer only.
read_into(buf, line) == line \o SubSeq(buf, Len(line) + 1, Len(buf))

ends_string(c) == c = NEWLINE \/ c = SPACE

\* The end of the field of a conversion that begins behind count.
field_end(buf, count, conversion) ==
  LET ends == {i \in count + 1 .. Len(buf) :
                 IF conversion = "s" THEN ends_string(buf[i]) ELSE buf[i] \notin 0 .. 9}
  IN IF ends = {} THEN Len(buf) + 1 ELSE least(ends)

\* The fields that the conversions store, one character apart.
scanf(buf, format) ==
  LET from[k \in 1 .. Len(format) + 1, count \in 0 .. Len(buf) + 1] ==
        IF k > Len(format) \/ count > Len(buf) THEN <<>>
        ELSE LET e == field_end(buf, count, format[k])
             IN <<SubSeq(buf, count + 1, e - 1)>> \o from[k + 1, e]
  IN from[1, 0]
----------------------------------------------------------------------------
(* The heap.                                                               *)

\* Faulty variant: the size is rounded down to pages.
page_end_below(a) == ((a \div PAGE_SIZE) * PAGE_SIZE) % ADDRESSES

page_end(a) == (((a + PAGE_SIZE - 1) \div PAGE_SIZE) * PAGE_SIZE) % ADDRESSES

\* What do_sbrk returns, and the heap's end after it.
do_sbrk(end, size) ==
  IF page_end(end) = page_end(end + size) THEN [at |-> page_end(end), brk |-> end]
  ELSE IF size < BRK_LIMIT THEN [at |-> end, brk |-> page_end(end + size)]
  ELSE [at |-> -1, brk |-> end]
----------------------------------------------------------------------------
(* Arguments.  The page is bytes; a word is its value, which one byte holds, *)
(* and zeros.  No string is longer than the page has room for.             *)

put(page, i, bytes) ==
  [j \in DOMAIN page |-> IF j \in i .. i + Len(bytes) - 1 THEN bytes[j - i + 1]
                         ELSE page[j]]

word(v) == [i \in 1 .. WORD |-> IF i = 1 THEN v ELSE 0]

\* Faulty variant: strings follow each other without a zero in between.
placed_unended(string, r) ==
  LET i == r.rsp - Len(string)
  IN [page |-> put(r.page, i, string), rsp |-> i, to |-> <<STACK_BASE + i>> \o r.to]

\* A string below those that are there, with a zero for the next one below it.
placed(string, r) ==
  LET i == r.rsp - Len(string)
  IN [page |-> put(r.page, i - 1, <<0>> \o string), rsp |-> i - 1,
      to |-> <<STACK_BASE + i>> \o r.to]

\* The last string first.
set_params_to_stack(page, rsp, params) ==
  LET from[k \in 1 .. Len(params) + 1] ==
        IF k > Len(params) THEN [page |-> page, rsp |-> rsp, to |-> <<>>]
        ELSE placed(params[k], from[k + 1])
  IN from[1]

\* Below the strings, from the stack pointer upwards: argc, the pointers of
\* argv, NULL, those of envp, NULL.
new_stack(frame, argv, envp) ==
  LET env   == set_params_to_stack(frame, STACK_PAGE - 1, envp)
      arg   == set_params_to_stack(env.page, env.rsp, argv)
      words == <<Len(argv)>> \o arg.to \o <<0>> \o env.to \o <<0>>
      rsp   == (arg.rsp \div WORD) * WORD - WORD * Len(words)
  IN [page |-> put(arg.page, rsp, FlattenSeq([k \in DOMAIN words |-> word(words[k])])),
      rsp |-> rsp]

\* What a program finds: the string at an address, up to a zero.
string_at(page, address) ==
  LET i == address - STACK_BASE
      ends == {j \in DOMAIN page : j >= i /\ page[j] = 0}
  IN IF ends = {} THEN <<Wild>> ELSE [k \in 1 .. least(ends) - i |-> page[i + k - 1]]

\* The strings of an array of pointers, up to a NULL.
strings_at(page, i) ==
  LET end == least({n \in DOMAIN page :
                      i + n * WORD \in DOMAIN page => page[i + n * WORD] = 0})
  IN [k \in 1 .. end |-> string_at(page, page[i + (k - 1) * WORD])]

\* argc, argv and envp, as the first instructions compute them from rsp.
_start(page, rsp) ==
  LET argc == page[rsp]
  IN [argc |-> argc, argv |-> strings_at(page, rsp + WORD),
      envp |-> strings_at(page, rsp + WORD + WORD + WORD * argc)]
----------------------------------------------------------------------------
(* Files.                                                                  *)

\* Blocks from a header to the next: its own and those of the body.
tarfs_header_walk(size) == (size + BLOCK - 1) \div BLOCK + 1

\* The blocks of the headers that a walk visits in an archive of bodies.
walk(bodies) ==
  LET header[k \in 1 .. Len(bodies) + 1] ==
        IF k = 1 THEN 0 ELSE header[k - 1] + tarfs_header_walk(bodies[k - 1])
  IN [k \in 1 .. Len(bodies) + 1 |-> header[k]]

\* Byte i from where the file stands.
at_byte(f, i) == IF f.start + i <= Len(f.body) THEN f.body[f.start + i] ELSE Wild

\* Faulty variant: more is read than there is.
tarfs_read_all(f, size) == [i \in 1 .. size |-> at_byte(f, i)]

\* What a read of size bytes returns.
tarfs_read(f, size) ==
  [i \in 1 .. (IF f.size < size THEN f.size ELSE size) |-> at_byte(f, i)]

\* start points to uint32_t: it moves on by four bytes for each one read.
after_read(f, bytes) == [f EXCEPT !.start = @ + 4 * Len(bytes)]
----------------------------------------------------------------------------
Idle == [fn |-> "none", args |-> <<>>, out |-> <<>>]
NoFile == [body |-> <<>>, start |-> 0, size |-> 0]

Init ==
  /\ call = Idle
  /\ scanf_buf = <<>>
  /\ file = NoFile
  /\ brk = HEAP_BASE + PAGE_SIZE
  /\ blocks = <<>>

returned(fn, args, out) == call' = [fn |-> fn, args |-> args, out |-> out]

\* A call that leaves nothing behind but its result.  Nothing else changes
\* what it returns: it is made in one state only.
computes(fn, args, out) ==
  /\ call = Idle /\ scanf_buf = <<>> /\ file = NoFile /\ blocks = <<>>
  /\ returned(fn, args, out)
  /\ UNCHANGED <<scanf_buf, file, brk, blocks>>

returns ==
  /\ call # Idle
  /\ call' = Idle
  /\ UNCHANGED <<scanf_buf, file, brk, blocks>>

compares ==
  \E s1, s2 \in Strings({1, 2}) :
    computes("strcmp", <<s1, s2>>,
             [n \in 0 .. MAX_LEN |-> IF n = 0 THEN strcmp(s1, s2) ELSE strncmp(s1, s2, n)])

searches ==
  \E s1, s2 \in Strings({1, 2}) :
    s2 # <<>> /\ computes("strstr", <<s1, s2>>, strstr(s1, s2))

splits ==
  \E input \in Strings({1, 2, SEP, LF}) :
    computes("parseInputToParams", input, parseInputToParams(input))

runs_script ==
  \E body \in Strings({1, LF}) : computes("sh_cmd", body, sh_cmd(body))

prints ==
  \E arg \in -INT_LIMIT .. INT_LIMIT - 1, width \in 0 .. STACK_DIGITS - 1 :
    computes("print_int", <<arg, width>>, print_int(arg, width))

prints_hex ==
  \E arg \in 0 .. INT_LIMIT - 1 : computes("print_hex", arg, print_hex(arg))

converts == \E s \in Strings({0, 1, 9, 10}) : computes("stoi", s, stoi(s))

measures == \E s \in Strings({0, 1, 7}) : computes("get_size_oct", s, get_size_oct(s))

walks ==
  \E sizes \in [1 .. 2 -> 0 .. 2 * BLOCK + 1] : computes("walk", sizes, walk(sizes))

\* execve, with one or two strings in each array.  The frame is as its last
\* use left it.
Arguments == {[i \in 1 .. n |-> i] : n \in 0 .. MAX_ARGUMENT}
Arrays == UNION {[1 .. n -> Arguments] : n \in 1 .. 2}

passes ==
  \E argv, envp \in Arrays, junk \in {0, 9} :
    LET stack == new_stack([i \in 0 .. STACK_PAGE - 1 |-> junk], argv, envp)
    IN computes("execve", <<argv, envp, junk>>, _start(stack.page, stack.rsp))

\* A program reads a line, after any other lines.
scans ==
  \E text \in Strings({1, 10, SPACE}),
     format \in {<<"d">>, <<"s">>, <<"s", "d">>, <<"d", "s">>} :
    LET buf == read_into(scanf_buf, Append(text, NEWLINE))
    IN /\ call = Idle /\ file = NoFile /\ blocks = <<>>
       /\ scanf_buf' = buf
       /\ returned("scanf", <<text, format>>, scanf(buf, format))
       /\ UNCHANGED <<file, brk, blocks>>

opens ==
  \E body \in Strings({1, 2}) :
    /\ call = Idle /\ scanf_buf = <<>> /\ file = NoFile /\ blocks = <<>>
    /\ file' = [body |-> body, start |-> 0, size |-> Len(body)]
    /\ returned("open", <<>>, <<>>)
    /\ UNCHANGED <<scanf_buf, brk, blocks>>

reads ==
  \E size \in 1 .. MAX_LEN + 1 :
    LET bytes == tarfs_read(file, size)
    IN /\ call = Idle /\ file # NoFile /\ file.start <= MAX_LEN
       /\ file' = after_read(file, bytes)
       /\ returned("read", <<file.start, size>>, bytes)
       /\ UNCHANGED <<scanf_buf, brk, blocks>>

\* malloc and sbrk: blocks are never given back.
malloc ==
  \E size \in SIZES :
    LET r == do_sbrk(brk, size)
    IN /\ call = Idle /\ scanf_buf = <<>> /\ file = NoFile
       /\ Len(blocks) < MAX_CALLS
       /\ brk' = r.brk
       /\ blocks' = Append(blocks, [at |-> r.at, size |-> size])
       /\ returned("malloc", size, r.at)
       /\ UNCHANGED <<scanf_buf, file>>

\* The next program begins with memory of its own.
do_execv ==
  /\ call = Idle
  /\ scanf_buf' = <<>> /\ file' = NoFile /\ brk' = HEAP_BASE + PAGE_SIZE /\ blocks' = <<>>
  /\ UNCHANGED call

Next ==
  \/ returns \/ compares \/ searches \/ splits \/ runs_script \/ prints
  \/ prints_hex \/ converts \/ measures \/ walks \/ passes \/ scans \/ opens
  \/ reads \/ malloc \/ do_execv

Spec == Init /\ [][Next]_vars
----------------------------------------------------------------------------
Called(fn) == call.fn = fn

\* strcmp is zero for equal strings only and orders them like a dictionary;
\* strncmp does so with their first n characters.
ordered(s1, s2, sign) ==
  /\ sign = 0 <=> s1 = s2
  /\ sign < 0 <=> \E i \in 1 .. Len(s2) :
                    /\ Len(s1) >= i - 1
                    /\ SubSeq(s1, 1, i - 1) = SubSeq(s2, 1, i - 1)
                    /\ i <= Len(s1) => s1[i] < s2[i]

ComparesAsStrings ==
  Called("strcmp") =>
    LET s(k, n) == IF n < Len(call.args[k]) THEN SubSeq(call.args[k], 1, n) ELSE call.args[k]
    IN /\ ordered(call.args[1], call.args[2], call.out[0])
       /\ \A n \in 1 .. MAX_LEN : ordered(s(1, n), s(2, n), call.out[n])

\* strstr finds the first place of a string that is there.
FindsFirst ==
  Called("strstr") =>
    LET s2 == call.args[2]
        places == {i \in 1 .. Len(call.args[1]) - Len(s2) + 1 :
                     SubSeq(call.args[1], i, i + Len(s2) - 1) = s2}
    IN places # {} => call.out = least(places)

\* Strings are compared and found as sequences of characters, in whatever
\* order they end.
StringsAgree == ComparesAsStrings /\ FindsFirst

\* The words of a line are what separators leave of it up to the line feed:
\* none is empty, none contains a separator, and nothing is lost.  (A line
\* that begins with its line feed is the word after it.)
SplitsWords ==
  Called("parseInputToParams") =>
    LET text == parsed_text(call.args)
        gaps == {i \in 1 .. Len(text) - 1 : text[i] = SEP /\ text[i + 1] # SEP}
        kept == {i \in DOMAIN text : text[i] # SEP}
    IN /\ FlattenSeq(call.out) = [k \in 1 .. Cardinality(kept) |-> text[nth(kept, k)]]
       /\ \A k \in DOMAIN call.out : call.out[k] # <<>>
       /\ Len(call.out) = Cardinality(gaps) + (IF text # <<>> /\ text[1] # SEP THEN 1 ELSE 0)

\* A script that ends with a line feed and fits the buffer is executed line
\* by line: each of its lines behind the first once, in order.
ScriptLineByLine ==
  Called("sh_cmd") /\ call.args # <<>> /\ Len(call.args) <= MAX_BUFFER
    /\ call.args[Len(call.args)] = LF
  => LET first == least({i \in DOMAIN call.args : call.args[i] = LF})
     IN /\ FlattenSeq([k \in DOMAIN call.out |-> Append(call.out[k], LF)])
             = SubSeq(call.args, first + 1, Len(call.args))
        /\ \A k \in DOMAIN call.out : ~Contains(call.out[k], LF)

\* Words and lines are cut in place without losing or inventing any.
LinesAreCut == SplitsWords /\ ScriptLineByLine

\* Every number but the least one is printed as itself, in as many digits as
\* asked for or as it needs, and its digits fit the array.
PrintsNumber ==
  /\ Called("print_int") /\ call.args[1] > -INT_LIMIT =>
       LET v == value(call.out.digits, 10)
       IN /\ call.args[1] = IF call.out.minus THEN -v ELSE v
          /\ call.args[2] <= Len(call.out.digits) /\ Len(call.out.digits) <= STACK_DIGITS
          /\ \A k \in DOMAIN call.out.digits : call.out.digits[k] \in 0 .. 9
          /\ call.out.digits[1] = 0 =>
               Len(call.out.digits) = 1 \/ Len(call.out.digits) = call.args[2]
  /\ Called("print_hex") => value(call.out, 16) = call.args

\* What is printed is read back: stoi gives the number a string begins with,
\* if an int holds it, and -1 if there is none; a size in octal is the
\* header's if it is below the limit.
ReadsNumber ==
  /\ Called("stoi") =>
       LET s == SubSeq(call.args, 1, numeral(call.args))
       IN /\ s = <<>> => call.out = -1
          /\ s # <<>> /\ value(s, 10) < INT_LIMIT => call.out = value(s, 10)
  /\ Called("get_size_oct") /\ value(call.args, 8) < INT_LIMIT =>
       call.out = value(call.args, 8)

\* A line of as many fields as there are conversions fills them with its own
\* characters, whatever longer line was read before.
ScansOwnLine ==
  Called("scanf") =>
    LET text   == call.args[1]
        format == call.args[2]
        space  == SelectInSeq(text, LAMBDA c : c = SPACE)
        fields == IF Len(format) = 1 THEN <<text>>
                  ELSE <<SubSeq(text, 1, space - 1), SubSeq(text, space + 1, Len(text))>>
        well_formed(k) == /\ fields[k] # <<>> /\ ~Contains(fields[k], SPACE)
                          /\ format[k] = "d" => numeral(fields[k]) = Len(fields[k])
    IN (\A k \in DOMAIN format : well_formed(k)) => call.out = fields

\* What is printed, parsed and scanned is the number or the text meant.
NumbersAndFields == PrintsNumber /\ ReadsNumber /\ ScansOwnLine

\* A walk visits the header of each body, and ends at the first block behind
\* the last: no block of a body is taken for a header.
WalksHeaders ==
  Called("walk") =>
    \A k \in DOMAIN call.args :
      LET body == (call.out[k] + 1) * BLOCK   \* its first byte
          next == call.out[k + 1] * BLOCK
      IN body + call.args[k] <= next /\ next < body + call.args[k] + BLOCK

\* main gets the arguments that execve was called with, each up to its end,
\* whatever was in the frame; only the last string of the environment ends
\* where the frame held a zero.
ArgumentsArrive ==
  Called("execve") =>
    LET argv == call.args[1]
        envp == call.args[2]
        n    == IF call.args[3] = 0 THEN Len(envp) ELSE Len(envp) - 1
    IN /\ call.out.argc = Len(argv) /\ call.out.argv = argv
       /\ Len(call.out.envp) = Len(envp)
       /\ \A k \in 1 .. n : call.out.envp[k] = envp[k]

\* The first read of a file returns its beginning, as much as is there.
FirstReadIsPrefix ==
  Called("read") /\ call.args[1] = 0 =>
    call.out = SubSeq(file.body, 1, IF call.args[2] < Len(file.body) THEN call.args[2]
                                    ELSE Len(file.body))

\* A file is found where its header is, and its first read is its beginning.
FilesAreRead == WalksHeaders /\ FirstReadIsPrefix

\* No two blocks that malloc returned share a byte, and all lie in the heap,
\* however the calls follow each other.
BlocksAreDisjoint ==
  \A i \in DOMAIN blocks : blocks[i].at # -1 =>
    /\ HEAP_BASE <= blocks[i].at /\ blocks[i].at + blocks[i].size <= brk
    /\ \A j \in 1 .. i - 1 : blocks[j].at # -1 =>
         blocks[j].at + blocks[j].size <= blocks[i].at
=============================================================================
