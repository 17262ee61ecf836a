-------------------------------- MODULE Routines --------------------------------
(***************************************************************************)
(* Routines of the library that keep no state, each beside a reference:    *)
(* lib/arithmetic.c, lib/stdio.c, lib/stdlib.c, lib/string.c, lib/ustar.c  *)
(* (the same in both kernels), the counter of devices/pit.c, and the words *)
(* and the stack that start_process of pintos2 makes of a command line.    *)
(*                                                                         *)
(* Characters are numbers: a digit is what it stands for, Nul ends a       *)
(* string in memory.  An array counts from 1 here.                         *)
(***************************************************************************)
EXTENDS Integers, SequencesExt, FiniteSetsExt

CONSTANTS
  W,          \* the bits of a word, 32 in the code: a power of 2
  BUF,        \* sizeof buf in format_integer
  StackTop    \* PHYS_BASE, the address over the initial stack

ASSUME RoutinesAssumption ==
  /\ W \in {2, 4, 8} /\ BUF \in Nat
  /\ StackTop \in Nat /\ StackTop % 4 = 0

Nul == 256
Blank == 32
Plus == 43
Comma == 44
Minus == 45
Ex == 120
Junk == 63

(* Division (lib/arithmetic.c): of numbers of two words, with an           *)
(* instruction that divides two words by one and traps if the quotient     *)
(* does not fit.                                                           *)
OneWord == 2 ^ W
Wide == OneWord * OneWord
TRAP == -1

divl(n, d) == IF d = 0 \/ n \div d >= OneWord THEN TRAP ELSE n \div d

(* nlz: leading zeros, by halving.                                         *)
nlz(x) ==
  LET halve(acc, k) ==
        IF acc.x <= OneWord \div (2 ^ k) - 1
        THEN [n |-> acc.n + k, x |-> (acc.x * (2 ^ k)) % OneWord] ELSE acc
  IN FoldLeft(halve, [n |-> 0, x |-> x],
              SelectSeq(<<16, 8, 4, 2, 1>>, LAMBDA k : k < W)).n

(* RoutinesExact: the quotient's estimate is not put right                 *)
Correct_F(n, d, q) == q

(* The estimate may be one too large.                                      *)
Correct(n, d, q) == IF (n - (q - 1) * d) % Wide < d THEN q - 1 ELSE q

udiv64(n, d) ==
  IF d = 0 THEN TRAP
  ELSE IF d < OneWord
       THEN LET q == divl(OneWord * ((n \div OneWord) % d) + (n % OneWord), d)
            IN IF q = TRAP THEN TRAP ELSE q + OneWord * ((n \div OneWord) \div d)
  ELSE IF n < d THEN 0
  ELSE LET s == nlz(d \div OneWord)
           q == divl(n \div 2, ((d * (2 ^ s)) % Wide) \div OneWord)
       IN IF q = TRAP THEN TRAP ELSE Correct(n, d, q \div (2 ^ (W - 1 - s)))

abs(n) == IF n >= 0 THEN n ELSE -n
Signed(n, range) == IF n % range < range \div 2 THEN n % range ELSE (n % range) - range

sdiv64(n, d) ==
  LET q == udiv64(abs(n), abs(d))
  IN Signed(IF (n < 0) = (d < 0) THEN q ELSE -q, Wide)

(* The remainders are of type uint32_t and int32_t.                        *)
umod64(n, d) == (n - d * udiv64(n, d)) % OneWord
smod64(n, d) == Signed(n - d * sdiv64(n, d), OneWord)

(* pit_configure_channel's counter: 16 bits, 0 for 65536.                  *)
PIT_HZ == 1193180
pit_count(frequency) ==
  IF frequency < 19 THEN 0
  ELSE IF frequency > PIT_HZ THEN 2
  ELSE ((PIT_HZ + frequency \div 2) \div frequency) % 65536

-----------------------------------------------------------------------------
(* Numbers (lib/stdio.c).  A conversion: flags, width and precision as     *)
(* parse_conversion leaves them; a width that comes as an argument may be  *)
(* negative.                                                               *)
parse_conversion(flags, width, precision) ==
  LET drop(fs, f, g) == IF f \in fs THEN fs \ {g} ELSE fs
      read == drop(drop(flags, "-", "0"), "+", " ")
      wide == IF width < 0 THEN read \cup {"-"} ELSE read
  IN [flags |-> IF precision >= 0 THEN wide \ {"0"} ELSE wide,
      width |-> abs(width),
      precision |-> IF precision < 0 THEN -1 ELSE precision]

Group(base) == IF base = 16 THEN 4 ELSE 3

RECURSIVE Digits(_, _, _, _)
Digits(value, base, group, cnt) ==
  IF value = 0 THEN <<>>
  ELSE (IF group /\ cnt > 0 /\ cnt % Group(base) = 0 THEN <<Comma>> ELSE <<>>)
         \o <<value % base>> \o Digits(value \div base, base, group, cnt + 1)

Sign(is_signed, negative, flags) ==
  IF ~is_signed THEN <<>>
  ELSE IF negative THEN <<Minus>>
  ELSE IF "+" \in flags THEN <<Plus>>
  ELSE IF " " \in flags THEN <<Blank>> ELSE <<>>

Dup(ch, cnt) == [i \in 1 .. cnt |-> ch]

Pad(c, digits, x, sign) == Max({0, c.width - Len(digits) - Len(x) - Len(sign)})

format_integer(value, is_signed, negative, base, c) ==
  LET sign == Sign(is_signed, negative, c.flags)
      x == IF "#" \in c.flags /\ value > 0 /\ base = 16 THEN <<0, Ex>> ELSE <<>>
      plain == Digits(value, base, "'" \in c.flags, 0)
      least == IF c.precision < 0 THEN 1 ELSE c.precision
      exact == plain \o Dup(0, Max({0, Min({least, BUF - 1}) - Len(plain)}))
      octal == "#" \in c.flags /\ base = 8 /\ (exact = <<>> \/ Last(exact) # 0)
      digits == IF octal THEN Append(exact, 0) ELSE exact
      pad == Pad(c, digits, x, sign)
  IN (IF c.flags \cap {"-", "0"} = {} THEN Dup(Blank, pad) ELSE <<>>)
       \o sign \o x
       \o (IF "0" \in c.flags THEN Dup(0, pad) ELSE <<>>)
       \o Reverse(digits)
       \o (IF "-" \in c.flags THEN Dup(Blank, pad) ELSE <<>>)

(* The buffer after vsnprintf and what it returns: the characters go       *)
(* through vsnprintf_helper one by one.                                    *)
vsnprintf(buffer, size, out) ==
  LET max_length == IF size > 0 THEN size - 1 ELSE 0
      helper(a, ch) == IF a.length < max_length
                       THEN [a EXCEPT !.length = @ + 1, !.p = @ + 1, !.buffer[a.p] = ch]
                       ELSE [a EXCEPT !.length = @ + 1]
      a == FoldLeft(helper, [p |-> 1, length |-> 0, buffer |-> buffer], out)
  IN [a EXCEPT !.buffer = IF size > 0 THEN [@ EXCEPT ![a.p] = Nul] ELSE @]

Digit == 0 .. 9
Upto(s, n) == SubSeq(s, 1, Min({n, Len(s)}))
From(s, i) == SubSeq(s, i, Len(s))
FirstNot(s, S) == LET i == SelectInSeq(s, LAMBDA ch : ch \notin S)
                  IN IF i = 0 THEN Len(s) + 1 ELSE i

(* atoi (lib/stdlib.c): the value is built up as a negative one.           *)
atoi(s) ==
  LET body == From(s, FirstNot(s, {Blank}))
      signed == body # <<>> /\ Head(body) \in {Plus, Minus}
      digits == IF signed THEN Tail(body) ELSE body
      value == FoldLeft(LAMBDA v, ch : v * 10 - ch, 0,
                        SubSeq(digits, 1, FirstNot(digits, Digit) - 1))
  IN IF signed /\ Head(body) = Minus THEN value ELSE -value

(* parse_octal_field (lib/ustar.c): the value, or TRAP if it returns false; *)
(* a number here never overflows.                                          *)
parse_octal_field(s) ==
  LET end == FirstNot(s, 0 .. 7)
  IN IF end > Len(s) \/ s[end] \notin {Blank, Nul} \/ end = 1 THEN TRAP
     ELSE FoldLeft(LAMBDA v, ch : v * 8 + ch, 0, SubSeq(s, 1, end - 1))

-----------------------------------------------------------------------------
(* Memory and strings (lib/string.c).  mem is an array; a copy is made a   *)
(* byte at a time, in the order the loop takes.                            *)
CopyBytes(mem, dst, src, order) ==
  FoldLeft(LAMBDA m, k : [m EXCEPT ![dst + k] = m[src + k]], mem, order)

memmove(mem, dst, src, size) ==
  CopyBytes(mem, dst, src, IF dst < src THEN [k \in 1 .. size |-> k - 1]
                           ELSE [k \in 1 .. size |-> size - k])

strlen(mem, i) == FirstNot(From(mem, i), {ch \in ToSet(mem) : ch # Nul}) - 1
StringAt(mem, i) == SubSeq(mem, i, i + strlen(mem, i) - 1)
Store(mem, i, s) == [k \in DOMAIN mem |-> IF k \in i .. i + Len(s) - 1 THEN s[k - i + 1] ELSE mem[k]]

(* dst of strlcpy and strlcat, an array with room for size; the lengths    *)
(* they return are those of the whole strings.                             *)
strlcpy(dst, src, size) ==
  IF size = 0 THEN dst
  ELSE Store(dst, 1, Append(Upto(src, size - 1), Nul))

strlcat(dst, src, size) ==
  LET dst_len == strlen(dst, 1)
  IN IF size = 0 \/ dst_len >= size THEN dst
     ELSE Store(dst, dst_len + 1,
                Append(Upto(src, size - dst_len - 1), Nul))

strstr(s, t) ==
  LET at == {i \in 1 .. Len(s) - Len(t) + 1 : SubSeq(s, i, i + Len(t) - 1) = t}
  IN IF at = {} THEN 0 ELSE Min(at)

(* strtok_r with a blank as delimiter, from place i of mem: the token's    *)
(* place, or 0, the place saved for the next call, and mem with the end of *)
(* the token marked.                                                       *)
strtok_r(mem, i) ==
  LET token == i - 1 + FirstNot(From(mem, i), {Blank})
      end == token + strlen([k \in DOMAIN mem |-> IF mem[k] = Blank THEN Nul ELSE mem[k]], token)
  IN IF mem[token] = Nul THEN [token |-> 0, save |-> token, mem |-> mem]
     ELSE IF mem[end] = Nul THEN [token |-> token, save |-> end, mem |-> mem]
     ELSE [token |-> token, save |-> end + 1, mem |-> [mem EXCEPT ![end] = Nul]]

NextWord(mem, i) == i - 1 + FirstNot(From(mem, i), {Blank})

(* start_process's loop, from what a call of strtok_r returned: the offset  *)
(* of each word, and of the end.                                           *)
RECURSIVE Split(_, _)
Split(r, argv) ==
  IF r.token = 0 THEN [mem |-> r.mem, argv |-> argv]
  ELSE LET save == NextWord(r.mem, r.save)
       IN Split(strtok_r(r.mem, save), Append(argv, save - 1))

(* The stack that start_process leaves: the bytes of the command line, and *)
(* the words below them by address.                                        *)
StackOf(line, split) ==
  LET argc == Len(split.argv) - 1
      arg_size == Len(line)
      str_begin == StackTop - arg_size
      last == str_begin - (4 - (arg_size % 4)) - 4
      first == last - 4 * argc
      esp == first - 12
  IN [esp |-> esp, mem |-> split.mem, str_begin |-> str_begin,
      words |-> [a \in {esp + 4 * k : k \in 0 .. (last - esp) \div 4} |->
                   IF a = last \/ a = esp THEN 0
                   ELSE IF a = esp + 4 THEN argc
                   ELSE IF a = esp + 8 THEN first
                   ELSE str_begin + split.argv[(a - first) \div 4 + 1]]]

stack(line) == StackOf(line, Split(strtok_r(line, 1), <<0>>))

-----------------------------------------------------------------------------
(* udiv64 is the quotient for every divisor but 0, and its estimate never  *)
(* makes the instruction trap; sdiv64 rounds towards 0; a remainder is     *)
(* right if it fits the type it is returned in.  n is the dividend.        *)
DivisionExact(n) ==
  \A d \in 1 .. Wide - 1 :
    LET m == Signed(n, Wide)
        e == Signed(d, Wide)
        q == IF (m < 0) = (e < 0) THEN abs(m) \div abs(e) ELSE -(abs(m) \div abs(e))
    IN /\ udiv64(n, d) = n \div d
       /\ n % d < OneWord => umod64(n, d) = n % d
       /\ sdiv64(m, e) = Signed(q, Wide)
       /\ abs(m % abs(e)) < OneWord \div 2 /\ q < Wide \div 2 => smod64(m, e) = Signed(m - e * q, OneWord)

CountExact(f) ==
  LET count == pit_count(f)
  IN f \in 19 .. PIT_HZ => /\ count > 0
                           /\ abs(count * f - PIT_HZ) <= f \div 2 + 1

Conversions ==
  {[flags |-> fs, width |-> w, precision |-> p] :
     fs \in SUBSET {"-", "+", " ", "#", "0", "'"}, w \in {-6, 0, 3, 9}, p \in {-1, 0, 4, BUF + 2}}

(* What is printed of v is as wide as asked for and no wider than it must  *)
(* be, on the side asked for; it reads back as v; and a field of ustar     *)
(* that printf writes is parsed as what was written.  (A negative width    *)
(* with the flag 0 is left out: see the README.)                           *)
NumberExact(v) ==
  \A c \in {d \in Conversions : ~(d.width < 0 /\ "0" \in d.flags)}, base \in {8, 10, 16} :
    LET parsed == parse_conversion(c.flags, c.width, c.precision)
        made == format_integer(abs(v), base = 10, v < 0, base, parsed)
        narrow == format_integer(abs(v), base = 10, v < 0, base, [parsed EXCEPT !.width = 0])
        trim == SelectSeq(made, LAMBDA ch : ch \notin {Blank, Comma})
        value == FoldLeft(LAMBDA a, ch : a * base + ch, 0,
                          SelectSeq(trim, LAMBDA ch : ch \notin {Plus, Minus, Ex}))
    IN /\ Len(made) = Max({parsed.width, Len(narrow)})
       /\ value = abs(v)
       /\ base = 10 => atoi(trim) = v
       /\ "-" \in parsed.flags => SubSeq(made, 1, Len(narrow)) = narrow
       /\ parsed.flags \cap {"-", "0"} = {} => From(made, Len(made) - Len(narrow) + 1) = narrow
       /\ \A size \in 0 .. 4 :
            LET r == vsnprintf(Dup(Junk, 4), size, made)
            IN /\ r.length = Len(made)
               /\ SubSeq(r.buffer, size + 1, 4) = Dup(Junk, 4 - size)
               /\ size > 0 => StringAt(r.buffer, 1) = Upto(made, size - 1)

OctalExact(v) ==
  v >= 0 => parse_octal_field(Append(format_integer(v, FALSE, FALSE, 8,
              [flags |-> {"0"}, width |-> 7, precision |-> -1]), Nul)) = v

(* memmove is as good as a copy through a second array, wherever the two   *)
(* areas are; strlcpy and strlcat end the string and write no byte behind  *)
(* the size they are told; strstr finds the first place.                   *)
CopiesExact(s) ==
  LET room == Append(s, Nul) \o <<Junk, Junk>>
  IN /\ \A dst, src \in DOMAIN s : \A size \in 0 .. Len(s) - Max({dst, src}) + 1 :
          memmove(s, dst, src, size) = Store(s, dst, SubSeq(s, src, src + size - 1))
     /\ \A t \in {SubSeq(s, i, j) : i, j \in DOMAIN s}, size \in 1 .. Len(room) :
          LET copied == strlcpy(room, t, size)
              joined == strlcat(room, t, size)
          IN /\ StringAt(copied, 1) = Upto(t, size - 1)
             /\ From(copied, size + 1) = From(room, size + 1)
             /\ size > Len(s) => StringAt(joined, 1) = Upto(s \o t, size - 1)
             /\ From(joined, size + 1) = From(room, size + 1)
             /\ t # <<>> => /\ SubSeq(s, strstr(s, t), strstr(s, t) + Len(t) - 1) = t
                            /\ \A i \in 1 .. strstr(s, t) - 1 : SubSeq(s, i, i + Len(t) - 1) # t

(* A command line that begins with a word becomes what main expects: argc  *)
(* is the number of words, argv has a pointer to each, one after the other *)
(* and ended by 0, and behind each pointer is its word; the words of the   *)
(* stack are aligned and below the bytes.                                  *)
StackHolds(line, s) ==
  LET starts == SetToSortSeq({i \in DOMAIN line : line[i] # Blank /\ (i > 1 => line[i - 1] = Blank)},
                             LAMBDA i, j : i < j)
      argc == Len(starts)
      word(i) == SubSeq(line, i, i + FirstNot(From(line, i), ToSet(line) \ {Blank}) - 2)
      argv == s.words[s.esp + 8]
  IN /\ s.words[s.esp + 4] = argc
     /\ argv = s.esp + 12 /\ s.words[argv + 4 * argc] = 0
     /\ \A k \in 1 .. argc :
          StringAt(s.mem, s.words[argv + 4 * (k - 1)] - s.str_begin + 1) = word(starts[k])
     /\ s.esp % 4 = 0 /\ \A a \in DOMAIN s.words : a + 4 <= s.str_begin

StackExact(line) ==
  line # <<>> /\ Head(line) # Blank => StackHolds(line, stack(Append(line, Nul)))

VARIABLE input   \* what a routine is given: which one, and a number or a string

NoInput == <<"none", 0>>
Given(what) == input[1] = what

(* Numbers come out right at every size a word has, and at the edges where *)
(* an estimate or a counter of 16 bits could be one off.                   *)
ArithmeticExact ==
  /\ Given("dividend") => DivisionExact(input[2])
  /\ Given("frequency") => CountExact(input[2])

(* Text that is printed, copied or searched is what the comment over the   *)
(* routine promises, for every combination of flags, width and precision,  *)
(* every overlap and every size of the destination.                        *)
TextExact ==
  /\ Given("number") => NumberExact(input[2]) /\ OctalExact(input[2])
  /\ Given("string") => CopiesExact(input[2])

(* Whatever blanks a command line has between and behind its words, main   *)
(* of the new process gets the words.                                      *)
ArgsExact == Given("line") => StackExact(input[2])

RoutinesExact == ArithmeticExact /\ TextExact /\ ArgsExact
==============================================================================
