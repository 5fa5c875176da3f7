------------------------------ MODULE Vsprintf ------------------------------
(***************************************************************************)
(* vsprintf and number of kernel/print.c, a step for each turn of the loop *)
(* over the format, compared with what C's printf writes.                  *)
(*                                                                         *)
(* Characters are strings of one character; a %s argument is a sequence of *)
(* them, or NULL.  An int has the values -Half .. Half - 1, Half being     *)
(* 2^31 in the machine, and wraps.  Junk is what is read from before the   *)
(* table of digits.  Not represented: the length of buf, and that printk's *)
(* buffer is one for all.                                                  *)
(***************************************************************************)
EXTENDS Integers, Sequences

CONSTANTS Half,
          Flags, Widths,    \* character sequences of a format
          Numbers, Strings, \* arguments
          Letters,          \* of the strings
          NULL, Junk

VARIABLES fmt,          \* what is left of the format
          at,           \* the place in the loop
          flags, field_width,
          arg_addr,     \* the arguments left
          buf,
          asked         \* history: the directive of this call

printVars == <<fmt, at, flags, field_width, arg_addr, buf, asked>>

Digits == [c \in {"0", "1", "2", "3", "4", "5", "6", "7", "8", "9"} |->
             CHOOSE i \in 0 .. 9 : c = <<"0", "1", "2", "3", "4", "5", "6", "7",
                                         "8", "9">>[i + 1]]
up == <<"0", "1", "2", "3", "4", "5", "6", "7", "8", "9", "A", "B", "C", "D", "E", "F">>
low == <<"0", "1", "2", "3", "4", "5", "6", "7", "8", "9", "a", "b", "c", "d", "e", "f">>

Times(n, c) == [i \in 1 .. n |-> c]

\* What C writes of a number.
NumberChars == {up[i] : i \in 1 .. 16} \cup {low[i] : i \in 1 .. 16} \cup {"-", "x", "X", " "}

\* A width does not begin with 0, which is a flag; what lies before the table is
\* none of the characters meant.
ASSUME PrintAssumption ==
  /\ Half \in Nat \ 0 .. 16 /\ Numbers \subseteq -Half .. Half - 1
  /\ Flags \subseteq Seq({"-", "0"})
  /\ \A w \in Widths : w \in Seq(DOMAIN Digits) /\ (w # <<>> => w[1] # "0")
  /\ \A s \in Strings : s = NULL \/ s \in Seq(Letters)
  /\ Junk \notin NumberChars

---------------------------------------------------------------------------
(* number.                                                                 *)

\* The digits of num, the highest first.  % and / of a negative number round
\* towards 0, so the remainders are negative and index what lies before the table.
Converted(num, base, table) ==
  LET size(n)  == IF n < 0 THEN -n ELSE n
      digit(n) == IF n < 0 /\ size(n) % base # 0 THEN Junk ELSE table[(size(n) % base) + 1]
      next(n)  == IF n < 0 THEN -(size(n) \div base) ELSE n \div base
      digits[n \in -Half .. Half - 1] ==
        IF n = 0 THEN <<>> ELSE Append(digits[next(n)], digit(n))
  IN  IF num = 0 THEN <<"0">> ELSE digits[num]

\* Mutant: the 0x takes no room.
roomWithout0x(width, head, digits) == width - Len(digits) - (IF head = <<"-">> THEN 1 ELSE 0)

\* What width leaves for padding.
room(width, head, digits) == width - Len(head) - Len(digits)

number(num, base, width, f) ==
  LET neg    == "SIGN" \in f /\ num < 0
      digits == Converted(IF neg /\ num # -Half THEN -num ELSE num, base,
                          IF "SMALL" \in f THEN low ELSE up)
      head   == (IF neg THEN <<"-">> ELSE <<>>)
                \o (IF base = 16 THEN <<"0", IF "SMALL" \in f THEN "x" ELSE "X">> ELSE <<>>)
      pad    == Times(room(width, head, digits),
                      IF "ZEROPAD" \in f THEN "0" ELSE " ")
  IN  IF "LEFT" \in f THEN head \o digits \o pad ELSE head \o pad \o digits

---------------------------------------------------------------------------
(* vsprintf.                                                               *)

Directive(f, w, c, a) == [flags |-> f, width |-> w, conv |-> c, arg |-> a]

\* A call that prints one directive between two characters, or whose format ends
\* in a %.
PrintInit ==
  /\ \/ \E f \in Flags, w \in Widths :
          \/ \E c \in {"x", "X", "d", "i", "u"}, n \in Numbers : asked = Directive(f, w, c, n)
          \/ \E s \in Strings : asked = Directive(f, w, "s", s)
          \/ asked = Directive(f, w, "c", "z")
     \/ \E c \in {"%", "q", "none"} : asked = Directive(<<>>, <<>>, c, 0)
  /\ fmt = <<"a", "%">> \o (IF asked.conv = "none" THEN <<>>
                           ELSE asked.flags \o asked.width \o <<asked.conv, "b">>)
  /\ arg_addr = <<asked.arg, 0>>
  /\ at = "text" /\ flags = {} /\ field_width = -1 /\ buf = <<>>

Is(chars) == fmt # <<>> /\ Head(fmt) \in chars

Text ==
  /\ at = "text" /\ fmt # <<>>
  /\ \/ ~Is({"%"}) /\ buf' = Append(buf, Head(fmt)) /\ UNCHANGED <<at, flags>>
     \/ Is({"%"}) /\ at' = "flags" /\ flags' = {} /\ UNCHANGED buf
  /\ fmt' = Tail(fmt)
  /\ UNCHANGED <<field_width, arg_addr, asked>>

Flag ==
  /\ at = "flags"
  /\ \/ /\ Is({"-", "0"})
        /\ flags' = flags \cup {IF Head(fmt) = "-" THEN "LEFT" ELSE "ZEROPAD"}
        /\ fmt' = Tail(fmt)
        /\ UNCHANGED <<at, field_width>>
     \/ /\ ~Is({"-", "0"})
        /\ at' = "width" /\ field_width' = -1
        /\ UNCHANGED <<fmt, flags>>
  /\ UNCHANGED <<arg_addr, buf, asked>>

\* i stays 0, so every digit replaces the one before.
Width ==
  /\ at = "width" /\ Is(DOMAIN Digits)
  /\ field_width' = Digits[Head(fmt)]
  /\ fmt' = Tail(fmt)
  /\ UNCHANGED <<at, flags, arg_addr, buf, asked>>

\* A conversion that appends text, and takes an argument.
AddText(text) ==
  /\ buf' = buf \o text
  /\ arg_addr' = Tail(arg_addr)

Chars(s) == IF s = NULL THEN <<"<", "N", "U", "L", "L", ">">> ELSE s

\* %c and %s are padded with blanks.
Padded(s) == LET pad == Times(field_width - Len(s), " ")
             IN  IF "LEFT" \in flags THEN s \o pad ELSE pad \o s

Convert ==
  /\ at = "width" /\ ~Is(DOMAIN Digits)
  /\ LET arg == Head(arg_addr)
     IN  \/ Is({"c"}) /\ AddText(Padded(<<arg>>))
         \/ Is({"s"}) /\ AddText(Padded(Chars(arg)))
         \/ Is({"x"}) /\ AddText(number(arg, 16, field_width, flags \cup {"SMALL"}))
         \/ Is({"X"}) /\ AddText(number(arg, 16, field_width, flags))
         \/ Is({"d", "i"}) /\ AddText(number(arg, 10, field_width, flags \cup {"SIGN"}))
         \/ Is({"u"}) /\ AddText(number(arg, 10, field_width, flags))
         \/ /\ ~Is({"c", "s", "x", "X", "d", "i", "u"})
            /\ buf' = buf \o (IF Is({"%"}) THEN <<>> ELSE <<"%">>)
                          \o (IF fmt = <<>> THEN <<>> ELSE <<Head(fmt)>>)
            /\ UNCHANGED arg_addr
  /\ at' = "text"
  /\ fmt' = IF fmt = <<>> THEN fmt ELSE Tail(fmt)
  /\ UNCHANGED <<flags, field_width, asked>>

PrintNext == Text \/ Flag \/ Width \/ Convert

---------------------------------------------------------------------------
(* What C says.                                                            *)

Value(width) == LET v[i \in 0 .. Len(width)] ==
                      IF i = 0 THEN 0 ELSE 10 * v[i - 1] + Digits[width[i]]
                IN  v[Len(width)]

Powers(base) == LET p[n \in 0 .. 2 * Half] == IF n = 0 THEN 1 ELSE base * p[n - 1] IN p

\* The figures of v: as many as it needs, that of the highest power first.
Numeral(v, base, table) ==
  LET power == Powers(base)
      n     == CHOOSE k \in 1 .. v + 1 : power[k] > v /\ (k = 1 \/ power[k - 1] <= v)
  IN  [i \in 1 .. n |-> table[((v \div power[n - i]) % base) + 1]]

Signed(d) == d.conv \in {"d", "i"}
Number(d) == d.conv \in {"x", "X", "d", "i", "u"}

\* The text without padding, in two parts: zeros go between them.
Prefix(d) ==
  CASE Signed(d) /\ d.arg < 0 -> <<"-">>
    [] d.conv \in {"x", "X"} -> <<"0", d.conv>>
    [] OTHER -> <<>>

Body(d) ==
  LET v == IF d.arg >= 0 THEN d.arg ELSE IF Signed(d) THEN -d.arg ELSE d.arg + 2 * Half
  IN  CASE d.conv = "x" -> Numeral(v, 16, low)
        [] d.conv = "X" -> Numeral(v, 16, up)
        [] d.conv \in {"d", "i", "u"} -> Numeral(v, 10, up)
        [] d.conv = "c" -> <<d.arg>>
        [] d.conv = "s" -> Chars(d.arg)
        [] d.conv \in {"%", "none"} -> <<"%">>
        [] OTHER -> <<"%", d.conv>>

Has(d, f) == \E i \in 1 .. Len(d.flags) : d.flags[i] = f
Room(d) == Value(d.width) - Len(Prefix(d)) - Len(Body(d))

InC(d) ==
  CASE Has(d, "-") -> Prefix(d) \o Body(d) \o Times(Room(d), " ")
    [] ~Has(d, "-") /\ Has(d, "0") /\ Number(d) -> Prefix(d) \o Times(Room(d), "0") \o Body(d)
    [] OTHER -> Times(Room(d), " ") \o Prefix(d) \o Body(d)

\* What the code gets right: no negative number as unsigned, nor -2^31; and
\* where there is room to fill, only a width of one digit, no zeros on the right,
\* and no blanks before a sign or a 0x.
Agrees(d) ==
  /\ Number(d) => d.arg >= 0 \/ (Signed(d) /\ d.arg # -Half)
  /\ Room(d) > 0 =>
       /\ Len(d.width) = 1
       /\ Number(d) => IF Has(d, "-") THEN ~Has(d, "0")
                       ELSE Has(d, "0") \/ Prefix(d) = <<>>

\* vsprintf writes what C's printf writes (with 0x before every hexadecimal
\* number) exactly in the cases of Agrees, whatever follows: the flags, the
\* width and the argument of a directive are used up.
PrintsAsC ==
  at = "text" /\ fmt = <<>> =>
    (buf = <<"a">> \o InC(asked) \o (IF asked.conv = "none" THEN <<>> ELSE <<"b">>)
       <=> Agrees(asked))
=============================================================================
