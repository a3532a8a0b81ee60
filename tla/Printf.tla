------------------------------- MODULE Printf -------------------------------
(***************************************************************************)
(* How printf, seq and the others write numbers (format/num_format.rs).    *)
(* What is written is a sequence of characters. A finite float is a number *)
(* n and a scale: n / 10^scale. align is Left, Space or Zero; a precision  *)
(* of -1 is none.                                                          *)
(***************************************************************************)
EXTENDS Integers, Sequences, SequencesExt, FiniteSetsExt

CONSTANTS MAX_FORMAT_WIDTH,  \* mod.rs
          DefaultPrecision,  \* digits shown when no precision is given: 6
          HexPrecision       \* hexadecimal digits shown when no precision is given: 15

ASSUME NumberFormatAssumption == MAX_FORMAT_WIDTH \in Nat /\ DefaultPrecision \in Nat /\ HexPrecision \in Nat \ {0}

Figures == <<"0", "1", "2", "3", "4", "5", "6", "7", "8", "9", "a", "b", "c", "d", "e", "f">>
Fill(n, c) == [i \in 1 .. n |-> c]
PadLeft(s, width, c) == Fill(Max({0, width - Len(s)}), c) \o s
PadRight(s, width, c) == s \o Fill(Max({0, width - Len(s)}), c)

\* to_str_radix
RECURSIVE InRadix(_, _)
InRadix(x, radix) == IF x < radix THEN <<Figures[x + 1]>> ELSE Append(InRadix(x \div radix, radix), Figures[(x % radix) + 1])

get_sign_indicator(sign, negative) == IF negative THEN <<"-">> ELSE IF sign = "none" THEN <<>> ELSE <<sign>>

TooWide == <<"formatting width too large">>

\* zeros go between the sign or the 0x and the digits
ZeroPadded(sign, s, remaining) ==
    LET k == IF Len(s) >= 2 /\ s[1] = "0" /\ s[2] = "x" THEN 2 ELSE 0
    IN  sign \o SubSeq(s, 1, k) \o PadLeft(SubSeq(s, k + 1, Len(s)), remaining - k, "0")

write_output(sign, s, width, align) ==
    LET remaining == width - Min({width, Len(sign)}) IN
    CASE width = 0 -> sign \o s
      [] width # 0 /\ remaining > MAX_FORMAT_WIDTH -> TooWide
      [] OTHER -> CASE align = "Left" -> sign \o PadRight(s, remaining, " ")
                    [] align = "Space" -> IF sign \in {<<"-">>, <<"+">>} /\ remaining > 0 THEN PadLeft(sign \o s, remaining + 1, " ")
                                          ELSE sign \o PadLeft(s, remaining, " ")
                    [] align = "Zero" -> ZeroPadded(sign, s, remaining)

\* SignedInt::fmt
fmt_signed(x, f) ==
    LET abs == InRadix(IF x < 0 THEN -x ELSE x, 10)
    IN  write_output(get_sign_indicator(f.sign, x < 0), IF f.precision > 0 THEN PadLeft(abs, f.precision, "0") ELSE abs, f.width, f.align)

\* UnsignedInt::fmt: radix 10, 8 or 16; prefix is the # flag
fmt_unsigned(x, f) ==
    LET s == InRadix(x, f.radix)
        prefix == CASE x > 0 /\ f.prefix /\ f.radix = 16 -> <<"0", "x">>
                    [] x > 0 /\ f.prefix /\ f.radix = 8 /\ Len(s) >= f.precision -> <<"0">>
                    [] OTHER -> <<>>
    IN  write_output(<<>>, prefix \o PadLeft(s, f.precision, "0"), f.width, f.align)

-----------------------------------------------------------------------------
\* BigDecimal rounds a division to the nearest, ties away from zero
RoundedDiv(a, b) == (2 * a + b) \div (2 * b)
DigitCount(n) == Len(InRadix(n, 10))

\* {:.p} of a BigDecimal
Fixed(n, scale, p) ==
    LET Pointed(s) == IF p = 0 THEN s ELSE SubSeq(s, 1, Len(s) - p) \o <<".">> \o SubSeq(s, Len(s) - p + 1, Len(s))
    IN  Pointed(PadLeft(InRadix(IF p >= scale THEN n * 10^(p - scale) ELSE RoundedDiv(n, 10^(scale - p)), 10), p + 1, "0"))

format_float_decimal(n, scale, precision, force) ==
    LET p == IF precision = -1 THEN DefaultPrecision ELSE precision
    IN  IF p = 0 /\ force THEN Append(Fixed(n, scale, 0), ".") ELSE Fixed(n, scale, p)

OverflowCorrected(digits, p, precision) ==
    IF Len(digits) = precision + 1 THEN [digits |-> SubSeq(digits, 1, precision), p |-> p - 1] ELSE [digits |-> digits, p |-> p]

bd_to_string_exp_with_prec(n, scale, precision) ==
    LET Shown(c) == [digits |-> c.digits, exponent |-> precision - 1 - c.p]
        Cut(surplus) == OverflowCorrected(InRadix(IF surplus > 0 THEN RoundedDiv(n, 10^surplus) ELSE n * 10^(-surplus), 10), scale - surplus, precision)
    IN  Shown(Cut(DigitCount(n) - precision))

Exponent(c, e, least) == <<c, IF e < 0 THEN "-" ELSE "+">> \o PadLeft(InRadix(IF e < 0 THEN -e ELSE e, 10), least, "0")

format_float_scientific(n, scale, precision, force) ==
    LET p == IF precision = -1 THEN DefaultPrecision ELSE precision
        Shown(first, rest, e) == <<first>> \o (IF rest # <<>> \/ force THEN <<".">> ELSE <<>>) \o rest \o Exponent("e", e, 2)
        Split(r) == Shown(r.digits[1], Tail(r.digits), r.exponent)
    IN  Split(IF n = 0 THEN [digits |-> Fill(p + 1, "0"), exponent |-> 0] ELSE bd_to_string_exp_with_prec(n, scale, p + 1))

strip_fractional_zeroes_and_dot(s) ==
    LET dot == SelectInSeq(s, LAMBDA c : c = ".")
        kept == {i \in DOMAIN s : i > dot /\ s[i] # "0"}
    IN  IF dot = 0 THEN s ELSE IF kept = {} THEN SubSeq(s, 1, dot - 1) ELSE SubSeq(s, 1, Max(kept))

format_float_shortest(n, scale, precision, force) ==
    LET p == Max({1, IF precision = -1 THEN DefaultPrecision ELSE precision})
        Trim(s) == IF force THEN s ELSE strip_fractional_zeroes_and_dot(s)
        Shown(r, whole) ==
            IF r.exponent < -4 \/ r.exponent >= p THEN Trim(<<r.digits[1], ".">> \o Tail(r.digits)) \o Exponent("e", r.exponent, 2)
            ELSE Trim(IF r.exponent < 0 THEN <<"0", ".">> \o Fill(-whole, "0") \o r.digits
                      ELSE SubSeq(r.digits, 1, whole) \o <<".">> \o SubSeq(r.digits, whole + 1, Len(r.digits)))
        Digits(r) == Shown(r, r.exponent + 1)
    IN  IF n = 0 THEN IF force THEN <<"0", ".">> \o Fill(p - 1, "0") ELSE <<"0">>
        ELSE Digits(bd_to_string_exp_with_prec(n, scale, p))

bits(x) == Min({k \in 0 .. 30 : x < 2^k})

HexOverflow(frac, exp, wanted) == IF bits(frac) > wanted THEN [frac |-> frac \div 16, exp |-> exp + 4] ELSE [frac |-> frac, exp |-> exp]

MaxPrecision(precision) == IF precision = -1 THEN HexPrecision ELSE precision
WantedBits(precision) == 4 + 4 * MaxPrecision(precision)
HexZero(least, force) == <<"0", "x", "0">> \o (IF least > 0 \/ force THEN <<".">> ELSE <<>>) \o Fill(least, "0") \o <<"p", "+", "0">>
HexText(first, rest, exp, precision, force) ==
    <<"0", "x", first>> \o (IF rest # <<>> \/ (precision \in {-1, 0} /\ force) THEN <<".">> ELSE <<>>) \o rest
    \o Exponent("p", exp + 4 * MaxPrecision(precision), 1)
HexTrimmed(first, rest, exp, precision, force) ==
    HexText(first, IF precision = -1 THEN SubSeq(rest, 1, Max({0} \cup {i \in DOMAIN rest : rest[i] # "0"})) ELSE rest, exp, precision, force)
HexDigits(digits, exp, precision, force) == HexTrimmed(digits[1], Tail(digits), exp, precision, force)
HexRounded(half, exp, wanted) == IF half % 2 = 1 THEN HexOverflow(half \div 2 + 1, exp, wanted) ELSE [frac |-> half \div 2, exp |-> exp]
HexCut(frac2, exp, over, wanted) ==
    IF over > 0 THEN HexRounded(frac2 \div 2^(over - 1), exp, wanted) ELSE [frac |-> frac2 * 2^(-over), exp |-> exp]
HexFraction(r, precision, force) == HexDigits(InRadix(r.frac, 16), r.exp, precision, force)
HexBinary(frac2, exp2, over, precision, force) == HexFraction(HexCut(frac2, exp2 + over, over, WantedBits(precision)), precision, force)
HexScaled(frac2, exp2, precision, force) == HexBinary(frac2, exp2, bits(frac2) - WantedBits(precision), precision, force)

format_float_hexadecimal(n, scale, precision, force) ==
    LET margin == Max({0, (MaxPrecision(precision) + 1) * 4 - bits(n)}) + 3 * scale + 1
    IN  IF n = 0 THEN HexZero(IF precision = -1 THEN 0 ELSE precision, force)
        ELSE IF scale <= 0 THEN HexScaled(n * 5^(-scale), -scale, precision, force)
        ELSE HexScaled((n * 2^margin) \div 5^scale, -scale - margin, precision, force)

\* Float::fmt of [k, neg, n, scale]: k is "num", "inf" or "nan"
fmt_float(x, f) ==
    LET s == CASE x.k # "num" -> IF x.k = "inf" THEN <<"i", "n", "f">> ELSE <<"n", "a", "n">>
               [] x.k = "num" /\ f.variant = "f" -> format_float_decimal(x.n, x.scale, f.precision, f.force)
               [] x.k = "num" /\ f.variant = "e" -> format_float_scientific(x.n, x.scale, f.precision, f.force)
               [] x.k = "num" /\ f.variant = "g" -> format_float_shortest(x.n, x.scale, f.precision, f.force)
               [] x.k = "num" /\ f.variant = "a" -> format_float_hexadecimal(x.n, x.scale, f.precision, f.force)
        align == IF x.k # "num" /\ f.align = "Zero" THEN "Space" ELSE f.align
    IN  write_output(get_sign_indicator(f.sign, x.neg), s, f.width, align)

-----------------------------------------------------------------------------
(***************************************************************************)
(* Format strings: escape sequences, conversion specifications, and the    *)
(* arguments they take (format/escape.rs, spec.rs, argument.rs, mod.rs). A *)
(* format string is a sequence of characters; what a parser leaves of it   *)
(* is given back as rest.                                                  *)
(***************************************************************************)

CONSTANT UsizeLimit   \* usize::MAX, where a number too large stops

ASSUME PrintfAssumption == UsizeLimit \in Nat

Skip(s, n) == SubSeq(s, n + 1, Len(s))
FigureOf(c) == SelectInSeq(Figures, LAMBDA x : x = c) - 1
Figure(c, base) == c \in Range(Figures) /\ FigureOf(c) < base
\* how many of the first most characters of s are digits
Run(s, base, most) == Max({k \in 0 .. Min({most, Len(s)}) : \A i \in 1 .. k : Figure(s[i], base)})
\* wrapping, as the byte the digits make
ByteFrom(ds, base) == FoldLeft(LAMBDA x, c : (base * x + FigureOf(c)) % 256, 0, ds)

-----------------------------------------------------------------------------
\* escape.rs. An item is a byte, a character that stays after its backslash, a
\* Unicode character, the end of the output, or an error.

Item(k, v) == [k |-> k, v |-> v]
Escaped(item, rest) == [item |-> item, rest |-> rest]
SimpleEscapes == [a |-> 7, n |-> 10, e |-> 27, bs |-> 92]

\* k digits were read
parse_code(s, base, most) == LET k == Run(s, base, most) IN [k |-> k, byte |-> ByteFrom(SubSeq(s, 1, k), base)]

\* two digits stand for the four of \u and the eight of \U, and d8 .. df for
\* the surrogates, which are no characters
IsSurrogate(n) == n \in 216 .. 223

parse_unicode(s, digits) ==
    LET all == Run(s, 16, digits) = digits
        n == FoldLeft(LAMBDA x, c : 16 * x + FigureOf(c), 0, SubSeq(s, 1, digits))
    IN  CASE Len(s) < digits -> Escaped(Item("missinghex", 0), s)
          [] Len(s) >= digits /\ ~all -> Escaped(Item("missinghex", 0), Skip(s, digits))
          [] OTHER -> IF IsSurrogate(n) THEN Escaped(Item("invalid", 0), Skip(s, digits)) ELSE Escaped(Item("char", n), Skip(s, digits))

ZeroDigits(zeroDigits) == zeroDigits

\* s is what follows the backslash; zeroDigits is 2 in a format, 3 in %b
parse_escape_code(s, zeroDigits) ==
    LET c == Head(s)
        t == Tail(s)
        octal == parse_code(s, 8, 3)
        zero == parse_code(t, 8, ZeroDigits(zeroDigits))
        hex == parse_code(t, 16, 2)
    IN  CASE s = <<>> -> Escaped(Item("byte", 92), s)
          [] s # <<>> /\ Figure(c, 8) /\ c # "0" -> Escaped(Item("byte", octal.byte), Skip(s, octal.k))
          [] s # <<>> /\ c \in DOMAIN SimpleEscapes -> Escaped(Item("byte", SimpleEscapes[c]), t)
          [] s # <<>> /\ c = "c" -> Escaped(Item("end", 0), t)
          [] s # <<>> /\ c = "x" -> IF hex.k = 0 THEN Escaped(Item("missinghex", 0), t) ELSE Escaped(Item("byte", hex.byte), Skip(t, hex.k))
          [] s # <<>> /\ c = "0" -> Escaped(Item("byte", zero.byte), Skip(t, zero.k))
          [] s # <<>> /\ c = "u" -> parse_unicode(t, 2)
          [] OTHER -> Escaped(Item("backslash", c), t)

RECURSIVE parse_escape_only(_, _)
parse_escape_only(s, zeroDigits) ==
    IF s = <<>> THEN <<>>
    ELSE IF s[1] # "bs" THEN <<Item("plain", s[1])>> \o parse_escape_only(Tail(s), zeroDigits)
    ELSE LET e == parse_escape_code(Tail(s), zeroDigits)
             item == IF e.item.k \in {"missinghex", "invalid"} THEN Item("backslash", "x") ELSE e.item
         IN  IF item.k = "end" THEN <<>> ELSE <<item>> \o parse_escape_only(e.rest, zeroDigits)

-----------------------------------------------------------------------------
\* spec.rs. A position is 0 for the next argument, or m for %m$. A width or a
\* precision is [k |-> "none" | "fixed" | "star", n |-> number or position].

Amount(k, n) == [k |-> k, n |-> n]
NoAmount == Amount("none", 0)
\* a number that ends the text is not read
eat_number(s) ==
    LET k == Run(s, 10, Len(s)) IN
    IF k \in {0, Len(s)} THEN [k |-> 0, n |-> 0]
    ELSE [k |-> k, n |-> Min({UsizeLimit, FoldLeft(LAMBDA x, c : Min({1000, 10 * x + FigureOf(c)}), 0, SubSeq(s, 1, k))})]

\* len characters read; ok unless the position is 0
eat_argument_position(s) ==
    LET Numbered(e) == IF e.k > 0 /\ s[e.k + 1] = "$" THEN [ok |-> e.n # 0, pos |-> e.n, len |-> e.k + 1] ELSE [ok |-> TRUE, pos |-> 0, len |-> 0]
    IN  Numbered(eat_number(s))

eat_asterisk_or_number(s) ==
    LET Star(at) == [amount |-> IF at.ok THEN Amount("star", at.pos) ELSE NoAmount, len |-> 1 + at.len]
        Plain(e) == IF e.k = 0 THEN [amount |-> NoAmount, len |-> 0] ELSE [amount |-> Amount("fixed", e.n), len |-> e.k]
    IN  IF s # <<>> /\ s[1] = "*" THEN Star(eat_argument_position(Tail(s))) ELSE Plain(eat_number(s))

FlagChars == {"-", "+", " ", "#", "0", "'"}
Span(s, C) == Max({k \in 0 .. Len(s) : \A i \in 1 .. k : s[i] \in C})
Lengths == {"h", "l", "j", "z", "t", "L"}

alignment(flags, precision) ==
    IF "-" \in flags THEN "Left" ELSE IF "0" \in flags /\ precision = NoAmount THEN "Zero" ELSE "Space"

SpecError == [ok |-> FALSE, type |-> "", pos |-> 0, flags |-> {}, width |-> NoAmount, precision |-> NoAmount, align |-> "Left", len |-> 0]

\* the type decides which flags and amounts go with it
SpecOfType(type, pos, flags, width, precision, len) ==
    LET refused == CASE type = "c" -> flags \cap {"0", "#"} # {} \/ precision # NoAmount
                     [] type = "s" -> flags \cap {"0", "#", "'"} # {}
                     [] type \in {"b", "q"} -> flags # {} \/ width # NoAmount \/ precision # NoAmount
                     [] type \in {"d", "u"} -> "#" \in flags
                     [] type \in {"o", "x", "f", "e", "g", "a"} -> FALSE
                     [] OTHER -> TRUE
    IN  IF refused THEN SpecError
        ELSE [ok |-> TRUE, type |-> type, pos |-> pos, flags |-> flags, width |-> width, precision |-> precision, len |-> len,
              align |-> IF type \in {"f", "e", "g", "a"} /\ "0" \in flags /\ "-" \notin flags THEN "Zero" ELSE alignment(flags, precision)]

\* s follows the %; len is how much of it was read. at, flags, w and precision
\* are the position, the flags, the width and the precision, read in this order.
SpecType(s, at, flags, w, precision, index) ==
    IF ~at.ok \/ index >= Len(s) THEN SpecError ELSE SpecOfType(s[index + 1], at.pos, flags, w.amount, precision, index + 1)
SpecLength(s, at, flags, w, precision, pre) == SpecType(s, at, flags, w, precision, pre + Span(Skip(s, pre), Lengths))
SpecPoint(s, at, flags, w, upto, p) ==
    SpecLength(s, at, flags, w, IF p.amount = NoAmount THEN Amount("fixed", 0) ELSE p.amount, upto + 1 + p.len)
SpecPrecision(s, at, flags, w, upto) ==
    IF upto < Len(s) /\ s[upto + 1] = "." THEN SpecPoint(s, at, flags, w, upto, eat_asterisk_or_number(Skip(s, upto + 1)))
    ELSE SpecLength(s, at, flags, w, NoAmount, upto)
SpecWidth(s, at, nf, w) == SpecPrecision(s, at, {s[at.len + i] : i \in 1 .. nf}, w, at.len + nf + w.len)
SpecFlags(s, at, nf) == SpecWidth(s, at, nf, eat_asterisk_or_number(Skip(s, at.len + nf)))
SpecPosition(s, at) == SpecFlags(s, at, Span(Skip(s, at.len), FlagChars))
Spec_parse(s) == SpecPosition(s, eat_argument_position(s))

-----------------------------------------------------------------------------
\* argument.rs. The arguments, how far they are used, and what was used.

NewArgs(args) == [args |-> args, next |-> 0, highest |-> -1, offset |-> 0, got |-> <<>>]
is_exhausted(a) == a.offset >= Len(a.args)

\* mutant: the next round starts after the last argument taken in turn
IgnoresPositions(a) == a.next

NextOffset(a) == Max({a.next, a.highest + 1})
start_next_batch(a) == [a EXCEPT !.offset = NextOffset(a), !.next = NextOffset(a)]

\* an argument that is not there is the number 0, and as text it is empty
next_arg(a, pos) ==
    LET i == IF pos = 0 THEN a.next ELSE a.offset + pos - 1
        v == IF i < Len(a.args) THEN [there |-> TRUE, n |-> a.args[i + 1]] ELSE [there |-> FALSE, n |-> 0]
        b == IF pos = 0 THEN [a EXCEPT !.next = @ + 1] ELSE [a EXCEPT !.highest = Max({@, i})]
    IN  [b EXCEPT !.got = Append(@, v)]

Got(a) == Last(a.got).n
next_u64(a) == Got(a) % 256
next_string(a) == IF ~Last(a.got).there THEN <<>> ELSE get_sign_indicator("none", Got(a) < 0) \o InRadix(IF Got(a) < 0 THEN -Got(a) ELSE Got(a), 10)
next_char(a) == IF ~Last(a.got).there THEN "NUL" ELSE Head(next_string(a))

resolve_asterisk_width(w, a) ==
    IF w.k # "star" THEN [args |-> a, width |-> w.n, left |-> FALSE]
    ELSE LET b == next_arg(a, w.n) IN [args |-> b, width |-> IF Got(b) < 0 THEN -Got(b) ELSE Got(b), left |-> Got(b) < 0]

\* -1: none
resolve_asterisk_precision(p, a) ==
    CASE p.k = "none" -> [args |-> a, precision |-> -1]
      [] p.k = "fixed" -> [args |-> a, precision |-> p.n]
      [] p.k = "star" -> LET b == next_arg(a, p.n) IN [args |-> b, precision |-> Max({0, Got(b)})]

AlignOf(spec, negWidth) == IF negWidth THEN "Left" ELSE spec.align

\* Spec::write. An argument is the text of a number, in which %b has nothing to
\* expand and %q nothing to quote.
Spec_write(spec, a) ==
    LET Padded(s, w) == IF w.width - Len(s) > MAX_FORMAT_WIDTH THEN TooWide
                        ELSE IF "-" \in spec.flags \/ w.left THEN PadRight(s, w.width, " ") ELSE PadLeft(s, w.width, " ")
        Text(s, w, precision) ==
            CASE spec.type = "s" -> Padded(IF precision # -1 /\ precision < Len(s) THEN SubSeq(s, 1, precision) ELSE s, w)
              [] spec.type \in {"b", "q"} -> s
        Number(b, x, w, precision, sign) ==
            LET f == [width |-> w.width, precision |-> Max({0, precision}), align |-> AlignOf(spec, w.left), sign |-> sign,
                      radix |-> CASE spec.type = "o" -> 8 [] spec.type = "x" -> 16 [] OTHER -> 10, prefix |-> "#" \in spec.flags]
            IN  CASE spec.type = "d" -> fmt_signed(x, f)
                  [] spec.type \in {"u", "o", "x"} -> fmt_unsigned(next_u64(b), f)
                  [] OTHER -> fmt_float([k |-> "num", neg |-> x < 0, n |-> IF x < 0 THEN -x ELSE x, scale |-> 0],
                                        [variant |-> spec.type, precision |-> precision, force |-> "#" \in spec.flags,
                                         width |-> w.width, align |-> AlignOf(spec, w.left), sign |-> sign])
        Taken(w, p, b) ==
            [args |-> b, out |-> CASE spec.type \in {"s", "b", "q"} -> Text(next_string(b), w, p.precision)
                                   [] spec.type = "c" -> Padded(<<next_char(b)>>, w)
                                   [] OTHER -> Number(b, Got(b), w, p.precision,
                                                      IF "+" \in spec.flags THEN "+" ELSE IF " " \in spec.flags THEN " " ELSE "none")]
        Precise(w, p) == Taken(w, p, next_arg(p.args, spec.pos))
        Wide(w) == Precise(w, resolve_asterisk_precision(spec.precision, w.args))
    IN  Wide(resolve_asterisk_width(spec.width, a))

-----------------------------------------------------------------------------
\* mod.rs: the items of a format, until the first error

RECURSIVE parse_spec_only(_)
parse_spec_only(s) ==
    CASE s = <<>> -> <<>>
      [] s = <<"%">> -> <<[k |-> "endswithpercent", c |-> "", spec |-> SpecError]>>
      [] Len(s) > 1 /\ s[1] = "%" /\ s[2] = "%" -> <<[k |-> "char", c |-> "%", spec |-> SpecError]>> \o parse_spec_only(Skip(s, 2))
      [] Len(s) > 1 /\ s[1] = "%" /\ s[2] # "%" ->
            LET Directive(spec) ==
                    IF ~spec.ok THEN <<[k |-> "specerror", c |-> "", spec |-> spec]>>
                    ELSE <<[k |-> "spec", c |-> "", spec |-> spec]>> \o parse_spec_only(Skip(s, 1 + spec.len))
            IN  Directive(Spec_parse(Tail(s)))
      [] OTHER -> <<[k |-> "char", c |-> s[1], spec |-> SpecError]>> \o parse_spec_only(Tail(s))

\* printf_writer: what is written before an error stays written
printf_writer(items, a) ==
    LET Shown(s, w) == IF w.out = TooWide THEN [s EXCEPT !.st = "toowide"] ELSE [s EXCEPT !.out = @ \o w.out, !.args = w.args]
        Step(s, item) ==
            IF s.st # "ok" THEN s
            ELSE CASE item.k = "char" -> [s EXCEPT !.out = Append(@, item.c)]
                   [] item.k = "spec" -> Shown(s, Spec_write(item.spec, s.args))
                   [] OTHER -> [s EXCEPT !.st = item.k]
    IN  FoldLeft(Step, [st |-> "ok", out |-> <<>>, args |-> a], items)

\* what is left after the directive may only be text
SuffixVerdict(after) ==
    LET i == SelectInSeq(after, LAMBDA x : x.k # "char") IN
    IF i = 0 THEN "ok" ELSE IF after[i].k \in {"spec", "endswithpercent"} THEN "toomany" ELSE after[i].k

\* Format::parse for an integer: one directive, with text on both sides
Format_parse(s) ==
    LET Verdict(items, i) ==
            CASE i = 0 -> "needatleastone"
              [] i # 0 /\ items[i].k # "spec" -> items[i].k
              [] i # 0 /\ items[i].k = "spec" /\ (items[i].spec.type # "d" \/ "star" \in {items[i].spec.width.k, items[i].spec.precision.k}) -> "wrongtype"
              [] OTHER -> SuffixVerdict(Skip(items, i))
        First(items) == Verdict(items, SelectInSeq(items, LAMBDA x : x.k # "char"))
    IN  First(parse_spec_only(s))
=============================================================================
