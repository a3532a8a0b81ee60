--------------------------- MODULE MCUucoreNumbers --------------------------
(***************************************************************************)
(* The numbers of the shared library: read, computed with and shown.       *)
(***************************************************************************)
EXTENDS Numerals, ToolBench, Printf

(***************************************************************************)
(* num_parser, parse_time, parse_size and parse_signed_num on short texts. *)
(***************************************************************************)

\* the end of the run of digits of s that starts at k
RunEnd(s, k, base) == Max({j \in k - 1 .. Len(s) : \A i \in k .. j : digit(base, s[i])})
\* the number some digits stand for, by their places
Positional(ds, base) == FoldLeft(LAMBDA x, i : x + DigitOf[ds[i]] * base^(Len(ds) - i), 0, [i \in DOMAIN ds |-> i])

Bodies == {x \in BoundedSeq({"0", "1", "9", "a", ".", "e", "p", "-", "s"}, 4) : ~IsPrefix(<<"-">>, x)}
Specials == {<<"inf">>, <<"inf", "inity">>, <<"inf", "s">>, <<"nan">>, <<"nan", "inf">>, <<"inf", "inity", "m">>}
Numeral == Give("numeral", {[pre |-> <<>>, base |-> b, body |-> x] : b \in {<<>>, <<"0", "x">>, <<"0", "b">>}, x \in Bodies}
                           \cup {[pre |-> q, base |-> b, body |-> x] : q \in {<<"-">>, <<" ", "+">>}, b \in {<<>>, <<"0", "x">>},
                                                                      x \in BoundedSeq({"0", "1", ".", "e", "9"}, 3) \cup Specials}
                           \cup {[pre |-> q, base |-> <<"0", "b">>, body |-> x] : q \in {<<>>, <<"-">>},
                                                                      x \in {<<"1">> \o [i \in 1 .. k |-> d] : k \in 5 .. 8, d \in {"0", "1"}}})

\* A float is read as far as it is one and no further: the digits, with one
\* point among them, then an exponent if it is complete. The value is the one
\* the places of the digits give, however many are gathered at a time, the rest
\* is reported, and what no scale can hold is infinite or zero with its sign.
NumeralsReadGreedily ==
    LET s == in.base \o in.body
        hex == strip_prefix(s, <<"0", "x">>)
        minus == in.pre = <<"-">>
        \* n is the number of the digits, with frac of them after the point, e the
        \* exponent, rest what is left, r what was read
        ReadAs(n, frac, e, rest, scale, r) ==
            /\ r.v = CASE n = 0 \/ scale > MaxScale -> IF minus THEN Special("mzero") ELSE Zero
                       [] n # 0 /\ scale < -MaxScale -> Special(IF minus THEN "minf" ELSE "inf")
                       [] OTHER -> Number(minus, n, IF hex THEN 2 ELSE 10, IF hex THEN e - 4 * frac ELSE -scale)
            /\ r.rest = rest
            /\ r.st = "ok" <=> (rest = <<>> /\ (n = 0 \/ scale \in -MaxScale .. MaxScale))
        Bare(r) ==
            IF hex THEN r.st = "partial" /\ r.v \in {Zero, Special("mzero")} /\ r.rest = Tail(s)
            ELSE IF s # <<>> /\ s[1] \in {"inf", "nan"}
            THEN /\ r.v = IF minus THEN neg(Special(s[1])) ELSE Special(s[1])
                 /\ r.rest = After(s, IF IsPrefix(<<"inf", "inity">>, s) THEN 2 ELSE 1)
                 /\ r.st = "ok" <=> r.rest = <<>>
            ELSE r.st = "notnumeric"
        \* the digits of t end at i, those after its point at f, its exponent at x
        Raised(t, ds, frac, f, sign, x, r) ==
            LET e == IF x > f + 1 + sign THEN Positional(SubSeq(t, f + 2 + sign, x), 10) * (IF sign = 1 THEN -1 ELSE 1) ELSE 0 IN
            IF ds = <<>> THEN Bare(r)
            ELSE ReadAs(Positional(ds, IF hex THEN 16 ELSE 10), frac, e, After(t, IF x > f + 1 + sign THEN x ELSE f),
                        IF hex THEN -e ELSE frac - e, r)
        Fraction(t, i, f, sign, r) ==
            Raised(t, SubSeq(t, 1, i) \o SubSeq(t, i + 2, f), IF f > i THEN f - i - 1 ELSE 0, f, sign,
                     IF f < Len(t) /\ t[f + 1] = (IF hex THEN "p" ELSE "e") THEN RunEnd(t, f + 2 + sign, 10) ELSE f, r)
        Whole(t, i, f, r) == Fraction(t, i, f, IF f + 2 <= Len(t) /\ t[f + 2] = "-" THEN 1 ELSE 0, r)
        Digits(t, i, base, r) == Whole(t, i, IF i < Len(t) /\ t[i + 1] = "." THEN RunEnd(t, i + 2, base) ELSE i, r)
        Text(t, base, r) == Digits(t, RunEnd(t, 1, base), base, r)
    IN  tool = "numeral" => Text(After(s, IF hex THEN 2 ELSE 0), IF hex THEN 16 ELSE 10, parse(in.pre \o s, "decimal", NoSuffixes))

\* An integer is the number its digits stand for in the base its prefix names,
\* if it fits; an i64 saturates at the end its sign points to, a u64 wraps a
\* negative number and saturates beyond.
IntegersFitOrSaturate ==
    LET s == in.base \o in.body
        ReadAs(ds, n, i, u) ==
            IF ds = <<>> THEN i.st # "ok" /\ u.st # "ok" /\ i.v = 0 /\ u.v = 0
            ELSE /\ i.v = Max({-(2^(Bits - 1)), Min({n, 2^(Bits - 1) - 1})})
                 /\ u.v = IF n \in -U64Max .. U64Max THEN n % (U64Max + 1) ELSE U64Max
                 /\ i.rest = u.rest
                 /\ i.rest = <<>> => (i.st = "ok" <=> n \in -(2^(Bits - 1)) .. 2^(Bits - 1) - 1)
        Digits(ds, base, i, u) == ReadAs(ds, Positional(ds, base) * (IF in.pre = <<"-">> THEN -1 ELSE 1), i, u)
        Text(t, base, i, u) == Digits(SubSeq(t, 1, RunEnd(t, 1, base)), base, i, u)
        Based(base, i, u) == Text(After(s, IF base \in {2, 16} THEN 2 ELSE 0), base, i, u)
    IN  tool = "numeral" => Based(CASE strip_prefix(s, <<"0", "x">>) -> 16 [] strip_prefix(s, <<"0", "b">>) -> 2
                                    [] OTHER -> IF strip_prefix(s, <<"0">>) THEN 8 ELSE 10,
                                  extended_parse_i64(in.pre \o s), extended_parse_u64(in.pre \o s))

Durations == {[text |-> x, suffixes |-> b] : x \in BoundedSeq({"0", "1", "9", ".", "e", "-", "m"}, 5), b \in BOOLEAN}
             \cup {[text |-> <<"0", "x">> \o x, suffixes |-> TRUE] : x \in BoundedSeq({"1", "a", ".", "p", "-"}, 4)}
Duration == Give("duration", Durations)

\* A duration that is accepted is never cut to nothing: a positive time waits at
\* least a nanosecond, a time with a unit waits what the unit makes of it, a
\* longer one saturates instead of wrapping, and a shorter text never waits
\* longer: one more 0 before the point multiplies by ten, up to the largest.
DurationsAreKept ==
    LET Kept(d, r, more, unitless) ==
            /\ d.st = "ok" => d.nanos \in 0 .. DurationMax
            /\ d.st = "ok" /\ r.v.n > 0 => d.nanos > 0
            /\ d.st = "ok" /\ d.nanos = 0 => r.v.n = 0
            /\ d.st = "ok" /\ in.text # <<>> /\ Last(in.text) = "m" => unitless.st = "error"
            /\ d.st = "ok" /\ more.st = "ok" /\ Range(in.text) \cap {".", "e", "x", "-", "p"} = {} =>
                  more.nanos = Min({10 * d.nanos, DurationMax}) \/ more.nanos = DurationMax
            /\ r.st \in {"ok", "overflow"} /\ r.v.k = "num" /\ ~r.v.neg => d.st = "ok"
    IN  tool = "duration" =>
            Kept(duration_from_str(in.text, in.suffixes), parse(in.text, "duration", IF in.suffixes THEN TimeUnits ELSE NoSuffixes),
                 duration_from_str(Append(in.text, "0"), in.suffixes), duration_from_str(in.text, FALSE))

SizeUnits == {<<>>, <<"K">>, <<"k", "B">>, <<"M">>, <<"K", "i", "B">>, <<"b">>, <<"B">>, <<"%">>, <<"Q">>, <<"K", "b">>}
SizeNumbers == BoundedSeq({"0", "1", "7", "9"}, 4) \cup {<<"0", "x">> \o x : x \in BoundedSeq({"0", "a", "b"}, 3)}
               \cup {<<"0", "b">> \o x : x \in BoundedSeq({"0", "1"}, 4) \ {<<>>}}
SizeParsers == {DefaultParser, [DefaultParser EXCEPT !.bByte = TRUE], [DefaultParser EXCEPT !.capitalB = TRUE],
                [DefaultParser EXCEPT !.noEmpty = TRUE], [DefaultParser EXCEPT !.unit = <<"K">>],
                [DefaultParser EXCEPT !.allow = {<<"K">>, <<"b">>}]}
Size == Give("size", {[number |-> x, unit |-> u, parser |-> o] : x \in SizeNumbers, u \in SizeUnits, o \in SizeParsers})

\* A size is its number, in the base its prefix names, times its unit: exactly,
\* or an error, or for the saturating parser the largest value; never a wrapped
\* one. The same text means the same under every parser that accepts it, but
\* for the options that change the unit.
SizesAreExact ==
    tool = "size" =>
        LET s == in.number \o in.unit
            o == in.parser
            r == parse_size(s, o)
            most == parse_u64_max(s, o)
            plain == in.unit # <<"%">> /\ s # <<>>
            hex == strip_prefix(in.number, <<"0", "x">>)
            bin == strip_prefix(in.number, <<"0", "b">>) /\ Len(s) > 2
            octal == ~hex /\ ~bin /\ Len(in.number) > 1 /\ in.number[1] = "0" /\ Range(s) # {"0"}
            base == CASE hex -> 16 [] bin -> 2 [] OTHER -> IF octal THEN 8 ELSE 10
            t == After(s, IF hex \/ bin THEN 2 ELSE 0)
            ds == SubSeq(t, 1, RunEnd(t, 1, IF octal THEN 10 ELSE base))
            given == IF Len(ds) = Len(t) THEN o.unit ELSE After(t, Len(ds))
            unit == IF o.bByte /\ given # <<>> /\ Last(given) = "b" THEN Front(given) ELSE given
        IN  /\ r.st = "ok" /\ plain /\ ds # <<>> => r.n = Positional(ds, base) * Factor(unit, o)
            /\ r.st = "ok" /\ plain /\ in.number = <<>> => r.n = Factor(unit, o) /\ ~o.noEmpty
            /\ r.st = "ok" => r.n \in 0 .. U128Max
            /\ r.st = "ok" => most = [st |-> "ok", n |-> Min({r.n, U64Max})]
            /\ r.st = "toobig" <=> (r.st # "ok" /\ most.st = "ok")
            /\ in.number = <<"0">> /\ in.unit = <<"K">> /\ o.allow = {<<"any">>} => r = [st |-> "ok", n |-> 0]

Signed == Give("signed", {[sign |-> g, zeros |-> z, number |-> x, unit |-> u] : g \in {<<>>, <<"+">>, <<"-">>}, z \in 0 .. 2,
                            x \in BoundedSeq({"1", "7", "9"}, 3) \ {<<>>}, u \in {<<>>, <<"K">>, <<"Q">>}})

\* head and tail read a number with leading zeros as decimal and saturate; the
\* variant that does not saturate reads the same text the same way when it has
\* no leading zeros, and takes it for octal when it has.
SignedNumbersAreDecimal ==
    tool = "signed" =>
        LET s == in.sign \o [i \in 1 .. in.zeros |-> "0"] \o in.number \o in.unit
            most == parse_signed_num_max(s)
            exact == parse_signed_num(s)
            sign == IF in.sign = <<>> THEN "" ELSE in.sign[1]
        IN  /\ most = IF in.unit = <<"Q">> THEN [st |-> "suffix", n |-> 0, sign |-> sign]
                      ELSE [st |-> "ok", sign |-> sign,
                            n |-> Min({U64Max, Positional(in.number, 10) * (IF in.unit = <<>> THEN 1 ELSE 1024)})]
            /\ in.zeros = 0 /\ exact.st = "ok" => exact = most
            /\ exact.st = "ok" => exact.n <= most.n

-----------------------------------------------------------------------------
(***************************************************************************)
(* Sums and orders of three decimals, repeated increments, buffers of the  *)
(* last items, and sizes shown to people.                                  *)
(***************************************************************************)

Decimals == {BigDecimal(n) : n \in -2 .. 2} \cup {Dec(k, 0) : k \in {"mzero", "inf", "minf", "nan", "mnan"}}
Decimal == Give("decimal", {[x |-> x, y |-> y, z |-> z] : x \in Decimals, y \in Decimals, z \in Decimals})

\* Decimals with infinities, a signed zero and NaN add and compare as numbers
\* do: the order is total on what is a number and turns round under negation,
\* adding a finite number keeps it, equal values are not ordered, a NaN or the
\* sum of opposite infinities is neither equal to nor ordered with anything.
DecimalsBehaveAsNumbers ==
    tool = "decimal" =>
        LET x == in.x  y == in.y  z == in.z
            Turned(c) == CASE c = "less" -> "greater" [] c = "greater" -> "less" [] OTHER -> c
        IN  /\ partial_cmp(y, x) = Turned(partial_cmp(x, y))
            /\ partial_cmp(negate(x), negate(y)) = Turned(partial_cmp(x, y))
            /\ partial_cmp(x, y) = "less" /\ partial_cmp(y, z) \in {"less", "equal"} => partial_cmp(x, z) = "less"
            /\ eq(x, y) => partial_cmp(x, y) = "equal"
            /\ (partial_cmp(x, y) = "none") <=> (is_nan(x) \/ is_nan(y))
            /\ z.k \in {"num", "mzero"} => partial_cmp(add(x, z), add(y, z)) = partial_cmp(x, y)
            /\ is_nan(add(x, y)) <=> (is_nan(x) \/ is_nan(y) \/ {x.k, y.k} = {"inf", "minf"})
            /\ ~is_nan(add(x, y)) => add(x, y) = add(y, x)
            /\ ~is_nan(add(add(x, y), z)) => add(add(x, y), z) = add(x, add(y, z))
            /\ negate(negate(x)) = x

\* a value right-aligned in a buffer of five bytes, the others holding junk
Increments == {[val |-> [i \in 1 .. 5 |-> IF i <= 5 - Len(v) THEN junk ELSE v[i - 5 + Len(v)]], start |-> 5 - Len(v), inc |-> x, times |-> k] :
                 v \in {<<0>>, <<9>>, <<1, 0>>, <<9, 9>>, <<9, 8, 9>>}, junk \in {0, 7}, k \in 1 .. 11,
                 x \in {<<0>>, <<1>>, <<9>>, <<1, 1>>, <<9, 9>>, <<1, 0, 1>>, <<9, 0, 9>>}}
Increment == Give("increment", Increments)
ValueOf(ds) == FoldLeft(LAMBDA x, d : 10 * x + d, 0, ds)

\* Counting in place counts: after any number of increments the value is the
\* first one plus as many increments, whatever the free bytes before it held,
\* and the digits after its end are not touched. The increment is no longer
\* than the value, or does not carry past its own first digit.
IncrementsAddUp ==
    tool = "increment" =>
        LET end == FoldLeft(LAMBDA s, i : fast_inc(s.val, s.start, 5, in.inc), [val |-> in.val, start |-> in.start], [i \in 1 .. in.times |-> i])
            one == fast_inc_one(in.val, in.start, 5)
            From(s) == ValueOf(SubSeq(s.val, s.start + 1, 5))
        IN  /\ Len(in.inc) <= 5 - in.start \/ From(in) + ValueOf(in.inc) < 10^Len(in.inc) =>
                  From(end) = From(in) + in.times * ValueOf(in.inc)
            /\ From(one) = From(in) + 1 /\ one.start \in {in.start - 1, in.start}
            /\ SubSeq(one.val, 1, one.start) = SubSeq(in.val, 1, one.start)

Ring == Give("ring", {[values |-> [i \in 1 .. n |-> i], size |-> k] : n \in 0 .. 6, k \in 0 .. 7})

\* The buffer keeps the last items, as many as it was made for, and gives back
\* every other one, in order, as it is pushed out.
RingKeepsTheLast ==
    tool = "ring" =>
        LET b == from_iter(in.values, in.size) IN
        /\ b.evicted \o b.data = in.values
        /\ Len(b.data) = IF Len(in.values) < in.size THEN Len(in.values) ELSE in.size

Human == Give("human", {[size |-> s, base |-> b] : s \in 0 .. 2500, b \in {12, 16}})

\* A size shown to people never says less than there is and never more than one
\* step of what it shows, keeps its decimal exactly below ten, and of two sizes
\* never shows the larger as the smaller.
HumanSizesRoundUp ==
    tool = "human" =>
        LET h == human_readable(in.size, in.base)
            next == human_readable(in.size + 1, in.base)
            unit == in.base^h.power
            Shown(x) == x.tenths * in.base^x.power
        IN  /\ Shown(h) >= 10 * in.size /\ Shown(h) < 10 * in.size + (IF h.decimal THEN unit ELSE 10 * unit)
            /\ h.decimal => h.tenths \in 10 .. 99
            /\ ~h.decimal /\ h.power > 0 => h.tenths >= 100 /\ h.tenths <= 10 * in.base
            /\ Shown(h) <= Shown(next)

-----------------------------------------------------------------------------
(***************************************************************************)
(* Small integers and decimals written in every way, and read back.        *)
(***************************************************************************)

FigureValue(c) == SelectInSeq(Figures, LAMBDA x : x = c) - 1
ReadFigures(s, radix) == FoldLeft(LAMBDA x, c : radix * x + FigureValue(c), 0, s)
Without(s, C) == SelectSeq(s, LAMBDA c : c \notin C)

IntegerShown == Give("integer", {[x |-> x, f |-> [radix |-> r, prefix |-> b, precision |-> p, width |-> w, align |-> a, sign |-> g]] :
                    x \in {-12, -8, -1, 0, 1, 7, 8, 15, 16, 255}, r \in {8, 10, 16}, b \in BOOLEAN, p \in 0 .. 4,
                    w \in {0, 1, 2, 5, 6, 7}, a \in {"Left", "Space", "Zero"}, g \in {"none", "+", " "}})

\* An integer is shown whole and in its place: the digits are the number's, as
\* many as the precision asks for, its sign and prefix stand right before them
\* once, the field is as wide as asked or as the number needs, and padding is on
\* one side, zeros only between the prefix and the digits.
IntegersAreShownWhole ==
    tool = "integer" =>
        LET x == in.x
            f == in.f
            s == IF x < 0 \/ f.radix = 10 THEN fmt_signed(x, f) ELSE fmt_unsigned(x, f)
            abs == IF x < 0 THEN -x ELSE x
            signed == x < 0 \/ f.radix = 10
            radix == IF x < 0 THEN 10 ELSE f.radix
            sign == IF ~signed THEN <<>> ELSE IF x < 0 THEN <<"-">> ELSE IF f.sign = "none" THEN <<>> ELSE <<f.sign>>
            body == Without(s, {" "})
            bare == IF sign \in {<<"-">>, <<"+">>} THEN Tail(body) ELSE body
            hex == ~signed /\ f.prefix /\ radix = 16 /\ x > 0
            digits == IF hex THEN SubSeq(bare, 3, Len(bare)) ELSE bare
            spaces == Len(s) - Len(body)
        IN  IF f.width > Len(sign) + MAX_FORMAT_WIDTH THEN s = TooWide
            ELSE /\ sign \in {<<"-">>, <<"+">>} => body[1] = sign[1]
                 /\ hex => bare[1] = "0" /\ bare[2] = "x"
                 /\ ReadFigures(digits, radix) = abs /\ Len(digits) >= f.precision /\ digits # <<>>
                 /\ ~signed /\ f.prefix /\ radix = 8 => digits[1] = "0"
                 /\ Len(s) >= f.width /\ (Len(s) > f.width => spaces = (IF sign = <<" ">> THEN 1 ELSE 0))
                 /\ f.align # "Zero" => Len(digits) <= Max({f.precision, Len(InRadix(abs, radix)) + 1})
                 /\ CASE f.align = "Left" -> s = (IF sign = <<" ">> THEN sign ELSE <<>>) \o body \o Fill(Len(s) - Len(body) - (IF sign = <<" ">> THEN 1 ELSE 0), " ")
                      [] f.align = "Space" -> s = Fill(spaces, " ") \o body
                      [] f.align = "Zero" -> spaces = IF sign = <<" ">> THEN 1 ELSE 0

Finite(n, scale) == [k |-> "num", neg |-> FALSE, n |-> n, scale |-> scale]
FloatShown == Give("float", {[x |-> Finite(n, k), precision |-> p, force |-> b] :
                  n \in {0, 1, 5, 9, 10, 25, 95, 99, 100, 125, 449, 994, 995, 999}, k \in -1 .. 6, p \in -1 .. 3, b \in BOOLEAN})
FloatFormat(variant) == [variant |-> variant, precision |-> in.precision, force |-> in.force, width |-> 0, align |-> "Left", sign |-> "none"]

\* a decimal is read: digits with a point, then an exponent
ReadDecimal(s) ==
    LET e == SelectInSeq(s, LAMBDA c : c = "e")
        m == IF e = 0 THEN s ELSE SubSeq(s, 1, e - 1)
        dot == SelectInSeq(m, LAMBDA c : c = ".")
        exponent == IF e = 0 THEN 0 ELSE ReadFigures(SubSeq(s, e + 2, Len(s)), 10) * (IF s[e + 1] = "-" THEN -1 ELSE 1)
    IN  [n |-> ReadFigures(Without(m, {"."}), 10), places |-> IF dot = 0 THEN 0 ELSE Len(m) - dot, e |-> exponent, sci |-> e # 0, dot |-> dot # 0, whole |-> IF dot = 0 THEN Len(m) ELSE dot - 1]
SameValue(n, k, m, l) == LET S == Max({k, l, 0}) IN n * 10^(S - k) = m * 10^(S - l)

\* A decimal is shown as the nearest there is with the digits asked for: fixed
\* and scientific within half a unit of the last one, the latter with one digit
\* that is not 0 before the point; the short form shows what the scientific one
\* shows, in the notation its exponent asks for, without a 0 at its end that
\* says nothing, and a whole number loses none of its zeros.
DecimalsAreNearest ==
    LET Near(x, d) ==
            LET S == Max({d.places - d.e, x.scale, 0})
                gap == d.n * 10^(S - d.places + d.e) - x.n * 10^(S - x.scale)
            IN  2 * (IF gap < 0 THEN -gap ELSE gap) <= 10^(S - d.places + d.e)
        Shown(x, p, significant, f, e, g, like) ==
            /\ f.places = p /\ ~f.sci /\ Near(x, f) /\ (f.dot <=> (p > 0 \/ in.force))
            /\ e.places = p /\ e.sci /\ Near(x, e) /\ e.whole = 1 /\ (x.n > 0 => e.n >= 10^p)
            /\ SameValue(g.n, g.places - g.e, like.n, like.places - like.e)
            /\ x.n > 0 => (g.sci <=> (like.e < -4 \/ like.e >= significant))
            /\ ~in.force /\ g.dot => g.n % 10 # 0
            /\ in.force => g.dot /\ (x.n > 0 => Len(InRadix(g.n, 10)) = significant)
        With(x, p) ==
            Shown(x, p, Max({1, p}), ReadDecimal(fmt_float(x, FloatFormat("f"))), ReadDecimal(fmt_float(x, FloatFormat("e"))),
                  ReadDecimal(fmt_float(x, FloatFormat("g"))), ReadDecimal(fmt_float(x, [FloatFormat("e") EXCEPT !.precision = Max({1, p}) - 1])))
    IN  tool = "float" => With(in.x, IF in.precision = -1 THEN DefaultPrecision ELSE in.precision)

HexShown == Give("hexfloat", {[x |-> Finite(n, k), precision |-> p, force |-> b] :
                n \in {0, 1, 2, 3, 5, 15, 16, 25, 100, 127, 255, 256, 511, 999}, k \in -1 .. 3, p \in -1 .. 2, b \in BOOLEAN})

\* A hexadecimal float is the nearest there is with the digits asked for, or
\* with as many as there are at most and no 0 at its end, and its first digit is
\* not 0, so that reading it back gives the number or the nearest to it.
HexFloatsAreNearest ==
    LET \* x against n * 2^E, brought to whole numbers
        Nearest(x, n, E, S, K) ==
            LET gap == n * 2^(E + K) * 10^S - x.n * 10^(S - x.scale) * 2^K IN
            2 * (IF gap < 0 THEN -gap ELSE gap) <= 2^(E + K) * 10^S
        Exact(x, m, n, e, E) ==
            /\ x.n > 0 => m[1] # "0" /\ Nearest(x, n, E, Max({0, x.scale}), Max({0, -E}))
            /\ x.n = 0 => n = 0 /\ e = 0
        Digits(s, m, digits, places, least, e) ==
            /\ SubSeq(s, 1, 2) = <<"0", "x">> /\ Len(m) - Len(digits) = (IF places > 0 \/ in.force THEN 1 ELSE 0)
            /\ in.precision # -1 => places = in.precision
            /\ in.precision = -1 /\ places > 0 => Last(digits) # "0"
            /\ Exact(in.x, m, ReadFigures(digits, 16) * 16^(least - places), e, e - 4 * least)
        Parts(s, m, digits, e) == Digits(s, m, digits, Len(digits) - 1, IF in.precision = -1 THEN HexPrecision ELSE in.precision, e)
        Split(s, at, m) == Parts(s, m, Without(m, {"."}), ReadFigures(SubSeq(s, at + 2, Len(s)), 10) * (IF s[at + 1] = "-" THEN -1 ELSE 1))
        Text(s, at) == Split(s, at, SubSeq(s, 3, at - 1))
        Shown(s) == Text(s, SelectInSeq(s, LAMBDA c : c = "p"))
    IN  tool = "hexfloat" => Shown(fmt_float(in.x, FloatFormat("a")))

-----------------------------------------------------------------------------
(***************************************************************************)
(* Bytes escaped and read back, specifications written and read back, and  *)
(* short formats run on a few arguments.                                   *)
(***************************************************************************)

EscapeBytes == {0, 1, 7, 8, 63, 64, 92, 200, 255}
Padding(s, n) == [i \in 1 .. n - Len(s) |-> "0"] \o s
Followers == {<<>>, <<"0">>, <<"7">>, <<"8">>, <<"f">>, <<"g">>, <<"bs", "c", "7">>}
EscapeText == Give("escape", [byte : EscapeBytes, form : {"oct", "zero", "hex", "u"}, zero : {2, 3}, then : Followers])

\* what is shown of the items of an escaped text: bytes and the characters kept
Writ(s) == [i \in DOMAIN s |-> <<s[i].k, s[i].v>>]
Stops(t) == t # <<>> /\ t[1] = "bs"

\* A byte escaped with all its digits is that byte whatever follows: the next
\* digit is never taken into it. Only %b reads a third digit after \0, a format
\* reads two, and nothing is written after \c.
EscapesTakeTheirDigits ==
    tool = "escape" =>
        LET b == in.byte
            octal == IF in.form = "zero" THEN Padding(InRadix(b, 8), in.zero) ELSE Padding(InRadix(b, 8), 3)
            hex == Padding(InRadix(b, 16), 2)
            digits == CASE in.form = "oct" -> octal
                        [] in.form = "zero" -> <<"0">> \o octal
                        [] in.form = "hex" -> <<"x">> \o hex
                        [] in.form = "u" -> <<"u">> \o hex
            fits == CASE in.form = "oct" -> b >= 64 /\ b < 256
                      [] in.form = "zero" -> b < 8^in.zero
                      [] OTHER -> TRUE
            text == <<"bs">> \o digits \o in.then
            kept == IF Stops(in.then) THEN <<>> ELSE [i \in DOMAIN in.then |-> <<"plain", in.then[i]>>]
            kind == IF in.form = "u" THEN "char" ELSE "byte"
        IN  fits => Writ(parse_escape_only(text, in.zero)) =
                (IF in.form = "u" /\ IsSurrogate(b) THEN << <<"backslash", "x">> >> ELSE << <<kind, b>> >>) \o kept

Amounts == {NoAmount} \cup {Amount("fixed", n) : n \in {0, 12}} \cup {Amount("star", n) : n \in {0, 2}}
Written(a) == CASE a.k = "none" -> <<>>
                [] a.k = "fixed" -> InRadix(a.n, 10)
                [] a.k = "star" -> <<"*">> \o (IF a.n = 0 THEN <<>> ELSE Append(InRadix(a.n, 10), "$"))
Types == {"c", "s", "b", "q", "d", "u", "o", "x", "f", "a", "z"}
SpecText == Give("spec", [pos : {0, 12}, flags : SUBSET {"-", "+", "#", "0"}, width : Amounts, dot : BOOLEAN, precision : Amounts,
                          long : BOOLEAN, type : Types, more : {<<>>, <<"d">>}])

\* A specification reads back as it was written, whatever follows it: position,
\* flags, width, precision (a point alone is 0), and the type after any length;
\* and zeros are padded only where nothing else says how the digits are filled.
\* It is refused only when its type does not go with a flag or an amount.
SpecificationsReadBack ==
    LET ReadAs(i, width, precision, len, e) ==
            LET good == CASE i.type \in {"b", "q"} -> i.flags = {} /\ width = NoAmount /\ precision = NoAmount
                          [] i.type = "c" -> i.flags \subseteq {"-", "+"} /\ precision = NoAmount
                          [] i.type = "s" -> i.flags \subseteq {"-", "+"}
                          [] i.type \in {"d", "u"} -> "#" \notin i.flags
                          [] i.type = "z" -> FALSE
                          [] OTHER -> TRUE
            IN  /\ e.ok <=> good
                /\ e.ok => /\ e.type = i.type /\ e.pos = i.pos /\ e.flags = i.flags
                           /\ e.width = width /\ e.precision = precision /\ e.len = len
                           /\ (e.align = "Left") <=> "-" \in i.flags
                           /\ e.align = "Zero" <=> /\ "0" \in i.flags /\ "-" \notin i.flags
                                                   /\ (precision = NoAmount \/ i.type \in {"f", "a"})
        Text(i, width) == (IF i.pos = 0 THEN <<>> ELSE Append(InRadix(i.pos, 10), "$"))
                          \o SetToSeq(i.flags) \o Written(width)
                          \o (IF i.dot THEN <<".">> \o Written(i.precision) ELSE <<>>)
                          \o (IF i.long THEN <<"l", "l">> ELSE <<>>) \o <<i.type>>
        Holds(i, width, text) ==
            i.type # "z" \/ i.more = <<>> =>
                ReadAs(i, width, IF ~i.dot THEN NoAmount ELSE IF i.precision = NoAmount THEN Amount("fixed", 0) ELSE i.precision,
                       Len(text), Spec_parse(text \o i.more))
        Given(i, width) == Holds(i, width, Text(i, width))
    IN  tool = "spec" => Given(in, IF in.width.k = "fixed" /\ in.width.n = 0 THEN Amount("fixed", 3) ELSE in.width)

Pieces == {<<"%", "d">>, <<"%", "*", "d">>, <<"%", "1", "$", "d">>, <<"%", "2", "$", "s">>, <<"%", "a">>, <<"%", "-", "*", ".", "*", "x">>, <<"%", "%">>, <<"y">>}
Turn(p) == CASE p \in {<<"%", "d">>, <<"%", "a">>} -> 1 [] p = <<"%", "*", "d">> -> 2 [] p = <<"%", "-", "*", ".", "*", "x">> -> 3 [] OTHER -> 0
Touch(p) == CASE p = <<"%", "1", "$", "d">> -> 1 [] p = <<"%", "2", "$", "s">> -> 2 [] OTHER -> 0
FormatText == Give("format", [parts : TupleOf(Pieces, 1) \cup TupleOf(Pieces, 2) \cup TupleOf(Pieces, 3),
                              args : TupleOf({-3, 0, 5}, 0) \cup TupleOf({-3, 0, 5}, 2) \cup TupleOf({-3, 7}, 4)])

RECURSIVE Rounds(_, _, _)
\* printf applies the format until the arguments are used up
Rounds(items, a, most) ==
    LET Then(r, b) == <<r>> \o (IF r.st # "ok" \/ b.offset = a.offset \/ is_exhausted(b) THEN <<>> ELSE Rounds(items, b, most - 1))
        Round(r) == Then(r, start_next_batch(r.args))
    IN  IF most = 0 THEN <<>> ELSE Round(printf_writer(items, a))

\* Every round takes its arguments in turn from where the last one stopped, or
\* by number from its own first one, and the next starts behind all it touched:
\* no argument is used in two rounds and none is passed over that a round could
\* have taken in turn.
RoundsShareNoArgument ==
    LET Apart(rounds, turns, step) ==
            \A k \in DOMAIN rounds :
                rounds[k].st = "ok" =>
                    /\ rounds[k].args.offset = (k - 1) * step /\ rounds[k].args.next = (k - 1) * step + turns
                    /\ step > 0 => (k = Len(rounds) <=> k * step >= Len(in.args))
        Of(turns, touch, rounds) == Apart(rounds, turns, Max({turns, touch}))
    IN  tool = "format" =>
            Of(FoldLeft(LAMBDA n, p : n + Turn(p), 0, in.parts), Max({Touch(in.parts[i]) : i \in DOMAIN in.parts}),
               Rounds(parse_spec_only(FlattenSeq(in.parts)), NewArgs(in.args), 5))

\* A field is as wide as asked, and a negative width asks for the left side.
WidthsAreKept ==
    LET Kept(r, w, sign, n) ==
            LET abs == IF w < 0 THEN -w ELSE w
                digits == sign \o InRadix(IF n < 0 THEN -n ELSE n, 10)
            IN  IF abs - Len(sign) > MAX_FORMAT_WIDTH THEN r.st = "toowide"
                ELSE r.st = "ok" /\ r.out = IF w < 0 THEN PadRight(digits, abs, " ") ELSE PadLeft(digits, abs, " ")
    IN  tool = "format" /\ Len(in.parts) = 1 /\ in.parts[1] = <<"%", "*", "d">> /\ Len(in.args) > 1 =>
            Kept(printf_writer(parse_spec_only(in.parts[1]), NewArgs(in.args)),
                 in.args[1], get_sign_indicator("none", in.args[2] < 0), in.args[2])

SinglePieces == {<<"%", "d">>, <<"%", "1", "$", "d">>, <<"%", "*", "d">>, <<"%", "s">>, <<"%", "y">>, <<"%", "%">>, <<"y">>, <<"1">>}
SingleText == Give("single", [parts : TupleOf(SinglePieces, 1) \cup TupleOf(SinglePieces, 2) \cup TupleOf(SinglePieces, 3), percent : BOOLEAN])

\* A format for one number is accepted when it has one integer directive that
\* needs no other argument, and no other anywhere, not even a % at the end; what
\* it is refused for is the first thing wrong from the left.
OneDirectiveIsTaken ==
    LET kinds == {<<"%", "d">>, <<"%", "1", "$", "d">>}
        Taken(directives, got) ==
            /\ got = "ok" <=> Len(directives) = 1 /\ directives[1] \in kinds /\ ~in.percent
            /\ directives = <<>> => got = IF in.percent THEN "endswithpercent" ELSE "needatleastone"
            /\ directives # <<>> /\ directives[1] = <<"%", "y">> => got = "specerror"
            /\ Len(directives) > 1 /\ directives[1] \in kinds => got = IF directives[2] = <<"%", "y">> THEN "specerror" ELSE "toomany"
    IN  tool = "single" => Taken(SelectSeq(in.parts, LAMBDA p : p \notin {<<"%", "%">>, <<"y">>, <<"1">>}),
                                 Format_parse(FlattenSeq(in.parts) \o (IF in.percent THEN <<"%">> ELSE <<>>)))

\* Numbers are read as far as they are numbers, computed with as such, and
\* shown as the nearest one their format has room for.
NumbersAreExact ==
    /\ NumeralsReadGreedily /\ IntegersFitOrSaturate /\ DurationsAreKept
    /\ SizesAreExact /\ SignedNumbersAreDecimal /\ DecimalsBehaveAsNumbers
    /\ IncrementsAddUp /\ RingKeepsTheLast /\ HumanSizesRoundUp
    /\ IntegersAreShownWhole /\ DecimalsAreNearest /\ HexFloatsAreNearest
    /\ EscapesTakeTheirDigits /\ SpecificationsReadBack
    /\ RoundsShareNoArgument /\ WidthsAreKept /\ OneDirectiveIsTaken
=============================================================================
