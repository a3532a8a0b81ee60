------------------------------ MODULE Numerals ------------------------------
(***************************************************************************)
(* How the core utilities read numbers: num_parser for printf, seq and     *)
(* sleep, parse_size for head, tail, split and dd, and the arithmetic on   *)
(* what they read. A text is a sequence of characters; "inf" and "inity"   *)
(* stand for the letters of these words, "." "e" "x" "p" for themselves.   *)
(***************************************************************************)
EXTENDS Integers, Sequences, FiniteSets, SequencesExt, FiniteSetsExt

CONSTANTS
    Bits,        \* 64: the width of u64 and i64; u128 is twice as wide
    MaxScale,    \* the scale of a BigDecimal is an i64
    Chunk,       \* 15: how many digits are gathered in a u64
    PhysMem,     \* the physical memory; 0: the platform does not tell (WASI)
    NanoDigits,  \* 9
    BigScale     \* 20: 10 to that power is more seconds than a u64 holds

U64Max == 2^Bits - 1
U128Max == 2^(2 * Bits) - 1

ASSUME NumeralsAssumption ==
    /\ Bits \in Nat /\ MaxScale \in Nat /\ PhysMem \in Nat /\ NanoDigits \in Nat
    /\ Chunk \in Nat \ {0}
    /\ BigScale \in Nat /\ 10^BigScale > U64Max

DigitOf == [c \in {"0", "1", "7", "8", "9", "a", "b", "B", "e"} |->
              CASE c = "0" -> 0 [] c = "1" -> 1 [] c = "7" -> 7 [] c = "8" -> 8 [] c = "9" -> 9
                [] c = "a" -> 10 [] c \in {"b", "B"} -> 11 [] c = "e" -> 14]
digit(base, c) == c \in DOMAIN DigitOf /\ DigitOf[c] < base

\* the leading characters of s that satisfy Test, and what follows them
TakeWhile(s, Test(_)) ==
    SubSeq(s, 1, Min({i \in 1 .. Len(s) + 1 : i = Len(s) + 1 \/ ~Test(s[i])}) - 1)
After(s, n) == SubSeq(s, n + 1, Len(s))
strip_prefix(s, p) == IsPrefix(p, s)

-----------------------------------------------------------------------------
\* values: sign, n * radix^e, or one of the special ones

Number(neg, n, radix, e) == [k |-> "num", neg |-> neg, n |-> n, radix |-> radix, e |-> e]
Zero == Number(FALSE, 0, 10, 0)
Special(k) == [Zero EXCEPT !.k = k]

neg(v) ==
    CASE v.k = "num" /\ v.n = 0 -> Special("mzero")
      [] v.k = "num" /\ v.n # 0 -> [v EXCEPT !.neg = ~@]
      [] v.k = "mzero" -> Zero
      [] v.k = "inf" -> Special("minf") [] v.k = "minf" -> Special("inf")
      [] v.k = "nan" -> Special("mnan") [] v.k = "mnan" -> Special("nan")

Parsed(st, v, rest) == [st |-> st, v |-> v, rest |-> rest]
NotNumeric == Parsed("notnumeric", Zero, <<>>)

\* what has been gathered is added to the big number; -1: no digit yet
Accumulated(digits, mul, tmp, base) == (IF digits = -1 THEN 0 ELSE digits) * mul + tmp

parse_digits_count(base, s, digits) ==
    LET ds == TakeWhile(s, LAMBDA c : digit(base, c))
        Step(a, c) ==
            LET tmp == a.tmp * base + DigitOf[c]
                mul == a.mul * base
            IN  IF a.ct + 1 >= Chunk
                THEN [digits |-> Accumulated(a.digits, mul, tmp, base), count |-> a.count + a.ct + 1, tmp |-> 0, ct |-> 0, mul |-> 1]
                ELSE [a EXCEPT !.tmp = tmp, !.ct = @ + 1, !.mul = mul]
        end == FoldLeft(Step, [digits |-> digits, count |-> 0, tmp |-> 0, ct |-> 0, mul |-> 1], ds)
    IN  [digits |-> IF end.mul > 1 THEN Accumulated(end.digits, end.mul, end.tmp, base) ELSE end.digits,
         scale |-> end.count + end.ct, rest |-> After(s, Len(ds))]

parse_digits(base, s, fractional) ==
    LET Fraction(whole) ==
            IF fractional /\ strip_prefix(whole.rest, <<".">>) THEN parse_digits_count(base, Tail(whole.rest), whole.digits)
            ELSE [whole EXCEPT !.scale = 0]
    IN  Fraction(parse_digits_count(base, s, -1))

parse_exponent(base, s) ==
    LET mark == IF base = 10 THEN "e" ELSE "p"
        signed == strip_prefix(After(s, 1), <<"-">>) \/ strip_prefix(After(s, 1), <<"+">>)
        Read(ds) == IF strip_prefix(s, <<mark>>) /\ ds.digits # -1
                    THEN [e |-> IF s[2] = "-" THEN -ds.digits ELSE ds.digits, rest |-> ds.rest]
                    ELSE [e |-> 0, rest |-> s]
    IN  Read(parse_digits_count(10, After(s, IF signed THEN 2 ELSE 1), -1))

\* suffixes: a function from characters to multipliers
parse_suffix_multiplier(s, suffixes) ==
    IF s # <<>> /\ Head(s) \in DOMAIN suffixes THEN [mul |-> suffixes[Head(s)], rest |-> Tail(s)] ELSE [mul |-> 1, rest |-> s]

MATCH_TABLE == << <<"inf", "inity">>, <<"inf">>, <<"nan">> >>

parse_special_value(s, negative, suffixes) ==
    LET i == SelectInSeq(MATCH_TABLE, LAMBDA w : IsPrefix(w, s))
        v == Special(IF MATCH_TABLE[i] = <<"nan">> THEN "nan" ELSE "inf")
        rest == parse_suffix_multiplier(After(s, Len(MATCH_TABLE[i])), suffixes).rest
    IN  IF i = 0 THEN NotNumeric
        ELSE Parsed(IF rest = <<>> THEN "ok" ELSE "partial", IF negative THEN neg(v) ELSE v, rest)

make_error(overflow, negative) ==
    LET v == IF overflow THEN Special("inf") ELSE Zero IN
    Parsed(IF overflow THEN "overflow" ELSE "underflow", IF negative THEN neg(v) ELSE v, <<>>)

\* a large scale is a small number
TooLarge(newScale) == newScale < 0

construct_extended_big_decimal(digits, negative, base, scale, exponent) ==
    IF digits = 0 THEN Parsed("ok", IF negative THEN Special("mzero") ELSE Zero, <<>>)
    ELSE IF base = 16
    THEN IF exponent \in -MaxScale .. MaxScale THEN Parsed("ok", Number(negative, digits, 2, exponent - 4 * scale), <<>>)
         ELSE make_error(exponent > 0, negative)
    ELSE LET newScale == scale - exponent IN
         IF newScale \in -MaxScale .. MaxScale THEN Parsed("ok", Number(negative, digits, 10, -newScale), <<>>)
         ELSE make_error(TooLarge(newScale), negative)

\* an error keeps what it can of the value
extract(r) == IF r.st = "notnumeric" THEN Zero ELSE r.v

\* The parts of a number are read one after the other: the sign, which leaves
\* s, the base, the digits d, the exponent x, the suffix m. The target t is
\* [kind |-> "decimal", "integral" or "duration", suffixes].
parse_base(s, t) ==
    LET integral == t.kind = "integral" IN
    CASE strip_prefix(s, <<"0", "x">>) -> 16
      [] integral /\ strip_prefix(s, <<"0", "b">>) -> 2
      [] integral /\ strip_prefix(s, <<"0">>) /\ ~strip_prefix(s, <<"0", "b">>) /\ ~strip_prefix(s, <<"0", "x">>) -> 8
      [] OTHER -> 10
parse_frac_exp(base, t) == base \in {10, 16} /\ t.kind # "integral"

NoDigits(s, negative, t) ==
    IF strip_prefix(s, <<"0">>) THEN Parsed("partial", IF negative THEN Special("mzero") ELSE Zero, Tail(s))
    ELSE IF t.kind = "integral" THEN NotNumeric ELSE parse_special_value(s, negative, t.suffixes)
\* extra characters make it a partial match
WithRest(r, rest) == IF rest = <<>> THEN r ELSE Parsed("partial", extract(r), rest)
WithSuffix(negative, base, d, x, m) ==
    WithRest(construct_extended_big_decimal(d.digits * m.mul, negative, base, d.scale, x.e), m.rest)
WithExponent(negative, base, t, d, x) == WithSuffix(negative, base, d, x, parse_suffix_multiplier(x.rest, t.suffixes))
WithDigits(s, negative, base, t, d) ==
    IF d.digits = -1 THEN NoDigits(s, negative, t)
    ELSE WithExponent(negative, base, t, d, IF parse_frac_exp(base, t) THEN parse_exponent(base, d.rest) ELSE [e |-> 0, rest |-> d.rest])
WithBase(s, negative, base, t) ==
    WithDigits(s, negative, base, t, parse_digits(base, IF base \in {2, 16} THEN After(s, 2) ELSE s, parse_frac_exp(base, t)))
UnsignedInput(s, negative, t) == WithBase(s, negative, parse_base(s, t), t)
TrimmedInput(s, t) == UnsignedInput(IF s # <<>> /\ s[1] \in {"-", "+"} THEN Tail(s) ELSE s, strip_prefix(s, <<"-">>), t)
parse(input, target, suffixes) ==
    TrimmedInput(After(input, Len(TakeWhile(input, LAMBDA c : c = " "))), [kind |-> target, suffixes |-> suffixes])

NoSuffixes == [c \in {} |-> 1]

FitsI64(n, negative) == n < 2^(Bits - 1) \/ (negative /\ n = 2^(Bits - 1))

into_i64(v) ==
    CASE v.k = "num" /\ FitsI64(v.n, v.neg) -> Parsed("ok", IF v.neg THEN -v.n ELSE v.n, <<>>)
      [] v.k = "num" /\ ~FitsI64(v.n, v.neg) -> Parsed("overflow", IF v.neg THEN -(2^(Bits - 1)) ELSE 2^(Bits - 1) - 1, <<>>)
      [] v.k = "mzero" -> Parsed("ok", 0, <<>>)

\* a negative number wraps around: !i + 1
into_u64(v) ==
    CASE v.k = "num" /\ v.n <= U64Max -> Parsed("ok", IF v.neg THEN (U64Max - v.n) + 1 ELSE v.n, <<>>)
      [] v.k = "num" /\ v.n > U64Max -> Parsed("overflow", U64Max, <<>>)
      [] v.k = "mzero" -> Parsed("ok", 0, <<>>)

\* the first error stays, with its value converted
Mapped(r, Into(_)) ==
    CASE r.st = "ok" -> Into(r.v)
      [] r.st = "notnumeric" -> Parsed("notnumeric", 0, <<>>)
      [] OTHER -> [r EXCEPT !.v = Into(r.v).v]

extended_parse_i64(input) == Mapped(parse(input, "integral", NoSuffixes), into_i64)
extended_parse_u64(input) == Mapped(parse(input, "integral", NoSuffixes), into_u64)

-----------------------------------------------------------------------------
\* parse_time: durations as nanoseconds

DurationMax == (U64Max + 1) * 10^NanoDigits - 1
TimeUnits == [c \in {"s", "m"} |-> IF c = "m" THEN 60 ELSE 1]

\* n * radix^e in nanoseconds, what is smaller dropped
Nanos(v) ==
    LET up == v.n * 10^NanoDigits IN
    IF v.e >= 0 THEN up * v.radix^v.e ELSE up \div v.radix^(-v.e)

AtLeastOne(v) == IF Nanos(v) = 0 /\ v.n # 0 THEN 1 ELSE Nanos(v)

duration_from_str(s, allowSuffixes) ==
    LET Error == [st |-> "error", nanos |-> 0]
        Ok(n) == [st |-> "ok", nanos |-> n]
        Scaled(v) ==
            CASE v.k = "num" /\ ~v.neg /\ v.radix = 10 /\ v.e >= BigScale -> Ok(DurationMax)
              [] v.k = "num" /\ ~v.neg /\ ~(v.radix = 10 /\ v.e >= BigScale) -> Ok(Min({AtLeastOne(v), DurationMax}))
              [] v.k = "mzero" -> Ok(0)
              [] v.k = "inf" -> Ok(DurationMax)
              [] OTHER -> Error
        Judged(r) ==
            CASE s = <<>> \/ r.st \in {"notnumeric", "partial"} -> Error
              [] s # <<>> /\ r.st = "underflow" -> Ok(1)
              [] OTHER -> Scaled(r.v)
    IN  Judged(parse(s, "duration", IF allowSuffixes THEN TimeUnits ELSE NoSuffixes))

-----------------------------------------------------------------------------
\* parse_size. o: noEmpty (no_empty_numeric), capitalB, bByte, allow (a set of
\* units, or {"any"}), unit (default_unit, <<>> for none)

\* units as sequences of characters; the larger ones follow the same pattern
Factor(unit, o) ==
    LET letter == IF unit = <<>> THEN "" ELSE unit[1]
        power == CASE letter \in {"K", "k"} -> 1 [] letter = "M" -> 2 [] OTHER -> 0
    IN  CASE unit = <<>> -> 1
          [] unit = <<"B">> /\ o.capitalB -> 1
          [] unit = <<"b">> -> 512
          [] power > 0 /\ (Len(unit) = 1 \/ After(unit, 1) = <<"i", "B">>) -> 1024^power
          [] power > 0 /\ After(unit, 1) = <<"B">> -> 1000^power
          [] OTHER -> 0

determine_number_system(size) ==
    LET ds == TakeWhile(size, LAMBDA c : digit(10, c))
    IN  CASE Len(size) <= 1 -> 10
          [] Len(size) > 1 /\ strip_prefix(size, <<"0", "x">>) -> 16
          [] Len(size) > 2 /\ strip_prefix(size, <<"0", "b">>) -> 2
          [] OTHER -> IF size[1] = "0" /\ Len(ds) > 1 /\ Range(size) # {"0"} THEN 8 ELSE 10

\* from_str_radix: every character must be a digit, and there must be one
parse_number(ds, radix) ==
    LET n == FoldLeft(LAMBDA x, c : x * radix + DigitOf[c], 0, ds)
    IN  CASE ds = <<>> \/ \E i \in DOMAIN ds : ~digit(radix, ds[i]) -> [st |-> "failure", n |-> 0]
          [] ds # <<>> /\ (\A i \in DOMAIN ds : digit(radix, ds[i])) /\ n > U128Max -> [st |-> "toobig", n |-> 0]
          [] OTHER -> [st |-> "ok", n |-> n]

ZerosTrimmed(size) == After(size, Len(TakeWhile(size, LAMBDA c : c = "0")))

SizeFailure(st) == [st |-> st, n |-> 0]
BadUnit(numeric) == SizeFailure(IF numeric = 0 THEN "failure" ELSE "suffix")
Product(number, factor) ==
    IF number.st # "ok" THEN number
    ELSE IF number.n > U128Max \div factor THEN SizeFailure("toobig") ELSE [st |-> "ok", n |-> number.n * factor]
Percent(pc) ==
    IF pc.st # "ok" \/ PhysMem = 0 THEN SizeFailure(IF pc.st # "ok" THEN pc.st ELSE "mem") ELSE [st |-> "ok", n |-> (pc.n \div 100) * PhysMem]
SizeNumber(system, ds, o) ==
    IF system = 10 /\ ds = <<>> /\ ~o.noEmpty THEN [st |-> "ok", n |-> 1]
    ELSE parse_number(IF system = 8 THEN ZerosTrimmed(ds) ELSE ds, system)

\* ds: the digits; numeric: numeric_string.len()
WithUnit(size, o, system, ds, numeric, unit) ==
    CASE o.allow # {<<"any">>} /\ unit # <<>> /\ unit \notin o.allow -> BadUnit(numeric)
      [] OTHER -> IF unit = <<"%">> THEN Percent(parse_number(SubSeq(size, 1, numeric), 10))
                  ELSE IF Factor(unit, o) = 0 THEN BadUnit(numeric) ELSE Product(SizeNumber(system, ds, o), Factor(unit, o))
GivenUnit(size, o, system, ds, numeric, given) ==
    IF ~(o.bByte /\ given # <<>> /\ Last(given) = "b") THEN WithUnit(size, o, system, ds, numeric, given)
    ELSE IF numeric = 0 THEN SizeFailure("failure") ELSE WithUnit(size, o, system, ds, numeric, Front(given))
WithNumeric(size, o, system, ds, numeric) ==
    GivenUnit(size, o, system, ds, numeric, IF numeric = Len(size) THEN o.unit ELSE After(size, numeric))
InSystem(size, o, system, prefix, ds) == WithNumeric(size, o, system, ds, prefix + Len(ds))
SystemDigits(size, o, system, prefix) ==
    InSystem(size, o, system, prefix, TakeWhile(After(size, prefix), LAMBDA c : digit(IF system = 8 THEN 10 ELSE system, c)))
NumberSystem(size, o, system) == SystemDigits(size, o, system, IF system \in {2, 16} THEN 2 ELSE 0)
parse_size(size, o) == IF size = <<>> THEN SizeFailure("failure") ELSE NumberSystem(size, o, determine_number_system(size))

parse_u64(size, o) ==
    LET Narrow(r) == IF r.st = "ok" /\ r.n > U64Max THEN [st |-> "toobig", n |-> 0] ELSE r IN Narrow(parse_size(size, o))

parse_u64_max(size, o) ==
    LET Saturated(r) == IF r.st = "toobig" THEN [st |-> "ok", n |-> U64Max] ELSE r IN Saturated(parse_u64(size, o))

DefaultParser == [noEmpty |-> FALSE, capitalB |-> FALSE, bByte |-> FALSE, allow |-> {<<"any">>}, unit |-> <<>>]

\* leading zeros do not make the saturating variant read an octal number
parse_signed_num_max(s) ==
    LET sign == IF s # <<>> /\ s[1] \in {"+", "-"} THEN s[1] ELSE ""
        Read(size, r) == IF size = <<>> THEN [st |-> "failure", n |-> 0, sign |-> ""] ELSE [st |-> r.st, n |-> r.n, sign |-> sign]
        Trimmed(size, digits) == Read(size, IF digits = <<>> THEN [st |-> "ok", n |-> 0] ELSE parse_u64_max(digits, DefaultParser))
        Unsigned(size) == Trimmed(size, ZerosTrimmed(size))
    IN  Unsigned(IF sign = "" THEN s ELSE Tail(s))

parse_signed_num(s) ==
    LET sign == IF s # <<>> /\ s[1] \in {"+", "-"} THEN s[1] ELSE ""
        Read(r) == IF s \in {<<>>, <<sign>>} \/ r.st # "ok" THEN [st |-> "failure", n |-> 0, sign |-> ""] ELSE [st |-> "ok", n |-> r.n, sign |-> sign]
    IN  Read(parse_u64(IF sign = "" THEN s ELSE Tail(s), DefaultParser))

-----------------------------------------------------------------------------
(***************************************************************************)
(* The arithmetic the core utilities share: decimals with infinities,      *)
(* signed zero and NaN, in-place decimal increments, the buffer that keeps *)
(* the last items, and sizes for human readers.                            *)
(***************************************************************************)

\* extendedbigdecimal.rs. k is "num", "mzero", "inf", "minf", "nan" or "mnan".
Dec(k, n) == [k |-> k, n |-> n]
BigDecimal(n) == Dec("num", n)

is_nan(x) == x.k \in {"nan", "mnan"}

OppositeInfinities(x, y) == Dec("nan", 0)

add(x, y) ==
    CASE x.k = "num" /\ y.k = "num" -> BigDecimal(x.n + y.n)
      [] {x.k, y.k} = {"inf", "minf"} -> OppositeInfinities(x, y)
      [] x.k = "nan" \/ (y.k = "nan" /\ x.k # "nan") -> Dec("nan", 0)
      [] "nan" \notin {x.k, y.k} /\ "mnan" \in {x.k, y.k} -> Dec("mnan", 0)
      [] x.k = "mzero" /\ ~is_nan(y) -> y
      [] OTHER -> IF x.k \in {"inf", "minf"} \/ y.k = "mzero" THEN x ELSE y

negate(x) ==
    CASE x.k = "num" -> IF x.n = 0 THEN Dec("mzero", 0) ELSE BigDecimal(-x.n)
      [] x.k = "mzero" -> BigDecimal(0)
      [] OTHER -> Dec([inf |-> "minf", minf |-> "inf", nan |-> "mnan", mnan |-> "nan"][x.k], 0)

eq(x, y) == ~is_nan(x) /\ ~is_nan(y) /\ x.k = y.k /\ (x.k = "num" => x.n = y.n)

\* "less", "equal", "greater", or "none"
partial_cmp(x, y) ==
    LET Rank(v) == CASE v.k = "minf" -> -1 [] v.k = "inf" -> 1 [] OTHER -> 0
        Of(m, n) == IF m < n THEN "less" ELSE IF m > n THEN "greater" ELSE "equal"
        Val(v) == IF v.k = "mzero" THEN 0 ELSE v.n
    IN  IF is_nan(x) \/ is_nan(y) THEN "none"
        ELSE IF Rank(x) # Rank(y) \/ Rank(x) # 0 THEN Of(Rank(x), Rank(y)) ELSE Of(Val(x), Val(y))

-----------------------------------------------------------------------------
\* fast_inc.rs. A buffer is a sequence of digits, start the number of bytes
\* before the value; what those bytes hold is arbitrary.

RECURSIVE fast_inc_one(_, _, _)
fast_inc_one(val, start, end) ==
    IF end <= start THEN [val |-> [val EXCEPT ![start] = 1], start |-> start - 1]
    ELSE IF val[end] = 9 THEN fast_inc_one([val EXCEPT ![end] = 0], start, end - 1)
    ELSE [val |-> [val EXCEPT ![end] = @ + 1], start |-> start]

DigitAt(val, start, pos) == IF pos > start THEN val[pos] ELSE 0

fast_inc(val, start, end, inc) ==
    LET Step(s, d) == LET sum == d + s.carry + DigitAt(s.val, start, s.pos)
                      IN  [val |-> [s.val EXCEPT ![s.pos] = sum % 10], carry |-> IF sum > 9 THEN 1 ELSE 0, pos |-> s.pos - 1]
        done == FoldLeft(Step, [val |-> val, carry |-> 0, pos |-> end], Reverse(inc))
    IN  IF done.carry = 0 THEN [val |-> done.val, start |-> IF done.pos < start THEN done.pos ELSE start]
        ELSE fast_inc_one(done.val, start, done.pos)

-----------------------------------------------------------------------------
\* ringbuffer.rs. The size asked for is the capacity got.

Full(data, size) == Len(data) = size

push_back(b, value) ==
    CASE b.size = 0 -> [b EXCEPT !.evicted = Append(@, value)]
      [] b.size # 0 /\ Full(b.data, b.size) -> [b EXCEPT !.evicted = Append(@, Head(b.data)), !.data = Append(Tail(@), value)]
      [] OTHER -> [b EXCEPT !.data = Append(@, value)]

from_iter(values, size) == FoldLeft(push_back, [size |-> size, data |-> <<>>, evicted |-> <<>>], values)

-----------------------------------------------------------------------------
\* format/human.rs. A size in tenths of a power of the base, 0 for none.

CeilDiv(a, b) == (a + b - 1) \div b

\* whether no decimal is shown
NoDecimal(size, unit) == CeilDiv(10 * size, unit) >= 100

format_prefixed(size, base, power) ==
    LET unit == base^power IN
    CASE power = 0 -> [tenths |-> 10 * size, decimal |-> FALSE, power |-> 0]
      [] power # 0 /\ NoDecimal(size, unit) -> [tenths |-> 10 * CeilDiv(size, unit), decimal |-> FALSE, power |-> power]
      [] OTHER -> [tenths |-> CeilDiv(10 * size, unit), decimal |-> TRUE, power |-> power]

human_readable(size, base) ==
    LET reached == {p \in 0 .. 3 : base^p <= size} IN
    format_prefixed(size, base, IF reached = {} THEN 0 ELSE CHOOSE p \in reached : \A q \in reached : q <= p)
=============================================================================
