------------------------------ MODULE UserArgs ------------------------------
(***************************************************************************)
(* What the core utilities read from their users besides numbers: file     *)
(* modes, lists of ranges, versions, shortened option values, negated      *)
(* globs, and how backups and updates are asked for. Texts are sequences   *)
(* of characters.                                                          *)
(***************************************************************************)
EXTENDS Integers, Sequences, FiniteSets, SequencesExt, FiniteSetsExt

CONSTANT UsizeMax     \* usize::MAX

ASSUME UserArgsAssumption == UsizeMax \in Nat /\ UsizeMax > 2

\* the length of the longest prefix of s whose characters are in C
SpanIn(s, C) == Min({i \in 1 .. Len(s) + 1 : i = Len(s) + 1 \/ s[i] \notin C}) - 1
Drop(s, n) == SubSeq(s, n + 1, Len(s))

-----------------------------------------------------------------------------
\* mode.rs. A mode is a set of bits: a class and a permission, with setuid,
\* setgid and the sticky bit as permissions of u, g and o.

Classes == {"u", "g", "o"}
Rwx == {"r", "w", "x"}
SetIdBits == {<<"u", "s">>, <<"g", "s">>}
AllBits == (Classes \X Rwx) \cup SetIdBits \cup {<<"o", "t">>}
OfClass(c) == {b \in AllBits : b[1] = c}

parse_levels(m) ==
    LET pos == SpanIn(m, Classes \cup {"a"})
        named == {m[i] : i \in 1 .. pos}
    IN  [pos |-> pos, mask |-> IF pos = 0 \/ "a" \in named THEN AllBits ELSE UNION {OfClass(c) : c \in named}]

\* the permissions of one class, given to every class
CopyOf(c, fperm) == {b \in Classes \X Rwx : <<c, b[2]>> \in fperm}

LetterBits(x, fperm, dir) ==
    CASE x \in Rwx -> Classes \X {x}
      [] x = "X" -> IF dir \/ \E c \in Classes : <<c, "x">> \in fperm THEN Classes \X {"x"} ELSE {}
      [] x = "s" -> SetIdBits
      [] x = "t" -> {<<"o", "t">>}

parse_change(m, fperm, dir) ==
    LET k == SpanIn(m, {"r", "w", "x", "X", "s", "t"})
        copies == k < Len(m) /\ m[k + 1] \in Classes
    IN  CASE copies -> [bits |-> CopyOf(m[k + 1], fperm), pos |-> IF k = 0 THEN 1 ELSE k]
          [] ~copies -> [bits |-> UNION {LetterBits(m[i], fperm, dir) : i \in 1 .. k}, pos |-> k]

\* what "=" keeps of the mode it replaces
KeptSetId(fperm, dir) == IF dir THEN fperm \cap SetIdBits ELSE {}

ModeOp(op, fperm, bits, mask, dir) ==
    CASE op = "+" -> fperm \cup (bits \cap mask)
      [] op = "-" -> fperm \ (bits \cap mask)
      [] op = "=" -> (fperm \ mask) \cup ((bits \cup KeptSetId(fperm, dir)) \cap mask)

ModeError == [st |-> "error", mode |-> {}]

RECURSIVE SymbolicOps(_, _, _, _, _, _)
SymbolicOps(m, fperm, mask, respectUmask, umask, dir) ==
    IF m = <<>> THEN [st |-> "ok", mode |-> fperm]
    ELSE IF m[1] \notin {"+", "-", "="} THEN ModeError
    ELSE LET c == parse_change(Tail(m), fperm, dir)
             bits == IF respectUmask THEN c.bits \ umask ELSE c.bits
         IN  SymbolicOps(Drop(m, 1 + c.pos), ModeOp(m[1], fperm, bits, mask, dir), mask, respectUmask, umask, dir)

parse_symbolic(fperm, m, umask, dir) ==
    LET who == parse_levels(m) IN
    IF who.pos = Len(m) THEN ModeError ELSE SymbolicOps(Drop(m, who.pos), fperm, who.mask, who.pos = 0, umask, dir)

OctalDigits == {"0", "1", "4", "7"}
TripleOf == [d \in OctalDigits |-> CASE d = "0" -> {} [] d = "1" -> {"x"} [] d = "4" -> {"r"} [] d = "7" -> Rwx]
SpecialOf == [d \in OctalDigits |-> CASE d = "0" -> {} [] d = "1" -> {<<"o", "t">>} [] d = "4" -> {<<"u", "s">>}
                                      [] d = "7" -> SetIdBits \cup {<<"o", "t">>}]
\* the bits of a number of octal digits, from the last one
OctalBits(ds) ==
    LET At(i) == IF i <= Len(ds) THEN ds[Len(ds) + 1 - i] ELSE "0"
    IN  ({"o"} \X TripleOf[At(1)]) \cup ({"g"} \X TripleOf[At(2)]) \cup ({"u"} \X TripleOf[At(3)]) \cup SpecialOf[At(4)]

parse_numeric(fperm, m, dir) ==
    LET op == IF m # <<>> /\ m[1] \in {"+", "-", "="} THEN m[1] ELSE ""
        ds == IF op = "" THEN m ELSE Tail(m)
        change == OctalBits(ds)
        tooLarge == \E i \in 1 .. Len(ds) - 4 : ds[i] # "0"
    IN  IF tooLarge \/ \E i \in DOMAIN ds : ds[i] \notin OctalDigits THEN ModeError
        ELSE [st |-> "ok", mode |-> CASE op = "+" -> fperm \cup change
                                      [] op = "-" -> fperm \ change
                                      [] op = "=" -> change
                                      [] op = "" -> IF dir /\ Len(ds) < 5 THEN change \cup (fperm \cap SetIdBits) ELSE change]

\* parts are what stands between the commas
RECURSIVE parse_chmod(_, _, _, _)
parse_chmod(fperm, parts, dir, umask) ==
    IF parts = <<>> THEN [st |-> "ok", mode |-> fperm]
    ELSE LET m == Head(parts)
             r == CASE m = <<>> -> [st |-> "ok", mode |-> fperm]
                    [] m # <<>> /\ Range(m) \cap (OctalDigits \cup {"8"}) # {} -> parse_numeric(fperm, m, dir)
                    [] OTHER -> parse_symbolic(fperm, m, umask, dir)
         IN  IF r.st = "error" THEN r ELSE parse_chmod(r.mode, Tail(parts), dir, umask)

-----------------------------------------------------------------------------
\* ranges.rs. An item is its two ends (-1: none) and whether there is a dash.

RangeOf(low, high) == [low |-> low, high |-> high]
NoRange == RangeOf(0, 0)
GoodEnd(n) == n # 0 /\ n # UsizeMax

range_from_str(it) ==
    CASE ~it.dash -> IF GoodEnd(it.low) THEN RangeOf(it.low, it.low) ELSE NoRange
      [] it.dash /\ it.low = -1 /\ it.high = -1 -> NoRange
      [] it.dash /\ it.low # -1 /\ it.high = -1 -> IF GoodEnd(it.low) THEN RangeOf(it.low, UsizeMax - 1) ELSE NoRange
      [] it.dash /\ it.low = -1 /\ it.high # -1 -> IF GoodEnd(it.high) THEN RangeOf(1, it.high) ELSE NoRange
      [] OTHER -> IF GoodEnd(it.low) /\ GoodEnd(it.high) /\ it.low <= it.high THEN RangeOf(it.low, it.high) ELSE NoRange

Joined(a, b) == [a EXCEPT !.high = Max({@, b.high})]

merge(ranges) ==
    LET Before(a, b) == a.low < b.low \/ (a.low = b.low /\ a.high <= b.high)
        Step(out, r) == IF out # <<>> /\ r.low <= Last(out).high THEN Append(Front(out), Joined(Last(out), r)) ELSE Append(out, r)
    IN  FoldLeft(Step, <<>>, SortSeq(ranges, Before))

\* <<>> for an error: an empty list has one empty item
from_list(items) ==
    LET rs == [i \in DOMAIN items |-> range_from_str(items[i])] IN
    IF NoRange \in Range(rs) THEN <<>> ELSE merge(rs)

complement(ranges) ==
    LET Step(a, r) == [prev |-> r.high,
                       out |-> IF r.low > a.prev + 1 THEN Append(a.out, RangeOf(a.prev + 1, r.low - 1)) ELSE a.out]
        end == FoldLeft(Step, [prev |-> 0, out |-> <<>>], ranges)
    IN  IF end.prev < UsizeMax - 1 THEN Append(end.out, RangeOf(end.prev + 1, UsizeMax - 1)) ELSE end.out

contain(ranges, n) == \E i \in DOMAIN ranges : n >= ranges[i].low /\ n <= ranges[i].high

-----------------------------------------------------------------------------
\* version_cmp.rs

Bytes == <<"-", ".", "0", "1", "a", "b", "~">>
ByteOf == [c \in Range(Bytes) |-> CHOOSE i \in DOMAIN Bytes : Bytes[i] = c]
Digits == {"0", "1"}
Letters2 == {"a", "b"}
Compare(m, n) == IF m < n THEN -1 ELSE IF m > n THEN 1 ELSE 0

\* two characters that differ; "" is the end of the text
NonDigitOrder(x, y) ==
    CASE y = "~" -> 1
      [] y # "~" /\ x = "~" -> -1
      [] y # "~" /\ x = "" -> -1
      [] x # "~" /\ y = "" -> 1
      [] OTHER -> IF x \in Letters2 /\ y \notin Letters2 THEN -1
                  ELSE IF x \notin Letters2 /\ y \in Letters2 THEN 1 ELSE Compare(ByteOf[x], ByteOf[y])

version_non_digit_cmp(a, b) ==
    LET At(s, i) == IF i <= Len(s) THEN s[i] ELSE ""
        differ == {i \in 1 .. Max({Len(a), Len(b)}) : At(a, i) # At(b, i)}
    IN  IF differ = {} THEN 0 ELSE NonDigitOrder(At(a, Min(differ)), At(b, Min(differ)))

\* start: where the ending may begin (0: nowhere); dot: the last one was a dot
remove_file_ending(a) ==
    LET Step(s, i) ==
            CASE a[i] = "." -> [start |-> IF s.start = 0 \/ s.dot THEN i ELSE s.start, dot |-> TRUE]
              [] a[i] # "." /\ s.dot -> [start |-> IF a[i] \in Letters2 \cup {"~"} THEN s.start ELSE 0, dot |-> FALSE]
              [] OTHER -> [start |-> IF a[i] \in Letters2 \cup Digits \cup {"~"} THEN s.start ELSE 0, dot |-> FALSE]
        end == FoldLeft(Step, [start |-> 0, dot |-> FALSE], [i \in DOMAIN a |-> i])
    IN  IF end.start = 0 \/ end.dot THEN a ELSE SubSeq(a, 1, end.start - 1)

\* the leading number without its leading zeros
Significant(s) == Drop(SubSeq(s, 1, SpanIn(s, Digits)), SpanIn(SubSeq(s, 1, SpanIn(s, Digits)), {"0"}))

RECURSIVE PartsCmp(_, _)
PartsCmp(a, b) ==
    IF a = <<>> /\ b = <<>> THEN 0
    ELSE LET as == SpanIn(a, Range(Bytes) \ Digits)
             bs == SpanIn(b, Range(Bytes) \ Digits)
             words == version_non_digit_cmp(SubSeq(a, 1, as), SubSeq(b, 1, bs))
             ra == Drop(a, as)
             rb == Drop(b, as)
             na == Significant(ra)
             nb == Significant(rb)
             differ == {i \in DOMAIN na : na[i] # nb[i]}
         IN  CASE words # 0 -> words
               [] words = 0 /\ Len(na) # Len(nb) -> Compare(Len(na), Len(nb))
               [] words = 0 /\ Len(na) = Len(nb) /\ differ # {} -> Compare(ByteOf[na[Min(differ)]], ByteOf[nb[Min(differ)]])
               [] OTHER -> PartsCmp(Drop(ra, SpanIn(ra, Digits)), Drop(rb, SpanIn(rb, Digits)))

version_cmp(a, b) ==
    LET Dotted(s) == s # <<>> /\ s[1] = "."
        x == IF Dotted(a) /\ Dotted(b) THEN Tail(a) ELSE a
        y == IF Dotted(a) /\ Dotted(b) THEN Tail(b) ELSE b
        sx == remove_file_ending(x)
        sy == remove_file_ending(y)
        \* the empty text, ".", "..", and what starts with a dot come first
        rank == [s \in {a, b} |-> CASE s = <<>> -> 0 [] s = <<".">> -> 1 [] s = <<".", ".">> -> 2
                                    [] OTHER -> IF Dotted(s) THEN 3 ELSE 4]
    IN  CASE a = b -> 0
          [] a # b /\ rank[a] # rank[b] -> Compare(rank[a], rank[b])
          [] OTHER -> IF sx = sy THEN PartsCmp(x, y) ELSE PartsCmp(sx, sy)

-----------------------------------------------------------------------------
\* shortcut_value_parser.rs: values are names with their aliases

OnlyOrExact(matched, value) ==
    LET exact == SelectInSeq(matched, LAMBDA v : v.name = value)
    IN  IF Len(matched) = 1 THEN matched[1] ELSE IF exact # 0 THEN matched[exact] ELSE [name |-> <<"ambiguous">>, aliases |-> {}]

shortcut(values, value) ==
    LET matched == SelectSeq(values, LAMBDA v : \E n \in {v.name} \cup v.aliases : IsPrefix(value, n))
    IN  IF matched = <<>> THEN <<"none">> ELSE OnlyOrExact(matched, value).name

\* parse_glob.rs: [^ becomes [!, where the class is closed
RECURSIVE FixFrom(_, _)
FixFrom(s, i) ==
    IF i + 3 > Len(s) THEN s
    ELSE IF s[i] # "[" \/ s[i + 1] # "^" THEN FixFrom(s, i + 1)
    ELSE LET close == {j \in i + 3 .. Len(s) : s[j] = "]"} IN
         IF close = {} THEN s ELSE FixFrom([s EXCEPT ![i + 1] = "!"], Min(close) + 1)

fix_negation(s) == FixFrom(s, 1)

-----------------------------------------------------------------------------
\* backup_control.rs. Suffixes: <<"~">> is the default one, <<"~", n>> numbered. The
\* options given: control ("" none, "bare" --backup without a value), b, suffix
\* ("" none, "/" one with a slash); the environment: versionControl, envSuffix.

BACKUP_CONTROL_VALUES == <<"simple", "never", "numbered", "t", "existing", "nil", "none", "off">>
Starts == [n |-> {"never", "numbered", "nil", "none"}, no |-> {"none"}, nu |-> {"numbered"}, e |-> {"existing"}, o |-> {"off"}]

match_method(method) ==
    LET matches == CASE method \in Range(BACKUP_CONTROL_VALUES) -> {method}
                     [] method \in DOMAIN Starts -> Starts[method]
                     [] OTHER -> {}
        it == CHOOSE x \in matches : TRUE
    IN  IF Cardinality(matches) # 1 THEN (IF matches = {} THEN "invalid" ELSE "ambiguous")
        ELSE CASE it \in {"simple", "never"} -> "Simple" [] it \in {"numbered", "t"} -> "Numbered"
               [] it \in {"existing", "nil"} -> "Existing" [] it \in {"none", "off"} -> "None"

determine_backup_suffix(o) ==
    LET suffix == IF o.suffix # "" THEN o.suffix ELSE IF o.envSuffix # "" THEN o.envSuffix ELSE "~"
    IN  IF suffix = "/" THEN "~" ELSE suffix

determine_backup_mode(o) ==
    LET byEnv == IF o.versionControl = "" THEN "Existing" ELSE match_method(o.versionControl)
    IN  CASE o.control \notin {"", "bare"} -> match_method(o.control)
          [] o.control = "bare" \/ (o.control = "" /\ (o.b \/ o.suffix # "")) -> byEnv
          [] OTHER -> "None"

\* files are the suffixes taken; numbers are tried from 1
FirstFree(files) == Min({i \in 1 .. Cardinality(files) + 1 : <<"~", i>> \notin files})

get_backup_path(mode, files, suffix) ==
    CASE mode = "Simple" -> <<suffix>>
      [] mode = "Numbered" -> <<"~", FirstFree(files)>>
      [] mode = "Existing" -> IF <<"~", 1>> \in files THEN <<"~", FirstFree(files)>> ELSE <<suffix>>
=============================================================================
