---------------------------- MODULE MCUucoreTexts ---------------------------
(***************************************************************************)
(* The texts of the shared library: arguments, names, encodings, messages. *)
(***************************************************************************)
EXTENDS UserArgs, ToolBench, Encodings, Locales, SequencesExt

(***************************************************************************)
(* Modes, ranges, versions, shortcuts, negated globs and backups, each     *)
(* read from a small text.                                                 *)
(***************************************************************************)

Perms == {<<>>, <<"r">>, <<"w", "x">>, <<"X">>, <<"s">>, <<"t">>, <<"g">>, <<"u">>}
Whos == {<<>>, <<"u">>, <<"g", "o">>, <<"a">>}
Clauses == {w \o <<o>> \o p : w \in Whos, o \in {"+", "-", "="}, p \in Perms}
OldModes == {{}, {<<"u", "r">>, <<"u", "x">>, <<"g", "s">>}, {<<"g", "w">>, <<"o", "x">>, <<"u", "s">>, <<"o", "t">>}}
Umasks == {{}, {<<"g", "w">>, <<"o", "r">>, <<"o", "w">>}}
Numerics == {<<"0">>, <<"7", "4">>, <<"4", "7", "0", "0">>, <<"0", "0", "7", "4", "4">>, <<"1", "7", "7", "7", "1">>, <<"+", "1">>,
             <<"=", "7", "0", "7">>, <<"-", "4", "1", "1", "4">>, <<"8">>, <<"u", "4">>}
Chmod == Give("chmod", {[old |-> f, clause |-> c, next |-> n, dir |-> d, umask |-> u] :
                          f \in OldModes, c \in Clauses \cup Numerics, d \in BOOLEAN, u \in Umasks,
                          n \in {<<>>, <<"g", "=", "u">>, <<"+", "w">>, <<"7", "4">>, <<"o">>}})

\* whether a clause wants bit b: one of its letters grants it, or the class it
\* copies has it, and the umask is asked only where no class is named
Wants(p, b, old, dir) ==
    CASE p # <<>> /\ p[1] \in Classes -> b[2] \in Rwx /\ <<p[1], b[2]>> \in old
      [] OTHER -> \/ b[2] \in Range(p)
                  \/ b[2] = "x" /\ "X" \in Range(p) /\ (dir \/ \E c \in Classes : <<c, "x">> \in old)

\* chmod changes, bit by bit, what its clause names and nothing else: other
\* classes keep their bits, the umask holds back only a clause that names no
\* class, a directory keeps its set-id bits under "=" and under a short number,
\* and clauses apply in turn, each to what the one before it left.
ChmodIsBitwise ==
    tool = "chmod" =>
        LET c == in.clause
            r == parse_chmod(in.old, <<c>>, in.dir, in.umask)
            who == SubSeq(c, 1, SpanIn(c, Classes \cup {"a"}))
            op == c[Len(who) + 1]
            p == Drop(c, Len(who) + 1)
            named(b) == who = <<>> \/ "a" \in Range(who) \/ b[1] \in Range(who)
            wants(b) == Wants(p, b, in.old, in.dir) /\ (who = <<>> => b \notin in.umask)
            number == Range(c) \cap (OctalDigits \cup {"8"}) # {}
            both == parse_chmod(in.old, <<c, in.next>>, in.dir, in.umask)
        IN  /\ ~number => r.st = "ok" /\ \A b \in AllBits :
                  b \in r.mode <=> IF ~named(b) THEN b \in in.old
                                   ELSE CASE op = "+" -> b \in in.old \/ wants(b)
                                          [] op = "-" -> b \in in.old /\ ~wants(b)
                                          [] op = "=" -> wants(b) \/ (in.dir /\ b \in in.old \cap SetIdBits)
            /\ number /\ r.st = "ok" /\ in.dir /\ c[1] \notin {"=", "-"} /\ Len(c) < 5 => in.old \cap SetIdBits \subseteq r.mode
            /\ number /\ r.st = "ok" /\ (Len(c) > 4 \/ ~in.dir) /\ c[1] \notin {"+", "-"} =>
                  r = parse_chmod({}, <<c>>, in.dir, in.umask)
            /\ both = IF r.st = "error" THEN r ELSE parse_chmod(r.mode, <<in.next>>, in.dir, in.umask)

RangeItems == {[dash |-> d, low |-> l, high |-> h] : d \in BOOLEAN, l \in {-1, 0, 1, 3, UsizeMax}, h \in {-1, 2, 4, UsizeMax - 1}}
Ranges == Give("ranges", UNION {[1 .. k -> {i \in RangeItems : i.dash \/ (i.low # -1 /\ i.high = -1)}] : k \in 1 .. 3})

\* A list of ranges selects what its items select, once and in order, whatever
\* their order and overlap; the complement selects exactly the rest; a list with
\* one bad item selects nothing at all.
RangesSelectTheirItems ==
    tool = "ranges" =>
        LET low(i) == IF in[i].low = -1 THEN 1 ELSE in[i].low
            high(i) == IF ~in[i].dash THEN in[i].low ELSE IF in[i].high = -1 THEN UsizeMax - 1 ELSE in[i].high
            bad == \E i \in DOMAIN in : \/ in[i].low = -1 /\ in[i].high = -1
                                        \/ ~(1 <= low(i) /\ low(i) <= high(i) /\ high(i) < UsizeMax)
            r == from_list(in)
            c == complement(r)
        IN  IF bad THEN r = <<>>
            ELSE \A n \in 1 .. UsizeMax - 1 :
                    /\ contain(r, n) <=> \E i \in DOMAIN in : low(i) <= n /\ n <= high(i)
                    /\ contain(c, n) <=> ~contain(r, n)
                    /\ \A i \in 2 .. Len(r) : r[i - 1].high < r[i].low
                    /\ \A i \in 2 .. Len(c) : c[i - 1].high + 1 < c[i].low

Names3 == BoundedSeq({"-", ".", "0", "1", "a", "b", "~"}, 3)
Version == Give("version", {[a |-> a, b |-> b] : a \in Names3, b \in BoundedSeq({".", "0", "1", "a", "~"}, 3) \cup {<<"a", ".", "b", "1">>}})

\* The order of versions is an order: a name is neither before itself nor before
\* one that is before it, more significant digits are a larger number, and names
\* without an ending that could be cut off compare the same with a common
\* beginning, which sort(1) and ls -v rely on.
VersionOrderIsSound ==
    tool = "version" =>
        LET c == version_cmp(in.a, in.b)
            digits(s) == s # <<>> /\ Range(s) \subseteq Digits
            value(s) == FoldLeft(LAMBDA x, d : 10 * x + (IF d = "1" THEN 1 ELSE 0), 0, s)
            plain == Range(in.a) \cup Range(in.b) \subseteq {"-", "0", "1", "a", "b", "~"}
        IN  /\ version_cmp(in.b, in.a) = -c
            /\ in.a = in.b => c = 0
            /\ digits(in.a) /\ digits(in.b) => c = Compare(value(in.a), value(in.b))
            /\ plain /\ in.a # <<>> /\ in.b # <<>> => version_cmp(<<"a">> \o in.a, <<"a">> \o in.b) = PartsCmp(in.a, in.b)
            /\ in.b # <<>> /\ in.a = in.b \o <<"~">> => c = -1 \/ "." \in Range(in.b)

Value(n, as) == [name |-> n, aliases |-> as]
ValueLists == {<<Value(<<"a">>, {}), Value(<<"a", "b">>, {}), Value(<<"b", "a">>, {<<"c">>})>>,
               <<Value(<<"a", "b">>, {<<"c", "c">>}), Value(<<"c">>, {}), Value(<<"a", "b", "c">>, {})>>,
               <<Value(<<"c", "a">>, {}), Value(<<"c", "b">>, {}), Value(<<"c">>, {<<"a">>})>>}
Shortcut == Give("shortcut", {[values |-> vs, text |-> t] : vs \in ValueLists, t \in BoundedSeq({"a", "b", "c"}, 3)})

\* An option value may be shortened as long as one value is left that starts so:
\* the whole name always means itself, a shortcut never means one of two, and
\* typing more of it never changes which value it means.
ShortcutsAreUnambiguous ==
    tool = "shortcut" =>
        LET r == shortcut(in.values, in.text)
            starts == {i \in DOMAIN in.values : \E n \in {in.values[i].name} \cup in.values[i].aliases : IsPrefix(in.text, n)}
            exact == {i \in starts : in.values[i].name = in.text}
        IN  /\ \A i \in exact : r = in.text
            /\ exact = {} /\ Cardinality(starts) > 1 => r = <<"ambiguous">>
            /\ starts = {} => r = <<"none">>
            /\ \A i \in starts : Cardinality(starts) = 1 => r = in.values[i].name
            /\ \A x \in {"a", "b", "c"} : exact = {} /\ r \notin {<<"ambiguous">>, <<"none">>} =>
                  shortcut(in.values, Append(in.text, x)) \in {r, <<"none">>}

GlobText == Give("globtext", BoundedSeq({"[", "^", "]", "a"}, 6))

\* A negated class of a glob is rewritten where it is closed and nowhere else:
\* each ^ that becomes ! opens a class with something in it, the first class
\* that is negated and closed is rewritten, and one that is open is left alone.
NegationIsRewrittenOnce ==
    tool = "globtext" =>
        LET t == fix_negation(in) IN
        /\ Len(t) = Len(in)
        /\ \A i \in DOMAIN in : t[i] = in[i] \/ (/\ i > 1 /\ in[i - 1] = "[" /\ in[i] = "^" /\ t[i] = "!"
                                                  /\ \E j \in i + 2 .. Len(in) : in[j] = "]")
        /\ ~(\E i \in 1 .. Len(t) - 3 : t[i] = "[" /\ t[i + 1] = "^" /\ \E j \in i + 3 .. Len(t) : t[j] = "]"
                                        /\ \A k \in 1 .. i - 1 : t[k] # "[")

\* backups made one after the other: a step overwrites the file under a mode, or
\* deletes the backup with a number
BackupSteps == {<<"write", m>> : m \in {"Simple", "Numbered", "Existing"}} \cup {<<"delete", n>> : n \in {"1", "2"}}
Backup == Give("backup", UNION {[1 .. k -> BackupSteps] : k \in 1 .. 5})
AfterStep(s, step, i) ==
    IF step[1] = "delete" THEN [s EXCEPT !.saved = [x \in DOMAIN @ \ {<<"~", IF step[2] = "1" THEN 1 ELSE 2>>} |-> @[x]]]
    ELSE LET path == get_backup_path(step[2], DOMAIN s.saved, "~")
         IN  [file |-> i, saved |-> [x \in DOMAIN s.saved \cup {path} |-> IF x = path THEN s.file ELSE s.saved[x]],
              lost |-> IF path \in DOMAIN s.saved THEN s.lost \cup {<<path, s.saved[path]>>} ELSE s.lost]

\* Overwriting a file loses no numbered backup: the only backup that a later one
\* may replace is the simple one, and the version just overwritten is always
\* there under the name the mode gives it.
BackupsLoseNoNumber ==
    tool = "backup" =>
        LET Run(k) == FoldLeft(LAMBDA s, i : AfterStep(s, in[i], i), [file |-> 0, saved |-> <<>>, lost |-> {}], [i \in 1 .. k |-> i])
            end == Run(Len(in))
        IN  /\ \A l \in end.lost : l[1] = <<"~">>
            /\ in[Len(in)][1] = "write" => \E x \in DOMAIN end.saved : end.saved[x] = Run(Len(in) - 1).file

BackupLine == Give("backupline", {[control |-> c, b |-> b, suffix |-> s, versionControl |-> v, envSuffix |-> e] :
                     c \in {"", "bare", "n", "no", "nu", "numbered", "t", "x", "off", "never"}, b \in BOOLEAN, s \in {"", "/", ".bak"},
                     v \in {"", "e", "n", "nil", "none"}, e \in {"", ".old"}})

\* What the user asks for is what is done: a value given on the command line is
\* never overridden by the environment, any option about backups makes one
\* unless a value says not to, none is made unasked, a word that is not one
\* method is an error and not a guess, and no suffix leads into a directory.
BackupModeIsTheUsers ==
    tool = "backupline" =>
        LET m == determine_backup_mode(in)
            asked == in.control # "" \/ in.b \/ in.suffix # ""
        IN  /\ ~asked => m = "None"
            /\ in.control \notin {"", "bare"} => m = determine_backup_mode([in EXCEPT !.versionControl = "", !.b = FALSE, !.suffix = ""])
            /\ asked /\ m = "None" => in.control \in {"no", "off"} \/ in.versionControl = "none"
            /\ in.control = "n" => m = "ambiguous"
            /\ in.control = "x" => m = "invalid"
            /\ determine_backup_suffix(in) # "/"
            /\ in.suffix \notin {"", "/"} => determine_backup_suffix(in) = in.suffix

-----------------------------------------------------------------------------
(***************************************************************************)
(* Short names in every quoting style, read back by the reader the style   *)
(* is meant for.                                                           *)
(***************************************************************************)

NameChars == {"a", "7", "sq", "dq", "bs", "sp", "nl", "ct", "$", "~", ":", "eacute", "nel", "bad"}
ShownNames == BoundedSeq(NameChars, 3) \cup {p \o q : p \in BoundedSeq({"sq", "bad", "a"}, 2), q \in BoundedSeq({"nl", "bs", "7"}, 2)}
Style(kind) == [kind |-> kind, show |-> FALSE, quotes |-> "none", escape |-> FALSE, always |-> FALSE]
ShellStyles == {[Style("shell") EXCEPT !.escape = e, !.always = a, !.show = ~e] : e \in BOOLEAN, a \in BOOLEAN}
Shown(kind, styles) == Give(kind, {[name |-> n, style |-> s, dirname |-> d, encoding |-> e] :
                                     n \in ShownNames, s \in styles, d \in BOOLEAN, e \in {"Utf8", "Ascii"}})
ShellName == Shown("shellname", ShellStyles)

\* the byte a $'...' makes of an escape that starts at i, and its length
DollarByte(s, i) ==
    IF i <= Len(s) /\ s[i] = "n" THEN [byte |-> "nl", len |-> 1]
    ELSE LET B == {b \in DOMAIN OctalDigitsOf : i + 2 <= Len(s) /\ OctalDigitsOf[b] = SubSeq(s, i, i + 2)}
         IN  IF B = {} THEN [byte |-> "unknown", len |-> 1] ELSE [byte |-> CHOOSE b \in B : TRUE, len |-> 3]

\* a shell reads one word: mode is plain, single, double or dollar; what is
\* special where it stands makes the word something else
RECURSIVE ReadWord(_, _, _, _)
ReadWord(s, i, mode, out) ==
    IF i > Len(s) THEN (IF mode = "plain" THEN out ELSE <<"unterminated">>)
    ELSE LET c == s[i] IN
    CASE mode = "single" -> IF c = "sq" THEN ReadWord(s, i + 1, "plain", out) ELSE ReadWord(s, i + 1, mode, Append(out, c))
      [] mode = "double" -> IF c = "dq" THEN ReadWord(s, i + 1, "plain", out)
                            ELSE IF c = "bs" THEN <<"special">> ELSE ReadWord(s, i + 1, mode, Append(out, c))
      [] mode = "dollar" -> IF c = "sq" THEN ReadWord(s, i + 1, "plain", out)
                            ELSE IF c = "bs" THEN ReadWord(s, i + 1 + DollarByte(s, i + 1).len, mode, Append(out, DollarByte(s, i + 1).byte))
                            ELSE ReadWord(s, i + 1, mode, Append(out, c))
      [] OTHER -> CASE c = "sq" -> ReadWord(s, i + 1, "single", out)
                    [] c = "dq" -> ReadWord(s, i + 1, "double", out)
                    [] c = "$" -> IF i < Len(s) /\ s[i + 1] = "sq" THEN ReadWord(s, i + 2, "dollar", out) ELSE <<"special">>
                    [] c = "bs" -> IF i < Len(s) THEN ReadWord(s, i + 2, mode, Append(out, s[i + 1])) ELSE <<"special">>
                    [] c = "~" -> IF i = 1 THEN <<"special">> ELSE ReadWord(s, i + 1, mode, Append(out, c))
                    [] OTHER -> IF c \in {"sp", "nl", "*"} THEN <<"special">> ELSE ReadWord(s, i + 1, mode, Append(out, c))

\* A name shown for a shell is one word that the shell reads back as the name,
\* byte by byte, however its quotes, control characters and bytes that are no
\* characters mix. Left out is the one mix the quoter gets wrong: a name with a
\* single quote is put in double quotes when all else that is special in it is
\* above ASCII, and $'...' means nothing inside them.
ShellNamesReadBack ==
    tool = "shellname" =>
        LET shown == escape_name_inner(in.name, in.style, in.dirname, in.encoding)
            bytes == NameBytes(in.name)
            start == initial_quoting(bytes, in.dirname, in.style.always, in.style.escape)
            highEscapes == in.style.escape /\ \E i \in DOMAIN in.name : in.name[i] \in {"nel", "bad"} \/ (in.encoding = "Ascii" /\ in.name[i] = "eacute")
        IN  ~(start.quotes = "dq" /\ highEscapes) => ReadWord(shown, 1, "plain", <<>>) = bytes

CName == Shown("cname", {[Style("c") EXCEPT !.quotes = q] : q \in {"none", "sq", "dq"}})

\* a C string literal is read: the bytes it stands for
RECURSIVE ReadC(_, _)
ReadC(s, i) ==
    IF i > Len(s) THEN <<>>
    ELSE IF s[i] # "bs" THEN <<s[i]>> \o ReadC(s, i + 1)
    ELSE IF i = Len(s) THEN <<"open">>
    ELSE IF s[i + 1] \in {"0", "2", "3"} THEN (IF i + 3 > Len(s) THEN <<"open">> ELSE <<DollarByte(s, i + 1).byte>> \o ReadC(s, i + 4))
    ELSE <<IF s[i + 1] = "n" THEN "nl" ELSE s[i + 1]>> \o ReadC(s, i + 2)

\* A name shown as a C string reads back as the name; it holds no bare control
\* character, its quotes end it, and without quotes no bare space, so that names
\* shown one after the other can be told apart.
CNamesReadBack ==
    tool = "cname" =>
        LET shown == escape_name_inner(in.name, in.style, in.dirname, in.encoding)
            body == IF in.style.quotes = "none" THEN shown ELSE SubSeq(shown, 2, Len(shown) - 1)
            Backslashes(i) == Cardinality({j \in 1 .. i - 1 : \A k \in j .. i - 1 : body[k] = "bs"})
            Bare(c) == \E i \in DOMAIN body : body[i] = c /\ Backslashes(i) % 2 = 0
        IN  /\ ReadC(body, 1) = NameBytes(in.name)
            /\ ~Bare("nl") /\ ~Bare("ct") /\ ~Bare("bad")
            /\ in.style.quotes # "none" => ~Bare(in.style.quotes) /\ shown = <<in.style.quotes>> \o body \o <<in.style.quotes>>
            /\ in.style.quotes = "none" /\ ~in.dirname => ~Bare("sp")

LiteralName == Shown("literalname", {[Style("literal") EXCEPT !.show = b] : b \in BOOLEAN})

\* A name shown literally keeps its printable characters where they are, and
\* each control character, and each byte that is none, is one ?: a column of
\* names stays as wide as what is shown.
LiteralNamesKeepTheirWidth ==
    tool = "literalname" =>
        LET shown == escape_name_inner(in.name, in.style, in.dirname, in.encoding)
            utf8 == in.encoding = "Utf8"
            Want(c) == CASE c \in {"nl", "ct", "bad"} -> <<"?">>
                         [] c \in {"eacute", "nel"} -> IF ~utf8 THEN <<"?", "?">> ELSE IF c = "nel" THEN <<"?">> ELSE BytesOf(c)
                         [] OTHER -> <<c>>
        IN  shown = IF in.style.show THEN NameBytes(in.name) ELSE FlattenSeq([i \in DOMAIN in.name |-> Want(in.name[i])])

-----------------------------------------------------------------------------
(***************************************************************************)
(* Byte strings there and back, and streams put together from pieces.      *)
(***************************************************************************)

Based58 == Give("base58", {[bytes |-> b, text |-> <<>>] : b \in UNION {[1 .. k -> 0 .. ByteBase - 1] : k \in 0 .. 5}}
                          \cup {[bytes |-> <<>>, text |-> t] : t \in UNION {[1 .. k -> -1 .. Radix58 - 1] : k \in 0 .. 4}})

\* the number a sequence of digits stands for
NumberIn(base, s) == FoldLeft(LAMBDA a, d : a * base + d, 0, s)

\* Base 58 loses nothing: every byte string comes back, zero bytes in front of it
\* included, the digits stand for the same number as the bytes, and a text is the
\* only one for its bytes; a letter outside the alphabet is an error.
Base58ReadsBack ==
    tool = "base58" =>
        LET e == Base58_encode(in.bytes)
            d == Base58_decode(in.text)
        IN  /\ Base58_decode(e) = Coded(TRUE, in.bytes)
            /\ NumberIn(Radix58, e) = NumberIn(ByteBase, in.bytes)
            /\ d.ok <=> -1 \notin ToSet(in.text)
            /\ d.ok => Base58_encode(d.out) = in.text

Pieces64 == UNION {[1 .. k -> {0, 1}] : k \in 0 .. 4}
Streamed64 == Give("base64", {[first |-> a, second |-> b, third |-> c, padded |-> p, cut |-> n] :
                                a \in Pieces64, b \in Pieces64, c \in {<<>>, <<1>>, <<0, 1, 1>>}, p \in BOOLEAN, n \in 0 .. 2})

\* Padded streams put one after the other decode to their bytes one after the
\* other, as with GNU base64, also where the last one has no padding. A stream cut
\* short in a group of bytes is an error unless what is left is a group itself.
StreamsDecodeInTurn ==
    tool = "base64" =>
        LET whole == Base64_encode(in.first, TRUE) \o Base64_encode(in.second, TRUE) \o Base64_encode(in.third, in.padded)
            bytes == in.first \o in.second \o in.third
            cut == SubSeq(whole, 1, Len(whole) - (IF in.cut < Len(whole) THEN in.cut ELSE 0))
            r == Base64_decode(cut, TRUE, <<9>>)
        IN  /\ in.cut = 0 => r = Coded(TRUE, <<9>> \o bytes)
            /\ IsPrefix(r.out, <<9>> \o bytes)
            /\ r.ok /\ cut # whole => \/ r.out # <<9>> \o bytes
                                      \/ \E k \in 1 .. 2 : cut \o Repeated(Pad, k) = whole
            /\ Base64_decode(Base64_encode(bytes, FALSE), FALSE, <<9>>) = Coded(TRUE, <<9>> \o bytes)

Remainder32 == Give("base32", {[len |-> n, pad |-> p] : n \in 0 .. 7, p \in BOOLEAN})

\* The end of a base 32 stream gives every whole byte its symbols hold and no part
\* of one, and says so when symbols were left over.
RemaindersHoldWholeBytes ==
    tool = "base32" /\ ~in.pad =>
        LET r == pad_remainder(in.len, in.pad)
            whole == (5 * in.len) \div 8
        IN  /\ r.some <=> whole > 0
            /\ r.some => /\ (5 * r.kept) \div 8 = whole /\ (5 * (r.kept - 1)) \div 8 < whole
                         /\ r.kept + r.pads = 8
                         /\ r.had_invalid_tail <=> in.len > r.kept

-----------------------------------------------------------------------------
(***************************************************************************)
(* A utility's messages over what its message files may hold.              *)
(***************************************************************************)

Ids == {"common-error", "about", "x"}
Sources == {"common", "utility", "checksums"}
Contents == [common |-> {Absent, Ftl({"common-error", "x"})},
             utility |-> {Absent, Broken, Ftl({"about", "x"}), Ftl({"x"})},
             checksums |-> {Absent, Ftl({"x"})}]
FileSets == {[common |-> c, utility |-> u, checksums |-> s] :
                c \in Contents.common, u \in Contents.utility, s \in Contents.checksums}
\* what may be built in: everything, nothing of the utility's, a bad file, nothing
Built(c, u, s) == [common |-> c, utility |-> u, checksums |-> s]
BuiltSets == {Built(Ftl({"common-error", "x"}), Ftl({"about", "x"}), Ftl({"x"})), Built(Absent, Absent, Ftl({"x"})),
              Built(Ftl({"common-error", "x"}), Broken, Absent)}
InLocales(en, fr) == [s \in Sources |-> [l \in {English, "fr-FR", "fr"} |-> IF l = English THEN en[s] ELSE IF l = "fr-FR" THEN fr[s] ELSE Absent]]

System(debug, exe, dirs, commons, en, fr, built, lang) ==
    [debug |-> debug, exe |-> exe, dirs |-> dirs, commons |-> commons, files |-> InLocales(en, fr), built |-> built, lang |-> lang]
Both(place) == {<<"sort", place>>, <<"md5sum", place>>, <<"checksum_common", place>>, <<"sum", place>>}
AllFiles == Built(Ftl({"common-error", "x"}), Ftl({"about", "x"}), Ftl({"x"}))

\* every content of the files; and every layout of the directories
Localize ==
    \/ Give("locale", {[sys |-> System(FALSE, TRUE, Both("prefix/share"), Both("prefix/share"), en, fr, b, lang), p |-> p] :
            en \in FileSets, fr \in FileSets, b \in BuiltSets, lang \in {"C", "fr-FR"}, p \in {"sort", "md5sum"}})
    \/ Give("locale", {[sys |-> System(d, x, ds, cs, AllFiles, f, b, lang), p |-> p] :
            d \in BOOLEAN, x \in BOOLEAN, p \in {"sort", "sum", "md5sum"}, b \in BuiltSets, lang \in {"unset", "fr-FR", "fr"},
            f \in {AllFiles, Built(Absent, Absent, Absent)},
            ds \in {{}, Both("bindir"), Both("../uu") \cup Both("prefix/share"), Both("manifest") \ {<<"checksum_common", "manifest">>}},
            cs \in {{}, Both("../uu") \cup Both("bindir")}})

\* what a locale's files can give a utility: the texts of each source it may read
Readable(sys, p, locale) ==
    LET dir == get_locales_dir(sys, p)
        read == IF dir = <<>> THEN {}
                ELSE (IF dir \in sys.commons THEN {"common"} ELSE {}) \cup {"utility"}
                     \cup (IF p \in ChecksumNames /\ get_locales_dir(sys, "checksum_common") # <<>> THEN {"checksums"} ELSE {})
    IN  {<<s, id>> \in read \X Ids : sys.files[s][locale].kind = "good" /\ id \in sys.files[s][locale].ids}
Counts(texts) == \E t \in texts : t[2] \in {"common-error", "about"}
BuiltIn(sys, p) ==
    IF \E s \in Sources : sys.built[s].kind = "broken" /\ (s # "checksums" \/ p \in EndsInSum) THEN {}
    ELSE {<<s, id>> \in Sources \X Ids : (s # "checksums" \/ p \in EndsInSum) /\ id \in sys.built[s].ids}

\* A message is in the user's language whenever that language's files say anything of
\* use and have it, else in English, from the files before what is built in, else
\* its id. Of several texts in one language the common one is the last choice. Setting up
\* fails exactly where there is no English at all, and then every message is its id.
MessagesAreTheUsers ==
    LET Of(texts, id) == {t[1] : t \in {u \in texts : u[2] = id}}
        Best(id, m, own, first, best, counted) ==
            IF best = {} THEN m = <<"id", id>>
            ELSE /\ m[1] \in best
                 /\ m[1] = "common" => best = {"common"}
                 /\ m[2] = IF first # {} THEN own ELSE IF counted THEN English ELSE "built-in"
        Message(id, m, own, first, second, counted) == Best(id, m, own, first, IF first # {} THEN first ELSE second, counted)
        Said(r, own, mine, english, counted) ==
            /\ r.ok <=> Counts(english)
            /\ \A id \in Ids :
                  Message(id, get_message(r.thread, id), own, IF r.ok /\ Counts(mine) THEN Of(mine, id) ELSE {}, IF r.ok THEN Of(english, id) ELSE {}, counted)
        Spoken(r, own, mine, files) == Said(r, own, mine, IF Counts(files) THEN files ELSE BuiltIn(in.sys, in.p), Counts(files))
    IN  tool = "locale" =>
            Spoken(setup_localization(Unset, in.sys, in.p), detect_system_locale(in.sys),
                     Readable(in.sys, in.p, detect_system_locale(in.sys)), Readable(in.sys, in.p, English))

\* Setting up is all or nothing: a thread that was told of a failure has no localizer and
\* may set up again, now with the texts; one that was told of success keeps its texts
\* whatever program and system it sets up for next.
SetupIsAllOrNothing ==
    LET Kept(r, again) ==
            /\ r.ok \/ r.thread = Unset
            /\ again.ok
            /\ r.ok => \A id \in Ids : get_message(again.thread, id) = get_message(r.thread, id)
            /\ ~r.ok => \A id \in {"about", "x"} : get_message(again.thread, id) # <<"id", id>>
        better == [in.sys EXCEPT !.built = AllFiles, !.files = InLocales(AllFiles, AllFiles), !.lang = "unset"]
        First(r) == Kept(r, setup_localization(r.thread, better, "sort"))
    IN  tool = "locale" => First(setup_localization(Unset, in.sys, in.p))

-----------------------------------------------------------------------------
(***************************************************************************)
(* Texts of characters of every encoding, and bytes that are no text, cut  *)
(* into characters under a user's locale.                                  *)
(***************************************************************************)

Locale(name, charset) == [name |-> name, charset |-> charset]
NoLocale == Locale("", "")

\* what the three variables say, and the encoding the user writes in
Users == {[env |-> <<NoLocale, NoLocale, NoLocale>>, encoding |-> "Utf8"],
          [env |-> <<Locale("C", ""), Locale("ja_JP", "eucjp"), NoLocale>>, encoding |-> "Utf8"],
          [env |-> <<NoLocale, Locale("ja_JP", "euc-jp"), Locale("zh_CN", "")>>, encoding |-> "EucJp"],
          [env |-> <<NoLocale, NoLocale, Locale("zh_CN", "")>>, encoding |-> "Gb18030"],
          [env |-> <<Locale("zh_TW", ""), Locale("zh_CN", ""), NoLocale>>, encoding |-> "Big5"],
          [env |-> <<NoLocale, Locale("zh_TW", "utf-8"), Locale("zh_TW", "")>>, encoding |-> "Utf8"],
          [env |-> <<NoLocale, NoLocale, Locale("ko_KR", "euckr")>>, encoding |-> "EucKr"]}

\* characters of the encodings: at least one of every length
CharactersOf ==
    [Utf8 |-> {<<65>>, <<195, 169>>, <<226, 130, 172>>, <<240, 159, 152, 128>>},
     Gb18030 |-> {<<48>>, <<214, 208>>, <<129, 48, 132, 54>>, <<129, 64>>},
     EucJp |-> {<<65>>, <<164, 162>>, <<142, 177>>, <<143, 176, 161>>},
     EucKr |-> {<<65>>, <<176, 161>>, <<254, 254>>},
     Big5 |-> {<<65>>, <<164, 64>>, <<164, 164>>}]

CharText == Give("chartext", UNION {{[env |-> u.env, chars |-> cs] : cs \in BoundedSeq(CharactersOf[u.encoding], 3)} : u \in Users})

RECURSIVE Cut(_, _)
Cut(b, env) ==
    IF b = <<>> THEN <<>>
    ELSE LET n == mb_char_len(b, env) IN <<SubSeq(b, 1, n)>> \o Cut(SubSeq(b, n + 1, Len(b)), env)

\* A text is cut into the characters it was written in, under the locale its
\* writer uses: no character of one to four bytes is torn apart or joined to its
\* neighbour, also where the trail byte of one could begin the next.
CharactersAreWhole ==
    tool = "chartext" => Cut(FlattenSeq(in.chars), in.env) = in.chars

BrokenBytes == {10, 48, 65, 130, 142, 143, 161, 195, 226, 240, 255}
BrokenText == Give("broken", {[env |-> u.env, bytes |-> b] : u \in Users, b \in BoundedSeq(BrokenBytes, 4)})

\* Bytes that are no text in the locale lose nothing and hide no line: the pieces
\* make up the bytes, a newline is always a piece of its own, and a character that
\* the end cuts short does not reach beyond it.
BrokenTextKeepsItsLines ==
    tool = "broken" =>
        LET pieces == Cut(in.bytes, in.env)
        IN  /\ FlattenSeq(pieces) = in.bytes
            /\ \A i \in DOMAIN pieces : 10 \in ToSet(pieces[i]) => pieces[i] = <<10>>

\* What a user wrote is taken for what it says, and what is written for a user
\* reads back as what it was.
TextsAreExact ==
    /\ ChmodIsBitwise /\ RangesSelectTheirItems /\ VersionOrderIsSound
    /\ ShortcutsAreUnambiguous /\ NegationIsRewrittenOnce
    /\ BackupsLoseNoNumber /\ BackupModeIsTheUsers /\ ShellNamesReadBack
    /\ CNamesReadBack /\ LiteralNamesKeepTheirWidth /\ Base58ReadsBack
    /\ StreamsDecodeInTurn /\ RemaindersHoldWholeBytes /\ MessagesAreTheUsers
    /\ SetupIsAllOrNothing /\ CharactersAreWhole /\ BrokenTextKeepsItsLines
=============================================================================
