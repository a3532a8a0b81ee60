------------------------------ MODULE Encodings ------------------------------
(***************************************************************************)
(* What uucore writes for bytes: quoting_style, at the end, and            *)
(* encoding.rs, behind base64, base32 and basenc: base 58 by               *)
(* arithmetic on limbs, base 64 in streams of padded groups, and the end   *)
(* of a base 32 stream. Bytes, limbs and digits are numbers of scaled      *)
(* size; a base 58 text is a sequence of digits, 0 the letter "1" and -1 a *)
(* letter outside the alphabet. An output is what was there and what is    *)
(* added.                                                                  *)
(***************************************************************************)
EXTENDS Integers, Sequences, FiniteSets, SequencesExt, FiniteSetsExt

CONSTANTS ByteBase,      \* values of a byte (256)
          LimbBytes,     \* bytes of a limb (4)
          Radix58,       \* 58
          TrimEvery      \* digits between two trims of the number (8)

ASSUME EncodingsAssumption == /\ ByteBase \in Nat \ {0, 1} /\ LimbBytes \in Nat \ {0}
                              /\ Radix58 \in Nat \ {0, 1} /\ TrimEvery \in Nat \ {0}

Limb == ByteBase ^ LimbBytes

Coded(ok, out) == [ok |-> ok, out |-> out]

Leading(s, x) == IF \E i \in DOMAIN s : s[i] # x THEN Min({i \in DOMAIN s : s[i] # x}) - 1 ELSE Len(s)
Repeated(x, n) == [i \in 1 .. n |-> x]

\* num * factor + digit, num being limbs from the lowest
MulAdd(num, factor, digit) ==
    LET r == FoldLeft(LAMBDA a, n : LET t == n * factor + a.carry IN [num |-> Append(a.num, t % Limb), carry |-> t \div Limb],
                      [num |-> <<>>, carry |-> digit], num)
    IN  IF r.carry > 0 THEN Append(r.num, r.carry) ELSE r.num

\* num divided by the radix, and the remainder
DivRadix(num) ==
    FoldRight(LAMBDA n, a : LET t == a.rem * Limb + n IN [num |-> <<t \div Radix58>> \o a.num, rem |-> t % Radix58],
              num, [num |-> <<>>, rem |-> 0])

\* a number without the zeros at its end, of which the first element stays
Trimmed(num) == LET top == {i \in DOMAIN num : num[i] # 0} IN SubSeq(num, 1, IF top = {} THEN 1 ELSE Max(top))

\* the digits of num from the lowest, with the loop's early end and its trims
RECURSIVE Digits58(_, _)
Digits58(num, result) ==
    IF num = <<>> THEN result
    ELSE LET d == DivRadix(num)
             now == Append(result, d.rem)
         IN  IF \A i \in DOMAIN d.num : d.num[i] = 0 THEN now
             ELSE Digits58(IF Len(d.num) > 1 /\ Len(now) % TrimEvery = 0 THEN Trimmed(d.num) ELSE d.num, now)

Base58_encode(input) ==
    LET zeros == Leading(input, 0)
        num == FoldLeft(LAMBDA a, b : MulAdd(a, ByteBase, b), <<>>, SubSeq(input, zeros + 1, Len(input)))
    IN  Repeated(0, zeros) \o (IF zeros = Len(input) THEN <<>> ELSE Reverse(Digits58(num, <<>>)))

\* the bytes of the limbs, from the lowest
BytesOfLimbs(num) == FoldLeft(LAMBDA a, n : a \o [i \in 1 .. LimbBytes |-> (n \div ByteBase ^ (i - 1)) % ByteBase], <<>>, num)

Base58_decode(input) ==
    LET ones == Leading(input, 0)
        rest == SubSeq(input, ones + 1, Len(input))
        num == FoldLeft(LAMBDA a, d : MulAdd(a, Radix58, d), <<0>>, rest)
    IN  CASE rest = <<>> -> Coded(TRUE, Repeated(0, ones))
          [] rest # <<>> /\ -1 \in ToSet(rest) -> Coded(FALSE, <<>>)
          [] OTHER -> Coded(TRUE, Repeated(0, ones) \o Reverse(Trimmed(BytesOfLimbs(num))))

-----------------------------------------------------------------------------
\* Base 64: a group is three bytes and four symbols; Pad is "=".
Pad == "="
Symbol(g, i) == <<"s", g, i>>      \* the i-th symbol of a group g of at most three bytes

\* the encoder's symbols of one group
GroupSymbols(g) == [i \in 1 .. Len(g) + 1 |-> Symbol(g, i)]
Groups(input) == [k \in 1 .. (Len(input) + 2) \div 3 |-> SubSeq(input, 3 * k - 2, IF 3 * k < Len(input) THEN 3 * k ELSE Len(input))]
Base64_encode(input, use_padding) ==
    FlattenSeq([k \in 1 .. (Len(input) + 2) \div 3 |->
        LET g == Groups(input)[k] IN GroupSymbols(g) \o (IF use_padding THEN Repeated(Pad, 3 - Len(g)) ELSE <<>>)])

\* a group of symbols as the decoder reads it: all of one group and in order
Plain64(s) == SelectSeq(s, LAMBDA c : c # Pad)
ReadGroup(s) == LET p == Plain64(s) IN
    IF Len(p) > 1 /\ \A i \in DOMAIN p : p[i] = Symbol(p[1][2], i) /\ Len(p) = Len(p[1][2]) + 1 THEN Coded(TRUE, p[1][2]) ELSE Coded(FALSE, <<>>)
ReadGroups(s) ==
    LET parts == [k \in 1 .. (Len(s) + 3) \div 4 |-> ReadGroup(SubSeq(s, 4 * k - 3, IF 4 * k < Len(s) THEN 4 * k ELSE Len(s)))]
    IN  IF \A k \in DOMAIN parts : parts[k].ok THEN Coded(TRUE, FlattenSeq([k \in DOMAIN parts |-> parts[k].out])) ELSE Coded(FALSE, <<>>)

\* the strict decoders: padding only at the very end, or none
decode_with_standard(s) ==
    LET pads == {i \in DOMAIN s : s[i] = Pad}
    IN  IF Len(s) % 4 = 0 /\ pads = (Len(s) - Cardinality(pads) + 1) .. Len(s) /\ Cardinality(pads) < 3
        THEN LET r == ReadGroups(s)
             IN  IF r.ok /\ \A k \in 1 .. Len(s) \div 4 : k < Len(s) \div 4 => Len(ReadGroup(SubSeq(s, 4 * k - 3, 4 * k)).out) = 3 THEN r ELSE Coded(FALSE, <<>>)
        ELSE Coded(FALSE, <<>>)
decode_with_no_pad(s) == IF Pad \in ToSet(s) \/ Len(s) % 4 = 1 THEN Coded(FALSE, <<>>) ELSE ReadGroups(s)

\* groups up to and with the one that holds the symbol at index at (from 0)
BlocksThrough(at) == at \div 4 + 1

\* the padded stream from one place on; an error ends the call with the groups
\* before it already written
RECURSIVE DecodeStream(_, _)
DecodeStream(s, output) ==
    LET pads == {i \in DOMAIN s : s[i] = Pad}
        len == 4 * BlocksThrough(Min(pads) - 1)
        first == decode_with_standard(SubSeq(s, 1, len))
        last == IF Len(s) % 4 = 0 THEN decode_with_standard(s) ELSE decode_with_no_pad(s)
    IN  CASE s = <<>> -> Coded(TRUE, output)
          [] s # <<>> /\ pads # {} ->
                IF len > Len(s) THEN Coded(FALSE, output)
                ELSE IF ~first.ok THEN Coded(FALSE, output)
                ELSE DecodeStream(SubSeq(s, len + 1, Len(s)), output \o first.out)
          [] OTHER -> IF last.ok THEN Coded(TRUE, output \o last.out) ELSE Coded(FALSE, output)

\* only without padding does an error take back what was written
Base64_decode(s, use_padding, output) ==
    IF use_padding THEN DecodeStream(s, output)
    ELSE LET r == decode_with_no_pad(s) IN IF r.ok THEN Coded(TRUE, output \o r.out) ELSE Coded(FALSE, output)

-----------------------------------------------------------------------------
\* symbols of a base 32 group that end with a whole byte
VALID_REMAINDERS == {2, 4, 5, 7}

\* the end of a base 32 stream, of len symbols: how many are kept and padded to
\* eight, and whether some were dropped; nothing is done where padding was seen
pad_remainder(len, has_padding) ==
    LET fit == {n \in 1 .. len : n \in VALID_REMAINDERS}
    IN  IF len = 0 \/ has_padding \/ fit = {} THEN [some |-> FALSE, kept |-> 0, pads |-> 0, had_invalid_tail |-> FALSE]
        ELSE [some |-> TRUE, kept |-> Max(fit), pads |-> 8 - Max(fit), had_invalid_tail |-> Max(fit) # len]

-----------------------------------------------------------------------------
(***************************************************************************)
(* How the core utilities show names: literally, as C strings, or as words *)
(* a shell reads back (quoting_style). A name is a sequence of characters, *)
(* of which some are control characters, some take two bytes and one is a  *)
(* byte that is no character; what is shown is a sequence of bytes.        *)
(*   sq ' dq " bs \ sp nl, ct is \x01, eacute U+00E9, nel U+0085, bad \xff *)
(***************************************************************************)

BytesOf(c) == IF c = "eacute" THEN <<"c3", "a9">> ELSE IF c = "nel" THEN <<"c2", "x85">> ELSE <<c>>
NameBytes(name) == FlattenSeq([i \in DOMAIN name |-> BytesOf(name[i])])
HighBytes == {"c3", "a9", "c2", "x85", "bad"}
is_control(c) == c \in {"nl", "ct", "nel"}

\* escaped_char.rs: a byte in octal after a backslash
OctalDigitsOf == [ct |-> <<"0", "0", "1">>, nl |-> <<"0", "1", "2">>, c3 |-> <<"3", "0", "3">>, a9 |-> <<"2", "5", "1">>,
                  c2 |-> <<"3", "0", "2">>, x85 |-> <<"2", "0", "5">>, bad |-> <<"3", "7", "7">>]
EscapeOctal(bytes) == FlattenSeq([i \in DOMAIN bytes |-> <<"bs">> \o OctalDigitsOf[bytes[i]]])

\* what a character becomes: st is Char, Backslash, ForceQuote or Octal
Escape(st, c) == [st |-> st, c |-> c]
collect(e) ==
    CASE e.st \in {"Char", "ForceQuote"} -> BytesOf(e.c)
      [] e.st = "Backslash" -> <<"bs", e.c>>
      [] e.st = "Octal" -> EscapeOctal(BytesOf(e.c))

hide_control(e) == IF e.st = "Char" /\ is_control(e.c) THEN Escape("Char", "?") ELSE e

\* quotes is "none", "sq" or "dq"
new_c(c, quotes, dirname) ==
    CASE c = "nl" -> Escape("Backslash", "n")
      [] c = "bs" \/ c = quotes \/ (c = "sp" /\ ~dirname /\ quotes = "none") \/ (c = ":" /\ dirname) -> Escape("Backslash", c)
      [] OTHER -> IF is_control(c) THEN Escape("Octal", c) ELSE Escape("Char", c)

SPECIAL_SHELL_CHARS == {"$", "*", "bs", "sq", "dq", "sp"}
new_shell(c, escape, quotes) ==
    CASE ~escape /\ is_control(c) -> Escape("Char", c)
      [] escape /\ c = "nl" -> Escape("Backslash", "n")
      [] c = "sq" -> IF quotes = "sq" THEN Escape("Backslash", c) ELSE Escape("Char", c)
      [] escape /\ is_control(c) /\ c # "nl" -> Escape("Octal", c)
      [] OTHER -> IF c \in SPECIAL_SHELL_CHARS THEN Escape("ForceQuote", c) ELSE Escape("Char", c)

-----------------------------------------------------------------------------
\* shell_quoter.rs. s is the quoter: its buffer, whether the name must be
\* quoted, and whether a $'...' is open.

shell_escaped_char_set(dirname) == {"dq", "$", "bs", "nl", "="} \cup (IF dirname THEN {":"} ELSE {})

initial_quoting(input, dirname, always, checkControl) ==
    LET bytes == Range(input)
        special == bytes \cap shell_escaped_char_set(dirname) # {} \/ (checkControl /\ bytes \cap {"nl", "ct"} # {})
    IN  CASE special -> [quotes |-> "sq", must |-> TRUE]
          [] ~special /\ "sq" \in bytes -> [quotes |-> "dq", must |-> TRUE]
          [] OTHER -> [quotes |-> "sq", must |-> always \/ input = <<>>]

enter_dollar(s) == IF s.dollar THEN s ELSE [s EXCEPT !.buf = @ \o <<"sq", "$", "sq">>, !.dollar = TRUE]

exit_dollar(s) == IF s.dollar THEN [s EXCEPT !.buf = @ \o <<"sq", "sq">>, !.dollar = FALSE] ELSE s

Put(s, bytes, must) == [s EXCEPT !.buf = @ \o bytes, !.must = @ \/ must]
QuotedQuote == <<"sq", "bs", "sq", "sq">>

EscapedPush(s, p, quotes) ==
    LET Push(e) ==
            CASE e.st \in {"Char", "ForceQuote"} -> Put(exit_dollar(s), BytesOf(e.c), e.st = "ForceQuote")
              [] e = Escape("Backslash", "sq") -> Put([s EXCEPT !.dollar = FALSE], QuotedQuote, TRUE)
              [] OTHER -> Put(enter_dollar(s), collect(e), TRUE)
    IN  IF p.valid THEN Push(new_shell(p.c, TRUE, quotes)) ELSE Put(enter_dollar(s), EscapeOctal(<<p.c>>), TRUE)

NonEscapedPush(s, p, quotes, showControl) ==
    LET Push(e) == IF e = Escape("Backslash", "sq") THEN Put(s, QuotedQuote, FALSE) ELSE Put(s, collect(e), e.st = "ForceQuote")
        Shown(e) == Push(IF showControl THEN e ELSE hide_control(e))
    IN  IF p.valid THEN Shown(new_shell(p.c, FALSE, quotes)) ELSE Put(s, IF showControl THEN <<p.c>> ELSE <<"?">>, FALSE)

StartsSpecial(reference) == reference # <<>> /\ reference[1] \in {"~", "#"}

finalize_shell_quoter(buf, reference, must, quotes) ==
    IF must \/ StartsSpecial(reference) THEN <<quotes>> \o buf \o <<quotes>> ELSE buf

-----------------------------------------------------------------------------
\* mod.rs. The pieces of a name in an encoding: characters, or bytes that are
\* none. In ASCII every high byte is one of those.

PiecesOf(name, encoding) ==
    IF encoding = "Utf8" THEN [i \in DOMAIN name |-> [c |-> name[i], valid |-> name[i] # "bad"]]
    ELSE [i \in DOMAIN NameBytes(name) |-> [c |-> NameBytes(name)[i], valid |-> NameBytes(name)[i] \notin HighBytes]]

LiteralPush(p) == IF p.valid THEN BytesOf(hide_control(Escape("Char", p.c)).c) ELSE <<"?">>

\* c_quoter.rs
CPush(p, quotes, dirname) == IF p.valid THEN collect(hide_control(new_c(p.c, quotes, dirname))) ELSE EscapeOctal(<<p.c>>)
CQuoter(pieces, quotes, dirname) ==
    LET quote == IF quotes = "none" THEN <<>> ELSE <<quotes>>
    IN  quote \o FlattenSeq([i \in DOMAIN pieces |-> CPush(pieces[i], quotes, dirname)]) \o quote

\* style: kind ("literal", "c", "shell"), show, quotes, escape, always
LiteralQuoter(pieces, bytes, show) == IF show THEN bytes ELSE FlattenSeq([i \in DOMAIN pieces |-> LiteralPush(pieces[i])])
ShellQuoter(pieces, bytes, style, start) ==
    LET Push(s, p) == IF style.escape THEN EscapedPush(s, p, start.quotes) ELSE NonEscapedPush(s, p, start.quotes, style.show)
        Finished(end) == finalize_shell_quoter(end.buf, bytes, end.must, start.quotes)
    IN  Finished(FoldLeft(Push, [buf |-> <<>>, must |-> start.must, dollar |-> FALSE], pieces))
escape_name_inner(name, style, dirname, encoding) ==
    LET Quoted(pieces, bytes) ==
            CASE style.kind = "literal" -> LiteralQuoter(pieces, bytes, style.show)
              [] style.kind = "c" -> CQuoter(pieces, style.quotes, dirname)
              [] style.kind = "shell" -> ShellQuoter(pieces, bytes, style, initial_quoting(bytes, dirname, style.always, style.escape))
    IN  Quoted(PiecesOf(name, encoding), NameBytes(name))
=============================================================================
