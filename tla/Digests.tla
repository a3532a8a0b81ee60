------------------------------- MODULE Digests ------------------------------
(***************************************************************************)
(* Checksum lines: how cksum and the *sum tools write them, and how they   *)
(* read them back and check the files they name (checksum/mod.rs,          *)
(* compute.rs, validate.rs, sum.rs). A line is a sequence of characters; a *)
(* name of an algorithm and a number of bits are one character each. The   *)
(* lengths of digests are scaled down: 224, 256, 384 and 512 bits are 16,  *)
(* 24, 32 and 40 here.                                                     *)
(***************************************************************************)
EXTENDS Integers, Sequences, SequencesExt, FiniteSetsExt

CONSTANT SumBits   \* the bits of a sysv or bsd sum: 16

ASSUME DigestsAssumption == SumBits \in Nat \ {0}

HexFigures == <<"0", "1", "2", "3", "4", "5", "6", "7", "8", "9", "a", "b", "c", "d", "e", "f">>
Upper == <<"A", "B", "C", "D", "E", "F", "G", "H", "I", "J", "K", "L", "M", "N", "O", "P", "Q", "R", "S", "T", "U", "V", "W", "X", "Y", "Z">>
Lower == <<"a", "b", "c", "d", "e", "f", "g", "h", "i", "j", "k", "l", "m", "n", "o", "p", "q", "r", "s", "t", "u", "v", "w", "x", "y", "z">>
Alphabet64 == Upper \o Lower \o SubSeq(HexFigures, 1, 10) \o <<"+", "/">>
At(seq, c) == SelectInSeq(seq, LAMBDA x : x = c) - 1
From(s, n) == SubSeq(s, n, Len(s))
Find(s, c) == SelectInSeq(s, LAMBDA x : x = c)

\* hex::encode and BASE64.encode of a sequence of bytes
to_hex(bytes) == FlattenSeq([i \in DOMAIN bytes |-> <<HexFigures[(bytes[i] \div 16) + 1], HexFigures[(bytes[i] % 16) + 1]>>])
Group64(b) ==
    LET At3(i) == IF i <= Len(b) THEN b[i] ELSE 0
        n == At3(1) * 65536 + At3(2) * 256 + At3(3)
        c == <<n \div 262144, (n \div 4096) % 64, (n \div 64) % 64, n % 64>>
    IN  [i \in 1 .. 4 |-> IF i > Len(b) + 1 THEN "=" ELSE Alphabet64[c[i] + 1]]
to_base64(bytes) == FlattenSeq([g \in 1 .. (Len(bytes) + 2) \div 3 |-> Group64(SubSeq(bytes, 3 * g - 2, Min({3 * g, Len(bytes)})))])

IsHex(s) == Len(s) % 2 = 0 /\ \A i \in DOMAIN s : s[i] \in Range(HexFigures) \cup {"A", "B", "C", "D", "E", "F"}
HexValue(c) == IF c \in Range(HexFigures) THEN At(HexFigures, c) ELSE 10 + At(Upper, c)
hex_decode(s) == [i \in 1 .. Len(s) \div 2 |-> 16 * HexValue(s[2 * i - 1]) + HexValue(s[2 * i])]
Is64(s) == LET core == SelectSeq(s, LAMBDA c : c # "=") IN Len(core) % 4 # 1 /\ Len(s) - Len(core) <= 2 /\ \A i \in DOMAIN core : core[i] = s[i] /\ core[i] \in Range(Alphabet64)
base64_decode(s) ==
    LET core == SelectSeq(s, LAMBDA c : c # "=")
        size == (Len(core) * 6) \div 8
        Six(i) == IF i <= Len(core) THEN At(Alphabet64, core[i]) ELSE 0
        Word(g) == Six(4 * g + 1) * 262144 + Six(4 * g + 2) * 4096 + Six(4 * g + 3) * 64 + Six(4 * g + 4)
        Byte(i) == LET n == Word((i - 1) \div 3) IN CASE i % 3 = 1 -> n \div 65536 [] i % 3 = 2 -> (n \div 256) % 256 [] i % 3 = 0 -> n % 256
    IN  [i \in 1 .. size |-> Byte(i)]

-----------------------------------------------------------------------------
\* mod.rs: algorithms, with the bytes of their digests

ShaLength == [sha224 |-> 16, sha256 |-> 24, sha384 |-> 32, sha512 |-> 40]
ShaBits == Range(ShaLength)
MaxBits == 40
FixedBytes == [md5 |-> 2, sm3 |-> 4, sha1 |-> 3, blake3 |-> 4, crc |-> 4, crc32b |-> 4, sysv |-> 2, bsd |-> 2]
Legacy == {"sysv", "bsd", "crc", "crc32b"}
Tags == [MD5 |-> "md5", SM3 |-> "sm3", SHA1 |-> "sha1", SHA2 |-> "sha2", SHA3 |-> "sha3", BLAKE2b |-> "blake2b", SHA224 |-> "sha224", SHA256 |-> "sha256",
         SHA384 |-> "sha384", SHA512 |-> "sha512", SHAKE128 |-> "shake128", SHAKE256 |-> "shake256", BLAKE3 |-> "blake3", CRC |-> "crc", SYSV |-> "sysv", BSD |-> "bsd"]
\* from_cksum of a name in lower case
FromCksum == {"md5", "sm3", "sha1", "sha2", "sha3", "blake2b", "shake128", "shake256"} \cup DOMAIN ShaLength \cup Legacy
TagOf(kind) == CHOOSE t \in DOMAIN Tags : Tags[t] = kind
Numbers == ("8" :> 8) @@ ("12" :> 12) @@ ("16" :> 16) @@ ("24" :> 24) @@ ("32" :> 32) @@ ("40" :> 40) @@ ("48" :> 48)
NumberOf(n) == CHOOSE t \in DOMAIN Numbers : Numbers[t] = n

\* a length of -1 is none
Sized(kind, len) == [kind |-> kind, len |-> len]
UError == Sized("error", -1)

calculate_blake2b_length(bits) ==
    CASE bits > MaxBits \/ bits % 8 # 0 -> UError
      [] bits \in {0, MaxBits} -> Sized("blake2b", -1)
      [] OTHER -> Sized("blake2b", bits \div 8)

\* SizedAlgoKind::from_unsized
from_unsized(kind, len) ==
    CASE kind \in (DOMAIN FixedBytes \cup DOMAIN ShaLength) -> IF len # -1 THEN UError ELSE IF kind \in DOMAIN ShaLength THEN Sized("sha2", ShaLength[kind]) ELSE Sized(kind, -1)
      [] kind \in {"shake128", "shake256"} -> Sized(kind, len)
      [] kind \in {"sha2", "sha3"} -> IF len \in ShaBits THEN Sized(kind, len) ELSE UError
      [] kind = "blake2b" -> IF len = -1 THEN Sized(kind, -1) ELSE calculate_blake2b_length(8 * len)

to_tag(a) ==
    CASE a.kind = "sha2" -> <<TagOf(CHOOSE k \in DOMAIN ShaLength : ShaLength[k] = a.len)>>
      [] a.kind = "sha3" -> <<"SHA3", "-", NumberOf(a.len)>>
      [] a.kind = "blake2b" /\ a.len # -1 -> <<"BLAKE2b", "-", NumberOf(8 * a.len)>>
      [] OTHER -> <<TagOf(a.kind)>>

\* output_bytes; create_digest, reset and the digests themselves are the
\* libraries': a digest is some bytes made of the contents
output_bytes(a) ==
    CASE a.kind \in {"sha2", "sha3"} -> a.len \div 8
      [] a.kind = "blake2b" -> IF a.len = -1 THEN MaxBits \div 8 ELSE a.len
      [] a.kind \in {"shake128", "shake256"} -> IF a.len = -1 THEN 2 ELSE (a.len + 7) \div 8
      [] OTHER -> FixedBytes[a.kind]
digest_reader(content, a) == [i \in 1 .. output_bytes(a) |-> (content * i * 7 + i) % 256]

\* sum.rs: the sums of sysv (a u32 folded to 16 bits) and of bsd (rotated)
Folded(x) == (x % 2^SumBits) + (x \div 2^SumBits)

sysv_result(state) == Folded(Folded(state)) % 2^SumBits
bsd_update(state, byte) == ((state \div 2) + (state % 2) * 2^(SumBits - 1) + byte) % 2^SumBits

Escapes(name) ==
    FlattenSeq([i \in DOMAIN name |-> CASE name[i] = "bs" -> <<"bs", "bs">> [] name[i] = "NL" -> <<"bs", "n">> [] name[i] = "CR" -> <<"bs", "r">> [] OTHER -> <<name[i]>>])
escape_filename(name) == [name |-> Escapes(name), prefix |-> IF Escapes(name) = name THEN <<>> ELSE <<"bs">>]

RECURSIVE unescape_filename(_)
unescape_filename(s) ==
    CASE s = <<>> -> <<>>
      [] s # <<>> /\ s[1] # "bs" -> <<s[1]>> \o unescape_filename(Tail(s))
      [] s = <<"bs">> -> <<>>
      [] OTHER -> (CASE s[2] = "bs" -> <<"bs">> [] s[2] = "n" -> <<"NL">> [] s[2] = "r" -> <<"CR">> [] OTHER -> <<"bs", s[2]>>) \o unescape_filename(From(s, 3))

-----------------------------------------------------------------------------
\* compute.rs. A format is [k |-> "raw" | "legacy" | "tagged" | "untagged",
\* base64, binary].

OutputFormat(k, base64, binary) == [k |-> k, base64 |-> base64, binary |-> binary]
from_cksum(kind, tag, binary, raw, base64) ==
    IF raw THEN OutputFormat("raw", FALSE, FALSE)
    ELSE IF kind \in Legacy THEN OutputFormat("legacy", FALSE, FALSE)
    ELSE IF tag THEN OutputFormat("tagged", base64, FALSE) ELSE OutputFormat("untagged", base64, binary)

print_checksum(a, format, name, bytes) ==
    LET e == escape_filename(name)
        sum == IF format.base64 THEN to_base64(bytes) ELSE to_hex(bytes)
    IN  CASE format.k = "raw" -> bytes
          [] format.k = "legacy" -> e.prefix \o <<a.kind>> \o (IF e.name = <<"-">> THEN <<>> ELSE <<" ">> \o e.name)
          [] format.k = "tagged" -> e.prefix \o to_tag(a) \o <<" ", "(">> \o e.name \o <<")", " ", "=", " ">> \o sum
          [] format.k = "untagged" -> e.prefix \o sum \o <<" ", IF format.binary THEN "*" ELSE " ">> \o e.name

ErrorShown(s) == [s EXCEPT !.code = 1]

\* fs is a function from names to [k |-> "file" | "dir" | "missing" | "unread", c |-> content]
perform_checksum_computation(a, format, names, fs) ==
    LET Step(s, i) ==
            LET f == fs[names[i]] IN
            CASE s.done -> s
              [] ~s.done /\ format.k = "raw" /\ i < Len(names) -> [s EXCEPT !.done = TRUE, !.code = 1]
              [] ~s.done /\ ~(format.k = "raw" /\ i < Len(names)) /\ f.k \in {"dir", "missing"} -> ErrorShown(s)
              [] ~s.done /\ ~(format.k = "raw" /\ i < Len(names)) /\ f.k = "unread" -> [s EXCEPT !.done = TRUE, !.code = 1]
              [] OTHER -> [s EXCEPT !.out = Append(@, print_checksum(a, format, names[i], digest_reader(f.c, a)))]
    IN  FoldLeft(Step, [done |-> FALSE, code |-> 0, out |-> <<>>], [i \in DOMAIN names |-> i])

-----------------------------------------------------------------------------
(***************************************************************************)
(* Reading checksum lines and checking the files they name                 *)
(* (checksum/validate.rs).                                                 *)
(***************************************************************************)

NoLine == [ok |-> FALSE, algo |-> "", bits |-> -1, checksum |-> <<>>, filename |-> <<>>, format |-> ""]
LineInfo(algo, bits, checksum, filename, format) == [ok |-> TRUE, algo |-> algo, bits |-> bits, checksum |-> checksum, filename |-> filename, format |-> format]

\* letters and digits, + and / (base64), and at the end one to three =
validate_checksum_format(s) ==
    LET stop == Find(s, "=")
        body == IF stop = 0 THEN s ELSE SubSeq(s, 1, stop - 1)
        base64 == stop # 0 \/ \E i \in DOMAIN body : body[i] \in {"+", "/"}
    IN  /\ s # <<>> /\ Range(body) \subseteq Range(Alphabet64)
        /\ stop # 0 => Len(s) - Len(body) <= 3 /\ \A i \in stop .. Len(s) : s[i] = "="
        /\ base64 => Len(s) % 4 = 0

rsplit_once(s, pattern) ==
    LET P == {i \in 1 .. Len(s) - Len(pattern) + 1 : SubSeq(s, i, i + Len(pattern) - 1) = pattern}
    IN  IF P = {} THEN [ok |-> FALSE, l |-> <<>>, r |-> <<>>] ELSE [ok |-> TRUE, l |-> SubSeq(s, 1, Max(P) - 1), r |-> From(s, Max(P) + Len(pattern))]

UpperOrDigit == Range(Upper) \cup Range(SubSeq(HexFigures, 1, 10)) \cup (DOMAIN Tags \ {"BLAKE2b"}) \cup DOMAIN Numbers

\* rest[par_idx - 1] is read whatever par_idx: a line that starts with ( panics
Panics(line) ==
    LET trimmed == From(line, SelectInSeq(line, LAMBDA c : c # " "))
    IN  line # <<>> /\ Range(line) # {" "} /\ LET rest == IF trimmed[1] = "bs" THEN Tail(trimmed) ELSE trimmed IN rest # <<>> /\ rest[1] = "("

\* the parts of a tagged line, taken off one after the other
AlgoLine(algo, bits, split) ==
    IF ~(algo = <<"BLAKE2b">> \/ Range(algo) \subseteq UpperOrDigit) \/ ~split.ok \/ ~validate_checksum_format(split.r) THEN NoLine
    ELSE LineInfo(IF Len(algo) = 1 THEN algo[1] ELSE "", bits, split.r, split.l, "AlgoBased")
AlgoBits(text) == IF Len(text) = 1 /\ text[1] \in DOMAIN Numbers THEN Numbers[text[1]] ELSE -1
AlgoParts(text, dash, split) ==
    IF dash = 0 THEN AlgoLine(text, -1, split) ELSE AlgoLine(SubSeq(text, 1, dash - 1), AlgoBits(From(text, dash + 1)), split)
AlgoSubstring(text, split) == AlgoParts(text, Find(text, "-"), split)
AlgoParenthesis(rest, par) ==
    IF par < 2 THEN NoLine
    ELSE IF rest[par - 1] = " " THEN AlgoSubstring(SubSeq(rest, 1, par - 2), rsplit_once(From(rest, par + 1), <<")", " ", "=", " ">>))
    ELSE AlgoSubstring(SubSeq(rest, 1, par - 1), rsplit_once(From(rest, par + 1), <<")", "=", " ">>))
AlgoRest(rest) == AlgoParenthesis(rest, Find(rest, "("))
AlgoTrimmed(trimmed) == AlgoRest(IF trimmed # <<>> /\ trimmed[1] = "bs" THEN Tail(trimmed) ELSE trimmed)
parse_algo_based(line) ==
    LET first == SelectInSeq(line, LAMBDA c : c # " ") IN AlgoTrimmed(IF first = 0 THEN <<>> ELSE From(line, first))

parse_untagged(line) ==
    LET space == Find(line, " ")
        checksum == SubSeq(line, 1, space - 1)
    IN  IF space = 0 \/ ~validate_checksum_format(checksum) \/ space = Len(line) \/ line[space + 1] \notin {" ", "*"} THEN NoLine
        ELSE LineInfo("", -1, checksum, From(line, space + 2), "Untagged")

parse_single_space(line) ==
    LET space == Find(line, " ")
        checksum == SubSeq(line, 1, space - 1)
    IN  IF space < 2 \/ ~(\A i \in DOMAIN checksum : IsHex(<<checksum[i], checksum[i]>>)) THEN NoLine
        ELSE LineInfo("", -1, checksum, From(line, space + 1), "SingleSpace")

\* the first line without an algorithm fixes the format of the others
CachedFormat(line, cached) ==
    LET Either(info) == IF info.ok \/ cached = "Untagged" THEN info ELSE parse_single_space(line)
    IN  IF cached = "SingleSpace" THEN parse_single_space(line) ELSE Either(parse_untagged(line))

\* LineInfo::parse: [info, cached]
ParsedLine(a, b, cached) == IF a.ok THEN [info |-> a, cached |-> cached] ELSE [info |-> b, cached |-> IF cached = "" THEN b.format ELSE cached]
parse_line(line, cached) == ParsedLine(parse_algo_based(line), CachedFormat(line, cached), cached)

\* the bytes a checksum stands for; a hint of -1 is none
NoBytes == <<-1>>
get_raw_expected_digest(s, hint) ==
    LET Base64(bytes) == IF Len(s) % 4 # 0 \/ ~Is64(s) \/ hint \notin {-1, Len(bytes)} THEN NoBytes ELSE bytes
    IN  CASE Len(s) % 2 # 0 -> NoBytes
          [] Len(s) % 2 = 0 /\ hint \in {-1, Len(s) \div 2} /\ IsHex(s) -> hex_decode(s)
          [] OTHER -> Base64(base64_decode(s))

\* identify_algo_name_and_length: BLAKE2b in bytes, SHA-2 and SHA-3 in bits
identify_algo_name_and_length(info, cli) ==
    LET kind == IF info.algo \in DOMAIN Tags THEN Tags[info.algo] ELSE ""
        agrees == cli = "" \/ cli = kind \/ (cli = "sha2" /\ kind \in DOMAIN ShaLength)
    IN  CASE kind \notin FromCksum \/ ~agrees -> UError
          [] kind \in FromCksum /\ agrees /\ info.bits = -1 -> Sized(kind, IF kind = "blake2b" THEN MaxBits \div 8 ELSE -1)
          [] OTHER -> CASE kind = "blake2b" /\ info.bits % 8 = 0 -> Sized(kind, info.bits \div 8)
                        [] kind \in {"sha2", "sha3"} /\ info.bits \in ShaBits -> Sized(kind, info.bits)
                        [] OTHER -> UError

\* [r, shown]: shown when an error was reported, which sets the exit status
Outcome(r, shown) == [r |-> r, shown |-> shown]
OnDisk(fs, name) == IF name \in DOMAIN fs THEN fs[name] ELSE [k |-> "missing", c |-> 0]
compute_and_check(filename, expected, a, opts, fs) ==
    LET f == OnDisk(fs, unescape_filename(filename)) IN
    CASE f.k = "missing" -> Outcome("notfound", ~opts.ignore_missing)
      [] f.k = "dir" -> Outcome("isdir", TRUE)
      [] f.k = "unread" -> Outcome("cantopen", TRUE)
      [] f.k = "file" -> Outcome(IF digest_reader(f.c, a) = expected THEN "ok" ELSE "mismatch", FALSE)

\* bytes: the digest that is expected; a: the algorithm and its length
Expected(filename, bytes, a, opts, fs) ==
    IF bytes = NoBytes THEN Outcome("bad", FALSE) ELSE IF a = UError THEN Outcome("uerror", FALSE) ELSE compute_and_check(filename, bytes, a, opts, fs)

Identified(info, id, opts, fs) ==
    IF id = UError THEN Outcome("bad", FALSE)
    ELSE Expected(info.filename, get_raw_expected_digest(info.checksum, IF id.kind = "blake2b" THEN id.len ELSE -1), from_unsized(id.kind, id.len), opts, fs)
process_algo_based_line(info, cli, opts, fs) == Identified(info, identify_algo_name_and_length(info, cli), opts, fs)

AlgoFor(cli, len, bytes) ==
    from_unsized(cli, CASE cli = "blake2b" -> Len(bytes) [] cli \in {"sha2", "sha3"} -> 8 * Len(bytes) [] OTHER -> len)
NonAlgo(filename, bytes, cli, len, opts, fs) == Expected(filename, bytes, AlgoFor(cli, len, bytes), opts, fs)
process_non_algo_based_line(i, info, cli, len, opts, fs) ==
    LET starred == info.filename # <<>> /\ info.filename[1] = "*" /\ i = 1 /\ info.format = "SingleSpace"
    IN  NonAlgo(IF starred THEN Tail(info.filename) ELSE info.filename, get_raw_expected_digest(info.checksum, -1), cli, len, opts, fs)

\* [out, cached]
LineOutcome(info, i, cli, len, opts, fs) ==
    CASE ~info.ok -> Outcome("bad", FALSE)
      [] info.ok /\ info.format = "AlgoBased" -> process_algo_based_line(info, cli, opts, fs)
      [] info.ok /\ info.format # "AlgoBased" -> IF cli = "" THEN Outcome("bad", FALSE) ELSE process_non_algo_based_line(i, info, cli, len, opts, fs)
LineChecked(p, i, cli, len, opts, fs) == [out |-> LineOutcome(p.info, i, cli, len, opts, fs), cached |-> p.cached]
process_checksum_line(line, i, cli, len, opts, cached, fs) ==
    IF line = <<>> \/ line[1] = "#" THEN [out |-> Outcome("skipped", FALSE), cached |-> cached]
    ELSE IF Panics(line) THEN [out |-> Outcome("panic", FALSE), cached |-> cached]
    ELSE LineChecked(parse_line(line, cached), i, cli, len, opts, fs)

Count(res, S) == Cardinality({i \in DOMAIN res : res[i] \in S})

\* the verdict on a list: res are the results of its lines
ListFails(res, opts) ==
    LET total == Count(res, {"ok", "mismatch", "bad", "notfound", "isdir", "cantopen"})
        unopened == Count(res, IF opts.ignore_missing THEN {"isdir", "cantopen"} ELSE {"isdir", "cantopen", "notfound"})
    IN  \/ total = Count(res, {"bad"})
        \/ opts.ignore_missing /\ Count(res, {"ok"}) = 0
        \/ opts.strict /\ Count(res, {"bad"}) > 0
        \/ unopened > 0 /\ ~opts.ignore_missing
        \/ Count(res, {"mismatch"}) > 0

AfterLine(s, r) ==
    IF s.ended # "" THEN s
    ELSE [res |-> Append(s.res, r.out.r), cached |-> r.cached, shown |-> s.shown \/ r.out.shown, ended |-> IF r.out.r \in {"uerror", "panic"} THEN r.out.r ELSE ""]
ListVerdict(s, opts) ==
    [res |-> s.res, shown |-> s.shown, verdict |-> IF s.ended # "" THEN s.ended ELSE IF ListFails(s.res, opts) THEN "failed" ELSE "ok"]

\* [verdict, shown, res]: verdict is ok, failed, or uerror or panic, which end it
process_checksum_file(lines, cli, len, opts, fs) ==
    ListVerdict(FoldLeft(LAMBDA s, i : AfterLine(s, process_checksum_line(lines[i], i, cli, len, opts, s.cached, fs)),
                         [res |-> <<>>, cached |-> "", shown |-> FALSE, ended |-> ""], [i \in DOMAIN lines |-> i]), opts)

AfterList(s, opens, r) ==
    CASE s.ended -> s
      [] ~s.ended /\ ~opens -> [s EXCEPT !.code = 1, !.seen = @ + 1]
      [] OTHER -> [code |-> IF r.verdict # "ok" \/ r.shown THEN 1 ELSE s.code, ended |-> r.verdict \in {"uerror", "panic"}, seen |-> s.seen + 1]

\* each list in turn; one that cannot be opened has no lines here and fails
perform_checksum_validation(lists, cli, len, opts, fs) ==
    FoldLeft(LAMBDA s, l : AfterList(s, l.opens, process_checksum_file(l.lines, cli, len, opts, fs)), [code |-> 0, ended |-> FALSE, seen |-> 0], lists)
=============================================================================
