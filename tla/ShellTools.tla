----------------------------- MODULE ShellTools -----------------------------
(***************************************************************************)
(* The small commands of the VM that run or decide about other commands:   *)
(* xargs, env, nice, nohup, stdbuf, test, expr, and the key loop of the    *)
(* codex terminal. Each is a function of its arguments and its input.      *)
(* Arguments are tokens; Number and Attached say what parsing a token      *)
(* yields.                                                                 *)
(***************************************************************************)
EXTENDS Integers, Sequences, FiniteSets, SequencesExt

CONSTANTS Bits   \* width of the integers of expr (64 in the code)

ASSUME BitsAssumption == Bits \in Nat \ {0}

\* parse::<usize> and parse::<i64> on the tokens of the model; -1 is an error.
Number(t) == CASE t = "0" -> 0 [] t = "1" -> 1 [] t = "2" -> 2 [] t = "3" -> 3 [] OTHER -> -1

\* what strip_prefix leaves of -nN and -IR
Attached(t) == CASE t = "-n2" -> <<"n", "2">> [] t = "--max-args=2" -> <<"n", "2">>
                 [] t = "-nx" -> <<"n", "x">> [] t = "-I{}" -> <<"I", "{}">>
                 [] OTHER -> <<"", "">>

-----------------------------------------------------------------------------
\* xargs

\* one character of a line: quote is in_single or in_double
QuotedChar(s, ch) ==
    IF s.escape THEN [s EXCEPT !.cur = Append(@, ch), !.escape = FALSE, !.content = TRUE]
    ELSE IF s.quote = "'" THEN IF ch = "'" THEN [s EXCEPT !.quote = ""] ELSE [s EXCEPT !.cur = Append(@, ch)]
    ELSE IF s.quote = "\"" THEN
         CASE ch = "\\" -> [s EXCEPT !.escape = TRUE]
           [] ch = "\"" -> [s EXCEPT !.quote = ""]
           [] OTHER -> [s EXCEPT !.cur = Append(@, ch)]
    ELSE CASE ch = "\\" -> [s EXCEPT !.escape = TRUE, !.content = TRUE]
           [] ch \in {"'", "\""} -> [s EXCEPT !.quote = ch, !.content = TRUE]
           [] ch = " " -> IF s.content THEN [s EXCEPT !.items = Append(@, s.cur), !.cur = <<>>, !.content = FALSE] ELSE s
           [] OTHER -> [s EXCEPT !.cur = Append(@, ch), !.content = TRUE]

parse_quoted_args(line) ==
    LET start == [items |-> <<>>, cur |-> <<>>, quote |-> "", escape |-> FALSE, content |-> FALSE]
        s == FoldLeft(QuotedChar, start, line)
    IN  IF s.content THEN Append(s.items, s.cur) ELSE s.items

read_whitespace_delimited(lines) == FlattenSeq([i \in DOMAIN lines |-> parse_quoted_args(lines[i])])

\* The options in front of the command; cmd is the command with its own
\* arguments, <<>> when there is none.
RECURSIVE XargsOptions(_, _)
XargsOptions(a, o) ==
    LET h == Head(a)
        SetMax(t, rest) == IF Number(t) > 0 THEN XargsOptions(rest, [o EXCEPT !.max = Number(t)])
                           ELSE [o EXCEPT !.bad = TRUE]
    IN  IF a = <<>> THEN o
        ELSE CASE h \in {"-0", "--null"} -> XargsOptions(Tail(a), [o EXCEPT !.null = TRUE])
               [] h \in {"-t", "--verbose"} -> XargsOptions(Tail(a), o)
               [] h \in {"-r", "--no-run-if-empty"} -> XargsOptions(Tail(a), [o EXCEPT !.skip = TRUE])
               [] h \in {"-n", "--max-args"} ->
                    IF Len(a) < 2 THEN [o EXCEPT !.bad = TRUE] ELSE SetMax(a[2], SubSeq(a, 3, Len(a)))
               [] h = "-I" -> IF Len(a) < 2 THEN [o EXCEPT !.bad = TRUE]
                              ELSE XargsOptions(SubSeq(a, 3, Len(a)), [o EXCEPT !.repl = a[2]])
               [] Attached(h)[1] = "n" -> SetMax(Attached(h)[2], Tail(a))
               [] Attached(h)[1] = "I" -> XargsOptions(Tail(a), [o EXCEPT !.repl = Attached(h)[2]])
               [] OTHER -> [o EXCEPT !.cmd = a]

xargs_options(a) ==
    XargsOptions(a, [null |-> FALSE, max |-> 0, repl |-> "", skip |-> FALSE, bad |-> FALSE, cmd |-> <<>>])

Batches(s, n) ==
    [i \in 1 .. (Len(s) + n - 1) \div n |-> SubSeq(s, (i - 1) * n + 1, IF i * n < Len(s) THEN i * n ELSE Len(s))]

\* the commands xargs runs, in order
xargs_runs(o, items) ==
    LET cmd == IF o.cmd = <<>> THEN <<"echo">> ELSE o.cmd
        size == IF o.max > 0 THEN o.max ELSE IF items = <<>> THEN 1 ELSE Len(items)
        chunks == Batches(items, size)
    IN  IF o.bad \/ (items = <<>> /\ o.skip) THEN <<>>
        ELSE IF o.repl # ""
        THEN [i \in DOMAIN items |->
                 <<cmd[1]>> \o [j \in 1 .. Len(cmd) - 1 |-> IF cmd[j + 1] = o.repl THEN items[i] ELSE cmd[j + 1]]]
        ELSE IF items = <<>> THEN <<cmd>>
        ELSE [i \in DOMAIN chunks |-> cmd \o chunks[i]]

\* codes are what run_command returns for the runs
xargs_status(codes) == FoldLeft(LAMBDA acc, c : IF c # 0 THEN c ELSE acc, 0, codes)

-----------------------------------------------------------------------------
\* env: an assignment VAR=VALUE is the token <<VAR, VALUE>> of Assignment

Assignment(t) == CASE t = "A=1" -> <<"A", "1">> [] t = "A=2" -> <<"A", "2">> [] t = "B=1" -> <<"B", "1">>
                   [] OTHER -> <<>>

RECURSIVE EnvOptions(_, _)
EnvOptions(a, o) ==
    LET h == Head(a) IN
    IF a = <<>> THEN o
    ELSE CASE h = "-i" -> EnvOptions(Tail(a), [o EXCEPT !.ignore = TRUE])
           [] h = "-u" -> IF Len(a) < 2 THEN [o EXCEPT !.bad = TRUE]
                          ELSE EnvOptions(SubSeq(a, 3, Len(a)), [o EXCEPT !.unset = @ \cup {a[2]}])
           [] Assignment(h) # <<>> -> EnvOptions(Tail(a), [o EXCEPT !.set = Append(@, Assignment(h))])
           [] OTHER -> [o EXCEPT !.cmd = a]

env_options(a) == EnvOptions(a, [ignore |-> FALSE, unset |-> {}, set |-> <<>>, bad |-> FALSE, cmd |-> <<>>])

\* what env prints when no command is given, as pairs in order
env_listing(o, inherited) ==
    (IF o.ignore THEN <<>> ELSE SelectSeq(inherited, LAMBDA p : p[1] \notin o.unset)) \o o.set

\* the environment of the command: env_clear, then env_remove, then env
RECURSIVE Assign(_, _)
Assign(e, pairs) ==
    IF pairs = <<>> THEN e
    ELSE LET p == Head(pairs) IN
         Assign([v \in DOMAIN e \cup {p[1]} |-> IF v = p[1] THEN p[2] ELSE e[v]], Tail(pairs))

NoEnv == [v \in {} |-> ""]

env_child(o, inherited) ==
    LET base == IF o.ignore THEN NoEnv ELSE Assign(NoEnv, inherited)
        kept == [v \in DOMAIN base \ o.unset |-> base[v]]
    IN  Assign(kept, o.set)

-----------------------------------------------------------------------------
\* nice, nohup, stdbuf: the command line they run, <<>> for none

IsOption(t) == t \in {"-i", "-o", "-e", "-oL", "-n", "-5", "--output"}

nice_command(a) ==
    LET start == IF Len(a) >= 2 /\ a[1] = "-n" THEN 2
                 ELSE IF a # <<>> /\ a[1] = "-5" THEN 1 ELSE 0
    IN  SubSeq(a, start + 1, Len(a))

nohup_command(a) == a

\* Only options: the search ends without a command and the first option is run.
stdbuf_command(a) ==
    LET start[i \in 1 .. Len(a) + 2] ==
            IF i > Len(a) THEN 1
            ELSE IF a[i] \in {"-i", "-o", "-e", "--output"} /\ i < Len(a) THEN start[i + 2]
            ELSE IF IsOption(a[i]) THEN start[i + 1]
            ELSE i
    IN  SubSeq(a, start[1], Len(a))

-----------------------------------------------------------------------------
\* test and [

\* std::fs::metadata on the names of the model
FileKind(name) == CASE name = "f" -> "file" [] name = "e" -> "empty" [] name = "d" -> "dir" [] OTHER -> "none"

Unary(op, x) == CASE op = "-n" -> x # ""
                  [] op = "-z" -> x = ""
                  [] op = "-f" -> FileKind(x) \in {"file", "empty"}
                  [] op = "-d" -> FileKind(x) = "dir"
                  [] op \in {"-e", "-r", "-w", "-x"} -> FileKind(x) # "none"
                  [] op = "-s" -> FileKind(x) \in {"file", "dir"}

\* a token that is no number is 0 for the order and unequal to every number
OrZero(t) == IF Number(t) = -1 THEN 0 ELSE Number(t)

Binary(x, op, y) == CASE op \in {"=", "=="} -> x = y
                      [] op = "!=" -> x # y
                      [] op = "-eq" -> Number(x) = Number(y)
                      [] op = "-ne" -> Number(x) # Number(y)
                      [] op = "-lt" -> OrZero(x) < OrZero(y)
                      [] op = "-le" -> OrZero(x) <= OrZero(y)
                      [] op = "-gt" -> OrZero(x) > OrZero(y)
                      [] op = "-ge" -> OrZero(x) >= OrZero(y)
                      [] OTHER -> FALSE

Before(a, i) == SubSeq(a, 1, i - 1)
After(a, i) == SubSeq(a, i + 1, Len(a))
FirstAt(a, t) == LET at == {i \in DOMAIN a : a[i] = t}
                 IN  IF at = {} THEN 0 ELSE CHOOSE i \in at : \A j \in at : i <= j

RECURSIVE eval_test(_)
eval_test(a) ==
    CASE Len(a) = 0 -> FALSE
      [] Len(a) = 1 -> a[1] # ""
      [] Len(a) = 2 -> IF a[1] \in {"-n", "-z", "-f", "-d", "-e", "-s", "-r", "-w", "-x"} THEN Unary(a[1], a[2])
                       ELSE IF a[1] = "!" THEN ~eval_test(Tail(a)) ELSE a[1] # ""
      [] Len(a) = 3 -> Binary(a[1], a[2], a[3])
      [] OTHER -> IF a[1] = "!" THEN ~eval_test(Tail(a))
                  ELSE IF FirstAt(a, "-a") # 0
                  THEN eval_test(Before(a, FirstAt(a, "-a"))) /\ eval_test(After(a, FirstAt(a, "-a")))
                  ELSE IF FirstAt(a, "-o") # 0
                  THEN eval_test(Before(a, FirstAt(a, "-o"))) \/ eval_test(After(a, FirstAt(a, "-o")))
                  ELSE FALSE

test_cmd(a) ==
    LET b == IF a # <<>> /\ a[Len(a)] = "]" THEN Front(a) ELSE a
    IN  IF b # <<>> /\ eval_test(b) THEN 0 ELSE 1

-----------------------------------------------------------------------------
\* expr: values are integers or words; rank orders the strings, an integer's
\* digits sorting between the empty string and the letters

IntValue(n) == [int |-> TRUE, n |-> n, rank |-> 1]
WordRank(t) == CASE t = "" -> 0 [] t = "a" -> 2 [] OTHER -> 3
StrValue(t) == [int |-> FALSE, n |-> 0, rank |-> WordRank(t)]

is_null(v) == IF v.int THEN v.n = 0 ELSE v.rank = 0

Lowest == -(2 ^ (Bits - 1))
\* i64 arithmetic of the release build wraps
Wrap(n) == ((n - Lowest) % (2 ^ Bits)) + Lowest

\* quotient and remainder truncated towards zero
TruncDiv(a, b) == LET q == (IF a < 0 THEN -a ELSE a) \div (IF b < 0 THEN -b ELSE b)
                  IN  IF (a < 0) = (b < 0) THEN q ELSE -q
TruncRem(a, b) == a - b * TruncDiv(a, b)

compare_values(l, op, r) ==
    LET Cmp(a, b) == CASE op = "=" -> a = b [] op = "!=" -> a # b [] op = "<" -> a < b
                       [] op = ">" -> a > b [] op = "<=" -> a <= b [] op = ">=" -> a >= b
    IN  IF l.int /\ r.int THEN Cmp(l.n, r.n) ELSE Cmp(l.rank, r.rank)

\* The literal patterns of the model match a string that is the same.
regex_match(l, r) == IntValue(IF l = r /\ ~is_null(r) THEN 1 ELSE 0)

\* what one step of the parser leaves: ok with a value and the next position,
\* an error, or a trap (the smallest integer divided by -1)
Parsed(v, p) == [st |-> "ok", v |-> v, p |-> p]
ParseError == [st |-> "error", v |-> IntValue(0), p |-> 0]
Trap == [st |-> "trap", v |-> IntValue(0), p |-> 0]

Apply(l, op, r, p) ==
    CASE op = "|" -> Parsed(IF ~is_null(l) THEN l ELSE r, p)
      [] op = "&" -> Parsed(IF ~is_null(l) /\ ~is_null(r) THEN l ELSE IntValue(0), p)
      [] op \in {"=", "!=", "<", ">", "<=", ">="} -> Parsed(IntValue(IF compare_values(l, op, r) THEN 1 ELSE 0), p)
      [] op = ":" -> Parsed(regex_match(l, r), p)
      [] OTHER -> IF ~l.int \/ ~r.int \/ (op \in {"/", "%"} /\ r.n = 0) THEN ParseError
                  ELSE IF op \in {"/", "%"} /\ l.n = Lowest /\ r.n = -1 THEN Trap
                  ELSE Parsed(IntValue(Wrap(CASE op = "+" -> l.n + r.n [] op = "-" -> l.n - r.n
                                              [] op = "*" -> l.n * r.n [] op = "/" -> TruncDiv(l.n, r.n)
                                              [] op = "%" -> TruncRem(l.n, r.n))), p)

Levels == <<{"|"}, {"&"}, {"=", "!=", "<", ">", "<=", ">="}, {"+", "-"}, {"*", "/", "%"}, {":"}>>

\* compare_expr and match_expr take one operator, the others as many as come
Repeats(level) == level \notin {3, 6}

\* parse_or .. parse_match are levels 1 .. 6, parse_primary is level 7
RECURSIVE ParseLevel(_, _, _), ParseRest(_, _, _)
ParseLevel(level, t, p) ==
    IF level = 7
    THEN IF p > Len(t) THEN ParseError
         ELSE IF t[p] = "("
         THEN LET e == ParseLevel(1, t, p + 1) IN
              IF e.st # "ok" THEN e
              ELSE IF e.p <= Len(t) /\ t[e.p] = ")" THEN Parsed(e.v, e.p + 1) ELSE ParseError
         ELSE Parsed(IF t[p] = "-4" THEN IntValue(-4) ELSE IF t[p] = "-1" THEN IntValue(-1)
                     ELSE IF Number(t[p]) # -1 THEN IntValue(Number(t[p])) ELSE StrValue(t[p]), p + 1)
    ELSE LET l == ParseLevel(level + 1, t, p) IN
         IF l.st = "ok" THEN ParseRest(level, t, l) ELSE l
ParseRest(level, t, l) ==
    IF l.p > Len(t) \/ t[l.p] \notin Levels[level] THEN l
    ELSE LET r == ParseLevel(level + 1, t, l.p + 1)
             e == Apply(l.v, t[l.p], r.v, r.p)
         IN  IF r.st # "ok" THEN r
             ELSE IF e.st = "ok" /\ Repeats(level) THEN ParseRest(level, t, e) ELSE e

\* the value, or an error (status 2) or the trap
expr_value(t) ==
    LET e == IF t = <<>> THEN ParseError ELSE ParseLevel(1, t, 1)
    IN  IF e.st = "ok" /\ e.p <= Len(t) THEN ParseError ELSE e

-----------------------------------------------------------------------------
\* codex: handle_key_event; a key is its code and whether a modifier is held

Quits(s, key) == key = <<"c", "ctrl">> \/ (key = <<"q", "none">> /\ s.input = <<>>)

handle_key_event(s, key) ==
    IF s.quit THEN s
    ELSE CASE Quits(s, key) -> [s EXCEPT !.quit = TRUE]
           [] key[1] = "Enter" -> IF s.input = <<>> THEN s
                                  ELSE [s EXCEPT !.prompts = Append(@, s.input), !.input = <<>>]
           [] key[1] = "Backspace" -> [s EXCEPT !.input = IF @ = <<>> THEN @ ELSE Front(@)]
           [] key[1] = "Esc" -> [s EXCEPT !.input = <<>>]
           [] OTHER -> [s EXCEPT !.input = Append(@, key[1])]

run_tui(keys) == FoldLeft(handle_key_event, [input |-> <<>>, prompts |-> <<>>, quit |-> FALSE], keys)
=============================================================================
