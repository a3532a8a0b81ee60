------------------------------ MODULE ToolMains ------------------------------
(***************************************************************************)
(* What the commands of the registry do around their conversions: how they *)
(* read their command lines, which pattern grep and rg search for and      *)
(* where, what jq, yq and awk take as input, print and return, the context *)
(* format of diff, and the exit status of the programs that try the HTTP   *)
(* client.                                                                 *)
(*                                                                         *)
(* A pattern is a sequence of characters; "(?:" is one of them.  The query *)
(* languages are given: a filter is what it yields for one input.          *)
(***************************************************************************)
EXTENDS Integers, Sequences, SequencesExt, TextTools

CONSTANT MaxMillis    \* the largest u32, in the milliseconds sleep can ask for

ASSUME ToolMainsAssumption == MaxMillis \in Nat

-----------------------------------------------------------------------------
(***************************************************************************)
(* Each command has a hand-written loop; they differ in what may be        *)
(* bundled, where the value of an option may stand, and what happens to    *)
(* words they do not know. A word is the number of its leading dashes and  *)
(* its body: the letters of a short word and a value attached to them, or  *)
(* the name of a long word and the value after its "=".                    *)
(***************************************************************************)

Word(dashes, body) == [dashes |-> dashes, body |-> body]

NoAlias == [x \in {} |-> x]

\* flags      letters without a value
\* only       options without a value that have no letter
\* rest       letters whose value is the rest of the word, or the next word;
\* head       those among them that must come first
\* next       letters whose value is the next word, whatever follows in this one
\* attached   letters whose value is the rest of the word, if any
\* bundles    may several letters share a word
\* long       long names and the letters they stand for
\* eq         long names that take their value after =
\* longnext   long names that take their value from the next word
\* most       how many operands it takes
\* stop       what the word "--" does; lone what "-" is; unknown long words
Table == [flags |-> {}, only |-> {}, most |-> 9, rest |-> {}, head |-> {}, next |-> {}, attached |-> {}, bundles |-> FALSE, long |-> NoAlias, eq |-> {},
          longnext |-> {}, stop |-> "error", lone |-> "operand", longbad |-> "error", bad |-> "error"]

fd_table == [Table EXCEPT !.flags = {"H", "I", "i", "s", "p", "a"}, !.next = {"e", "t", "d"}, !.lone = "error",
    !.long = [hidden |-> "H", ignore |-> "i", full |-> "p", absolute |-> "a", extension |-> "e", type |-> "t", maxdepth |-> "d"],
    !.longnext = {"extension", "type", "maxdepth"}]

tree_table == [Table EXCEPT !.flags = {"a", "d"}, !.next = {"L", "I"}, !.lone = "error"]

du_table == [Table EXCEPT !.flags = {"s", "h", "a", "c"}, !.rest = {"d"}, !.head = {"d"}, !.bundles = TRUE, !.stop = "operand", !.longbad = "operand",
    !.long = [summarize |-> "s", human |-> "h", all |-> "a", total |-> "c", maxdepth |-> "d"], !.longnext = {"maxdepth"}]

gzip_table == [Table EXCEPT !.flags = {"d", "c", "k", "f", "1", "9"}, !.bundles = TRUE, !.stop = "rest", !.longbad = "operand",
    !.long = [decompress |-> "d", stdout |-> "c", keep |-> "k", force |-> "f", fast |-> "1", best |-> "9"]]

column_table == [Table EXCEPT !.flags = {"t"}, !.rest = {"s"}]

strings_table == [Table EXCEPT !.rest = {"n"}, !.next = {"t"}]

diff_table == [Table EXCEPT !.flags = {"u", "c", "r", "R", "q", "i", "w", "B"}, !.attached = {"U", "C"},
    !.long = [unified |-> "u", context |-> "c", recursive |-> "r", brief |-> "q", ignorecase |-> "i", ignoreallspace |-> "w", ignoreblanklines |-> "B"]]

grep_table == [Table EXCEPT !.flags = {"E", "F", "G", "i", "y", "v", "c", "l", "L", "n", "w", "x", "q", "s", "h", "H"},
    !.rest = {"e"}, !.next = {"f", "m"}, !.bundles = TRUE, !.stop = "rest",
    !.long = [extended |-> "E", fixed |-> "F", basic |-> "G", ignorecase |-> "i", invert |-> "v", count |-> "c", fileswith |-> "l",
              fileswithout |-> "L", linenumber |-> "n", word |-> "w", line |-> "x", quiet |-> "q", regexp |-> "e", maxcount |-> "m"],
    !.eq = {"regexp", "maxcount"}]

rg_long == [ignorecase |-> "i", casesensitive |-> "s", smartcase |-> "S", invert |-> "v", count |-> "c", fileswith |-> "l",
            linenumber |-> "n", nolinenumber |-> "N", word |-> "w", line |-> "x", fixed |-> "F", quiet |-> "q", only |-> "o",
            hidden |-> ".", withfilename |-> "H", regexp |-> "e", maxcount |-> "m", after |-> "A", before |-> "B", context |-> "C",
            glob |-> "g", type |-> "t", typenot |-> "T", file |-> "f",
            fileswithout |-> "without", nofilename |-> "noname", heading |-> "none", color |-> "color"]
rg_table == [Table EXCEPT !.flags = {"i", "s", "S", "v", "c", "l", "n", "N", "w", "x", "F", "q", "o", "H", "."}, !.only = {"without", "noname", "none"},
    !.rest = {"e"}, !.next = {"f", "m", "A", "B", "C", "g", "t", "T"}, !.bundles = TRUE, !.stop = "rest",
    !.long = rg_long, !.eq = {"regexp", "maxcount", "after", "before", "context", "glob", "type", "typenot", "color"},
    !.longnext = {"regexp", "maxcount", "after", "before", "context", "glob", "type", "typenot", "file", "color"}]

\* a long word jq and yq do not know is an operand, the filter
jq_table == [Table EXCEPT !.flags = {"r", "R", "s", "c", "n", "e", "j", "S"}, !.bundles = TRUE, !.stop = "drop", !.most = 1, !.longbad = "operand",
    !.long = [rawoutput |-> "r", rawinput |-> "R", slurp |-> "s", compact |-> "c", null |-> "n", exitstatus |-> "e", join |-> "j"]]

yq_table == [Table EXCEPT !.flags = {"r", "c", "n", "s"}, !.rest = {"p", "o"}, !.bundles = TRUE, !.stop = "drop", !.most = 1, !.longbad = "operand",
    !.long = [rawoutput |-> "r", slurp |-> "s", compact |-> "c", null |-> "n", inputformat |-> "p", outputformat |-> "o"],
    !.longnext = {"inputformat", "outputformat"}]

awk_table == [Table EXCEPT !.rest = {"F"}, !.next = {"v", "f"}, !.stop = "rest", !.longbad = "skip", !.bad = "skip"]

\* opts are the options met with their values ("" for none), in order
Reading(st, opts, operands) == [st |-> st, opts |-> opts, operands |-> operands]

WordsUsed(fromNext) == IF fromNext THEN 2 ELSE 1

\* One word: the options it gives and how many words it uses up. The letters
\* from b[j] on are still to be read; next is the next word's text, "" if none.
RECURSIVE Letters(_, _, _, _, _)
Letters(T, b, j, opts, next) ==
    IF j > Len(b) THEN [st |-> "ok", opts |-> opts, used |-> WordsUsed(FALSE)]
    ELSE LET x == b[j]
             alone == T.bundles \/ (j = 1 /\ Len(b) = 1)
             From(v, n) == [st |-> IF v = "" THEN "error" ELSE "ok", opts |-> Append(opts, <<x, v>>), used |-> WordsUsed(n)]
         IN  CASE x \in T.flags /\ alone -> Letters(T, b, j + 1, Append(opts, <<x, "">>), next)
               [] x \in T.rest /\ (j = 1 \/ (T.bundles /\ x \notin T.head)) -> IF j < Len(b) THEN From(b[j + 1], FALSE) ELSE From(next, TRUE)
               [] x \in T.next /\ alone -> From(next, TRUE)
               [] x \in T.attached /\ j = 1 ->
                    IF j < Len(b) THEN From(b[j + 1], FALSE) ELSE [st |-> "ok", opts |-> opts, used |-> 1]
               [] T.bad = "skip" -> [st |-> "ok", opts |-> opts, used |-> 1]
               [] OTHER -> [st |-> "error", opts |-> opts, used |-> 1]

LongWord(T, b, opts, next) ==
    LET known == b[1] \in DOMAIN T.long
        x == T.long[b[1]]
        valued == x \notin T.flags \cup T.only
        Got(v, n) == [st |-> IF v = "" THEN "error" ELSE "ok", opts |-> Append(opts, <<x, v>>), used |-> n]
    IN  CASE known /\ ~valued /\ Len(b) = 1 -> [st |-> "ok", opts |-> Append(opts, <<x, "">>), used |-> 1]
          [] known /\ valued /\ Len(b) = 2 /\ b[1] \in T.eq -> Got(b[2], 1)
          [] known /\ valued /\ Len(b) = 1 /\ b[1] \in T.longnext -> Got(next, 2)
          [] T.longbad = "skip" -> [st |-> "ok", opts |-> opts, used |-> 1]
          [] OTHER -> [st |-> T.longbad, opts |-> opts, used |-> 1]

RECURSIVE ReadWords(_, _, _, _)
ReadWords(T, a, i, r) ==
    IF i > Len(a) \/ r.st # "ok" THEN r
    ELSE LET w == a[i]
             next == IF i < Len(a) THEN Last(a[i + 1].body) ELSE ""
             Operand == ReadWords(T, a, i + 1, [r EXCEPT !.operands = Append(@, w)])
             Go(g) == CASE g.st = "operand" -> Operand
                        [] g.st = "error" -> Reading("error", <<>>, <<>>)
                        [] OTHER -> ReadWords(T, a, i + g.used, [r EXCEPT !.opts = g.opts])
         IN  CASE w.dashes = 2 /\ w.body = <<"">> ->
                   (CASE T.stop = "rest" -> [r EXCEPT !.operands = @ \o SubSeq(a, i + 1, Len(a))]
                      [] T.stop = "drop" -> r
                      [] T.stop = "operand" -> Operand
                      [] T.stop = "error" -> Reading("error", <<>>, <<>>))
               [] w.dashes = 2 -> Go(LongWord(T, w.body, r.opts, next))
               [] w.dashes = 1 /\ w.body = <<"">> -> IF T.lone = "operand" THEN Operand ELSE Reading("error", <<>>, <<>>)
               [] w.dashes = 1 -> Go(Letters(T, w.body, 1, r.opts, next))
               [] OTHER -> Operand

parse_args(T, a) ==
    LET r == ReadWords(T, a, 1, Reading("ok", <<>>, <<>>)) IN
    IF Len(r.operands) > T.most THEN Reading("error", <<>>, <<>>) ELSE r

\* The first operand of grep, rg and fd is the pattern, unless an option named
\* in P gave one.
WithPattern(r, P) ==
    LET given == SelectSeq(r.opts, LAMBDA o : o[1] \in P) IN
    IF given # <<>> THEN [patterns |-> [i \in DOMAIN given |-> given[i][2]], files |-> r.operands]
    ELSE [patterns |-> [i \in 1 .. (IF r.operands = <<>> THEN 0 ELSE 1) |-> Last(r.operands[i].body)], files |-> SubSeq(r.operands, 2, Len(r.operands))]

-----------------------------------------------------------------------------
\* grep: the expression of a pattern in one of the three modes

Grouping == {"(", ")", "{", "}"}
Repeating == {"+", "?", "|"}
Capitals == {"A", "S"}

\* a backslash takes a special meaning away or, in a basic expression, gives it
RECURSIVE convert_bre_to_ere(_)
convert_bre_to_ere(bre) ==
    LET escaped == bre[1] = "\\" /\ Len(bre) > 1
        pair == IF bre[2] \in Grouping \cup Repeating THEN <<bre[2]>> ELSE <<"\\", bre[2]>>
        single == IF bre[1] \in Grouping THEN <<"\\", bre[1]>> ELSE <<bre[1]>>
    IN  IF bre = <<>> THEN <<>>
        ELSE IF escaped THEN pair \o convert_bre_to_ere(SubSeq(bre, 3, Len(bre)))
        ELSE single \o convert_bre_to_ere(Tail(bre))

\* regex::escape
Escaped(p) == FlattenSeq([i \in DOMAIN p |-> IF p[i] \in Grouping \cup Repeating \cup {"\\", ".", "*"} THEN <<"\\", p[i]>> ELSE <<p[i]>>])

\* -w and -x
Wrapped(base, o) ==
    CASE o.word -> <<"\\", "b", "(?:">> \o base \o <<")", "\\", "b">>
      [] ~o.word /\ o.line -> <<"^", "(?:">> \o base \o <<")", "$">>
      [] OTHER -> base

build_single_pattern(p, o) ==
    Wrapped(CASE o.mode = "fixed" -> Escaped(p) [] o.mode = "basic" -> convert_bre_to_ere(p) [] o.mode = "extended" -> p, o)

\* several patterns are alternatives, each in a group of its own
Joined(parts) ==
    IF Len(parts) = 1 THEN parts[1]
    ELSE FlattenSeq([i \in DOMAIN parts |-> (IF i = 1 THEN <<>> ELSE <<"|">>) \o <<"(?:">> \o parts[i] \o <<")">>])

build_regex(o) == [pattern |-> Joined([i \in DOMAIN o.patterns |-> build_single_pattern(o.patterns[i], o)]), insensitive |-> o.icase]

\* rg
prepare_pattern(p, o) == Wrapped(IF o.mode = "fixed" THEN Escaped(p) ELSE p, o)

\* smart case looks at the whole expression, wrapping and all
rg_build_regex(o) ==
    LET combined == Joined([i \in DOMAIN o.patterns |-> prepare_pattern(o.patterns[i], o)])
    IN  [pattern |-> combined, insensitive |-> o.icase \/ (o.smart /\ Range(combined) \cap Capitals = {})]

\* the mode by the name the program is called by; an option may change it
grep_mode(name) == CASE name = "egrep" -> "extended" [] name = "fgrep" -> "fixed" [] OTHER -> "basic"

-----------------------------------------------------------------------------
\* rg: the files it searches. A directory has under sub its entries by name, a
\* file says whether should_include keeps it; names are numbers, hidden ones negative.

RECURSIVE walk_dir(_, _, _)
walk_dir(d, path, hidden) ==
    LET names == SetToSortSeq(DOMAIN d.sub, <)
        Below(n) == CASE ~hidden /\ n < 0 -> <<>>
                      [] (hidden \/ n >= 0) /\ d.sub[n].kind = "dir" -> walk_dir(d.sub[n], Append(path, n), hidden)
                      [] OTHER -> IF d.sub[n].kept THEN <<Append(path, n)>> ELSE <<>>
    IN  IF d.closed THEN <<>> ELSE FlattenSeq([i \in DOMAIN names |-> Below(names[i])])

RECURSIVE NodeAt(_, _)
NodeAt(node, path) ==
    IF path = <<>> THEN node
    ELSE IF node.kind # "dir" \/ path[1] \notin DOMAIN node.sub THEN [kind |-> "missing"]
    ELSE NodeAt(node.sub[path[1]], Tail(path))

\* the order of PathBuf
PathLess(p, q) ==
    \/ IsStrictPrefix(p, q)
    \/ \E i \in DOMAIN p \cap DOMAIN q : p[i] < q[i] /\ SubSeq(p, 1, i - 1) = SubSeq(q, 1, i - 1)

\* an operand that is no directory is searched whatever the filters say
collect_files(root, paths, hidden) ==
    LET Of(p) == IF NodeAt(root, p).kind = "dir" THEN walk_dir(NodeAt(root, p), p, hidden) ELSE <<p>>
    IN  SortSeq(FlattenSeq([i \in DOMAIN paths |-> Of(paths[i])]), PathLess)

-----------------------------------------------------------------------------
\* jq: what the filters of the runs yield for a value v, in order

Yields(v) == [ok |-> TRUE, v |-> v]
RunError == [ok |-> FALSE, v |-> Null]
Outcomes(filter, v) ==
    CASE filter = "." -> <<Yields(v)>>
      [] filter = ".,." -> <<Yields(v), Yields(v)>>
      [] filter = "empty" -> <<>>
      [] filter = ".[]" -> IF v.k = "arr" THEN [i \in DOMAIN v.a |-> Yields(v.a[i])] ELSE <<RunError>>

BadInput == <<[k |-> "bad"]>>

\* stdin has lines and, read as JSON, values; bad says it stops being JSON after
\* them, garbled that it is no UTF-8. It is read even if -n does not use it.
read_inputs(o, stdin) ==
    LET lines == [i \in DOMAIN stdin.lines |-> Str(stdin.lines[i])] IN
    IF stdin.garbled THEN BadInput
    ELSE IF o.nullin THEN <<Null>>
    ELSE IF o.rawin THEN (IF o.slurp THEN <<Arr(lines)>> ELSE lines)
    ELSE IF stdin.lines = <<>> THEN <<Null>>
    ELSE IF stdin.bad THEN BadInput
    ELSE IF o.slurp THEN <<Arr(stdin.values)>> ELSE stdin.values

format_output(v, o) ==
    [v |-> v, style |-> CASE o.raw /\ v.k = "str" -> "bare" [] OTHER -> IF o.compact THEN "compact" ELSE "pretty"]

\* the outcomes before the first error
Printed(results) ==
    LET failed == {i \in DOMAIN results : ~results[i].ok}
    IN  IF failed = {} THEN results ELSE SubSeq(results, 1, Min(failed) - 1)
AllOutcomes(filter, inputs) == FlattenSeq([i \in DOMAIN inputs |-> Outcomes(filter, inputs[i])])

\* a command line or an input that cannot be read, or a filter that does not
\* compile, prints nothing; an error of the filter keeps what is printed
run_jq(o, stdin) ==
    LET inputs == read_inputs(o, stdin)
        results == AllOutcomes(o.filter, inputs)
        out == Printed(results)
        falsy == \E i \in DOMAIN out : out[i].v \in {Null, [k |-> "false"]}
    IN  IF inputs = BadInput \/ ~o.compiles THEN [out |-> <<>>, status |-> 2]
        ELSE [out |-> [i \in DOMAIN out |-> [text |-> format_output(out[i].v, o), newline |-> ~o.join]],
              status |-> CASE out # results -> 5 [] out = results /\ o.exit /\ falsy -> 1 [] OTHER -> 0]

-----------------------------------------------------------------------------
\* yq: a text is known by what detect_format looks at, and by what reading it in
\* each format gives, Unread if it cannot be

Unread == [k |-> "bad"]
Formats == {"yaml", "json", "toml", "xml"}

detect_format(t) ==
    IF t.first \in {"{", "["} /\ t.reads["json"] # Unread THEN "json"
    ELSE IF t.first = "<" THEN "xml"
    ELSE IF ~t.colon /\ t.first # "---" /\ (t.equals \/ t.first = "[") /\ t.reads["toml"] # Unread THEN "toml"
    ELSE "yaml"

\* the formats of input and output; "" is no option
InFormat(o, t) == CASE o.in # "" -> o.in [] OTHER -> IF o.nullin THEN "yaml" ELSE detect_format(t)
OutFormat(o, t) == IF o.out # "" THEN o.out ELSE InFormat(o, t)

\* format_val_output: TOML writes objects only, and no null
Writes(v, o, format) ==
    \/ o.raw /\ v.k = "str"
    \/ format = "toml" => v.k = "obj" /\ json_to_toml(v) # NoToml

\* what is read is one value; -s makes an array of anything but an array
run_yq(o, t) ==
    LET read == IF o.nullin THEN Null ELSE t.reads[InFormat(o, t)]
        input == IF o.slurp /\ ~o.nullin /\ read.k # "arr" THEN Arr(<<read>>) ELSE read
        results == Outcomes(o.filter, input)
        format == OutFormat(o, t)
        before == Printed(results)
        unwritten == {i \in DOMAIN before : ~Writes(before[i].v, o, format)}
        out == IF unwritten = {} THEN before ELSE SubSeq(before, 1, Min(unwritten) - 1)
    IN  IF read = Unread \/ ~o.compiles THEN [out |-> <<>>, status |-> 2]
        ELSE [out |-> [i \in DOMAIN out |-> [v |-> out[i].v, format |-> format]],
              status |-> CASE unwritten # {} -> 2 [] unwritten = {} /\ before # results -> 5 [] OTHER -> 0]

-----------------------------------------------------------------------------
\* awk: the words of the command line, read from the left; a program is a text
\* or the contents of a file, "" if there is none yet

AwkLine == [program |-> "", files |-> <<>>, rest |-> FALSE, bad |-> FALSE]
AwkWord(closed, l, w) ==
    CASE l.rest -> [l EXCEPT !.files = Append(@, w.text)]
      [] ~l.rest /\ w.opt = "--" -> [l EXCEPT !.rest = TRUE]
      [] ~l.rest /\ w.opt = "-f" -> [l EXCEPT !.program = w.text, !.bad = @ \/ w.text \in closed]
      [] ~l.rest /\ w.opt = "" /\ l.program = "" -> [l EXCEPT !.program = w.text]
      [] ~l.rest /\ w.opt = "" /\ l.program # "" -> [l EXCEPT !.files = Append(@, w.text)]
      [] OTHER -> l

\* closed are the files that cannot be opened, codes the exit code of the program
\* on each of the others, -1 if it fails; the files are read one after the other
run_awk(words, closed, codes) ==
    LET l == FoldLeft(LAMBDA x, w : AwkWord(closed, x, w), AwkLine, words)
        files == IF l.files = <<>> THEN <<"-">> ELSE l.files
        ends == {i \in DOMAIN files : files[i] \in closed \/ codes[files[i]] = -1}
        ran == IF ends = {} THEN files ELSE SubSeq(files, 1, Min(ends) - 1)
    IN  IF l.program = "" \/ l.bad THEN [program |-> "", ran |-> <<>>, status |-> 2]
        ELSE [program |-> l.program, ran |-> ran, status |-> IF ends # {} THEN 2 ELSE codes[Last(files)]]

-----------------------------------------------------------------------------
\* diff: the changes a script stands for, and the context format. An index of -1
\* is none.

ChangesOf(op, old, new) ==
    LET gone == [k \in 1 .. op.n |-> [tag |-> "delete", i |-> op.i + k - 1, j |-> -1, text |-> old[op.i + k]]]
        come == [k \in 1 .. op.m |-> [tag |-> "insert", i |-> -1, j |-> op.j + k - 1, text |-> new[op.j + k]]]
    IN  IF op.tag = "equal" THEN [k \in 1 .. op.n |-> [tag |-> "equal", i |-> op.i + k - 1, j |-> op.j + k - 1, text |-> old[op.i + k]]]
        ELSE gone \o come

\* UnifiedDiff.iter_hunks: the changes with radius lines around them
iter_hunks(ops, old, new, radius) ==
    LET all == FlattenSeq([k \in DOMAIN ops |-> ChangesOf(ops[k], old, new)])
        near == {k \in DOMAIN all : \E m \in DOMAIN all : all[m].tag # "equal" /\ k - m <= radius /\ m - k <= radius}
        starts == SetToSortSeq({k \in near : k - 1 \notin near}, <)
        EndOf(k) == Min({m \in k .. Len(all) : m + 1 \notin near})
    IN  [h \in DOMAIN starts |-> SubSeq(all, starts[h], EndOf(starts[h]))]

\* the lines of one side, and the numbers its header gives them
ContextSide(hunk, other, start) ==
    LET lines == SelectSeq(hunk, LAMBDA c : c.tag # other)
    IN  [from |-> start, to |-> start + (IF lines = <<>> THEN 0 ELSE Len(lines) - 1), lines |-> lines]

OrZero0(index) == IF index = -1 THEN 0 ELSE index
context_hunk(hunk) ==
    [old |-> ContextSide(hunk, "insert", OrZero0(hunk[1].i) + 1),
     new |-> ContextSide(hunk, "delete", OrZero0(hunk[1].j) + 1)]

\* main: two operands, both read, and whether they differ
diff_status(operands, readable, differ) ==
    IF operands # 2 \/ ~readable THEN 2 ELSE IF differ THEN 1 ELSE 0

-----------------------------------------------------------------------------
\* tar -t: an entry that cannot be read ends the list

TypeLetter(kind) == CASE kind = "dir" -> "d" [] kind = "link" -> "l" [] OTHER -> "-"
do_list(entries, verbose) ==
    [i \in DOMAIN entries |-> [name |-> entries[i].path, type |-> IF verbose THEN TypeLetter(entries[i].at.kind) ELSE ""]]

\* main: the directory is changed before the mode is looked at
tar_status(o, dirs, done) ==
    IF o.bad \/ (o.dir # <<>> /\ o.dir \notin dirs) \/ o.mode = "none" \/ ~done THEN 1 ELSE 0

-----------------------------------------------------------------------------
\* codex, codex-exec and http-test: args are the words after the program's name;
\* reply is what the host gives them: "error", "garbled" (no UTF-8), "tail" (only
\* after the last whole event) or "text"

\* http_test of codex and codex-exec
http_test(args, reply) == IF args = <<>> \/ reply = "error" THEN 1 ELSE 0

\* the commands of http-test; the reader of events drops what it cannot read at the end
http_test_main(args, reply) ==
    IF Len(args) < 2 \/ args[1] \notin {"get", "post", "headers", "sse"} THEN 1
    ELSE IF reply = "text" \/ (args[1] = "sse" /\ reply = "tail") THEN 0 ELSE 1

\* what codex and codex-exec do, in this order; stdin is "" when it is blank
Asks(args, words) == \E i \in DOMAIN args : args[i] \in words
Does(what, status) == [does |-> what, status |-> status]
codex_main(args, headless, stdin, reply) ==
    LET first == IF args = <<>> THEN "" ELSE args[1]
        prompt == IF args = <<>> THEN stdin ELSE IF args = <<"">> THEN "" ELSE "args"
    IN  IF Asks(args, {"--help", "-h"}) THEN Does("help", 0)
        ELSE IF Asks(args, {"--version", "-V"}) THEN Does("version", 0)
        ELSE IF first = "--http-test" THEN Does("http", http_test(Tail(args), reply))
        ELSE IF first = "--stub-test" THEN Does("stubs", 0)
        ELSE IF ~headless THEN Does("tui", IF reply = "error" THEN 1 ELSE 0)
        ELSE IF prompt = "" THEN Does("usage", 1) ELSE Does("prompt", 0)

\* --model of codex: the word after the first one that has a word after it
codex_model(args) ==
    LET at == {i \in 1 .. Len(args) - 1 : args[i] = "--model"}
    IN  IF at = {} THEN "default" ELSE args[Min(at) + 1]

-----------------------------------------------------------------------------
\* sleep, spawn-test and whoami

\* millis is the time asked for, -1 for a word that is no time; a host that has
\* no sleep is waited for in a loop, for all of it
sleep(args, millis, host) ==
    IF args = <<>> \/ millis < 0 THEN [slept |-> 0, status |-> 1]
    ELSE [slept |-> IF host /\ millis > MaxMillis THEN MaxMillis ELSE millis, status |-> 0]

\* code is the child's, -1 if a signal ended it, "no child" is -2
spawn_test(args, code) ==
    [program |-> IF args = <<>> THEN "echo" ELSE args[1], args |-> SubSeq(args, 2, Len(args)),
     status |-> IF code < 0 THEN 1 ELSE code]

whoami(user, logname) == CASE user # "" -> user [] user = "" /\ logname # "" -> logname [] OTHER -> "user"
=============================================================================
