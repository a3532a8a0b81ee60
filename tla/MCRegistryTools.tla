--------------------------- MODULE MCRegistryTools --------------------------
(***************************************************************************)
(* The commands of the registry of the VM, each called once on a small     *)
(* input.                                                                  *)
(***************************************************************************)
EXTENDS ShellTools, ToolBench, TextTools, FileTools, ToolMains

(***************************************************************************)
(* The shell commands of the VM's registry on small inputs.                *)
(***************************************************************************)

-----------------------------------------------------------------------------
\* xargs

Items == <<"i1", "i2", "i3", "i4", "i5">>

XOptions == {<<>>, <<"-n", "1">>, <<"-n2">>, <<"--max-args=2">>, <<"-r">>, <<"-0">>, <<"-t">>,
             <<"-I", "{}">>, <<"-I{}">>, <<"-n", "0">>, <<"-nx">>}
XCommands == {<<>>, <<"cp", "{}", "x">>, <<"cp">>}

Xargs == Give("xargs", {[opts |-> o1 \o o2, cmd |-> c, items |-> SubSeq(Items, 1, n), fail |-> f] :
                          o1 \in XOptions, o2 \in XOptions, c \in XCommands, n \in 0 .. 5, f \in 0 .. 3}
                       \cup {[opts |-> <<o>>, cmd |-> <<>>, items |-> <<>>, fail |-> 0] : o \in {"-n", "-I"}})

\* However xargs cuts its input into commands, the commands together get every
\* item once and in order, none more than -n allows and none empty; with -I
\* there is one command per item; and the status is 0 exactly when every command
\* that ran returned 0.
XargsPassesEachItemOnce ==
    tool = "xargs" =>
        LET o == xargs_options(in.opts \o in.cmd)
            runs == xargs_runs(o, in.items)
            cmd == IF in.cmd = <<>> THEN <<"echo">> ELSE in.cmd
            own == [i \in DOMAIN runs |-> SubSeq(runs[i], Len(cmd) + 1, Len(runs[i]))]
            codes == [i \in DOMAIN runs |-> IF i = in.fail THEN 1 ELSE 0]
        IN  /\ (xargs_status(codes) = 0) = (in.fail \notin DOMAIN runs)
            /\ (o.bad \/ in.items = <<>>) => Len(runs) <= 1
            /\ (~o.bad /\ o.repl = "") => FlattenSeq(own) = in.items
            /\ (~o.bad /\ o.repl = "" /\ o.max > 0) => \A i \in DOMAIN own : Len(own[i]) <= o.max
            /\ (~o.bad /\ o.repl = "" /\ in.items # <<>>) => \A i \in DOMAIN own : own[i] # <<>>
            /\ (~o.bad /\ o.repl # "") => Len(runs) = Len(in.items)

Quote(style, item) ==
    CASE style = "single" -> <<"'">> \o item \o <<"'">>
      [] style = "double" -> <<"\"">> \o FlattenSeq([i \in DOMAIN item |->
                                 IF item[i] \in {"\\", "\""} THEN <<"\\", item[i]>> ELSE <<item[i]>>]) \o <<"\"">>
      [] style = "escaped" -> FlattenSeq([i \in DOMAIN item |-> <<"\\", item[i]>>])

Quoting == Give("quote",
    {[style |-> "single", items |-> s] : s \in BoundedSeq(BoundedSeq({"a", " ", "\\", "\""}, 2), 2)} \cup
    {[style |-> "double", items |-> s] : s \in BoundedSeq(BoundedSeq({"a", " ", "\\", "\"", "'"}, 2), 2)} \cup
    {[style |-> "escaped", items |-> s] : s \in BoundedSeq(BoundedSeq({"a", " ", "\\", "\"", "'"}, 2) \ {<<>>}, 2)})

\* A line that quotes its items in any of the three ways (single quotes, double
\* quotes, a backslash before each character) is read back as those items:
\* blanks inside are kept, and an empty quoted item is an item.
QuotedItemsAreRead ==
    tool = "quote" =>
        LET quoted == [i \in DOMAIN in.items |-> Quote(in.style, in.items[i]) \o <<" ">>]
        IN  read_whitespace_delimited(<<FlattenSeq(quoted)>>) = in.items

-----------------------------------------------------------------------------
\* env, nice, nohup, stdbuf

EnvWords == {<<"-i">>, <<"-u", "A">>, <<"-u", "B">>, <<"A=1">>, <<"A=2">>, <<"B=1">>}
Env == Give("env", {[args |-> FlattenSeq(g), inherited |-> e] : g \in BoundedSeq(EnvWords, 3),
                      e \in {<<>>, <<<<"A", "0">>>>, <<<<"A", "0">>, <<"B", "0">>>>}})

\* What env prints without a command is, with the last line for a variable
\* counting, the environment the same options give to a command: assignments
\* override what is inherited and survive -u and -i in any order.
EnvListsChildEnvironment ==
    tool = "env" =>
        LET o == env_options(in.args)
            child == env_options(in.args \o <<"prog">>)
        IN  /\ Assign(NoEnv, env_listing(o, in.inherited)) = env_child(child, in.inherited)
            /\ child.cmd = <<"prog">>

WrapperPrefixes == {<<"nice", <<>>>>, <<"nice", <<"-n", "5">>>>, <<"nice", <<"-5">>>>, <<"nohup", <<>>>>}
    \cup {<<"stdbuf", FlattenSeq(g)>> : g \in BoundedSeq({<<"-o", "L">>, <<"-oL">>, <<"--output", "0">>, <<"-i", "0">>}, 3)}
Wrapper == Give("wrapper", {[name |-> p[1], prefix |-> p[2], cmd |-> c] : p \in WrapperPrefixes,
                              c \in {<<"prog">>, <<"prog", "-o", "x">>, <<"prog", "-n">>}})

\* The command a wrapper runs is the caller's command line, untouched: the
\* wrapper's own options and their values are gone and none of the command's
\* are, although they look alike.
WrappedCommandUntouched ==
    tool = "wrapper" =>
        LET line == in.prefix \o in.cmd IN
        in.cmd = CASE in.name = "nice" -> nice_command(line)
                   [] in.name = "nohup" -> nohup_command(line)
                   [] in.name = "stdbuf" -> stdbuf_command(line)

-----------------------------------------------------------------------------
\* test

Comparisons == {<<x, op, y>> : x \in {"1", "2", "x"}, op \in {"=", "!=", "-eq", "-lt", "-ge"}, y \in {"1", "x"}}
Primaries == Comparisons \cup {<<op, x>> : op \in {"-n", "-z", "-f", "-d", "-s", "-e"}, x \in {"", "f", "e", "d"}} \cup {<<"x">>}

TestCmd == Give("test", {[terms |-> <<p, q>>, op |-> c, neg |-> n, bracket |-> b] :
                        p \in Primaries, q \in Primaries, c \in {"-a", "-o"}, n \in BOOLEAN, b \in BOOLEAN}
                     \cup {[terms |-> <<p>>, op |-> "-a", neg |-> n, bracket |-> FALSE] : p \in Primaries, n \in BOOLEAN})

TestLine(i) == (IF i.neg THEN <<"!">> ELSE <<>>)
               \o FlattenSeq([k \in DOMAIN i.terms |-> (IF k = 1 THEN <<>> ELSE <<i.op>>) \o i.terms[k]])
               \o (IF i.bracket THEN <<"]">> ELSE <<>>)

\* Terms joined by -a are true when both are, by -o when one is, a leading ! negates
\* the whole, and the closing bracket is no argument. Three arguments are always
\* taken for a comparison, which excepts two terms of one word each and, after a !,
\* one term of two: their connective or their ! is lost.
TestIsItsConnective ==
    tool = "test" =>
        LET a == eval_test(in.terms[1])
            b == eval_test(in.terms[2])
            joined == Len(in.terms) = 2
            both == IF ~joined THEN a ELSE IF in.op = "-a" THEN a /\ b ELSE a \/ b
            three == IF joined THEN Len(in.terms[1]) + Len(in.terms[2]) = 2
                     ELSE in.neg /\ Len(in.terms[1]) = 2
        IN  three \/ test_cmd(TestLine(in)) = IF both # in.neg THEN 0 ELSE 1

-----------------------------------------------------------------------------
\* expr

Leaf(t) == [op |-> "", t |-> t]
Node(o, l, r) == [op |-> o, l |-> l, r |-> r]
Leaves == {Leaf(t) : t \in {"0", "2", "-1", "-4", "a"}}
ExprOps == {"|", "&", "=", "<", "+", "-", "*", "/", "%", ":"}
Depth1 == {Node(o, l, r) : o \in ExprOps, l \in Leaves, r \in Leaves}
Expr == Give("expr", Depth1 \cup {Node(o, d, l) : o \in ExprOps, d \in Depth1, l \in Leaves}
                            \cup {Node(o, l, d) : o \in ExprOps, d \in Depth1, l \in Leaves})

LevelOf(t) == IF t.op = "" THEN 7 ELSE CHOOSE l \in DOMAIN Levels : t.op \in Levels[l]

RECURSIVE Written(_)
Written(t) ==
    LET Paren(u, yes) == IF yes THEN <<"(">> \o Written(u) \o <<")">> ELSE Written(u)
        level == LevelOf(t)
    IN  IF t.op = "" THEN <<t.t>>
        ELSE Paren(t.l, LevelOf(t.l) < level \/ (LevelOf(t.l) = level /\ level \in {3, 6}))
             \o <<t.op>> \o Paren(t.r, LevelOf(t.r) <= level)

RECURSIVE ValueOf(_)
ValueOf(t) ==
    IF t.op = "" THEN ParseLevel(7, <<t.t>>, 1)
    ELSE LET l == ValueOf(t.l)
             r == ValueOf(t.r)
         IN  IF l.st # "ok" THEN l ELSE IF r.st # "ok" THEN r ELSE Apply(l.v, t.op, r.v, 0)

\* An expression written with only the parentheses the precedences and the
\* grouping to the left call for has the value of its tree: wrapping, the error
\* of a division by zero or of a word in a sum, and the trap of the smallest
\* integer divided by -1 included.
ExprFollowsPrecedence ==
    (tool = "expr") => LET e == expr_value(Written(in))
                           v == ValueOf(in)
                       IN  e.st = v.st /\ e.v = v.v

-----------------------------------------------------------------------------
\* codex

Keys == {<<"q", "none">>, <<"a", "none">>, <<"q", "alt">>, <<"c", "ctrl">>, <<"Enter", "none">>,
         <<"Backspace", "none">>, <<"Esc", "none">>}
Codex == Give("codex", BoundedSeq(Keys, 4))

\* Nothing typed is lost by quitting other than with Ctrl-C, no empty prompt is
\* ever sent, and no prompt starts with a plain q.
TuiKeepsWhatIsTyped ==
    tool = "codex" =>
        LET s == run_tui(in) IN
        /\ s.quit /\ <<"c", "ctrl">> \notin Range(in) => s.input = <<>>
        /\ \A i \in DOMAIN s.prompts :
              s.prompts[i] # <<>> /\ (<<"q", "alt">> \in Range(in) \/ s.prompts[i][1] # "q")

-----------------------------------------------------------------------------
(***************************************************************************)
(* grep, rg, diff, column, strings and yq on short texts, and the command  *)
(* lines of all commands.                                                  *)
(***************************************************************************)

-----------------------------------------------------------------------------
\* command lines

Tables == [fd |-> fd_table, tree |-> tree_table, du |-> du_table, gzip |-> gzip_table, column |-> column_table,
           strings |-> strings_table, diff |-> diff_table, grep |-> grep_table, rg |-> rg_table, jq |-> jq_table,
           yq |-> yq_table, awk |-> awk_table]

Valued(T) == T.rest \cup T.next \cup T.attached
LongsOf(T, x) == {n \in DOMAIN T.long : T.long[n] = x}

\* the ways to spell one option, as words
Spellings(T, x) ==
    IF x \in T.flags
    THEN {<<Word(1, <<x>>)>>} \cup {<<Word(2, <<n>>)>> : n \in LongsOf(T, x)}
    ELSE IF x \in T.only THEN {<<Word(2, <<n>>)>> : n \in LongsOf(T, x)}
    ELSE (IF x \in T.rest \cup T.next THEN {<<Word(1, <<x>>), Word(0, <<"v">>)>>} ELSE {})
         \cup (IF x \in T.rest \cup T.attached THEN {<<Word(1, <<x, "v">>)>>} ELSE {})
         \cup {<<Word(2, <<n, "v">>)>> : n \in LongsOf(T, x) \cap T.eq}
         \cup {<<Word(2, <<n>>), Word(0, <<"v">>)>> : n \in LongsOf(T, x) \cap T.longnext}

\* two options in one word, where the command allows it
Bundles(T, x, y) ==
    IF ~T.bundles \/ x \notin T.flags \/ y \in T.head THEN {}
    ELSE (IF y \in T.flags THEN {<<Word(1, <<x, y>>)>>} ELSE {})
         \cup (IF y \in T.rest \cup T.next THEN {<<Word(1, <<x, y>>), Word(0, <<"v">>)>>} ELSE {})
         \cup (IF y \in T.rest THEN {<<Word(1, <<x, y, "v">>)>>} ELSE {})

LineOf(t, x, y, words, operands) == [tool |-> t, opts |-> <<x, y>>, words |-> words, operands |-> operands]
Lines(t) ==
    LET T == Tables[t]
        All2 == T.flags \cup T.only \cup Valued(T)
    IN  UNION {{LineOf(t, x, y, w, n) : w \in {a \o b : a \in Spellings(T, x), b \in Spellings(T, y)} \cup Bundles(T, x, y), n \in 0 .. 2} :
                 x \in All2, y \in All2}

CommandLine == \E t \in DOMAIN Tables : Give("line", Lines(t))

\* However two options are spelled (apart or bundled, short or long, the value
\* attached, after "=" or in the next word) and wherever the operands stand,
\* after them, before them, or behind "--" where that is known, a command reads
\* the same two options with their values and the same operands, in order; and
\* an option without its value, or one operand too many, is an error.
CommandLinesReadBack ==
    tool = "line" =>
        LET T == Tables[in.tool]
            operands == SubSeq(<<Word(0, <<"p">>), Word(0, <<"q">>)>>, 1, in.operands)
            want == Reading("ok", [i \in 1 .. 2 |-> <<in.opts[i], IF in.opts[i] \in Valued(T) THEN "v" ELSE "">>], operands)
            pattern == WithPattern(parse_args(T, in.words \o operands), {"e"})
        IN  IF in.operands > T.most THEN parse_args(T, operands \o in.words).st = "error" ELSE
            /\ parse_args(T, in.words \o operands) = want
            /\ parse_args(T, operands \o in.words) = want
            /\ T.stop = "rest" => parse_args(T, in.words \o <<Word(2, <<"">>)>> \o operands) = want
            /\ in.opts[1] \in T.next => parse_args(T, operands \o <<Word(1, <<in.opts[1]>>)>>).st = "error"
            /\ in.tool \in {"grep", "rg"} =>
                  Len(pattern.files) = in.operands - (IF "e" \in Range(in.opts) \/ in.operands = 0 THEN 0 ELSE 1)

-----------------------------------------------------------------------------
\* grep and rg

Plain == [invert |-> FALSE, count |-> FALSE, list |-> FALSE, without |-> FALSE, quiet |-> FALSE, max |-> -1, before |-> 0, after |-> 0]

Grep == Give("grep", {[text |-> x, invert |-> v, max |-> n] : x \in BoundedSeq({"m", "o"}, 5), v \in BOOLEAN, n \in {-1, 1, 2}})

\* The modes of grep tell the same story: -c counts the lines a plain run
\* prints, -q, -l and -c agree on whether there is one, -L names exactly the
\* files -l does not, -v prints the other lines, -m the first of them; and an
\* unreadable file changes nothing for the rest.
GrepModesAgree ==
    tool = "grep" =>
        LET o == [Plain EXCEPT !.invert = in.invert, !.max = in.max]
            plain == search_reader(in.text, o)
            other == search_reader(in.text, [Plain EXCEPT !.invert = ~in.invert])
            all == search_reader(in.text, [o EXCEPT !.max = -1])
            Mode(f) == search_reader(in.text, [o EXCEPT ![f] = TRUE])
        IN  /\ Mode("count").count = Len(plain.printed)
            /\ {plain.found} = {Mode(f).found : f \in {"count", "quiet", "list", "without"}}
            /\ Mode("list").named = plain.found /\ Mode("without").named = ~plain.found
            /\ Range(all.printed) \cap Range(other.printed) = {} /\ Range(all.printed) \cup Range(other.printed) = DOMAIN in.text
            /\ IsPrefix(plain.printed, all.printed)
            /\ Len(plain.printed) = IF in.max = -1 THEN Len(all.printed) ELSE Min({in.max, Len(all.printed)})
            /\ run_grep(<<<<"unreadable">>, in.text>>, o) = run_grep(<<in.text>>, o)

Rg == Give("rg", {[text |-> x, before |-> b, after |-> a, max |-> n] :
                    x \in BoundedSeq({"m", "o", "b"}, 6), b \in 0 .. 2, a \in 0 .. 2, n \in {-1, 1}})

\* rg prints, in order and once each, the matching lines before the first NUL
\* byte and the lines within the context of one of them (after the match that
\* reaches -m, none), with a separator exactly where lines are left out between
\* two lines printed; -c counts the matches among them.
RgContextIsExact ==
    tool = "rg" =>
        LET o == [Plain EXCEPT !.before = in.before, !.after = in.after, !.max = in.max]
            r == search_stream(in.text, o)
            nul == {i \in DOMAIN in.text : in.text[i] = "b"}
            end == IF nul = {} THEN Len(in.text) ELSE Min(nul) - 1
            hits == {i \in 1 .. end : in.text[i] = "m"}
            taken == IF in.max = 1 /\ hits # {} THEN {Min(hits)} ELSE hits
            near == {i \in 1 .. end : \E h \in taken : h - in.before <= i /\ i <= h + (IF in.max = 1 THEN 0 ELSE in.after)}
            shown == SelectSeq(r.lines, LAMBDA l : l.kind # "--")
        IN  /\ shown = [k \in 1 .. Cardinality(near) |->
                          LET i == SetToSortSeq(near, <)[k] IN Shown(IF i \in taken THEN "match" ELSE "context", i)]
            /\ \A k \in DOMAIN r.lines : r.lines[k].kind = "--" =>
                  /\ 1 < k /\ k < Len(r.lines)
                  /\ r.lines[k + 1].line > r.lines[k - 1].line + 1
            /\ (in.before + in.after > 0) => \A k \in 1 .. Len(r.lines) - 1 :
                  (r.lines[k].kind # "--" /\ r.lines[k + 1].kind # "--") => r.lines[k + 1].line = r.lines[k].line + 1
            /\ search_stream(in.text, [o EXCEPT !.count = TRUE]).matches = Cardinality(taken)
            /\ rg_run(<<in.text>>, [o EXCEPT !.quiet = TRUE]).status = rg_run(<<in.text>>, o).status

RgGlob == Give("rgglob", BoundedSeq({"a", "b", "*", "?"}, 4))

RECURSIVE GlobMeans(_, _)
GlobMeans(g, t) ==
    IF g = <<>> THEN t = <<>>
    ELSE IF g[1] = "*" THEN \E k \in 0 .. Len(t) : GlobMeans(Tail(g), SubSeq(t, k + 1, Len(t)))
    ELSE t # <<>> /\ (g[1] = "?" \/ g[1] = t[1]) /\ GlobMeans(Tail(g), Tail(t))

\* The matcher of -g, with its one place to go back to, finds a match when there
\* is one and only then, for names without a star; a file is searched exactly if
\* every glob lets it pass, a ! turning one around.
RgGlobsBacktrack ==
    tool = "rgglob" =>
        \A t \in BoundedSeq({"a", "b"}, 4) :
            /\ glob_match_chars(in, t) = GlobMeans(in, t)
            /\ should_include([name |-> t, types |-> {"x"}], [types |-> {}, nottypes |-> {"y"}, globs |-> <<[neg |-> TRUE, pat |-> in]>>])
                  = ~GlobMeans(in, t)

-----------------------------------------------------------------------------
\* diff

Texts == BoundedSeq({"x", "y"}, 3)

Op(tag, i, n, j, m) == [tag |-> tag, i |-> i, n |-> n, j |-> j, m |-> m]

\* the edit scripts from old (from line i on) to new (from line j on)
RECURSIVE Scripts(_, _, _, _)
Scripts(old, new, i, j) ==
    (IF i = Len(old) /\ j = Len(new) THEN {<<>>} ELSE {})
    \cup (IF i < Len(old) /\ j < Len(new) /\ old[i + 1] = new[j + 1]
          THEN {<<Op("equal", i, 1, j, 1)>> \o s : s \in Scripts(old, new, i + 1, j + 1)} ELSE {})
    \cup UNION {{<<Op("delete", i, n, j, 0)>> \o s : s \in Scripts(old, new, i + n, j)} : n \in 1 .. Len(old) - i}
    \cup UNION {{<<Op("insert", i, 0, j, m)>> \o s : s \in Scripts(old, new, i, j + m)} : m \in 1 .. Len(new) - j}
    \cup UNION {{<<Op("replace", i, nm[1], j, nm[2])>> \o s : s \in Scripts(old, new, i + nm[1], j + nm[2])} :
                  nm \in (1 .. Len(old) - i) \X (1 .. Len(new) - j)}

Diff == Give("diff", UNION {{[old |-> a, new |-> b, ops |-> s] : s \in Scripts(a, b, 0, 0)} : a \in Texts, b \in Texts})

\* patch: apply the hunks from the last to the first, checking what they remove
RECURSIVE Patched(_, _)
Patched(text, hunks) ==
    IF hunks = <<>> THEN text
    ELSE LET h == Last(hunks)
             from == IF h.cmd = "a" THEN h.from[1] ELSE h.from[1] - 1
             upto == IF h.cmd = "a" THEN h.from[1] ELSE h.from[2]
         IN  IF upto > Len(text) \/ SubSeq(text, from + 1, upto) # h.gone THEN <<"rejected">>
             ELSE Patched(SubSeq(text, 1, from) \o h.come \o SubSeq(text, upto + 1, Len(text)), Front(hunks))

\* Whatever edit script the similar crate finds, what diff prints is a patch: its
\* line numbers applied to the old file, each hunk finding the lines it removes,
\* give the new file; and read backwards they give the old one.
DiffOutputPatches ==
    tool = "diff" =>
        LET hunks == normal_diff(in.ops, in.old, in.new)
            Back(h) == [cmd |-> CASE h.cmd = "a" -> "d" [] h.cmd = "d" -> "a" [] OTHER -> "c",
                        from |-> h.to, to |-> h.from, gone |-> h.come, come |-> h.gone]
        IN  /\ Patched(in.old, hunks) = in.new
            /\ Patched(in.new, [k \in DOMAIN hunks |-> Back(hunks[k])]) = in.old

DiffLines == BoundedSeq({<<>>, <<" ">>, <<"a">>, <<"A">>, <<"a", " ", "a">>, <<"a", " ", " ", "a">>, <<" ", "a">>}, 2)
DiffIgnoring == Give("ignoring", {[lines |-> x, case |-> k, space |-> s, blank |-> b] :
                                    x \in DiffLines, k \in BOOLEAN, s \in BOOLEAN, b \in BOOLEAN})

\* The lines diff ignores may stand anywhere: with -B a blank line put in, with
\* -w blanks doubled or put at the ends, with -i letters changed in case, never
\* make two files differ; without the option they always do.
IgnoredIsIgnored ==
    tool = "ignoring" =>
        LET o == [case |-> in.case, space |-> in.space, blank |-> in.blank]
            Differs(b) == diff_files(in.lines, b, o)
            wider == [i \in DOMAIN in.lines |-> in.lines[i] \o <<" ">>]
            upper == [i \in DOMAIN in.lines |-> [k \in DOMAIN in.lines[i] |-> IF in.lines[i][k] = "a" THEN "A" ELSE in.lines[i][k]]]
        IN  /\ \A k \in 0 .. Len(in.lines) : Differs(InsertAt(in.lines, k + 1, <<" ">>)) = ~in.blank
            /\ Differs(wider) = (in.lines # <<>> /\ ~in.space /\ wider # in.lines
                                 /\ ~(in.blank /\ \A i \in DOMAIN in.lines : Range(in.lines[i]) \subseteq {" "}))
            /\ Differs(upper) = (upper # in.lines /\ ~in.case)

TextEntry(x) == [kind |-> "text", text |-> x, sub |-> <<>>]
DirEntry(sub) == [kind |-> "dir", text |-> "", sub |-> sub]
SmallDirs == UNION {[S -> {TextEntry("1"), TextEntry("2")}] : S \in SUBSET {"m", "n"}}
Entries == {TextEntry("1"), TextEntry("2")} \cup {DirEntry(d) : d \in SmallDirs}
BigDirs == UNION {[S -> Entries] : S \in SUBSET {"m", "n"}}
DiffDirs == Give("dirs", {[a |-> x, b |-> y] : x \in BigDirs, y \in BigDirs})

\* diff -r of a directory with itself finds nothing, it finds the same entries
\* from both sides, and it is silent only about equal directories, but for a file
\* that equals the one of its own name inside the directory it is compared with.
DiffDirsSymmetric ==
    tool = "dirs" =>
        LET found == diff_dirs(in.a, in.b, <<>>)
            turned == {[x EXCEPT !.side = CASE @ = "a" -> "b" [] @ = "b" -> "a" [] OTHER -> @] : x \in diff_dirs(in.b, in.a, <<>>)}
            Inside(d, e, n) == d[n].kind = "dir" /\ e[n].kind = "text" /\ n \in DOMAIN d[n].sub /\ d[n].sub[n] = e[n]
        IN  /\ turned = found
            /\ in.a = in.b => found = {}
            /\ (found = {} /\ in.a # in.b) => \E n \in DOMAIN in.a : Inside(in.a, in.b, n) \/ Inside(in.b, in.a, n)

-----------------------------------------------------------------------------
\* column, strings, yq

Columns == Give("columns", {w \in BoundedSeq(1 .. 9, 4) : w # <<>>})
ColumnTable == Give("table", BoundedSeq(BoundedSeq(0 .. 2, 3), 3))

\* Entries never run into each other: in every row each starts at least two
\* blanks after the end of the one before, all rows start their columns at the
\* same places, and no row is wider than the terminal unless a single entry is;
\* a table keeps its cells apart in the same way.
ColumnsDoNotTouch ==
    /\ tool = "columns" =>
        LET c == format_columns(in) IN
        /\ \A i, j \in DOMAIN in : (i < j /\ c[i].row = c[j].row) => c[i].at + in[i] + 2 <= c[j].at
        /\ \A i \in DOMAIN in : c[i].at + in[i] <= TermWidth \/ c[i].at = 0
        /\ \A i \in 1 .. Len(in) - 1 : c[i + 1].row \in {c[i].row, c[i].row + 1}
    /\ tool = "table" =>
        LET t == format_table(in) IN
        \A i, k \in DOMAIN in : \A j \in DOMAIN in[i] :
            /\ j + 1 \in DOMAIN in[i] => t[i][j] + in[i][j] + 2 <= t[i][j + 1]
            /\ j \in DOMAIN in[k] => t[i][j] = t[k][j]

Strings == Give("strings", {[data |-> d, min |-> n] : d \in BoundedSeq(0 .. 1, 7), n \in 1 .. 3})

\* strings prints the maximal runs of printable bytes of the minimal length, all
\* of them, in order, each at its offset, the one that ends the data too.
StringsAreTheRuns ==
    tool = "strings" =>
        LET n == Len(in.data)
            runs == {r \in (1 .. n) \X (1 .. n) :
                       /\ r[2] - r[1] + 1 >= in.min /\ \A k \in r[1] .. r[2] : in.data[k] # 0
                       /\ r[1] = 1 \/ in.data[r[1] - 1] = 0
                       /\ r[2] = n \/ in.data[r[2] + 1] = 0}
        IN  extract_strings(in.data, in.min) =
               [k \in 1 .. Cardinality(runs) |->
                  LET r == SetToSortSeq(runs, LAMBDA x, y : x[1] < y[1])[k] IN <<r[1] - 1, SubSeq(in.data, r[1], r[2])>>]

Elem(n, a, t, kids) == [name |-> n, attrs |-> a, text |-> t, kids |-> kids]
XmlAttrs == {<<>>} \cup {[id |-> v] : v \in {<<"1">>, <<"&", "amp;">>, <<"&", "amp;", "amp;">>}}
XmlTexts == {<<>>, <<<<"t">>>>, <<<<"&", "amp;">>>>, <<<<"&", "amp;", "amp;">>>>, <<<<"t">>, CData, <<"u">>>>, <<<<"t", "&", "nbsp;">>>>}
XmlLeaves == {Elem(n, a, t, <<>>) : n \in {"x", "y"}, a \in XmlAttrs, t \in XmlTexts}
XmlPlain == {Elem(n, a, t, <<>>) : n \in {"x", "y"}, a \in {<<>>, [id |-> <<"1">>]}, t \in {<<>>, <<<<"t">>>>}}
Xml == Give("xml", {<<e>> : e \in XmlLeaves \cup {Elem("x", a, t, k) : a \in XmlAttrs, t \in XmlTexts, k \in BoundedSeq(XmlLeaves, 1)}
                                \cup {Elem("x", a, t, k) : a \in XmlAttrs, t \in XmlTexts, k \in BoundedSeq(XmlPlain, 3)}})

RECURSIVE Elements(_)
Elements(e) == <<e>> \o FlattenSeq([i \in DOMAIN e.kids |-> Elements(e.kids[i])])

\* XML written from the JSON of an XML document holds as many elements, and the
\* root has the same text; it reads back as the same JSON, and the root has the
\* same attributes. Text in CDATA sections and runs of text with an
\* entity that is not predefined are excepted: reading drops them. Attributes with
\* an escaped character are excepted too: they are read as they stand and escaped
\* again, so that each round trip makes "&amp;" one escape longer.
XmlSurvivesJson ==
    tool = "xml" =>
        LET json == xml_to_json(in)
            once == json_to_xml(json)
            read == SelectSeq(in[1].text, LAMBDA run : run # CData /\ "nbsp;" \notin Range(run))
            escapes == \E e \in Range(Elements(in[1])) : \E x \in DOMAIN e.attrs : "&" \in Range(e.attrs[x])
        IN  /\ Len(once) = 1 /\ Len(Elements(once[1])) = Len(Elements(in[1]))
            /\ FlattenSeq(once[1].text) = FlattenSeq(read)
            /\ ~escapes => xml_to_json(once) = json /\ once[1].attrs = in[1].attrs

TomlLeaves == {[k |-> "nan"], [k |-> "date", s |-> "d"], Str("s"), [k |-> "int"]}
Toml1 == TomlLeaves \cup {Arr(a) : a \in BoundedSeq(TomlLeaves, 2)} \cup {Obj([x |-> v]) : v \in TomlLeaves}
Toml == Give("toml", {Obj([x |-> v, y |-> w]) : v \in Toml1, w \in Toml1} \cup {Arr(<<v, w>>) : v \in Toml1, w \in Toml1})

RECURSIVE HasNan(_), DatesAsStrings(_)
HasNan(v) == CASE v.k = "arr" -> \E i \in DOMAIN v.a : HasNan(v.a[i])
               [] v.k = "obj" -> \E x \in DOMAIN v.f : HasNan(v.f[x])
               [] OTHER -> v.k = "nan"
DatesAsStrings(v) == CASE v.k = "arr" -> Arr([i \in DOMAIN v.a |-> DatesAsStrings(v.a[i])])
                       [] v.k = "obj" -> Obj([x \in DOMAIN v.f |-> DatesAsStrings(v.f[x])])
                       [] OTHER -> IF v.k = "date" THEN Str(v.s) ELSE v

\* TOML taken through JSON and back is the same document with its dates as
\* strings, or an error if it holds a number JSON has not; no part is dropped.
TomlThroughJson ==
    tool = "toml" => json_to_toml(toml_to_json(in)) = IF HasNan(in) THEN NoToml ELSE DatesAsStrings(in)

-----------------------------------------------------------------------------
(***************************************************************************)
(* find, fd, tree and du on small trees: files, directories, and links to  *)
(* the root, to a directory, to a file and to nowhere.                     *)
(***************************************************************************)

TreeNames == <<".h", "a", "b">>

FileOf(size) == [kind |-> "file", size |-> size, target |-> <<>>]
DirOf == [kind |-> "dir", size |-> 0, target |-> <<>>]
LinkTo(loc) == [kind |-> "link", size |-> 0, target |-> loc]

\* what can be under a name, as a function from the locations below it
Single(n) == {<<n>> :> x : x \in {FileOf(0), FileOf(1500), DirOf, LinkTo(<<>>), LinkTo(<<"zz">>)}}
Leaf2(d, n) == {<<>> :> DirOf} \cup {<<d, n>> :> x : x \in {FileOf(1), LinkTo(<<"b">>), LinkTo(<<d>>), DirOf}}
Nested(d) == {(<<d>> :> DirOf) @@ x @@ y : x \in Leaf2(d, ".h"), y \in Leaf2(d, "b")}
Tree3 == {(<<"a">> :> DirOf) @@ (<<"a", "a">> :> DirOf) @@ (<<"a", "a", n>> :> x) @@ (<<"a", "b">> :> FileOf(2000)) :
            n \in {".h", "b"}, x \in {FileOf(3000), LinkTo(<<>>)}}

Trees == {(<<>> :> DirOf) @@ x @@ y : x \in Single(".h") \cup Single("a") \cup Nested(".h") \cup Nested("a") \cup Tree3,
                                        y \in Single("b") \cup {<<>> :> DirOf}}

Root == Entry(<<>>, 0)

\* Every way to reach an entry from the root by names, links being followed:
\* display path and entry. Link names may be passed MaxLinks times.
RECURSIVE Reached(_, _)
Reached(t, n) ==
    IF n = 0 THEN {<<<<>>, Root>>}
    ELSE LET less == Reached(t, n - 1) IN
         less \cup {y \in {<<Append(x[1], n1), Child(Followed(t, x[2]), n1)>> :
                             x \in {y \in less : IsDir(t, y[2])}, n1 \in Range(Names)} : y[2].loc \in DOMAIN t}

\* deep enough for every path through MaxLinks links
Deepest == 3 * (MaxLinks + 1)

-----------------------------------------------------------------------------
\* find

FindExprs == {{}, {<<Signed("dir", TRUE)>>}, {<<Signed("link", FALSE), Signed("empty", TRUE)>>},
              {<<Signed("b", TRUE)>>, <<Signed("file", TRUE), Signed("empty", FALSE)>>}}
Find == Give("find", {[tree |-> t, expr |-> x, max |-> m, min |-> n] :
                        t \in Trees, x \in FindExprs, m \in {-1, 0, 1, 2}, n \in {0, 1}})

\* a comes before b in a walk that visits parents first and siblings by name
RankOf(n) == CHOOSE i \in DOMAIN Names : Names[i] = n
VisitedBefore(a, b) ==
    \/ IsStrictPrefix(a, b)
    \/ \E k \in 1 .. Len(a) : /\ k <= Len(b)
                              /\ SubSeq(a, 1, k - 1) = SubSeq(b, 1, k - 1)
                              /\ RankOf(a[k]) < RankOf(b[k])

\* find prints each path that can be reached from its start, links to
\* directories followed until the kernel refuses, once, if it is within the two
\* depths and satisfies the expression, parents first and siblings in order; and
\* nothing else: a link to the start makes no endless walk.
FindIsExhaustive ==
    tool = "find" =>
        LET t == in.tree
            out == find_walk(t, Root, <<>>, 0, in)
            due == {x[1] : x \in {y \in Reached(t, Deepest) :
                        /\ Len(y[1]) >= in.min /\ Within(Len(y[1]), in.max)
                        /\ in.expr = {} \/ \E alt \in in.expr :
                                \A i \in DOMAIN alt : find_test(t, y[2], alt[i].test) = alt[i].sign}}
        IN  /\ Range(out) = due
            /\ \A i, j \in DOMAIN out : i < j => VisitedBefore(out[i], out[j])

FindWords == {"dir", "b", "!", "-a", "-o", "(", ")", "max1"}
FindLine == Give("find_line", BoundedSeq(FindWords, 5))

\* A reading of the same words that knows nothing of the program: the words as a
\* formula over two tests, "or" binding weaker than "and", "!" strongest, "-a"
\* and a depth limit being true. What is no formula reads as {}.
RECURSIVE OrReading(_), AndReading(_), NotReading(_)
Both == {{}, {"dir"}, {"b"}, {"dir", "b"}}
Ways(a) == {k \in 1 .. Len(a) - 1 : TRUE}
NotReading(a) ==
    CASE a = <<>> -> {}
      [] Len(a) = 1 /\ a[1] \in {"dir", "b"} -> {{v \in Both : a[1] \in v}}
      [] a = <<"max1">> -> {Both}
      [] a[1] = "!" -> {Both \ v : v \in NotReading(Tail(a))}
      [] a[1] = "(" /\ a[Len(a)] = ")" /\ Len(a) > 2 -> OrReading(SubSeq(a, 2, Len(a) - 1))
      [] OTHER -> {}
AndReading(a) ==
    NotReading(a) \cup UNION {{v \cap w : v \in AndReading(SubSeq(a, 1, k)),
                                          w \in NotReading(SubSeq(a, IF a[k + 1] = "-a" THEN k + 2 ELSE k + 1, Len(a)))} : k \in Ways(a)}
OrReading(a) ==
    AndReading(a) \cup UNION {{v \cup w : v \in OrReading(SubSeq(a, 1, k - 1)), w \in AndReading(SubSeq(a, k + 1, Len(a)))} :
                                 k \in {j \in 2 .. Len(a) - 1 : a[j] = "-o"}}

\* A line find accepts and that is a formula is read as that formula: it never
\* takes one for another, and what its one-level grammar cannot say (a group or
\* a ! after -o, a second -o) is an error. The only panic is a trailing -o. A
\* depth limit counts wherever it stands outside of parentheses.
FindMisreadsNothing ==
    tool = "find_line" =>
        LET p == find_parse(in)
            Holds(v, x) == x.sign = (x.test \in v \cup {"max1"})
            read == {v \in Both : p.expr = {} \/ \E alt \in p.expr : \A i \in DOMAIN alt : Holds(v, alt[i])}
            formula == OrReading(in)
        IN  /\ (p.st = "ok" /\ formula # {}) => read \in formula
            /\ p.st = "panic" => in[Len(in)] = "-o"
            /\ (p.st = "ok" /\ "(" \notin Range(in)) => (p.max = 1) = ("max1" \in Range(in))

GlobPieces == {<<"a">>, <<"b">>, <<"*">>, <<"?">>, <<"[", "a", "b", "]">>, <<"[", "!", "a", "]">>, <<"[", "b", "!", "]">>}
Glob == Give("glob", BoundedSeq(GlobPieces, 3))

\* what a glob means, piece by piece
RECURSIVE Means(_, _)
Means(g, s) ==
    IF g = <<>> THEN s = <<>>
    ELSE IF g[1] = <<"*">> THEN \E k \in 0 .. Len(s) : Means(Tail(g), SubSeq(s, k + 1, Len(s)))
    ELSE s # <<>> /\ Means(Tail(g), Tail(s))
         /\ (CASE g[1] = <<"?">> -> TRUE
               [] Len(g[1]) > 1 /\ g[1][2] = "!" -> s[1] # "a"
               [] Len(g[1]) > 1 -> s[1] \in Range(g[1]) \ {"[", "]"}
               [] OTHER -> s[1] = g[1][1])

GlobNames == BoundedSeq({"a", "b", "!"}, 3)

\* A pattern of find matches exactly the names the shell's glob would; the
\* simpler patterns of tree -I match at least those.
GlobsMatchNames ==
    tool = "glob" =>
        \A s \in GlobNames :
            /\ glob_to_regex(FlattenSeq(in), s) = Means(in, s)
            /\ (Means(in, s) /\ \A i \in DOMAIN in : in[i] \in {<<"a">>, <<"b">>, <<"*">>})
                  => matches_exclude(s, FlattenSeq(in))

-----------------------------------------------------------------------------
\* fd, tree, du

Fd == Give("fd", {[tree |-> t, hidden |-> h, type |-> y, names |-> n, max |-> m] :
                    t \in Trees, h \in BOOLEAN, y \in {"", "f", "d", "l"}, n \in {{}, {"b"}}, m \in {-1, 1, 2}})

\* fd finds what find finds for the same test, less its start and, without -H,
\* everything hidden or below something hidden; the status says whether there
\* was anything.
FdFindsWhatFindFinds ==
    tool = "fd" =>
        LET t == in.tree
            tests == (CASE in.type = "f" -> <<Signed("file", TRUE)>> [] in.type = "d" -> <<Signed("dir", TRUE)>>
                        [] in.type = "l" -> <<Signed("link", TRUE)>> [] OTHER -> <<>>)
                     \o (IF in.names = {} THEN <<>> ELSE <<Signed("b", TRUE)>>)
            all == find_walk(t, Root, <<>>, 0, [expr |-> {tests}, max |-> in.max, min |-> 1])
            out == fd_walk(t, Root, <<>>, 0, in)
        IN  /\ out = SelectSeq(all, LAMBDA p : in.hidden \/ Range(p) \cap Hidden = {})
            /\ fd_status(out) = (IF out = <<>> THEN 1 ELSE 0)

Tree == Give("tree", {[tree |-> t, hidden |-> h, dirs_only |-> d, exclude |-> x, max |-> m] :
                        t \in Trees, h \in BOOLEAN, d \in BOOLEAN, x \in {{}, {"b"}}, m \in {-1, 1, 2}})

\* The drawing of tree can be read back: a line goes on at some level exactly
\* when a later entry of that level hangs on it, the paths read off the drawing
\* are the entries of the tree that no filter drops, links being leaves, and the
\* two counts at the end are the counts of the entries drawn.
TreeDrawingIsTheTree ==
    tool = "tree" =>
        LET t == in.tree
            w == walk_tree(t, Root, <<>>, 1, in)
            Level(i) == Len(w.list[i].bars)
            Parent(i) == CHOOSE j \in 0 .. i - 1 :
                            /\ IF j = 0 THEN Level(i) = 1 ELSE Level(j) = Level(i) - 1
                            /\ \A k \in j + 1 .. i - 1 : Level(k) >= Level(i)
            PathTo[i \in 0 .. Len(w.list)] == IF i = 0 THEN <<>> ELSE Append(PathTo[Parent(i)], w.list[i].name)
            kept == {p \in DOMAIN t \ {<<>>} :
                       /\ Within(Len(p), in.max)
                       /\ in.dirs_only => t[p].kind = "dir"
                       /\ \A k \in DOMAIN p : p[k] \notin in.exclude /\ (in.hidden \/ p[k] \notin Hidden)}
        IN  /\ {PathTo[i] : i \in DOMAIN w.list} = kept
            /\ Len(w.list) = Cardinality(kept)
            /\ w.dirs = Cardinality({p \in kept : t[p].kind = "dir"})
            /\ w.dirs + w.files = Len(w.list)
            /\ \A i \in DOMAIN w.list : w.list[i].bars[Level(i)] =
                  \E j \in i + 1 .. Len(w.list) : Level(j) = Level(i) /\ \A k \in i .. j : Level(k) >= Level(i)

Du == Give("du", {[tree |-> t, all |-> a, max |-> m] : t \in Trees, a \in BOOLEAN, m \in {-1, 0, 1, 2}})

\* Whatever -a, -s or -d leave out of the listing, the size du gives a directory
\* is the sum of the blocks of all files reached below it, links followed, each
\* as often as it is reached; every line printed once; and -c adds the arguments
\* it could read.
DuAddsUp ==
    tool = "du" =>
        LET t == in.tree
            w == walk_du(t, Root, <<>>, 0, in)
            files == {x \in Reached(t, Deepest) : IsFile(t, x[2])}
            SizeBelow(p) == MapThenSumSet(LAMBDA x : Blocks(t, x[2]), {x \in files : IsPrefix(p, x[1])})
            both == du_total(t, <<<<>>, <<"zz">>, <<"b">>>>, in)
        IN  /\ \A i \in DOMAIN w.lines : w.lines[i][2] = SizeBelow(w.lines[i][1])
            /\ \A i, j \in DOMAIN w.lines : i # j => w.lines[i][1] # w.lines[j][1]
            /\ {w.lines[i][1] : i \in DOMAIN w.lines} =
                  {x[1] : x \in {y \in Reached(t, Deepest) : Within(Len(y[1]), in.max) /\ (IsDir(t, y[2]) \/ (in.all /\ IsFile(t, y[2])))}}
            /\ both.status = 1
            /\ both.total = SizeBelow(<<>>) + (IF <<"b">> \in DOMAIN t THEN SizeBelow(<<"b">>) ELSE 0)

-----------------------------------------------------------------------------
\* tar and gzip

TarPaths == {<<>>, <<<<"a">>>>, <<<<"b">>, <<"a">>>>, <<<<".h">>, <<"zz">>, <<"b">>>>, <<<<"a", "b">>, <<".h">>>>}
Tar == Give("tar", {[tree |-> t, paths |-> p, strip |-> n] : t \in Trees, p \in TarPaths, n \in 0 .. 2})

Empty == <<>> :> DirOf

\* Extracting what tar -c made of a tree gives that part of the tree back, links
\* as links and their directories created on the way, whether the target is
\* empty or holds it already; --strip-components moves every entry up and drops
\* the ones above; and a path that is missing makes the status 1 but loses none
\* of the paths before it. -tv lists what was put in, a directory as one.
TarRoundTrip ==
    tool = "tar" =>
        LET t == in.tree
            made == do_create(t, in.paths)
            there == {p \in DOMAIN t : \E i \in DOMAIN in.paths :
                        IsPrefix(in.paths[i], p) /\ \A j \in 1 .. i : in.paths[j] \in DOMAIN t}
            upper == {q \in DOMAIN t : \E p \in there : IsPrefix(q, p)}
            Up(p) == SubSeq(p, in.strip + 1, Len(p))
            moved == {p \in upper : Len(p) > in.strip}
            once == do_extract(Empty, made.entries, in.strip)
            \* a link on the way, or two entries moved to one place
            clash == \E p, q \in moved : p # q /\ IsPrefix(Up(p), Up(q)) /\ (Up(p) = Up(q) \/ t[p].kind # "dir")
            listed == do_list(made.entries, TRUE)
        IN  /\ made.ok = (in.paths # <<>> /\ \A i \in DOMAIN in.paths : in.paths[i] \in DOMAIN t)
            /\ {listed[i].name : i \in DOMAIN listed} = there
            /\ \A i \in DOMAIN listed : (listed[i].type = "d") = (t[listed[i].name].kind = "dir")
            /\ ~clash => /\ once.ok
                         /\ DOMAIN once.tree = {<<>>} \cup {Up(p) : p \in moved}
                         /\ \A p \in moved : once.tree[Up(p)] = t[p]
            /\ once.ok => do_extract(once.tree, made.entries, in.strip) = once

TarFlagLists == {f \in UNION {[1 .. n -> {"c", "x", "z", "v"}] : n \in 1 .. 2} : "c" \in Range(f) \/ "x" \in Range(f)}
TarLine == Give("tar_line", {[flags |-> f, paths |-> SubSeq(<<<<"p">>, <<"z">>>>, 1, n), file |-> x, dir |-> d] :
                               f \in TarFlagLists, n \in 0 .. 2, x \in {<<"A">>, <<"A", ".tgz">>}, d \in {<<>>, <<"D">>}})

\* tar reads its options the same bundled or apart, with the dash on the first
\* word or without, with the archive's name attached to the f or after it; a
\* path that could be a bundle of flags stays a path; and the name alone tells
\* that the archive is compressed.
TarFlagsAnyWay ==
    tool = "tar_line" =>
        LET dir == IF in.dir = <<>> THEN <<>> ELSE <<<<"-", "C">>, in.dir>>
            lines == {<<<<"-">> \o in.flags \o <<"f">>, in.file>> \o dir \o in.paths,
                      <<in.flags \o <<"f">>, in.file>> \o in.paths \o dir,
                      [i \in DOMAIN in.flags |-> <<"-", in.flags[i]>>] \o dir \o <<<<"-", "f">> \o in.file>> \o in.paths,
                      [i \in DOMAIN in.flags |-> <<"-", in.flags[i]>>] \o in.paths \o <<<<"-", "f">>, in.file>> \o dir}
            last == Max({i \in DOMAIN in.flags : in.flags[i] \in {"c", "x"}})
        IN  \A a \in lines : tar_options(a) =
               [mode |-> in.flags[last], file |-> in.file, dir |-> in.dir, strip |-> 0, paths |-> in.paths, bad |-> FALSE,
                gzip |-> "z" \in Range(in.flags) \/ Last(in.file) = ".tgz"]
               /\ tar_status(tar_options(a), {<<"D">>}, TRUE) = 0
               /\ tar_status(tar_options(a), {}, TRUE) = IF in.dir = <<>> THEN 0 ELSE 1

GzNames == {<<"f">>, <<"f", ".gz">>, <<"f", ".tgz">>, <<"f", ".tar">>, <<"f", ".out">>}
Stored(name, n) == [of |-> name, layers |-> IF n = 0 THEN 0 ELSE 1, damaged |-> IF n = 2 THEN 1 ELSE 0]
GzFiles == UNION {[S -> {0, 1, 2}] : S \in SUBSET GzNames}
Gzip == Give("gzip", {[fs |-> [p \in DOMAIN f |-> Stored(p, f[p])], files |-> a,
                       o |-> [decompress |-> d, stdout |-> s, keep |-> k, force |-> FALSE]] :
                        f \in {g \in GzFiles : Cardinality(DOMAIN g) <= 3}, a \in {<<p>> : p \in GzNames} \cup {<<<<"f">>, <<"f", ".gz">>>>, <<<<"f", ".gz">>, <<"f", ".gz">>>>},
                        d \in BOOLEAN, s \in BOOLEAN, k \in BOOLEAN})

\* Without --force gzip never loses data: whatever it is given and in which
\* order, all that was stored whole is still stored whole, if compressed once
\* more or less; -c and a refusal change nothing; and when gzip succeeds on a
\* file, gunzip of its output gives the directory back as it was.
GzipLosesNothing ==
    tool = "gzip" =>
        LET r == gzip(in.fs, in.files, in.o)
            Whole(fs) == {fs[p].of : p \in {q \in DOMAIN fs : fs[q].damaged = 0}}
            one == gzip_file(in.fs, in.files[1], [in.o EXCEPT !.decompress = FALSE, !.keep = FALSE])
            back == gzip_file(one.fs, OutName(in.files[1], FALSE), [in.o EXCEPT !.decompress = TRUE, !.keep = FALSE])
        IN  /\ Whole(in.fs) \subseteq Whole(r.fs)
            /\ \A p \in DOMAIN in.fs : p \notin Range(in.files) => p \in DOMAIN r.fs /\ r.fs[p] = in.fs[p]
            /\ in.o.stdout => r.fs = in.fs
            /\ (one.ok /\ ~in.o.stdout) => back = [fs |-> in.fs, ok |-> TRUE]

-----------------------------------------------------------------------------
(***************************************************************************)
(* file on short contents, as a file and on the standard input, and on     *)
(* command lines of three arguments.                                       *)
(***************************************************************************)

Pieces == {"sp", "nl", "nul", "bad", "{", "<?xml", "<!DOCTYPE html", "<html", "#!", "/usr/bin/env", "sh", "txt"}
Contents == BoundedSeq(Pieces, 3) \cup {p \o <<q, r, x>> : p \in BoundedSeq({"sp", "txt", "#!"}, 3), q \in {"sp", "txt"}, r \in {"sp", "{", "nul"}, x \in {"nul", "txt"}}
Regular(content, magic) == [kind |-> "file", content |-> content, magic |-> magic]

FileContent == Give("content", {Regular(c, m) : c \in Contents, m \in {"", "image/png", "video/x-new"}})

Described(name, file) == LET s == file_main(<<[is |-> "name", word |-> name]>>, [n \in {name} |-> file]) IN s.out[1].text

\* The same bytes are described alike as a file and on the standard input,
\* although only the head of a file is read; only blanks that fill the head hide
\* a tag that the standard input shows.
StdinIsReadLikeAFile ==
    tool = "content" =>
        \/ Described("f", in) = Described("-", in)
        \/ skip_whitespace(take(in.content, HeadLen)) = <<>> /\ Len(in.content) > HeadLen

\* What is called plain text has no byte in its head that text does not have, what
\* is called data has one, and what has a magic number is called by it whatever
\* else it looks like.
TextIsWhatItLooks ==
    tool = "content" =>
        LET said == Described("f", in)
            odd == \E i \in 1 .. HeadLen : i <= Len(in.content) /\ in.content[i] \in {"nul", "ctl"}
        IN  /\ said = <<"ASCII text">> => ~odd
            /\ said = <<"data">> => odd
            /\ (in.magic = "image/png" /\ in.content # <<>>) => said = <<"PNG image data">>
            /\ (in.magic = "" /\ in.content = <<"#!", "/usr/bin/env", "sh">>) => said = <<"sh", "script">>

Short(letters) == [is |-> "short", letters |-> letters]
Long(word) == [is |-> "long", word |-> word]
Name(word) == [is |-> "name", word |-> word]
FileArgs == {Short(<<"b">>), Short(<<"b", "i">>), Short(<<"i", "x">>), Long("--mime"), Long("--no"), Name("f"), Name("-"), Name("d"), Name("gone"), Name("locked")}
FileTree == [n \in {"f", "-", "d", "gone", "locked"} |->
                CASE n = "f" -> Regular(<<"txt", "nl">>, "")
                  [] n = "-" -> Regular(<<"{">>, "")
                  [] n = "d" -> [kind |-> "dir", content |-> <<>>, magic |-> ""]
                  [] n = "gone" -> [kind |-> "none", content |-> <<>>, magic |-> ""]
                  [] n = "locked" -> [kind |-> "unreadable", content |-> <<"txt">>, magic |-> ""]]
FileLine == Give("fileline", {[args |-> a] : a \in BoundedSeq(FileArgs, 4)})

\* Every name that can be read has its line, in the order of the names and
\* whatever came before it, and the status tells whether one could not; options
\* mean the same in a cluster or apart, before the names or after them; a wrong
\* option stops the command before it prints.
FilesAreAnsweredInTurn ==
    tool = "fileline" =>
        LET said == file_main(in.args, FileTree)
            letters == UNION {ToSet(in.args[i].letters) : i \in {j \in DOMAIN in.args : in.args[j].is = "short"}}
            words == {in.args[i].word : i \in {j \in DOMAIN in.args : in.args[j].is = "long"}}
            named == SelectSeq(in.args, LAMBDA a : a.is = "name")
            names == [i \in DOMAIN named |-> named[i].word]
            readable == SelectSeq(names, LAMBDA n : n \notin {"gone", "locked"})
            bad == "x" \in letters \/ "--no" \in words \/ names = <<>>
            mimes == {said.out[i].text : i \in DOMAIN said.out}
        IN  IF bad THEN said.out = <<>> /\ said.status = 1
            ELSE /\ Len(said.out) = Len(readable)
                 /\ \A i \in DOMAIN readable : said.out[i].name = IF "b" \in letters THEN "" ELSE readable[i]
                 /\ (said.status = 0) = (readable = names)
                 /\ IF "i" \in letters \/ "--mime" \in words
                    THEN mimes \subseteq {<<"text/plain">>, <<"application/json">>, <<"inode/directory">>, <<"inode/x-empty">>}
                    ELSE mimes \subseteq {<<"ASCII text">>, <<"JSON text data">>, <<"directory">>, <<"empty">>}

\* The commands that walk, pack and tell files: each finds what is there, once,
\* and gives back what it was given.
FilesAreExact ==
    /\ FindIsExhaustive /\ FindMisreadsNothing /\ GlobsMatchNames
    /\ FdFindsWhatFindFinds /\ TreeDrawingIsTheTree /\ DuAddsUp
    /\ TarRoundTrip /\ TarFlagsAnyWay /\ GzipLosesNothing
    /\ StdinIsReadLikeAFile /\ TextIsWhatItLooks /\ FilesAreAnsweredInTurn

-----------------------------------------------------------------------------
\* the patterns of grep and rg, and where rg looks for them

PatternChars == {"a", "S", "(", "+", "\\", "."}
Pattern == Give("pattern", {[patterns |-> <<p>> \o q, mode |-> m, word |-> w = "w", line |-> w = "x", icase |-> FALSE, smart |-> TRUE] :
                              p \in BoundedSeq(PatternChars, 3), q \in {<<>>, <<<<"a">>>>, <<<<"S">>>>},
                              m \in {"basic", "extended", "fixed"}, w \in {"", "w", "x"}})

\* what the characters of an expression stand for: themselves, or something else
RECURSIVE Signs(_, _)
Signs(p, basic) ==
    LET special(c, escaped) == IF c \in {"a", "S"} THEN escaped
                               ELSE IF c \in Grouping \cup Repeating THEN basic = escaped
                               ELSE c = "." /\ ~escaped
    IN  IF p = <<>> THEN <<>>
        ELSE IF p = <<"\\">> THEN <<<<"\\", TRUE>>>>
        ELSE IF p[1] = "\\" THEN <<<<p[2], special(p[2], TRUE)>>>> \o Signs(SubSeq(p, 3, Len(p)), basic)
        ELSE <<<<p[1], special(p[1], FALSE)>>>> \o Signs(Tail(p), basic)

\* a basic pattern with an unescaped +, ? or |
HasBareSign(p) == \E c \in Repeating : <<c, FALSE>> \in Range(Signs(p, TRUE))
Converted(i) == build_single_pattern(i.patterns[1], [i EXCEPT !.word = FALSE, !.line = FALSE])

\* The expression grep makes of a basic pattern says, character by character, what
\* the pattern says, and a fixed one stands for itself; basic patterns with an
\* unescaped +, ? or | are excepted: the comment of convert_bre_to_ere has them
\* literal, the conversion leaves them special. And what rg adds for -w, -x or
\* several patterns never makes a search case-sensitive.
PatternsKeepTheirMeaning ==
    tool = "pattern" =>
        LET p == in.patterns[1]
            literal == [i \in DOMAIN p |-> <<p[i], FALSE>>]
            sure == \A i \in DOMAIN in.patterns : Range(in.patterns[i]) \cap Capitals = {}
            excepted == in.mode = "basic" /\ HasBareSign(p)
        IN  /\ excepted \/ Signs(Converted(in), FALSE) = IF in.mode = "fixed" THEN literal ELSE Signs(p, in.mode = "basic")
            /\ rg_build_regex(in).insensitive = sure
            /\ in.mode # "basic" => rg_build_regex(in).pattern = build_regex(in).pattern
            /\ grep_mode(CASE in.mode = "basic" -> "grep" [] in.mode = "extended" -> "egrep" [] OTHER -> "fgrep") = in.mode

WalkFile(kept) == [kind |-> "file", kept |-> kept, sub |-> <<>>, closed |-> FALSE]
WalkDir(sub, closed) == [kind |-> "dir", kept |-> TRUE, sub |-> sub, closed |-> closed]
WalkSubs == {WalkDir(f, FALSE) : f \in UNION {[S -> {WalkFile(TRUE), WalkFile(FALSE)}] : S \in SUBSET {-1, 1}}}
            \cup {WalkDir(1 :> WalkFile(TRUE), TRUE)}
WalkRoots == {WalkDir(f, FALSE) : f \in UNION {[S -> WalkSubs \cup {WalkFile(TRUE), WalkFile(FALSE)}] : S \in SUBSET {-1, 1}}}
RgWalk == Give("rgwalk", {[root |-> r, paths |-> p, hidden |-> h] : r \in WalkRoots, h \in BOOLEAN,
                            p \in {<<<<>>>>, <<<<1>>>>, <<<<-1>>>>, <<<<1>>, <<>>>>, <<<<1, 1>>, <<1>>>>}})

\* rg searches, in the order of the paths, every file an operand names, whatever
\* its name, and every file below one that is readable, kept by the filters and
\* not hidden on the way: once for each operand that leads to it.
RgSearchesWhatIsNamed ==
    tool = "rgwalk" =>
        LET files == collect_files(in.root, in.paths, in.hidden)
            Leads(p, f) ==
                LET from == NodeAt(in.root, p)
                IN  IF from.kind # "dir" THEN f = p
                    ELSE /\ IsStrictPrefix(p, f) /\ NodeAt(in.root, f).kind = "file" /\ NodeAt(in.root, f).kept
                         /\ \A k \in Len(p) .. Len(f) - 1 : ~NodeAt(in.root, SubSeq(f, 1, k)).closed
                         /\ in.hidden \/ \A k \in Len(p) + 1 .. Len(f) : f[k] >= 0
            all == {<<x>> : x \in {-1, 1}} \cup ({-1, 1} \X {-1, 1})
        IN  /\ \A f \in all : Cardinality({i \in DOMAIN files : files[i] = f})
                                = Cardinality({i \in DOMAIN in.paths : Leads(in.paths[i], f)})
            /\ Range(files) \subseteq all
            /\ \A i \in 1 .. Len(files) - 1 : ~PathLess(files[i + 1], files[i])

-----------------------------------------------------------------------------
\* jq, yq and awk

JqValues == {Null, [k |-> "false"], Str("x"), Arr(<<>>), Arr(<<Str("x"), Null>>)}
Stdin(values, bad) == [lines |-> [i \in 1 .. Len(values) + (IF bad THEN 1 ELSE 0) |-> "l"], values |-> values, bad |-> bad, garbled |-> FALSE]
JqOptions == [nullin : BOOLEAN, rawin : BOOLEAN, slurp : BOOLEAN, raw : BOOLEAN, compact : {TRUE}, exit : BOOLEAN, join : BOOLEAN,
              compiles : {TRUE}, filter : {".", ".,.", "empty", ".[]"}]
JqPlain(filter, slurp) == [nullin |-> FALSE, rawin |-> FALSE, slurp |-> slurp, raw |-> FALSE, compact |-> FALSE, exit |-> FALSE,
                         join |-> FALSE, compiles |-> TRUE, filter |-> filter]
Jq == Give("jq", {[o |-> o, stdin |-> s] : o \in JqOptions,
                    s \in {Stdin(v, FALSE) : v \in BoundedSeq(JqValues, 2)} \cup {Stdin(<<Null>>, TRUE), [Stdin(<<Null>>, FALSE) EXCEPT !.garbled = TRUE]}}
                 \cup {[o |-> [JqPlain(".", s) EXCEPT !.compiles = FALSE], stdin |-> Stdin(<<Null>>, FALSE)] : s \in BOOLEAN})

\* What jq prints without -r and -j is input for jq: slurped, it is the array of
\* the values printed, but nothing printed is read as null. Slurping and taking
\* the array apart again changes nothing. A status of 2 means that nothing was
\* printed, 5 that what was printed stays; with -e a null or false anywhere, not
\* only in the last place, makes the status 1.
JqFeedsJq ==
    tool = "jq" =>
        LET r == run_jq(in.o, in.stdin)
            values == [i \in DOMAIN r.out |-> r.out[i].text.v]
            again == run_jq(JqPlain(".", TRUE), Stdin(values, FALSE))
            falsy == \E i \in DOMAIN values : values[i] \in {Null, [k |-> "false"]}
            apart == run_jq([in.o EXCEPT !.slurp = TRUE, !.filter = ".[]"], in.stdin)
            whole == run_jq([in.o EXCEPT !.slurp = FALSE, !.filter = "."], in.stdin)
        IN  /\ again.status = 0 /\ Len(again.out) = 1
            /\ again.out[1].text.v = IF values = <<>> THEN Null ELSE Arr(values)
            /\ r.status = 2 => r.out = <<>>
            /\ r.status \in {0, 1} => (r.status = 1) = (in.o.exit /\ falsy)
            /\ (in.stdin.lines # <<>> \/ in.o.rawin) /\ ~in.o.nullin => apart = whole
            /\ \A i \in DOMAIN r.out : r.out[i].newline = ~in.o.join /\ (r.out[i].text.style = "bare" => in.o.raw)

YqValues == {Null, Str("x"), Arr(<<>>), Arr(<<Str("x")>>), Obj(<<"a">> :> Str("x")), Obj(<<"a">> :> Null), Obj(<<"a">> :> Arr(<<Str("x"), Null>>))}

\* External: the text a value has in a format, as far as yq looks at it; colon and
\* equals say whether one of its strings holds ": " or " = "
FirstOf(f, v, section) ==
    CASE f = "json" -> IF v.k = "obj" THEN "{" ELSE IF v.k = "arr" THEN "[" ELSE "x"
      [] f = "xml" -> "<"
      [] f = "yaml" -> IF v.k = "arr" /\ v.a = <<>> THEN "[" ELSE "x"
      [] f = "toml" -> IF section THEN "[" ELSE "x"
YqText(f, v, colon, equals, section) ==
    [first |-> FirstOf(f, v, section), colon |-> colon \/ (f \in {"json", "yaml"} /\ v.k = "obj"),
     equals |-> equals \/ (f = "toml" /\ ~section),
     reads |-> [g \in Formats |-> IF g = f \/ (g = "yaml" /\ f = "json") \/ (g = "json" /\ f = "yaml" /\ v = Arr(<<>>)) THEN v ELSE Unread]]
Yq == Give("yq", {[f |-> f, v |-> v, colon |-> c, equals |-> e, section |-> s,
                   o |-> [in |-> i, out |-> u, nullin |-> n, slurp |-> l, raw |-> r, filter |-> p, compiles |-> TRUE]] :
                    f \in Formats, v \in YqValues, c \in BOOLEAN, e \in BOOLEAN, s \in BOOLEAN,
                    i \in {"", "toml"}, u \in {"", "json", "toml"}, n \in BOOLEAN, l \in BOOLEAN, r \in BOOLEAN, p \in {".", ".[]"}})

\* yq finds out the format of what it wrote itself, and answers in it: only TOML
\* with ": " in a string is taken for YAML (and then refused), which -p repairs.
\* What cannot be written in TOML ends the run with 2, never with a text that
\* lacks it, and only jaq's own errors give 5.
YqKnowsItsFormats ==
    tool = "yq" =>
        LET t == YqText(in.f, in.v, in.colon, in.equals, in.section)
            written == in.f # "toml" \/ (in.v.k = "obj" /\ json_to_toml(in.v) # NoToml)
            r == run_yq(in.o, t)
            told == run_yq([in.o EXCEPT !.in = in.f], t)
        IN  written =>
            /\ detect_format(t) = (CASE in.f = "toml" /\ t.colon -> "yaml"
                                     [] in.f = "json" /\ in.v.k \notin {"obj", "arr"} -> "yaml"
                                     [] in.f = "yaml" /\ in.v = Arr(<<>>) -> "json"
                                     [] OTHER -> in.f)
            /\ (in.o.in = "" /\ ~in.o.nullin /\ ~(in.f = "toml" /\ t.colon)) =>
                   /\ r.status = told.status
                   /\ [i \in DOMAIN r.out |-> r.out[i].v] = [i \in DOMAIN told.out |-> told.out[i].v]
            /\ (in.o.filter = "." /\ ~in.o.nullin /\ ~in.o.slurp /\ in.o.out = "") => (told.out = <<[v |-> in.v, format |-> in.f]>> /\ told.status = 0)
            /\ \A i \in DOMAIN r.out : r.out[i].format = "toml" /\ ~in.o.raw => json_to_toml(r.out[i].v) # NoToml
            /\ r.status = 5 => in.o.filter = ".[]"

AwkWords == {[opt |-> "", text |-> "a"], [opt |-> "", text |-> "b"], [opt |-> "-f", text |-> "x"], [opt |-> "--", text |-> ""], [opt |-> "-z", text |-> ""]}
\* what follows "--" are files
AwkLines == {w \in BoundedSeq(AwkWords, 4) : \A i, k \in DOMAIN w : i < k /\ w[i].opt = "--" => w[k].opt = ""}
Awk == Give("awk", {[words |-> w, closed |-> c, codes |-> ("a" :> a @@ "b" :> 3 @@ "-" :> 0)] :
                      w \in AwkLines, c \in SUBSET {"b", "x"}, a \in {-1, 0, 5}})

\* Every word of awk's command line that is no option is either the program or an
\* input, in order; the program is the last file given with -f, before the word
\* "--", or else the first word. The inputs are run up to the first that fails,
\* and the status is then 2, else the one of the last input.
AwkRunsItsInputs ==
    tool = "awk" =>
        LET cut == SelectInSeq(in.words, LAMBDA w : w.opt = "--")
            head == IF cut = 0 THEN in.words ELSE SubSeq(in.words, 1, cut - 1)
            tail == IF cut = 0 THEN <<>> ELSE SubSeq(in.words, cut + 1, Len(in.words))
            free == SelectSeq(head, LAMBDA w : w.opt = "")
            given == \E i \in DOMAIN head : head[i].opt = "-f"
            lead == SelectInSeq(head, LAMBDA w : w.opt \in {"", "-f"})
            own == IF lead # 0 /\ head[lead].opt = "" THEN Tail(free) ELSE free
            texts == [i \in 1 .. Len(own) + Len(tail) |-> IF i <= Len(own) THEN own[i].text ELSE tail[i - Len(own)].text]
            inputs == IF texts = <<>> THEN <<"-">> ELSE texts
            r == run_awk(in.words, in.closed, in.codes)
            Fine(x) == x \notin in.closed /\ in.codes[x] # -1
        IN  IF lead = 0 \/ (given /\ "x" \in in.closed) THEN r = [program |-> "", ran |-> <<>>, status |-> 2]
            ELSE /\ r.program = IF given THEN "x" ELSE free[1].text
                 /\ IsPrefix(r.ran, inputs) /\ \A i \in DOMAIN r.ran : Fine(r.ran[i])
                 /\ IF r.ran = inputs THEN r.status = in.codes[Last(inputs)] ELSE r.status = 2 /\ ~Fine(inputs[Len(r.ran) + 1])

-----------------------------------------------------------------------------
\* the context format of diff, and the programs that only try something

\* The hunks of the context format hold every change once, and their headers number
\* the lines below them in both files. Without context (-C0) a hunk of insertions
\* alone is numbered from 1, wherever it stands.
ContextIsNumbered ==
    tool = "diff" =>
        \A radius \in 0 .. 2 :
            LET hunks == iter_hunks(in.ops, in.old, in.new, radius)
                sides == [h \in DOMAIN hunks |-> context_hunk(hunks[h])]
                Changed(s) == SelectSeq(s, LAMBDA c : c.tag # "equal")
                all == FlattenSeq([k \in DOMAIN in.ops |-> ChangesOf(in.ops[k], in.old, in.new)])
                Says(side, text, first, odd) ==
                    side.lines = <<>> \/ (radius = 0 /\ first.tag = odd)
                      \/ SubSeq(text, side.from, side.to) = [k \in DOMAIN side.lines |-> side.lines[k].text]
            IN  /\ FlattenSeq([h \in DOMAIN hunks |-> Changed(hunks[h])]) = Changed(all)
                /\ \A h \in DOMAIN hunks : /\ Says(sides[h].old, in.old, hunks[h][1], "insert")
                                           /\ Says(sides[h].new, in.new, hunks[h][1], "delete")
                /\ diff_status(2, TRUE, Changed(all) # <<>>) = IF hunks = <<>> THEN 0 ELSE 1

ProgramWords == {"--help", "-V", "--http-test", "--stub-test", "--model", "u", ""}
Program == Give("program", {[args |-> a, stdin |-> s, reply |-> r] : a \in BoundedSeq(ProgramWords, 3), s \in {"", "text"},
                              r \in {"error", "garbled", "tail", "text"}})

\* codex and codex-exec answer the same command line alike, but for what they are
\* for: one opens its window where the other wants a prompt. A request for help
\* or the version wins over everything, also inside a prompt. All programs that
\* try the HTTP client report a failed exchange by their status; only http-test
\* also reports a body it cannot read.
ProgramsAgree ==
    tool = "program" =>
        LET tui == codex_main(in.args, FALSE, in.stdin, in.reply)
            exec == codex_main(in.args, TRUE, in.stdin, in.reply)
            Test(cmd) == http_test_main(<<cmd, "u">>, in.reply)
            own == {"tui", "prompt", "usage"}
        IN  /\ (tui.does \in own) = (exec.does \in own)
            /\ tui.does \notin own => tui = exec
            /\ exec.does = "usage" => exec.status = 1 /\ (in.args = <<>> \/ in.args = <<"">>)
            /\ Asks(in.args, {"--help"}) => tui.does = "help"
            /\ (tui.does = "http" /\ Len(in.args) > 1) => (tui.status = 1) = (in.reply = "error")
            /\ codex_model(in.args) \in Range(in.args) \cup {"default"}
            /\ (http_test(<<"u">>, in.reply) = 1) => \A cmd \in {"get", "post", "headers", "sse", "put"} : Test(cmd) = 1
            /\ (Test("get") = 0) => Test("sse") = 0

Sleep == Give("sleep", {[words |-> w, millis |-> m, host |-> h, code |-> c, user |-> u, logname |-> l] :
                          w \in BoundedSeq({"w", "v"}, 2), m \in -1 .. MaxMillis + 2, h \in BOOLEAN, c \in -2 .. 2, u \in {"", "u"}, l \in {"", "l"}})

\* sleep waits for all of the time it is given, or fails; the host's clock counts
\* milliseconds in a u32 and waits no longer. spawn-test never reports success
\* for a child that a signal ended or that did not start, and whoami always has
\* a name to print.
SmallProgramsTell ==
    tool = "sleep" =>
        LET s == sleep(in.words, in.millis, in.host)
            t == spawn_test(in.words, in.code)
        IN  /\ s.status = 0 => s.slept = in.millis \/ (in.host /\ s.slept = MaxMillis /\ in.millis > MaxMillis)
            /\ t.status >= 0 /\ (t.status = 0) = (in.code = 0)
            /\ <<t.program>> \o t.args = IF in.words = <<>> THEN <<"echo">> ELSE in.words
            /\ whoami(in.user, in.logname) # ""

-----------------------------------------------------------------------------
(***************************************************************************)
(* The commands of the VM's registry, each called once on a small input.   *)
(***************************************************************************)

Init == AskFor({"xargs", "quote", "env", "wrapper", "test", "expr", "codex", "find", "find_line",
                "glob", "fd", "tree", "du", "tar", "tar_line", "gzip", "line", "grep", "rg",
                "rgglob", "diff", "ignoring", "dirs", "columns", "table", "strings", "xml", "toml",
                "content", "fileline", "pattern", "rgwalk", "jq", "yq", "awk", "program", "sleep"})

Next == \/ Xargs \/ Quoting \/ Env \/ Wrapper \/ TestCmd \/ Expr \/ Codex
        \/ Find \/ FindLine \/ Glob \/ Fd \/ Tree \/ Du \/ Tar \/ TarLine \/ Gzip
        \/ CommandLine \/ Grep \/ Rg \/ RgGlob \/ Diff \/ DiffIgnoring \/ DiffDirs
        \/ Columns \/ ColumnTable \/ Strings \/ Xml \/ Toml
        \/ FileContent \/ FileLine
        \/ Pattern \/ RgWalk \/ Jq \/ Yq \/ Awk \/ Program \/ Sleep

Spec == Init /\ [][Next]_vars

\* The commands that read a command line or a text: each passes on what it was
\* given, whatever the quoting, and prints what its definition says.
CommandsAreExact ==
    /\ XargsPassesEachItemOnce /\ QuotedItemsAreRead
    /\ EnvListsChildEnvironment /\ WrappedCommandUntouched
    /\ TestIsItsConnective /\ ExprFollowsPrecedence /\ TuiKeepsWhatIsTyped
    /\ CommandLinesReadBack /\ GrepModesAgree /\ RgContextIsExact
    /\ RgGlobsBacktrack /\ DiffOutputPatches /\ IgnoredIsIgnored
    /\ DiffDirsSymmetric /\ ColumnsDoNotTouch /\ StringsAreTheRuns
    /\ XmlSurvivesJson /\ TomlThroughJson
    /\ PatternsKeepTheirMeaning /\ RgSearchesWhatIsNamed /\ JqFeedsJq /\ YqKnowsItsFormats
    /\ AwkRunsItsInputs /\ ContextIsNumbered /\ ProgramsAgree /\ SmallProgramsTell
=============================================================================
