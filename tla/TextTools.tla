------------------------------ MODULE TextTools ------------------------------
(***************************************************************************)
(* The commands of the registry that read text: grep, rg, diff, column,    *)
(* strings, and yq's conversions. What a regular expression matches        *)
(* is given: a line is "m" (a match), "o" (no match) or, for rg, "b" (it   *)
(* holds a NUL byte).                                                      *)
(***************************************************************************)
EXTENDS Integers, Sequences, FiniteSets, SequencesExt, FiniteSetsExt

CONSTANT TermWidth    \* the width of the terminal column assumes

ASSUME TextToolsAssumption == TermWidth \in Nat

-----------------------------------------------------------------------------
\* grep: o has invert, count, list (-l), without (-L), quiet and max (-1: none)

LimitReached(count, o) == o.max >= 0 /\ count >= o.max

\* the loop of search_reader from line i: lines printed, matches counted, and
\* whether it returned from inside
RECURSIVE GrepLines(_, _, _, _, _)
GrepLines(lines, o, i, count, printed) ==
    IF i > Len(lines) THEN [count |-> count, printed |-> printed, early |-> FALSE]
    ELSE IF (lines[i] = "m") = o.invert THEN GrepLines(lines, o, i + 1, count, printed)
    ELSE IF o.quiet \/ o.list THEN [count |-> count + 1, printed |-> printed, early |-> TRUE]
    ELSE LET more == IF o.count \/ o.without THEN printed ELSE Append(printed, i) IN
         IF LimitReached(count + 1, o) THEN [count |-> count + 1, printed |-> more, early |-> FALSE]
         ELSE GrepLines(lines, o, i + 1, count + 1, more)

\* what is written for one file: the lines, a count (-1: none), the name
search_reader(lines, o) ==
    LET g == GrepLines(lines, o, 1, 0, <<>>) IN
    [printed |-> g.printed,
     count |-> IF o.count /\ ~o.quiet /\ ~g.early THEN g.count ELSE -1,
     named |-> (g.early /\ ~o.quiet) \/ (o.without /\ g.count = 0),
     found |-> g.count > 0]

\* files is a sequence of texts, <<"unreadable">> for one that cannot be opened
run_grep(files, o) ==
    LET readable == SelectSeq(files, LAMBDA f : f # <<"unreadable">>)
        each == [i \in DOMAIN readable |-> search_reader(readable[i], o)]
    IN  [each |-> each, status |-> IF \E i \in DOMAIN each : each[i].found THEN 0 ELSE 1]

-----------------------------------------------------------------------------
\* rg: o has also before, after and only (-o: one line per match, here one)

Shown(kind, n) == [kind |-> kind, line |-> n]
Separator == [kind |-> "--", line |-> 0]

\* mutant: a group that touches the last line printed is separated too
SeparatesTouching(first, last) == last > 0 /\ first > last

\* first is the first line of a new group, last the last line printed
NeedsSeparator(first, last) == last > 0 /\ first > last + 1

collect_lines(o) == ~(o.quiet \/ o.list \/ o.without \/ o.count)

\* s: lines, before (line numbers waiting), left (after_remaining), last, matches
MatchedLine(s, i, o) ==
    LET first == IF s.before = <<>> THEN i ELSE s.before[1]
        sep == IF (o.before > 0 \/ o.after > 0) /\ NeedsSeparator(first, s.last) THEN <<Separator>> ELSE <<>>
        waiting == SelectSeq(s.before, LAMBDA n : n > s.last)
        context == [k \in DOMAIN waiting |-> Shown("context", waiting[k])]
    IN  IF ~collect_lines(o) THEN [s EXCEPT !.matches = @ + 1]
        ELSE [lines |-> s.lines \o sep \o context \o <<Shown("match", i)>>, before |-> <<>>, left |-> o.after, last |-> i,
              matches |-> s.matches + 1, binary |-> FALSE]

OtherLine(s, i, o) ==
    IF ~collect_lines(o) THEN s
    ELSE IF s.left > 0 THEN [s EXCEPT !.lines = Append(@, Shown("context", i)), !.last = i, !.left = @ - 1]
    ELSE IF o.before = 0 THEN s
    ELSE [s EXCEPT !.before = IF Len(@) >= o.before THEN Append(Tail(@), i) ELSE Append(@, i)]

RECURSIVE StreamFrom(_, _, _, _)
StreamFrom(text, o, i, s) ==
    IF i > Len(text) THEN s
    ELSE IF text[i] = "b" THEN [s EXCEPT !.binary = TRUE]
    ELSE IF (text[i] = "m") = o.invert THEN StreamFrom(text, o, i + 1, OtherLine(s, i, o))
    ELSE LET t == MatchedLine(s, i, o) IN
         IF o.quiet \/ o.list \/ (o.max >= 0 /\ t.matches >= o.max) THEN t ELSE StreamFrom(text, o, i + 1, t)

search_stream(text, o) ==
    StreamFrom(text, o, 1, [lines |-> <<>>, before |-> <<>>, left |-> 0, last |-> 0, matches |-> 0, binary |-> FALSE])

\* what is written for one file; named: it has a name to print
print_file_result(r, o, named) ==
    CASE r.binary -> IF r.matches > 0 /\ named THEN <<Shown("binary", 0)>> ELSE <<>>
      [] ~r.binary /\ o.list -> IF r.matches > 0 THEN <<Shown("name", 0)>> ELSE <<>>
      [] ~r.binary /\ ~o.list /\ o.without -> IF r.matches = 0 THEN <<Shown("name", 0)>> ELSE <<>>
      [] ~r.binary /\ ~o.list /\ ~o.without /\ o.count -> <<Shown("count", r.matches)>>
      [] OTHER -> r.lines

\* run: with -q the first file that matches ends the search
rg_run(files, o) ==
    LET each == [i \in DOMAIN files |-> search_stream(files[i], o)]
        found == {i \in DOMAIN files : each[i].matches > 0}
    IN  [out |-> IF o.quiet THEN <<>> ELSE [i \in DOMAIN files |-> print_file_result(each[i], o, Len(files) > 1)],
         status |-> IF found = {} THEN 1 ELSE 0]

\* the globs of -g: two pointers, and the last star to go back to
RECURSIVE GlobFrom(_, _, _, _, _, _)
GlobFrom(p, t, pi, ti, starP, starT) ==
    IF ti > Len(t) THEN \A k \in pi .. Len(p) : p[k] = "*"
    ELSE IF pi <= Len(p) /\ (p[pi] = "?" \/ p[pi] = t[ti]) THEN GlobFrom(p, t, pi + 1, ti + 1, starP, starT)
    ELSE IF pi <= Len(p) /\ p[pi] = "*" THEN GlobFrom(p, t, pi + 1, ti, pi, ti)
    ELSE IF starP # 0 THEN GlobFrom(p, t, starP + 1, starT + 1, starP, starT + 1)
    ELSE FALSE

glob_match_chars(p, t) == GlobFrom(p, t, 1, 1, 0, 0)

\* a pattern that starts with "*." is a plain suffix
glob_matches(p, name) ==
    IF IsPrefix(<<"*", ".">>, p) THEN IsSuffix(Tail(p), name) ELSE glob_match_chars(p, name)

\* f has a name and the types its extension belongs to; o has types, nottypes
\* and globs, each with neg and pat
should_include(f, o) ==
    /\ o.types = {} \/ f.types \cap o.types # {}
    /\ f.types \cap o.nottypes = {}
    /\ \A i \in DOMAIN o.globs : glob_matches(o.globs[i].pat, f.name) # o.globs[i].neg

-----------------------------------------------------------------------------
\* diff. An edit script, as the similar crate computes it: operations that cover
\* both files from their start to their end, each with the lines it is about
\* (old from i, n of them; new from j, m of them; indices from 0).

AddedAfter(op) == op.i

\* format_range: first and last line
format_range(start, len) == <<start, start + len - 1>>

NormalHunk(op, old, new) ==
    LET gone == SubSeq(old, op.i + 1, op.i + op.n)
        come == SubSeq(new, op.j + 1, op.j + op.m)
    IN  CASE op.tag = "delete" -> [cmd |-> "d", from |-> format_range(op.i + 1, op.n), to |-> <<op.j>>, gone |-> gone, come |-> <<>>]
          [] op.tag = "insert" -> [cmd |-> "a", from |-> <<AddedAfter(op)>>, to |-> format_range(op.j + 1, op.m), gone |-> <<>>, come |-> come]
          [] op.tag = "replace" -> [cmd |-> "c", from |-> format_range(op.i + 1, op.n), to |-> format_range(op.j + 1, op.m), gone |-> gone, come |-> come]

normal_diff(ops, old, new) ==
    LET changes == SelectSeq(ops, LAMBDA op : op.tag # "equal")
    IN  [k \in DOMAIN changes |-> NormalHunk(changes[k], old, new)]

\* -w: runs of blanks become one, and none at the ends
RECURSIVE Squeezed(_)
Squeezed(l) ==
    IF Len(l) < 2 THEN l
    ELSE IF l[1] = " " /\ l[2] = " " THEN Squeezed(Tail(l)) ELSE <<l[1]>> \o Squeezed(Tail(l))
Trimmed(l) ==
    LET from == IF l # <<>> /\ l[1] = " " THEN Tail(l) ELSE l
    IN  IF from # <<>> /\ Last(from) = " " THEN Front(from) ELSE from

\* a capital is "A", its lower case "a"
Lowered(lines, o) ==
    IF o.case THEN [i \in DOMAIN lines |-> [k \in DOMAIN lines[i] |-> IF lines[i][k] = "A" THEN "a" ELSE lines[i][k]]] ELSE lines
Respaced(lines, o) == IF o.space THEN [i \in DOMAIN lines |-> Trimmed(Squeezed(lines[i]))] ELSE lines

\* lines are sequences of characters
preprocess(lines, o) ==
    LET kept == IF o.blank THEN SelectSeq(lines, LAMBDA l : \E k \in DOMAIN l : l[k] # " ") ELSE lines
    IN  Respaced(Lowered(kept, o), o)

diff_files(a, b, o) == preprocess(a, o) # preprocess(b, o)

\* -r: a directory is a function from names to texts ("text" x) or directories.
\* The entries reported as only in one, and whether anything differs.
Only(side, path) == [side |-> side, path |-> path]

\* a directory against a file is the file of that name in it against the file
DirAndFile(a, b, n, path) ==
    LET dir == IF a[n].kind = "dir" THEN a[n].sub ELSE b[n].sub
        text == IF a[n].kind = "text" THEN a[n].text ELSE b[n].text
    IN  CASE n \notin DOMAIN dir \/ dir[n].kind = "dir" -> {Only("error", path)}
          [] dir[n].text = text -> {}
          [] OTHER -> {Only("differ", path)}

all_names(a, b) == DOMAIN a \cup DOMAIN b

RECURSIVE diff_dirs(_, _, _)
diff_dirs(a, b, path) ==
    LET Sub(n) == CASE n \notin DOMAIN b -> {Only("a", Append(path, n))}
                    [] n \notin DOMAIN a -> {Only("b", Append(path, n))}
                    [] a[n].kind = "dir" /\ b[n].kind = "dir" -> diff_dirs(a[n].sub, b[n].sub, Append(path, n))
                    [] a[n].kind = "text" /\ b[n].kind = "text" ->
                         IF a[n].text = b[n].text THEN {} ELSE {Only("differ", Append(path, n))}
                    [] OTHER -> DirAndFile(a, b, n, Append(path, n))
    IN  UNION {Sub(n) : n \in all_names(a, b)}

-----------------------------------------------------------------------------
\* column: entries and cells are given by their widths

col_width(widths) == Max(Range(widths)) + 2

\* the rows of format_columns: for each entry the column it starts at
format_columns(widths) ==
    LET w == col_width(widths)
        n == TermWidth \div w
        cols == IF w > TermWidth \/ n = 0 THEN 1 ELSE n
    IN  [i \in DOMAIN widths |-> [row |-> (i - 1) \div cols, at |-> ((i - 1) % cols) * w]]

\* format_table: every cell but the last of its row is padded to its column
format_table(rows) ==
    LET Width(j) == Max({0} \cup {rows[i][j] : i \in {k \in DOMAIN rows : j \in DOMAIN rows[k]}})
        At(j) == FoldLeft(LAMBDA x, k : x + Width(k) + 2, 0, [k \in 1 .. j - 1 |-> k])
    IN  [i \in DOMAIN rows |-> [j \in DOMAIN rows[i] |-> At(j)]]

-----------------------------------------------------------------------------
\* strings: the runs of printable bytes, with their offsets

LongEnough(run, min) == Len(run) >= min

\* s: the run so far, where it started, the strings found
extract_strings(data, min) ==
    LET Step(s, i) == IF data[i] # 0 THEN [s EXCEPT !.run = Append(@, data[i]), !.start = IF s.run = <<>> THEN i - 1 ELSE @]
                      ELSE [run |-> <<>>, start |-> 0,
                            out |-> IF Len(s.run) >= min THEN Append(s.out, <<s.start, s.run>>) ELSE s.out]
        end == FoldLeft(Step, [run |-> <<>>, start |-> 0, out |-> <<>>], [i \in DOMAIN data |-> i])
    IN  IF LongEnough(end.run, min) THEN Append(end.out, <<end.start, end.run>>) ELSE end.out

-----------------------------------------------------------------------------
\* yq: JSON values; the keys of an object are <<"@", a>> for attributes,
\* <<"#text">> and <<name>>

Null == [k |-> "null"]
Str(x) == [k |-> "str", s |-> x]
Arr(a) == [k |-> "arr", a |-> a]
Obj(f) == [k |-> "obj", f |-> f]
NoFields == [x \in {} |-> Null]

insert_or_array(map, key, value) ==
    IF key \notin DOMAIN map THEN (key :> value) @@ map
    ELSE IF map[key].k = "arr" THEN [map EXCEPT ![key] = Arr(Append(@.a, value))]
    ELSE [map EXCEPT ![key] = Arr(<<@, value>>)]

\* An element has a name, attrs (from names to values), text, a sequence of runs,
\* and kids. Values and runs are sequences of tokens as the document has them:
\* "&", "amp;" is an escaped "&"; blanks around the whole, which are trimmed, are
\* left out. A run that is CData is a section of it.
CData == <<"cdata">>

escape(s) == FlattenSeq([i \in DOMAIN s |-> IF s[i] = "&" THEN <<"&", "amp;">> ELSE <<s[i]>>])
unescape(run) ==
    LET kept == SetToSortSeq({i \in DOMAIN run : i = 1 \/ run[i] # "amp;" \/ run[i - 1] # "&"}, <)
    IN  [k \in DOMAIN kept |-> run[kept[k]]]
\* an entity that is not predefined is an error of unescape
Unescapes(run) == \A i \in DOMAIN run : run[i] = "&" => i < Len(run) /\ run[i + 1] = "amp;"

\* Event::Text: a run that does not unescape adds nothing; CDATA is no Text
TextOf(runs) ==
    FlattenSeq([i \in DOMAIN runs |-> IF runs[i] # CData /\ Unescapes(runs[i]) THEN unescape(runs[i]) ELSE <<>>])

\* StackEntry and Event::End: the value of an element, then its place in its
\* parent. The values of attributes are taken as they stand.
RECURSIVE ElementValue(_)
ElementValue(e) ==
    LET attrs == [key \in {<<"@", x>> : x \in DOMAIN e.attrs} |-> Str(e.attrs[key[2]])]
        text == TextOf(e.text)
        children == FoldLeft(LAMBDA map, kid : insert_or_array(map, <<kid.name>>, ElementValue(kid)), attrs, e.kids)
    IN  CASE DOMAIN children = {} /\ text = <<>> -> Null
          [] DOMAIN children = {} /\ text # <<>> -> Str(text)
          [] OTHER -> Obj(IF text = <<>> THEN children ELSE (<<"#text">> :> Str(text)) @@ children)

xml_to_json(roots) ==
    Obj(FoldLeft(LAMBDA map, e : insert_or_array(map, <<e.name>>, ElementValue(e)), NoFields, roots))

\* the elements a value becomes under a name, and those of an object's fields
RECURSIVE write_xml_element(_, _)
RECURSIVE FieldElements(_, _)
FieldElements(f, keys) ==
    IF keys = {} THEN <<>>
    ELSE LET key == CHOOSE x \in keys : TRUE IN write_xml_element(key[1], f[key]) \o FieldElements(f, keys \ {key})

\* text and the values of attributes are escaped on the way out; an attribute that
\* is no string is dropped
write_xml_element(name, v) ==
    CASE v.k = "null" -> <<[name |-> name, attrs |-> <<>>, text |-> <<>>, kids |-> <<>>]>>
      [] v.k = "str" -> <<[name |-> name, attrs |-> <<>>, text |-> <<escape(v.s)>>, kids |-> <<>>]>>
      [] v.k = "arr" -> FlattenSeq([i \in DOMAIN v.a |-> write_xml_element(name, v.a[i])])
      [] v.k = "obj" ->
           LET strings == {key \in DOMAIN v.f : v.f[key].k = "str"}
               own == {key \in DOMAIN v.f : key[1] # "@" /\ key # <<"#text">>}
           IN  <<[name |-> name,
                  attrs |-> [x \in {key[2] : key \in {a \in strings : a[1] = "@"}} |-> escape(v.f[<<"@", x>>].s)],
                  text |-> IF <<"#text">> \in strings THEN <<escape(v.f[<<"#text">>].s)>> ELSE <<>>,
                  kids |-> FieldElements(v.f, own)]>>

json_to_xml(v) == IF v.k = "obj" THEN FieldElements(v.f, DOMAIN v.f) ELSE write_xml_element("root", v)

TomlScalar(v) == CASE v.k = "nan" -> Null [] v.k = "date" -> Str(v.s) [] OTHER -> v

RECURSIVE toml_to_json(_)
toml_to_json(v) ==
    CASE v.k = "arr" -> Arr([i \in DOMAIN v.a |-> toml_to_json(v.a[i])])
      [] v.k = "obj" -> Obj([x \in DOMAIN v.f |-> toml_to_json(v.f[x])])
      [] OTHER -> TomlScalar(v)

NoToml == [k |-> "error"]

RECURSIVE json_to_toml(_)
json_to_toml(v) ==
    LET items == [i \in DOMAIN v.a |-> json_to_toml(v.a[i])]
        fields == [x \in DOMAIN v.f |-> json_to_toml(v.f[x])]
    IN  CASE v.k = "null" -> NoToml
          [] v.k = "arr" -> IF NoToml \in Range(items) THEN NoToml ELSE Arr(items)
          [] v.k = "obj" -> IF NoToml \in Range(fields) THEN NoToml ELSE Obj(fields)
          [] OTHER -> v
=============================================================================
