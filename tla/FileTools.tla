------------------------------ MODULE FileTools -----------------------------
(***************************************************************************)
(* The commands of the VM that walk a file tree (find, fd, tree, du), and  *)
(* those that pack one (tar, gzip).                                        *)
(* A tree is a function from locations (sequences of names, <<>> the root) *)
(* to records of kind, size in bytes and, for a link, the location it      *)
(* leads to. Names are listed in their sorted order in Names.              *)
(***************************************************************************)
EXTENDS Integers, Sequences, FiniteSets, SequencesExt, FiniteSetsExt

CONSTANTS Names,      \* the names of the model, sorted
          Hidden,     \* those that start with a dot
          MaxLinks    \* links the kernel follows in one path before ELOOP

ASSUME FileToolsAssumption == Names \in Seq(STRING) /\ Hidden \subseteq Range(Names) /\ MaxLinks \in Nat

\* An entry as a walk meets it: where it really is, and the links passed so far.
Entry(loc, links) == [loc |-> loc, links |-> links]

\* fs::metadata: the entry with its links followed, if they lead anywhere
IsLink(t, e) == t[e.loc].kind = "link"
RECURSIVE Followed(_, _)
Followed(t, e) ==
    IF e.loc \in DOMAIN t /\ e.links <= MaxLinks /\ IsLink(t, e) THEN Followed(t, Entry(t[e.loc].target, e.links + 1)) ELSE e
Exists(t, e) == LET f == Followed(t, e) IN f.loc \in DOMAIN t /\ f.links <= MaxLinks
IsDir(t, e) == Exists(t, e) /\ t[Followed(t, e).loc].kind = "dir"
IsFile(t, e) == Exists(t, e) /\ t[Followed(t, e).loc].kind = "file"

\* fs::read_dir, in the order of the names
Children(t, dir) == SelectSeq(Names, LAMBDA n : Append(dir.loc, n) \in DOMAIN t)
Child(dir, n) == Entry(Append(dir.loc, n), dir.links)

\* max = -1 stands for None
Within(depth, max) == max = -1 \/ depth <= max

-----------------------------------------------------------------------------
\* find: the tests of an expression are "dir", "file", "link", "empty" and
\* names; "depth" is a -maxdepth or -mindepth inside an expression

find_test(t, e, x) ==
    CASE x = "dir" -> IsDir(t, e)
      [] x = "file" -> IsFile(t, e)
      [] x = "link" -> IsLink(t, e)
      [] x = "empty" -> IF IsDir(t, e) THEN Children(t, Followed(t, e)) = <<>>
                        ELSE IsFile(t, e) /\ t[Followed(t, e).loc].size = 0
      [] x \in {"print", "depth"} -> TRUE
      [] OTHER -> e.loc # <<>> /\ Last(e.loc) = x

\* An expression is a set of alternatives, each a sequence of tests with a sign:
\* combine_and of the tests on each side of -o.
find_eval(t, e, expr) ==
    expr = {} \/ \E alt \in expr : \A i \in DOMAIN alt : find_test(t, e, alt[i].test) = alt[i].sign

\* mutant: the last level within the depth limit is not opened
ShallowerByOne(depth, max) == max = -1 \/ depth + 1 < max

EntersChildren(depth, max) == max = -1 \/ depth < max

\* what find prints below one starting path: display paths in order
RECURSIVE find_walk(_, _, _, _, _)
find_walk(t, e, display, depth, o) ==
    LET here == IF depth >= o.min /\ find_eval(t, e, o.expr) THEN <<display>> ELSE <<>>
        dir == Followed(t, e)
        names == Children(t, dir)
    IN  IF ~Within(depth, o.max) THEN <<>>
        ELSE IF IsDir(t, e) /\ EntersChildren(depth, o.max)
        THEN here \o FlattenSeq([i \in DOMAIN names |->
                                   find_walk(t, Child(dir, names[i]), Append(display, names[i]), depth + 1, o)])
        ELSE here

\* The command line after the paths, as tokens: the tests, "max1" (-maxdepth 1),
\* "min1" (-mindepth 1), "!", "-a", "-o", "(" and ")".
Signed(x, sign) == [test |-> x, sign |-> sign]
IsTest(x) == x \notin {"!", "-a", "-o", "(", ")"}
All(a) == [k \in DOMAIN a |-> Signed(a[k], TRUE)]
FindParsed(st, expr, d) == [st |-> st, expr |-> expr, max |-> d.max, min |-> d.min]
FindError == FindParsed("error", {}, [max |-> -1, min |-> 0])

\* extract_depth, for each of several expressions
DepthsOf(a, d) == [max |-> IF "max1" \in Range(a) THEN 1 ELSE d.max,
                   min |-> IF "min1" \in Range(a) THEN 1 ELSE d.min]

\* parse_single_expr takes one test
Negated(a, i) == SubSeq(a, i + 1, IF i < Len(a) THEN i + 1 ELSE i)

ClosingParen(a, i) ==
    LET Open(j) == Cardinality({k \in i .. j : a[k] = "("}) - Cardinality({k \in i .. j : a[k] = ")"})
        at == {j \in i .. Len(a) : Open(j) = 0}
    IN  IF at = {} THEN 0 ELSE Min(at)

\* exprs are the tests collected so far, i the next token, d the depth limits
RECURSIVE FindTokens(_, _, _, _)
FindTokens(a, i, exprs, d) ==
    IF i > Len(a) THEN FindParsed("ok", IF exprs = <<>> THEN {} ELSE {exprs}, d)
    ELSE CASE a[i] = "!" ->
                LET next == Negated(a, i) IN
                IF next = <<>> \/ \E k \in DOMAIN next : ~IsTest(next[k]) THEN FindError
                ELSE FindTokens(a, i + 1 + Len(next), exprs \o [k \in DOMAIN next |-> Signed(next[k], FALSE)],
                                DepthsOf(next, d))
           [] a[i] = "-a" -> FindTokens(a, i + 1, exprs, d)
           [] a[i] = "-o" ->
                LET right == SubSeq(a, i + 1, Len(a)) IN
                IF exprs = <<>> \/ \E k \in DOMAIN right : ~IsTest(right[k]) THEN FindError
                ELSE FindParsed(IF right = <<>> THEN "panic" ELSE "ok", {exprs, All(right)}, DepthsOf(right, d))
           [] a[i] = "(" ->
                LET close == ClosingParen(a, i)
                    group == SubSeq(a, i + 1, close - 1)
                IN  IF close = 0 \/ \E k \in DOMAIN group : ~IsTest(group[k]) THEN FindError
                    ELSE FindTokens(a, close + 1, exprs \o All(group), d)
           [] a[i] = ")" -> FindError
           [] a[i] \in {"max1", "min1"} -> FindTokens(a, i + 1, exprs, DepthsOf(<<a[i]>>, d))
           [] OTHER -> FindTokens(a, i + 1, Append(exprs, Signed(a[i], TRUE)), d)

find_parse(a) == FindTokens(a, 1, <<>>, [max |-> -1, min |-> 0])

\* The regular expression of a glob: one item per character class, with the
\* characters it takes (or leaves out) and whether it repeats.
Item(out, chars, many) == [out |-> out, chars |-> chars, many |-> many]

ClassNegated(g, i) == i < Len(g) /\ g[i + 1] \in {"!", "^"}

RECURSIVE GlobItems(_, _)
GlobItems(g, i) ==
    IF i > Len(g) THEN <<>>
    ELSE CASE g[i] = "*" /\ i < Len(g) /\ g[i + 1] = "*" -> <<Item(TRUE, {}, TRUE)>> \o GlobItems(g, i + 2)
           [] g[i] = "*" -> <<Item(TRUE, {"/"}, TRUE)>> \o GlobItems(g, i + 1)
           [] g[i] = "?" -> <<Item(TRUE, {"/"}, FALSE)>> \o GlobItems(g, i + 1)
           [] g[i] = "[" ->
                LET from == IF ClassNegated(g, i) THEN i + 2 ELSE i + 1
                    ends == {k \in from .. Len(g) : g[k] = "]"}
                    end == IF ends = {} THEN Len(g) + 1 ELSE Min(ends)
                IN  <<Item(ClassNegated(g, i), {g[k] : k \in from .. end - 1}, FALSE)>> \o GlobItems(g, end + 1)
           [] OTHER -> <<Item(FALSE, {g[i]}, FALSE)>> \o GlobItems(g, i + 1)

\* Regex::is_match for such expressions, anchored at both ends
RECURSIVE ItemsMatch(_, _)
ItemsMatch(r, s) ==
    IF r = <<>> THEN s = <<>>
    ELSE LET takes == s # <<>> /\ ((s[1] \in r[1].chars) # r[1].out) IN
         \/ r[1].many /\ ItemsMatch(Tail(r), s)
         \/ takes /\ ItemsMatch(IF r[1].many THEN r ELSE Tail(r), Tail(s))

glob_to_regex(glob, name) == ItemsMatch(GlobItems(glob, 1), name)

-----------------------------------------------------------------------------
\* fd: o has hidden, type ("" for any), names (the entries pattern and
\* extensions select, {} for all) and max

matches_entry(t, e, o) ==
    /\ CASE o.type = "f" -> IsFile(t, e) [] o.type = "d" -> IsDir(t, e) [] o.type = "l" -> IsLink(t, e) [] OTHER -> TRUE
    /\ o.names = {} \/ Last(e.loc) \in o.names

\* hidden names are skipped with all that is below them
fd_visits(o, n) == o.hidden \/ n \notin Hidden

RECURSIVE fd_walk(_, _, _, _, _)
fd_walk(t, e, display, depth, o) ==
    LET here == IF depth > 0 /\ matches_entry(t, e, o) THEN <<display>> ELSE <<>>
        dir == Followed(t, e)
        names == SelectSeq(Children(t, dir), LAMBDA n : fd_visits(o, n))
    IN  IF ~Within(depth, o.max) THEN <<>>
        ELSE IF IsDir(t, e) /\ EntersChildren(depth, o.max)
        THEN here \o FlattenSeq([i \in DOMAIN names |->
                                   fd_walk(t, Child(dir, names[i]), Append(display, names[i]), depth + 1, o)])
        ELSE here

fd_status(found) == IF found = <<>> THEN 1 ELSE 0

-----------------------------------------------------------------------------
\* tree: o has hidden, dirs_only, exclude (the names the pattern matches), max.
\* DirEntry::file_type does not follow a link, so links count as files.

RealDir(t, e) == t[e.loc].kind = "dir"

IsLastEntry(i, shown, all) == i = Len(shown)

\* The lines walk_tree writes and its two counters. bars says for each level
\* whether the line goes on below it, the last being that of its own connector.
RECURSIVE walk_tree(_, _, _, _, _)
walk_tree(t, e, bars, depth, o) ==
    LET all == Children(t, e)
        shown == SelectSeq(all, LAMBDA n :
                     /\ o.hidden \/ n \notin Hidden
                     /\ n \notin o.exclude
                     /\ o.dirs_only => RealDir(t, Child(e, n)))
        below == [i \in DOMAIN shown |->
                    LET c == Child(e, shown[i])
                        more == Append(bars, ~IsLastEntry(i, shown, all))
                        line == [name |-> shown[i], bars |-> more]
                        sub == walk_tree(t, c, more, depth + 1, o)
                    IN  IF RealDir(t, c) THEN [list |-> <<line>> \o sub.list, dirs |-> sub.dirs + 1, files |-> sub.files]
                        ELSE [list |-> <<line>>, dirs |-> 0, files |-> 1]]
        SumOf(f) == FoldFunction(+, 0, [i \in DOMAIN below |-> below[i][f]])
    IN  IF ~Within(depth, o.max) THEN [list |-> <<>>, dirs |-> 0, files |-> 0]
        ELSE [list |-> FlattenSeq([i \in DOMAIN below |-> below[i].list]), dirs |-> SumOf("dirs"), files |-> SumOf("files")]

\* -I: a pattern with one star is its prefix and suffix, with more stars its parts
StarParts(p) ==
    LET stars == SetToSortSeq({i \in DOMAIN p : p[i] = "*"} \cup {0, Len(p) + 1}, <)
    IN  [k \in 1 .. Len(stars) - 1 |-> SubSeq(p, stars[k] + 1, stars[k + 1] - 1)]

HasPart(part, name) == \E i \in 1 .. Len(name) + 1 : IsPrefix(part, SubSeq(name, i, Len(name)))

matches_exclude(name, p) ==
    LET parts == StarParts(p) IN
    CASE Len(parts) = 1 -> name = p
      [] Len(parts) = 2 -> IsPrefix(parts[1], name) /\ IsSuffix(parts[2], name)
      [] OTHER -> \A k \in DOMAIN parts : HasPart(parts[k], name)

-----------------------------------------------------------------------------
\* du: o has all, max (0 with -s); sizes are counted in blocks of 1024 bytes

Blocks(t, e) == (t[Followed(t, e).loc].size + 1023) \div 1024

AddedUp(total, depth, o) == total

\* the lines walk_du prints (path and blocks) and what it returns
RECURSIVE walk_du(_, _, _, _, _)
walk_du(t, e, display, depth, o) ==
    LET dir == Followed(t, e)
        names == SelectSeq(Children(t, dir), LAMBDA n : Exists(t, Child(dir, n)))
        below == [i \in DOMAIN names |->
                    LET c == Child(dir, names[i])
                        path == Append(display, names[i])
                    IN  IF IsDir(t, c) THEN walk_du(t, c, path, depth + 1, o)
                        ELSE [lines |-> IF o.all /\ Within(depth + 1, o.max) THEN <<<<path, Blocks(t, c)>>>> ELSE <<>>,
                              total |-> Blocks(t, c)]]
        total == FoldFunction(+, 0, [i \in DOMAIN below |-> below[i].total])
    IN  IF ~IsDir(t, e)
        THEN [lines |-> IF o.all \/ depth = 0 THEN <<<<display, Blocks(t, e)>>>> ELSE <<>>, total |-> Blocks(t, e)]
        ELSE [lines |-> FlattenSeq([i \in DOMAIN below |-> below[i].lines])
                        \o (IF Within(depth, o.max) THEN <<<<display, total>>>> ELSE <<>>),
              total |-> AddedUp(total, depth, o)]

\* the arguments du sums up for -c; one it cannot read only sets the status
du_total(t, paths, o) ==
    LET readable == SelectSeq(paths, LAMBDA p : p \in DOMAIN t /\ Exists(t, Entry(p, 0)))
    IN  [total |-> FoldFunction(+, 0, [i \in DOMAIN readable |-> walk_du(t, Entry(readable[i], 0), readable[i], 0, o).total]),
         status |-> IF Len(readable) = Len(paths) THEN 0 ELSE 1]

-----------------------------------------------------------------------------
\* tar: an archive is a sequence of entries with path, kind, size and target

\* fs::symlink_metadata does not follow a link
ArchiveKind(t, loc) == t[loc].kind

RECURSIVE append_path(_, _)
append_path(t, loc) ==
    LET here == [t[loc] EXCEPT !.kind = ArchiveKind(t, loc)]
        names == Children(t, Entry(loc, 0))
    IN  <<[path |-> loc, at |-> here]>>
        \o (IF here.kind = "dir" THEN FlattenSeq([i \in DOMAIN names |-> append_path(t, Append(loc, names[i]))]) ELSE <<>>)

\* a path that is not there ends the archive at the entries before it
do_create(t, paths) ==
    LET missing == {i \in DOMAIN paths : paths[i] \notin DOMAIN t}
        upto == IF missing = {} THEN Len(paths) ELSE Min(missing) - 1
    IN  [ok |-> paths # <<>> /\ missing = {},
         entries |-> FlattenSeq([i \in 1 .. upto |-> append_path(t, paths[i])])]

\* where a path leads when the links among its directories are followed
RECURSIVE Resolve(_, _)
Resolve(t, loc) ==
    IF loc = <<>> THEN <<>>
    ELSE Followed(t, Entry(Append(Resolve(t, Front(loc)), Last(loc)), 0)).loc

\* fs::create_dir_all, File::create and soft_link on a tree; r has ok and tree
RECURSIVE create_dir_all(_, _)
create_dir_all(r, loc) ==
    LET up == IF loc = <<>> THEN r ELSE create_dir_all(r, Front(loc))
        named == IF loc = <<>> THEN <<>> ELSE Append(Resolve(up.tree, Front(loc)), Last(loc))
        at == Resolve(up.tree, loc)
    IN  IF ~up.ok \/ loc = <<>> THEN up
        ELSE IF at \in DOMAIN up.tree THEN [up EXCEPT !.ok = up.tree[at].kind = "dir"]
        ELSE IF named \in DOMAIN up.tree THEN [up EXCEPT !.ok = FALSE]
        ELSE [up EXCEPT !.tree = (named :> [kind |-> "dir", size |-> 0, target |-> <<>>]) @@ @]

FileCreate(r, loc, entry) ==
    LET at == Resolve(r.tree, loc)
        fits == /\ at # <<>> /\ Front(at) \in DOMAIN r.tree /\ r.tree[Front(at)].kind = "dir"
                /\ at \in DOMAIN r.tree => r.tree[at].kind = "file"
    IN  IF r.ok /\ fits THEN [r EXCEPT !.tree = (at :> entry) @@ @] ELSE [r EXCEPT !.ok = FALSE]

\* the result of soft_link is thrown away
SoftLink(r, loc, entry) ==
    LET named == Append(Resolve(r.tree, Front(loc)), Last(loc)) IN
    IF ~r.ok \/ named \in DOMAIN r.tree THEN r ELSE [r EXCEPT !.tree = (named :> entry) @@ @]

\* the empty path stands for one that is left out
strip_path_components(path, n) == SubSeq(path, n + 1, Len(path))

ExtractEntry(r, entry, strip) ==
    LET dest == strip_path_components(entry.path, strip) IN
    IF dest = <<>> \/ ~r.ok THEN r
    ELSE CASE entry.at.kind = "dir" -> create_dir_all(r, dest)
           [] entry.at.kind = "file" -> FileCreate(create_dir_all(r, Front(dest)), dest, entry.at)
           [] entry.at.kind = "link" -> SoftLink(create_dir_all(r, Front(dest)), dest, entry.at)

\* the first entry that fails ends the extraction
do_extract(t, entries, strip) ==
    FoldLeft(LAMBDA r, entry : ExtractEntry(r, entry, strip), [ok |-> TRUE, tree |-> t], entries)

\* the command line: words as sequences of characters
TarOptions == [mode |-> "none", file |-> <<>>, gzip |-> FALSE, dir |-> <<>>, strip |-> 0, paths |-> <<>>, bad |-> FALSE]

RECURSIVE TarFlags(_, _, _)
TarFlags(o, flags, next) ==
    LET value == IF Len(flags) > 1 THEN Tail(flags) ELSE next IN
    IF flags = <<>> THEN [o |-> o, used |-> 0]
    ELSE CASE flags[1] \in {"c", "x", "t"} -> TarFlags([o EXCEPT !.mode = flags[1]], Tail(flags), next)
           [] flags[1] = "z" -> TarFlags([o EXCEPT !.gzip = TRUE], Tail(flags), next)
           [] flags[1] = "v" -> TarFlags(o, Tail(flags), next)
           [] flags[1] = "f" -> [o |-> [o EXCEPT !.file = IF value = <<>> THEN @ ELSE value], used |-> IF Len(flags) > 1 THEN 0 ELSE 1]
           [] flags[1] = "C" -> [o |-> [o EXCEPT !.dir = IF value = <<>> THEN @ ELSE value], used |-> IF Len(flags) > 1 THEN 0 ELSE 1]
           [] OTHER -> [o |-> [o EXCEPT !.bad = TRUE], used |-> 0]

\* first_arg: the first word needs no dash
IsBundle(word, i) == word[1] = "-" \/ i = 1

\* the flags of the first word are read with or without the dash
RECURSIVE TarWords(_, _, _)
TarWords(a, i, o) ==
    IF i > Len(a) \/ o.bad THEN o
    ELSE IF a[i] = <<"--strip-components">> THEN TarWords(a, i + 2, IF i < Len(a) THEN [o EXCEPT !.strip = 1] ELSE o)
    ELSE IF IsBundle(a[i], i)
    THEN LET r == TarFlags(o, IF a[i][1] = "-" THEN Tail(a[i]) ELSE a[i], IF i < Len(a) THEN a[i + 1] ELSE <<>>)
         IN  TarWords(a, i + 1 + r.used, r.o)
    ELSE TarWords(a, i + 1, [o EXCEPT !.paths = Append(@, a[i])])

tar_options(a) ==
    LET o == TarWords(a, 1, TarOptions) IN
    [o EXCEPT !.gzip = @ \/ IsSuffix(<<".tar.gz">>, o.file) \/ IsSuffix(<<".tgz">>, o.file)]

-----------------------------------------------------------------------------
\* gzip: a name is a sequence ending in its suffix; a file is the data it comes
\* from, how often that was compressed, and the layer that is damaged, if any

\* flate2: a stream that is no gzip or a broken one fails, after some output
Compressed(f) == [f EXCEPT !.layers = @ + 1]
Decompresses(f) == f.layers > 0 /\ f.damaged # f.layers
Decompressed(f) == IF Decompresses(f) THEN [f EXCEPT !.layers = @ - 1] ELSE [f EXCEPT !.layers = 0, !.damaged = 1]

OutName(path, decompress) ==
    IF ~decompress THEN Append(path, ".gz")
    ELSE CASE Last(path) \in {".gz", ".z"} -> Front(path)
           [] Last(path) = ".tgz" -> Append(Front(path), ".tar")
           [] OTHER -> Append(path, ".out")

Removes(o, done) == ~o.keep /\ done

\* compress_file and decompress_file on the files fs: fs afterwards, and success
gzip_file(fs, path, o) ==
    LET out == OutName(path, o.decompress)
        refused == ~o.stdout /\ ~o.force /\ out \in DOMAIN fs
        done == ~o.decompress \/ Decompresses(fs[path])
        written == (out :> IF o.decompress THEN Decompressed(fs[path]) ELSE Compressed(fs[path])) @@ fs
    IN  CASE refused \/ path \notin DOMAIN fs -> [fs |-> fs, ok |-> FALSE]
          [] o.stdout -> [fs |-> fs, ok |-> done]
          [] OTHER -> [fs |-> IF Removes(o, done) THEN [p \in DOMAIN written \ {path} |-> written[p]] ELSE written, ok |-> done]

\* main: every file is tried, the status is 1 if one failed
gzip(fs, files, o) ==
    FoldLeft(LAMBDA r, path : LET g == gzip_file(r.fs, path, o) IN [fs |-> g.fs, status |-> IF g.ok THEN r.status ELSE 1],
             [fs |-> fs, status |-> 0], files)

-----------------------------------------------------------------------------
(***************************************************************************)
(* file, the command that says what a file is. A content is a sequence of  *)
(* pieces: sp and nl are blanks, nul and ctl bytes no text has, bad a byte *)
(* that is no UTF-8, the others the words and tags the command looks for.  *)
(* What the infer crate finds by magic bytes is part of the input: a MIME  *)
(* type, or "" if it knows none.                                           *)
(***************************************************************************)

CONSTANTS HeadLen,       \* what is read of a file
          ShebangLen     \* how far a shebang line is read

ASSUME HeadAssumption == 0 < ShebangLen /\ ShebangLen <= HeadLen

\* a description is a sequence of words, as a script is named after its program
Answer(words, mime) == [desc |-> words, mime |-> mime]

take(s, n) == SubSeq(s, 1, IF Len(s) < n THEN Len(s) ELSE n)
Blank(p) == p \in {"sp", "nl"}

\* s without the pieces at its start that satisfy P
DropWhile(s, P(_)) ==
    LET rest == {i \in DOMAIN s : ~P(s[i])} IN
    IF rest = {} THEN <<>> ELSE SubSeq(s, CHOOSE i \in rest : \A j \in rest : i <= j, Len(s))
skip_whitespace(data) == DropWhile(data, Blank)
StartsWith(data, tags) == skip_whitespace(data) # <<>> /\ skip_whitespace(data)[1] \in tags

is_json(data) == StartsWith(data, {"{", "["})
is_xml(data) == StartsWith(data, {"<?xml", "<!DOCTYPE html"})
is_html(data) == StartsWith(data, {"<!DOCTYPE html", "<!doctype html", "<html"})

is_text(data) == ToSet(take(data, HeadLen)) \cap {"nul", "ctl"} = {}

\* the program a shebang line runs: its first word without its directory, or
\* what env is asked for
Basename(w) == IF w = "/bin/sh" THEN "sh" ELSE IF w = "/usr/bin/env" THEN "env" ELSE w
FirstLine(data) == LET l == take(data, ShebangLen)
                       ends == {i \in DOMAIN l : l[i] = "nl"}
                   IN  IF ends = {} THEN l ELSE SubSeq(l, 1, (CHOOSE i \in ends : \A j \in ends : i <= j) - 1)
Interpreter(line) ==
    LET words == SelectSeq(DropWhile(line, LAMBDA p : p = "#!"), LAMBDA p : ~Blank(p)) IN
    CASE words = <<>> -> ""
      [] words # <<>> /\ Basename(words[1]) = "env" -> IF Len(words) > 1 THEN words[2] ELSE "script"
      [] OTHER -> Basename(words[1])

\* the descriptions of the magic types the command has a name for
DescOf(mime) == CASE mime = "image/png" -> "PNG image data"
                  [] mime = "application/gzip" -> "gzip compressed data"
                  [] OTHER -> mime

identify(data, magic) ==
    LET line == FirstLine(data) IN
    CASE data = <<>> -> Answer(<<"empty">>, "inode/x-empty")
      [] data # <<>> /\ magic # "" -> Answer(<<DescOf(magic)>>, magic)
      [] data # <<>> /\ magic = "" /\ data[1] = "#!" /\ "bad" \notin ToSet(line) -> Answer(<<Interpreter(line), "script">>, "text/x-script")
      [] OTHER -> CASE is_json(data) -> Answer(<<"JSON text data">>, "application/json")
                    [] ~is_json(data) /\ is_xml(data) -> Answer(<<"XML document">>, "text/xml")
                    [] ~is_json(data) /\ ~is_xml(data) /\ is_html(data) -> Answer(<<"HTML document">>, "text/html")
                    [] OTHER -> IF is_text(data) THEN Answer(<<"ASCII text">>, "text/plain") ELSE Answer(<<"data">>, "application/octet-stream")

-----------------------------------------------------------------------------
\* main. An argument is a cluster of short options, a long option, - or a name.

ShortFlags(o, letters) ==
    [o EXCEPT !.brief = @ \/ "b" \in ToSet(letters), !.mime = @ \/ "i" \in ToSet(letters), !.bad = @ \/ ~(ToSet(letters) \subseteq {"b", "i"})]

file_option(o, a) ==
    CASE a.is = "short" -> ShortFlags(o, a.letters)
      [] a.is = "long" -> [o EXCEPT !.brief = @ \/ a.word = "--brief", !.mime = @ \/ a.word \in {"--mime-type", "--mime"},
                                    !.bad = @ \/ a.word \notin {"--brief", "--mime-type", "--mime"}]
      [] a.is = "name" -> [o EXCEPT !.names = Append(@, a.word)]

file_options(args) == FoldLeft(file_option, [brief |-> FALSE, mime |-> FALSE, names |-> <<>>, bad |-> FALSE], args)

print_result(o, name, answer) ==
    [name |-> IF o.brief THEN "" ELSE name, text |-> IF o.mime /\ answer.mime # "" THEN <<answer.mime>> ELSE answer.desc]

\* fs gives every name a kind (none, dir, file, unreadable), a content and what
\* infer says of it; - is the standard input, which is read to its end and once
file_answer(name, file) ==
    CASE name = "-" -> identify(file.content, file.magic)
      [] name # "-" /\ file.kind = "dir" -> Answer(<<"directory">>, "inode/directory")
      [] name # "-" /\ file.kind # "dir" /\ file.content = <<>> -> Answer(<<"empty">>, "inode/x-empty")
      [] OTHER -> identify(take(file.content, HeadLen), file.magic)

Fails(file) == file.kind = "none" \/ (file.kind = "unreadable" /\ file.content # <<>>)

file_one(s, name, o) ==
    IF Fails(s.fs[name]) THEN [s EXCEPT !.status = 1]
    ELSE [s EXCEPT !.out = Append(@, print_result(o, name, file_answer(name, s.fs[name]))),
                   !.fs = IF name = "-" THEN [@ EXCEPT !["-"].content = <<>>] ELSE @]

file_main(args, fs) ==
    LET o == file_options(args) IN
    IF o.bad \/ o.names = <<>> THEN [out |-> <<>>, status |-> 1, fs |-> fs]
    ELSE FoldLeft(LAMBDA s, name : file_one(s, name, o), [out |-> <<>>, status |-> 0, fs |-> fs], o.names)
=============================================================================
