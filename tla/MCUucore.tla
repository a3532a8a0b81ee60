------------------------------ MODULE MCUucore ------------------------------
(***************************************************************************)
(* Every function of the shared library on its inputs, one at a time: the  *)
(* numbers and texts of MCUucoreNumbers and MCUucoreTexts, and here the    *)
(* file trees, checksum lists, stream copies and waits.                    *)
(***************************************************************************)
EXTENDS MCUucoreNumbers, MCUucoreTexts, Paths, Digests, SystemCalls

(***************************************************************************)
(* Two processes make directories in one small tree at the same time.      *)
(***************************************************************************)

Ents1(a, i) == [n \in {a} |-> i]
Ents2(a, i, b, j) == [n \in {a, b} |-> IF n = a THEN i ELSE j]

\* /d is a directory that may have an entry x, /v and d/w are whatever comes last
Trees == {[i \in 1 .. 4 |-> CASE i = 1 -> Node("dir", Ents2("d", 2, "v", 3), <<>>)
                              [] i = 2 -> Node("dir", IF x THEN Ents1("x", 4) ELSE NoEntries, <<>>)
                              [] i = 3 -> v
                              [] i = 4 -> w] :
            x \in BOOLEAN,
            v \in {Node("dir", NoEntries, <<>>), Node("link", NoEntries, <<"d">>), Node("link", NoEntries, <<"/", "none">>),
                   Node("link", NoEntries, <<"v">>), Node("file", NoEntries, <<>>)},
            w \in {Node("dir", NoEntries, <<>>), Node("link", NoEntries, <<"/", "v">>), Node("file", NoEntries, <<>>)}}

MakePaths == {<<"d", "x">>, <<"v", "x", "y">>, <<"/", "v", "y">>, <<"d", "x", "y">>, <<"n", "m">>}

MakeDirs == Give("mkdirs", {[fs |-> t, before |-> t, paths |-> <<p, q>>, makers |-> <<Maker(p), Maker(q)>>] :
                              t \in Trees, p \in MakePaths, q \in MakePaths})

Ended(mk) == mk.pc \in {"done", "error"}

MakerStep == /\ tool = "mkdirs"
             /\ \E i \in DOMAIN in.makers :
                   /\ ~Ended(in.makers[i])
                   /\ LET a == create_dir_all_safe(in.fs, in.makers[i])
                      IN  in' = [in EXCEPT !.fs = a.fs, !.makers[i] = a.r]
             /\ UNCHANGED tool

\* A process that was given its directory holds the one at the end of a chain of
\* real directories that starts at the ancestor it found: whatever the other
\* process does between two calls, no link below that ancestor was followed.
MadeDirectoriesAreReal ==
    tool = "mkdirs" => \A i \in DOMAIN in.makers :
        LET mk == in.makers[i]
            follow[k \in 0 .. Len(mk.made)] ==
                IF k = 0 THEN mk.anchor
                ELSE IF follow[k - 1] > 0 /\ in.fs[follow[k - 1]].kind = "dir" /\ mk.made[k] \in DOMAIN in.fs[follow[k - 1]].ents
                     THEN in.fs[follow[k - 1]].ents[mk.made[k]] ELSE 0
        IN  mk.pc = "done" => follow[Len(mk.made)] = mk.fd /\ in.fs[mk.fd].kind = "dir"

\* Making directories destroys nothing: every file and directory stays where it
\* was, a link goes only if it stands where a directory was asked for, and what is
\* new is a directory that one of the two processes asked for.
NothingElseIsTouched ==
    tool = "mkdirs" =>
        LET old == in.before
            asked == UNION {ToSet(in.paths[i]) : i \in DOMAIN in.paths}
        IN  \A d \in DOMAIN in.fs : in.fs[d].kind = "dir" => \A n \in asked \cup DOMAIN in.fs[d].ents \cup (IF d \in DOMAIN old THEN DOMAIN old[d].ents ELSE {}) :
              LET was == IF d \in DOMAIN old /\ n \in DOMAIN old[d].ents THEN old[d].ents[n] ELSE 0
                  is == IF n \in DOMAIN in.fs[d].ents THEN in.fs[d].ents[n] ELSE 0
              IN  was # is => /\ was = 0 \/ old[was].kind = "link"
                              /\ n \in asked
                              /\ is = 0 \/ (is \notin DOMAIN old /\ in.fs[is].kind = "dir")

\* Two processes that make directories at once do not both fail: one loses the
\* race for a component only to the other, which then has that component. Only
\* what a single process fails on too is excepted: a file in the way, or a path
\* that passes through a link to itself.
OneMakerGetsThrough ==
    tool = "mkdirs" /\ (\A i \in DOMAIN in.makers : Ended(in.makers[i])) =>
        \/ \E i \in DOMAIN in.makers : in.makers[i].pc = "done"
        \/ \E i \in DOMAIN in.before : in.before[i].kind = "file"
        \/ \E i \in DOMAIN in.paths : Lstat(in.before, in.paths[i]) = ELOOP

-----------------------------------------------------------------------------
(***************************************************************************)
(* Paths of a tree with links, loops and missing components, against the   *)
(* kernel's own resolution.                                                *)
(***************************************************************************)

\* /d is a directory with a link e, /f a file and /l a link
PathTrees == {[i \in 1 .. 5 |-> CASE i = 1 -> Node("dir", [n \in {"d", "f", "l"} |-> IF n = "d" THEN 2 ELSE IF n = "f" THEN 4 ELSE 5], <<>>)
                                  [] i = 2 -> [Node("dir", [n \in {"e"} |-> 3], <<>>) EXCEPT !.open = o]
                                  [] i = 3 -> Node("link", NoEntries, e)
                                  [] i = 4 -> Node("file", NoEntries, <<>>)
                                  [] i = 5 -> Node("link", NoEntries, l)] :
                o \in BOOLEAN,
                e \in {<<"..">>, <<".", "e">>, <<"/", "l">>, <<"none">>, <<"..", "f">>, <<"/", "d", "..", "l">>},
                l \in {<<"d">>, <<"d", "e">>, <<"l", "f">>, <<"f">>, <<"/", "d", "none">>}}
PathTexts == UNION {[1 .. k -> {"d", "e", "l", "f", ".."}] : k \in 1 .. 2}
             \cup {<<"/">> \o p : p \in UNION {[1 .. k -> {"d", "e", "l", "f", ".."}] : k \in 1 .. 3}}
             \cup {<<"none">>, <<"d", "none">>, <<"l", ".", "e">>, <<"/", "none", "..", "d">>}
Canonicalized == Give("canonicalize", {[fs |-> t, path |-> p, slash |-> s, miss |-> m] :
                          t \in PathTrees, p \in PathTexts, s \in BOOLEAN, m \in {"Normal", "Existing", "Missing"}})

\* a name without links, "." and ".." on the way to its last component
IsCanonical(fs, path) ==
    /\ path[1] = "/"
    /\ \A i \in 2 .. Len(path) : path[i] \notin {"/", ".", ".."}
    /\ \A i \in 1 .. Len(path) : LET n == Lstat(fs, SubSeq(path, 1, i)) IN n > 0 => fs[n].kind # "link"

\* canonicalize agrees with the kernel: what the kernel resolves gets the name of
\* that very file, one without links; a name that must exist does, and so does the
\* directory of one that may be missing; a path through missing components is
\* given a name only where that was asked for. It goes on for ever, or refuses a
\* path that may be missing, only where the tree has a loop of links.
CanonicalNamesResolve ==
    LET loops == \E p \in {<<"l">>, <<"d", "e">>} : Stat(in.fs, p) = ELOOP
        needed == in.slash /\ in.miss # "Missing"
        Named(r, w) ==
            /\ r.st = "endless" => w < 0 /\ loops
            /\ w > 0 /\ ~(needed /\ OpenedDir(in.fs, w) < 0) => r.st = "ok" /\ Stat(in.fs, r.path) = w
            /\ r.st = "ok" => /\ IsCanonical(in.fs, r.path)
                              /\ in.miss = "Existing" => Lstat(in.fs, r.path) > 0
                              /\ in.miss = "Normal" => IsDir(in.fs, Stat(in.fs, Popped(r.path)))
                              /\ needed /\ Lstat(in.fs, r.path) > 0 => IsDir(in.fs, Lstat(in.fs, r.path))
            /\ ~loops /\ in.miss = "Missing" => r.st = "ok"
    IN  tool = "canonicalize" => Named(canonicalize(in.fs, in.path, in.slash, in.miss, "Physical"), Stat(in.fs, in.path))

\* Taking ".." away before links are looked at changes nothing where the path has
\* no links, and a path that is only cleaned up keeps the name of its file.
LogicalNamesAgree ==
    LET links == \E i \in DOMAIN in.path : in.path[i] \in {"e", "l"}
        Canonical(mode) == canonicalize(in.fs, in.path, in.slash, in.miss, mode)
        CleanedUp(lexical) == lexical.st = "ok" => lexical.path = normalize_path(IF in.path[1] = "/" THEN in.path ELSE <<"/">> \o in.path)
        LeadsFrom(d, n) == n > 0 => Walk(in.fs, d, normalize_path(in.path), TRUE, KernelLinks) = n
    IN  tool = "canonicalize" =>
            /\ ~links /\ Stat(in.fs, in.path) > 0 => Canonical("Logical") = Canonical("Physical")
            /\ CleanedUp(Canonical("None"))
            /\ ~links => \A d \in {Slash, 2} : LeadsFrom(d, Walk(in.fs, d, in.path, TRUE, KernelLinks))

\* The path from one directory to a file, as ln -r writes it, leads there.
RelativePathsLead ==
    tool = "canonicalize" /\ in.path[1] = "/" =>
        LET from == canonicalize(in.fs, in.path, FALSE, "Existing", "Physical")
        IN  \A to \in {<<"/">>, <<"/", "d">>} :
              from.st = "ok" =>
                 Walk(in.fs, Stat(in.fs, to), make_path_relative_to(from.path, to), FALSE, KernelLinks) = Stat(in.fs, from.path)

\* a link outside the working directory has an absolute text
LinksAreHome(fs) == \A n \in DOMAIN fs[2].ents : fs[fs[2].ents[n]].to[1] = "/"

\* cp and mv refuse a path as a loop of links only if the kernel gives up on it
\* too, however long the chain of links: links outside the working directory, whose
\* text is looked up in the wrong place, are taken with absolute texts only.
LoopsAreKernelLoops ==
    tool = "canonicalize" /\ LinksAreHome(in.fs) =>
        (is_symlink_loop(in.fs, in.path) => Stat(in.fs, in.path) = ELOOP)

Shapes == Give("mode", {[type |-> t, mode |-> m, with |-> w] :
                          t \in {"dir", "regular", "link", "whiteout"}, w \in BOOLEAN,
                          m \in SUBSET ({"u", "g"} \X {"r", "x", "s"} \cup {<<"u", "w">>, <<"o", "w">>, <<"o", "x">>, <<"o", "t">>})})

\* The letters of a mode tell all of it: each of the twelve bits can be read back,
\* the set-id and sticky bits also where the execute bit they hide is off.
ModeLettersReadBack ==
    tool = "mode" =>
        LET s == display_permissions_unix(in.type, in.mode, in.with)
            base == IF in.with THEN 1 ELSE 0
            at(class, k) == s[base + k + (CASE class = "u" -> 0 [] class = "g" -> 3 [] class = "o" -> 6)]
            shown == {<<c, "r">> : c \in {x \in {"u", "g", "o"} : at(x, 1) = "r"}}
                    \cup {<<c, "w">> : c \in {x \in {"u", "g", "o"} : at(x, 2) = "w"}}
                    \cup {<<c, "x">> : c \in {x \in {"u", "g", "o"} : at(x, 3) \in {"x", "s", "t"}}}
                    \cup {<<c, "s">> : c \in {x \in {"u", "g"} : at(x, 3) \in {"s", "S"}}}
                    \cup {<<c, "t">> : c \in {x \in {"o"} : at(x, 3) \in {"t", "T"}}}
        IN  shown = in.mode /\ (in.with => (s[1] = "?" <=> in.type = "whiteout"))

-----------------------------------------------------------------------------
(***************************************************************************)
(* chown and chgrp over a small tree: /d with a file, a directory and a    *)
(* link, a directory /o beside it and a link /h to /d.                     *)
(***************************************************************************)

\* fault: "none", or the node 3 (a file) or 4 (a directory) refuses the call
OwnerTree(k, fault) ==
    LET dir(S, f(_)) == Node("dir", [n \in S |-> f(n)], <<>>)
        nodes == [i \in 1 .. 9 |->
            CASE i = 1 -> dir({"d", "o", "h"}, LAMBDA n : CASE n = "d" -> 2 [] n = "o" -> 7 [] n = "h" -> 9)
              [] i = 2 -> dir({"a", "s", "k"}, LAMBDA n : CASE n = "a" -> 3 [] n = "s" -> 4 [] n = "k" -> 6)
              [] i = 4 -> dir({"b"}, LAMBDA n : 5)
              [] i = 6 -> Node("link", NoEntries, k)
              [] i = 7 -> dir({"c"}, LAMBDA n : 8)
              [] i = 9 -> Node("link", NoEntries, <<"d">>)
              [] OTHER -> Node("file", NoEntries, <<>>)]
        owned == [nodes EXCEPT ![4].uid = 2, ![5].uid = 5]
    IN  CASE fault = "fixed" -> [owned EXCEPT ![3].fixed = TRUE]
          [] fault = "closed" -> [owned EXCEPT ![4].open = FALSE]
          [] OTHER -> owned

Arg(path, slash) == [path |-> path, slash |-> slash]
OwnerArgs == {<<Arg(<<"d">>, FALSE)>>, <<Arg(<<"h">>, FALSE)>>, <<Arg(<<"/">>, FALSE)>>, <<Arg(<<"..">>, TRUE)>>,
              <<Arg(<<"d", "s">>, FALSE)>>, <<Arg(<<"d", "k">>, FALSE)>>, <<Arg(<<"none">>, FALSE), Arg(<<"d">>, TRUE)>>}
OwnerFlags == {[recursive |-> r, traverse |-> t, dereference |-> d = "yes", no_dereference |-> d = "no", preserve_root |-> p,
                changes |-> l = "c", quiet |-> l \in {"c", "f"}, verbose |-> l \in {"f", "v"}, wasi |-> w,
                dest_uid |-> 5, dest_gid |-> -1, from_uid |-> u, from_gid |-> -1] :
                 r \in BOOLEAN, t \in {"P", "H", "L"}, d \in {"", "yes", "no"}, p \in BOOLEAN, l \in {"", "c", "f", "v"},
                 w \in BOOLEAN, u \in {-1, 1}}
Chown == Give("chown", {[fs |-> OwnerTree(k, f), flags |-> g, files |-> a] :
                          k \in {<<"/">>, <<"a">>, <<"/", "o">>, <<"none">>, <<"..">>}, f \in {"none", "fixed", "closed"}, a \in OwnerArgs,
                          g \in {x \in OwnerFlags : (x.wasi => x.from_uid = -1 /\ ~x.verbose) /\ (x.preserve_root => x.recursive)}})

\* the directories walked: from start, by entries, by links to directories if all
\* links are followed, never into a directory of barred
Below(fs, all, barred, start) ==
    LET step(D) == D \cup ({n \in {Walk(fs, d, <<e>>, all, KernelLinks) : d \in D, e \in UNION {DOMAIN fs[i].ents : i \in D}} :
                              IsDir(fs, n) /\ fs[n].open} \ barred)
        grow[i \in 0 .. Cardinality(DOMAIN fs)] == IF i = 0 THEN start \ barred ELSE step(grow[i - 1])
    IN  grow[Cardinality(DOMAIN fs)]

\* what one argument stands for, as an independent reading of the options
WalksInto(fs, c, top, n) == c.recursive /\ (c.traverse # "None" \/ top < 0 \/ fs[top].kind # "link") /\ IsDir(fs, n) /\ fs[n].open
EntriesOf(fs, c, walked) ==
    UNION {{Walk(fs, d, <<e>>, c.dereference \/ c.traverse = "All", KernelLinks) : e \in DOMAIN fs[d].ents} : d \in walked}
MeantBelow(fs, c, top, walked) == [walked |-> walked, all |-> {top} \cup EntriesOf(fs, c, walked)]
MeantAt(fs, c, top, n, barred) ==
    MeantBelow(fs, c, top, IF WalksInto(fs, c, top, n) THEN Below(fs, c.traverse = "All", barred, {n}) ELSE {})
Meant(fs, c, arg, barred) ==
    MeantAt(fs, c, IF c.dereference THEN Stat(fs, arg.path) ELSE Lstat(fs, arg.path), Stat(fs, arg.path), barred)

\* an argument that is a link to a directory is changed through a descriptor of the
\* directory even where the link itself is meant
LinkToDirectory(fs, arg) == LET n == Lstat(fs, arg.path) IN n > 0 /\ fs[n].kind = "link" /\ IsDir(fs, Stat(fs, arg.path))
MeantByAll(fs, c, files, barred) == UNION {Meant(fs, c, files[i], barred).all : i \in DOMAIN files}
WalkedByAll(fs, c, files, barred) == UNION {Meant(fs, c, files[i], barred).walked : i \in DOMAIN files}
\* no argument is such a link
Plainly(c) == \A i \in DOMAIN in.files : c.dereference \/ ~LinkToDirectory(in.fs, in.files[i])

\* chown changes the files the user meant and no others: what success reports is
\* that every one of them has the new owner; a missing file, a link without target
\* where links are followed, a directory that cannot be read and a refused change
\* each make it fail, and nothing else does but a walk that comes back to itself.
ChownReachesTheTree ==
    LET Shut(c, d) == \E e \in DOMAIN in.fs[d].ents :
            LET n == Walk(in.fs, d, <<e>>, c.traverse = "All", KernelLinks) IN IsDir(in.fs, n) /\ ~in.fs[n].open
        ClosedDir(n) == IsDir(in.fs, n) /\ ~in.fs[n].open
        Faulty(c, meant) == \/ \E n \in meant : n < 0 \/ in.fs[n].fixed
                            \/ \E d \in WalkedByAll(in.fs, c, in.files, {}) : Shut(c, d)
                            \/ c.recursive /\ \E i \in DOMAIN in.files : ClosedDir(Stat(in.fs, in.files[i].path))
        Reached(c, run, meant, faulty) ==
            /\ \A n \in DOMAIN in.fs : run.fs[n] # in.fs[n] => n \in meant
            /\ run.ret = 0 => \A n \in meant : ClosedDir(n) \/ run.fs[n].uid = 5
            /\ faulty => run.ret = 1
            /\ ~faulty /\ (c.traverse = "All" => Walk(in.fs, 2, <<"k">>, TRUE, KernelLinks) \notin {1, 2}) => run.ret = 0
        Meaning(c, run, meant) == IF c.st = "error" THEN run.fs = in.fs /\ run.ret = 1
                                  ELSE Plainly(c) => Reached(c, run, meant, Faulty(c, meant))
        Configured(c) == Meaning(c, chown_base(in.fs, in.flags, in.files), MeantByAll(in.fs, c, in.files, {}))
    IN  tool = "chown" /\ ~in.flags.wasi /\ in.flags.from_uid = -1 /\ ~in.flags.preserve_root =>
            Configured(configure_symlink_and_recursion(in.flags))

\* --from changes the files that belonged to that user and no others, in the whole
\* tree: all of them, if the call succeeds. Links that are followed on the way but
\* not by the filter (-H) are left out.
OnlyTheirFilesChange ==
    LET Changed(run) == {n \in DOMAIN in.fs : run.fs[n] # in.fs[n]}
        Theirs(c) == {n \in MeantByAll(in.fs, c, in.files, {}) : n > 0 /\ in.fs[n].uid = in.flags.from_uid}
        Agree(run, changed, theirs) == changed \subseteq theirs /\ (run.ret = 0 => changed = theirs)
        Ran(c, run) == Agree(run, Changed(run), Theirs(c))
        Configured(c) == c.st = "ok" /\ Plainly(c) /\ (c.traverse = "None" \/ (c.traverse = "All" /\ c.dereference)) =>
                            Ran(c, chown_base(in.fs, in.flags, in.files))
    IN  tool = "chown" /\ ~in.flags.wasi /\ in.flags.from_uid # -1 /\ ~in.flags.preserve_root =>
            Configured(configure_symlink_and_recursion(in.flags))

\* With --preserve-root, the root is never walked, by whatever name or link it is
\* met: nothing is changed that is only reached through it, the call fails if it
\* would have been, and the root itself keeps its owner, but for -H, which changes
\* what a link in the tree refers to without looking at it.
RootIsNotWalked ==
    LET Kept(c, run, meant) ==
            /\ \A n \in DOMAIN in.fs : run.fs[n] # in.fs[n] => n \in meant
            /\ Slash \in WalkedByAll(in.fs, c, in.files, {}) => run.ret = 1
        Configured(c) == c.st = "ok" /\ Plainly(c) =>
            Kept(c, chown_base(in.fs, in.flags, in.files),
                 MeantByAll(in.fs, c, in.files, {Slash}) \ (IF c.traverse = "First" THEN {} ELSE {Slash}))
    IN  tool = "chown" /\ ~in.flags.wasi /\ in.flags.preserve_root => Configured(configure_symlink_and_recursion(in.flags))

\* What chown says is what it did: where no file is met twice, -c names the files
\* that changed and no other, -v says one thing of each file, and the return code
\* is 1 exactly when something was said to have failed; -f says nothing of it, and
\* changes and returns the same.
ReportsAreTrue ==
    LET Paths(r, what) == {r.said[i][2] : i \in {j \in DOMAIN r.said : r.said[j][1] \in what}}
        Found(paths) == {Lstat(in.fs, p) : p \in paths}
        Told(run, loud, changed) ==
            /\ run.fs = loud.fs /\ run.ret = loud.ret
            /\ in.flags.changes => Found(Paths(run, {"changed"})) = changed
            /\ \A i, j \in DOMAIN loud.said : loud.said[i][2] = loud.said[j][2] /\ i # j => "failed" \in {loud.said[i][1], loud.said[j][1]}
            /\ Found(Paths(loud, {"changed"})) = changed
            /\ loud.said # <<>> => (loud.ret = 1 <=> Paths(loud, {"failed", "root"}) # {})
            /\ VerbosityOf(in.flags) = "Silent" => Paths(run, {"changed", "retained", "failed"}) = {}
        Ran(run, loud) == Told(run, loud, {n \in DOMAIN in.fs : run.fs[n] # in.fs[n]})
    IN  tool = "chown" /\ ~in.flags.wasi /\ Len(in.files) = 1 /\ in.flags.traverse = "P" /\ in.files[1].path \in {<<"d">>, <<"d", "s">>, <<"..">>} =>
            Ran(chown_base(in.fs, in.flags, in.files),
                chown_base(in.fs, [in.flags EXCEPT !.changes = FALSE, !.quiet = FALSE, !.verbose = TRUE], in.files))

\* The WASI build, whose changes do nothing, finds the faults the Linux build
\* finds, if links are all followed or none is: the same calls fail.
WasiFindsTheSameFaults ==
    LET Same(c, run, linux) ==
            /\ run.fs = in.fs
            /\ (c.traverse = "All" /\ c.dereference) \/ (c.traverse = "None" /\ \A i \in DOMAIN in.files : ~LinkToDirectory(in.fs, in.files[i])) =>
                  run.ret = linux.ret
    IN  tool = "chown" /\ in.flags.wasi /\ ~in.flags.preserve_root /\ in.flags.traverse # "H" =>
            Same(configure_symlink_and_recursion(in.flags), chown_base(in.fs, in.flags, in.files),
                 chown_base([n \in DOMAIN in.fs |-> [in.fs[n] EXCEPT !.fixed = FALSE]], [in.flags EXCEPT !.wasi = FALSE], in.files))

\* A tree is changed where its names lead and nowhere else, though links lead out
\* of it. The first three parts hold while two processes make directories in one
\* tree, one step per system call; in the others nobody else changes the tree: a
\* walk of chown and the resolution of a name are one step each.
TreesAreSafe ==
    /\ MadeDirectoriesAreReal /\ NothingElseIsTouched /\ OneMakerGetsThrough
    /\ CanonicalNamesResolve /\ LogicalNamesAgree /\ RelativePathsLead
    /\ LoopsAreKernelLoops /\ ModeLettersReadBack /\ ChownReachesTheTree
    /\ OnlyTheirFilesChange /\ RootIsNotWalked /\ ReportsAreTrue
    /\ WasiFindsTheSameFaults

-----------------------------------------------------------------------------
(***************************************************************************)
(* Lines written for awkward names and read back, lists of lines of every  *)
(* kind, files summed, and the two old sums.                               *)
(***************************************************************************)

Awkward == BoundedSeq({"a", "bs", "NL", "(", " ", "*"}, 2) \ {<<>>}
Names == Awkward \cup {<<"a", ")", " ", "=", " ", "a">>, <<"a", ")", "=", " ", "a">>, <<"bs", "n">>, <<"M", " ", "(", "a", ")">>, <<"CR", "a", "bs">>, <<"#">>}
Sizes == {Sized("md5", -1), Sized("sha2", 24), Sized("sha3", 32), Sized("blake2b", -1), Sized("blake2b", 3), Sized("sm3", -1)}
WrittenLine == Give("sumline", [name : Names, a : Sizes, c : {1, 8, 97}, same : BOOLEAN, tag : BOOLEAN, binary : BOOLEAN, base64 : BOOLEAN])

Plain == [ignore_missing |-> FALSE, strict |-> FALSE]
\* a digest that base64 writes without padding and with hexadecimal digits only
Ambiguous(bytes) == Len(bytes) % 3 = 0 /\ IsHex(to_base64(bytes))

\* What cksum writes for a file it checks: whatever the name, the algorithm, the
\* format and the encoding, the line read back, after another one of its kind,
\* names the file and its digest, and says OK exactly when the contents did not
\* change. An untagged line of a name that had to be escaped is not readable.
WrittenLinesAreChecked ==
    LET Fs(c) == (in.name :> [k |-> "file", c |-> c]) @@ (<<"y">> :> [k |-> "file", c |-> 5])
        Checked(r, bytes, other) ==
            (in.base64 => ~Ambiguous(bytes) /\ ~Ambiguous(other)) =>
                r.res = <<"ok", IF ~in.tag /\ escape_filename(in.name).prefix # <<>> THEN "bad" ELSE IF in.same THEN "ok" ELSE "mismatch">>
        ListRead(a, form, bytes, other) ==
            Checked(process_checksum_file(<<print_checksum(a, form, <<"y">>, other), print_checksum(a, form, in.name, bytes)>>,
                                          IF in.tag THEN "" ELSE a.kind, IF a.kind \in DOMAIN FixedBytes THEN -1 ELSE a.len,
                                          Plain, Fs(IF in.same THEN in.c ELSE in.c + 1)), bytes, other)
    IN  tool = "sumline" =>
            ListRead(in.a, from_cksum(in.a.kind, in.tag, in.binary, FALSE, in.base64), digest_reader(in.c, in.a), digest_reader(5, in.a))

ListFs == (<<"a">> :> [k |-> "file", c |-> 5]) @@ (<<"d">> :> [k |-> "dir", c |-> 0]) @@ (<<"u">> :> [k |-> "unread", c |-> 0]) @@ (<<" ", "a">> :> [k |-> "file", c |-> 5])
Md5 == Sized("md5", -1)
Right(name) == to_hex(digest_reader(5, Md5)) \o <<" ", " ">> \o name
LineOf == [right |-> Right(<<"a">>), wrong |-> to_hex(digest_reader(6, Md5)) \o <<" ", " ", "a">>, missing |-> Right(<<"m">>), dir |-> Right(<<"d">>), unread |-> Right(<<"u">>),
           bad |-> <<"g", " ", "a">>, comment |-> <<"#", "a">>, empty |-> <<>>, odd |-> <<"0", " ", " ", "a">>]
SumLists == Give("sumlist", [lines : BoundedSeq(DOMAIN LineOf, 3), second : {"none", "right", "wrong", "gone"}, ignore_missing : BOOLEAN, strict : BOOLEAN])

\* The exit status of a check is 0 exactly when every list that was given could
\* be read, holds a line that says something, and every line of it that does is
\* right; missing files may be let go, then one must be there and right; lines
\* that say nothing may be let go unless strict. No list is left out.
ExitStatusIsTheVerdict ==
    LET Good(kinds) ==
            /\ kinds \ {"bad", "odd", "comment", "empty"} # {}
            /\ kinds \cap {"wrong", "dir", "unread"} = {}
            /\ "missing" \in kinds => in.ignore_missing
            /\ in.ignore_missing => "right" \in kinds
            /\ in.strict => kinds \cap {"bad", "odd"} = {}
        lists == <<[opens |-> TRUE, lines |-> [i \in DOMAIN in.lines |-> LineOf[in.lines[i]]]]>>
                 \o (IF in.second = "none" THEN <<>> ELSE <<[opens |-> in.second # "gone", lines |-> IF in.second = "gone" THEN <<>> ELSE <<LineOf[in.second]>>]>>)
        Verdict(v) == /\ v.code = 0 <=> Good(Range(in.lines)) /\ in.second \in {"none", "right"}
                    /\ v.seen = Len(lists) /\ ~v.ended
    IN  tool = "sumlist" =>
            Verdict(perform_checksum_validation(lists, "md5", -1, [ignore_missing |-> in.ignore_missing, strict |-> in.strict], ListFs))

SpacedLines == Give("spaced", [first : 1 .. 2, then : BoundedSeq(1 .. 2, 2)])

\* The first line fixes how many spaces stand before a name: in a list that
\* starts with one space a second space is part of the name, so that the same
\* file is never looked up under two names in one list.
OneFormatPerList ==
    LET Line(n) == to_hex(digest_reader(5, Md5)) \o (IF n = 1 THEN <<" ">> ELSE <<" ", " ">>) \o <<"a">>
        Same(r, s) ==
            \A i \in DOMAIN in.then :
                /\ in.first = 1 => r.res[i + 1] = "ok" /\ (s.res[i + 1] = "notfound" <=> in.then[i] = 2)
                /\ in.first = 2 => (r.res[i + 1] = "ok" <=> in.then[i] = 2) /\ (r.res[i + 1] = "bad" <=> in.then[i] = 1)
        Listed(lines) ==
            Same(process_checksum_file(lines, "md5", -1, Plain, ListFs),
                 process_checksum_file(lines, "md5", -1, Plain, [ListFs EXCEPT ![<<" ", "a">>] = [k |-> "missing", c |-> 0]]))
    IN  tool = "spaced" => Listed(<<Line(in.first)>> \o [i \in DOMAIN in.then |-> Line(in.then[i])])

SummedFiles == Give("summed", [kinds : BoundedSeq({"file", "dir", "missing", "unread"}, 3), raw : BOOLEAN, a : {Md5, Sized("crc", -1)}])

\* Every file that can be read is summed once and in order, up to one whose
\* reading fails; the exit status is 0 exactly when all were; raw sums come alone.
ReadableFilesAreSummed ==
    tool = "summed" =>
        LET n == Len(in.kinds)
            names == [i \in 1 .. n |-> <<Alphabet64[i]>>]
            fs == [x \in Range(names) |-> LET i == At(Alphabet64, x[1]) + 1 IN [k |-> in.kinds[i], c |-> i]]
            r == perform_checksum_computation(in.a, from_cksum(in.a.kind, TRUE, FALSE, in.raw, FALSE), names, fs)
            stop == SelectInSeq(in.kinds, LAMBDA k : k = "unread")
            reached == IF stop = 0 THEN 1 .. n ELSE 1 .. stop - 1
            read == {i \in reached : in.kinds[i] = "file"}
        IN  /\ r.code = 0 <=> Range(in.kinds) \subseteq {"file"} /\ (in.raw => n <= 1)
            /\ in.raw /\ n > 1 => r.out = <<>>
            /\ ~(in.raw /\ n > 1) => Len(r.out) = Cardinality(read)
            /\ ~in.raw => \A i \in read : \E j \in DOMAIN r.out : j = Cardinality({k \in read : k <= i}) /\ \E l \in DOMAIN r.out[j] : r.out[j][l] = names[i][1]

OldSums == Give("oldsum", 0 .. 2^(2 * SumBits) - 1)

\* A sysv sum is the sum of the bytes modulo 2^16 - 1, whatever the 32 bits it was
\* gathered in, and 0 only for nothing; a bsd sum is as it was after as many zero
\* bytes as it has bits, and not before unless its bits repeat.
OldSumsFold ==
    tool = "oldsum" =>
        LET m == 2^SumBits - 1
            s == sysv_result(in)
            Rotated[k \in 0 .. SumBits] == IF k = 0 THEN in % 2^SumBits ELSE bsd_update(Rotated[k - 1], 0)
        IN  /\ s % m = in % m /\ (s = 0 <=> in = 0) /\ s \in 0 .. m
            /\ Rotated[SumBits] = Rotated[0]
            /\ \A k \in 1 .. SumBits - 1 : Rotated[k] = ((Rotated[0] * 2^(SumBits - k)) % m) + (IF Rotated[0] = m THEN m ELSE 0)

-----------------------------------------------------------------------------
(***************************************************************************)
(* Streams of up to nine bytes copied with every outcome of every system  *)
(* call. The bytes are numbered, so that a lost, doubled or moved one      *)
(* shows.                                                                  *)
(***************************************************************************)

CopyData == {[i \in 1 .. n |-> i] : n \in 0 .. 9}

Copy == Give("copy", {[data |-> d, linux |-> l, c |-> NewCopy(d, l), partial |-> FALSE, fell |-> FALSE, refilled |-> FALSE] : d \in CopyData, l \in BOOLEAN})

\* remembered of the steps: the splices gave way to std::io::copy, splice_exact
\* failed half-way through a chunk, copy_exact filled its buffer a second time
CopyStep == /\ tool = "copy"
            /\ \E d \in copy_stream(in.c) :
                  in' = [in EXCEPT !.c = d,
                                   !.partial = @ \/ (in.c.pc = "splice_exact" /\ d.pc = "read" /\ in.c.left < in.c.chunk),
                                   !.fell = @ \/ (in.linux /\ d.pc = "io_copy"),
                                   !.refilled = @ \/ (in.c.pc = "read" /\ d.pc = "write" /\ in.c.written > 0)]
            /\ UNCHANGED tool

\* A copy that ends without an error has moved every byte, wherever splice stopped
\* short or gave way to read and write, as long as one buffer took what was left
\* of the chunk; its count is the whole stream unless the splices gave way,
\* when it leaves out what they had moved.
CopyIsWhole ==
    tool = "copy" /\ in.c.pc = "done" /\ ~in.refilled =>
        /\ in.c.dest = in.data
        /\ IF in.fell THEN in.c.result <= Len(in.data) - in.c.bytes ELSE in.c.result = Len(in.data)

\* At every step, what has arrived, then what is in the buffer and not yet
\* written, in the pipe and in the source are bytes of the stream in its order,
\* none of them twice: no failure makes a later byte overtake an earlier one.
BytesArriveInOrder ==
    tool = "copy" =>
        LET c == in.c
            all == c.dest \o (IF c.pc = "write" /\ c.written < c.read THEN Beyond(c.buf, c.written) ELSE <<>>) \o c.pipe \o c.src
        IN  \A i, j \in DOMAIN all : i < j => all[i] < all[j]

\* A copy waits for ever only if splice_exact had moved a part of the chunk when
\* it failed: copy_exact then asks the pipe for the whole chunk.
CopyWaitsOnlyAfterPartialMove ==
    tool = "copy" /\ in.c.pc \notin {"done", "error"} /\ copy_stream(in.c) = {} => in.partial

-----------------------------------------------------------------------------
(***************************************************************************)
(* A wait for a child with timeouts below, at and above whole polls; the   *)
(* child ends and the flag is set at any time up to the horizon.           *)
(***************************************************************************)

Horizon == 4 * Poll

Wait == Give("wait", {NewWait(t) : t \in 0 .. 2 * Poll + 1})

WaitStep == /\ tool = "wait"
            /\ in' \in wait_or_timeout(in) \cup {w \in Outside(in) : w.now <= Horizon}
            /\ UNCHANGED tool

\* A timeout is never reported of a child that had ended before the call looked
\* at it for the last time, nor while time is left and no signal came: the child
\* is polled after every sleep and before the clock is read.
TimeoutsAreReal ==
    tool = "wait" /\ in.result = "timeout" =>
        /\ in.ended \in {0, in.now}
        /\ in.timeout > 0 /\ (in.now > in.timeout \/ in.flagged > 0)

\* The wait goes on for at most one sleep after the child has ended, the flag was
\* set or the time is up; a wait without a timeout ends with the child alone.
WaitsArePrompt ==
    tool = "wait" /\ in.pc # "done" /\ in.timeout > 0 =>
        /\ in.ended = 0 \/ in.now <= in.ended + Poll
        /\ in.flagged = 0 \/ in.now <= in.flagged + Poll
        /\ in.now <= in.timeout + Poll

\* A list of checksums is checked line by line, a stream is copied whole and in
\* order whatever calls fall short, and a wait ends when its child does.
ListsAndCopiesAreWhole ==
    /\ WrittenLinesAreChecked /\ ExitStatusIsTheVerdict /\ OneFormatPerList
    /\ ReadableFilesAreSummed /\ OldSumsFold /\ CopyIsWhole
    /\ BytesArriveInOrder /\ CopyWaitsOnlyAfterPartialMove /\ TimeoutsAreReal
    /\ WaitsArePrompt

-----------------------------------------------------------------------------
Init == AskFor({"numeral", "duration", "size", "signed", "chmod", "ranges", "version", "shortcut",
                "globtext", "backup", "backupline", "decimal", "increment", "ring", "human",
                "shellname", "cname", "literalname", "integer", "float", "hexfloat", "escape",
                "spec", "format", "single", "sumline", "sumlist", "spaced", "summed", "oldsum",
                "mkdirs", "canonicalize", "mode", "chown", "base58", "base64", "base32", "locale", "copy",
                "wait", "chartext", "broken"})

Next == \/ Numeral \/ Duration \/ Size \/ Signed
        \/ Chmod \/ Ranges \/ Version \/ Shortcut \/ GlobText \/ Backup \/ BackupLine
        \/ Decimal \/ Increment \/ Ring \/ Human
        \/ ShellName \/ CName \/ LiteralName
        \/ IntegerShown \/ FloatShown \/ HexShown
        \/ EscapeText \/ SpecText \/ FormatText \/ SingleText
        \/ WrittenLine \/ SumLists \/ SpacedLines \/ SummedFiles \/ OldSums
        \/ MakeDirs \/ MakerStep \/ Canonicalized \/ Shapes \/ Chown
        \/ Based58 \/ Streamed64 \/ Remainder32 \/ Localize
        \/ Copy \/ CopyStep \/ Wait \/ WaitStep \/ CharText \/ BrokenText

Spec == Init /\ [][Next]_vars

\* Numbers and texts go through the library unchanged in meaning.
ConversionsAreExact == NumbersAreExact /\ TextsAreExact
=============================================================================
