-------------------------------- MODULE Paths -------------------------------
(***************************************************************************)
(* Directory descriptors (uucore's safe_traversal.rs) over a small file    *)
(* system, and the creation of a chain of directories with them. A tree    *)
(* maps inodes to nodes; a path is a sequence of components, "/" the first *)
(* one of an absolute path. The tree itself is the kernel's: a call of it  *)
(* answers an inode or a negative error number.  fs.rs and perms.rs follow.*)
(***************************************************************************)
EXTENDS Integers, Sequences, FiniteSets, SequencesExt, FiniteSetsExt

CONSTANT KernelLinks      \* links one path may pass through (the kernel's 40)

ASSUME SafeTraversalAssumption == KernelLinks \in Nat /\ KernelLinks > 2

Slash == 1
ENOENT == -1
ENOTDIR == -2
ELOOP == -3
EACCES == -4
EEXIST == -5
EMFILE == -6

\* a node: ents names a directory's entries, to is a link's text, open says that
\* a directory may be read, fixed that the owner may not be changed
Node(kind, ents, to) == [kind |-> kind, ents |-> ents, to |-> to, uid |-> 1, gid |-> 1, open |-> TRUE, fixed |-> FALSE]
NoEntries == [n \in {} |-> 0]
IsDir(fs, r) == r > 0 /\ fs[r].kind = "dir"
ParentOf(fs, d) == IF d = Slash THEN d ELSE CHOOSE p \in DOMAIN fs : \E n \in DOMAIN fs[p].ents : fs[p].ents[n] = d

\* path resolution from directory at: the last component is followed on request
RECURSIVE Walk(_, _, _, _, _)
Walk(fs, at, path, follow, links) ==
    IF path = <<>> THEN at
    ELSE LET c == Head(path) IN
         CASE fs[at].kind # "dir" -> ENOTDIR
           [] c = "/" -> Walk(fs, Slash, Tail(path), follow, links)
           [] c = "." -> Walk(fs, at, Tail(path), follow, links)
           [] c = ".." -> Walk(fs, ParentOf(fs, at), Tail(path), follow, links)
           [] c \notin DOMAIN fs[at].ents \cup {"/", ".", ".."} -> ENOENT
           [] OTHER ->
                LET n == fs[at].ents[c] IN
                IF fs[n].kind = "link" /\ (Len(path) > 1 \/ follow)
                THEN IF links = 0 THEN ELOOP ELSE Walk(fs, at, fs[n].to \o Tail(path), follow, links - 1)
                ELSE Walk(fs, n, Tail(path), follow, links)

\* the process's working directory is the root of the tree
Stat(fs, path) == Walk(fs, Slash, path, TRUE, KernelLinks)
Lstat(fs, path) == Walk(fs, Slash, path, FALSE, KernelLinks)

\* opening for reading with O_DIRECTORY
OpenedDir(fs, r) == CASE r < 0 -> r
                      [] r > 0 /\ fs[r].kind # "dir" -> ENOTDIR
                      [] OTHER -> IF fs[r].open THEN r ELSE EACCES

DirFd_open(fs, path, follow) == OpenedDir(fs, IF follow THEN Stat(fs, path) ELSE Lstat(fs, path))
\* mutant: AT_SYMLINK_NOFOLLOW is never passed
AlwaysFollows(fs, fd, name, follow) == Walk(fs, fd, <<name>>, TRUE, KernelLinks)
stat_at(fs, fd, name, follow) == Walk(fs, fd, <<name>>, follow, KernelLinks)
open_subdir(fs, fd, name, follow) == OpenedDir(fs, stat_at(fs, fd, name, follow))
read_dir_entries(fs, fd) == SetToSortSeq(DOMAIN fs[fd].ents, LAMBDA a, b : fs[fd].ents[a] < fs[fd].ents[b])

\* calls that change the tree give the tree after them and their answer
Answer(fs, r) == [fs |-> fs, r |-> r]

unlink_at(fs, fd, name, is_dir) ==
    LET n == stat_at(fs, fd, name, FALSE)
    IN  IF n < 0 THEN Answer(fs, n)
        ELSE IF is_dir # (fs[n].kind = "dir") THEN Answer(fs, ENOTDIR)
        ELSE Answer([fs EXCEPT ![fd].ents = [e \in DOMAIN @ \ {name} |-> @[e]]], 0)

mkdir_at(fs, fd, name) ==
    LET new == Max(DOMAIN fs) + 1
    IN  IF name \in DOMAIN fs[fd].ents THEN Answer(fs, EEXIST)
        ELSE Answer([i \in DOMAIN fs \cup {new} |->
                        IF i = new THEN Node("dir", NoEntries, <<>>)
                        ELSE IF i = fd THEN [fs[fd] EXCEPT !.ents = [e \in DOMAIN @ \cup {name} |-> IF e = name THEN new ELSE @[e]]]
                        ELSE fs[i]], new)

\* the id -1 keeps what the file has
Owned(node, uid, gid) == [node EXCEPT !.uid = IF uid = -1 THEN @ ELSE uid, !.gid = IF gid = -1 THEN @ ELSE gid]
Chowned(fs, n, uid, gid) == CASE n < 0 -> Answer(fs, n)
                              [] n > 0 /\ fs[n].fixed -> Answer(fs, EACCES)
                              [] OTHER -> Answer([fs EXCEPT ![n] = Owned(@, uid, gid)], 0)
chown_at(fs, fd, name, uid, gid, follow) == Chowned(fs, stat_at(fs, fd, name, follow), uid, gid)
fchown(fs, fd, uid, gid) == Chowned(fs, fd, uid, gid)

-----------------------------------------------------------------------------
\* One call of create_dir_all_safe, a system call at a time: current and todo
\* while the ancestor is looked for, fd and todo once it is open; anchor keeps the
\* ancestor and made the components still to come when it was found.
Maker(path) == [pc |-> "find", current |-> path, todo |-> <<>>, fd |-> 0, anchor |-> 0, made |-> <<>>]

Failed(mk) == [mk EXCEPT !.pc = "error"]
NextComponent(mk, fd) == [mk EXCEPT !.fd = fd, !.todo = Tail(@), !.pc = IF Len(mk.todo) = 1 THEN "done" ELSE "stat"]

\* one turn of the loop that looks for the deepest real directory
find_existing_ancestor(fs, mk) ==
    LET r == Lstat(fs, mk.current)
        parent == Front(mk.current)
        up == [mk EXCEPT !.todo = <<Last(mk.current)>> \o @, !.current = IF parent = <<>> THEN <<".">> ELSE parent]
    IN  CASE IsDir(fs, r) -> [mk EXCEPT !.pc = "open"]
          [] ~IsDir(fs, r) /\ r < 0 /\ r # ENOENT -> Failed(mk)
          [] OTHER -> IF parent = <<>> THEN [up EXCEPT !.pc = "open"] ELSE up

ComponentSeen(fs, mk, n) ==
    CASE n = ENOENT -> [mk EXCEPT !.pc = "mkdir"]
      [] n < 0 /\ n # ENOENT -> Failed(mk)
      [] OTHER -> IF fs[n].kind = "file" THEN Failed(mk)
                  ELSE [mk EXCEPT !.pc = IF fs[n].kind = "dir" THEN "opensub" ELSE "unlink"]

open_or_create_subdir(fs, mk) ==
    LET name == Head(mk.todo)
        gone == unlink_at(fs, mk.fd, name, FALSE)
        new == mkdir_at(fs, mk.fd, name)
        sub == open_subdir(fs, mk.fd, name, FALSE)
    IN  CASE mk.pc = "stat" -> Answer(fs, ComponentSeen(fs, mk, stat_at(fs, mk.fd, name, FALSE)))
          [] mk.pc = "unlink" -> Answer(gone.fs, IF gone.r < 0 THEN Failed(mk) ELSE [mk EXCEPT !.pc = "mkdir"])
          [] mk.pc = "mkdir" -> Answer(new.fs, IF new.r < 0 THEN Failed(mk) ELSE [mk EXCEPT !.pc = "opensub"])
          [] mk.pc = "opensub" -> Answer(fs, IF sub < 0 THEN Failed(mk) ELSE NextComponent(mk, sub))

create_dir_all_safe(fs, mk) ==
    LET top == DirFd_open(fs, mk.current, TRUE)
    IN  CASE mk.pc = "find" -> Answer(fs, find_existing_ancestor(fs, mk))
          [] mk.pc = "open" -> Answer(fs, IF top < 0 THEN Failed(mk)
                                          ELSE [mk EXCEPT !.fd = top, !.anchor = top, !.made = mk.todo,
                                                          !.pc = IF mk.todo = <<>> THEN "done" ELSE "stat"])
          [] OTHER -> open_or_create_subdir(fs, mk)

-----------------------------------------------------------------------------
(***************************************************************************)
(* uucore's fs.rs: the canonical form of a path under each way to treat    *)
(* links and missing components, relative paths, loops of links, and the   *)
(* letters of a file's mode.                                               *)
(***************************************************************************)

CONSTANTS SYMLINKS_TO_LOOK_FOR_LOOPS,    \* links followed before loops are looked for (20 in the code)
          MaxTurns                       \* turns of canonicalize after which it is taken to run for ever

ASSUME PathsAssumption == SYMLINKS_TO_LOOK_FOR_LOOPS \in Nat /\ MaxTurns \in Nat

\* Path::components: "." stays only in front
components(path) == (IF path # <<>> /\ path[1] = "." THEN <<".">> ELSE <<>>) \o SelectSeq(path, LAMBDA c : c # ".")

\* PathBuf::push and PathBuf::pop
Pushed(path, c) == IF c = "/" THEN <<"/">> ELSE Append(path, c)
Popped(path) == IF path \in {<<>>, <<"/">>} THEN path ELSE Front(path)

\* one component more of a path without ".." inside
Normalized(ret, c) == CASE c = "." -> ret
                        [] c = ".." -> IF ret = <<>> \/ Last(ret) = ".." THEN Append(ret, "..") ELSE Popped(ret)
                        [] OTHER -> Pushed(ret, c)
OrDot(ret) == IF ret = <<>> THEN <<".">> ELSE ret
normalize_path(path) == OrDot(FoldLeft(Normalized, <<>>, components(path)))

from_path(fs, path, dereference) == IF dereference THEN Stat(fs, path) ELSE Lstat(fs, path)

\* the text of the link a path names, if it names one, or why it could not be read
LinkText(fs, n) == CASE n < 0 -> [st |-> "error", to |-> <<>>]
                     [] n > 0 /\ fs[n].kind = "link" -> [st |-> "link", to |-> fs[n].to]
                     [] OTHER -> [st |-> "plain", to |-> <<>>]
resolve_symlink(fs, path) == LinkText(fs, from_path(fs, path, FALSE))

Result(st, path) == [st |-> st, path |-> path]
FsError == Result("error", <<>>)

\* whether a component that cannot be read is an error
MissingIsError(miss_mode, parts) == miss_mode = "Existing" \/ (miss_mode = "Normal" /\ parts # <<>>)

\* the loop over the parts; visited holds the directory of each link taken and the parts after it
RECURSIVE ResolveParts(_, _, _, _, _, _, _, _)
ResolveParts(fs, parts, result, followed, visited, miss_mode, res_mode, turns) ==
    IF parts = <<>> THEN Result("ok", result)
    ELSE IF turns = 0 THEN Result("endless", <<>>)
    ELSE LET c == Head(parts)
             rest == Tail(parts)
             now == CASE c = "." -> result
                      [] c = ".." -> Popped(result)
                      [] OTHER -> Pushed(result, c)
             link == resolve_symlink(fs, now)
             next == components(link.to) \o rest
             seen == <<from_path(fs, Popped(now), FALSE), next>>
             late == followed >= SYMLINKS_TO_LOOK_FOR_LOOPS
         IN  CASE res_mode = "None" -> ResolveParts(fs, rest, now, followed, visited, miss_mode, res_mode, turns - 1)
               [] res_mode # "None" /\ link.st = "link" ->
                    IF late /\ seen \in visited THEN FsError
                    ELSE ResolveParts(fs, next, Popped(now), IF late THEN followed ELSE followed + 1,
                                      IF late THEN visited \cup {seen} ELSE visited, miss_mode, res_mode, turns - 1)
               [] res_mode # "None" /\ link.st = "error" /\ MissingIsError(miss_mode, rest) -> FsError
               [] OTHER -> ResolveParts(fs, rest, now, followed, visited, miss_mode, res_mode, turns - 1)

\* slash: the path ends with the separator; the working directory is the root
Absolute(path) == IF path # <<>> /\ path[1] = "/" THEN path ELSE <<"/">> \o path
ReadableOr(fs, path, r) == IF DirFd_open(fs, path, TRUE) > 0 THEN r ELSE FsError

\* what must exist of the name r that the parts resolved to
Demanded(fs, r, slash, miss_mode) ==
    CASE r.st # "ok" \/ miss_mode = "Missing" -> r
      [] r.st = "ok" /\ miss_mode # "Missing" /\ (miss_mode = "Existing" \/ from_path(fs, r.path, TRUE) > 0) ->
           IF slash THEN ReadableOr(fs, r.path, r) ELSE r
      [] OTHER -> IF r.path # <<"/">> THEN ReadableOr(fs, Popped(r.path), r) ELSE r

canonicalize(fs, original, slash, miss_mode, res_mode) ==
    Demanded(fs, ResolveParts(fs, components(IF res_mode = "Logical" THEN normalize_path(Absolute(original)) ELSE Absolute(original)),
                              <<>>, 0, {}, miss_mode, res_mode, MaxTurns), slash, miss_mode)

make_path_relative_to(path, to) ==
    LET common == CHOOSE k \in 0 .. Len(path) :
                    /\ k <= Len(to) /\ SubSeq(path, 1, k) = SubSeq(to, 1, k)
                    /\ k = Len(path) \/ k = Len(to) \/ path[k + 1] # to[k + 1]
        parts == [i \in 1 .. Len(to) - common |-> ".."] \o SubSeq(path, common + 1, Len(path))
    IN  IF parts = <<>> THEN <<".">> ELSE parts

RECURSIVE LoopFrom(_, _, _)
LoopFrom(fs, path, visited) ==
    LET link == resolve_symlink(fs, path)
    IN  CASE link.st # "link" -> FALSE
          [] link.st = "link" /\ path \in visited -> TRUE
          [] OTHER -> LoopFrom(fs, link.to, visited \cup {path})
is_symlink_loop(fs, path) == LoopFrom(fs, path, {})

-----------------------------------------------------------------------------
\* the type letter of a mode; a type the table misses is "?"
get_file_display(type) ==
    CASE type = "dir" -> "d" [] type = "char" -> "c" [] type = "block" -> "b" [] type = "regular" -> "-"
      [] type = "fifo" -> "p" [] type = "link" -> "l" [] type = "socket" -> "s" [] OTHER -> "?"

\* the last letter of a class, from its execute bit and the set-id or sticky bit
ExecuteLetter(mode, class, special, small, large) ==
    IF <<class, special>> \in mode THEN IF <<class, "x">> \in mode THEN small ELSE large
    ELSE IF <<class, "x">> \in mode THEN "x" ELSE "-"

\* a mode is a set of bits <<class, letter>>
display_permissions_unix(type, mode, display_file_type) ==
    LET bit(class, p) == IF <<class, p>> \in mode THEN p ELSE "-"
    IN  (IF display_file_type THEN <<get_file_display(type)>> ELSE <<>>)
        \o <<bit("u", "r"), bit("u", "w"), ExecuteLetter(mode, "u", "s", "s", "S"),
             bit("g", "r"), bit("g", "w"), ExecuteLetter(mode, "g", "s", "s", "S"),
             bit("o", "r"), bit("o", "w"), ExecuteLetter(mode, "o", "t", "t", "T")>>
-----------------------------------------------------------------------------
(***************************************************************************)
(* perms.rs, behind chown and chgrp: which files a call changes, what it   *)
(* says about each and what it returns. On Linux the tree below an         *)
(* argument is walked with directory descriptors; on WASI by path, where a *)
(* change of owner does nothing and everything belongs to user and group 0.*)
(* An id of -1 is one the user did not give. A run is the tree, the return *)
(* code and the lines written, each <<what, path>>.                        *)
(***************************************************************************)
CONSTANT MaxOpenDirs      \* directories the process may hold open at once (RLIMIT_NOFILE)

ASSUME OwnersAssumption == MaxOpenDirs \in Nat

Run0(fs) == [fs |-> fs, ret |-> 0, said |-> <<>>]
Say(run, what, path) == [run EXCEPT !.said = Append(@, <<what, path>>)]
Refused(run, path) == [Say(run, "root", path) EXCEPT !.ret = 1]
Fail(cfg, run, path) == [(IF cfg.level = "Silent" THEN run ELSE Say(run, "failed", path)) EXCEPT !.ret = 1]

\* -R without -H or -L works on the links themselves and refuses --dereference;
\* without -R no link is traversed
configure_symlink_and_recursion(flags) ==
    LET asked == CASE flags.traverse = "L" -> "All" [] flags.traverse = "H" -> "First" [] OTHER -> "None"
        stays == flags.recursive /\ asked = "None"
    IN  [st |-> IF stays /\ flags.dereference THEN "error" ELSE "ok",
         recursive |-> flags.recursive,
         dereference |-> ~stays /\ (flags.dereference \/ ~flags.no_dereference),
         traverse |-> IF flags.recursive THEN asked ELSE "None"]

\* whose files are changed: ids of -1 filter nothing
matched(cfg, uid, gid) == (cfg.from_uid = -1 \/ cfg.from_uid = uid) /\ (cfg.from_gid = -1 \/ cfg.from_gid = gid)

\* a path that canonicalizes to "/", looked up only where it would be traversed:
\* slash says that the argument ends with the separator
is_root(fs, path, slash, would_traverse_symlink) ==
    /\ would_traverse_symlink \/ slash \/ path[Len(path)] \in {"/", ".", ".."}
    /\ Stat(fs, path) = Slash

get_metadata(fs, path, follow) == IF follow THEN Stat(fs, path) ELSE Lstat(fs, path)

\* what is said of a change that worked
report_ownership_change_success(cfg, run, path, node) ==
    LET changed == Owned(node, cfg.dest_uid, cfg.dest_gid) # node
    IN  CASE changed /\ cfg.level \in {"Changes", "Verbose"} -> Say(run, "changed", path)
          [] ~changed /\ cfg.level = "Verbose" -> Say(run, "retained", path)
          [] OTHER -> run
print_verbose_ownership_retained_as(cfg, run, path) == IF cfg.level = "Verbose" THEN Say(run, "retained", path) ELSE run

\* a: the answer of the call that changes the owner
AfterChown(cfg, run, path, node, a) ==
    IF a.r < 0 THEN Fail(cfg, run, path) ELSE report_ownership_change_success(cfg, [run EXCEPT !.fs = a.fs], path, node)

\* who owns a file: on WASI, always user and group 0
MetaOf(cfg, fs, n) == IF cfg.wasi THEN [fs[n] EXCEPT !.uid = 0, !.gid = 0] ELSE fs[n]

\* a change by path, which does nothing on WASI
wrap_chown(cfg, run, path, n, follow) ==
    AfterChown(cfg, run, path, MetaOf(cfg, run.fs, n),
               IF cfg.wasi THEN Answer(run.fs, 0)
               ELSE Chowned(run.fs, get_metadata(run.fs, path, follow), cfg.dest_uid, cfg.dest_gid))

safe_chown_dir(cfg, run, fd, path, n) ==
    AfterChown(cfg, run, path, run.fs[n], fchown(run.fs, fd, cfg.dest_uid, cfg.dest_gid))

-----------------------------------------------------------------------------
\* one entry of an open directory: n is what its metadata was taken from
EntryChanged(cfg, run, fd, path, name, n) ==
    LET here == Append(path, name)
    IN  IF matched(cfg, run.fs[n].uid, run.fs[n].gid)
        THEN AfterChown(cfg, run, here, run.fs[n],
                        chown_at(run.fs, fd, name, cfg.dest_uid, cfg.dest_gid, cfg.dereference \/ cfg.traverse = "All"))
        ELSE print_verbose_ownership_retained_as(cfg, run, here)

\* an entry that is the root ends the walk of its directory
RootMet(cfg, run, path, name) ==
    cfg.preserve_root /\ is_root(run.fs, Append(path, name), FALSE, cfg.traverse = "All")

RECURSIVE safe_traverse_dir(_, _, _, _, _, _)

\* a subdirectory, sub being what opening it gave; depth counts the descriptors held
Entered(cfg, run, here, sub, depth) ==
    IF sub < 0 THEN Fail(cfg, run, here)
    ELSE safe_traverse_dir(cfg, run, sub, here, read_dir_entries(run.fs, sub), depth + 1)
EntryBelow(cfg, run, fd, path, name, isDir, depth) ==
    IF isDir
    THEN Entered(cfg, run, Append(path, name), IF depth = MaxOpenDirs THEN EMFILE ELSE open_subdir(run.fs, fd, name, TRUE), depth)
    ELSE run

\* the run after one entry, and whether the walk of its directory goes on
EntryWalked(cfg, run, fd, path, name, n, depth) ==
    CASE n < 0 -> [on |-> TRUE, run |-> Fail(cfg, run, Append(path, name))]
      [] n > 0 /\ RootMet(cfg, run, path, name) -> [on |-> FALSE, run |-> Refused(run, Append(path, name))]
      [] OTHER -> [on |-> TRUE,
                   run |-> EntryBelow(cfg, EntryChanged(cfg, run, fd, path, name, n), fd, path, name, run.fs[n].kind = "dir", depth)]
AfterEntry(cfg, walked, fd, path, entries, depth) ==
    IF walked.on THEN safe_traverse_dir(cfg, walked.run, fd, path, entries, depth) ELSE walked.run

\* the entries left in an open directory
safe_traverse_dir(cfg, run, fd, path, entries, depth) ==
    IF entries = <<>> THEN run
    ELSE AfterEntry(cfg, EntryWalked(cfg, run, fd, path, Head(entries), stat_at(run.fs, fd, Head(entries), cfg.traverse = "All"), depth),
                    fd, path, Tail(entries), depth)

IsLink(fs, n) == n > 0 /\ fs[n].kind = "link"

\* fd: what opening the root of the walk gave
Dived(cfg, run, root, fd) ==
    IF fd < 0 THEN Fail(cfg, run, root) ELSE safe_traverse_dir(cfg, run, fd, root, read_dir_entries(run.fs, fd), 1)
safe_dive_into(cfg, run, root) ==
    IF (cfg.traverse = "None" /\ IsLink(run.fs, Lstat(run.fs, root))) \/ ~IsDir(run.fs, Stat(run.fs, root)) THEN run
    ELSE Dived(cfg, run, root, DirFd_open(run.fs, root, TRUE))

CannotRead(cfg, run, root) == Fail(cfg, run, root)
RECURSIVE wasi_dive_into(_, _, _)
WasiChanged(cfg, run, here, n) == IF matched(cfg, 0, 0) THEN wrap_chown(cfg, run, here, n, cfg.dereference) ELSE run
WasiBelow(cfg, run, here, isDir) == IF isDir THEN wasi_dive_into(cfg, run, here) ELSE run
WasiEntry(cfg, run, here, n) ==
    IF n < 0 THEN Fail(cfg, run, here) ELSE WasiBelow(cfg, WasiChanged(cfg, run, here, n), here, run.fs[n].kind = "dir")
WasiWalked(cfg, run, root, at) ==
    IF ~IsDir(run.fs, at) THEN run
    ELSE IF ~run.fs[at].open THEN CannotRead(cfg, run, root)
    ELSE FoldLeft(LAMBDA r, name : WasiEntry(cfg, r, Append(root, name), get_metadata(r.fs, Append(root, name), cfg.dereference)),
                  run, read_dir_entries(run.fs, at))
wasi_dive_into(cfg, run, root) == WasiWalked(cfg, run, root, Stat(run.fs, root))

\* the argument itself: a directory, also one behind a link, is changed through a
\* descriptor, and one that cannot be opened is passed over
ArgumentChanged(cfg, run, path, n) ==
    LET through(fd) == IF fd < 0 THEN run ELSE safe_chown_dir(cfg, run, fd, path, n)
    IN  IF cfg.wasi \/ ~IsDir(run.fs, Stat(run.fs, path)) THEN wrap_chown(cfg, run, path, n, cfg.dereference)
        ELSE through(DirFd_open(run.fs, path, TRUE))

GivenUp(cfg, run, path) == IF cfg.level = "Verbose" THEN Say(run, "given up", path) ELSE run
ArgumentDone(cfg, run, path, n, meta) ==
    IF matched(cfg, meta.uid, meta.gid) THEN ArgumentChanged(cfg, run, path, n)
    ELSE print_verbose_ownership_retained_as(cfg, run, path)
TreeBelow(cfg, run, path) ==
    IF ~cfg.recursive THEN run ELSE IF cfg.wasi THEN wasi_dive_into(cfg, run, path) ELSE safe_dive_into(cfg, run, path)

\* n: what the metadata of the argument was taken from
Traversed(cfg, run, arg, n) ==
    CASE n < 0 -> GivenUp(cfg, Fail(cfg, run, arg.path), arg.path)
      [] n > 0 /\ cfg.recursive /\ cfg.preserve_root /\ is_root(run.fs, arg.path, arg.slash, cfg.traverse # "None") ->
           Refused(run, arg.path)
      [] OTHER -> TreeBelow(cfg, ArgumentDone(cfg, run, arg.path, n, MetaOf(cfg, run.fs, n)), arg.path)
traverse(cfg, run, arg) == Traversed(cfg, run, arg, get_metadata(run.fs, arg.path, cfg.dereference))

exec(cfg, fs, files) == FoldLeft(LAMBDA run, f : traverse(cfg, run, f), Run0(fs), files)

VerbosityOf(flags) ==
    CASE flags.changes -> "Changes" [] ~flags.changes /\ flags.quiet -> "Silent"
      [] OTHER -> IF flags.verbose THEN "Verbose" ELSE "Normal"

\* what the call gives; a bad combination of options changes nothing
chown_base(fs, flags, files) ==
    LET configured(c) ==
            IF c.st = "error" THEN [Run0(fs) EXCEPT !.ret = 1]
            ELSE exec([recursive |-> c.recursive, dereference |-> c.dereference, traverse |-> c.traverse, level |-> VerbosityOf(flags),
                       preserve_root |-> flags.preserve_root, wasi |-> flags.wasi, dest_uid |-> flags.dest_uid,
                       dest_gid |-> flags.dest_gid, from_uid |-> flags.from_uid, from_gid |-> flags.from_gid], fs, files)
    IN  configured(configure_symlink_and_recursion(flags))
=============================================================================
