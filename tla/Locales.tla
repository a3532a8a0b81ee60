------------------------------- MODULE Locales ------------------------------
(***************************************************************************)
(* uucore's mods/locale.rs: where a utility's messages come from. A bundle *)
(* maps the message ids it has to the file each text was taken from. A     *)
(* system `sys` says which directories exist and what their files hold:    *)
(*   sys.debug   the build looks beside its sources, not beside itself     *)
(*   sys.exe     the path of the executable is known (never under WASI)    *)
(*   sys.dirs    the directories <<program, place>> that exist             *)
(*   sys.commons those of them three levels below a uucore/locales         *)
(*   sys.files   the file of a source in a locale                          *)
(*   sys.built   the English file of a source built into the program       *)
(*   sys.lang    the value of LANG                                         *)
(***************************************************************************)
EXTENDS Integers, Sequences, FiniteSets, SequencesExt, FiniteSetsExt

English == "en-US"
Absent == [kind |-> "absent", ids |-> {}]
Broken == [kind |-> "broken", ids |-> {}]
Ftl(ids) == [kind |-> "good", ids |-> ids]

\* the programs that report through checksum_common: by name from files, by the
\* end of the name from what is built in
ChecksumNames == {"cksum", "md5sum"}
EndsInSum == {"cksum", "md5sum", "sum"}

Empty == <<>>
\* bundle with the texts of a file, which replace those it has
add_resource_overriding(bundle, file, from) ==
    [id \in DOMAIN bundle \cup file.ids |-> IF id \in file.ids THEN from ELSE bundle[id]]

Localized(ok, bundle) == [ok |-> ok, bundle |-> bundle]
Usable(bundle) == "common-error" \in DOMAIN bundle \/ "about" \in DOMAIN bundle

\* the first of the places beside the executable that exists
resolve_locales_dir_from_exe_dir(sys, p) ==
    LET places == <<"bindir/locales", "prefix/share", "bindir">>
        found == {i \in DOMAIN places : <<p, places[i]>> \in sys.dirs}
    IN  IF found = {} THEN <<>> ELSE <<p, places[Min(found)]>>

\* <<>> stands for the error
get_locales_dir(sys, p) ==
    IF sys.debug
    THEN CASE <<p, "../uu">> \in sys.dirs -> <<p, "../uu">>
           [] <<p, "../uu">> \notin sys.dirs /\ <<p, "manifest">> \in sys.dirs -> <<p, "manifest">>
           [] OTHER -> <<>>
    ELSE IF sys.exe THEN resolve_locales_dir_from_exe_dir(sys, p) ELSE <<>>

\* whether the directory of common strings is found from a utility's own
find_uucore_locales_dir(sys, dir) == dir \in sys.commons

\* a file that is missing, unreadable or malformed is passed over
try_add_resource_from(sys, bundle, there, source, locale) ==
    LET file == sys.files[source][locale]
    IN  IF there /\ file.kind = "good" THEN add_resource_overriding(bundle, file, <<source, locale>>) ELSE bundle

\* the order of the sources, each replacing texts of those before it
FileOrder == <<"common", "utility", "checksums">>
create_bundle(sys, locale, dir, util) ==
    LET there(source) == CASE source = "common" -> find_uucore_locales_dir(sys, dir)
                           [] source = "utility" -> get_locales_dir(sys, util) # <<>>
                           [] source = "checksums" -> util \in ChecksumNames /\ get_locales_dir(sys, "checksum_common") # <<>>
        b == FoldLeft(LAMBDA a, s : try_add_resource_from(sys, a, there(s), s, locale), Empty, FileOrder)
    IN  Localized(Usable(b), b)

\* what is built in: common, checksums, utility; a malformed one is an error here
create_english_bundle_from_embedded(sys, util) ==
    LET sources == <<"common">> \o (IF util \in EndsInSum THEN <<"checksums">> ELSE <<>>) \o <<"utility">>
        b == FoldLeft(LAMBDA a, s : add_resource_overriding(a, sys.built[s], <<s, "built-in">>), Empty, sources)
    IN  IF \E s \in ToSet(sources) : sys.built[s].kind = "broken" THEN Localized(FALSE, Empty) ELSE Localized(Usable(b), b)

\* a Localizer: one bundle, and English behind another language
Localizer(primary, fallback) == [primary |-> primary, fallback |-> fallback]

\* the Localizer of a utility, or none
WithEnglish(sys, locale, english, primary) ==
    CASE ~english.ok -> [ok |-> FALSE, loc |-> Localizer(Empty, Empty)]
      [] english.ok /\ locale # English /\ primary.ok -> [ok |-> TRUE, loc |-> Localizer(primary.bundle, english.bundle)]
      [] OTHER -> [ok |-> TRUE, loc |-> Localizer(english.bundle, Empty)]
EnglishBundle(sys, util, files) == IF files.ok THEN files ELSE create_english_bundle_from_embedded(sys, util)
init_localization(sys, locale, dir, util) ==
    WithEnglish(sys, locale, EnglishBundle(sys, util, create_bundle(sys, English, dir, util)), create_bundle(sys, locale, dir, util))

\* LANG up to its first dot, English where it is unset or not a language
detect_system_locale(sys) == IF sys.lang \in {"unset", "C"} THEN English ELSE sys.lang

\* The thread's state: the OnceLock and the flag beside it.
Unset == [is_set |-> FALSE, filled |-> FALSE, loc |-> Localizer(Empty, Empty)]
SetUp(ok, thread) == [ok |-> ok, thread |-> thread]

\* what setting up puts into the lock, or none
MadeLocalizer(sys, p) ==
    LET BuiltIn(english) == [ok |-> english.ok, loc |-> Localizer(english.bundle, Empty)]
        From(dir) == IF dir # <<>> THEN init_localization(sys, detect_system_locale(sys), dir, p) ELSE BuiltIn(create_english_bundle_from_embedded(sys, p))
    IN  From(get_locales_dir(sys, p))

setup_localization(thread, sys, p) ==
    LET Filled(r) == IF ~r.ok \/ thread.filled THEN SetUp(FALSE, thread) ELSE SetUp(TRUE, [is_set |-> TRUE, filled |-> TRUE, loc |-> r.loc])
    IN  IF thread.is_set THEN SetUp(TRUE, thread) ELSE Filled(MadeLocalizer(sys, p))

\* the text of a message: from the first bundle that has it, or the id itself
format(loc, id) ==
    CASE id \in DOMAIN loc.primary -> loc.primary[id]
      [] id \notin DOMAIN loc.primary /\ id \in DOMAIN loc.fallback -> loc.fallback[id]
      [] OTHER -> <<"id", id>>
get_message(thread, id) == IF thread.filled THEN format(thread.loc, id) ELSE <<"id", id>>

-----------------------------------------------------------------------------
(***************************************************************************)
(* Where a character ends in the multi-byte encodings of the locales       *)
(* (i18n/charmap.rs): the length of the first character of a sequence of   *)
(* bytes. A byte that begins no character is one of length 1.              *)
(***************************************************************************)

In(b, i, lo, hi) == i <= Len(b) /\ lo <= b[i] /\ b[i] <= hi
Continuation(b, i) == In(b, i, 128, 191)

utf8_len(b) ==
    LET n == CASE In(b, 1, 194, 223) -> 2 [] In(b, 1, 224, 239) -> 3 [] In(b, 1, 240, 244) -> 4 [] OTHER -> 1
    IN  IF \A i \in 2 .. n : Continuation(b, i) THEN n ELSE 1

gb18030_len(b) ==
    CASE In(b, 1, 129, 254) /\ In(b, 2, 48, 57) /\ In(b, 3, 129, 254) /\ In(b, 4, 48, 57) -> 4
      [] In(b, 1, 129, 254) /\ (In(b, 2, 64, 126) \/ In(b, 2, 128, 254)) -> 2
      [] OTHER -> 1

eucjp_len(b) ==
    CASE In(b, 1, 143, 143) /\ In(b, 2, 161, 254) /\ In(b, 3, 161, 254) -> 3
      [] (In(b, 1, 142, 142) /\ In(b, 2, 161, 223)) \/ (In(b, 1, 161, 254) /\ In(b, 2, 161, 254)) -> 2
      [] OTHER -> 1

euckr_len(b) == IF In(b, 1, 161, 254) /\ In(b, 2, 161, 254) THEN 2 ELSE 1

big5_len(b) == IF In(b, 1, 129, 254) /\ (In(b, 2, 64, 126) \/ In(b, 2, 161, 254)) THEN 2 ELSE 1

-----------------------------------------------------------------------------
encoding_from_name(enc) ==
    CASE enc \in {"gb18030", "gbk", "gb2312"} -> "Gb18030"
      [] enc \in {"euc-jp", "eucjp"} -> "EucJp"
      [] enc \in {"euc-kr", "euckr"} -> "EucKr"
      [] enc \in {"big5", "big5-hkscs", "big5hkscs", "euc-tw", "euctw"} -> "Big5"
      [] OTHER -> "Utf8"

\* env is what LC_ALL, LC_CTYPE and LANG say, in this order. A locale has the
\* name before its dot and the charset between the dot and an @, in lower case;
\* name and charset are empty where they are missing.
get_encoding(env) ==
    LET set == {i \in DOMAIN env : env[i].name # ""}
        locale == env[CHOOSE i \in set : \A j \in set : i <= j]
    IN  IF set = {} THEN "Utf8"
        ELSE CASE locale.charset # "" -> encoding_from_name(locale.charset)
               [] locale.charset = "" /\ locale.name \in {"zh_CN", "zh_SG"} -> "Gb18030"
               [] locale.charset = "" /\ locale.name \in {"zh_TW", "zh_HK"} -> "Big5"
               [] OTHER -> "Utf8"

mb_char_len(b, env) ==
    LET encoding == get_encoding(env) IN
    IF b[1] <= 127 THEN 1
    ELSE CASE encoding = "Utf8" -> utf8_len(b)
           [] encoding = "Gb18030" -> gb18030_len(b)
           [] encoding = "EucJp" -> eucjp_len(b)
           [] encoding = "EucKr" -> euckr_len(b)
           [] encoding = "Big5" -> big5_len(b)
=============================================================================
