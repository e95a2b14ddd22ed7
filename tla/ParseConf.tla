----------------------------- MODULE ParseConf -----------------------------
(***************************************************************************)
(* The configuration of the server: the defaults (tunables.c), the command *)
(* line, the files it names, and the reload at SIGHUP (parseconf.c,        *)
(* handle_sighup), while the administrator edits the files.                *)
(*                                                                         *)
(* A file is a sequence of characters in which the name of a setting and a *)
(* word of a value count as one character each; digits are characters.     *)
(***************************************************************************)
EXTENDS Strings

CONSTANTS
    StrSettings, BoolSettings, UintSettings,   \* the three tables
    Defaults,      \* tunables_load_defaults
    FileNames,     \* the config files
    Contents,      \* what a file can look like
    CommandLines,  \* what the server can be started with
    DefaultConfig, \* VSFTP_DEFAULT_CONFIG
    ConfMax,       \* VSFTP_CONF_FILE_MAX
    MaxEdits       \* bound: edits and reloads

Settings == StrSettings \cup BoolSettings \cup UintSettings

ASSUME ConfAssumption == DOMAIN Defaults = Settings /\ DefaultConfig \in FileNames

VARIABLES
    tunable,       \* the tunables
    disk,          \* the files: a text, its owner and whether it is regular
    argv,          \* arguments still to be looked at
    config_loaded,
    saved,         \* s_p_saved_filename
    todo,          \* lines of the file that is being loaded
    fatal,         \* errs_fatal
    cpc,           \* "args", "read", "check", "lines", "running", "dead"
    given,         \* history: the lines that were given since the defaults
    edits          \* number of edits and reloads

cvars == <<tunable, disk, argv, config_loaded, saved, todo, fatal, cpc, given, edits>>

NoFile == ""           \* the null pointer of s_p_saved_filename
NullText == <<"none">>     \* the null pointer of a string setting
Crash == <<"crash">>   \* no value: the process dies of it

CInit ==
    /\ tunable = Defaults
    /\ disk \in [FileNames -> Contents]
    /\ argv \in CommandLines
    /\ config_loaded = FALSE /\ saved = NoFile
    /\ todo = <<>> /\ fatal = TRUE /\ cpc = "args" /\ given = <<>> /\ edits = 0

-----------------------------------------------------------------------------
(* One setting.                                                            *)

Upper == [c \in {"yes", "true", "no", "false"} |->
    CASE c = "yes" -> "YES" [] c = "true" -> "TRUE" [] c = "no" -> "NO" [] OTHER -> "FALSE"]
StrUpper(s) == [i \in DOMAIN s |-> IF s[i] \in DOMAIN Upper THEN Upper[s[i]] ELSE s[i]]

SkipSpace(s) == From(s, Min({i \in 0..Len(s) : i = Len(s) \/ s[i + 1] \notin Blank}))

ConfDigit == [c \in {"0", "1", "7", "8"} |->
    CASE c = "0" -> 0 [] c = "1" -> 1 [] c = "7" -> 7 [] OTHER -> 8]
InBase(s, b) == FoldLeft(LAMBDA v, c : v * b + ConfDigit[c], 0, s)

\* vsf_sysutil_octal_to_uint stops at the first character that is no octal digit,
\* atoi, after spaces, at the first that is no digit.
OctalToUint(s) == InBase(Leading(s, {"0", "1", "7"}), 8)
ConfAtoi(s) == InBase(Leading(SkipSpace(s), DOMAIN ConfDigit), 10)

\* str_strdup_trimmed: with nothing but spaces the new length is negative, and the
\* copy of so many bytes fails for want of memory or of readable bytes.
StrdupTrimmed(s) ==
    IF \A i \in DOMAIN s : s[i] \in Blank THEN {NullText, Crash} ELSE {Trimmed(s)}

\* vsf_parseconf_load_setting: what a line does, or that it is an error.  Strings
\* come first and may be empty; the other settings need a value.
LoadSetting(line) ==
    LET half == Halves(SkipSpace(line), <<"=">>)
        known(set) == Len(half[1]) = 1 /\ half[1][1] \in set
        value == half[2]
        Set(v) == [kind |-> "set", key |-> half[1][1], value |-> v]
        word == StrUpper(value)
    IN  CASE known(StrSettings) ->
               {IF v = Crash THEN [kind |-> "crash"] ELSE Set(v) :
                   v \in IF value = <<>> THEN {NullText} ELSE StrdupTrimmed(value)}
          [] ~known(StrSettings) /\ value = <<>> -> {[kind |-> "error"]}
          [] value # <<>> /\ known(BoolSettings) ->
               {IF word \in {<<"YES">>, <<"TRUE">>, <<"1">>} THEN Set(1)
                ELSE IF word \in {<<"NO">>, <<"FALSE">>, <<"0">>} THEN Set(0)
                ELSE [kind |-> "error"]}
          [] value # <<>> /\ known(UintSettings) ->
               {Set(IF value[1] = "0" THEN OctalToUint(value) ELSE ConfAtoi(value))}
          [] OTHER -> {[kind |-> "error"]}

\* A line is loaded: errors are fatal, or passed over.
Apply(line, next) ==
    \E r \in LoadSetting(line) :
        /\ cpc' = IF r.kind = "crash" \/ (r.kind = "error" /\ fatal) THEN "dead" ELSE next
        /\ tunable' = IF r.kind = "set" THEN [tunable EXCEPT ![r.key] = r.value] ELSE tunable

-----------------------------------------------------------------------------
(* Files.                                                                  *)

\* vsf_parseconf_load_file remembers the name for the reload ...
LoadFile(name, errs_fatal) ==
    /\ saved' = name /\ fatal' = errs_fatal /\ cpc' = "read"

\* ... reads the file up to a limit (str_fileread) ...
ReadFile ==
    /\ cpc = "read"
    /\ LET f == disk[saved] IN
       CASE ~f.exists -> /\ cpc' = IF fatal THEN "dead" ELSE "args"
                         /\ UNCHANGED todo
         [] f.exists -> /\ cpc' = "check"
                        /\ todo' = IF f.regular THEN Lines(UpTo(f.text, Min({ConfMax, Len(f.text)}))) ELSE <<>>
    /\ given' = given \o todo'
    /\ UNCHANGED <<tunable, disk, argv, config_loaded, saved, fatal, edits>>

\* The file gets shorter between fstat and read: "read size mismatch".
ReadMismatch ==
    /\ cpc = "read" /\ edits < MaxEdits
    /\ disk[saved].exists /\ disk[saved].regular /\ disk[saved].text # <<>>
    /\ cpc' = "dead" /\ edits' = edits + 1
    /\ UNCHANGED <<tunable, disk, argv, config_loaded, saved, todo, fatal, given>>

\* ... and dies unless it belongs to the user and is a file, fatal errors or not.
CheckFile ==
    /\ cpc = "check"
    /\ cpc' = LET f == disk[saved] IN
              IF f.exists /\ f.regular /\ f.mine THEN "lines" ELSE "dead"
    /\ UNCHANGED <<tunable, disk, argv, config_loaded, saved, todo, fatal, given, edits>>

\* Empty lines, comments in the first column and lines of spaces are passed over.
Skipped(line) == line = <<>> \/ line[1] = "#" \/ \A i \in DOMAIN line : line[i] \in Blank

LoadLine ==
    /\ cpc = "lines" /\ todo # <<>>
    /\ todo' = Tail(todo)
    /\ IF Skipped(Head(todo)) THEN UNCHANGED <<tunable, cpc>> ELSE Apply(Head(todo), "lines")
    /\ UNCHANGED <<given, disk, argv, config_loaded, saved, fatal, edits>>

EndOfFile ==
    /\ cpc = "lines" /\ todo = <<>>
    /\ cpc' = "args"
    /\ UNCHANGED <<tunable, disk, argv, config_loaded, saved, todo, fatal, given, edits>>

-----------------------------------------------------------------------------
(* main and the listener.                                                  *)

\* A config file, or "-osetting=value".
NextArg ==
    /\ cpc = "args" /\ argv # <<>>
    /\ argv' = Tail(argv)
    /\ IF Head(argv).kind = "file"
       THEN /\ LoadFile(Head(argv).name, TRUE)
            /\ config_loaded' = TRUE
            /\ UNCHANGED <<tunable, given>>
       ELSE /\ Apply(Head(argv).line, "args")
            /\ given' = Append(given, Head(argv).line)
            /\ UNCHANGED <<saved, fatal, config_loaded>>
    /\ UNCHANGED <<disk, todo, edits>>

\* The default file, if no other was named and if it is there.
NoMoreArgs ==
    /\ cpc = "args" /\ argv = <<>>
    /\ config_loaded' = TRUE
    /\ IF ~config_loaded /\ disk[DefaultConfig].exists
       THEN LoadFile(DefaultConfig, TRUE)
       ELSE cpc' = "running" /\ UNCHANGED <<saved, fatal>>
    /\ UNCHANGED <<tunable, disk, argv, todo, given, edits>>

LoadDefaults == tunable' = Defaults

\* Mutant: the settings that are no longer in the file keep their values.
ReloadKeeps ==
    /\ cpc = "running" /\ saved # NoFile /\ edits < MaxEdits
    /\ LoadFile(saved, FALSE)
    /\ given' = <<>> /\ edits' = edits + 1
    /\ UNCHANGED <<tunable, disk, argv, config_loaded, todo>>

\* handle_sighup: the defaults, then the last file that was named; "-o" and the
\* files before it are forgotten.  Without any file the assertion fails.
Reload ==
    /\ cpc = "running" /\ edits < MaxEdits
    /\ LoadDefaults
    /\ IF saved # NoFile THEN LoadFile(saved, FALSE)
       ELSE cpc' = "dead" /\ UNCHANGED <<saved, fatal>>
    /\ given' = <<>> /\ edits' = edits + 1
    /\ UNCHANGED <<disk, argv, config_loaded, todo>>

\* The administrator writes a file.
Edit ==
    /\ edits < MaxEdits /\ cpc # "dead"
    /\ \E n \in FileNames, c \in Contents : disk[n] # c /\ disk' = [disk EXCEPT ![n] = c]
    /\ edits' = edits + 1
    /\ UNCHANGED <<tunable, argv, config_loaded, saved, todo, fatal, cpc, given>>

Stopped == cpc \in {"dead", "running"} /\ UNCHANGED cvars

CNext ==
    \/ NextArg \/ NoMoreArgs \/ ReadFile \/ ReadMismatch \/ CheckFile \/ LoadLine \/ EndOfFile
    \/ Reload \/ Edit \/ Stopped

-----------------------------------------------------------------------------
(* What a line says: spaces, the name, "=" and the value.                  *)

Says(line, s) ==
    \E i \in DOMAIN line :
        /\ line[i] = s /\ \A j \in 1..i - 1 : line[j] \in Blank
        /\ i = Len(line) \/ line[i + 1] = "="
ValueIn(line) == LET at == Places(line, <<"=">>) IN IF at = {} THEN <<>> ELSE From(line, Min(at) + 1)

\* The values a setting can have because of a line that is in order.
Means(line, s) ==
    LET v == ValueIn(line) IN
    IF s \in StrSettings THEN IF Trimmed(v) = <<>> THEN {NullText} ELSE {Trimmed(v)}
    ELSE IF s \in BoolSettings
    THEN (IF v \in {<<"yes">>, <<"YES">>, <<"true">>, <<"TRUE">>, <<"1">>} THEN {1} ELSE {})
         \cup (IF v \in {<<"no">>, <<"NO">>, <<"false">>, <<"FALSE">>, <<"0">>} THEN {0} ELSE {})
    ELSE IF v # <<>> /\ ToSet(v) \subseteq DOMAIN ConfDigit /\ (v[1] = "0" => "8" \notin ToSet(v))
    THEN {FoldRight(LAMBDA c, x : [sum |-> x.sum + ConfDigit[c] * x.unit,
                                   unit |-> x.unit * (IF v[1] = "0" THEN 8 ELSE 10)],
                    v, [sum |-> 0, unit |-> 1]).sum}
    ELSE {}

\* Once the server runs, every setting has the value of the last line in order that
\* names it, in the file and among the arguments it was given, or its default; after
\* a reload only the file counts, whatever stood in it before, and a wrong line
\* keeps no other line from its effect.  (A number with something behind it counts
\* as the number; the property says nothing of it.)
ConfigurationIsWhatWasGiven ==
    cpc = "running" =>
        \A s \in Settings :
            LET names == {i \in DOMAIN given : Says(given[i], s)}
                lines == {i \in names : s \in UintSettings \/ Means(given[i], s) # {}}
            IN  IF lines = {} THEN tunable[s] = Defaults[s]
                ELSE LET meant == Means(given[Max(lines)], s) IN
                     meant # {} => tunable[s] \in meant
=============================================================================
