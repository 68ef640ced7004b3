----------------------------- MODULE CommandOutput -----------------------------
(***************************************************************************)
(* Translating what other programs print: exec, man, info and precache     *)
(* (exec_wrapper.rs, docs.rs, precache.rs of crates/hymt-translate) and    *)
(* the cache of whole outputs in its two tiers (exec_cache.rs of           *)
(* crates/hymt-cache).                                                     *)
(*                                                                         *)
(* An invocation is a program and its argument.  What it prints on a       *)
(* stream is a record: a sort, the language the detector would find, and   *)
(* the segments of its text.  Sorts: "fails", the program cannot be run or *)
(* reports an error; "none", no output; "binary"; "blank"; "structured",   *)
(* JSON, XML or YAML; "progress", lines of a build; "text"; "cut", text    *)
(* whose first 4096 bytes end within a character.                          *)
(***************************************************************************)
EXTENDS BufferedTranslation

CONSTANTS
    Prints,          \* Prints[invocation]: what it prints, [out, err]
    ExecStreams,     \* the streams exec translates: exec.translate_stdout, translate_stderr
    SkippedCommands, \* exec.skip_commands
    SkippedMatches,  \* the invocations that exec.skip_patterns match
    PluginBlocklist, \* exec.plugin_blocklist
    ShellHistory,    \* the shells' history files, in the order they are read
    OnPath,          \* the programs on PATH
    RecentLimit,     \* RECENT_HISTORY_COMMAND_LIMIT
    LineLimit,       \* RECENT_HISTORY_LINE_LIMIT
    SharedPages,     \* rows of the shared exec cache
    Primary, Secondary

ASSUME StreamsAssumption == ExecStreams \subseteq {"out", "err"}
ASSUME PrintsAssumption ==
    /\ \A invocation \in DOMAIN Prints :
          IsText(Prints[invocation].out.text) /\ IsText(Prints[invocation].err.text)
    /\ \A commands \in Jobs : \A p \in Processes :
          commands[p].kind \in {"exec", "man", "info"} => commands[p].command \in DOMAIN Prints
\* No program has the name of an option: no two pages are filed under one invocation.
ASSUME PathAssumption ==
    /\ IsFiniteSet(OnPath) /\ "--help" \notin OnPath
    /\ \A cmd \in OnPath : {<<"man", cmd>>, <<cmd, "--help">>, <<cmd, "-h">>} \subseteq DOMAIN Prints
ASSUME LimitsAssumption == RecentLimit \in Nat \ {0} /\ LineLimit \in Nat

VARIABLE pages      \* rows of the user's exec cache: [cmd, sub, lang, source, text]

Has(p, option) == option \in job[p].options

\* resolve_target_language: text in the primary language goes to the secondary.
TargetLang(p, content) ==
    IF ~Has(p, "lang") /\ content.lang = Primary THEN Secondary ELSE Primary

-----------------------------------------------------------------------------
\* The first command of a line of shell history. A word is [is, name]:
\* "option", "taking" an argument of its own when it belongs to sudo,
\* "dashes", "assign" (A=b), "path" (A=b/c), "sudo" or doas, "prefix"
\* (command, builtin, noglob), "env", "builtin" of the shell, or "name".
AtDashes(words) == words # <<>> /\ Head(words).is \in {"option", "taking", "dashes"}

\* skip_options_with_args
SkipOptions(line) ==
    LET rest[words \in Seq(Range(line))] ==
          IF ~AtDashes(words) THEN words
          ELSE CASE Head(words).is = "dashes" -> Tail(words)
                 [] Head(words).is = "taking" /\ Tail(words) # <<>> -> rest[Tail(Tail(words))]
                 [] OTHER -> rest[Tail(words)]
    IN  rest[line]

SkipAssignments(line) ==
    LET others == {i \in DOMAIN line : line[i].is \notin {"assign", "path"}}
    IN  IF others = {} THEN <<>> ELSE SubSeq(line, Least(others), Len(line))

\* first_command_token. The name is that of the file, without directories.
FirstCommand(line) ==
    LET first[words \in Seq(Range(line))] ==
          IF words = <<>> THEN NoText
          ELSE CASE AtDashes(words) \/ Head(words).is \in {"assign", "prefix"} -> first[Tail(words)]
                 [] Head(words).is = "sudo" -> first[SkipOptions(Tail(words))]
                 [] Head(words).is = "env" -> first[SkipAssignments(Tail(words))]
                 [] Head(words).is = "builtin" -> NoText
                 [] OTHER -> Head(words).name
    IN  first[line]

AtMost(n, seq) == SubSeq(seq, 1, IF n < Len(seq) THEN n ELSE Len(seq))

\* parse_bash_history, parse_zsh_history and parse_fish_history: newest line
\* first. Every parser undoes the marks of zsh and fish; a time stamp of bash
\* names no command, and only fish asks for its mark.
Commands(lines, shell) ==
    LET Named(line) == CASE line.mark = "stamp" -> NoText
                         [] shell = "fish" /\ line.mark # "fish" -> NoText
                         [] OTHER -> FirstCommand(line.words)
        newest == AtMost(LineLimit, Reverse(lines))
    IN  SelectSeq([i \in DOMAIN newest |-> Named(newest[i])], LAMBDA name : name # NoText)

Mentioned ==
    FlattenSeq([i \in DOMAIN ShellHistory |-> Commands(ShellHistory[i].lines, ShellHistory[i].shell)])

\* discover_recent_commands: each program once, where it is mentioned first.
Wanted == (Range(Mentioned) \cap OnPath) \ (SkippedCommands \cup PluginBlocklist)
FirstSeen(name) == Least({i \in DOMAIN Mentioned : Mentioned[i] = name})
Earlier(name) == {other \in Wanted : FirstSeen(other) < FirstSeen(name)}

\* The one sequence of those within the limit, in order.
Discovered ==
    {names \in SetToSeqs({name \in Wanted : Cardinality(Earlier(name)) < RecentLimit}) :
        \A i, j \in DOMAIN names : i < j => FirstSeen(names[i]) < FirstSeen(names[j])}

-----------------------------------------------------------------------------
\* The texts to translate. A page is filed under its invocation.
PageOf(invocation, stream, lang, text) ==
    [cmd |-> invocation[1], sub |-> invocation[2], stream |-> stream, lang |-> lang, text |-> text]

\* decode_for_translation
Decodes(output) == output.sort # "binary"

\* should_translate_stdout
TranslatesStdout(invocation) ==
    /\ "out" \in ExecStreams
    /\ invocation[1] \notin SkippedCommands
    /\ invocation \notin SkippedMatches
    /\ Prints[invocation].out.sort \in {"blank", "text", "cut"}

TranslatesStderr(invocation) ==
    "err" \in ExecStreams /\ Prints[invocation].err.sort # "none" /\ Decodes(Prints[invocation].err)

\* run_exec_command: stderr comes first; stdout decides the language of both,
\* or nothing does when its sample is not UTF-8.
ExecPages(p, invocation) ==
    LET printed == Prints[invocation]
        lang == IF printed.out.sort = "cut" THEN Primary ELSE TargetLang(p, printed.out)
        page(stream, output) == PageOf(invocation, stream, lang, output.text)
    IN  (IF TranslatesStderr(invocation) THEN <<page("err", printed.err)>> ELSE <<>>)
        \o (IF TranslatesStdout(invocation) THEN <<page("out", printed.out)>> ELSE <<>>)

\* run_man_command, run_info_command: an error of the program is one of the
\* command; colours of a terminal do not matter, the rest is translated.
ManPage(p, invocation) ==
    <<PageOf(invocation, "out", TargetLang(p, Prints[invocation].out), Prints[invocation].out.text)>>

\* capture_help: both streams of --help, or else of -h.
HelpOf(cmd) ==
    LET output(flag) == Prints[<<cmd, flag>>]
        all(flag) == output(flag).out.text \o output(flag).err.text
        speaks(flag) == /\ output(flag).out.sort # "fails"
                        /\ Decodes(output(flag).out) /\ Decodes(output(flag).err)
                        /\ all(flag) # <<>>
    IN  IF speaks("--help") THEN all("--help") ELSE IF speaks("-h") THEN all("-h") ELSE <<>>

\* run_precache: the man page and the help of each command, in the primary language.
PrecachePages(cmd) ==
    LET manual == Prints[<<"man", cmd>>].out
    IN  (IF manual.sort \notin {"fails", "blank", "none"}
         THEN <<PageOf(<<"man", cmd>>, "out", Primary, manual.text)>> ELSE <<>>)
        \o (IF HelpOf(cmd) = <<>> THEN <<>>
            ELSE <<PageOf(<<cmd, "--help">>, "out", Primary, HelpOf(cmd))>>)

-----------------------------------------------------------------------------
\* ExecCache. The policy that is part of the key is the same for all.
RowOf(page, text) ==
    [cmd |-> page.cmd, sub |-> page.sub, lang |-> page.lang, source |-> page.text, text |-> text]
SameKey(row, other) ==
    row.cmd = other.cmd /\ row.sub = other.sub /\ row.lang = other.lang /\ row.source = other.source

\* find: the user's tier, then the shared one.
Filed(page) ==
    LET rows(tier) == {row \in tier : SameKey(row, RowOf(page, <<>>))}
    IN  IF rows(pages) # {} THEN rows(pages) ELSE rows(SharedPages)

\* store_user: INSERT ... ON CONFLICT DO UPDATE.
StorePage(page, text) ==
    pages' = {row \in pages : ~SameKey(row, RowOf(page, text))} \cup {RowOf(page, text)}

=============================================================================
