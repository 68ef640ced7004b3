----------------------------- MODULE MCWorkflows -----------------------------
(* Small instances of Workflows for TLC. *)
EXTENDS Workflows

CONSTANTS k1, k2

TwoProcesses == {1, 2}

\* notes.md of one paragraph in two pieces, more.md that repeats a piece, and
\* blank.zh.md, which is empty.
Named(base, suffix) == [base |-> base, suffix |-> suffix]
Blank == Named("blank", <<"zh">>)
TwoNotes == <<Blank, Named("blank", <<"zh", "en">>), Named("blank", <<"zh", "zh">>), Named("more", <<>>), Named("more", <<"zh">>),
              Named("notes", <<>>), Named("notes", <<"zh">>)>>
Authored(text) == [lang |-> "en", text |-> text]
TwoDocuments ==
    [name \in Names |->
        CASE name = Named("notes", <<>>) -> Authored(<<k1, k2>>)
          [] name = Named("more", <<>>) -> Authored(<<k2>>)
          [] name = Blank -> [lang |-> "zh", text |-> <<>>]
          [] OTHER -> Missing]

OneNote == <<Named("notes", <<>>), Named("notes", <<"zh">>), Named("notes", <<"zh", "en">>)>>
OneDocument == [name \in Names |-> IF name.suffix = <<>> THEN Authored(<<k1>>) ELSE Missing]

\* No database yet, and one of an older release with one segment and one task.
Legacy ==
    Database("narrow", {[key |-> Key(k1, "zh"), scope |-> "legacy", text |-> Translated(k1, "zh", 1)]},
             <<[key |-> Key(<<k1>>, "zh"), text |-> <<Translated(k1, "zh", 1)>>, proven |-> FALSE]>>)
Fresh == Database("absent", {}, <<>>)
OldOrNone == {Fresh, Legacy}
None == {Fresh}

\* git prints on both streams and has a manual and a help; ls speaks the primary
\* language; make only shows its progress; tar answers -h alone.
Says(sort, lang, text) == [sort |-> sort, lang |-> lang, text |-> text]
Quiet == Says("none", "none", <<>>)
Fails == [out |-> Says("fails", "none", <<>>), err |-> Quiet]
Out(output) == [out |-> output, err |-> Quiet]
Programs == {"git", "ls", "make", "tar"}
Printed ==
    [invocation \in {<<c, a>> : c \in Programs, a \in {"", "--help", "-h"}} \cup {<<"man", c>> : c \in Programs} |->
        CASE invocation = <<"git", "">> -> [out |-> Says("text", "en", <<k1>>), err |-> Says("text", "en", <<k2>>)]
          [] invocation = <<"git", "--help">> -> Out(Says("text", "en", <<k2>>))
          [] invocation = <<"man", "git">> -> Out(Says("text", "en", <<k1>>))
          [] invocation = <<"ls", "">> -> Out(Says("text", "zh", <<k1>>))
          [] invocation = <<"make", "">> -> [out |-> Says("progress", "en", <<k1>>), err |-> Says("binary", "none", <<k2>>)]
          [] invocation = <<"make", "--help">> -> [out |-> Quiet, err |-> Says("binary", "none", <<k1>>)]
          [] invocation = <<"man", "make">> -> Out(Says("blank", "none", <<>>))
          [] invocation = <<"tar", "-h">> -> [out |-> Quiet, err |-> Says("text", "en", <<k1>>)]
          [] OTHER -> Fails]

\* The help of git came with the system.
Installed == {[cmd |-> "git", sub |-> "--help", lang |-> "zh", source |-> <<k2>>, text |-> <<Translated(k2, "zh", 0)>>]}

\* Newest first: : 1:0;command make / sudo -u ls env A=b git / cd ls / ...
Word(is, name) == [is |-> is, name |-> name]
Line(mark, words) == [mark |-> mark, words |-> words]
Histories ==
    <<[shell |-> "bash", lines |->
        <<Line("none", <<Word("name", "tar")>>), Line("stamp", <<>>),
          Line("none", <<Word("builtin", "cd"), Word("name", "ls")>>),
          Line("none", <<Word("sudo", "sudo"), Word("taking", "-u"), Word("name", "ls"), Word("env", "env"),
                         Word("assign", "A=b"), Word("name", "git")>>),
          Line("zsh", <<Word("prefix", "command"), Word("name", "make")>>)>>],
      [shell |-> "fish", lines |->
        <<Line("none", <<Word("name", "tar")>>), Line("fish", <<Word("path", "git"), Word("name", "ls")>>)>>]>>

ASSUME DiscoveryAssumption == Discovered = {<<"git">>}

Runs(kind, cache, strict) ==
    [kind |-> kind, cache |-> cache, strict |-> strict, paths |-> Names, options |-> {"lang"},
     command |-> <<"git", "">>, input |-> Named("notes", <<>>), to |-> Named("notes", <<"zh">>)]
Only(base, run) == [run EXCEPT !.paths = {n \in Names : n.base = base}]
At(name, run) == [run EXCEPT !.paths = {name}]
With(options, run) == [run EXCEPT !.options = options]
Of(command, run) == [run EXCEPT !.command = command]
Words(run) == [run EXCEPT !.input = Authored(<<k2>>)]

\* A run over files and a clear; outputs of programs; two writers of one output;
\* two files that share a segment; a text that is shown or written; the
\* commands that end at once or only read; an empty file that has the suffix of
\* its own target, and a file that is not there.
MixedJobs == {
    <<Runs("batch", "on", TRUE), Runs("clear", "on", FALSE)>>,
    <<Runs("doc", "on", FALSE), Runs("clear", "on", FALSE)>>,
    <<Of(<<"git", "">>, Runs("exec", "refresh", FALSE)), Runs("recall", "on", FALSE)>>,
    <<Of(<<"man", "git">>, Runs("man", "on", FALSE)), Runs("precache", "off", TRUE)>>,
    <<With({"output", "lang"}, Runs("text", "none", FALSE)), Only("notes", Runs("batch", "none", FALSE))>>,
    <<Only("more", Runs("doc", "on", FALSE)), Only("notes", Runs("doc", "refresh", FALSE))>>,
    <<With({"warn"}, Words(Runs("text", "off", FALSE))), Of(<<"ls", "">>, With({}, Runs("exec", "off", FALSE)))>>,
    <<With({"plan"}, Runs("text", "on", FALSE)), Of(<<"make", "">>, Runs("exec", "on", FALSE))>>,
    <<With({"plan"}, Only("more", Runs("batch", "on", FALSE))), Runs("precache", "refresh", FALSE)>>,
    <<With({"original"}, Runs("info", "on", FALSE)), Runs("estimate", "on", TRUE)>>,
    <<Of(<<"man", "tar">>, Runs("info", "on", FALSE)), With({"plan"}, Runs("doc", "on", FALSE))>>,
    <<With({"file", "lang"}, At(Blank, Runs("doc", "on", TRUE))), With({}, At(Blank, Runs("batch", "off", FALSE)))>>,
    <<With({"file"}, At(Named("more", <<"zh">>), Runs("doc", "on", FALSE))), Runs("recall", "on", FALSE)>> }

TwoDocs == {<<With({}, Runs("doc", "off", FALSE)), With({}, Runs("doc", "off", FALSE))>>}
=============================================================================
