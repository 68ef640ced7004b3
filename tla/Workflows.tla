------------------------------ MODULE Workflows ------------------------------
(***************************************************************************)
(* The commands, each in a process of its own: text over one text or file, *)
(* batch and translate-doc over files, exec, man, info and precache over   *)
(* the output of programs, and those that only use the history: estimate,  *)
(* recall and history --clear.                                             *)
(*                                                                         *)
(* A file is named by its base and the language suffixes it has gathered:  *)
(* notes.zh-cn.md is [base |-> "notes", suffix |-> <<"zh">>].  Its         *)
(* content is a sequence of segments (BufferedTranslation).  An output is  *)
(* written to a temporary file named after the process and a counter and   *)
(* then renamed; an uncatchable end leaves the temporary file behind.      *)
(***************************************************************************)
EXTENDS CommandOutput

CONSTANTS
    Listing,      \* every file name, in the order of the directory
    Disk,         \* what the files hold at the beginning
    Missing,      \* no such file
    Beginnings,   \* states of the history database at the beginning
    MaxFaults     \* bound on crashes, and on file and database operations and plans that fail

Names == Range(Listing)

ASSUME DiskAssumption ==
    /\ IsFiniteSet(Names) /\ Disk = [name \in Names |-> Disk[name]]
    /\ \A name \in Names : Disk[name] # Missing => IsText(Disk[name].text)
ASSUME PathsAssumption ==
    \A commands \in Jobs : \A p \in Processes :
        /\ commands[p].paths \subseteq Names /\ commands[p].to \in Names
        /\ "file" \in commands[p].options => Cardinality(commands[p].paths) = 1
ASSUME InputsAssumption ==
    \A commands \in Jobs : \A p \in Processes :
        commands[p].kind = "text" =>
            IF commands[p].input \in Names THEN Disk[commands[p].input] # Missing
            ELSE IsText(commands[p].input.text)

\* What an output may hold: for each segment a translation of it, or itself.
IsTranslated(text, segment, lang) == \E p \in Processes : text = Translated(segment, lang, p)
Whole(text, source, lang) ==
    /\ IsText(text) /\ DOMAIN text = DOMAIN source
    /\ \A i \in DOMAIN source : text[i] = source[i] \/ IsTranslated(text[i], source[i], lang)
AllTranslated(text, source, lang) ==
    \A i \in DOMAIN text : IsTranslated(text[i], source[i], lang)

\* Earlier runs were runs of these commands.
RowsOf(db) == \A row \in db.rows : IsTranslated(row.text, row.key.of, row.key.in)
TasksOf(db) ==
    \A task \in Range(db.tasks) :
        /\ Whole(task.text, task.key.of, task.key.in)
        /\ task.proven => AllTranslated(task.text, task.key.of, task.key.in)
ASSUME BeginningsAssumption ==
    \A start \in Beginnings :
        /\ start = Database(start.layout, start.rows, start.tasks)
        /\ IsText(start.tasks) /\ RowsOf(start) /\ TasksOf(start)
ASSUME MaxFaultsAssumption == MaxFaults \in Nat

VARIABLES
    disk,       \* the content of each file, or Missing
    made,       \* history: the text that each file written here translates
    temps,      \* the temporary files there are: [name, text]
    work,       \* how far each process is
    faults      \* those so far

outputs == <<disk, made>>
files == <<outputs, temps, pages>>
vars == <<database, translation, files, work, faults>>

NoTarget == [from |-> Missing, to |-> Missing, lang |-> Primary, text |-> <<>>]

\* id is the process id: another life of p has another one, or the same again.
NewWork(id) ==
    [at |-> "begin", id |-> id, count |-> 0, scanned |-> <<>>, plan |-> {}, todo |-> <<>>,
     now |-> NoTarget, done |-> {}, failed |-> 0, status |-> "none"]

Init ==
    /\ TranslationInit
    /\ \E start \in Beginnings : DatabaseInit(start)
    /\ disk = Disk /\ made = <<>>
    /\ temps = {}
    /\ pages = {}
    /\ work = [p \in Processes |-> NewWork(<<p, 0>>)]
    /\ faults = 0

-----------------------------------------------------------------------------
\* Planning.

Suffixed(name, lang) == [name EXCEPT !.suffix = Append(@, lang)]

\* The stem of the file ends with the suffix of its own target.
Already(p, name) == name.suffix # <<>> /\ Last(name.suffix) = TargetLang(p, disk[name])

\* Such a file is passed over, unless translate-doc was given that very file;
\* only a batch passes over an empty one. Outputs stay within Names.
IsSource(p, name) ==
    /\ name \in job[p].paths
    /\ disk[name] # Missing
    /\ job[p].kind = "batch" => disk[name].text # <<>>
    /\ Already(p, name) => job[p].kind = "doc" /\ Has(p, "file")
    /\ Suffixed(name, TargetLang(p, disk[name])) \in Names

Target(p, name) ==
    LET lang == TargetLang(p, disk[name])
    IN  [from |-> name, to |-> Suffixed(name, lang), lang |-> lang, text |-> disk[name].text]

Fault == faults < MaxFaults /\ faults' = faults + 1

Goes(p, at) == work' = [work EXCEPT ![p].at = at]
Exits(p, status) == work' = [work EXCEPT ![p].at = "exit", ![p].status = status]

\* main turns some combinations down.
Conflicts(p) ==
    \/ Has(p, "plan") /\ job[p].kind \notin {"text", "batch"}
    \/ job[p].kind = "precache" /\ job[p].cache \in {"none", "refresh"}

\* The commands that only use the history.
Manages(p) == job[p].kind \in {"clear", "recall", "estimate"}

\* A client is asked about its backend first, unless a replay may do without it.
PutsOff(p) == Deferred(p) /\ job[p].kind # "precache" /\ ~Has(p, "plan")

Begin(p) ==
    /\ work[p].at = "begin"
    /\ IF Conflicts(p) THEN Exits(p, "error") /\ UNCHANGED <<runtime, call>>
       ELSE IF Has(p, "original") THEN Exits(p, "own") /\ UNCHANGED <<runtime, call>>
       ELSE IF job[p].kind \in {"clear", "recall"}
       THEN /\ Goes(p, "managing") /\ Asks(p, job[p].kind, NoText, NoText)
            /\ UNCHANGED runtime
       ELSE IF ~Manages(p) /\ PutsOff(p) THEN Goes(p, "plan") /\ UNCHANGED <<runtime, call>>
       ELSE \/ /\ Preflight(p)
               /\ IF Manages(p)
                  THEN Goes(p, "managing") /\ Asks(p, "estimate", NoText, NoText)
                  ELSE Goes(p, "plan") /\ UNCHANGED call
            \/ job[p].strict /\ Exits(p, "error") /\ UNCHANGED <<runtime, call>>
    /\ UNCHANGED <<file, lock, draft, job, tr, files, faults>>

\* run_history and run_recall.
Managed(p) ==
    /\ work[p].at = "managing" /\ job[p].kind \in {"clear", "recall"}
    /\ call[p].at = "answered"
    /\ Exits(p, IF call[p].ok THEN "ok" ELSE "error")
    /\ call' = [call EXCEPT ![p] = NoCall]
    /\ UNCHANGED <<file, lock, draft, translation, files, faults>>

\* run_estimate: no estimate is no failure.
Estimate(p) ==
    /\ work[p].at = "managing" /\ job[p].kind = "estimate"
    /\ call[p].at = "answered"
    /\ Exits(p, "ok")
    /\ call' = [call EXCEPT ![p] = NoCall]
    /\ UNCHANGED <<file, lock, draft, translation, files, faults>>

Planned(p, todo) ==
    work' = [work EXCEPT ![p].at = "next", ![p].todo = todo, ![p].plan = Range(todo)]

\* scan_text_files: the files as the directory lists them.
Scan(p) ==
    /\ work[p].at = "plan"
    /\ job[p].kind = "batch"
    /\ \E names \in SetToSeqs({n \in job[p].paths : disk[n] # Missing}) :
          work' = [work EXCEPT ![p].at = "scanned", ![p].scanned = names]
    /\ UNCHANGED <<database, translation, files, faults>>

\* build_batch_plan goes through them and keeps their texts. One that cannot be
\* read is passed over; one with a valid replay needs nothing else,
PlanFile(p) ==
    /\ work[p].at = "scanned"
    /\ work[p].scanned # <<>>
    /\ LET name == Head(work[p].scanned)
           rest == [work[p] EXCEPT !.scanned = Tail(@)]
           looks == Reads(p)
       IN  \/ /\ work' = [work EXCEPT ![p] = rest]
              /\ IF IsSource(p, name) THEN Fault ELSE UNCHANGED faults
              /\ UNCHANGED call
           \/ /\ IsSource(p, name) /\ UNCHANGED faults
              /\ work' = [work EXCEPT ![p] =
                     [rest EXCEPT !.now = Target(p, name), !.at = IF looks THEN "seek" ELSE "measure"]]
              /\ IF looks
                 THEN Asks(p, "replay", Key(disk[name].text, TargetLang(p, disk[name])), NoText)
                 ELSE UNCHANGED call
    /\ UNCHANGED <<file, lock, draft, translation, files>>

Keeps(p) == work' = [work EXCEPT ![p].at = "scanned", ![p].todo = Append(@, work[p].now)]

Sought(p) ==
    /\ work[p].at = "seek"
    /\ call[p].at = "answered"
    /\ IF call[p].found = NoText THEN Goes(p, "measure") ELSE Keeps(p)
    /\ call' = [call EXCEPT ![p] = NoCall]
    /\ UNCHANGED <<file, lock, draft, translation, files, faults>>

\* the others need the preflight, which the client of the batch remembers, a
\* look at the segments and a forecast. One that cannot be planned ends it all.
Measure(p) ==
    /\ work[p].at = "measure"
    /\ LET now == work[p].now
       IN  \/ /\ IF Owes(p) THEN Preflight(p) ELSE UNCHANGED runtime
              /\ IF Looks(p, runtime'[p])
                 THEN Asks(p, "count", Key(Range(now.text), now.lang), NoText) /\ Goes(p, "counted")
                 ELSE Asks(p, "estimate", NoText, NoText) /\ Goes(p, "measured")
              /\ UNCHANGED faults
           \/ Owes(p) /\ job[p].strict /\ Exits(p, "error") /\ UNCHANGED <<runtime, call, faults>>
           \/ Fault /\ Exits(p, "error") /\ UNCHANGED <<runtime, call>>
    /\ UNCHANGED <<file, lock, draft, job, tr, files>>

Counts(p) ==
    /\ work[p].at = "counted"
    /\ call[p].at = "answered"
    /\ IF call[p].found = Range(work[p].now.text)
       THEN Keeps(p) /\ call' = [call EXCEPT ![p] = NoCall]
       ELSE Goes(p, "measured") /\ Asks(p, "estimate", NoText, NoText)
    /\ UNCHANGED <<file, lock, draft, translation, files, faults>>

Measured(p) ==
    /\ work[p].at = "measured"
    /\ call[p].at = "answered"
    /\ Keeps(p)
    /\ call' = [call EXCEPT ![p] = NoCall]
    /\ UNCHANGED <<file, lock, draft, translation, files, faults>>

\* A preview ends here.
PlanBatch(p) ==
    /\ work[p].at = "scanned"
    /\ work[p].scanned = <<>>
    /\ IF Has(p, "plan") THEN Exits(p, "ok") ELSE Planned(p, work[p].todo)
    /\ UNCHANGED <<database, translation, files, faults>>

\* build_doc_translation_targets sorts the files of a directory. A file that
\* is named must be there.
Place(name) == Least({i \in DOMAIN Listing : Listing[i] = name})

PlanDocuments(p) ==
    /\ work[p].at = "plan"
    /\ job[p].kind = "doc"
    /\ IF Has(p, "file") /\ \A name \in job[p].paths : disk[name] = Missing
       THEN Exits(p, "error")
       ELSE \E sources \in SetToSeqs({name \in Names : IsSource(p, name)}) :
               /\ \A i, j \in DOMAIN sources : i < j => Place(sources[i]) < Place(sources[j])
               /\ Planned(p, [i \in DOMAIN sources |-> Target(p, sources[i])])
    /\ UNCHANGED <<database, translation, files, faults>>

\* The program is run. exec prints what it printed; if it cannot be run, or
\* man or info reports an error, that is the end.
PlanPages(p) ==
    /\ work[p].at = "plan"
    /\ job[p].kind \in {"exec", "man", "info"}
    /\ LET invocation == job[p].command
       IN  IF Prints[invocation].out.sort = "fails" THEN Exits(p, "error")
           ELSE Planned(p, IF job[p].kind = "exec" THEN ExecPages(p, invocation)
                           ELSE ManPage(p, invocation))
    /\ UNCHANGED <<database, translation, files, faults>>

PlanPrecache(p) ==
    /\ work[p].at = "plan"
    /\ job[p].kind = "precache"
    /\ \E names \in Discovered :
          Planned(p, FlattenSeq([i \in DOMAIN names |-> PrecachePages(names[i])]))
    /\ UNCHANGED <<database, translation, files, faults>>

\* run_translate_text: the words, standard input, or the file that they name,
\* which is read for its language here and for its text when it is translated.
Content(input) == IF input \in Names THEN disk[input] ELSE input

PlanText(p) ==
    /\ work[p].at = "plan"
    /\ job[p].kind = "text"
    /\ LET input == job[p].input
           content == Content(input)
           target == [from |-> input, to |-> job[p].to,
                      lang |-> TargetLang(p, content), text |-> content.text]
       IN  IF Has(p, "plan") THEN Exits(p, "ok") /\ UNCHANGED faults
           ELSE \/ Planned(p, <<target>>) /\ UNCHANGED faults
                \/ input \in Names /\ Fault /\ Exits(p, "error")
    /\ UNCHANGED <<database, translation, files>>

-----------------------------------------------------------------------------
\* One text after the other.

\* Mutant: a run ends well whatever became of its documents.
ForgivingStatus(p) == "ok"
Degraded(p) == \E i \in DOMAIN tr[p].out : tr[p].out[i] = tr[p].source[i]

\* exec, man and info end with the status of the program, or of the pager.
Status(p) ==
    CASE job[p].kind \in {"exec", "man", "info"} -> "own"
      [] job[p].kind = "doc" /\ work[p].failed > 0 -> "error"
      [] job[p].kind = "text" /\ Degraded(p) /\ ~Has(p, "warn") -> "error"
      [] OTHER -> "ok"

Finish(p) ==
    /\ work[p].at = "next"
    /\ work[p].todo = <<>>
    /\ Exits(p, Status(p))
    /\ UNCHANGED <<database, translation, files, faults>>

\* A document is read when its turn comes, and so is the file of a text; the
\* files of a batch were read by its plan.
ReadsNow(p, target) == job[p].kind # "batch" /\ target.from \in Names
TextRead(p, target) == IF ReadsNow(p, target) THEN disk[target.from].text ELSE target.text

NextText(p) ==
    /\ work[p].at = "next"
    /\ job[p].kind \in {"batch", "doc", "text"}
    /\ work[p].todo # <<>>
    /\ LET target == Head(work[p].todo)
       IN  /\ work' = [work EXCEPT ![p].at = "translating", ![p].now = target,
                                   ![p].todo = Tail(@)]
           /\ \/ Translate(p, TextRead(p, target), target.lang) /\ UNCHANGED faults
              \/ /\ ReadsNow(p, target) /\ Fault
                 /\ tr' = [tr EXCEPT ![p] = [NoWork EXCEPT !.at = "failed"]] /\ UNCHANGED call
    /\ UNCHANGED <<file, lock, draft, job, runtime, files>>

\* translate_cached: whole outputs are looked up by a client that owes no
\* preflight. An error of the user's tier counts as a miss.
MayConsult(p) ==
    Reads(p) /\ ~Deferred(p) /\ (job[p].strict => runtime[p] = "verified")

NextPage(p) ==
    /\ work[p].at = "next"
    /\ job[p].kind \in {"exec", "man", "info", "precache"}
    /\ work[p].todo # <<>>
    /\ LET page == Head(work[p].todo)
           started == [work[p] EXCEPT !.now = page, !.todo = Tail(@)]
           hit == MayConsult(p) /\ Filed(page) # {}
       IN  \/ /\ hit
              /\ work' = [work EXCEPT ![p] = [started EXCEPT !.done = @ \cup {page}]]
              /\ UNCHANGED <<tr, call, faults>>
           \/ /\ IF hit THEN Fault ELSE UNCHANGED faults
              /\ work' = [work EXCEPT ![p] = [started EXCEPT !.at = "translating"]]
              /\ Translate(p, page.text, page.lang)
    /\ UNCHANGED <<file, lock, draft, job, runtime, files>>

\* A failure ends a batch, a text and a manual page; the others go on.
Failed(p, names) ==
    IF job[p].kind \in {"batch", "text", "man", "info"} THEN Exits(p, "error")
    ELSE work' = [work EXCEPT ![p].at = "next", ![p].failed = @ + 1, ![p].count = @ + names]

NotTranslated(p) ==
    /\ work[p].at = "translating"
    /\ tr[p].at = "failed"
    /\ Failed(p, 0)
    /\ call' = [call EXCEPT ![p] = NoCall]
    /\ UNCHANGED <<file, lock, draft, translation, files, faults>>

\* The text or page is shown.
Shows(p) == work' = [work EXCEPT ![p].at = "next", ![p].done = @ \cup {work[p].now}]

ShowText(p) ==
    /\ work[p].at = "translating"
    /\ tr[p].at = "done"
    /\ job[p].kind = "text" /\ ~Has(p, "output")
    /\ Shows(p)
    /\ UNCHANGED <<database, translation, files, faults>>

\* A degraded page is shown and not kept; a failing store is a warning.
KeepPage(p) ==
    /\ work[p].at = "translating"
    /\ tr[p].at = "done"
    /\ job[p].kind \in {"exec", "man", "info", "precache"}
    /\ LET keeps == Writes(p) /\ ~Degraded(p)
       IN  \/ ~keeps /\ UNCHANGED <<pages, faults>>
           \/ keeps /\ StorePage(work[p].now, tr[p].out) /\ UNCHANGED faults
           \/ keeps /\ Fault /\ UNCHANGED pages
    /\ Shows(p)
    /\ UNCHANGED <<database, translation, outputs, temps>>

-----------------------------------------------------------------------------
\* write_translation_output.

TempName(p) == <<work[p].id, work[p].count>>
Temp(p) == CHOOSE t \in temps : t.name = TempName(p)

Publishes(p) ==
    /\ work[p].at = "translating"
    /\ tr[p].at = "done"
    /\ job[p].kind \in {"batch", "doc"} \/ (job[p].kind = "text" /\ Has(p, "output"))

\* OutputTemp::create: the name must be new.
Create(p) ==
    /\ Publishes(p)
    /\ TempName(p) \notin {t.name : t \in temps}
    /\ temps' = temps \cup {[name |-> TempName(p), text |-> <<>>]}
    /\ Goes(p, "writing")
    /\ UNCHANGED <<database, translation, outputs, pages, faults>>

\* The name is taken, and has been used up; or the output cannot be inspected
\* or replaced, or its temporary file cannot be made for another reason.
Refused(p) ==
    /\ Publishes(p)
    /\ \/ TempName(p) \in {t.name : t \in temps} /\ Failed(p, 1) /\ UNCHANGED faults
       \/ Fault /\ \E names \in {0, 1} : Failed(p, names)
    /\ UNCHANGED <<database, translation, files>>

Write(p) ==
    /\ work[p].at = "writing"
    /\ Len(Temp(p).text) < Len(tr[p].out)
    /\ temps' = (temps \ {Temp(p)}) \cup
                  {[Temp(p) EXCEPT !.text = Append(@, tr[p].out[Len(@) + 1])]}
    /\ UNCHANGED <<database, translation, outputs, pages, work, faults>>

\* Mutant: the rename does not wait for the flush.
EagerFlushed(p) == TRUE
Flushed(p) == Len(Temp(p).text) = Len(tr[p].out)

Rename(p) ==
    /\ work[p].at = "writing"
    /\ Flushed(p)
    /\ disk' = [disk EXCEPT ![work[p].now.to] =
                  [lang |-> work[p].now.lang, text |-> Temp(p).text]]
    /\ made' = [name \in DOMAIN made \cup {work[p].now.to} |->
                  IF name = work[p].now.to THEN tr[p].source ELSE made[name]]
    /\ temps' = temps \ {Temp(p)}
    /\ work' = [work EXCEPT ![p].at = "next", ![p].count = @ + 1,
                            ![p].done = @ \cup {work[p].now}]
    /\ UNCHANGED <<database, translation, pages, faults>>

\* A write or the rename fails: the guard removes the file it made.
WriteFails(p) ==
    /\ work[p].at = "writing"
    /\ Fault
    /\ temps' = temps \ {Temp(p)}
    /\ Failed(p, 1)
    /\ UNCHANGED <<database, translation, outputs, pages>>

-----------------------------------------------------------------------------
\* The process is killed and the command given again. A new process may get
\* the id of the old one.
Crash(p) ==
    /\ work[p].at \notin {"begin", "exit"}
    /\ Fault
    /\ Hangup(p)
    /\ runtime' = [runtime EXCEPT ![p] = "unknown"]
    /\ tr' = [tr EXCEPT ![p] = NoWork]
    /\ \E id \in {work[p].id, <<p, faults + 1>>} : work' = [work EXCEPT ![p] = NewWork(id)]
    /\ UNCHANGED <<job, files>>

Next ==
    \E p \in Processes :
        \/ DatabaseStep(p) /\ UNCHANGED <<translation, files, work, faults>>
        \/ GiveUp(p) /\ Fault /\ UNCHANGED <<translation, files, work>>
        \/ TranslationStep(p) /\ UNCHANGED <<file, lock, draft, files, work, faults>>
        \/ Begin(p) \/ Managed(p) \/ Estimate(p)
        \/ Scan(p) \/ PlanFile(p) \/ Sought(p) \/ Measure(p) \/ Counts(p) \/ Measured(p)
        \/ PlanBatch(p) \/ PlanDocuments(p) \/ PlanPages(p) \/ PlanPrecache(p) \/ PlanText(p)
        \/ NextText(p) \/ NextPage(p) \/ NotTranslated(p) \/ ShowText(p) \/ KeepPage(p) \/ Finish(p)
        \/ Create(p) \/ Refused(p) \/ Write(p) \/ Rename(p) \/ WriteFails(p)
        \/ Crash(p)

Spec == Init /\ [][Next]_vars

-----------------------------------------------------------------------------
\* Where a file that was written comes from: a file beside it, or what a text
\* command was given.  A source that was not itself written meanwhile is what
\* the output is a translation of.
Source(name, given) == given \in Names \ DOMAIN made => made[name] = disk[given].text
Origin(name) ==
    \/ \E given \in Names : name = Suffixed(given, disk[name].lang) /\ Source(name, given)
    \/ \E p \in Processes :
          /\ job[p].kind = "text" /\ Has(p, "output") /\ name = job[p].to
          /\ Source(name, job[p].input)
          /\ job[p].input \notin Names => made[name] = job[p].input.text

\* write_translation_output (translate.rs:2578-2637), translate_cached
\* (exec_wrapper.rs:158-206) and the records of tasks (history.rs:194-248):
\* whatever fails or is killed, and however the processes interleave, a file
\* holds what it held before or the complete output of one run for its source,
\* in one language; so does every page that is kept and every task that can
\* be recalled. No reader ever meets part of one.
OutputsWhole ==
    /\ \A name \in Names :
          IF name \in DOMAIN made
          THEN Whole(disk[name].text, made[name], disk[name].lang) /\ Origin(name)
          ELSE disk[name] = Disk[name]
    /\ \A row \in pages : Whole(row.text, row.source, row.lang)
    /\ \A task \in Range(file.tasks) : Whole(task.text, task.key.of, task.key.in)

\* run_doc_translation (doc_translate.rs:248-303), run_batch_translation
\* (batch.rs:407-436), finalize_top_level_outcome (main.rs:1096-1112) and
\* run_exec_command (exec_wrapper.rs:44-138): a run that reports success has
\* published or shown every output it planned, and one that reports failure
\* has not, or has kept a piece in the original and was not told to accept
\* that; translate-doc has tried every document by the time it ends, and exec
\* both streams, whichever of them failed.
StatusHonest ==
    \A p \in Processes :
        LET settled == Cardinality(work[p].done) + work[p].failed = Cardinality(work[p].plan)
            degraded == Degraded(p) /\ ~Has(p, "warn")
            complete == work[p].done = work[p].plan /\ (job[p].kind = "text" => ~degraded)
        IN  work[p].at = "exit" =>
                /\ work[p].status = "ok" /\ job[p].kind # "precache" => complete
                /\ work[p].status = "error" => ~complete \/ work[p].plan = {}
                /\ work[p].status = "own" \/ work[p].failed > 0 => settled
                /\ job[p].kind \in {"man", "info"} => work[p].failed = 0

\* retained_original::finalize (retained_original.rs:112-181) and the store
\* loops (translate.rs:1877-1893, exec_wrapper.rs:188-205): a paragraph that
\* was put back in the original leaves no trace in a cache, whichever of its
\* pieces failed: segments, whole outputs and proven tasks are translations, each
\* of the text and in the language that it is filed under.
RetainedNotCached ==
    /\ RowsOf(file)
    /\ \A row \in pages : AllTranslated(row.text, row.source, row.lang)
    /\ \A task \in Range(file.tasks) :
          task.proven => AllTranslated(task.text, task.key.of, task.key.in)

Acting(p, op) == call[p].at \in {"act", "again"} /\ call[p].op = op
RowsKept ==
    /\ \A row \in file.rows \ file'.rows :
          \E p \in Processes :
             \/ Acting(p, "clear")
             \/ Acting(p, "store") /\ row.key = call[p].key /\ row.scope = "current"
    /\ \/ IsPrefix(file.tasks, file'.tasks)
       \/ \E p \in Processes : Acting(p, "clear") /\ call[p].at = "again"

\* ensure_schema (history.rs:712-722), store_segment_cache and clear: rows
\* vanish only by a clear or under a newer translation of the same key, and
\* tasks only by a clear, also when several processes upgrade an old file at
\* once and some of them are killed half way.
RowsSurvive == [][RowsKept]_file

\* doc_translate.rs:98-100: files with a language suffix "are skipped to
\* avoid translating already-translated output".
OutputsAreNotSources ==
    \A p \in Processes :
        job[p].kind = "doc" => \A target \in Range(work[p].todo) : target.from \notin DOMAIN made

=============================================================================
