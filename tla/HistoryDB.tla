------------------------------ MODULE HistoryDB ------------------------------
(* The history database: one SQLite file with the translations of segments   *)
(* and the finished tasks, opened by every hymt process                      *)
(* (crates/hymt-cache/src/history.rs).                                       *)
(*                                                                           *)
(* Each operation opens the file, brings its schema up to date inside one    *)
(* immediate transaction, and then runs its own statement outside of it.     *)
(* Any other process may run between the two. What a transaction has done is *)
(* in its draft until the commit; a failure or a crash drops the draft, as   *)
(* SQLite does. A statement that finds the lock taken waits, or gives up     *)
(* after the busy timeout.                                                   *)
(*                                                                           *)
(* A row is a translation of a key under a scope. The scope stands for the   *)
(* columns that name the options, the profile and the inference identity;    *)
(* "legacy" is their default, the empty string.                              *)
EXTENDS Naturals, Sequences, FiniteSets, SequencesExt

CONSTANTS
    Processes,
    NoText,        \* the answer of a look-up that finds nothing
    Nobody         \* the write lock is free

ASSUME NobodyAssumption == Nobody \notin Processes

VARIABLES
    file,    \* what has been committed
    lock,    \* the process whose transaction is open
    draft,   \* what that transaction would commit
    call     \* the operation each process has under way

database == <<file, lock, draft, call>>

(* "absent": no file; "bare": a file without tables; "narrow": the tables of  *)
(* an older release; "wide": its columns added, its primary key kept;         *)
(* "current": this release.                                                   *)
Database(layout, rows, tasks) == [layout |-> layout, rows |-> rows, tasks |-> tasks]

NoDraft == [base |-> Database("absent", {}, <<>>), copy |-> {}]

NoCall == [at |-> "idle", op |-> "none", key |-> NoText, text |-> NoText,
           found |-> NoText, ok |-> TRUE]

(* The operations that create the file; the others have nothing to do        *)
(* without one.                                                              *)
Creators == {"store", "insert", "prove"}

Calling(op, key, text) == [NoCall EXCEPT !.at = "open", !.op = op, !.key = key, !.text = text]

Answer(p, found, ok) ==
    call' = [call EXCEPT ![p].at = "answered", ![p].found = found, ![p].ok = ok]

DatabaseInit(start) ==
    /\ file = start
    /\ lock = Nobody
    /\ draft = [p \in Processes |-> NoDraft]
    /\ call = [p \in Processes |-> NoCall]

-----------------------------------------------------------------------------
(* CREATE TABLE IF NOT EXISTS and ALTER TABLE ... ADD COLUMN. The rows of    *)
(* the older table get the default scope.                                    *)
Altered(base) ==
    [base EXCEPT !.layout = CASE @ \in {"absent", "bare"} -> "current"
                              [] @ = "narrow" -> "wide"
                              [] OTHER -> @]

(* Mutant: what the transaction changes is read without the lock.            *)
SnapshotOpen(p) ==
    /\ call[p].at = "open"
    /\ file' = IF file.layout = "absent" THEN [file EXCEPT !.layout = "bare"] ELSE file
    /\ draft' = [draft EXCEPT ![p] = [base |-> Altered(file), copy |-> {}]]
    /\ call' = [call EXCEPT ![p].at = IF Altered(file).layout = "wide" THEN "copy" ELSE "commit"]
    /\ UNCHANGED lock

(* connect_create or connect_if_exists, and the beginning of ensure_schema:  *)
(* the lock is taken before the columns are read.                            *)
Open(p) ==
    /\ call[p].at = "open"
    /\ \/ /\ file.layout = "absent"
          /\ call[p].op \notin Creators
          /\ Answer(p, NoText, TRUE)
          /\ UNCHANGED <<file, lock, draft>>
       \/ /\ file.layout # "absent" \/ call[p].op \in Creators
          /\ lock = Nobody
          /\ lock' = p
          /\ file' = IF file.layout = "absent" THEN [file EXCEPT !.layout = "bare"] ELSE file
          /\ draft' = [draft EXCEPT ![p] = [base |-> Altered(file), copy |-> {}]]
          /\ call' = [call EXCEPT ![p].at =
                        IF Altered(file).layout = "wide" THEN "copy" ELSE "commit"]

(* rebuild_segment_cache_pk: the rows are copied to a table with the current *)
(* primary key,                                                              *)
CopyRows(p) ==
    /\ call[p].at = "copy"
    /\ draft' = [draft EXCEPT ![p].copy = draft[p].base.rows]
    /\ call' = [call EXCEPT ![p].at = "swap"]
    /\ UNCHANGED <<file, lock>>

(* which then takes the place of the old one.                                *)
SwapTables(p) ==
    /\ call[p].at = "swap"
    /\ draft' = [draft EXCEPT ![p].base = Database("current", draft[p].copy, @.tasks)]
    /\ call' = [call EXCEPT ![p].at = "commit"]
    /\ UNCHANGED <<file, lock>>

Commit(p) ==
    /\ call[p].at = "commit"
    /\ file' = draft[p].base
    /\ lock' = Nobody
    /\ draft' = [draft EXCEPT ![p] = NoDraft]
    /\ call' = [call EXCEPT ![p].at = "act"]

(* The lock stays taken for longer than the busy timeout, or SQLite reports  *)
(* an error: an open transaction is rolled back and the operation fails.     *)
GiveUp(p) ==
    /\ call[p].at \in {"open", "copy", "swap", "commit", "act", "again"}
    /\ lock' = IF lock = p THEN Nobody ELSE lock
    /\ draft' = [draft EXCEPT ![p] = NoDraft]
    /\ Answer(p, NoText, FALSE)
    /\ UNCHANGED file

(* The process is killed.                                                    *)
Hangup(p) ==
    /\ lock' = IF lock = p THEN Nobody ELSE lock
    /\ draft' = [draft EXCEPT ![p] = NoDraft]
    /\ call' = [call EXCEPT ![p] = NoCall]
    /\ UNCHANGED file

-----------------------------------------------------------------------------
(* find_segment_cached                                                       *)
Found(key) ==
    LET hits == {r \in file.rows : r.key = key /\ r.scope = "current"}
    IN  IF hits = {} THEN NoText ELSE (CHOOSE r \in hits : TRUE).text

(* find_replay_candidates, and the first that is valid. The processes share  *)
(* one configuration, so that is the newest task with a proof for the text.  *)
Proven(key) ==
    LET matching == {i \in DOMAIN file.tasks : file.tasks[i].key = key /\ file.tasks[i].proven}
        newest == CHOOSE i \in matching : \A j \in matching : j <= i
    IN  IF matching = {} THEN NoText ELSE file.tasks[newest].text

(* find_cached_segment_hashes: those of the segments that have a row.        *)
Counted(key) == {segment \in key.of : Found([key EXCEPT !.of = segment]) # NoText}

(* fetch_recent_output: some task, as times of the clock are left out.       *)
Recalled == IF file.tasks = <<>> THEN {NoText} ELSE {task.text : task \in Range(file.tasks)}

(* What estimate answers is only shown, so it is left out.                   *)
Read(p) ==
    /\ call[p].at = "act"
    /\ \/ call[p].op = "find" /\ Answer(p, Found(call[p].key), TRUE)
       \/ call[p].op = "replay" /\ Answer(p, Proven(call[p].key), TRUE)
       \/ call[p].op = "count" /\ Answer(p, Counted(call[p].key), TRUE)
       \/ call[p].op = "estimate" /\ Answer(p, NoText, TRUE)
       \/ call[p].op = "recall" /\ \E text \in Recalled : Answer(p, text, TRUE)
    /\ UNCHANGED <<file, lock, draft>>

(* store_segment_cache: INSERT ... ON CONFLICT DO UPDATE.                    *)
StoreRow(p) ==
    /\ call[p].at = "act"
    /\ call[p].op = "store"
    /\ lock = Nobody
    /\ file' = [file EXCEPT !.rows =
                  {r \in @ : ~(r.key = call[p].key /\ r.scope = "current")}
                  \cup {[key |-> call[p].key, scope |-> "current", text |-> call[p].text]}]
    /\ Answer(p, NoText, TRUE)
    /\ UNCHANGED <<lock, draft>>

(* insert_task_with_replay_proof: the output and its proof are one row.      *)
Insert(p) ==
    /\ call[p].at = "act"
    /\ call[p].op \in {"insert", "prove"}
    /\ lock = Nobody
    /\ file' = [file EXCEPT !.tasks =
                  Append(@, [key |-> call[p].key, text |-> call[p].text,
                             proven |-> call[p].op = "prove"])]
    /\ Answer(p, NoText, TRUE)
    /\ UNCHANGED <<lock, draft>>

(* clear: the segments first, the tasks in a second statement.               *)
ClearSegments(p) ==
    /\ call[p].at = "act"
    /\ call[p].op = "clear"
    /\ lock = Nobody
    /\ file' = [file EXCEPT !.rows = {}]
    /\ call' = [call EXCEPT ![p].at = "again"]
    /\ UNCHANGED <<lock, draft>>

ClearTasks(p) ==
    /\ call[p].at = "again"
    /\ lock = Nobody
    /\ file' = [file EXCEPT !.tasks = <<>>]
    /\ Answer(p, NoText, TRUE)
    /\ UNCHANGED <<lock, draft>>

DatabaseStep(p) ==
    \/ Open(p) \/ CopyRows(p) \/ SwapTables(p) \/ Commit(p)
    \/ Read(p) \/ StoreRow(p) \/ Insert(p) \/ ClearSegments(p) \/ ClearTasks(p)

=============================================================================
