--------------------------- MODULE InferenceCache ---------------------------
(***************************************************************************)
(* The shared inference cache: scripts/hymt-inference-cache.py.            *)
(*                                                                         *)
(* One server process answers requests on threads.  Before it may use the  *)
(* database a request observes which model the backend runs; the first     *)
(* complete observation becomes the planning authority, and rows count     *)
(* only under the authority and epoch they were written for.  When the     *)
(* backend cannot be reached, an exact row of the last authority may be    *)
(* replayed.  A one-byte guard file, written ahead of every observation,   *)
(* denies that authority after a crash.  An operator may clear the         *)
(* database from another process at any time.                              *)
(*                                                                         *)
(* Backends are numbered in the order they are installed and never return. *)
(* An identity is what /props and /v1/models told, each by one backend.    *)
(* POST /tokenize and its retained token are not represented.              *)
(***************************************************************************)
EXTENDS Naturals, FiniteSets

CONSTANTS
    Requests,    \* the requests of clients, each handled by its own thread
    Kind,        \* "post" (a completion) or "get" (planning metadata)
    Payload,     \* the canonical payload of each request
    LastBackend, \* bound on replacements of the backend
    MaxClears,   \* bound on operator clears
    MaxCrashes,  \* bound on crashes of the cache process
    MaxChanges   \* bound on the three together

ASSUME KindAssumption == Kind \in [Requests -> {"post", "get"}]
ASSUME PayloadAssumption == DOMAIN Payload = Requests
ASSUME CountAssumption == LastBackend \in Nat /\ MaxClears \in Nat /\ MaxCrashes \in Nat
                          /\ MaxChanges \in Nat

VARIABLES
    guard,      \* the guard file: "1" denies
    epoch,      \* the epoch row
    entries,    \* the entries table
    planning,   \* the planning row: at most one epoch and identity
    up,         \* the cache process serves
    revoked,    \* planning_revoked
    generation, \* planning_generation
    sequence,   \* observation_sequence
    observed,   \* planning_observation
    req,        \* the local state of each request's thread
    backend,    \* the backend that runs
    clears,     \* operator clears so far
    crashes,    \* crashes so far
    owed        \* history: an online recovery is owed since a crash

database == <<epoch, entries, planning>>
authority == <<revoked, generation, sequence, observed>>
environment == <<up, backend, clears, crashes, owed>>
vars == <<guard, database, authority, req, environment>>

Paths == {"props", "models"}
Backends == 0 .. LastBackend
Identity == [Paths -> Backends]
Payloads == {Payload[r] : r \in Requests}
Answer == [by : Backends, to : Payloads, whole : BOOLEAN]
Nothing == [p \in Paths |-> {}]

Fresh == [pc |-> "idle", why |-> "lookup", obs |-> 0, prior |-> {}, denied |-> FALSE,
          tried |-> {}, seen |-> Nothing, fault |-> "none", found |-> {},
          result |-> "none", record |-> {}, key |-> {}, leader |-> {}, reply |-> {},
          admitted |-> FALSE, status |-> "none"]

Init ==
    /\ guard = "0" /\ epoch = 0 /\ entries = {} /\ planning = {}
    /\ up = TRUE /\ revoked = FALSE
    /\ generation = 0 /\ sequence = 0 /\ observed = 0
    /\ req = [r \in Requests |-> Fresh]
    /\ backend = 0 /\ clears = 0 /\ crashes = 0 /\ owed = FALSE

-----------------------------------------------------------------------------
(* Threads. *)

At(r, pc) == up /\ req[r].pc = pc

Observing(r) == req[r].pc \in {"prior", "deny", "fetch", "revoke", "conclude", "end"}
                \/ (req[r].pc = "recall" /\ Kind[r] = "get")

\* The planning lock is held across steps only between admission and write.
LockFree == \A r \in Requests : req[r].pc # "write"

Uncached(q) == [q EXCEPT !.pc = "generate", !.record = {}, !.reply = {}]

LocalOnly == UNCHANGED <<guard, database, authority, environment>>

-----------------------------------------------------------------------------
(* One observation: observe, _observe and the prefetch of do_GET. *)

\* begin_observation: the guard denies before anything is sent.
Begin(r) ==
    /\ up /\ req[r].pc \in {"idle", "confirm", "share"}
    /\ LockFree
    /\ guard' = "1"
    /\ sequence' = sequence + 1
    /\ req' = [req EXCEPT ![r] =
          [@ EXCEPT !.pc = IF Kind[r] = "get" THEN "fetch" ELSE "prior",
                    !.why = IF req[r].pc = "idle" THEN "lookup" ELSE req[r].pc,
                    !.obs = sequence + 1, !.prior = {}, !.denied = FALSE, !.tried = {},
                    !.seen = Nothing, !.fault = "none", !.found = {}, !.result = "none"]]
    /\ UNCHANGED <<database, revoked, generation, observed, environment>>

\* A value contradicts the retained authority, or that authority is unknown.
Refutes(q) ==
    /\ \E p \in Paths : q.seen[p] # {}
    /\ \/ q.denied
       \/ \E id \in q.prior : \E p \in Paths : q.seen[p] # {} /\ id[p] \notin q.seen[p]

\* The next step of an observation whose values and prior are as in q.
Onward(q) ==
    [q EXCEPT !.pc = IF Refutes(q) THEN "revoke"
                     ELSE IF q.tried = Paths \/ q.fault = "bad" THEN "conclude"
                     ELSE "fetch"]

Invalid(q) == [q EXCEPT !.pc = "end", !.result = "invalid"]

\* retained(None) at the head of _observe.
Prior(r) ==
    /\ At(r, "prior") /\ LockFree
    /\ req' = [req EXCEPT ![r] =
          IF revoked THEN [@ EXCEPT !.pc = "deny"]
          ELSE Onward([@ EXCEPT !.prior = {p.identity : p \in planning}])]
    /\ LocalOnly

\* Unreadable prior authority: revoke_observation(observation, clear=False).
Deny(r) ==
    /\ At(r, "deny") /\ LockFree
    /\ IF req[r].obs < observed
       THEN /\ req' = [req EXCEPT ![r] = Invalid(@)]
            /\ UNCHANGED authority
       ELSE /\ observed' = req[r].obs
            /\ revoked' = TRUE /\ generation' = generation + 1
            /\ req' = [req EXCEPT ![r] = Onward([@ EXCEPT !.denied = TRUE])]
            /\ UNCHANGED sequence
    /\ UNCHANGED <<guard, database, environment>>

\* One metadata request: its value, an outage, or a rejection.  POST asks
\* /props first; GET starts with the path it was sent for, reads the prior
\* authority only then, and may replay only if that first answer is an outage.
Fetch(r) ==
    /\ At(r, "fetch")
    /\ \E p \in Paths \ req[r].tried :
       \E outcome \in {"value", "gone", "bad"} :
          /\ Kind[r] = "post" /\ req[r].tried = {} => p = "props"
          /\ LET q == [req[r] EXCEPT
                         !.tried = @ \cup {p},
                         !.seen[p] = IF outcome = "value" THEN {backend} ELSE {},
                         !.fault = IF outcome = "value" THEN @ ELSE outcome]
             IN  IF Kind[r] = "get" /\ req[r].tried = {}
                 THEN \/ req' = [req EXCEPT ![r] =
                             [q EXCEPT !.pc = "prior",
                                       !.why = IF outcome = "gone" THEN "replay" ELSE @]]
                      \/ outcome = "bad" /\ req' = [req EXCEPT ![r] = Invalid(q)]
                 ELSE req' = [req EXCEPT ![r] = Onward(q)]
    /\ LocalOnly

\* The probe's budget expires after an outage: the other path is not asked.
GiveUp(r) ==
    /\ At(r, "fetch") /\ req[r].fault = "gone"
    /\ req' = [req EXCEPT ![r].pc = "conclude"]
    /\ LocalOnly

\* Mutant of Revoke: an older observation revokes what a newer one established.
UnorderedRevoke(r) ==
    /\ At(r, "revoke") /\ LockFree
    /\ observed' = req[r].obs
    /\ revoked' = TRUE /\ generation' = generation + 1
    /\ \/ /\ epoch' = epoch + 1 /\ entries' = {} /\ planning' = {}
          /\ req' = [req EXCEPT ![r] = Onward([@ EXCEPT !.prior = {}, !.denied = FALSE])]
       \/ /\ req' = [req EXCEPT ![r] = Invalid(@)]
          /\ UNCHANGED database
    /\ UNCHANGED <<guard, sequence, environment>>

\* revoke_observation: deny first, then clear; the database may fail.
Revoke(r) ==
    /\ At(r, "revoke") /\ LockFree
    /\ IF req[r].obs < observed
       THEN /\ req' = [req EXCEPT ![r] = Invalid(@)]
            /\ UNCHANGED <<database, authority>>
       ELSE /\ observed' = req[r].obs
            /\ revoked' = TRUE /\ generation' = generation + 1
            /\ UNCHANGED sequence
            /\ \/ /\ epoch' = epoch + 1 /\ entries' = {} /\ planning' = {}
                  /\ req' = [req EXCEPT ![r] = Onward([@ EXCEPT !.prior = {},
                                                                !.denied = FALSE])]
               \/ /\ req' = [req EXCEPT ![r] = Invalid(@)]
                  /\ UNCHANGED database
    /\ UNCHANGED <<guard, environment>>

\* _Store.clear if revoked, then _Store.activate.
Activate(id) ==
    LET same == ~revoked /\ \A p \in planning : p.identity = id /\ p.epoch = epoch
    IN  /\ epoch' = IF same THEN epoch ELSE epoch + 1
        /\ entries' = IF same THEN entries ELSE {}
        /\ planning' = {[epoch |-> epoch', identity |-> id]}

\* The commit of a complete observation, under the lock.  The two answers may
\* not fit together; the database may fail, before or after the clear; and the
\* client may have asked for another model than the one that is installed.
Conclude(r) ==
    /\ At(r, "conclude") /\ LockFree
    /\ \/ /\ req[r].fault \in {"bad", "none"}
          /\ req' = [req EXCEPT ![r] = Invalid(@)]
          /\ UNCHANGED <<database, authority, owed>>
       \/ /\ req[r].fault = "gone"
          /\ req' = [req EXCEPT ![r].result = "unavailable",
                                ![r].pc = IF req[r].why = "replay" THEN "recall" ELSE "end"]
          /\ UNCHANGED <<database, authority, owed>>
       \/ /\ req[r].fault = "none" /\ req[r].obs < observed
          /\ LET shared == {p.identity : p \in IF revoked THEN {} ELSE planning}
                 id == {i \in shared : \A p \in Paths : req[r].seen[p] = {i[p]}}
             IN  req' = [req EXCEPT ![r].pc = "end", ![r].found = id,
                                    ![r].result = IF id = {} THEN "invalid" ELSE "fresh"]
          /\ UNCHANGED <<database, authority, owed>>
       \/ /\ req[r].fault = "none" /\ req[r].obs >= observed
          /\ observed' = req[r].obs
          /\ \/ /\ \E id \in Identity :
                     /\ \A p \in Paths : req[r].seen[p] = {id[p]}
                     /\ Activate(id)
                     /\ \/ req' = [req EXCEPT ![r].pc = "end", ![r].found = {id},
                                              ![r].result = "fresh"]
                        \/ req' = [req EXCEPT ![r] = Invalid(@)]
                /\ revoked' = FALSE /\ owed' = FALSE
             \/ /\ req' = [req EXCEPT ![r] = Invalid(@)]
                /\ UNCHANGED <<revoked, owed>>
                /\ \/ UNCHANGED database
                   \/ /\ revoked
                      /\ epoch' = epoch + 1 /\ entries' = {} /\ planning' = {}
          /\ UNCHANGED <<generation, sequence>>
    /\ UNCHANGED <<guard, up, backend, clears, crashes>>

\* Where a request goes once its observation is over.
Resume(q, r) ==
    CASE Kind[r] = "get" ->
            IF q.record # {} THEN [q EXCEPT !.pc = "admit"]
            ELSE [q EXCEPT !.pc = "finish", !.status = "other"]
      [] Kind[r] = "post" /\ q.why = "lookup" ->
            IF q.result = "invalid" THEN Uncached(q) ELSE [q EXCEPT !.pc = "recall"]
      [] Kind[r] = "post" /\ q.why = "confirm" ->
            IF \E p \in q.record : q.found = {p.identity}
            THEN [q EXCEPT !.pc = "store"] ELSE [q EXCEPT !.pc = "finish"]
      [] Kind[r] = "post" /\ q.why = "share" ->
            IF \E p \in q.record : q.found = {p.identity}
            THEN [q EXCEPT !.pc = "admit"] ELSE [q EXCEPT !.pc = "finish", !.status = "other"]

\* end_observation.
End(r) ==
    /\ At(r, "end") /\ LockFree
    /\ guard' = IF revoked \/ \E s \in Requests \ {r} : Observing(s) THEN guard ELSE "0"
    /\ req' = [req EXCEPT ![r] = Resume(@, r)]
    /\ UNCHANGED <<database, authority, environment>>

-----------------------------------------------------------------------------
(* The rest of do_POST, and the historical reply of do_GET. *)

\* The key of a request under an authority: its digest covers all three.
Key(r, p) == <<Payload[r], p.identity, p.epoch>>

\* retained: the authority this request will rely on.
Recall(r) ==
    /\ At(r, "recall") /\ LockFree
    /\ LET held == IF revoked THEN {} ELSE planning
           record == {[epoch |-> p.epoch, identity |-> p.identity,
                       generation |-> generation] : p \in held}
           q == [req[r] EXCEPT
                   !.record = record,
                   !.key = {Key(r, p) : p \in record}]
       IN  req' = [req EXCEPT ![r] =
             IF Kind[r] = "get" THEN [q EXCEPT !.pc = "end"]
             ELSE IF record = {} THEN Uncached(q)
             ELSE IF q.result = "unavailable" THEN [q EXCEPT !.pc = "read"]
             ELSE IF \E p \in record : q.found = {p.identity} THEN [q EXCEPT !.pc = "join"]
             ELSE Uncached(q)]
    /\ LocalOnly

\* The first request of a key leads, the others wait for its reply.  A leader
\* keeps its key until it is done, also when it has given up its record.
Leads(l) == req[l].leader = {l} /\ req[l].pc # "done"

Join(r) ==
    /\ At(r, "join")
    /\ LET leaders == {l \in Requests : Leads(l) /\ req[l].key = req[r].key}
       IN  req' = [req EXCEPT ![r].leader = IF leaders = {} THEN {r} ELSE leaders,
                              ![r].pc = IF leaders = {} THEN "read" ELSE "wait"]
    /\ LocalOnly

\* The row of this very request under this model and epoch.
Row(q) == {e \in entries : <<e.payload, e.identity, e.epoch>> \in q.key}

\* _Store.read: a hit, a miss, or a failing database, which is no authority.
Read(r) ==
    /\ At(r, "read")
    /\ \/ \E e \in Row(req[r]) :
             req' = [req EXCEPT ![r].pc = "admit", ![r].reply = {e.body}]
       \/ /\ Row(req[r]) = {}
          /\ req' = [req EXCEPT ![r] = IF @.leader = {} THEN Uncached(@)
                                       ELSE [@ EXCEPT !.pc = "generate"]]
       \/ req' = [req EXCEPT ![r] = Uncached(@)]
    /\ LocalOnly

\* The authority a record was taken from is still in force.
Current(q) ==
    /\ ~revoked
    /\ \E p \in planning :
          q.record = {[epoch |-> p.epoch, identity |-> p.identity, generation |-> generation]}

\* Mutant of Admit: a row that was read is served without looking again.
TrustingAdmit(r) ==
    /\ At(r, "admit") /\ LockFree
    /\ req' = [req EXCEPT ![r] = [@ EXCEPT !.pc = "finish", !.status = "HIT",
                                           !.admitted = (@ \/ req[r].leader = {r})]]
    /\ LocalOnly

\* admit_replay, the linearization point of a hit.
Admit(r) ==
    /\ At(r, "admit") /\ LockFree
    /\ req' = [req EXCEPT ![r] =
          IF Current(@) THEN [@ EXCEPT !.pc = "finish", !.status = "HIT",
                                       !.admitted = (req[r].leader = {r})]
          ELSE IF @.why = "share" \/ Kind[r] = "get"
          THEN [@ EXCEPT !.pc = "finish", !.status = "other"]
          ELSE Uncached(@)]
    /\ LocalOnly

\* Mutant of Generate: the backend is not observed again after the answer.
UnconfirmedGenerate(r) ==
    /\ At(r, "generate")
    /\ \/ \E whole \in BOOLEAN :
             req' = [req EXCEPT
                ![r].reply = {[by |-> backend, to |-> Payload[r], whole |-> whole]},
                ![r].status = "other",
                ![r].pc = IF whole /\ req[r].record # {} THEN "store" ELSE "finish"]
       \/ req' = [req EXCEPT ![r].reply = {}, ![r].status = "other", ![r].pc = "finish"]
    /\ LocalOnly

\* The backend answers, whole or not; only a whole answer of a request that
\* still holds its record is a candidate row.
Generate(r) ==
    /\ At(r, "generate")
    /\ \/ \E whole \in BOOLEAN :
             req' = [req EXCEPT
                ![r].reply = {[by |-> backend, to |-> Payload[r], whole |-> whole]},
                ![r].status = "other",
                ![r].pc = IF whole /\ req[r].record # {} THEN "confirm" ELSE "finish"]
       \/ req' = [req EXCEPT ![r].reply = {}, ![r].status = "other", ![r].pc = "finish"]
    /\ LocalOnly

\* admit_replay under the lock that the write still holds.
AdmitWrite(r) ==
    /\ At(r, "store") /\ LockFree
    /\ req' = [req EXCEPT ![r].pc = IF Current(req[r]) THEN "write" ELSE "finish"]
    /\ LocalOnly

NewRows(q) == {[payload |-> k[1], identity |-> k[2], epoch |-> k[3], body |-> a] :
                 k \in q.key, a \in q.reply}

\* Mutant of Write: the row is written whatever the epoch is now.
UncheckedWrite(r) ==
    /\ At(r, "write")
    /\ entries' = (entries \ Row(req[r])) \cup NewRows(req[r])
    /\ req' = [req EXCEPT ![r].pc = "finish", ![r].admitted = TRUE]
    /\ UNCHANGED <<guard, epoch, planning, authority, environment>>

\* _Store.write: one transaction that checks the epoch first, and may fail.
Write(r) ==
    /\ At(r, "write")
    /\ \/ /\ \E p \in req[r].record : p.epoch = epoch
          /\ entries' = (entries \ Row(req[r])) \cup NewRows(req[r])
          /\ req' = [req EXCEPT ![r].pc = "finish", ![r].admitted = TRUE]
       \/ /\ req' = [req EXCEPT ![r].pc = "finish"]
          /\ UNCHANGED entries
    /\ UNCHANGED <<guard, epoch, planning, authority, environment>>

\* Mutant of Wake: a leader that has no reply leaves without a word.
WakeOnlyWithReply(r) ==
    /\ At(r, "wait")
    /\ \E l \in req[r].leader :
          /\ req[l].pc = "done" /\ req[l].reply # {}
          /\ req' = [req EXCEPT
                ![r].reply = req[l].reply,
                ![r].pc = IF /\ req[l].admitted
                             /\ \E p \in req[r].record : p.epoch = epoch
                          THEN "share" ELSE "finish",
                ![r].status = "other"]
    /\ LocalOnly

\* Mutant of Wake: a reply that was not admitted is shared like one that was.
CarelessWake(r) ==
    /\ At(r, "wait")
    /\ \E l \in req[r].leader :
          /\ req[l].pc = "done"
          /\ req' = [req EXCEPT
                ![r].reply = req[l].reply,
                ![r].pc = IF /\ req[l].reply # {}
                             /\ \E p \in req[r].record : p.epoch = epoch
                          THEN "share" ELSE "finish",
                ![r].status = "other"]
    /\ LocalOnly

\* A follower wakes up when its leader is done, or its own deadline passes.
Wake(r) ==
    /\ At(r, "wait")
    /\ \E l \in req[r].leader :
          /\ req[l].pc = "done"
          /\ req' = [req EXCEPT
                ![r].reply = req[l].reply,
                ![r].pc = IF /\ req[l].reply # {} /\ req[l].admitted
                             /\ \E p \in req[r].record : p.epoch = epoch
                          THEN "share" ELSE "finish",
                ![r].status = "other"]
    /\ LocalOnly

Expire(r) ==
    /\ At(r, "wait")
    /\ req' = [req EXCEPT ![r].pc = "finish", ![r].status = "other"]
    /\ LocalOnly

\* The reply goes to the client, which may be gone: then the flight of a
\* generated answer has no reply.  Whatever happened, the flight leaves the
\* table and its followers wake up.
Finish(r) ==
    /\ At(r, "finish")
    /\ \/ req' = [req EXCEPT ![r].pc = "done"]
       \/ /\ req[r].status # "HIT"
          /\ req' = [req EXCEPT ![r].pc = "done", ![r].reply = {}]
    /\ LocalOnly

Handle(r) ==
    \/ Begin(r) \/ Prior(r) \/ Deny(r) \/ Fetch(r) \/ Revoke(r)
    \/ Conclude(r) \/ End(r) \/ Recall(r) \/ Join(r) \/ Read(r) \/ Admit(r)
    \/ Generate(r) \/ AdmitWrite(r) \/ Write(r) \/ Wake(r) \/ Finish(r)

-----------------------------------------------------------------------------
(* The environment. *)

\* Clears, crashes and replacements, each and together, are bounded.
MoreChanges == backend + clears + crashes < MaxChanges

\* main "clear": another process, one transaction, no lock of the server.
Clear ==
    /\ clears < MaxClears /\ MoreChanges
    /\ epoch' = epoch + 1 /\ entries' = {} /\ planning' = {}
    /\ clears' = clears + 1
    /\ UNCHANGED <<guard, authority, req, up, backend, crashes, owed>>

ReplaceBackend ==
    /\ backend < LastBackend /\ MoreChanges
    /\ backend' = backend + 1
    /\ UNCHANGED <<guard, database, authority, req, up, clears, crashes, owed>>

\* The process dies: the guard and the database stay, the rest is gone.
Crash ==
    /\ up /\ crashes < MaxCrashes /\ MoreChanges
    /\ up' = FALSE /\ crashes' = crashes + 1
    /\ owed' = (owed \/ revoked \/ \E r \in Requests : Observing(r))
    /\ req' = [r \in Requests |-> IF req[r].pc = "idle" THEN Fresh
                                  ELSE [Fresh EXCEPT !.pc = "done", !.status = "other"]]
    /\ revoked' = FALSE /\ generation' = 0 /\ sequence' = 0 /\ observed' = 0
    /\ UNCHANGED <<guard, database, backend, clears>>

\* Mutant of Restart: the guard file is overwritten before it is read.
ForgetfulRestart ==
    /\ ~up
    /\ up' = TRUE
    /\ guard' = "0" /\ revoked' = FALSE
    /\ UNCHANGED <<database, backend, req, generation, sequence, observed, clears, crashes, owed>>

\* CacheServer.__init__: a guard that denies, or another upstream origin than
\* the retained one, leaves the authority revoked; the latter clears it, too.
Restart ==
    /\ ~up
    /\ up' = TRUE
    /\ \/ /\ revoked' = (guard # "0")
          /\ UNCHANGED <<database, backend>>
       \/ /\ backend < LastBackend /\ MoreChanges /\ backend' = backend + 1
          /\ revoked' = (guard # "0" \/ planning # {})
          /\ IF planning # {}
             THEN epoch' = epoch + 1 /\ entries' = {} /\ planning' = {}
             ELSE UNCHANGED database
    /\ guard' = IF revoked' THEN "1" ELSE "0"
    /\ UNCHANGED <<req, generation, sequence, observed, clears, crashes, owed>>

Next ==
    \/ \E r \in Requests : Handle(r) \/ GiveUp(r) \/ Expire(r)
    \/ Clear \/ ReplaceBackend \/ Crash \/ Restart

Spec == Init /\ [][Next]_vars

\* Every thread that has taken a request runs, and every upstream call ends
\* within the request's budget.  Nobody has to send a request, and a follower's
\* deadline (Expire) is not counted on.
FairSpec == Spec /\ \A r \in Requests : WF_vars(req[r].pc # "idle" /\ Handle(r))

-----------------------------------------------------------------------------
(* Properties. *)

Record == [epoch : Nat, identity : Identity, generation : Nat]
Rows == [payload : Payloads, identity : Identity, epoch : Nat,
         body : Answer]
Thread ==
    [pc : {"idle", "prior", "deny", "fetch", "revoke", "conclude", "end", "recall",
           "join", "read", "admit", "generate", "confirm", "store", "write", "wait",
           "share", "finish", "done"},
     why : {"lookup", "replay", "confirm", "share"}, obs : Nat, prior : SUBSET Identity,
     denied : BOOLEAN, tried : SUBSET Paths, seen : [Paths -> SUBSET Backends],
     fault : {"none", "gone", "bad"}, found : SUBSET Identity,
     result : {"none", "fresh", "unavailable", "invalid"}, record : SUBSET Record,
     key : SUBSET (Payloads \X Identity \X Nat),
     leader : SUBSET Requests, reply : SUBSET Answer, admitted : BOOLEAN,
     status : {"none", "HIT", "other"}]

\* Every variable of the server, the threads and the database has its type.
TypeOK ==
    /\ guard \in {"0", "1"} /\ epoch \in Nat /\ entries \subseteq Rows
    /\ \A p \in planning : p.epoch \in Nat /\ p.identity \in Identity
    /\ Cardinality(planning) <= 1
    /\ up \in BOOLEAN /\ revoked \in BOOLEAN /\ owed \in BOOLEAN
    /\ generation \in Nat /\ sequence \in Nat /\ observed \in 0 .. sequence
    /\ req \in [Requests -> Thread]
    /\ backend \in Backends /\ clears \in 0 .. MaxClears /\ crashes \in 0 .. MaxCrashes

\* A row is the whole answer to the request it is filed under, generated by the
\* very backend whose identity it is filed under, although the backend may be
\* replaced between any two requests to it (the observation repeated after
\* generation).
RowsHonest ==
    \A e \in entries :
       e.body.whole /\ e.body.to = e.payload /\ e.identity = [p \in Paths |-> e.body.by]

\* All rows belong to the authority in force: a clear, a replacement or a
\* revocation leaves nothing behind, and a write that was under way when an
\* operator cleared the database adds nothing to it.
RowsCurrent ==
    \A e \in entries : planning = {[epoch |-> e.epoch, identity |-> e.identity]}
                       /\ e.epoch = epoch

\* What a request is told is a hit is a whole answer to that very request, of
\* the model it asked for: read from a row, replayed during an outage, or shared
\* by the leader it joined, never the answer to another payload.
HitsHonest ==
    \A r \in Requests :
       req[r].status = "HIT" /\ Kind[r] = "post" =>
          \A a \in req[r].reply :
             /\ a.whole /\ a.to = Payload[r]
             /\ \A p \in req[r].record : p.identity = [x \in Paths |-> a.by]

\* An interrupted observation or a failed revocation blocks every replay after
\* a restart, until one complete observation has reached the database.
InterruptedBlocksReplay ==
    [][\A r \in Requests : req'[r].status = "HIT" /\ req[r].status # "HIT" => ~owed]_vars

\* An operator's clear is final: whatever a thread read before it, no reply is
\* admitted as a hit under an epoch that has been cleared.
ClearIsFinal ==
    [][\A r \in Requests : req'[r].status = "HIT" /\ req[r].status # "HIT" =>
          \A p \in req'[r].record : p.epoch = epoch]_vars

\* Authority follows the order in which observations started: whoever changes
\* it started no earlier than any observation that had concluded.
AuthorityInOrder ==
    [][\A r \in Requests :
          req'[r] # req[r] /\ up' /\ (planning' # planning \/ revoked' # revoked)
          => \A s \in Requests : req[s].result = "fresh" => req[s].obs <= req[r].obs]_vars

\* Every request that is taken ends, so that at last nobody is being served: a
\* follower is woken when its leader is done, also one that has failed and leaves
\* no reply, and nobody waits for the planning lock for ever.
EveryRequestEnds == <>[](\A r \in Requests : req[r].pc \in {"idle", "done"})

=============================================================================
