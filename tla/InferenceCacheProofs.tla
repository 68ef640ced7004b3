------------------------ MODULE InferenceCacheProofs ------------------------
(***************************************************************************)
(* Proofs about InferenceCache, for any number of requests, payloads,      *)
(* backends, clears and crashes.                                           *)
(*                                                                         *)
(* The invariant Inductive has a part for the server (PlanningHeld,        *)
(* GuardHeld, DownIsQuiet), one for the table (RowsHonest, RowsCurrent),   *)
(* one for each thread alone (Sound) and one for followers (Follows).      *)
(* A step of a thread is summarised once, by Moved, which says what the    *)
(* other threads can see of it; LeaveOthers shows that this is enough for  *)
(* every part that speaks of them.                                         *)
(***************************************************************************)
EXTENDS InferenceCache, TLAPS, FiniteSetTheorems

Uniform(b) == [x \in Paths |-> b]

\* At most one authority, of the present epoch, told by backends installed so far.
PlanningHeld ==
    /\ planning \subseteq [epoch : Nat, identity : Identity]
    /\ \A p, q \in planning : p = q
    /\ \A p \in planning : p.epoch = epoch /\ \A x \in Paths : p.identity[x] <= backend

\* Whoever may leave the authority in doubt has the guard file denying first,
\* and a crash in that condition is remembered by the file or the revocation.
GuardHeld ==
    /\ up /\ (revoked \/ \E r \in Requests : Observing(r)) => guard = "1"
    /\ owed => IF up THEN revoked ELSE guard = "1"

DownIsQuiet == ~up => \A r \in Requests : req[r].pc \in {"idle", "done"}

Asking == {"prior", "deny", "fetch", "revoke", "conclude"}

\* The reply of q is a whole answer of the model, to the request, that its key names.
Honest(q) ==
    /\ q.key # {}
    /\ \A a \in q.reply :
          a.whole /\ \A k \in q.key : k[1] = a.to /\ k[2] = Uniform(a.by)

\* Which locations a request visits for which reason.
Placed(r) ==
    /\ Kind[r] = "get" =>
          /\ req[r].pc \in Asking \cup {"idle", "end", "recall", "admit", "finish", "done"}
          /\ req[r].leader = {}
    /\ Kind[r] = "post" =>
          /\ req[r].why # "replay"
          /\ req[r].pc \in {"idle", "recall", "join"} => req[r].why = "lookup"
          /\ req[r].pc \in Asking \cup {"idle", "end", "recall", "join"}
             /\ req[r].why = "lookup" => req[r].leader = {}
    /\ req[r].status = "HIT" \/ req[r].admitted => req[r].pc \in {"finish", "done"}

\* What an observation found is what it saw, from backends installed so far.
Saw(r) ==
    /\ \A x \in Paths : \A v \in req[r].seen[x] : v <= backend
    /\ req[r].found # {} => req[r].pc \notin Asking
    /\ \A id \in req[r].found : \A x \in Paths : req[r].seen[x] = {id[x]}
    /\ req[r].obs <= sequence
    /\ req[r].result = "fresh" => req[r].obs <= observed

\* A record is the authority of its epoch, and the key is made from it.
Recorded(r) ==
    /\ \A k, j \in req[r].key : k = j /\ k[1] = Payload[r]
    /\ \A p \in req[r].record :
          /\ req[r].key = {<<Payload[r], p.identity, p.epoch>>}
          /\ \A x \in Paths : p.identity[x] <= backend
          /\ p.epoch <= epoch
          /\ p.epoch = epoch => planning = {[epoch |-> epoch, identity |-> p.identity]}

\* An answer waiting to be confirmed was given after the record was taken and
\* before anything that the confirmation sees.
Unconfirmed(q) ==
    q.pc = "confirm" \/ (q.pc \in Asking \cup {"end"} /\ q.why = "confirm")

Confirming(r) ==
    Kind[r] = "post" /\ Unconfirmed(req[r]) =>
       \A a \in req[r].reply :
          /\ a.whole /\ a.by <= backend /\ a.to = Payload[r]
          /\ \A p \in req[r].record : \A x \in Paths : p.identity[x] <= a.by
          /\ req[r].pc # "confirm" =>
                \A x \in Paths : \A v \in req[r].seen[x] : a.by <= v

\* Where an answer is stored, shared or served, it is honest.
Vouching(q) ==
    \/ q.pc \in {"store", "write", "admit", "share"}
    \/ q.pc \in Asking \cup {"end"} /\ q.why = "share"
    \/ q.status = "HIT" \/ q.admitted

Vouched(r) == Kind[r] = "post" /\ Vouching(req[r]) => Honest(req[r])

Sound(r) == Placed(r) /\ Saw(r) /\ Recorded(r) /\ Confirming(r) /\ Vouched(r)

\* A follower has the key of a request that leads.
Follows ==
    \A r \in Requests : req[r].pc = "wait" =>
       \A l \in req[r].leader : req[l].leader = {l} /\ req[l].key = req[r].key

Inductive ==
    /\ TypeOK /\ PlanningHeld /\ GuardHeld /\ DownIsQuiet
    /\ RowsHonest /\ RowsCurrent
    /\ \A r \in Requests : Sound(r)
    /\ Follows

-----------------------------------------------------------------------------
(* A step of one thread. *)

\* What a step of r does to the threads, and what others can see of it.
Moved(r) ==
    /\ req' = [req EXCEPT ![r] = req'[r]]
    /\ req'[r] \in Thread
    /\ req[r].leader # {} => req'[r].leader = req[r].leader /\ req'[r].key = req[r].key
    /\ req'[r].pc = "wait" =>
          \A l \in req'[r].leader : req[l].leader = {l} /\ req[l].key = req'[r].key

\* Counters go up, and an authority changes only with the epoch.
Forward ==
    /\ epoch' >= epoch /\ backend' >= backend
    /\ observed' >= observed /\ sequence' >= sequence
    /\ epoch' = epoch /\ planning # {} => planning' = planning

\* A record stays the authority of its epoch as counters go up.
LEMMA RecordStays ==
    ASSUME TypeOK, TypeOK', Forward, NEW s \in Requests, Recorded(s),
           req'[s].record = req[s].record, req'[s].key = req[s].key
    PROVE  Recorded(s)'
<1> DEFINE q == req[s]
<1>1. /\ q \in Thread
      /\ epoch \in Nat /\ epoch' \in Nat /\ backend \in Nat /\ backend' \in Nat
  BY CountAssumption DEF TypeOK, Backends
<1>2. \A p \in q.record : p.epoch \in Nat /\ \A x \in Paths : p.identity[x] \in Nat
  BY <1>1, CountAssumption DEF Thread, Record, Identity, Backends
<1>3. ASSUME NEW p \in q.record
      PROVE  /\ \A x \in Paths : p.identity[x] <= backend'
             /\ p.epoch <= epoch'
             /\ p.epoch = epoch' => planning' = {[epoch |-> epoch', identity |-> p.identity]}
  <2>1. /\ \A x \in Paths : p.identity[x] <= backend
        /\ p.epoch <= epoch
        /\ p.epoch = epoch => planning = {[epoch |-> epoch, identity |-> p.identity]}
    BY <1>3 DEF Recorded
  <2>2. p.epoch = epoch' => epoch' = epoch
    BY <1>1, <1>2, <1>3, <2>1 DEF Forward
  <2>3. p.epoch = epoch' => planning' = planning
    BY <2>1, <2>2 DEF Forward
  <2> QED
    BY <1>1, <1>2, <1>3, <2>1, <2>2, <2>3 DEF Forward
<1> QED
  BY <1>3 DEF Recorded

\* The thread that took no step keeps its part of the invariant.
LEMMA SoundStays ==
    ASSUME TypeOK, TypeOK', Forward, NEW s \in Requests, Sound(s), req'[s] = req[s]
    PROVE  Sound(s)'
<1> DEFINE q == req[s]
<1>1. q \in Thread
  BY DEF TypeOK
<1>2. /\ epoch \in Nat /\ epoch' \in Nat /\ backend \in Nat /\ backend' \in Nat
      /\ observed \in Nat /\ observed' \in Nat /\ sequence \in Nat /\ sequence' \in Nat
  BY CountAssumption DEF TypeOK, Backends
<1>3. Placed(s)'
  BY DEF Sound, Placed
<1>4. Saw(s)'
  <2>1. \A x \in Paths : \A v \in q.seen[x] : v \in Nat /\ v <= backend
    BY <1>1, CountAssumption DEF Thread, Backends, Sound, Saw
  <2>2. q.obs \in Nat
    BY <1>1 DEF Thread
  <2> QED
    BY <1>2, <2>1, <2>2 DEF Sound, Saw, Forward
<1>5. Recorded(s)'
  BY <1>1, <1>2, RecordStays DEF Sound, Inductive
<1>6. Confirming(s)'
  <2>1. \A a \in q.reply : a.by \in Nat
    BY <1>1, CountAssumption DEF Thread, Answer, Backends
  <2> QED
    BY <1>2, <2>1 DEF Sound, Confirming, Unconfirmed, Forward
<1>7. Vouched(s)'
  BY DEF Sound, Vouched, Vouching, Honest
<1> QED
  BY <1>3, <1>4, <1>5, <1>6, <1>7 DEF Sound

\* Followers follow whatever one thread does.
LEMMA FollowsStays ==
    ASSUME TypeOK, Follows, NEW r \in Requests, Moved(r)
    PROVE  Follows'
<1>1. \A s \in Requests : s # r => req'[s] = req[s]
  BY DEF Moved, TypeOK
<1>2. ASSUME NEW s \in Requests, req'[s].pc = "wait", NEW l \in req'[s].leader
      PROVE  l \in Requests /\ req[l].leader = {l} /\ req[l].key = req'[s].key
  <2>1. req'[s] \in Thread
    BY <1>1 DEF Moved, TypeOK
  <2>2. l \in Requests
    BY <1>2, <2>1 DEF Thread
  <2>3. CASE s = r
    BY <1>2, <2>2, <2>3 DEF Moved
  <2>4. CASE s # r
    BY <1>1, <1>2, <2>2, <2>4 DEF Follows
  <2> QED
    BY <2>3, <2>4
<1>3. ASSUME NEW l \in Requests, req[l].leader = {l}
      PROVE  req'[l].leader = {l} /\ req'[l].key = req[l].key
  BY <1>1, <1>3 DEF Moved
<1> QED
  BY <1>2, <1>3 DEF Follows

\* A step of r that only its own thread notices.
LEMMA LocalStep ==
    ASSUME Inductive, up, NEW r \in Requests, LocalOnly, Moved(r), Sound(r)',
           Observing(r)' => Observing(r)
    PROVE  Inductive'
<1>1. \A s \in Requests : s # r => req'[s] = req[s]
  BY DEF Moved, Inductive, TypeOK
<1>2. TypeOK'
  <2>1. req' \in [Requests -> Thread]
    BY DEF Moved, Inductive, TypeOK
  <2> QED
    BY <2>1 DEF Inductive, TypeOK, LocalOnly, database, authority, environment, Rows, Thread,
                Record
<1>3. Forward
  BY CountAssumption DEF Forward, LocalOnly, database, authority, environment, Inductive,
                         TypeOK, Backends
<1>4. \A s \in Requests : Sound(s)'
  BY <1>1, <1>2, <1>3, SoundStays DEF Inductive
<1>5. PlanningHeld' /\ RowsHonest' /\ RowsCurrent' /\ DownIsQuiet'
  BY DEF LocalOnly, database, authority, environment, Inductive, PlanningHeld, RowsHonest,
         RowsCurrent, DownIsQuiet
<1>6. GuardHeld'
  <2>1. \A s \in Requests : Observing(s)' => Observing(s)
    BY <1>1 DEF Observing
  <2> QED
    BY <2>1 DEF GuardHeld, Inductive, LocalOnly, database, authority, environment
<1>7. Follows'
  BY FollowsStays DEF Inductive
<1> QED
  BY <1>2, <1>4, <1>5, <1>6, <1>7 DEF Inductive

-----------------------------------------------------------------------------
(* The steps that change nothing but their own thread. *)

\* What an observation never touches: the request's own record and answer.
Carried(q) ==
    <<q.obs, q.found, q.record, q.key, q.leader, q.reply, q.admitted, q.status>>

\* What Onward leaves of a thread.
LEMMA OnwardIs ==
    ASSUME NEW q \in Thread
    PROVE  /\ Onward(q) \in Thread
           /\ Onward(q).pc \in {"revoke", "conclude", "fetch"}
           /\ Carried(Onward(q)) = Carried(q)
           /\ Onward(q).why = q.why /\ Onward(q).result = q.result
           /\ Onward(q).seen = q.seen
<1> DEFINE place == IF Refutes(q) THEN "revoke"
                    ELSE IF q.tried = Paths \/ q.fault = "bad" THEN "conclude" ELSE "fetch"
<1>1. Onward(q) = [q EXCEPT !.pc = place]
  BY DEF Onward
<1>2. place \in {"revoke", "conclude", "fetch"}
  OBVIOUS
<1> HIDE DEF place
<1> QED
  BY <1>1, <1>2 DEF Thread, Carried

\* A thread of the invariant, and what a replacement of it amounts to.
LEMMA Replaced ==
    ASSUME TypeOK, NEW r \in Requests, NEW q, req' = [req EXCEPT ![r] = q]
    PROVE  /\ req[r] \in Thread
           /\ req'[r] = q
           /\ req' = [req EXCEPT ![r] = req'[r]]
           /\ \A s \in Requests : s # r => req'[s] = req[s]
BY DEF TypeOK

\* While it is asking, a thread keeps its part of the invariant as long as it
\* touches only the observation and sees only the backend that runs.
LEMMA StillAsking ==
    ASSUME Inductive, TypeOK', Forward, NEW r \in Requests, NEW q \in Thread,
           req' = [req EXCEPT ![r] = q],
           req[r].pc \in Asking,
           q.pc \in Asking \cup {"end"} \/ (q.pc = "recall" /\ Kind[r] = "get"),
           q.why = req[r].why \/ Kind[r] = "get",
           Carried(q) = Carried(req[r]),
           q.result # "fresh" \/ q.result = req[r].result,
           \A x \in Paths : q.seen[x] \subseteq req[r].seen[x] \cup {backend}
    PROVE  Moved(r) /\ Sound(r)'
<1> DEFINE old == req[r]
<1>1. /\ old \in Thread /\ req'[r] = q /\ req' = [req EXCEPT ![r] = req'[r]]
      /\ Sound(r)
  BY Replaced DEF Inductive
<1>2. /\ q.obs = old.obs /\ q.found = old.found /\ q.record = old.record /\ q.key = old.key
      /\ q.leader = old.leader /\ q.reply = old.reply /\ q.admitted = old.admitted
      /\ q.status = old.status
  BY DEF Carried
<1>3. /\ epoch \in Nat /\ epoch' \in Nat /\ backend \in Nat /\ backend' \in Nat
      /\ observed \in Nat /\ observed' \in Nat /\ sequence \in Nat /\ sequence' \in Nat
  BY CountAssumption DEF Inductive, TypeOK, Backends
<1>4. old.found = {}
  BY <1>1 DEF Sound, Saw
<1>5. Moved(r)
  BY <1>1, <1>2 DEF Moved, Asking
<1>6. Placed(r)'
  BY <1>1, <1>2 DEF Sound, Placed, Asking
<1>7. Saw(r)'
  <2>1. \A x \in Paths : \A v \in old.seen[x] : v \in Nat /\ v <= backend
    BY <1>1, CountAssumption DEF Thread, Backends, Sound, Saw
  <2>2. old.obs \in Nat
    BY <1>1 DEF Thread
  <2>3. \A x \in Paths : \A v \in q.seen[x] : v <= backend'
    BY <1>3, <2>1 DEF Forward
  <2>4. q.obs <= sequence' /\ (q.result = "fresh" => q.obs <= observed')
    BY <1>1, <1>2, <1>3, <2>2 DEF Sound, Saw, Forward
  <2> QED
    BY <1>1, <1>2, <1>4, <2>3, <2>4 DEF Saw
<1>8. Recorded(r)'
  BY <1>1, <1>2, RecordStays DEF Sound, Inductive
<1>9. Confirming(r)'
  <2>1. SUFFICES ASSUME Kind[r] = "post", Unconfirmed(q), NEW a \in q.reply
                 PROVE  /\ a.whole /\ a.by <= backend' /\ a.to = Payload[r]
                        /\ q.pc # "confirm"
                        /\ \A p \in q.record : \A x \in Paths : p.identity[x] <= a.by
                        /\ \A x \in Paths : \A v \in q.seen[x] : a.by <= v
    BY <1>1 DEF Confirming
  <2>2. Unconfirmed(old) /\ a \in old.reply /\ q.pc # "confirm" /\ old.pc # "confirm"
    BY <1>2, <2>1 DEF Unconfirmed, Asking
  <2>3. /\ a.whole /\ a.by <= backend /\ a.to = Payload[r]
        /\ \A p \in old.record : \A x \in Paths : p.identity[x] <= a.by
        /\ \A x \in Paths : \A v \in old.seen[x] : a.by <= v
    BY <1>1, <2>1, <2>2 DEF Sound, Confirming
  <2>4. a.by \in Nat
    BY <1>1, <2>2, CountAssumption DEF Thread, Answer, Backends
  <2> QED
    BY <1>2, <1>3, <2>2, <2>3, <2>4 DEF Forward
<1>10. Vouched(r)'
  BY <1>1, <1>2 DEF Sound, Vouched, Vouching, Honest, Asking
<1> QED
  BY <1>5, <1>6, <1>7, <1>8, <1>9, <1>10 DEF Sound

\* Nothing of the server moves: neither its types nor its counters.
LEMMA LocalTypes ==
    ASSUME TypeOK, LocalOnly, req' \in [Requests -> Thread]
    PROVE  TypeOK' /\ Forward
BY CountAssumption DEF TypeOK, LocalOnly, database, authority, environment, Rows, Thread,
                       Record, Forward, Backends

\* An observation that ends without an authority.
LEMMA InvalidIs ==
    ASSUME NEW q \in Thread
    PROVE  /\ Invalid(q) \in Thread /\ Invalid(q).pc = "end" /\ Invalid(q).result = "invalid"
           /\ Carried(Invalid(q)) = Carried(q)
           /\ Invalid(q).why = q.why /\ Invalid(q).seen = q.seen
BY DEF Invalid, Thread, Carried

LEMMA PriorStep ==
    ASSUME Inductive, NEW r \in Requests, Prior(r)
    PROVE  Inductive'
<1> DEFINE base == [req[r] EXCEPT !.prior = {p.identity : p \in planning}]
           q == IF revoked THEN [req[r] EXCEPT !.pc = "deny"] ELSE Onward(base)
<1>1. /\ up /\ req[r].pc = "prior" /\ LocalOnly /\ TypeOK
      /\ req' = [req EXCEPT ![r] = q]
  BY DEF Prior, At, Inductive
<1>2. req[r] \in Thread
  BY <1>1 DEF TypeOK
<1>3. {p.identity : p \in planning} \subseteq Identity
  BY <1>1 DEF TypeOK
<1>4. base \in Thread
  BY <1>2, <1>3 DEF Thread
<1>5. q \in Thread /\ q.pc \in Asking /\ q.why = req[r].why /\ Carried(q) = Carried(req[r])
      /\ q.result = req[r].result /\ q.seen = req[r].seen
  <2>1. CASE revoked
    BY <1>2, <2>1 DEF Thread, Asking, Carried
  <2>2. CASE ~revoked
    <3>1. /\ Carried(base) = Carried(req[r]) /\ base.why = req[r].why
          /\ base.result = req[r].result /\ base.seen = req[r].seen
      BY <1>2 DEF Thread, Carried
    <3> HIDE DEF base
    <3> QED
      BY <1>4, <2>2, <3>1, OnwardIs DEF Asking
  <2> QED
    BY <2>1, <2>2
<1> HIDE DEF q
<1>6. TypeOK' /\ Forward
  BY <1>1, <1>5, LocalTypes DEF TypeOK
<1>7. Moved(r) /\ Sound(r)'
  BY <1>1, <1>5, <1>6, StillAsking DEF Asking
<1>8. Observing(r)
  BY <1>1 DEF Observing
<1> QED
  BY <1>1, <1>7, <1>8, LocalStep

LEMMA FetchStep ==
    ASSUME Inductive, NEW r \in Requests, Fetch(r)
    PROVE  Inductive'
<1>1. /\ up /\ req[r].pc = "fetch" /\ LocalOnly /\ TypeOK /\ req[r] \in Thread
  BY DEF Fetch, At, Inductive, TypeOK
<1>2. PICK p \in Paths, outcome \in {"value", "gone", "bad"} :
        LET q == [req[r] EXCEPT
                    !.tried = @ \cup {p},
                    !.seen[p] = IF outcome = "value" THEN {backend} ELSE {},
                    !.fault = IF outcome = "value" THEN @ ELSE outcome]
        IN  IF Kind[r] = "get" /\ req[r].tried = {}
            THEN \/ req' = [req EXCEPT ![r] =
                        [q EXCEPT !.pc = "prior",
                                  !.why = IF outcome = "gone" THEN "replay" ELSE @]]
                 \/ outcome = "bad" /\ req' = [req EXCEPT ![r] = Invalid(q)]
            ELSE req' = [req EXCEPT ![r] = Onward(q)]
  BY DEF Fetch
<1> DEFINE q == [req[r] EXCEPT
                   !.tried = @ \cup {p},
                   !.seen[p] = IF outcome = "value" THEN {backend} ELSE {},
                   !.fault = IF outcome = "value" THEN @ ELSE outcome]
           new == req'[r]
<1>3. /\ q \in Thread /\ Carried(q) = Carried(req[r]) /\ q.why = req[r].why
      /\ q.result = req[r].result
      /\ \A x \in Paths : q.seen[x] \subseteq req[r].seen[x] \cup {backend}
  <2>1. backend \in Backends
    BY <1>1 DEF TypeOK
  <2>2. /\ q.seen = [req[r].seen EXCEPT ![p] = IF outcome = "value" THEN {backend} ELSE {}]
        /\ req[r].seen \in [Paths -> SUBSET Backends]
    BY <1>1 DEF Thread
  <2>3. q.seen \in [Paths -> SUBSET Backends]
    BY <2>1, <2>2
  <2>4. \A x \in Paths : q.seen[x] \subseteq req[r].seen[x] \cup {backend}
    BY <2>2
  <2> QED
    BY <1>1, <2>3, <2>4 DEF Thread, Carried
<1> HIDE DEF q
<1>4. /\ req' = [req EXCEPT ![r] = new] /\ new \in Thread
      /\ new.pc \in Asking \cup {"end"}
      /\ new.why = req[r].why \/ Kind[r] = "get"
      /\ Carried(new) = Carried(req[r])
      /\ new.result # "fresh" \/ new.result = req[r].result
      /\ \A x \in Paths : new.seen[x] \subseteq req[r].seen[x] \cup {backend}
  <2>1. CASE Kind[r] = "get" /\ req[r].tried = {}
    <3> DEFINE because == IF outcome = "gone" THEN "replay" ELSE q.why
               first == [q EXCEPT !.pc = "prior", !.why = because]
    <3>1. first = [q EXCEPT !.pc = "prior",
                            !.why = IF outcome = "gone" THEN "replay" ELSE @]
      OBVIOUS
    <3>2. \/ req' = [req EXCEPT ![r] = first]
          \/ req' = [req EXCEPT ![r] = Invalid(q)]
      BY <1>2, <2>1, <3>1 DEF q
    <3>3. because \in {"lookup", "replay", "confirm", "share"}
      BY <1>3 DEF Thread
    <3> HIDE DEF because
    <3>4. /\ first \in Thread /\ first.pc = "prior" /\ Carried(first) = Carried(q)
          /\ first.result = q.result /\ first.seen = q.seen
      BY <1>3, <3>3 DEF Thread, Carried
    <3> HIDE DEF first
    <3>5. new = first \/ new = Invalid(q)
      BY <1>1, <3>2, Replaced
    <3>6. req' = [req EXCEPT ![r] = new]
      BY <1>1, <3>2, <3>5, Replaced
    <3>7. CASE new = first
      BY <1>3, <2>1, <3>4, <3>6, <3>7 DEF Asking
    <3>8. CASE new = Invalid(q)
      BY <1>3, <2>1, <3>6, <3>8, InvalidIs DEF Asking
    <3> QED
      BY <3>5, <3>7, <3>8
  <2>2. CASE ~(Kind[r] = "get" /\ req[r].tried = {})
    <3>1. req' = [req EXCEPT ![r] = Onward(q)]
      BY <1>2, <2>2 DEF q
    <3>2. new = Onward(q)
      BY <1>1, <3>1, Replaced
    <3> QED
      BY <1>3, <3>1, <3>2, OnwardIs DEF Asking
  <2> QED
    BY <2>1, <2>2
<1>5. TypeOK' /\ Forward
  BY <1>1, <1>4, LocalTypes DEF TypeOK
<1>6. Moved(r) /\ Sound(r)'
  BY <1>1, <1>4, <1>5, StillAsking DEF Asking
<1>7. Observing(r)
  BY <1>1 DEF Observing
<1> QED
  BY <1>1, <1>6, <1>7, LocalStep

LEMMA GiveUpStep ==
    ASSUME Inductive, NEW r \in Requests, GiveUp(r)
    PROVE  Inductive'
<1> DEFINE q == [req[r] EXCEPT !.pc = "conclude"]
<1>1. /\ up /\ req[r].pc = "fetch" /\ LocalOnly /\ TypeOK /\ req[r] \in Thread
      /\ req' = [req EXCEPT ![r] = q]
  BY DEF GiveUp, At, Inductive, TypeOK
<1>2. q \in Thread /\ q.pc \in Asking /\ q.why = req[r].why /\ Carried(q) = Carried(req[r])
      /\ q.result = req[r].result /\ q.seen = req[r].seen
  BY <1>1 DEF Thread, Asking, Carried
<1> HIDE DEF q
<1>3. TypeOK' /\ Forward
  BY <1>1, <1>2, LocalTypes DEF TypeOK
<1>4. Moved(r) /\ Sound(r)'
  BY <1>1, <1>2, <1>3, StillAsking DEF Asking
<1>5. Observing(r)
  BY <1>1 DEF Observing
<1> QED
  BY <1>1, <1>4, <1>5, LocalStep

\* What was observed and what it was filed under stays; the record may be dropped.
Kept(q, old) ==
    /\ q.obs = old.obs /\ q.seen = old.seen /\ q.found = old.found /\ q.result = old.result
    /\ q.why = old.why /\ q.key = old.key /\ q.leader = old.leader
    /\ q.record \subseteq old.record

\* Past its observation, a thread has only to vouch for its answer.
LEMMA Answering ==
    ASSUME Inductive, up, LocalOnly, NEW r \in Requests, NEW q \in Thread,
           req' = [req EXCEPT ![r] = q],
           Kept(q, req[r]),
           q.pc \in {"read", "admit", "generate", "confirm", "store", "write", "share",
                     "finish", "done"},
           Kind[r] = "get" => q.pc \in {"admit", "finish", "done"},
           q.status = "HIT" \/ q.admitted => q.pc \in {"finish", "done"},
           Kind[r] = "post" /\ q.pc = "confirm" =>
              \A a \in q.reply :
                 /\ a.whole /\ a.by <= backend /\ a.to = Payload[r]
                 /\ \A p \in q.record : \A x \in Paths : p.identity[x] <= a.by,
           Kind[r] = "post" /\ Vouching(q) => Honest(q)
    PROVE  Inductive'
<1> DEFINE old == req[r]
<1>1. /\ old \in Thread /\ req'[r] = q /\ req' = [req EXCEPT ![r] = req'[r]]
      /\ Sound(r)
  BY Replaced DEF Inductive
<1>2. /\ q.obs = old.obs /\ q.seen = old.seen /\ q.found = old.found
      /\ q.result = old.result /\ q.why = old.why /\ q.key = old.key
      /\ q.leader = old.leader /\ q.record \subseteq old.record
  BY DEF Kept
<1>3. /\ epoch' = epoch /\ planning' = planning /\ backend' = backend /\ observed' = observed
      /\ sequence' = sequence
  BY DEF LocalOnly, database, authority, environment
<1>4. Moved(r)
  BY <1>1, <1>2 DEF Moved
<1>5. Placed(r)'
  BY <1>1, <1>2 DEF Sound, Placed, Asking
<1>6. Saw(r)'
  BY <1>1, <1>2, <1>3 DEF Sound, Saw, Asking
<1>7. Recorded(r)'
  BY <1>1, <1>2, <1>3 DEF Sound, Recorded
<1>8. Confirming(r)'
  BY <1>1, <1>2, <1>3 DEF Confirming, Unconfirmed, Asking
<1>9. Vouched(r)'
  BY <1>1 DEF Vouched
<1>10. ~Observing(r)'
  BY <1>1 DEF Observing
<1> QED
  BY <1>4, <1>5, <1>6, <1>7, <1>8, <1>9, <1>10, LocalStep DEF Sound

\* A request that goes on without a record keeps what Answering asks for.
LEMMA UncachedIs ==
    ASSUME NEW q \in Thread
    PROVE  /\ Uncached(q) \in Thread /\ Uncached(q).pc = "generate"
           /\ Uncached(q).record = {} /\ Uncached(q).reply = {}
           /\ Kept(Uncached(q), q)
           /\ Uncached(q).status = q.status /\ Uncached(q).admitted = q.admitted
BY DEF Uncached, Thread, Kept

LEMMA ReadStep ==
    ASSUME Inductive, NEW r \in Requests, Read(r)
    PROVE  Inductive'
<1> DEFINE old == req[r]
<1>1. /\ up /\ old.pc = "read" /\ LocalOnly /\ TypeOK /\ old \in Thread /\ Sound(r)
      /\ Kind[r] = "post" /\ old.status # "HIT" /\ ~old.admitted
  BY KindAssumption DEF Read, At, Inductive, TypeOK, Sound, Placed, Asking
<1>2. CASE \E e \in Row(old) :
             req' = [req EXCEPT ![r].pc = "admit", ![r].reply = {e.body}]
  <2>1. PICK e \in Row(old) : req' = [req EXCEPT ![r].pc = "admit", ![r].reply = {e.body}]
    BY <1>2
  <2> DEFINE q == [old EXCEPT !.pc = "admit", !.reply = {e.body}]
  <2>2. e \in entries /\ <<e.payload, e.identity, e.epoch>> \in old.key /\ e.body \in Answer
    BY <1>1 DEF Row, TypeOK, Rows
  <2>3. q \in Thread /\ Kept(q, old) /\ q.pc = "admit" /\ q.reply = {e.body}
        /\ q.key = old.key /\ q.status = old.status /\ q.admitted = old.admitted
    BY <1>1, <2>2 DEF Thread, Kept
  <2>4. req' = [req EXCEPT ![r] = q]
    BY <1>1, <2>1
  <2> HIDE DEF q
  <2>5. Honest(q)
    <3>1. e.body.whole /\ e.body.to = e.payload /\ e.identity = Uniform(e.body.by)
      BY <2>2 DEF Inductive, RowsHonest, Uniform
    <3>2. \A k \in q.key : k = <<e.payload, e.identity, e.epoch>>
      BY <1>1, <2>2, <2>3 DEF Sound, Recorded
    <3> QED
      BY <2>2, <2>3, <3>1, <3>2 DEF Honest
  <2> QED
    BY <1>1, <2>3, <2>4, <2>5, Answering
<1>3. CASE req' = [req EXCEPT ![r] = Uncached(@)]
  <2>1. req' = [req EXCEPT ![r] = Uncached(old)]
    BY <1>3
  <2> QED
    BY <1>1, <2>1, UncachedIs, Answering DEF Vouching, Asking
<1>4. CASE req' = [req EXCEPT ![r] = [@ EXCEPT !.pc = "generate"]]
  <2> DEFINE q == [old EXCEPT !.pc = "generate"]
  <2>1. q \in Thread /\ Kept(q, old) /\ q.pc = "generate" /\ q.status = old.status
        /\ q.admitted = old.admitted
    BY <1>1 DEF Thread, Kept
  <2>2. req' = [req EXCEPT ![r] = q]
    BY <1>4
  <2> HIDE DEF q
  <2> QED
    BY <1>1, <2>1, <2>2, Answering DEF Vouching, Asking
<1> QED
  BY <1>2, <1>3, <1>4 DEF Read

LEMMA AdmitStep ==
    ASSUME Inductive, NEW r \in Requests, Admit(r)
    PROVE  Inductive'
<1> DEFINE old == req[r]
           hit == [old EXCEPT !.pc = "finish", !.status = "HIT",
                              !.admitted = (old.leader = {r})]
           other == [old EXCEPT !.pc = "finish", !.status = "other"]
<1>1. /\ up /\ old.pc = "admit" /\ LocalOnly /\ TypeOK /\ old \in Thread /\ Sound(r)
      /\ old.status # "HIT" /\ ~old.admitted
      /\ Kind[r] = "post" => Honest(old)
  BY DEF Admit, At, Inductive, TypeOK, Sound, Placed, Asking, Vouched, Vouching
<1>2. \/ req' = [req EXCEPT ![r] = hit]
      \/ req' = [req EXCEPT ![r] = other]
      \/ Kind[r] # "get" /\ req' = [req EXCEPT ![r] = Uncached(old)]
  BY DEF Admit
<1>3. /\ hit \in Thread /\ Kept(hit, old) /\ hit.pc = "finish"
      /\ hit.reply = old.reply /\ hit.key = old.key
  BY <1>1 DEF Thread, Kept
<1>4. /\ other \in Thread /\ Kept(other, old) /\ other.pc = "finish"
      /\ other.status = "other" /\ other.admitted = old.admitted
  BY <1>1 DEF Thread, Kept
<1> HIDE DEF hit, other
<1>5. CASE req' = [req EXCEPT ![r] = hit]
  BY <1>1, <1>3, <1>5, Answering DEF Honest
<1>6. CASE req' = [req EXCEPT ![r] = other]
  BY <1>1, <1>4, <1>6, Answering DEF Vouching, Asking
<1>7. CASE Kind[r] # "get" /\ req' = [req EXCEPT ![r] = Uncached(old)]
  BY <1>1, <1>7, UncachedIs, Answering DEF Vouching, Asking
<1> QED
  BY <1>2, <1>5, <1>6, <1>7

LEMMA GenerateStep ==
    ASSUME Inductive, NEW r \in Requests, Generate(r)
    PROVE  Inductive'
<1> DEFINE old == req[r]
<1>1. /\ up /\ old.pc = "generate" /\ LocalOnly /\ TypeOK /\ old \in Thread /\ Sound(r)
      /\ Kind[r] = "post" /\ old.status # "HIT" /\ ~old.admitted
      /\ backend \in Backends
  BY KindAssumption DEF Generate, At, Inductive, TypeOK, Sound, Placed, Asking
<1>2. CASE \E whole \in BOOLEAN :
             req' = [req EXCEPT
                ![r].reply = {[by |-> backend, to |-> Payload[r], whole |-> whole]},
                ![r].status = "other",
                ![r].pc = IF whole /\ req[r].record # {} THEN "confirm" ELSE "finish"]
  <2>1. PICK whole \in BOOLEAN :
             req' = [req EXCEPT
                ![r].reply = {[by |-> backend, to |-> Payload[r], whole |-> whole]},
                ![r].status = "other",
                ![r].pc = IF whole /\ req[r].record # {} THEN "confirm" ELSE "finish"]
    BY <1>2
  <2> DEFINE next == IF whole /\ old.record # {} THEN "confirm" ELSE "finish"
             answer == [by |-> backend, to |-> Payload[r], whole |-> whole]
             q == [old EXCEPT !.reply = {answer}, !.status = "other", !.pc = next]
  <2>2. req' = [req EXCEPT ![r] = q]
    BY <1>1, <2>1
  <2>3. next \in {"confirm", "finish"} /\ (next = "confirm" => whole)
        /\ answer \in Answer /\ answer.by = backend /\ answer.to = Payload[r]
        /\ answer.whole = whole
    BY <1>1 DEF Answer, Payloads
  <2> HIDE DEF next, answer
  <2>4. q \in Thread /\ Kept(q, old) /\ q.pc = next /\ q.reply = {answer}
        /\ q.record = old.record /\ q.status = "other" /\ q.admitted = old.admitted
    BY <1>1, <2>3, ZenonT(60) DEF Thread, Kept
  <2> HIDE DEF q
  <2>5. \A p \in old.record : \A x \in Paths : p.identity[x] <= backend
    BY <1>1 DEF Sound, Recorded
  <2>6. backend <= backend
    BY <1>1, CountAssumption DEF Backends
  <2>7. q.pc = "confirm" =>
           \A a \in q.reply :
              /\ a.whole /\ a.by <= backend /\ a.to = Payload[r]
              /\ \A p \in q.record : \A x \in Paths : p.identity[x] <= a.by
    BY <2>3, <2>4, <2>5, <2>6
  <2>8. ~Vouching(q)
    BY <1>1, <2>3, <2>4 DEF Vouching, Asking
  <2> QED
    BY <1>1, <2>2, <2>3, <2>4, <2>7, <2>8, Answering
<1>3. CASE req' = [req EXCEPT ![r].reply = {}, ![r].status = "other", ![r].pc = "finish"]
  <2> DEFINE q == [old EXCEPT !.reply = {}, !.status = "other", !.pc = "finish"]
  <2>1. q \in Thread /\ Kept(q, old) /\ q.pc = "finish" /\ q.status = "other"
        /\ q.admitted = old.admitted
    BY <1>1 DEF Thread, Kept
  <2>2. req' = [req EXCEPT ![r] = q]
    BY <1>1, <1>3
  <2> HIDE DEF q
  <2> QED
    BY <1>1, <2>1, <2>2, Answering DEF Vouching, Asking
<1> QED
  BY <1>2, <1>3 DEF Generate

LEMMA AdmitWriteStep ==
    ASSUME Inductive, NEW r \in Requests, AdmitWrite(r)
    PROVE  Inductive'
<1> DEFINE old == req[r]
           next == IF Current(old) THEN "write" ELSE "finish"
           q == [old EXCEPT !.pc = next]
<1>1. /\ up /\ old.pc = "store" /\ LocalOnly /\ TypeOK /\ old \in Thread /\ Sound(r)
      /\ Kind[r] = "post" /\ old.status # "HIT" /\ ~old.admitted /\ Honest(old)
  BY KindAssumption DEF AdmitWrite, At, Inductive, TypeOK, Sound, Placed, Asking, Vouched,
                        Vouching
<1>2. req' = [req EXCEPT ![r] = q]
  BY DEF AdmitWrite
<1>3. next \in {"write", "finish"}
  OBVIOUS
<1> HIDE DEF next
<1>4. q \in Thread /\ Kept(q, old) /\ q.pc = next /\ q.status = old.status
      /\ q.admitted = old.admitted /\ q.reply = old.reply /\ q.key = old.key
  BY <1>1, <1>3 DEF Thread, Kept
<1> HIDE DEF q
<1> QED
  BY <1>1, <1>2, <1>3, <1>4, Answering DEF Honest

LEMMA WakeStep ==
    ASSUME Inductive, NEW r \in Requests, Wake(r)
    PROVE  Inductive'
<1> DEFINE old == req[r]
<1>1. /\ up /\ old.pc = "wait" /\ LocalOnly /\ TypeOK /\ old \in Thread /\ Sound(r)
      /\ Kind[r] = "post" /\ ~old.admitted
  BY KindAssumption DEF Wake, At, Inductive, TypeOK, Sound, Placed, Asking
<1>2. PICK l \in old.leader :
          /\ req[l].pc = "done"
          /\ req' = [req EXCEPT
                ![r].reply = req[l].reply,
                ![r].pc = IF /\ req[l].reply # {} /\ req[l].admitted
                             /\ \E p \in req[r].record : p.epoch = epoch
                          THEN "share" ELSE "finish",
                ![r].status = "other"]
  BY DEF Wake
<1> DEFINE next == IF /\ req[l].reply # {} /\ req[l].admitted
                      /\ \E p \in old.record : p.epoch = epoch
                   THEN "share" ELSE "finish"
           q == [old EXCEPT !.reply = req[l].reply, !.pc = next, !.status = "other"]
<1>3. /\ l \in Requests /\ req[l] \in Thread /\ req[l].key = old.key
      /\ Sound(l)
  BY <1>1, <1>2 DEF Thread, TypeOK, Inductive, Follows
<1>4. req' = [req EXCEPT ![r] = q]
  BY <1>1, <1>2
<1>5. next \in {"share", "finish"} /\ (next = "share" => req[l].admitted)
  OBVIOUS
<1> HIDE DEF next
<1>6. q \in Thread /\ Kept(q, old) /\ q.pc = next /\ q.status = "other"
      /\ q.admitted = old.admitted /\ q.reply = req[l].reply /\ q.key = old.key
  BY <1>1, <1>3, <1>5 DEF Thread, Kept
<1> HIDE DEF q
<1>7. Kind[l] = "post"
  <2>1. req[l].leader = {l}
    BY <1>1, <1>2 DEF Inductive, Follows
  <2> QED
    BY <1>3, <2>1, KindAssumption DEF Sound, Placed
<1>8. next = "share" => Honest(q)
  BY <1>3, <1>5, <1>6, <1>7 DEF Sound, Vouched, Vouching, Honest
<1> QED
  BY <1>1, <1>4, <1>5, <1>6, <1>8, Answering DEF Vouching, Asking

LEMMA ExpireStep ==
    ASSUME Inductive, NEW r \in Requests, Expire(r)
    PROVE  Inductive'
<1> DEFINE old == req[r]
           q == [old EXCEPT !.pc = "finish", !.status = "other"]
<1>1. /\ up /\ old.pc = "wait" /\ LocalOnly /\ TypeOK /\ old \in Thread /\ Sound(r)
      /\ Kind[r] = "post" /\ ~old.admitted
  BY KindAssumption DEF Expire, At, Inductive, TypeOK, Sound, Placed, Asking
<1>2. req' = [req EXCEPT ![r] = q]
  BY <1>1 DEF Expire
<1>3. q \in Thread /\ Kept(q, old) /\ q.pc = "finish" /\ q.status = "other"
      /\ q.admitted = old.admitted
  BY <1>1 DEF Thread, Kept
<1> HIDE DEF q
<1> QED
  BY <1>1, <1>2, <1>3, Answering DEF Vouching, Asking

LEMMA FinishStep ==
    ASSUME Inductive, NEW r \in Requests, Finish(r)
    PROVE  Inductive'
<1> DEFINE old == req[r]
           told == [old EXCEPT !.pc = "done"]
           lost == [old EXCEPT !.pc = "done", !.reply = {}]
<1>1. /\ up /\ old.pc = "finish" /\ LocalOnly /\ TypeOK /\ old \in Thread /\ Sound(r)
  BY DEF Finish, At, Inductive, TypeOK
<1>2. req' = [req EXCEPT ![r] = told] \/ req' = [req EXCEPT ![r] = lost]
  BY <1>1 DEF Finish
<1>3. /\ told \in Thread /\ Kept(told, old) /\ told.pc = "done" /\ told.status = old.status
      /\ told.admitted = old.admitted /\ told.reply = old.reply /\ told.key = old.key
  BY <1>1 DEF Thread, Kept
<1>4. /\ lost \in Thread /\ Kept(lost, old) /\ lost.pc = "done" /\ lost.status = old.status
      /\ lost.admitted = old.admitted /\ lost.reply = {} /\ lost.key = old.key
  BY <1>1 DEF Thread, Kept
<1> HIDE DEF told, lost
<1>5. Kind[r] = "post" /\ Vouching(told) => Honest(told)
  BY <1>1, <1>3 DEF Sound, Vouched, Vouching, Honest, Asking
<1>6. Kind[r] = "post" /\ Vouching(lost) => Honest(lost)
  BY <1>1, <1>4 DEF Sound, Vouched, Vouching, Honest, Asking
<1> QED
  BY <1>1, <1>2, <1>3, <1>4, <1>5, <1>6, Answering

LEMMA JoinStep ==
    ASSUME Inductive, NEW r \in Requests, Join(r)
    PROVE  Inductive'
<1> DEFINE old == req[r]
           leaders == {l \in Requests : Leads(l) /\ req[l].key = old.key}
           lead == IF leaders = {} THEN {r} ELSE leaders
           next == IF leaders = {} THEN "read" ELSE "wait"
           q == [old EXCEPT !.leader = lead, !.pc = next]
<1>1. /\ up /\ old.pc = "join" /\ LocalOnly /\ TypeOK /\ old \in Thread /\ Sound(r)
      /\ Kind[r] = "post" /\ old.status # "HIT" /\ ~old.admitted
      /\ old.why = "lookup" /\ old.leader = {}
  BY KindAssumption DEF Join, At, Inductive, TypeOK, Sound, Placed, Asking
<1>2. req' = [req EXCEPT ![r] = q]
  BY <1>1 DEF Join
<1>3. /\ lead \subseteq Requests /\ next \in {"read", "wait"}
      /\ next = "wait" => \A l \in lead : req[l].leader = {l} /\ req[l].key = old.key
  BY DEF Leads
<1> HIDE DEF lead, next
<1>4. q \in Thread /\ q.pc = next /\ q.leader = lead /\ q.why = old.why
      /\ q.obs = old.obs /\ q.seen = old.seen /\ q.found = old.found
      /\ q.result = old.result /\ q.key = old.key /\ q.record = old.record
      /\ q.status = old.status /\ q.admitted = old.admitted
  BY <1>1, <1>3 DEF Thread
<1> HIDE DEF q
<1>5. req'[r] = q /\ req' = [req EXCEPT ![r] = req'[r]]
  BY <1>1, <1>2, Replaced
<1>6. /\ epoch' = epoch /\ planning' = planning /\ backend' = backend /\ observed' = observed
      /\ sequence' = sequence
  BY <1>1 DEF LocalOnly, database, authority, environment
<1>7. Moved(r)
  BY <1>1, <1>3, <1>4, <1>5 DEF Moved
<1>8. Placed(r)'
  BY <1>1, <1>3, <1>4, <1>5 DEF Sound, Placed, Asking
<1>9. Saw(r)'
  BY <1>1, <1>3, <1>4, <1>5, <1>6 DEF Sound, Saw, Asking
<1>10. Recorded(r)'
  BY <1>1, <1>4, <1>5, <1>6 DEF Sound, Recorded
<1>11. Confirming(r)' /\ Vouched(r)'
  BY <1>1, <1>3, <1>4, <1>5 DEF Confirming, Unconfirmed, Vouched, Vouching, Asking
<1>12. ~Observing(r)'
  BY <1>3, <1>4, <1>5 DEF Observing
<1> QED
  BY <1>1, <1>7, <1>8, <1>9, <1>10, <1>11, <1>12, LocalStep DEF Sound

LEMMA RecallStep ==
    ASSUME Inductive, NEW r \in Requests, Recall(r)
    PROVE  Inductive'
<1> DEFINE old == req[r]
           held == IF revoked THEN {} ELSE planning
           record == {[epoch |-> p.epoch, identity |-> p.identity,
                       generation |-> generation] : p \in held}
           key == {Key(r, p) : p \in record}
           q == [old EXCEPT !.record = record, !.key = key]
<1>1. /\ up /\ old.pc = "recall" /\ LocalOnly /\ TypeOK /\ old \in Thread /\ Sound(r)
      /\ old.status # "HIT" /\ ~old.admitted /\ old.leader = {}
      /\ Kind[r] = "post" => old.why = "lookup"
  BY KindAssumption DEF Recall, At, Inductive, TypeOK, Sound, Placed, Asking
<1>2. \/ Kind[r] = "get" /\ req' = [req EXCEPT ![r] = [q EXCEPT !.pc = "end"]]
      \/ Kind[r] # "get" /\ req' = [req EXCEPT ![r] = Uncached(q)]
      \/ Kind[r] # "get" /\ req' = [req EXCEPT ![r] = [q EXCEPT !.pc = "read"]]
      \/ Kind[r] # "get" /\ req' = [req EXCEPT ![r] = [q EXCEPT !.pc = "join"]]
  BY DEF Recall
<1>3. /\ record \subseteq Record
      /\ \A p \in record : /\ p.epoch = epoch /\ \A x \in Paths : p.identity[x] <= backend
                           /\ planning = {[epoch |-> epoch, identity |-> p.identity]}
      /\ \A p, o \in record : p = o
  <2>1. held \subseteq planning
    OBVIOUS
  <2>2. ASSUME NEW p \in held
        PROVE  /\ p \in [epoch : Nat, identity : Identity]
               /\ planning = {p} /\ p.epoch = epoch
               /\ \A x \in Paths : p.identity[x] <= backend
    BY <2>1, <2>2 DEF Inductive, PlanningHeld
  <2>3. \A p \in held : p = [epoch |-> epoch, identity |-> p.identity]
    BY <2>2
  <2>4. generation \in Nat
    BY <1>1 DEF TypeOK
  <2>5. record \subseteq Record
    BY <2>2, <2>4 DEF Record
  <2>6. ASSUME NEW p \in record
        PROVE  /\ p.epoch = epoch /\ \A x \in Paths : p.identity[x] <= backend
               /\ planning = {[epoch |-> epoch, identity |-> p.identity]}
    <3>1. PICK o \in held : p = [epoch |-> o.epoch, identity |-> o.identity,
                                 generation |-> generation]
      BY <2>6
    <3>2. p.epoch = o.epoch /\ p.identity = o.identity
      BY <3>1
    <3> QED
      BY <2>2, <2>3, <3>2
  <2>7. \A p, o \in record : p = o
    BY <2>1 DEF Inductive, PlanningHeld
  <2> QED
    BY <2>5, <2>6, <2>7
<1>4. /\ key \subseteq Payloads \X Identity \X Nat
      /\ \A k, j \in key : k = j /\ k[1] = Payload[r]
      /\ \A p \in record : key = {<<Payload[r], p.identity, p.epoch>>}
  BY <1>3 DEF Record, Key, Payloads
<1> HIDE DEF record, key
<1>5. /\ q \in Thread /\ q.record = record /\ q.key = key /\ q.pc = old.pc /\ q.why = old.why
      /\ q.obs = old.obs /\ q.seen = old.seen /\ q.found = old.found
      /\ q.result = old.result /\ q.leader = {}
      /\ q.status = old.status /\ q.admitted = old.admitted
  BY <1>1, <1>3, <1>4 DEF Thread
<1> HIDE DEF q
<1> DEFINE new == req'[r]
<1>6. /\ new \in Thread /\ req' = [req EXCEPT ![r] = req'[r]]
      /\ new.obs = old.obs /\ new.seen = old.seen /\ new.found = old.found
      /\ new.result = old.result /\ new.why = old.why /\ new.leader = {}
      /\ new.status = old.status /\ new.admitted = old.admitted
      /\ new.key = key /\ new.record \subseteq record
      /\ \/ Kind[r] = "get" /\ new.pc = "end"
         \/ Kind[r] # "get" /\ new.pc \in {"generate", "read", "join"}
  <2>1. CASE Kind[r] = "get" /\ req' = [req EXCEPT ![r] = [q EXCEPT !.pc = "end"]]
    <3>1. new = [q EXCEPT !.pc = "end"] /\ req' = [req EXCEPT ![r] = req'[r]]
      BY <1>1, <2>1, Replaced
    <3> QED
      BY <1>5, <2>1, <3>1 DEF Thread
  <2>2. CASE Kind[r] # "get" /\ req' = [req EXCEPT ![r] = Uncached(q)]
    <3>1. new = Uncached(q) /\ req' = [req EXCEPT ![r] = req'[r]]
      BY <1>1, <2>2, Replaced
    <3> QED
      BY <1>5, <2>2, <3>1, UncachedIs DEF Kept
  <2>3. CASE Kind[r] # "get" /\ req' = [req EXCEPT ![r] = [q EXCEPT !.pc = "read"]]
    <3>1. new = [q EXCEPT !.pc = "read"] /\ req' = [req EXCEPT ![r] = req'[r]]
      BY <1>1, <2>3, Replaced
    <3> QED
      BY <1>5, <2>3, <3>1 DEF Thread
  <2>4. CASE Kind[r] # "get" /\ req' = [req EXCEPT ![r] = [q EXCEPT !.pc = "join"]]
    <3>1. new = [q EXCEPT !.pc = "join"] /\ req' = [req EXCEPT ![r] = req'[r]]
      BY <1>1, <2>4, Replaced
    <3> QED
      BY <1>5, <2>4, <3>1 DEF Thread
  <2> QED
    BY <1>2, <2>1, <2>2, <2>3, <2>4
<1>7. /\ epoch' = epoch /\ planning' = planning /\ backend' = backend /\ observed' = observed
      /\ sequence' = sequence /\ epoch \in Nat
  BY <1>1 DEF LocalOnly, database, authority, environment, TypeOK
<1>8. Moved(r)
  BY <1>1, <1>6 DEF Moved
<1>9. Placed(r)'
  BY <1>1, <1>6, KindAssumption DEF Placed, Asking
<1>10. Saw(r)'
  BY <1>1, <1>6, <1>7 DEF Sound, Saw, Asking
<1>11. Recorded(r)'
  <2>1. \A p \in new.record : p.epoch <= epoch
    BY <1>3, <1>6, <1>7
  <2> QED
    BY <1>3, <1>4, <1>6, <1>7, <2>1 DEF Recorded
<1>12. Confirming(r)' /\ Vouched(r)'
  BY <1>1, <1>6 DEF Confirming, Unconfirmed, Vouched, Vouching, Asking
<1>13. Observing(r)' => Observing(r)
  BY <1>1, <1>6 DEF Observing
<1> QED
  BY <1>1, <1>8, <1>9, <1>10, <1>11, <1>12, <1>13, LocalStep DEF Sound

-----------------------------------------------------------------------------
(* The steps that also change the server or the database. *)

\* The threads' part of the invariant, whatever else the step of r does.
LEMMA ThreadsHold ==
    ASSUME Inductive, TypeOK', Forward, NEW r \in Requests, Moved(r), Sound(r)'
    PROVE  (\A s \in Requests : Sound(s)') /\ Follows'
<1>1. \A s \in Requests : s # r => req'[s] = req[s]
  BY DEF Moved, Inductive, TypeOK
<1>2. \A s \in Requests : Sound(s)'
  BY <1>1, SoundStays DEF Inductive
<1> QED
  BY <1>2, FollowsStays DEF Inductive

LEMMA BeginStep ==
    ASSUME Inductive, NEW r \in Requests, Begin(r)
    PROVE  Inductive'
<1> DEFINE old == req[r]
           begun == sequence + 1
           next == IF Kind[r] = "get" THEN "fetch" ELSE "prior"
           because == IF old.pc = "idle" THEN "lookup" ELSE old.pc
           q == [old EXCEPT !.pc = next, !.why = because,
                            !.obs = begun, !.prior = {}, !.denied = FALSE, !.tried = {},
                            !.seen = Nothing, !.fault = "none", !.found = {}, !.result = "none"]
<1>1. /\ up /\ old.pc \in {"idle", "confirm", "share"} /\ TypeOK /\ old \in Thread /\ Sound(r)
      /\ old.status # "HIT" /\ ~old.admitted
      /\ guard' = "1" /\ sequence' = sequence + 1
      /\ UNCHANGED <<database, revoked, generation, observed, environment>>
      /\ sequence \in Nat
  BY DEF Begin, Inductive, TypeOK, Sound, Placed, Asking
<1>2. req' = [req EXCEPT ![r] = q]
  BY <1>1 DEF Begin
<1>3. /\ next \in {"fetch", "prior"}
      /\ because = "lookup" => old.pc = "idle"
      /\ because \in {"lookup", "confirm", "share"} /\ (because # "lookup" => because = old.pc)
  BY <1>1
<1> HIDE DEF next, because
<1>31. begun \in Nat /\ Nothing \in [Paths -> SUBSET Backends] /\ begun <= sequence'
  BY <1>1 DEF Nothing
<1> HIDE DEF begun
<1>4. /\ q \in Thread /\ q.pc = next /\ q.why = because /\ q.found = {} /\ q.result = "none"
      /\ q.seen = Nothing /\ q.obs = begun /\ q.key = old.key /\ q.record = old.record /\ q.leader = old.leader
      /\ q.reply = old.reply /\ q.status = old.status /\ q.admitted = old.admitted
  BY <1>1, <1>3, <1>31, ZenonT(60) DEF Thread
<1> HIDE DEF q
<1>5. req'[r] = q /\ req' = [req EXCEPT ![r] = req'[r]]
  BY <1>1, <1>2, Replaced
<1>6. TypeOK'
  <2>1. req' \in [Requests -> Thread]
    BY <1>1, <1>2, <1>4 DEF TypeOK
  <2>2. observed' \in 0 .. sequence' /\ sequence' \in Nat
    BY <1>1 DEF TypeOK
  <2> QED
    BY <1>1, <2>1, <2>2 DEF TypeOK, database, environment, Rows, Thread, Record
<1>7. epoch' = epoch /\ planning' = planning /\ entries' = entries /\ backend' = backend
      /\ observed' = observed /\ up' = up /\ owed' = owed /\ revoked' = revoked
  BY <1>1 DEF database, environment
<1>8. Forward
  BY <1>1, <1>7, CountAssumption DEF Forward, TypeOK, Backends
<1>9. Moved(r)
  BY <1>1, <1>3, <1>4, <1>5 DEF Moved
<1>10. Placed(r)'
  BY <1>1, <1>3, <1>4, <1>5, KindAssumption DEF Sound, Placed, Asking
<1>11. Saw(r)'
  BY <1>1, <1>31, <1>4, <1>5, <1>7 DEF Saw, Asking, Nothing, Paths
<1>12. Recorded(r)'
  BY <1>1, <1>4, <1>5, <1>7 DEF Sound, Recorded
<1>13. Confirming(r)'
  BY <1>1, <1>3, <1>4, <1>5, <1>7 DEF Sound, Confirming, Unconfirmed, Asking, Nothing
<1>14. Vouched(r)'
  BY <1>1, <1>3, <1>4, <1>5 DEF Sound, Vouched, Vouching, Honest, Asking
<1>15. PlanningHeld' /\ RowsHonest' /\ RowsCurrent' /\ DownIsQuiet'
  BY <1>1, <1>7 DEF Inductive, PlanningHeld, RowsHonest, RowsCurrent, DownIsQuiet
<1>16. GuardHeld'
  BY <1>1, <1>7 DEF Inductive, GuardHeld
<1> QED
  BY <1>6, <1>8, <1>9, <1>10, <1>11, <1>12, <1>13, <1>14, <1>15, <1>16, ThreadsHold
     DEF Inductive, Sound

\* Every field of the database is cleared in one transaction.
LEMMA ClearedHolds ==
    ASSUME Inductive, epoch' = epoch + 1, entries' = {}, planning' = {}
    PROVE  PlanningHeld' /\ RowsHonest' /\ RowsCurrent'
BY DEF PlanningHeld, RowsHonest, RowsCurrent

LEMMA ClearedTypes ==
    ASSUME TypeOK, epoch' = epoch + 1, entries' = {}, planning' = {}
    PROVE  /\ epoch' \in Nat /\ entries' \subseteq Rows /\ Cardinality(planning') <= 1
           /\ epoch' > epoch
<1>1. Cardinality(planning') = 0
  BY FS_EmptySet
<1> QED
  BY <1>1 DEF TypeOK

\* An authority that is denied, if at all, by an observation no older than its own.
LEMMA DeniedTypes ==
    ASSUME TypeOK, NEW o \in Nat, o <= sequence, sequence' = sequence,
           \/ UNCHANGED authority
           \/ /\ observed <= o /\ observed' = o
              /\ revoked' = TRUE /\ generation' = generation + 1
    PROVE  /\ observed' >= observed /\ observed' \in 0 .. sequence' /\ revoked' \in BOOLEAN
           /\ generation' \in Nat
           /\ (revoked' = TRUE \/ revoked' = revoked)
<1>1. sequence \in Nat /\ observed \in Nat /\ observed <= sequence /\ generation \in Nat
  BY DEF TypeOK
<1>2. CASE UNCHANGED authority
  <2>1. revoked' = revoked /\ observed' = observed /\ generation' = generation
    BY <1>2 DEF authority
  <2> QED
    BY <1>1, <2>1 DEF TypeOK
<1>3. CASE ~ UNCHANGED authority
  <2>1. observed' >= observed /\ observed' \in 0 .. sequence' /\ generation' \in Nat
    BY <1>1, <1>3
  <2>2. revoked' = TRUE
    BY <1>3
  <2> QED
    BY <2>1, <2>2
<1> QED
  BY <1>2, <1>3

LEMMA DenyStep ==
    ASSUME Inductive, NEW r \in Requests, Deny(r)
    PROVE  Inductive'
<1> DEFINE old == req[r]
           bare == [old EXCEPT !.denied = TRUE]
           q == req'[r]
<1>1. /\ up /\ old.pc = "deny" /\ TypeOK /\ old \in Thread
      /\ UNCHANGED <<guard, database, environment>> /\ sequence' = sequence
      /\ old.obs \in Nat /\ observed \in Nat
  BY DEF Deny, At, Inductive, TypeOK, authority, Thread
<1>2. /\ bare \in Thread /\ Carried(bare) = Carried(old) /\ bare.why = old.why
      /\ bare.result = old.result /\ bare.seen = old.seen
  BY <1>1 DEF Thread, Carried
<1>3. \/ /\ old.obs < observed /\ req' = [req EXCEPT ![r] = Invalid(old)]
         /\ UNCHANGED authority
      \/ /\ observed <= old.obs /\ req' = [req EXCEPT ![r] = Onward(bare)]
         /\ observed' = old.obs /\ revoked' = TRUE /\ generation' = generation + 1
  BY <1>1 DEF Deny
<1> HIDE DEF bare
<1>4. /\ q \in Thread /\ req' = [req EXCEPT ![r] = q] /\ q.pc \in Asking \cup {"end"}
      /\ q.why = old.why /\ Carried(q) = Carried(old)
      /\ q.result # "fresh" \/ q.result = old.result
      /\ q.seen = old.seen
  <2>1. \/ q = Invalid(old) /\ req' = [req EXCEPT ![r] = Invalid(old)]
        \/ q = Onward(bare) /\ req' = [req EXCEPT ![r] = Onward(bare)]
    BY <1>1, <1>3, Replaced
  <2> QED
    BY <1>1, <1>2, <2>1, InvalidIs, OnwardIs DEF Asking
<1>5. /\ observed' >= observed /\ observed' \in 0 .. sequence' /\ revoked' \in BOOLEAN
      /\ generation' \in Nat
      /\ (revoked' = TRUE \/ revoked' = revoked)
  <2>1. old.obs <= sequence
    BY DEF Inductive, Sound, Saw
  <2> QED
    BY <1>1, <1>3, <2>1, DeniedTypes
<1>6. TypeOK'
  <2>1. req' \in [Requests -> Thread]
    BY <1>1, <1>4 DEF TypeOK
  <2> QED
    BY <1>1, <1>5, <2>1 DEF TypeOK, database, environment, Rows, Thread, Record
<1>7. /\ epoch' = epoch /\ planning' = planning /\ entries' = entries /\ backend' = backend
      /\ up' = up /\ owed' = owed /\ guard' = guard
  BY <1>1 DEF database, environment
<1>8. Forward
  BY <1>1, <1>5, <1>7, CountAssumption DEF Forward, TypeOK, Backends
<1>9. Moved(r) /\ Sound(r)'
  BY <1>1, <1>4, <1>6, <1>8, StillAsking DEF Asking
<1>10. PlanningHeld' /\ RowsHonest' /\ RowsCurrent' /\ DownIsQuiet'
  BY <1>1, <1>7 DEF Inductive, PlanningHeld, RowsHonest, RowsCurrent, DownIsQuiet
<1>11. GuardHeld'
  <2>1. Observing(r)
    BY <1>1 DEF Observing
  <2> QED
    BY <1>1, <1>5, <1>7, <2>1 DEF Inductive, GuardHeld
<1> QED
  BY <1>6, <1>8, <1>9, <1>10, <1>11, ThreadsHold DEF Inductive

LEMMA RevokeStep ==
    ASSUME Inductive, NEW r \in Requests, Revoke(r)
    PROVE  Inductive'
<1> DEFINE old == req[r]
           bare == [old EXCEPT !.prior = {}, !.denied = FALSE]
           q == req'[r]
<1>1. /\ up /\ old.pc = "revoke" /\ TypeOK /\ old \in Thread
      /\ UNCHANGED <<guard, environment>> /\ sequence' = sequence
      /\ old.obs \in Nat /\ observed \in Nat
  BY DEF Revoke, At, Inductive, TypeOK, authority, Thread
<1>2. /\ bare \in Thread /\ Carried(bare) = Carried(old) /\ bare.why = old.why
      /\ bare.result = old.result /\ bare.seen = old.seen
  BY <1>1 DEF Thread, Carried
<1>3. /\ \/ req' = [req EXCEPT ![r] = Invalid(old)]
         \/ req' = [req EXCEPT ![r] = Onward(bare)]
      /\ \/ UNCHANGED authority
         \/ /\ observed <= old.obs /\ observed' = old.obs
            /\ revoked' = TRUE /\ generation' = generation + 1
      /\ \/ UNCHANGED database
         \/ epoch' = epoch + 1 /\ entries' = {} /\ planning' = {}
  <2>1. CASE old.obs < observed
    BY <2>1 DEF Revoke
  <2>2. CASE ~(old.obs < observed)
    BY <1>1, <2>2 DEF Revoke
  <2> QED
    BY <2>1, <2>2
<1> HIDE DEF bare
<1>4. /\ q \in Thread /\ req' = [req EXCEPT ![r] = q] /\ q.pc \in Asking \cup {"end"}
      /\ q.why = old.why /\ Carried(q) = Carried(old)
      /\ q.result # "fresh" \/ q.result = old.result
      /\ q.seen = old.seen
  <2>1. \/ q = Invalid(old) /\ req' = [req EXCEPT ![r] = Invalid(old)]
        \/ q = Onward(bare) /\ req' = [req EXCEPT ![r] = Onward(bare)]
    BY <1>1, <1>3, Replaced
  <2> QED
    BY <1>1, <1>2, <2>1, InvalidIs, OnwardIs DEF Asking
<1>5. /\ observed' >= observed /\ observed' \in 0 .. sequence' /\ revoked' \in BOOLEAN
      /\ generation' \in Nat
      /\ (revoked' = TRUE \/ revoked' = revoked)
  <2>1. old.obs <= sequence
    BY DEF Inductive, Sound, Saw
  <2> QED
    BY <1>1, <1>3, <2>1, DeniedTypes
<1>6. backend' = backend /\ up' = up /\ owed' = owed /\ guard' = guard
  BY <1>1 DEF environment
<1>7. /\ epoch' \in Nat /\ entries' \subseteq Rows /\ Cardinality(planning') <= 1
      /\ PlanningHeld' /\ RowsHonest' /\ RowsCurrent'
      /\ epoch' >= epoch
      /\ epoch' = epoch => planning' = planning
  <2>1. CASE UNCHANGED database
    BY <1>1, <1>6, <2>1 DEF database, TypeOK, Inductive, PlanningHeld, RowsHonest, RowsCurrent
  <2>2. CASE epoch' = epoch + 1 /\ entries' = {} /\ planning' = {}
    BY <1>1, <2>2, ClearedHolds, ClearedTypes DEF TypeOK
  <2> QED
    BY <1>3, <2>1, <2>2
<1>8. TypeOK'
  <2>1. req' \in [Requests -> Thread]
    BY <1>1, <1>4 DEF TypeOK
  <2>2. \A p \in planning' : p.epoch \in Nat /\ p.identity \in Identity
    BY <1>7 DEF PlanningHeld
  <2> QED
    BY <1>1, <1>5, <1>7, <2>1, <2>2 DEF TypeOK, environment, Rows, Thread, Record
<1>9. Forward
  BY <1>1, <1>5, <1>6, <1>7, CountAssumption DEF Forward, TypeOK, Backends
<1>10. Moved(r) /\ Sound(r)'
  BY <1>1, <1>4, <1>8, <1>9, StillAsking DEF Asking
<1>11. DownIsQuiet'
  BY <1>1, <1>6 DEF DownIsQuiet
<1>12. GuardHeld'
  <2>1. Observing(r)
    BY <1>1 DEF Observing
  <2> QED
    BY <1>1, <1>5, <1>6, <2>1 DEF Inductive, GuardHeld
<1> QED
  BY <1>7, <1>8, <1>9, <1>10, <1>11, <1>12, ThreadsHold DEF Inductive

\* What Resume leaves of a thread.
LEMMA ResumeIs ==
    ASSUME NEW r \in Requests, NEW q \in Thread,
           Kind[r] = "post" => q.why # "replay"
    PROVE  /\ Resume(q, r) \in Thread
           /\ LET n == Resume(q, r)
              IN  /\ n.obs = q.obs /\ n.seen = q.seen /\ n.found = q.found
                  /\ n.result = q.result /\ n.why = q.why /\ n.leader = q.leader
                  /\ n.admitted = q.admitted /\ n.status \in {q.status, "other"}
                  /\ \/ n.record = {} /\ n.reply = {} /\ n.pc = "generate"
                     \/ n.record = q.record /\ n.reply = q.reply
                  /\ n.key = q.key
                  /\ Kind[r] = "get" => n.pc \in {"admit", "finish"}
                  /\ Kind[r] = "post" =>
                        \/ q.why = "lookup" /\ n.pc \in {"generate", "recall"}
                        \/ n.pc = "finish"
                        \/ /\ \E p \in q.record : q.found = {p.identity}
                           /\ \/ q.why = "confirm" /\ n.pc = "store"
                              \/ q.why = "share" /\ n.pc = "admit"
<1>1. CASE Kind[r] = "get"
  <2>1. \/ Resume(q, r) = [q EXCEPT !.pc = "admit"]
        \/ Resume(q, r) = [q EXCEPT !.pc = "finish", !.status = "other"]
    BY <1>1 DEF Resume
  <2> QED
    BY <1>1, <2>1, ZenonT(60) DEF Thread
<1>2. CASE Kind[r] = "post" /\ q.why = "lookup"
  <2>1. \/ Resume(q, r) = Uncached(q)
        \/ Resume(q, r) = [q EXCEPT !.pc = "recall"]
    BY <1>2 DEF Resume
  <2> QED
    BY <1>2, <2>1, ZenonT(60) DEF Thread, Uncached
<1>3. CASE Kind[r] = "post" /\ q.why = "confirm"
  <2>1. \/ /\ Resume(q, r) = [q EXCEPT !.pc = "store"]
           /\ \E p \in q.record : q.found = {p.identity}
        \/ Resume(q, r) = [q EXCEPT !.pc = "finish"]
    BY <1>3 DEF Resume
  <2> QED
    BY <1>3, <2>1 DEF Thread
<1>4. CASE Kind[r] = "post" /\ q.why = "share"
  <2>1. \/ /\ Resume(q, r) = [q EXCEPT !.pc = "admit"]
           /\ \E p \in q.record : q.found = {p.identity}
        \/ Resume(q, r) = [q EXCEPT !.pc = "finish", !.status = "other"]
    BY <1>4 DEF Resume
  <2> QED
    BY <1>4, <2>1, ZenonT(60) DEF Thread
<1> QED
  BY <1>1, <1>2, <1>3, <1>4, KindAssumption DEF Thread

LEMMA EndStep ==
    ASSUME Inductive, NEW r \in Requests, End(r)
    PROVE  Inductive'
<1> DEFINE old == req[r]
           q == Resume(old, r)
<1>1. /\ up /\ old.pc = "end" /\ TypeOK /\ old \in Thread /\ Sound(r)
      /\ UNCHANGED <<database, authority, environment>>
      /\ req' = [req EXCEPT ![r] = q]
      /\ old.status # "HIT" /\ ~old.admitted
  BY DEF End, At, Inductive, TypeOK, Sound, Placed, Asking
<1>2. /\ guard' \in {"0", "1"}
      /\ (revoked \/ \E s \in Requests \ {r} : Observing(s)) => guard' = guard
  BY <1>1 DEF End, TypeOK
<1>3. Kind[r] = "post" => old.why # "replay"
  BY <1>1 DEF Sound, Placed
<1>4. /\ q \in Thread
      /\ q.obs = old.obs /\ q.seen = old.seen /\ q.found = old.found
      /\ q.result = old.result /\ q.why = old.why /\ q.leader = old.leader
      /\ q.admitted = old.admitted /\ q.status \in {old.status, "other"}
      /\ \/ q.record = {} /\ q.reply = {} /\ q.pc = "generate"
         \/ q.record = old.record /\ q.reply = old.reply
      /\ q.key = old.key
      /\ Kind[r] = "get" => q.pc \in {"admit", "finish"}
      /\ Kind[r] = "post" =>
            \/ old.why = "lookup" /\ q.pc \in {"generate", "recall"}
            \/ q.pc = "finish"
            \/ /\ \E p \in old.record : old.found = {p.identity}
               /\ \/ old.why = "confirm" /\ q.pc = "store"
                  \/ old.why = "share" /\ q.pc = "admit"
  BY <1>1, <1>3, ResumeIs
<1> HIDE DEF q
<1>5. /\ req'[r] = q /\ req' = [req EXCEPT ![r] = req'[r]]
      /\ \A s \in Requests : s # r => req'[s] = req[s]
  BY <1>1, Replaced
<1>6. /\ epoch' = epoch /\ planning' = planning /\ entries' = entries /\ backend' = backend
      /\ observed' = observed /\ sequence' = sequence /\ up' = up /\ owed' = owed
      /\ revoked' = revoked
  BY <1>1 DEF database, authority, environment
<1>7. TypeOK'
  <2>1. req' \in [Requests -> Thread]
    BY <1>1, <1>4 DEF TypeOK
  <2> QED
    BY <1>1, <1>2, <2>1 DEF TypeOK, database, authority, environment, Rows, Thread, Record
<1>8. Forward
  BY <1>1, <1>6, CountAssumption DEF Forward, TypeOK, Backends
<1>9. Moved(r)
  BY <1>1, <1>4, <1>5, KindAssumption DEF Moved
<1>10. Placed(r)'
  BY <1>1, <1>4, <1>5, KindAssumption DEF Sound, Placed, Asking
<1>11. Saw(r)'
  <2>1. q.pc \notin Asking
    BY <1>4, KindAssumption DEF Asking
  <2> QED
    BY <1>1, <1>4, <1>5, <1>6, <2>1 DEF Sound, Saw
<1>12. Recorded(r)'
  BY <1>1, <1>4, <1>5, <1>6 DEF Sound, Recorded
<1>13. Confirming(r)'
  BY <1>1, <1>4, <1>5 DEF Confirming, Unconfirmed, Asking
<1>14. Vouched(r)'
  <2>1. SUFFICES ASSUME Kind[r] = "post", Vouching(q)
                 PROVE  Honest(q)
    BY <1>5 DEF Vouched
  <2>2. q.pc \in {"store", "admit"}
    BY <1>1, <1>4, <2>1 DEF Vouching, Asking
  <2>3. CASE q.pc = "admit"
    BY <1>1, <1>4, <2>1, <2>3 DEF Sound, Vouched, Vouching, Honest
  <2>4. CASE q.pc = "store"
    <3>1. PICK p \in old.record : old.found = {p.identity}
      BY <1>4, <2>1, <2>4
    <3>2. old.why = "confirm" /\ q.reply = old.reply
      BY <1>4, <2>1, <2>4
    <3>3. ASSUME NEW a \in old.reply
          PROVE  a.whole /\ a.to = Payload[r] /\ p.identity = Uniform(a.by)
      <4>1. /\ a.whole /\ a.to = Payload[r] /\ \A x \in Paths : p.identity[x] <= a.by
            /\ \A x \in Paths : \A v \in old.seen[x] : a.by <= v
        BY <1>1, <2>1, <3>1, <3>2, <3>3 DEF Sound, Confirming, Unconfirmed
      <4>2. \A x \in Paths : old.seen[x] = {p.identity[x]}
        BY <1>1, <3>1 DEF Sound, Saw
      <4>3. p.identity \in [Paths -> Nat] /\ a.by \in Nat
        BY <1>1, <3>1, <3>3, CountAssumption
           DEF Thread, Record, Identity, Backends, Answer
      <4>4. ASSUME NEW x \in Paths
            PROVE  p.identity[x] = a.by
        <5>1. p.identity[x] \in old.seen[x]
          BY <4>2
        <5>2. p.identity[x] <= a.by /\ a.by <= p.identity[x]
          BY <4>1, <5>1
        <5>3. p.identity[x] \in Nat /\ a.by \in Nat
          BY <4>3
        <5> QED
          BY <5>2, <5>3
      <4> QED
        BY <4>1, <4>3, <4>4 DEF Uniform
    <3>4. /\ old.key # {}
          /\ \A k \in old.key : k[1] = Payload[r] /\ k[2] = p.identity
      <4>1. old.key = {<<Payload[r], p.identity, p.epoch>>}
        BY <1>1, <3>1 DEF Sound, Recorded
      <4> HIDE DEF old
      <4> QED
        BY <4>1
    <3> QED
      BY <1>4, <3>2, <3>3, <3>4 DEF Honest
  <2> QED
    BY <2>2, <2>3, <2>4
<1>15. PlanningHeld' /\ RowsHonest' /\ RowsCurrent' /\ DownIsQuiet'
  BY <1>1, <1>6 DEF Inductive, PlanningHeld, RowsHonest, RowsCurrent, DownIsQuiet
<1>16. GuardHeld'
  <2>1. Observing(r)' => Kind[r] = "get" /\ FALSE
    BY <1>4, <1>5, KindAssumption DEF Observing
  <2>2. \A s \in Requests : Observing(s)' => Observing(s) /\ s # r
    BY <1>5, <2>1 DEF Observing
  <2>3. Observing(r)
    BY <1>1 DEF Observing
  <2> QED
    BY <1>1, <1>2, <1>6, <2>2, <2>3 DEF Inductive, GuardHeld
<1> QED
  BY <1>7, <1>8, <1>9, <1>10, <1>11, <1>12, <1>13, <1>14, <1>15, <1>16, ThreadsHold
     DEF Inductive, Sound

\* The one step that adds a row: the answer is vouched for, and the epoch that
\* the transaction checks makes its authority the one in force.
LEMMA WriteStep ==
    ASSUME Inductive, NEW r \in Requests, Write(r)
    PROVE  Inductive'
<1> DEFINE old == req[r]
           done == [old EXCEPT !.pc = "finish", !.admitted = TRUE]
           left == [old EXCEPT !.pc = "finish"]
           q == req'[r]
<1>1. /\ up /\ old.pc = "write" /\ TypeOK /\ old \in Thread /\ Sound(r)
      /\ UNCHANGED <<guard, epoch, planning, authority, environment>>
      /\ Kind[r] = "post" /\ Honest(old)
  BY KindAssumption DEF Write, At, Inductive, TypeOK, Sound, Placed, Asking, Vouched, Vouching
<1>2. \/ /\ req' = [req EXCEPT ![r] = done]
         /\ \E p \in old.record : p.epoch = epoch
         /\ entries' = (entries \ Row(old)) \cup NewRows(old)
      \/ req' = [req EXCEPT ![r] = left] /\ entries' = entries
  BY <1>1 DEF Write
<1>3. /\ done \in Thread /\ Kept(done, old) /\ done.pc = "finish" /\ done.record = old.record
      /\ done.reply = old.reply /\ done.status = old.status
      /\ left \in Thread /\ Kept(left, old) /\ left.pc = "finish" /\ left.record = old.record
      /\ left.reply = old.reply /\ left.status = old.status
  BY <1>1 DEF Thread, Kept
<1> HIDE DEF done, left
<1>4. /\ q \in Thread /\ req' = [req EXCEPT ![r] = req'[r]]
      /\ Kept(q, old) /\ q.pc = "finish" /\ q.record = old.record /\ q.reply = old.reply
      /\ \A s \in Requests : s # r => req'[s] = req[s]
  BY <1>1, <1>2, <1>3, Replaced
<1>5. /\ epoch' = epoch /\ planning' = planning /\ backend' = backend
      /\ observed' = observed /\ sequence' = sequence /\ up' = up /\ owed' = owed
      /\ revoked' = revoked /\ guard' = guard
  BY <1>1 DEF authority, environment
<1>6. ASSUME NEW e \in entries', e \notin entries
      PROVE  /\ e \in Rows /\ e.body.whole /\ e.body.to = e.payload
             /\ e.identity = Uniform(e.body.by)
             /\ planning = {[epoch |-> e.epoch, identity |-> e.identity]} /\ e.epoch = epoch
  <2>1. PICK p \in old.record : p.epoch = epoch
    BY <1>2, <1>6
  <2>2. PICK k \in old.key, a \in old.reply :
           e = [payload |-> k[1], identity |-> k[2], epoch |-> k[3], body |-> a]
    BY <1>2, <1>6 DEF NewRows
  <2>3. k = <<Payload[r], p.identity, p.epoch>>
        /\ planning = {[epoch |-> epoch, identity |-> p.identity]}
    BY <1>1, <2>1, <2>2 DEF Sound, Recorded
  <2>4. a.whole /\ k[1] = a.to /\ k[2] = Uniform(a.by)
    BY <1>1, <2>2 DEF Honest
  <2>5. a \in Answer /\ p \in Record
    BY <1>1, <2>1, <2>2 DEF Thread
  <2>6. e.payload = Payload[r] /\ e.identity = p.identity /\ e.epoch = epoch /\ e.body = a
    BY <2>1, <2>2, <2>3
  <2>7. e \in Rows
    BY <2>2, <2>3, <2>5 DEF Rows, Record, Payloads
  <2> QED
    BY <2>3, <2>4, <2>6, <2>7
<1>7. entries' \subseteq Rows /\ RowsHonest' /\ RowsCurrent'
  BY <1>1, <1>5, <1>6 DEF Inductive, TypeOK, RowsHonest, RowsCurrent, Uniform
<1>8. TypeOK'
  <2>1. req' \in [Requests -> Thread]
    BY <1>1, <1>4 DEF TypeOK
  <2> QED
    BY <1>1, <1>7, <2>1 DEF TypeOK, authority, environment, Rows, Thread, Record
<1>9. Forward
  BY <1>1, <1>5, CountAssumption DEF Forward, TypeOK, Backends
<1>10. Moved(r)
  BY <1>4 DEF Moved, Kept
<1>11. Placed(r)'
  BY <1>1, <1>4 DEF Sound, Placed, Asking, Kept
<1>12. Saw(r)'
  BY <1>1, <1>4, <1>5 DEF Sound, Saw, Asking, Kept
<1>13. Recorded(r)'
  BY <1>1, <1>4, <1>5 DEF Sound, Recorded, Kept
<1>14. Confirming(r)' /\ Vouched(r)'
  BY <1>1, <1>4 DEF Confirming, Unconfirmed, Vouched, Honest, Asking, Kept
<1>15. PlanningHeld' /\ DownIsQuiet'
  BY <1>1, <1>5 DEF Inductive, PlanningHeld, DownIsQuiet
<1>16. GuardHeld'
  <2>1. \A s \in Requests : Observing(s)' => Observing(s)
    BY <1>4 DEF Observing
  <2> QED
    BY <1>1, <1>5, <2>1 DEF Inductive, GuardHeld
<1> QED
  BY <1>7, <1>8, <1>9, <1>10, <1>11, <1>12, <1>13, <1>14, <1>15, <1>16, ThreadsHold
     DEF Inductive, Sound

\* What Activate leaves in the database: the authority that was observed, under
\* the epoch in force, and no row of another one.
LEMMA ActivateHolds ==
    ASSUME TypeOK, PlanningHeld, RowsHonest, RowsCurrent,
           NEW id \in Identity, \A x \in Paths : id[x] <= backend,
           Activate(id), backend' = backend
    PROVE  /\ epoch' \in Nat /\ epoch' >= epoch /\ entries' \subseteq Rows
           /\ Cardinality(planning') <= 1
           /\ PlanningHeld' /\ RowsHonest' /\ RowsCurrent'
           /\ epoch' = epoch /\ planning # {} => planning' = planning
<1> DEFINE same == ~revoked /\ \A p \in planning : p.identity = id /\ p.epoch = epoch
           held == [epoch |-> epoch', identity |-> id]
<1>1. /\ epoch' = IF same THEN epoch ELSE epoch + 1
      /\ entries' = IF same THEN entries ELSE {}
      /\ planning' = {held}
  BY DEF Activate
<1>2. epoch \in Nat /\ entries \subseteq Rows
  BY DEF TypeOK
<1>3. epoch' \in Nat /\ epoch' >= epoch /\ entries' \subseteq Rows /\ entries' \subseteq entries
  BY <1>1, <1>2
<1>4. Cardinality(planning') <= 1
  <2>1. Cardinality({held}) = 1
    BY FS_Singleton
  <2> HIDE DEF held
  <2> QED
    BY <1>1, <2>1
<1>5. PlanningHeld'
  BY <1>1, <1>3 DEF PlanningHeld
<1>6. RowsHonest'
  BY <1>3 DEF RowsHonest
<1>7. epoch' = epoch /\ planning # {} => planning' = planning
  <2>1. SUFFICES ASSUME epoch' = epoch, planning # {}
                 PROVE  planning' = planning
    OBVIOUS
  <2>2. same
    BY <1>1, <1>2, <2>1
  <2>3. \A p \in planning : p = held
    <3>1. \A p \in planning : p \in [epoch : Nat, identity : Identity]
      BY DEF PlanningHeld
    <3> QED
      BY <2>1, <2>2, <3>1
  <2> QED
    BY <1>1, <2>1, <2>3
<1>8. RowsCurrent'
  <2>1. ASSUME NEW e \in entries'
        PROVE  planning' = {[epoch |-> e.epoch, identity |-> e.identity]} /\ e.epoch = epoch'
    <3>1. same /\ e \in entries /\ epoch' = epoch
      BY <1>1, <2>1
    <3>2. planning = {[epoch |-> e.epoch, identity |-> e.identity]} /\ e.epoch = epoch
      BY <3>1 DEF RowsCurrent
    <3> QED
      BY <1>7, <3>1, <3>2
  <2> QED
    BY <2>1 DEF RowsCurrent
<1> QED
  BY <1>3, <1>4, <1>5, <1>6, <1>7, <1>8

\* A thread that ends its observation with an authority it saw.
LEMMA Concluded ==
    ASSUME Inductive, TypeOK', Forward, NEW r \in Requests, req'[r] \in Thread,
           req' = [req EXCEPT ![r] = req'[r]], req[r].pc = "conclude", NEW id,
           req'[r] = [req[r] EXCEPT !.pc = "end", !.found = id, !.result = "fresh"],
           \A i \in id : \A x \in Paths : req[r].seen[x] = {i[x]},
           req[r].obs <= observed'
    PROVE  Moved(r) /\ Sound(r)'
<1> DEFINE old == req[r]
           q == req'[r]
<1>1. /\ old \in Thread /\ Sound(r)
  BY DEF Inductive, TypeOK
<1>2. /\ q.obs = old.obs /\ q.record = old.record /\ q.key = old.key
      /\ q.leader = old.leader /\ q.reply = old.reply /\ q.admitted = old.admitted
      /\ q.status = old.status /\ q.seen = old.seen /\ q.why = old.why
      /\ q.pc = "end" /\ q.found = id /\ q.result = "fresh"
  BY <1>1 DEF Thread
<1>3. /\ epoch \in Nat /\ epoch' \in Nat /\ backend \in Nat /\ backend' \in Nat
      /\ observed \in Nat /\ observed' \in Nat /\ sequence \in Nat /\ sequence' \in Nat
  BY CountAssumption DEF Inductive, TypeOK, Backends
<1>4. Moved(r)
  BY <1>1, <1>2 DEF Moved
<1>5. Placed(r)'
  BY <1>1, <1>2 DEF Sound, Placed, Asking
<1>6. Saw(r)'
  <2>1. \A x \in Paths : \A v \in old.seen[x] : v \in Nat /\ v <= backend
    BY <1>1, CountAssumption DEF Thread, Backends, Sound, Saw
  <2>2. old.obs \in Nat /\ old.obs <= sequence
    BY <1>1 DEF Thread, Sound, Saw
  <2>3. \A x \in Paths : \A v \in q.seen[x] : v <= backend'
    BY <1>2, <1>3, <2>1 DEF Forward
  <2>4. q.obs <= sequence'
    BY <1>2, <1>3, <2>2 DEF Forward
  <2>5. \A i \in q.found : \A x \in Paths : q.seen[x] = {i[x]}
    BY <1>2
  <2>6. q.obs <= observed' /\ q.pc \notin Asking
    BY <1>2 DEF Asking
  <2> QED
    BY <1>1, <2>3, <2>4, <2>5, <2>6 DEF Saw
<1>7. Recorded(r)'
  BY <1>1, <1>2, RecordStays DEF Sound, Inductive
<1>8. Confirming(r)'
  <2>1. \A a \in old.reply : a.by \in Nat
    BY <1>1, CountAssumption DEF Thread, Answer, Backends
  <2> QED
    BY <1>1, <1>2, <1>3, <2>1 DEF Sound, Confirming, Unconfirmed, Forward, Asking
<1>9. Vouched(r)'
  BY <1>1, <1>2 DEF Sound, Vouched, Vouching, Honest, Asking
<1> QED
  BY <1>4, <1>5, <1>6, <1>7, <1>8, <1>9 DEF Sound

LEMMA ConcludeStep ==
    ASSUME Inductive, NEW r \in Requests, Conclude(r)
    PROVE  Inductive'
<1> DEFINE old == req[r]
           q == req'[r]
           shared == {p.identity : p \in IF revoked THEN {} ELSE planning}
           known == {i \in shared : \A x \in Paths : old.seen[x] = {i[x]}}
           away == [old EXCEPT !.result = "unavailable",
                               !.pc = IF old.why = "replay" THEN "recall" ELSE "end"]
           told(ids) == [old EXCEPT !.pc = "end", !.found = ids, !.result = "fresh"]
           missed == [old EXCEPT !.pc = "end", !.found = known, !.result = "invalid"]
<1>1. /\ up /\ old.pc = "conclude" /\ TypeOK /\ old \in Thread /\ Sound(r)
      /\ UNCHANGED <<guard, up, backend, clears, crashes>>
      /\ generation' = generation /\ sequence' = sequence
      /\ old.found = {} /\ old.obs \in Nat /\ old.obs <= sequence
      /\ observed \in Nat /\ sequence \in Nat /\ observed <= sequence
  <2>1. /\ up /\ old.pc = "conclude" /\ UNCHANGED <<guard, up, backend, clears, crashes>>
    BY DEF Conclude, At
  <2>2. generation' = generation /\ sequence' = sequence
    BY DEF Conclude, authority
  <2>3. TypeOK /\ old \in Thread /\ Sound(r)
    BY DEF Inductive, TypeOK
  <2>4. old.found = {} /\ old.obs \in Nat /\ old.obs <= sequence
    BY <2>1, <2>3 DEF Sound, Saw, Asking, Thread
  <2> QED
    BY <2>1, <2>2, <2>3, <2>4 DEF TypeOK
<1>2. \/ /\ req' = [req EXCEPT ![r] = Invalid(old)]
         /\ UNCHANGED <<database, authority, owed>>
      \/ /\ req' = [req EXCEPT ![r] = away]
         /\ UNCHANGED <<database, authority, owed>>
      \/ /\ req' = [req EXCEPT ![r] = IF known = {} THEN missed ELSE told(known)]
         /\ old.obs < observed /\ UNCHANGED <<database, authority, owed>>
      \/ /\ old.obs >= observed /\ observed' = old.obs
         /\ \E id \in Identity :
              /\ \A x \in Paths : old.seen[x] = {id[x]}
              /\ Activate(id)
              /\ \/ req' = [req EXCEPT ![r] = told({id})]
                 \/ req' = [req EXCEPT ![r] = Invalid(old)]
         /\ revoked' = FALSE /\ owed' = FALSE
      \/ /\ old.obs >= observed /\ observed' = old.obs
         /\ req' = [req EXCEPT ![r] = Invalid(old)]
         /\ UNCHANGED <<revoked, owed>>
         /\ \/ UNCHANGED database
            \/ epoch' = epoch + 1 /\ entries' = {} /\ planning' = {}
  BY <1>1 DEF Conclude
<1> HIDE DEF told, missed, away, known
<1>3. /\ epoch' \in Nat /\ epoch' >= epoch /\ entries' \subseteq Rows
      /\ Cardinality(planning') <= 1
      /\ PlanningHeld' /\ RowsHonest' /\ RowsCurrent'
      /\ epoch' = epoch /\ planning # {} => planning' = planning
  <2>1. CASE UNCHANGED database
    BY <1>1, <2>1 DEF database, TypeOK, Inductive, PlanningHeld, RowsHonest, RowsCurrent
  <2>2. CASE epoch' = epoch + 1 /\ entries' = {} /\ planning' = {}
    BY <1>1, <2>2, ClearedHolds, ClearedTypes DEF TypeOK
  <2>3. CASE \E id \in Identity : (\A x \in Paths : old.seen[x] = {id[x]}) /\ Activate(id)
    <3>1. PICK id \in Identity : (\A x \in Paths : old.seen[x] = {id[x]}) /\ Activate(id)
      BY <2>3
    <3>2. ASSUME NEW x \in Paths PROVE id[x] <= backend
      <4>1. id[x] \in old.seen[x]
        BY <3>1
      <4> QED
        BY <1>1, <4>1 DEF Sound, Saw
    <3> QED
      BY <1>1, <3>1, <3>2, ActivateHolds DEF Inductive
  <2> QED
    BY <1>2, <2>1, <2>2, <2>3
<1>4. /\ observed' >= observed /\ observed' \in 0 .. sequence'
      /\ revoked' \in BOOLEAN /\ owed' \in BOOLEAN
      /\ \/ revoked' = revoked /\ owed' = owed
         \/ ~revoked' /\ ~owed'
  <2>1. \/ observed' = observed
        \/ observed' = old.obs /\ old.obs >= observed
    BY <1>2 DEF authority
  <2>2. \/ revoked' = revoked /\ owed' = owed
        \/ revoked' = FALSE /\ owed' = FALSE
    BY <1>2 DEF authority
  <2>3. revoked \in BOOLEAN /\ owed \in BOOLEAN
    BY <1>1 DEF TypeOK
  <2>4. observed' >= observed /\ observed' \in 0 .. sequence'
    BY <1>1, <2>1
  <2> QED
    BY <2>2, <2>3, <2>4
<1>5. /\ q \in Thread /\ req' = [req EXCEPT ![r] = q]
      /\ \/ /\ q.pc = "end" \/ (q.pc = "recall" /\ Kind[r] = "get")
            /\ q.why = old.why /\ Carried(q) = Carried(old) /\ q.seen = old.seen
            /\ q.result # "fresh"
         \/ \E ids \in SUBSET Identity :
               /\ q = told(ids) /\ old.obs <= observed'
               /\ \A i \in ids : \A x \in Paths : old.seen[x] = {i[x]}
  <2>1. CASE req' = [req EXCEPT ![r] = Invalid(old)]
    <3>1. q = Invalid(old)
      BY <1>1, <2>1, Replaced
    <3> QED
      BY <1>1, <2>1, <3>1, InvalidIs
  <2>2. CASE req' = [req EXCEPT ![r] = away]
    <3>1. q = away
      BY <1>1, <2>2, Replaced
    <3>2. old.why = "replay" => Kind[r] = "get"
      BY <1>1, KindAssumption DEF Sound, Placed
    <3>3. /\ away \in Thread /\ away.pc \in {"recall", "end"} /\ away.result = "unavailable"
          /\ away.pc = "recall" => old.why = "replay"
          /\ away.why = old.why /\ Carried(away) = Carried(old) /\ away.seen = old.seen
      <4> DEFINE next == IF old.why = "replay" THEN "recall" ELSE "end"
      <4>1. next \in {"recall", "end"} /\ (next = "recall" => old.why = "replay")
        OBVIOUS
      <4>2. away = [old EXCEPT !.result = "unavailable", !.pc = next]
        BY DEF away
      <4> HIDE DEF next
      <4> QED
        BY <1>1, <4>1, <4>2 DEF Thread, Carried
    <3> QED
      BY <2>2, <3>1, <3>2, <3>3
  <2>3. CASE /\ req' = [req EXCEPT ![r] = IF known = {} THEN missed ELSE told(known)]
             /\ old.obs < observed /\ UNCHANGED <<database, authority, owed>>
    <3>1. /\ known \subseteq Identity
          /\ \A i \in known : \A x \in Paths : old.seen[x] = {i[x]}
      BY <1>1 DEF known, TypeOK
    <3>2. CASE known = {}
      <4>1. q = missed /\ req' = [req EXCEPT ![r] = missed]
        BY <1>1, <2>3, <3>2, Replaced
      <4>2. /\ missed \in Thread /\ missed.pc = "end" /\ missed.why = old.why
            /\ Carried(missed) = Carried(old) /\ missed.seen = old.seen
            /\ missed.result = "invalid"
        BY <1>1, <3>1, <3>2 DEF missed, Thread, Carried
      <4> QED
        BY <4>1, <4>2
    <3>3. CASE known # {}
      <4>1. q = told(known) /\ req' = [req EXCEPT ![r] = told(known)]
        BY <1>1, <2>3, <3>3, Replaced
      <4>2. old.obs <= observed'
        BY <1>1, <2>3 DEF authority
      <4>3. told(known) \in Thread
        BY <1>1, <3>1 DEF told, Thread
      <4> QED
        BY <3>1, <4>1, <4>2, <4>3
    <3> QED
      BY <3>2, <3>3
  <2>4. ASSUME NEW id \in Identity, \A x \in Paths : old.seen[x] = {id[x]},
               observed' = old.obs, req' = [req EXCEPT ![r] = told({id})]
        PROVE  <1>5
    <3>1. q = told({id})
      BY <1>1, <2>4, Replaced
    <3>2. told({id}) \in Thread
      BY <1>1 DEF told, Thread
    <3>3. {id} \in SUBSET Identity /\ \A i \in {id} : \A x \in Paths : old.seen[x] = {i[x]}
      BY <2>4
    <3>4. old.obs <= observed'
      BY <1>1, <2>4
    <3> QED
      BY <2>4, <3>1, <3>2, <3>3, <3>4
  <2> QED
    BY <1>2, <2>1, <2>2, <2>3, <2>4
<1>6. TypeOK'
  <2>1. req' \in [Requests -> Thread]
    BY <1>1, <1>5 DEF TypeOK
  <2>2. \A p \in planning' : p.epoch \in Nat /\ p.identity \in Identity
    BY <1>3 DEF PlanningHeld
  <2> QED
    BY <1>1, <1>3, <1>4, <2>1, <2>2 DEF TypeOK, Rows, Thread, Record
<1>7. Forward
  BY <1>1, <1>3, <1>4, CountAssumption DEF Forward, TypeOK, Backends
<1>8. Moved(r) /\ Sound(r)'
  <2>1. CASE \E ids \in SUBSET Identity :
               /\ q = told(ids) /\ old.obs <= observed'
               /\ \A i \in ids : \A x \in Paths : old.seen[x] = {i[x]}
    <3>1. PICK ids \in SUBSET Identity :
             /\ q = told(ids) /\ old.obs <= observed'
             /\ \A i \in ids : \A x \in Paths : old.seen[x] = {i[x]}
      BY <2>1
    <3>2. q = [old EXCEPT !.pc = "end", !.found = ids, !.result = "fresh"]
      BY <3>1 DEF told
    <3> QED
      BY <1>1, <1>5, <1>6, <1>7, <3>1, <3>2, Concluded
  <2>2. CASE /\ q.pc = "end" \/ (q.pc = "recall" /\ Kind[r] = "get")
             /\ q.why = old.why /\ Carried(q) = Carried(old) /\ q.seen = old.seen
             /\ q.result # "fresh"
    BY <1>1, <1>5, <1>6, <1>7, <2>2, StillAsking DEF Asking
  <2> QED
    BY <1>5, <2>1, <2>2
<1>9. DownIsQuiet'
  BY <1>1 DEF DownIsQuiet
<1>10. GuardHeld'
  <2>1. Observing(r)
    BY <1>1 DEF Observing
  <2> QED
    BY <1>1, <1>4, <2>1 DEF Inductive, GuardHeld
<1> QED
  BY <1>3, <1>6, <1>7, <1>8, <1>9, <1>10, ThreadsHold DEF Inductive

-----------------------------------------------------------------------------
(* The environment. *)

\* An operator's clear, or a clear at a restart, seen from the threads.
LEMMA ThreadsStay ==
    ASSUME Inductive, TypeOK', Forward, req' = req
    PROVE  (\A s \in Requests : Sound(s)') /\ Follows'
<1>1. \A s \in Requests : Sound(s)'
  BY SoundStays DEF Inductive
<1> QED
  BY <1>1 DEF Inductive, Follows

LEMMA ClearStep ==
    ASSUME Inductive, Clear
    PROVE  Inductive'
<1>1. /\ TypeOK /\ req' = req /\ epoch' = epoch + 1 /\ entries' = {} /\ planning' = {}
      /\ UNCHANGED <<guard, authority, req, up, backend, crashes, owed>>
      /\ clears' \in 0 .. MaxClears
  BY CountAssumption DEF Clear, Inductive, TypeOK
<1>2. TypeOK'
  BY <1>1, ClearedTypes DEF TypeOK, authority, Rows, Thread, Record
<1>3. Forward
  BY <1>1, ClearedTypes, CountAssumption DEF Forward, authority, TypeOK, Backends
<1>4. PlanningHeld' /\ RowsHonest' /\ RowsCurrent'
  BY <1>1, ClearedHolds
<1>5. GuardHeld' /\ DownIsQuiet'
  BY <1>1 DEF Inductive, GuardHeld, DownIsQuiet, Observing, authority
<1> QED
  BY <1>1, <1>2, <1>3, <1>4, <1>5, ThreadsStay DEF Inductive

LEMMA ReplaceBackendStep ==
    ASSUME Inductive, ReplaceBackend
    PROVE  Inductive'
<1>1. /\ TypeOK /\ req' = req /\ backend' = backend + 1 /\ backend' \in Backends
      /\ UNCHANGED <<guard, database, authority, req, up, clears, crashes, owed>>
      /\ backend \in Nat
  BY CountAssumption DEF ReplaceBackend, Inductive, TypeOK, Backends
<1>2. TypeOK'
  BY <1>1 DEF TypeOK, authority, database, Rows, Thread, Record
<1>3. Forward
  BY <1>1 DEF Forward, authority, database, TypeOK
<1>4. RowsHonest' /\ RowsCurrent' /\ GuardHeld' /\ DownIsQuiet'
  BY <1>1 DEF Inductive, RowsHonest, RowsCurrent, GuardHeld, DownIsQuiet, Observing, authority,
              database
<1>5. PlanningHeld'
  <2>1. \A p \in planning : \A x \in Paths : p.identity[x] \in Nat /\ p.identity[x] <= backend
    BY <1>1, CountAssumption DEF Inductive, TypeOK, PlanningHeld, Identity, Backends
  <2>2. \A p \in planning : \A x \in Paths : p.identity[x] <= backend'
    BY <1>1, <2>1
  <2> QED
    BY <1>1, <2>2 DEF Inductive, PlanningHeld, database
<1> QED
  BY <1>1, <1>2, <1>3, <1>4, <1>5, ThreadsStay DEF Inductive

\* A thread that has not started, or was cut off by a crash, is sound.
LEMMA FreshSound ==
    ASSUME TypeOK', NEW r \in Requests,
           \/ req'[r] = Fresh
           \/ req'[r] = [Fresh EXCEPT !.pc = "done", !.status = "other"]
    PROVE  Sound(r)' /\ req'[r].leader = {} /\ req'[r].pc \in {"idle", "done"}
<1> DEFINE q == req'[r]
<1>1. /\ q.pc \in {"idle", "done"} /\ q.why = "lookup" /\ q.obs = 0 /\ q.seen = Nothing
      /\ q.found = {} /\ q.result = "none" /\ q.record = {} /\ q.key = {} /\ q.leader = {}
      /\ q.reply = {} /\ q.admitted = FALSE /\ q.status \in {"none", "other"}
  <2>1. CASE q = Fresh
    BY <2>1 DEF Fresh
  <2>2. CASE q = [Fresh EXCEPT !.pc = "done", !.status = "other"]
    BY <2>2 DEF Fresh
  <2> QED
    BY <2>1, <2>2
<1>2. sequence' \in Nat
  BY DEF TypeOK
<1> HIDE DEF q
<1>3. Placed(r)'
  BY <1>1 DEF Placed, Asking, q
<1>4. Saw(r)'
  BY <1>1, <1>2 DEF Saw, Nothing, q
<1>5. Recorded(r)' /\ Confirming(r)' /\ Vouched(r)'
  BY <1>1 DEF Recorded, Confirming, Vouched, Vouching, Asking, q
<1> QED
  BY <1>1, <1>3, <1>4, <1>5 DEF Sound, q

LEMMA FreshTyped ==
    /\ Fresh \in Thread
    /\ [Fresh EXCEPT !.pc = "done", !.status = "other"] \in Thread
<1>1. Nothing \in [Paths -> SUBSET Backends]
  BY DEF Nothing
<1> QED
  BY <1>1 DEF Fresh, Thread

LEMMA CrashStep ==
    ASSUME Inductive, Crash
    PROVE  Inductive'
<1>1. /\ up /\ up' = FALSE /\ TypeOK /\ crashes' \in 0 .. MaxCrashes
      /\ owed' = (owed \/ revoked \/ \E r \in Requests : Observing(r))
      /\ revoked' = FALSE /\ generation' = 0 /\ sequence' = 0 /\ observed' = 0
      /\ UNCHANGED <<guard, database, backend, clears>>
  BY CountAssumption DEF Crash, Inductive, TypeOK
<1>2. /\ req' \in [Requests -> Thread]
      /\ \A r \in Requests :
            \/ req'[r] = Fresh
            \/ req'[r] = [Fresh EXCEPT !.pc = "done", !.status = "other"]
  BY FreshTyped DEF Crash
<1>3. TypeOK'
  <2>1. up' \in BOOLEAN /\ owed' \in BOOLEAN /\ revoked' \in BOOLEAN
    BY <1>1
  <2>2. generation' \in Nat /\ sequence' \in Nat /\ observed' \in 0 .. sequence'
    BY <1>1
  <2> QED
    BY <1>1, <1>2, <2>1, <2>2 DEF TypeOK, database, Rows, Thread, Record
<1>4. \A r \in Requests : Sound(r)' /\ req'[r].leader = {} /\ req'[r].pc \in {"idle", "done"}
  BY <1>2, <1>3, FreshSound
<1>5. Follows' /\ DownIsQuiet'
  BY <1>4 DEF Follows, DownIsQuiet
<1>6. PlanningHeld' /\ RowsHonest' /\ RowsCurrent'
  BY <1>1 DEF Inductive, PlanningHeld, RowsHonest, RowsCurrent, database
<1>7. GuardHeld'
  BY <1>1 DEF Inductive, GuardHeld
<1> QED
  BY <1>3, <1>4, <1>5, <1>6, <1>7 DEF Inductive

LEMMA RestartStep ==
    ASSUME Inductive, Restart
    PROVE  Inductive'
<1>1. /\ ~up /\ up' = TRUE /\ TypeOK /\ req' = req
      /\ UNCHANGED <<req, generation, sequence, observed, clears, crashes, owed>>
      /\ guard' = IF revoked' THEN "1" ELSE "0"
      /\ backend \in Nat /\ epoch \in Nat
  BY CountAssumption DEF Restart, Inductive, TypeOK, Backends
<1>2. CASE revoked' = (guard # "0") /\ UNCHANGED <<database, backend>>
  <2>1. revoked' \in BOOLEAN /\ up' \in BOOLEAN /\ guard' \in {"0", "1"}
    BY <1>1, <1>2
  <2>2. TypeOK'
    BY <1>1, <1>2, <2>1 DEF TypeOK, database, Rows, Thread, Record
  <2>3. Forward
    BY <1>1, <1>2 DEF Forward, database, TypeOK
  <2>4. PlanningHeld' /\ RowsHonest' /\ RowsCurrent'
    BY <1>2 DEF Inductive, PlanningHeld, RowsHonest, RowsCurrent, database
  <2>5. GuardHeld' /\ DownIsQuiet'
    BY <1>1, <1>2 DEF Inductive, GuardHeld, DownIsQuiet, Observing
  <2> QED
    BY <1>1, <2>2, <2>3, <2>4, <2>5, ThreadsStay DEF Inductive
<1>3. CASE /\ backend < LastBackend /\ backend' = backend + 1
           /\ revoked' = (guard # "0" \/ planning # {})
           /\ IF planning # {}
              THEN epoch' = epoch + 1 /\ entries' = {} /\ planning' = {}
              ELSE UNCHANGED database
  <2>1. /\ revoked' \in BOOLEAN /\ up' \in BOOLEAN /\ guard' \in {"0", "1"}
        /\ guard # "0" => revoked'
    BY <1>1, <1>3
  <2>2. backend' \in Backends /\ backend' >= backend
    BY <1>1, <1>3, CountAssumption DEF Backends
  <2>3. /\ epoch' \in Nat /\ entries' \subseteq Rows /\ Cardinality(planning') <= 1
        /\ PlanningHeld' /\ RowsHonest' /\ RowsCurrent'
        /\ epoch' >= epoch /\ (epoch' = epoch => planning' = planning)
        /\ planning' = {}
    <3>1. CASE planning # {}
      BY <1>1, <1>3, <3>1, ClearedHolds, ClearedTypes
    <3>2. CASE planning = {}
      <4>1. epoch' = epoch /\ entries' = entries /\ planning' = planning
        BY <1>3, <3>2 DEF database
      <4>2. epoch' \in Nat /\ entries' \subseteq Rows /\ Cardinality(planning') <= 1
        BY <1>1, <4>1 DEF TypeOK
      <4>3. PlanningHeld' /\ RowsHonest' /\ RowsCurrent'
        BY <3>2, <4>1 DEF Inductive, PlanningHeld, RowsHonest, RowsCurrent
      <4> QED
        BY <1>1, <3>2, <4>1, <4>2, <4>3
    <3> QED
      BY <3>1, <3>2
  <2>4. TypeOK'
    BY <1>1, <2>1, <2>2, <2>3 DEF TypeOK, Rows, Thread, Record
  <2>5. Forward
    BY <1>1, <2>2, <2>3 DEF Forward, TypeOK
  <2>6. GuardHeld' /\ DownIsQuiet'
    BY <1>1, <2>1 DEF Inductive, GuardHeld, DownIsQuiet, Observing
  <2> QED
    BY <1>1, <2>3, <2>4, <2>5, <2>6, ThreadsStay DEF Inductive
<1> QED
  BY <1>2, <1>3 DEF Restart

-----------------------------------------------------------------------------
(* The invariant, and what it shows. *)

LEMMA InitInductive == Init => Inductive
<1> SUFFICES ASSUME Init PROVE Inductive
  OBVIOUS
<1>1. req \in [Requests -> Thread] /\ \A r \in Requests : req[r] = Fresh
  BY FreshTyped DEF Init
<1>2. TypeOK
  <2>1. Cardinality(planning) <= 1
    BY FS_EmptySet DEF Init
  <2> QED
    <3>1. backend \in Backends /\ clears \in 0 .. MaxClears /\ crashes \in 0 .. MaxCrashes
      BY CountAssumption DEF Init, Backends
    <3>2. observed \in 0 .. sequence /\ epoch \in Nat /\ generation \in Nat /\ sequence \in Nat
      BY DEF Init
    <3> QED
      BY <1>1, <2>1, <3>1, <3>2 DEF Init, TypeOK
<1>3. \A r \in Requests : Sound(r) /\ req[r].pc = "idle"
  BY <1>1 DEF Fresh, Sound, Placed, Saw, Recorded, Confirming, Unconfirmed, Vouched,
              Vouching, Asking, Init, Nothing
<1>4. PlanningHeld /\ GuardHeld /\ DownIsQuiet /\ RowsHonest /\ RowsCurrent /\ Follows
  BY <1>3 DEF Init, PlanningHeld, GuardHeld, DownIsQuiet, RowsHonest, RowsCurrent, Follows,
              Observing
<1> QED
  BY <1>2, <1>3, <1>4 DEF Inductive

LEMMA NextInductive == Inductive /\ [Next]_vars => Inductive'
<1> SUFFICES ASSUME Inductive, [Next]_vars PROVE Inductive'
  OBVIOUS
<1>1. ASSUME NEW r \in Requests, Handle(r)
      PROVE  Inductive'
  BY <1>1, BeginStep, PriorStep, DenyStep, FetchStep, RevokeStep, ConcludeStep, EndStep,
     RecallStep, JoinStep, ReadStep, AdmitStep, GenerateStep, AdmitWriteStep, WriteStep,
     WakeStep, FinishStep DEF Handle
<1>2. CASE UNCHANGED vars
  <2>1. TypeOK'
    BY <1>2 DEF vars, database, authority, environment, Inductive, TypeOK, Rows, Thread, Record
  <2>2. Forward
    BY <1>2, CountAssumption DEF vars, database, authority, environment, Inductive, TypeOK,
                                 Forward, Backends
  <2>3. PlanningHeld' /\ GuardHeld' /\ DownIsQuiet' /\ RowsHonest' /\ RowsCurrent'
    BY <1>2 DEF vars, database, authority, environment, Inductive, PlanningHeld, GuardHeld,
                DownIsQuiet, RowsHonest, RowsCurrent, Observing
  <2>4. req' = req
    BY <1>2 DEF vars
  <2> QED
    BY <2>1, <2>2, <2>3, <2>4, ThreadsStay DEF Inductive
<1> QED
  BY <1>1, <1>2, GiveUpStep, ExpireStep, ClearStep, ReplaceBackendStep, CrashStep, RestartStep
     DEF Next

\* The inductive invariant holds of every behaviour.
LEMMA Invariance == Spec => []Inductive
<1> QED
  BY InitInductive, NextInductive, PTL DEF Spec

\* Every variable of the server, the threads and the database has its type.
THEOREM TypeCorrect == Spec => []TypeOK
<1>1. Inductive => TypeOK
  BY DEF Inductive
<1> QED
  BY <1>1, Invariance, PTL

\* A stored row is the whole answer to the request it is filed under, generated
\* by the backend whose identity it is filed under, however many requests share
\* the table and however often the backend is replaced (the key of do_POST, and
\* its observations before and after the generation).
THEOREM RowsAreHonest == Spec => []RowsHonest
<1>1. Inductive => RowsHonest
  BY DEF Inductive
<1> QED
  BY <1>1, Invariance, PTL

\* Every stored row belongs to the authority and the epoch in force, whatever
\* clears race the write (the epoch check in _Store.write, _Store.activate).
THEOREM RowsAreCurrent == Spec => []RowsCurrent
<1>1. Inductive => RowsCurrent
  BY DEF Inductive
<1> QED
  BY <1>1, Invariance, PTL

\* A hit is a whole answer to the request that gets it, of the very model its
\* record names, read from a row, replayed in an outage or shared by the leader
\* whose flight it joined.
THEOREM HitsAreHonest == Spec => []HitsHonest
<1>1. Inductive => HitsHonest
  <2> SUFFICES ASSUME Inductive, NEW r \in Requests,
                      req[r].status = "HIT", Kind[r] = "post",
                      NEW a \in req[r].reply
               PROVE  /\ a.whole /\ a.to = Payload[r]
                      /\ \A p \in req[r].record : p.identity = [x \in Paths |-> a.by]
    BY DEF HitsHonest
  <2>1. Honest(req[r])
    BY DEF Inductive, Sound, Vouched, Vouching
  <2>2. \A p \in req[r].record : req[r].key = {<<Payload[r], p.identity, p.epoch>>}
    BY DEF Inductive, Sound, Recorded
  <2>3. \A p \in req[r].record :
           /\ <<Payload[r], p.identity, p.epoch>> \in req[r].key
           /\ p.identity = Uniform(a.by)
    BY <2>1, <2>2 DEF Honest
  <2>4. \A k \in req[r].key : k[1] = Payload[r]
    BY DEF Inductive, Sound, Recorded
  <2> QED
    BY <2>1, <2>3, <2>4 DEF Honest, Uniform
<1> QED
  BY <1>1, Invariance, PTL

-----------------------------------------------------------------------------
(* What a step may not do. *)

\* A thread's step is seen by no other thread.
LEMMA OneThread ==
    ASSUME TypeOK, NEW r \in Requests, Handle(r) \/ GiveUp(r) \/ Expire(r)
    PROVE  \A s \in Requests : s # r => req'[s] = req[s]
<1>1. SUFFICES \E q : req' = [req EXCEPT ![r] = q]
  BY DEF TypeOK
<1>2. CASE Begin(r) \/ Prior(r) \/ Deny(r) \/ Revoke(r)
  BY <1>2 DEF Begin, Prior, Deny, Revoke
<1>3. CASE Fetch(r)
  BY <1>3 DEF Fetch
<1>4. CASE Conclude(r)
  BY <1>4 DEF Conclude
<1>5. CASE End(r) \/ Recall(r) \/ Join(r) \/ Admit(r) \/ AdmitWrite(r)
  BY <1>5 DEF End, Recall, Join, Admit, AdmitWrite
<1>6. CASE Read(r) \/ Generate(r) \/ Write(r) \/ Wake(r) \/ Finish(r) \/ GiveUp(r) \/ Expire(r)
  BY <1>6 DEF Read, Generate, Write, Wake, Finish, GiveUp, Expire
<1> QED
  BY <1>2, <1>3, <1>4, <1>5, <1>6 DEF Handle

\* Only Admit makes a hit.
LEMMA OnlyAdmitHits ==
    ASSUME TypeOK, NEW r \in Requests, Handle(r) \/ GiveUp(r) \/ Expire(r), ~Admit(r),
           Kind[r] = "post" => req[r].why # "replay"
    PROVE  req'[r].status \in {req[r].status, "other"}
<1> DEFINE old == req[r]
           Same(q) == q \in Thread /\ q.status = old.status
<1>1. Same(old)
  BY DEF TypeOK
<1>2. \A q : Same(q) => Same(Onward(q)) /\ Same(Invalid(q)) /\ Same(Uncached(q))
  BY OnwardIs, InvalidIs, UncachedIs DEF Carried
<1>3. \A q : req' = [req EXCEPT ![r] = q] => req'[r] = q
  BY DEF TypeOK
<1>4. CASE Begin(r) \/ GiveUp(r) \/ Join(r) \/ AdmitWrite(r) \/ Write(r) \/ Finish(r)
           \/ Generate(r) \/ Wake(r) \/ Expire(r)
  <2>1. CASE Begin(r)
    BY <1>1, <2>1 DEF Begin, Thread, TypeOK
  <2>2. CASE GiveUp(r) \/ Join(r) \/ AdmitWrite(r)
    BY <1>1, <2>2 DEF GiveUp, Join, AdmitWrite, Thread, TypeOK
  <2>3. CASE Write(r) \/ Finish(r)
    BY <1>1, <2>3 DEF Write, Finish, Thread, TypeOK
  <2>4. CASE Generate(r) \/ Wake(r)
    <3>1. \E a, place :
             \/ req' = [req EXCEPT ![r].reply = a, ![r].status = "other", ![r].pc = place]
             \/ req' = [req EXCEPT ![r].reply = a, ![r].pc = place, ![r].status = "other"]
      BY <2>4 DEF Generate, Wake
    <3> QED
      BY <1>1, <3>1 DEF Thread, TypeOK
  <2>5. CASE Expire(r)
    BY <1>1, <2>5 DEF Expire, Thread, TypeOK
  <2> QED
    BY <1>4, <2>1, <2>2, <2>3, <2>4, <2>5
<1>5. CASE Prior(r)
  <2> DEFINE base == [old EXCEPT !.prior = {p.identity : p \in planning}]
  <2>1. \/ req' = [req EXCEPT ![r] = [old EXCEPT !.pc = "deny"]]
        \/ req' = [req EXCEPT ![r] = Onward(base)]
    BY <1>5 DEF Prior
  <2>2. {p.identity : p \in planning} \subseteq Identity
    BY DEF TypeOK
  <2>3. Same(base)
    BY <1>1, <2>2 DEF Thread
  <2>4. [old EXCEPT !.pc = "deny"].status = old.status
    BY <1>1 DEF Thread
  <2> HIDE DEF base
  <2> QED
    BY <1>2, <1>3, <2>1, <2>3, <2>4
<1>6. CASE Deny(r) \/ Revoke(r)
  <2> DEFINE denied == [old EXCEPT !.denied = TRUE]
             bare == [old EXCEPT !.prior = {}, !.denied = FALSE]
  <2>1. \/ req' = [req EXCEPT ![r] = Invalid(old)]
        \/ req' = [req EXCEPT ![r] = Onward(denied)]
        \/ req' = [req EXCEPT ![r] = Onward(bare)]
    <3>1. CASE Deny(r)
      BY <3>1 DEF Deny
    <3>2. CASE Revoke(r)
      BY <3>2 DEF Revoke
    <3> QED
      BY <1>6, <3>1, <3>2
  <2>2. Same(denied) /\ Same(bare)
    BY <1>1 DEF Thread
  <2> HIDE DEF denied, bare, Same
  <2>3. Same(req'[r])
    BY <1>1, <1>2, <1>3, <2>1, <2>2
  <2> QED
    BY <2>3 DEF Same
<1>7. CASE Fetch(r)
  <2>1. PICK p \in Paths, outcome \in {"value", "gone", "bad"} :
          LET q == [old EXCEPT
                      !.tried = @ \cup {p},
                      !.seen[p] = IF outcome = "value" THEN {backend} ELSE {},
                      !.fault = IF outcome = "value" THEN @ ELSE outcome]
          IN  IF Kind[r] = "get" /\ old.tried = {}
              THEN \/ req' = [req EXCEPT ![r] =
                          [q EXCEPT !.pc = "prior",
                                    !.why = IF outcome = "gone" THEN "replay" ELSE @]]
                   \/ outcome = "bad" /\ req' = [req EXCEPT ![r] = Invalid(q)]
              ELSE req' = [req EXCEPT ![r] = Onward(q)]
    BY <1>7 DEF Fetch
  <2> DEFINE tried == old.tried \cup {p}
             seen == [old.seen EXCEPT ![p] = IF outcome = "value" THEN {backend} ELSE {}]
             fault == IF outcome = "value" THEN old.fault ELSE outcome
             because(q) == IF outcome = "gone" THEN "replay" ELSE q.why
             q == [old EXCEPT !.tried = tried, !.seen = seen, !.fault = fault]
             first == [q EXCEPT !.pc = "prior", !.why = because(q)]
  <2>2. \/ req' = [req EXCEPT ![r] = first]
        \/ req' = [req EXCEPT ![r] = Invalid(q)]
        \/ req' = [req EXCEPT ![r] = Onward(q)]
    BY <2>1
  <2>3. /\ tried \subseteq Paths /\ fault \in {"none", "gone", "bad"}
        /\ seen \in [Paths -> SUBSET Backends]
    BY <1>1 DEF Thread, TypeOK
  <2> HIDE DEF tried, seen, fault, because
  <2>4. Same(q)
    BY <1>1, <2>3 DEF Thread
  <2>5. first.status = old.status
    BY <2>4 DEF Thread
  <2> HIDE DEF q, first, Same
  <2>6. req'[r] = first \/ Same(req'[r])
    BY <1>2, <1>3, <2>2, <2>4
  <2> QED
    BY <2>5, <2>6 DEF Same
<1>8. CASE Conclude(r)
  <2> DEFINE shared == {p.identity : p \in IF revoked THEN {} ELSE planning}
             known == {i \in shared : \A x \in Paths : old.seen[x] = {i[x]}}
             next == IF old.why = "replay" THEN "recall" ELSE "end"
             outcome == IF known = {} THEN "invalid" ELSE "fresh"
             away(pc) == [old EXCEPT !.result = "unavailable", !.pc = pc]
             told(ids, result) == [old EXCEPT !.pc = "end", !.found = ids, !.result = result]
  <2>1. \/ req' = [req EXCEPT ![r] = Invalid(old)]
        \/ req' = [req EXCEPT ![r] = away(next)]
        \/ req' = [req EXCEPT ![r] = told(known, outcome)]
        \/ \E id \in Identity : req' = [req EXCEPT ![r] = told({id}, "fresh")]
    BY <1>8, ZenonT(60) DEF Conclude
  <2> HIDE DEF known, next, outcome
  <2>2. /\ \A pc : away(pc).status = old.status
        /\ \A ids, result : told(ids, result).status = old.status
    BY <1>1 DEF Thread
  <2>3. Invalid(old).status = old.status
    BY <1>1, <1>2
  <2> HIDE DEF away, told, Same
  <2>4. CASE req' = [req EXCEPT ![r] = Invalid(old)]
    BY <1>3, <2>3, <2>4
  <2>5. CASE req' = [req EXCEPT ![r] = away(next)]
    <3>1. req'[r] = away(next)
      BY <1>3, <2>5
    <3> QED
      BY <2>2, <3>1
  <2>6. CASE req' = [req EXCEPT ![r] = told(known, outcome)]
    <3>1. req'[r] = told(known, outcome)
      BY <1>3, <2>6
    <3> QED
      BY <2>2, <3>1
  <2>7. ASSUME NEW id \in Identity, req' = [req EXCEPT ![r] = told({id}, "fresh")]
        PROVE  req'[r].status = old.status
    <3>1. req'[r] = told({id}, "fresh")
      BY <1>3, <2>7
    <3> QED
      BY <2>2, <3>1
  <2> QED
    BY <2>1, <2>4, <2>5, <2>6, <2>7
<1>9. CASE End(r)
  <2>1. req' = [req EXCEPT ![r] = Resume(old, r)]
    BY <1>9 DEF End
  <2> QED
    BY <1>1, <1>3, <2>1, ResumeIs
<1>10. CASE Recall(r)
  <2>1. PICK record, key, place :
           LET q == [old EXCEPT !.record = record, !.key = key]
           IN  \/ req' = [req EXCEPT ![r] = Uncached(q)]
               \/ req' = [req EXCEPT ![r] = [q EXCEPT !.pc = place]]
    BY <1>10 DEF Recall
  <2> DEFINE q == [old EXCEPT !.record = record, !.key = key]
  <2>2. Uncached(q).status = old.status /\ [q EXCEPT !.pc = place].status = old.status
    BY <1>1 DEF Thread, Uncached
  <2> QED
    BY <1>3, <2>1, <2>2
<1>11. CASE Read(r)
  <2>1. \/ \E body : req' = [req EXCEPT ![r].pc = "admit", ![r].reply = body]
        \/ req' = [req EXCEPT ![r] = Uncached(old)]
        \/ req' = [req EXCEPT ![r] = [old EXCEPT !.pc = "generate"]]
    BY <1>11 DEF Read
  <2>2. Uncached(old).status = old.status
    BY <1>1, <1>2
  <2> QED
    BY <1>1, <1>3, <2>1, <2>2 DEF Thread, TypeOK
<1> QED
  BY <1>4, <1>5, <1>6, <1>7, <1>8, <1>9, <1>10, <1>11 DEF Handle

\* Whoever becomes a hit was admitted by the authority in force.
LEMMA HitIsAdmitted ==
    ASSUME Inductive, [Next]_vars, NEW r \in Requests,
           req'[r].status = "HIT", req[r].status # "HIT"
    PROVE  /\ ~revoked /\ up /\ req'[r].record = req[r].record
           /\ \A p \in req[r].record : p.epoch = epoch
<1>1. PICK s \in Requests : Handle(s) \/ GiveUp(s) \/ Expire(s)
  <2>1. CASE UNCHANGED vars \/ Clear \/ ReplaceBackend \/ Restart
    BY <2>1 DEF vars, Clear, ReplaceBackend, Restart
  <2>2. CASE Crash
    <3>1. req'[r] = Fresh \/ req'[r] = [Fresh EXCEPT !.pc = "done", !.status = "other"]
      BY <2>2 DEF Crash
    <3>2. req'[r].status \in {"none", "other"}
      <4>1. CASE req'[r] = Fresh
        BY <4>1 DEF Fresh
      <4>2. CASE req'[r] = [Fresh EXCEPT !.pc = "done", !.status = "other"]
        BY <4>2 DEF Fresh
      <4> QED
        BY <3>1, <4>1, <4>2
    <3> QED
      BY <3>2
  <2> QED
    BY <2>1, <2>2 DEF Next
<1>2. s = r
  BY <1>1, OneThread DEF Inductive
<1>3. Admit(r)
  <2>1. Kind[r] = "post" => req[r].why # "replay"
    BY DEF Inductive, Sound, Placed
  <2> QED
    BY <1>1, <1>2, <2>1, OnlyAdmitHits DEF Inductive
<1>4. Current(req[r])
  <2>1. req[r] \in Thread
    BY DEF Inductive, TypeOK
  <2> DEFINE other == [req[r] EXCEPT !.pc = "finish", !.status = "other"]
  <2>2. other.status = "other" /\ Uncached(req[r]).status = req[r].status
    BY <2>1, UncachedIs DEF Thread
  <2>3. ~Current(req[r]) => \/ req' = [req EXCEPT ![r] = other]
                            \/ req' = [req EXCEPT ![r] = Uncached(req[r])]
    BY <1>3 DEF Admit
  <2> QED
    BY <2>1, <2>2, <2>3 DEF Inductive, TypeOK
<1>5. req'[r].record = req[r].record
  BY <1>3, <1>4 DEF Admit, Inductive, TypeOK, Thread
<1> QED
  BY <1>3, <1>4, <1>5 DEF Admit, At, Current, Inductive, PlanningHeld

\* No reply is admitted as a hit under an epoch that has been cleared, whatever
\* its thread read before the clear (admit_replay).
THEOREM ClearsAreFinal == Spec => ClearIsFinal
<1>1. Inductive /\ [Next]_vars =>
         [\A r \in Requests : req'[r].status = "HIT" /\ req[r].status # "HIT" =>
             \A p \in req'[r].record : p.epoch = epoch]_vars
  BY HitIsAdmitted
<1> QED
  BY <1>1, Invariance, PTL DEF Spec, ClearIsFinal

\* While an observation or a revocation cut off by a crash has not been made
\* good by a complete observation, nothing is replayed (the guard file).
THEOREM InterruptionBlocks == Spec => InterruptedBlocksReplay
<1>1. Inductive /\ [Next]_vars =>
         [\A r \in Requests : req'[r].status = "HIT" /\ req[r].status # "HIT" => ~owed]_vars
  BY HitIsAdmitted DEF Inductive, GuardHeld
<1> QED
  BY <1>1, Invariance, PTL DEF Spec, InterruptedBlocksReplay

\* Whoever changes the authority started its observation no earlier than any
\* that had concluded (the observation sequence of the planning lock).
THEOREM AuthorityIsOrdered == Spec => AuthorityInOrder
<1> DEFINE Ordered ==
      \A r \in Requests :
         req'[r] # req[r] /\ up' /\ (planning' # planning \/ revoked' # revoked)
         => \A s \in Requests : req[s].result = "fresh" => req[s].obs <= req[r].obs
<1>1. ASSUME Inductive, [Next]_vars, NEW r \in Requests, req'[r] # req[r], up',
             planning' # planning \/ revoked' # revoked
      PROVE  \A s \in Requests : req[s].result = "fresh" => req[s].obs <= req[r].obs
  <2>1. PICK t \in Requests : Handle(t) \/ GiveUp(t) \/ Expire(t)
    BY <1>1 DEF Next, vars, Clear, ReplaceBackend, Restart, Crash
  <2>2. t = r
    BY <1>1, <2>1, OneThread DEF Inductive
  <2>3. Deny(r) \/ Revoke(r) \/ Conclude(r)
    BY <1>1, <2>1, <2>2
       DEF Handle, Begin, Prior, Fetch, End, Recall, Join, Read, Admit, Generate, AdmitWrite,
           Write, Wake, Finish, GiveUp, Expire, LocalOnly, database, authority
  <2>4. req[r].obs >= observed
    <3>1. req[r].obs \in Nat /\ observed \in Nat
      BY <1>1 DEF Inductive, TypeOK, Thread
    <3>2. CASE req[r].obs < observed
      BY <1>1, <2>3, <3>2 DEF Deny, Revoke, Conclude, database, authority
    <3> QED
      BY <3>1, <3>2
  <2>5. \A s \in Requests : /\ req[s].obs \in Nat
                            /\ req[s].result = "fresh" => req[s].obs <= observed
    BY <1>1 DEF Inductive, TypeOK, Thread, Sound, Saw
  <2> QED
    BY <1>1, <2>4, <2>5 DEF Inductive, TypeOK
<1>2. Inductive /\ [Next]_vars => [Ordered]_vars
  BY <1>1
<1> QED
  BY <1>2, Invariance, PTL DEF Spec, AuthorityInOrder

=============================================================================
