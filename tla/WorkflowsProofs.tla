--------------------------- MODULE WorkflowsProofs ---------------------------
(***************************************************************************)
(* Theorems about Workflows, for any processes, commands, files, programs  *)
(* and histories: what the history file, the page cache and the outputs    *)
(* hold.                                                                   *)
(***************************************************************************)
EXTENDS Workflows, FiniteSetTheorems, WellFoundedInduction, TLAPS

-----------------------------------------------------------------------------
(* The history file. *)

CallShape(c) ==
    c = [at |-> c.at, op |-> c.op, key |-> c.key, text |-> c.text, found |-> c.found, ok |-> c.ok]
DraftShape(d) == d = [base |-> d.base, copy |-> d.copy]

\* A transaction would commit the rows and tasks that the file has.
Upgrading == {"copy", "swap", "commit"}
Drafted(p) ==
    /\ call[p].at \in Upgrading =>
         /\ lock = p
         /\ draft[p].base = Database(draft[p].base.layout, file.rows, file.tasks)
    /\ call[p].at = "swap" => draft[p].copy = file.rows

FileInv ==
    /\ file = Database(file.layout, file.rows, file.tasks) /\ IsText(file.tasks)
    /\ call = [p \in Processes |-> call[p]] /\ draft = [p \in Processes |-> draft[p]]
    /\ \A p \in Processes : CallShape(call[p]) /\ DraftShape(draft[p]) /\ Drafted(p)

\* What a call would write, and what it has found, is a translation of its key.
Meant(c) ==
    /\ c.op = "store" => IsTranslated(c.text, c.key.of, c.key.in)
    /\ c.op \in {"insert", "prove"} => Whole(c.text, c.key.of, c.key.in)
    /\ c.op = "prove" => AllTranslated(c.text, c.key.of, c.key.in)
    /\ c.op = "find" /\ c.found # NoText => IsTranslated(c.found, c.key.of, c.key.in)
    /\ c.op = "replay" /\ c.found # NoText =>
         Whole(c.found, c.key.of, c.key.in) /\ AllTranslated(c.found, c.key.of, c.key.in)
    /\ c.at = "again" => c.op = "clear"

HistoryInv ==
    /\ FileInv /\ RowsOf(file) /\ TasksOf(file)
    /\ \A p \in Processes : Meant(call[p])

-----------------------------------------------------------------------------
(* A translation. *)

WorkShape(w) ==
    w = [at |-> w.at, id |-> w.id, count |-> w.count, scanned |-> w.scanned, plan |-> w.plan,
         todo |-> w.todo, now |-> w.now, done |-> w.done, failed |-> w.failed, status |-> w.status]
TrShape(t) ==
    t = [at |-> t.at, source |-> t.source, lang |-> t.lang, known |-> t.known,
         next |-> t.next, out |-> t.out, keep |-> t.keep, proof |-> t.proof]

Lacking == {"replay", "prepare", "lookup", "estimate", "generate"}
Resting == {"off", "done", "failed"}

\* What a translation has so far, and what it has asked for.
Holds(t, c) ==
    /\ TrShape(t) /\ IsText(t.source)
    /\ t.at \in Lacking =>
         /\ DOMAIN t.out = DOMAIN t.source /\ t.out = [i \in DOMAIN t.out |-> t.out[i]]
         /\ \A i \in DOMAIN t.out : t.out[i] = NoText \/ IsTranslated(t.out[i], t.source[i], t.lang)
    /\ t.at \in {"store", "record", "done"} => Whole(t.out, t.source, t.lang)
    /\ t.at = "store" =>
         /\ t.keep # {} /\ t.keep \subseteq DOMAIN t.source
         /\ \A i \in t.keep : IsTranslated(t.out[i], t.source[i], t.lang)
         /\ t.proof => AllTranslated(t.out, t.source, t.lang)
    /\ t.at = "replay" => c.op = "replay" /\ c.key = Key(t.source, t.lang)
    /\ t.at = "lookup" => c.op = "find" /\ c.key = Key(t.source[t.next], t.lang)

TranslationInv ==
    /\ job \in Jobs /\ tr = [p \in Processes |-> tr[p]]
    /\ \A p \in Processes : Holds(tr[p], call[p])

-----------------------------------------------------------------------------
(* The commands. *)

OfTexts == {"batch", "doc", "text"}
OfPages == {"exec", "man", "info", "precache"}

\* Where the text of a target of p comes from.
Comes(p, x, text) ==
    /\ x.to \in Names
    /\ job[p].kind = "text" =>
         /\ x.from = job[p].input /\ x.to = job[p].to
         /\ x.from \notin Names => text = x.from.text
    /\ job[p].kind # "text" => x.from \in Names /\ x.to = Suffixed(x.from, x.lang)
    /\ x.from \in Names \ DOMAIN made => text = disk[x.from].text

Planning(p, x) == IsText(x.text) /\ (job[p].kind \in OfTexts => Comes(p, x, x.text))

Busy == {"seek", "measure", "counted", "measured", "translating", "writing"}

\* What is before a command, and what it has in hand.
Proceeds(p, w, t) ==
    /\ WorkShape(w)
    /\ w.id = <<p, w.id[2]>>
    /\ IsText(w.scanned) /\ Range(w.scanned) \subseteq Names
    /\ IsText(w.todo) /\ \A x \in Range(w.todo) : Planning(p, x)
    /\ w.at \in Busy => Planning(p, w.now)
    /\ w.at # "translating" => t.at \in Resting
    /\ w.at \in {"seek", "measure", "counted", "measured", "scanned"} => job[p].kind = "batch"
    /\ w.at \in {"translating", "writing"} =>
         /\ job[p].kind \in OfTexts \cup OfPages
         /\ t.at # "failed" =>
              /\ t.lang = w.now.lang
              /\ job[p].kind \in OfTexts => Comes(p, w.now, t.source)
              /\ job[p].kind \in OfPages => t.source = w.now.text
    /\ w.at = "writing" =>
         /\ t.at = "done" /\ job[p].kind \in OfTexts
         /\ job[p].kind = "text" => Has(p, "output")

WorkInv ==
    /\ work = [p \in Processes |-> work[p]]
    /\ \A p \in Processes : Proceeds(p, work[p], tr[p])

\* A temporary file has one writer, and holds the beginning of its output.
TempsInv ==
    /\ \A s, t \in temps : s.name = t.name => s = t
    /\ \A t \in temps : t = [name |-> t.name, text |-> t.text] /\ IsText(t.text)
    /\ \A p \in Processes : work[p].at = "writing" =>
         \E t \in temps :
            /\ t.name = TempName(p) /\ Len(t.text) <= Len(tr[p].out)
            /\ \A i \in DOMAIN t.text : t.text[i] = tr[p].out[i]

DiskInv ==
    /\ disk = [name \in Names |-> disk[name]] /\ DOMAIN made \subseteq Names
    /\ \A name \in Names :
          IF name \in DOMAIN made
          THEN /\ Whole(disk[name].text, made[name], disk[name].lang) /\ Origin(name)
          ELSE disk[name] = Disk[name]

PagesInv ==
    \A row \in pages : Whole(row.text, row.source, row.lang) /\ AllTranslated(row.text, row.source, row.lang)

CommandInv ==
    /\ HistoryInv /\ TranslationInv /\ WorkInv
    /\ TempsInv /\ DiskInv /\ PagesInv
-----------------------------------------------------------------------------
(* What the steps of a history operation do.                               *)

\* A step of p that leaves it with the call c and the draft d, and the file f.
LEMMA DatabaseMoves ==
  ASSUME HistoryInv, NEW p \in Processes, NEW f, NEW c, NEW d,
         file' = f, call' = [call EXCEPT ![p] = c], draft' = [draft EXCEPT ![p] = d],
         f = Database(f.layout, f.rows, f.tasks), IsText(f.tasks), RowsOf(f), TasksOf(f),
         CallShape(c), Meant(c), DraftShape(d),
         c.at \in Upgrading => lock' = p /\ d.base = Database(d.base.layout, f.rows, f.tasks),
         c.at = "swap" => d.copy = f.rows,
         \A q \in Processes \ {p} :
            call[q].at \in Upgrading => lock' = q /\ f.rows = file.rows /\ f.tasks = file.tasks
  PROVE  HistoryInv'
<1>1. /\ call = [q \in Processes |-> call[q]] /\ draft = [q \in Processes |-> draft[q]]
      /\ \A q \in Processes : CallShape(call[q]) /\ DraftShape(draft[q]) /\ Drafted(q) /\ Meant(call[q])
  BY DEF HistoryInv, FileInv
<1>2. /\ call' = [q \in Processes |-> call'[q]] /\ draft' = [q \in Processes |-> draft'[q]]
      /\ call'[p] = c /\ draft'[p] = d
      /\ \A q \in Processes \ {p} : call'[q] = call[q] /\ draft'[q] = draft[q]
  BY <1>1
<1>3. ASSUME NEW q \in Processes
      PROVE  (CallShape(call[q]) /\ DraftShape(draft[q]) /\ Drafted(q) /\ Meant(call[q]))'
  <2>1. CASE q = p
    <3>1. (CallShape(call[q]) /\ DraftShape(draft[q]) /\ Meant(call[q]))'
      BY <1>2, <2>1
    <3>2. Drafted(q)'
      BY <1>2, <2>1 DEF Drafted
    <3> QED BY <3>1, <3>2
  <2>2. CASE q # p
    <3>1. (CallShape(call[q]) /\ DraftShape(draft[q]) /\ Meant(call[q]))'
      BY <1>1, <1>2, <2>2
    <3>2. call'[q] = call[q] /\ draft'[q] = draft[q] /\ Drafted(q)
      BY <1>1, <1>2, <2>2
    <3>3. call[q].at \in Upgrading => lock' = q /\ f.rows = file.rows /\ f.tasks = file.tasks
      BY <2>2
    <3>4. Drafted(q)'
      BY <3>2, <3>3 DEF Drafted, Upgrading
    <3> QED BY <3>1, <3>4
  <2> QED BY <2>1, <2>2
<1>4. (file = Database(file.layout, file.rows, file.tasks) /\ IsText(file.tasks)
         /\ RowsOf(file) /\ TasksOf(file))'
  OBVIOUS
<1>5. FileInv'
  BY <1>2, <1>3, <1>4 DEF FileInv
<1> QED BY <1>3, <1>4, <1>5 DEF HistoryInv

\* A call that p makes, or the end of one.
LEMMA CallMoves ==
  ASSUME HistoryInv, NEW p \in Processes, UNCHANGED <<file, lock, draft>>, NEW c,
         call' = [call EXCEPT ![p] = c], CallShape(c), Meant(c), c.at \notin Upgrading
  PROVE  /\ HistoryInv' /\ call'[p] = c
         /\ \A q \in Processes \ {p} : call'[q] = call[q]
<1>1. /\ call = [q \in Processes |-> call[q]] /\ draft = [q \in Processes |-> draft[q]]
      /\ \A q \in Processes : DraftShape(draft[q]) /\ Drafted(q)
      /\ file = Database(file.layout, file.rows, file.tasks) /\ IsText(file.tasks)
      /\ RowsOf(file) /\ TasksOf(file)
  BY DEF HistoryInv, FileInv
<1>2. draft' = [draft EXCEPT ![p] = draft[p]]
  BY <1>1
<1>3. \A q \in Processes \ {p} :
         call[q].at \in Upgrading => lock' = q /\ file.rows = file.rows /\ file.tasks = file.tasks
  BY <1>1 DEF Drafted
<1>4. DraftShape(draft[p]) /\ c.at # "swap"
  BY <1>1 DEF Upgrading
<1>5. HistoryInv'
  BY <1>1, <1>2, <1>3, <1>4, DatabaseMoves
<1> QED BY <1>1, <1>5

LEMMA AskedCalls ==
  ASSUME NEW op, NEW key, NEW text
  PROVE  \E c : /\ c = Calling(op, key, text)
                /\ CallShape(c) /\ c.at = "open" /\ c.op = op /\ c.key = key /\ c.text = text
                /\ c.found = NoText
<1>1. \A yes, c : c = [at |-> "idle", op |-> "none", key |-> NoText, text |-> NoText,
                       found |-> NoText, ok |-> yes]
         => [c EXCEPT !.at = "open", !.op = op, !.key = key, !.text = text] =
              [at |-> "open", op |-> op, key |-> key, text |-> text, found |-> NoText, ok |-> yes]
  <2> TAKE yes, c
  <2> HAVE c = [at |-> "idle", op |-> "none", key |-> NoText, text |-> NoText,
                found |-> NoText, ok |-> yes]
  <2> DEFINE a == [c EXCEPT !.at = "open"]
             b == [a EXCEPT !.op = op]
             d == [b EXCEPT !.key = key]
  <2>1. a = [at |-> "open", op |-> "none", key |-> NoText, text |-> NoText, found |-> NoText, ok |-> yes]
    OBVIOUS
  <2> HIDE DEF a
  <2>2. b = [at |-> "open", op |-> op, key |-> NoText, text |-> NoText, found |-> NoText, ok |-> yes]
    BY <2>1
  <2> HIDE DEF b
  <2>3. d = [at |-> "open", op |-> op, key |-> key, text |-> NoText, found |-> NoText, ok |-> yes]
    BY <2>2
  <2> HIDE DEF d
  <2>4. [d EXCEPT !.text = text] =
          [at |-> "open", op |-> op, key |-> key, text |-> text, found |-> NoText, ok |-> yes]
    BY <2>3
  <2> QED BY <2>4 DEF a, b, d
<1>2. Calling(op, key, text) =
        [at |-> "open", op |-> op, key |-> key, text |-> text, found |-> NoText, ok |-> TRUE]
  BY <1>1, Zenon DEF Calling, NoCall
<1>3. \A yes, c : c = [at |-> "open", op |-> op, key |-> key, text |-> text, found |-> NoText, ok |-> yes]
         => CallShape(c) /\ c.at = "open" /\ c.op = op /\ c.key = key /\ c.text = text /\ c.found = NoText
  BY DEF CallShape
<1> QED BY <1>2, <1>3, Zenon

LEMMA NoCallMeans == CallShape(NoCall) /\ Meant(NoCall) /\ NoCall.at = "idle"
  BY DEF NoCall, CallShape, Meant

LEMMA AnswerIs ==
  ASSUME HistoryInv, NEW p \in Processes, NEW found, NEW ok, Answer(p, found, ok)
  PROVE  \E c : /\ call' = [call EXCEPT ![p] = c]
                /\ CallShape(c) /\ c.at = "answered" /\ c.op = call[p].op /\ c.key = call[p].key
                /\ c.text = call[p].text /\ c.found = found
<1>1. call = [q \in Processes |-> call[q]] /\ CallShape(call[p])
  BY DEF HistoryInv, FileInv
<1> DEFINE c == [call[p] EXCEPT !.at = "answered", !.found = found, !.ok = ok]
<1> DEFINE a == [call[p] EXCEPT !.at = "answered"]
           b == [a EXCEPT !.found = found]
<1>a. a = [at |-> "answered", op |-> call[p].op, key |-> call[p].key, text |-> call[p].text,
           found |-> call[p].found, ok |-> call[p].ok]
  BY <1>1 DEF CallShape
<1>b. c = [b EXCEPT !.ok = ok]
  OBVIOUS
<1>3. call' = [call EXCEPT ![p] = c]
  BY <1>1 DEF Answer
<1> HIDE DEF a, c
<1>c. b = [at |-> "answered", op |-> call[p].op, key |-> call[p].key, text |-> call[p].text,
           found |-> found, ok |-> call[p].ok]
  BY <1>a
<1> HIDE DEF b
<1>2. c = [at |-> "answered", op |-> call[p].op, key |-> call[p].key, text |-> call[p].text,
           found |-> found, ok |-> ok]
  BY <1>b, <1>c
<1> HIDE DEF c
<1>4. /\ CallShape(c) /\ c.at = "answered" /\ c.op = call[p].op /\ c.key = call[p].key
      /\ c.text = call[p].text /\ c.found = found
  BY <1>2 DEF CallShape
<1> QED BY <1>3, <1>4

\* The call of p goes on to its next step.
Turns(p, step) == call' = [call EXCEPT ![p].at = step]

LEMMA AtIs ==
  ASSUME HistoryInv, NEW p \in Processes, NEW step, Turns(p, step)
  PROVE  \E c : /\ call' = [call EXCEPT ![p] = c]
                /\ CallShape(c) /\ c.at = step /\ c.op = call[p].op /\ c.key = call[p].key
                /\ c.text = call[p].text /\ c.found = call[p].found
<1>1. call = [q \in Processes |-> call[q]] /\ CallShape(call[p])
  BY DEF HistoryInv, FileInv
<1> DEFINE c == [call[p] EXCEPT !.at = step]
<1>2. c = [at |-> step, op |-> call[p].op, key |-> call[p].key, text |-> call[p].text,
           found |-> call[p].found, ok |-> call[p].ok]
  BY <1>1 DEF CallShape
<1>3. call' = [call EXCEPT ![p] = c]
  BY <1>1 DEF Turns
<1> HIDE DEF c
<1>4. /\ CallShape(c) /\ c.at = step /\ c.op = call[p].op /\ c.key = call[p].key
      /\ c.text = call[p].text /\ c.found = call[p].found
  BY <1>2 DEF CallShape
<1> QED BY <1>3, <1>4, Zenon

\* An operation keeps what it was asked.
SameCalls ==
    \A q \in Processes : call'[q].op = call[q].op /\ call'[q].key = call[q].key

LEMMA SameButOne ==
  ASSUME HistoryInv, NEW p \in Processes, NEW c, call' = [call EXCEPT ![p] = c],
         c.op = call[p].op, c.key = call[p].key
  PROVE  SameCalls
<1>1. call = [q \in Processes |-> call[q]]
  BY DEF HistoryInv, FileInv
<1> QED BY <1>1 DEF SameCalls

LEMMA AlteredKeeps ==
  ASSUME NEW base, base = Database(base.layout, base.rows, base.tasks)
  PROVE  Altered(base) = Database(Altered(base).layout, base.rows, base.tasks)
<1> DEFINE to == CASE base.layout \in {"absent", "bare"} -> "current"
                   [] base.layout = "narrow" -> "wide"
                   [] OTHER -> base.layout
<1>1. Altered(base) = [base EXCEPT !.layout = to]
  BY DEF Altered
<1> HIDE DEF to
<1>2. base = [layout |-> base.layout, rows |-> base.rows, tasks |-> base.tasks]
  BY DEF Database
<1>3. Altered(base) = [layout |-> to, rows |-> base.rows, tasks |-> base.tasks]
  BY <1>1, <1>2
<1> QED BY <1>3 DEF Database

\* What a call means depends on what was asked and found.
LEMMA MeantTheSame ==
  ASSUME NEW c, NEW e, Meant(c), e.op = c.op, e.key = c.key, e.text = c.text,
         e.found = c.found \/ e.found = NoText, e.at = "again" => e.op = "clear"
  PROVE  Meant(e)
  BY DEF Meant

-----------------------------------------------------------------------------
(* Numbers and sequences.                                                  *)

\* Every set of numbers has a least one, and one within bounds a greatest.
LEMMA LeastNumber ==
  ASSUME NEW T \in SUBSET Nat, T # {}
  PROVE  \E x \in T : \A y \in T : x <= y
<1>1. IsWellFoundedOn(OpToRel(<, Nat), Nat)
  BY NatLessThanWellFounded
<1>2. PICK x \in T : \A y \in T : ~(<<y, x>> \in OpToRel(<, Nat))
  BY <1>1, WFMin
<1>3. ASSUME NEW y \in T PROVE x <= y
  <2>1. ~(y < x) /\ x \in Nat /\ y \in Nat
    BY <1>2 DEF OpToRel
  <2> QED BY <2>1
<1> QED BY <1>3

LEMMA LeastIn ==
  ASSUME NEW T \in SUBSET Nat, T # {}
  PROVE  Least(T) \in T
  BY LeastNumber DEF Least

LEMMA GreatestNumber ==
  ASSUME NEW n \in Nat, NEW T \in SUBSET (1 .. n), T # {}
  PROVE  \E x \in T : \A y \in T : y <= x
<1> DEFINE U == {m \in Nat : \A y \in T : y <= m}
<1>1. PICK m \in U : \A k \in U : m <= k
  <2>1. n \in U
    OBVIOUS
  <2>2. U # {} /\ U \in SUBSET Nat
    BY <2>1
  <2> HIDE DEF U
  <2> QED BY <2>2, LeastNumber
<1>2. m \in Nat /\ \A y \in T : y \in Nat /\ 1 <= y /\ y <= m
  OBVIOUS
<1>3. m \in T
  <2> SUFFICES ASSUME m \notin T PROVE FALSE
    OBVIOUS
  <2>1. PICK y \in T : TRUE
    OBVIOUS
  <2>2. m - 1 \in Nat
    BY <1>2, <2>1
  <2>3. \A z \in T : z <= m - 1
    BY <1>2
  <2>4. m - 1 \in U
    BY <2>2, <2>3
  <2> HIDE DEF U
  <2> QED BY <1>1, <1>2, <2>2, <2>4
<1> QED BY <1>2, <1>3

LEMMA TextIs ==
  ASSUME NEW S, NEW s \in Seq(S)
  PROVE  IsText(s) /\ Range(s) \subseteq S /\ DOMAIN s = 1 .. Len(s) /\ Len(s) \in Nat
<1>1. s \in [1 .. Len(s) -> S] /\ Len(s) \in Nat
  OBVIOUS
<1>2. s \in [1 .. Len(s) -> Range(s)]
  BY <1>1 DEF Range
<1>3. s \in Seq(Range(s))
  BY <1>1, <1>2
<1> QED BY <1>1, <1>3 DEF IsText, Range

LEMMA TextDomain ==
  ASSUME NEW s, IsText(s)
  PROVE  /\ DOMAIN s = 1 .. Len(s) /\ Len(s) \in Nat /\ DOMAIN s \subseteq Nat
         /\ s = [i \in DOMAIN s |-> s[i]]
         /\ (s = <<>> <=> DOMAIN s = {})
  BY DEF IsText

LEMMA TextLike ==
  ASSUME NEW s, IsText(s), NEW f, f = [i \in DOMAIN s |-> f[i]]
  PROVE  IsText(f) /\ DOMAIN f = DOMAIN s /\ Len(f) = Len(s)
<1>1. DOMAIN s = 1 .. Len(s) /\ Len(s) \in Nat
  BY TextDomain
<1>2. f \in [1 .. Len(s) -> Range(f)]
  BY <1>1 DEF Range
<1>3. f \in Seq(Range(f)) /\ Len(f) = Len(s)
  BY <1>1, <1>2
<1> QED BY <1>1, <1>2, <1>3 DEF IsText

LEMMA EmptyText == IsText(<<>>) /\ Range(<<>>) = {}
<1> DEFINE none == <<>>
<1>1. none \in Seq({})
  OBVIOUS
<1> HIDE DEF none
<1>2. IsText(none) /\ Range(none) = {}
  BY <1>1, TextIs
<1> QED BY <1>2 DEF none

LEMMA OneText ==
  ASSUME NEW x
  PROVE  IsText(<<x>>) /\ Range(<<x>>) = {x}
<1> DEFINE s == <<x>>
<1>1. s \in Seq({x}) /\ DOMAIN s = {1} /\ s[1] = x
  OBVIOUS
<1> HIDE DEF s
<1>2. IsText(s)
  BY <1>1, TextIs
<1>3. Range(s) = {x}
  BY <1>1 DEF Range
<1> QED BY <1>2, <1>3 DEF s

LEMMA JoinedText ==
  ASSUME NEW s, NEW t, IsText(s), IsText(t)
  PROVE  IsText(s \o t) /\ Range(s \o t) \subseteq Range(s) \cup Range(t)
<1> DEFINE S == Range(s) \cup Range(t)
<1>1. s \in Seq(S) /\ t \in Seq(S)
  BY DEF IsText
<1> HIDE DEF S
<1>2. s \o t \in Seq(S)
  BY <1>1
<1>3. IsText(s \o t) /\ Range(s \o t) \subseteq S
  BY <1>2, TextIs
<1> QED BY <1>3 DEF S

LEMMA AppendText ==
  ASSUME NEW s, IsText(s), NEW x
  PROVE  /\ IsText(Append(s, x)) /\ Range(Append(s, x)) = Range(s) \cup {x}
         /\ Len(Append(s, x)) = Len(s) + 1
         /\ \A i \in DOMAIN Append(s, x) : Append(s, x)[i] = IF i = Len(s) + 1 THEN x ELSE s[i]
<1> DEFINE S == Range(s) \cup {x}
<1>1. s \in Seq(S) /\ x \in S
  BY DEF IsText
<1> HIDE DEF S
<1>2. Append(s, x) \in Seq(S) /\ Len(Append(s, x)) = Len(s) + 1 /\ Len(s) \in Nat
  BY <1>1
<1>3. \A i \in 1 .. Len(s) + 1 : Append(s, x)[i] = IF i = Len(s) + 1 THEN x ELSE s[i]
  BY <1>1
<1>4. IsText(Append(s, x)) /\ DOMAIN Append(s, x) = 1 .. Len(s) + 1 /\ DOMAIN s = 1 .. Len(s)
  BY <1>1, <1>2, TextIs
<1> DEFINE a == Append(s, x)
<1>5. Range(a) = Range(s) \cup {x}
  <2>1. Len(s) + 1 \in DOMAIN a /\ a[Len(s) + 1] = x
    BY <1>2, <1>3, <1>4
  <2>2. \A i \in DOMAIN s : i \in DOMAIN a /\ a[i] = s[i]
    BY <1>2, <1>3, <1>4
  <2>3. \A i \in DOMAIN a : i = Len(s) + 1 \/ i \in DOMAIN s
    BY <1>2, <1>4
  <2> HIDE DEF a
  <2> QED BY <2>1, <2>2, <2>3 DEF Range
<1> QED BY <1>2, <1>3, <1>4, <1>5

LEMMA RestOfText ==
  ASSUME NEW s, IsText(s), s # <<>>
  PROVE  IsText(Tail(s)) /\ Range(Tail(s)) \subseteq Range(s) /\ Head(s) \in Range(s)
<1>1. s \in Seq(Range(s)) /\ Len(s) \in Nat \ {0}
  BY DEF IsText
<1>2. Tail(s) \in Seq(Range(s)) /\ Head(s) \in Range(s)
  BY <1>1
<1> QED BY <1>2, TextIs

-----------------------------------------------------------------------------
(* The operations.                                                         *)

LEMMA FoundMeans ==
  ASSUME RowsOf(file), NEW key, Found(key) # NoText
  PROVE  IsTranslated(Found(key), key.of, key.in)
<1> DEFINE hits == {r \in file.rows : r.key = key /\ r.scope = "current"}
<1>1. hits # {} /\ Found(key) = (CHOOSE r \in hits : TRUE).text
  BY DEF Found
<1>2. PICK r \in hits : Found(key) = r.text
  BY <1>1
<1>3. r \in file.rows /\ r.key = key
  BY <1>2
<1> QED BY <1>2, <1>3 DEF RowsOf

LEMMA ProvenMeans ==
  ASSUME IsText(file.tasks), TasksOf(file), NEW key, Proven(key) # NoText
  PROVE  Whole(Proven(key), key.of, key.in) /\ AllTranslated(Proven(key), key.of, key.in)
<1> DEFINE matching == {i \in DOMAIN file.tasks : file.tasks[i].key = key /\ file.tasks[i].proven}
           newest == CHOOSE i \in matching : \A j \in matching : j <= i
<1>1. matching # {} /\ Proven(key) = file.tasks[newest].text
  BY DEF Proven
<1>2. newest \in matching
  <2>1. DOMAIN file.tasks = 1 .. Len(file.tasks) /\ Len(file.tasks) \in Nat
    BY TextDomain
  <2>2. matching \in SUBSET (1 .. Len(file.tasks))
    BY <2>1
  <2> HIDE DEF matching
  <2>3. \E i \in matching : \A j \in matching : j <= i
    BY <1>1, <2>1, <2>2, GreatestNumber
  <2> QED BY <2>3
<1> HIDE DEF newest
<1>3. file.tasks[newest] \in Range(file.tasks) /\ file.tasks[newest].key = key /\ file.tasks[newest].proven
  BY <1>2 DEF Range
<1> QED BY <1>1, <1>3 DEF TasksOf

\* What HistoryInv says of an operation of p.
LEMMA HistoryFacts ==
  ASSUME HistoryInv, NEW p \in Processes
  PROVE  /\ file = Database(file.layout, file.rows, file.tasks) /\ IsText(file.tasks)
         /\ RowsOf(file) /\ TasksOf(file)
         /\ CallShape(call[p]) /\ DraftShape(draft[p]) /\ Drafted(p) /\ Meant(call[p])
         /\ call = [q \in Processes |-> call[q]] /\ draft = [q \in Processes |-> draft[q]]
         /\ \A q \in Processes : call[q].at \in Upgrading => lock = q
  BY DEF HistoryInv, FileInv, Drafted

LEMMA OpenSteps ==
  ASSUME HistoryInv, NEW p \in Processes, Open(p)
  PROVE  HistoryInv' /\ SameCalls
<1>1. CASE Answer(p, NoText, TRUE) /\ UNCHANGED <<file, lock, draft>>
  <2>1. PICK c : /\ call' = [call EXCEPT ![p] = c]
                 /\ CallShape(c) /\ c.at = "answered" /\ c.op = call[p].op /\ c.key = call[p].key
                 /\ c.text = call[p].text /\ c.found = NoText
    BY <1>1, AnswerIs, Zenon
  <2>2. Meant(c) /\ c.at \notin Upgrading
    BY <2>1, HistoryFacts, MeantTheSame DEF Upgrading
  <2> QED BY <1>1, <2>1, <2>2, CallMoves, SameButOne
<1>2. CASE /\ lock = Nobody /\ lock' = p
           /\ file' = IF file.layout = "absent" THEN [file EXCEPT !.layout = "bare"] ELSE file
           /\ draft' = [draft EXCEPT ![p] = [base |-> Altered(file), copy |-> {}]]
           /\ call' = [call EXCEPT ![p].at = IF Altered(file).layout = "wide" THEN "copy" ELSE "commit"]
  <2> DEFINE at == IF Altered(file).layout = "wide" THEN "copy" ELSE "commit"
             d == [base |-> Altered(file), copy |-> {}]
             f == IF file.layout = "absent" THEN [file EXCEPT !.layout = "bare"] ELSE file
  <2>1. at \in {"copy", "commit"} /\ call' = [call EXCEPT ![p].at = at]
    BY <1>2
  <2> HIDE DEF at
  <2>2. PICK c : /\ call' = [call EXCEPT ![p] = c]
                 /\ CallShape(c) /\ c.at = at /\ c.op = call[p].op /\ c.key = call[p].key
                 /\ c.text = call[p].text /\ c.found = call[p].found
    <3>1. Turns(p, at)
      BY <2>1 DEF Turns
    <3> QED BY <3>1, AtIs
  <2>3. file = Database(file.layout, file.rows, file.tasks)
    BY HistoryFacts
  <2>4. f = Database(f.layout, f.rows, f.tasks) /\ f.rows = file.rows /\ f.tasks = file.tasks
    BY <2>3 DEF Database
  <2>5. d = [base |-> d.base, copy |-> d.copy] /\ d.base = Altered(file)
    OBVIOUS
  <2>6. draft' = [draft EXCEPT ![p] = d] /\ file' = f
    BY <1>2
  <2> HIDE DEF d, f
  <2>7. d.base = Database(d.base.layout, f.rows, f.tasks)
    BY <2>3, <2>4, <2>5, AlteredKeeps
  <2>8. Meant(c)
    BY <2>1, <2>2, HistoryFacts, MeantTheSame
  <2>9. \A q \in Processes \ {p} : call[q].at \notin Upgrading
    BY <1>2, HistoryFacts, NobodyAssumption
  <2>10. IsText(f.tasks) /\ RowsOf(f) /\ TasksOf(f)
    BY <2>4, HistoryFacts DEF RowsOf, TasksOf
  <2>11. DraftShape(d) /\ c.at # "swap"
    BY <2>1, <2>2, <2>5 DEF DraftShape
  <2>12. HistoryInv'
    BY <1>2, <2>2, <2>4, <2>6, <2>7, <2>8, <2>9, <2>10, <2>11, DatabaseMoves
  <2> QED BY <2>2, <2>12, SameButOne
<1> QED BY <1>1, <1>2, Zenon DEF Open

LEMMA CopySteps ==
  ASSUME HistoryInv, NEW p \in Processes, CopyRows(p)
  PROVE  HistoryInv' /\ SameCalls
<1> DEFINE d == [draft[p] EXCEPT !.copy = draft[p].base.rows]
<1>1. PICK c : /\ call' = [call EXCEPT ![p] = c]
               /\ CallShape(c) /\ c.at = "swap" /\ c.op = call[p].op /\ c.key = call[p].key
               /\ c.text = call[p].text /\ c.found = call[p].found
  <2>1. Turns(p, "swap")
    BY DEF Turns, CopyRows
  <2> QED BY <2>1, AtIs
<1>2. Drafted(p) /\ DraftShape(draft[p]) /\ call[p].at = "copy" /\ UNCHANGED <<file, lock>>
  BY HistoryFacts DEF CopyRows
<1>3. draft' = [draft EXCEPT ![p] = d]
  BY HistoryFacts DEF CopyRows
<1>4. d = [base |-> draft[p].base, copy |-> draft[p].base.rows]
  BY <1>2 DEF DraftShape
<1> HIDE DEF d
<1>5. /\ lock' = p /\ draft[p].base = Database(draft[p].base.layout, file.rows, file.tasks)
      /\ draft[p].base.rows = file.rows
  BY <1>2 DEF Drafted, Upgrading, Database
<1>6. DraftShape(d) /\ d.base = Database(d.base.layout, file.rows, file.tasks) /\ d.copy = file.rows
  BY <1>4, <1>5 DEF DraftShape
<1>7. Meant(c)
  BY <1>1, HistoryFacts, MeantTheSame
<1>8. \A q \in Processes \ {p} : call[q].at \notin Upgrading
  BY <1>2, <1>5, HistoryFacts
<1>9. HistoryInv'
  BY <1>1, <1>2, <1>3, <1>5, <1>6, <1>7, <1>8, HistoryFacts, DatabaseMoves
<1> QED BY <1>1, <1>9, SameButOne

LEMMA SwapSteps ==
  ASSUME HistoryInv, NEW p \in Processes, SwapTables(p)
  PROVE  HistoryInv' /\ SameCalls
<1> DEFINE d == [draft[p] EXCEPT !.base = Database("current", draft[p].copy, @.tasks)]
<1>1. PICK c : /\ call' = [call EXCEPT ![p] = c]
               /\ CallShape(c) /\ c.at = "commit" /\ c.op = call[p].op /\ c.key = call[p].key
               /\ c.text = call[p].text /\ c.found = call[p].found
  <2>1. Turns(p, "commit")
    BY DEF Turns, SwapTables
  <2> QED BY <2>1, AtIs
<1>2. Drafted(p) /\ DraftShape(draft[p]) /\ call[p].at = "swap" /\ UNCHANGED <<file, lock>>
  BY HistoryFacts DEF SwapTables
<1>3. draft' = [draft EXCEPT ![p] = d]
  BY HistoryFacts DEF SwapTables
<1>4. d = [base |-> Database("current", draft[p].copy, draft[p].base.tasks), copy |-> draft[p].copy]
  BY <1>2 DEF DraftShape
<1> HIDE DEF d
<1>5. /\ lock' = p /\ draft[p].base = Database(draft[p].base.layout, file.rows, file.tasks)
      /\ draft[p].base.tasks = file.tasks /\ draft[p].copy = file.rows
  BY <1>2 DEF Drafted, Upgrading, Database
<1>6. DraftShape(d) /\ d.base = Database(d.base.layout, file.rows, file.tasks)
  BY <1>4, <1>5 DEF DraftShape, Database
<1>7. Meant(c)
  BY <1>1, HistoryFacts, MeantTheSame
<1>8. \A q \in Processes \ {p} : call[q].at \notin Upgrading
  BY <1>2, <1>5, HistoryFacts
<1>9. HistoryInv'
  BY <1>1, <1>2, <1>3, <1>5, <1>6, <1>7, <1>8, HistoryFacts, DatabaseMoves
<1> QED BY <1>1, <1>9, SameButOne

LEMMA NoDraftShape == DraftShape(NoDraft)
  BY DEF DraftShape, NoDraft

LEMMA CommitSteps ==
  ASSUME HistoryInv, NEW p \in Processes, Commit(p)
  PROVE  /\ HistoryInv' /\ SameCalls
         /\ file'.rows = file.rows /\ file'.tasks = file.tasks
<1>1. PICK c : /\ call' = [call EXCEPT ![p] = c]
               /\ CallShape(c) /\ c.at = "act" /\ c.op = call[p].op /\ c.key = call[p].key
               /\ c.text = call[p].text /\ c.found = call[p].found
  <2>1. Turns(p, "act")
    BY DEF Turns, Commit
  <2> QED BY <2>1, AtIs
<1>2. /\ Drafted(p) /\ call[p].at = "commit" /\ file' = draft[p].base /\ lock' = Nobody
      /\ draft' = [draft EXCEPT ![p] = NoDraft]
  BY HistoryFacts DEF Commit
<1>3. lock = p /\ draft[p].base = Database(draft[p].base.layout, file.rows, file.tasks)
  BY <1>2 DEF Drafted, Upgrading
<1>4. draft[p].base.rows = file.rows /\ draft[p].base.tasks = file.tasks
  BY <1>3 DEF Database
<1>5. /\ draft[p].base = Database(draft[p].base.layout, draft[p].base.rows, draft[p].base.tasks)
      /\ IsText(draft[p].base.tasks) /\ RowsOf(draft[p].base) /\ TasksOf(draft[p].base)
  BY <1>3, <1>4, HistoryFacts DEF RowsOf, TasksOf
<1>6. Meant(c)
  BY <1>1, HistoryFacts, MeantTheSame
<1>7. \A q \in Processes \ {p} : call[q].at \notin Upgrading
  BY <1>3, HistoryFacts
<1>8. c.at \notin Upgrading /\ c.at # "swap"
  BY <1>1 DEF Upgrading
<1>9. HistoryInv'
  BY <1>1, <1>2, <1>5, <1>6, <1>7, <1>8, NoDraftShape, DatabaseMoves
<1> QED BY <1>1, <1>2, <1>4, <1>9, SameButOne

\* The transaction of p is dropped, whether it has one or not.
LEMMA Dropping ==
  ASSUME HistoryInv, NEW p \in Processes, NEW c,
         lock' = IF lock = p THEN Nobody ELSE lock,
         draft' = [draft EXCEPT ![p] = NoDraft], call' = [call EXCEPT ![p] = c], UNCHANGED file,
         CallShape(c), Meant(c), c.at \notin Upgrading
  PROVE  /\ HistoryInv' /\ call'[p] = c
         /\ \A q \in Processes \ {p} : call'[q] = call[q]
<1>1. \A q \in Processes \ {p} : call[q].at \in Upgrading =>
         lock' = q /\ file.rows = file.rows /\ file.tasks = file.tasks
  BY HistoryFacts
<1>2. c.at # "swap"
  BY DEF Upgrading
<1>3. HistoryInv'
  BY <1>1, <1>2, NoDraftShape, HistoryFacts, DatabaseMoves
<1> QED BY <1>3, HistoryFacts

LEMMA GiveUpSteps ==
  ASSUME HistoryInv, NEW p \in Processes, GiveUp(p)
  PROVE  HistoryInv' /\ SameCalls
<1>a. Answer(p, NoText, FALSE)
  BY Zenon DEF GiveUp
<1>1. PICK c : /\ call' = [call EXCEPT ![p] = c]
               /\ CallShape(c) /\ c.at = "answered" /\ c.op = call[p].op /\ c.key = call[p].key
               /\ c.text = call[p].text /\ c.found = NoText
  BY <1>a, AnswerIs, Zenon
<1>2. Meant(c) /\ c.at \notin Upgrading
  BY <1>1, HistoryFacts, MeantTheSame DEF Upgrading
<1>3. HistoryInv'
  BY <1>1, <1>2, Dropping DEF GiveUp
<1> QED BY <1>1, <1>3, SameButOne

\* An operation that answers with what it has found.
LEMMA Answering ==
  ASSUME HistoryInv, NEW p \in Processes, UNCHANGED <<file, lock, draft>>,
         NEW found, Answer(p, found, TRUE),
         \A c : c.op = call[p].op /\ c.key = call[p].key /\ c.text = call[p].text /\ c.found = found
                /\ c.at = "answered" => Meant(c)
  PROVE  HistoryInv' /\ SameCalls
<1>1. PICK c : /\ call' = [call EXCEPT ![p] = c]
               /\ CallShape(c) /\ c.at = "answered" /\ c.op = call[p].op /\ c.key = call[p].key
               /\ c.text = call[p].text /\ c.found = found
  BY AnswerIs, Zenon
<1>2. c.at \notin Upgrading /\ Meant(c)
  BY <1>1 DEF Upgrading
<1>3. HistoryInv'
  BY <1>1, <1>2, CallMoves
<1> QED BY <1>1, <1>3, SameButOne

LEMMA ReadSteps ==
  ASSUME HistoryInv, NEW p \in Processes, Read(p)
  PROVE  HistoryInv' /\ SameCalls
<1>0. UNCHANGED <<file, lock, draft>>
  BY DEF Read
<1>1. CASE call[p].op = "find" /\ Answer(p, Found(call[p].key), TRUE)
  <2>1. Found(call[p].key) # NoText =>
          IsTranslated(Found(call[p].key), call[p].key.of, call[p].key.in)
    BY HistoryFacts, FoundMeans
  <2>2. ASSUME NEW c, c.op = call[p].op, c.key = call[p].key, c.found = Found(call[p].key),
               c.at = "answered"
        PROVE  Meant(c)
    BY <1>1, <2>1, <2>2 DEF Meant
  <2> QED BY <1>0, <1>1, <2>2, Answering
<1>2. CASE call[p].op = "replay" /\ Answer(p, Proven(call[p].key), TRUE)
  <2>1. Proven(call[p].key) # NoText =>
          /\ Whole(Proven(call[p].key), call[p].key.of, call[p].key.in)
          /\ AllTranslated(Proven(call[p].key), call[p].key.of, call[p].key.in)
    BY HistoryFacts, ProvenMeans
  <2>2. ASSUME NEW c, c.op = call[p].op, c.key = call[p].key, c.found = Proven(call[p].key),
               c.at = "answered"
        PROVE  Meant(c)
    BY <1>2, <2>1, <2>2 DEF Meant
  <2> QED BY <1>0, <1>2, <2>2, Answering
<1>3. CASE /\ call[p].op \in {"count", "estimate", "recall"}
           /\ \E found : Answer(p, found, TRUE)
  <2>1. PICK found : Answer(p, found, TRUE)
    BY <1>3
  <2>2. ASSUME NEW c, c.op = call[p].op, c.at = "answered" PROVE Meant(c)
    BY <1>3, <2>2 DEF Meant
  <2> QED BY <1>0, <2>1, <2>2, Answering
<1>4. \/ call[p].op = "find" /\ Answer(p, Found(call[p].key), TRUE)
      \/ call[p].op = "replay" /\ Answer(p, Proven(call[p].key), TRUE)
      \/ call[p].op \in {"count", "estimate", "recall"} /\ \E found : Answer(p, found, TRUE)
  BY Zenon DEF Read
<1> QED BY <1>1, <1>2, <1>3, <1>4

LEMMA StoreRowSteps ==
  ASSUME HistoryInv, NEW p \in Processes, StoreRow(p)
  PROVE  HistoryInv' /\ SameCalls
<1> DEFINE stale(r) == r.key = call[p].key /\ r.scope = "current"
           row == [key |-> call[p].key, scope |-> "current", text |-> call[p].text]
           rows == {r \in file.rows : ~stale(r)} \cup {row}
           f == [file EXCEPT !.rows = rows]
<1>a. Answer(p, NoText, TRUE)
  BY Zenon DEF StoreRow
<1>1. PICK c : /\ call' = [call EXCEPT ![p] = c]
               /\ CallShape(c) /\ c.at = "answered" /\ c.op = call[p].op /\ c.key = call[p].key
               /\ c.text = call[p].text /\ c.found = NoText
  BY <1>a, AnswerIs, Zenon
<1>2. file' = f /\ UNCHANGED <<lock, draft>> /\ lock = Nobody /\ call[p].op = "store"
  BY DEF StoreRow
<1>3. file = [layout |-> file.layout, rows |-> file.rows, tasks |-> file.tasks]
  BY HistoryFacts DEF Database
<1>4. \A r \in rows : IsTranslated(r.text, r.key.of, r.key.in)
  <2>1. IsTranslated(row.text, row.key.of, row.key.in)
    BY <1>2, HistoryFacts DEF Meant
  <2>2. \A r \in file.rows : IsTranslated(r.text, r.key.of, r.key.in)
    BY HistoryFacts DEF RowsOf
  <2> HIDE DEF stale, row
  <2> QED BY <2>1, <2>2
<1> HIDE DEF rows
<1>5. f = [layout |-> file.layout, rows |-> rows, tasks |-> file.tasks]
  BY <1>3
<1> HIDE DEF f
<1>6. /\ f = Database(f.layout, f.rows, f.tasks) /\ f.rows = rows /\ f.tasks = file.tasks
  BY <1>5 DEF Database
<1>7. IsText(f.tasks) /\ RowsOf(f) /\ TasksOf(f)
  BY <1>4, <1>6, HistoryFacts DEF RowsOf, TasksOf
<1>8. Meant(c) /\ c.at \notin Upgrading /\ c.at # "swap"
  BY <1>1, HistoryFacts, MeantTheSame DEF Upgrading
<1>9. \A q \in Processes \ {p} : call[q].at \notin Upgrading
  BY <1>2, HistoryFacts, NobodyAssumption
<1>10. draft' = [draft EXCEPT ![p] = draft[p]] /\ DraftShape(draft[p])
  BY <1>2, HistoryFacts
<1>11. HistoryInv'
  BY <1>1, <1>2, <1>6, <1>7, <1>8, <1>9, <1>10, DatabaseMoves
<1> QED BY <1>1, <1>11, SameButOne

LEMMA InsertSteps ==
  ASSUME HistoryInv, NEW p \in Processes, Insert(p)
  PROVE  HistoryInv' /\ SameCalls
<1> DEFINE task == [key |-> call[p].key, text |-> call[p].text, proven |-> call[p].op = "prove"]
           tasks == Append(file.tasks, task)
           f == [file EXCEPT !.tasks = tasks]
<1>a. Answer(p, NoText, TRUE)
  BY Zenon DEF Insert
<1>1. PICK c : /\ call' = [call EXCEPT ![p] = c]
               /\ CallShape(c) /\ c.at = "answered" /\ c.op = call[p].op /\ c.key = call[p].key
               /\ c.text = call[p].text /\ c.found = NoText
  BY <1>a, AnswerIs, Zenon
<1>2. file' = f /\ UNCHANGED <<lock, draft>> /\ lock = Nobody /\ call[p].op \in {"insert", "prove"}
  BY DEF Insert
<1>3. file = [layout |-> file.layout, rows |-> file.rows, tasks |-> file.tasks]
  BY HistoryFacts DEF Database
<1>4. /\ Whole(task.text, task.key.of, task.key.in)
      /\ task.proven => AllTranslated(task.text, task.key.of, task.key.in)
  <2>1. task.key = call[p].key /\ task.text = call[p].text
    OBVIOUS
  <2>2. task.proven => call[p].op = "prove"
    BY Zenon
  <2>3. Meant(call[p])
    BY HistoryFacts
  <2> HIDE DEF task
  <2> QED BY <1>2, <2>1, <2>2, <2>3 DEF Meant
<1> HIDE DEF task
<1>5. IsText(tasks) /\ Range(tasks) = Range(file.tasks) \cup {task}
  BY HistoryFacts, AppendText
<1> HIDE DEF tasks
<1>6. f = [layout |-> file.layout, rows |-> file.rows, tasks |-> tasks]
  BY <1>3
<1> HIDE DEF f
<1>7. /\ f = Database(f.layout, f.rows, f.tasks) /\ f.rows = file.rows /\ f.tasks = tasks
  BY <1>6 DEF Database
<1>8. IsText(f.tasks) /\ RowsOf(f) /\ TasksOf(f)
  <2>1. RowsOf(f)
    BY <1>7, HistoryFacts DEF RowsOf
  <2>2. \A t \in Range(file.tasks) : /\ Whole(t.text, t.key.of, t.key.in)
                                     /\ t.proven => AllTranslated(t.text, t.key.of, t.key.in)
    BY HistoryFacts, Zenon DEF TasksOf
  <2>3. \A t \in Range(tasks) : t \in Range(file.tasks) \/ t = task
    BY <1>5
  <2>4. \A t \in Range(tasks) : /\ Whole(t.text, t.key.of, t.key.in)
                                /\ t.proven => AllTranslated(t.text, t.key.of, t.key.in)
    BY <1>4, <2>2, <2>3, Zenon
  <2>5. TasksOf(f)
    BY <1>7, <2>4, Zenon DEF TasksOf
  <2> QED BY <1>5, <1>7, <2>1, <2>5
<1>9. Meant(c) /\ c.at \notin Upgrading /\ c.at # "swap"
  BY <1>1, HistoryFacts, MeantTheSame DEF Upgrading
<1>10. \A q \in Processes \ {p} : call[q].at \notin Upgrading
  BY <1>2, HistoryFacts, NobodyAssumption
<1>11. draft' = [draft EXCEPT ![p] = draft[p]] /\ DraftShape(draft[p])
  BY <1>2, HistoryFacts
<1>12. HistoryInv'
  BY <1>1, <1>2, <1>7, <1>8, <1>9, <1>10, <1>11, DatabaseMoves
<1> QED BY <1>1, <1>12, SameButOne

LEMMA ClearSegmentsSteps ==
  ASSUME HistoryInv, NEW p \in Processes, ClearSegments(p)
  PROVE  HistoryInv' /\ SameCalls
<1> DEFINE f == [file EXCEPT !.rows = {}]
<1>1. PICK c : /\ call' = [call EXCEPT ![p] = c]
               /\ CallShape(c) /\ c.at = "again" /\ c.op = call[p].op /\ c.key = call[p].key
               /\ c.text = call[p].text /\ c.found = call[p].found
  <2>1. Turns(p, "again")
    BY DEF Turns, ClearSegments
  <2> QED BY <2>1, AtIs
<1>2. file' = f /\ UNCHANGED <<lock, draft>> /\ lock = Nobody /\ call[p].op = "clear"
  BY DEF ClearSegments
<1>3. file = [layout |-> file.layout, rows |-> file.rows, tasks |-> file.tasks]
  BY HistoryFacts DEF Database
<1>4. f = [layout |-> file.layout, rows |-> {}, tasks |-> file.tasks]
  BY <1>3
<1> HIDE DEF f
<1>5. f = Database(f.layout, f.rows, f.tasks) /\ f.rows = {} /\ f.tasks = file.tasks
  BY <1>4 DEF Database
<1>6. IsText(f.tasks) /\ RowsOf(f) /\ TasksOf(f)
  BY <1>5, HistoryFacts DEF RowsOf, TasksOf
<1>7. Meant(c) /\ c.at \notin Upgrading /\ c.at # "swap"
  BY <1>1, <1>2, HistoryFacts, MeantTheSame DEF Upgrading
<1>8. \A q \in Processes \ {p} : call[q].at \notin Upgrading
  BY <1>2, HistoryFacts, NobodyAssumption
<1>9. draft' = [draft EXCEPT ![p] = draft[p]] /\ DraftShape(draft[p])
  BY <1>2, HistoryFacts
<1>10. HistoryInv'
  BY <1>1, <1>2, <1>5, <1>6, <1>7, <1>8, <1>9, DatabaseMoves
<1> QED BY <1>1, <1>10, SameButOne

LEMMA ClearTasksSteps ==
  ASSUME HistoryInv, NEW p \in Processes, ClearTasks(p)
  PROVE  HistoryInv' /\ SameCalls
<1> DEFINE f == [file EXCEPT !.tasks = <<>>]
<1>a. Answer(p, NoText, TRUE)
  BY Zenon DEF ClearTasks
<1>1. PICK c : /\ call' = [call EXCEPT ![p] = c]
               /\ CallShape(c) /\ c.at = "answered" /\ c.op = call[p].op /\ c.key = call[p].key
               /\ c.text = call[p].text /\ c.found = NoText
  BY <1>a, AnswerIs, Zenon
<1>2. file' = f /\ UNCHANGED <<lock, draft>> /\ lock = Nobody
  BY DEF ClearTasks
<1>3. file = [layout |-> file.layout, rows |-> file.rows, tasks |-> file.tasks]
  BY HistoryFacts DEF Database
<1>4. f = [layout |-> file.layout, rows |-> file.rows, tasks |-> <<>>]
  BY <1>3
<1> HIDE DEF f
<1>5. f = Database(f.layout, f.rows, f.tasks) /\ f.rows = file.rows /\ f.tasks = <<>>
  BY <1>4 DEF Database
<1>6. IsText(f.tasks) /\ RowsOf(f) /\ TasksOf(f)
  BY <1>5, HistoryFacts, EmptyText DEF RowsOf, TasksOf
<1>7. Meant(c) /\ c.at \notin Upgrading /\ c.at # "swap"
  BY <1>1, HistoryFacts, MeantTheSame DEF Upgrading
<1>8. \A q \in Processes \ {p} : call[q].at \notin Upgrading
  BY <1>2, HistoryFacts, NobodyAssumption
<1>9. draft' = [draft EXCEPT ![p] = draft[p]] /\ DraftShape(draft[p])
  BY <1>2, HistoryFacts
<1>10. HistoryInv'
  BY <1>1, <1>2, <1>5, <1>6, <1>7, <1>8, <1>9, DatabaseMoves
<1> QED BY <1>1, <1>10, SameButOne

LEMMA DatabaseSteps ==
  ASSUME HistoryInv, NEW p \in Processes, DatabaseStep(p) \/ GiveUp(p)
  PROVE  HistoryInv' /\ SameCalls
  BY OpenSteps, CopySteps, SwapSteps, CommitSteps, GiveUpSteps, ReadSteps, StoreRowSteps,
     InsertSteps, ClearSegmentsSteps, ClearTasksSteps DEF DatabaseStep

-----------------------------------------------------------------------------
(* What the steps of a translation do.                                     *)

\* What is asked of the history, when it means what it should.
LEMMA AskMoves ==
  ASSUME HistoryInv, NEW p \in Processes, UNCHANGED <<file, lock, draft>>,
         NEW op, NEW key, NEW text, Asks(p, op, key, text),
         op = "store" => IsTranslated(text, key.of, key.in),
         op \in {"insert", "prove"} => Whole(text, key.of, key.in),
         op = "prove" => AllTranslated(text, key.of, key.in)
  PROVE  /\ HistoryInv' /\ call'[p].op = op /\ call'[p].key = key
         /\ \A q \in Processes \ {p} : call'[q] = call[q]
<1>2. PICK c : /\ c = Calling(op, key, text)
               /\ CallShape(c) /\ c.at = "open" /\ c.op = op /\ c.key = key /\ c.text = text
               /\ c.found = NoText
  BY AskedCalls
<1>1. call' = [call EXCEPT ![p] = c]
  BY <1>2 DEF Asks
<1>3. Meant(c) /\ c.at \notin Upgrading
  BY <1>2 DEF Meant, Upgrading
<1> QED BY <1>1, <1>2, <1>3, CallMoves

LEMMA HangsUp ==
  ASSUME HistoryInv, NEW p \in Processes, UNCHANGED <<file, lock, draft>>,
         call' = [call EXCEPT ![p] = NoCall]
  PROVE  /\ HistoryInv' /\ call'[p] = NoCall
         /\ \A q \in Processes \ {p} : call'[q] = call[q]
<1>1. NoCall.at \notin Upgrading
  BY NoCallMeans DEF Upgrading
<1> QED BY <1>1, NoCallMeans, CallMoves

LEMMA HistoryStays ==
  ASSUME HistoryInv, UNCHANGED database
  PROVE  HistoryInv'
<1>1. UNCHANGED <<file, lock, draft, call>>
  BY DEF database
<1>2. FileInv'
  <2>1. FileInv
    BY DEF HistoryInv
  <2> QED BY <1>1, <2>1 DEF FileInv, Drafted
<1> QED BY <1>1, <1>2 DEF HistoryInv

\* A translation of p becomes t.
LEMMA TranslationMoves ==
  ASSUME TranslationInv, NEW p \in Processes, NEW t,
         tr' = [tr EXCEPT ![p] = t], UNCHANGED job, Holds(t, call'[p]),
         \A q \in Processes \ {p} : call'[q] = call[q]
  PROVE  /\ TranslationInv' /\ tr'[p] = t
         /\ \A q \in Processes \ {p} : tr'[q] = tr[q]
<1>1. tr = [q \in Processes |-> tr[q]] /\ job \in Jobs /\ \A q \in Processes : Holds(tr[q], call[q])
  BY DEF TranslationInv
<1>2. /\ tr' = [q \in Processes |-> tr'[q]] /\ tr'[p] = t
      /\ \A q \in Processes \ {p} : tr'[q] = tr[q]
  BY <1>1
<1>3. ASSUME NEW q \in Processes PROVE Holds(tr[q], call[q])'
  BY <1>1, <1>2
<1>4. TranslationInv'
  BY <1>1, <1>2, <1>3 DEF TranslationInv
<1> QED BY <1>2, <1>4

LEMMA HoldsTheSame ==
  ASSUME NEW t, NEW c, NEW e, Holds(t, c), e.op = c.op, e.key = c.key
  PROVE  Holds(t, e)
  BY DEF Holds

LEMMA TranslationStays ==
  ASSUME TranslationInv, UNCHANGED <<job, tr>>, SameCalls
  PROVE  TranslationInv'
<1>1. tr = [q \in Processes |-> tr[q]] /\ job \in Jobs
  BY DEF TranslationInv
<1>2. ASSUME NEW q \in Processes PROVE Holds(tr[q], call[q])'
  <2>1. Holds(tr[q], call[q]) /\ call'[q].op = call[q].op /\ call'[q].key = call[q].key
    BY DEF TranslationInv, SameCalls
  <2>2. tr'[q] = tr[q]
    OBVIOUS
  <2> QED BY <2>1, <2>2, HoldsTheSame
<1> QED BY <1>1, <1>2 DEF TranslationInv

LEMMA TranslationFacts ==
  ASSUME TranslationInv, NEW p \in Processes
  PROVE  /\ tr = [q \in Processes |-> tr[q]] /\ Holds(tr[p], call[p])
         /\ TrShape(tr[p]) /\ IsText(tr[p].source)
  BY DEF TranslationInv, Holds

\* The translation of p goes on to its next step, with what it has by then.
LEMMA EndsAt ==
  ASSUME TranslationInv, NEW p \in Processes, NEW step, Ends(p, step)
  PROVE  \E t : /\ tr' = [tr EXCEPT ![p] = t]
                /\ TrShape(t) /\ t.at = step /\ t.source = tr[p].source /\ t.lang = tr[p].lang
                /\ t.next = tr[p].next /\ t.out = tr[p].out /\ t.keep = tr[p].keep
                /\ t.proof = tr[p].proof
<1>1. tr = [q \in Processes |-> tr[q]] /\ TrShape(tr[p])
  BY TranslationFacts
<1> DEFINE t == [tr[p] EXCEPT !.at = step]
<1>2. t = [at |-> step, source |-> tr[p].source, lang |-> tr[p].lang, known |-> tr[p].known,
           next |-> tr[p].next, out |-> tr[p].out, keep |-> tr[p].keep, proof |-> tr[p].proof]
  BY <1>1 DEF TrShape
<1>3. tr' = [tr EXCEPT ![p] = t]
  BY <1>1 DEF Ends
<1> HIDE DEF t
<1>4. /\ TrShape(t) /\ t.at = step /\ t.source = tr[p].source /\ t.lang = tr[p].lang
      /\ t.next = tr[p].next /\ t.out = tr[p].out /\ t.keep = tr[p].keep
      /\ t.proof = tr[p].proof
  BY <1>2 DEF TrShape
<1> QED BY <1>3, <1>4

Sets(p, known, out, step) ==
    tr' = [tr EXCEPT ![p].known = known, ![p].out = out, ![p].at = step]

LEMMA SetsOut ==
  ASSUME TranslationInv, NEW p \in Processes, NEW known, NEW out, NEW step, Sets(p, known, out, step)
  PROVE  \E t : /\ tr' = [tr EXCEPT ![p] = t]
                /\ TrShape(t) /\ t.at = step /\ t.source = tr[p].source /\ t.lang = tr[p].lang
                /\ t.next = tr[p].next /\ t.out = out /\ t.keep = tr[p].keep
                /\ t.proof = tr[p].proof
<1>1. tr = [q \in Processes |-> tr[q]] /\ TrShape(tr[p])
  BY TranslationFacts
<1> DEFINE r == [tr[p] EXCEPT !.known = known]
           s == [r EXCEPT !.out = out]
           t == [s EXCEPT !.at = step]
<1>2. r = [at |-> tr[p].at, source |-> tr[p].source, lang |-> tr[p].lang, known |-> known,
           next |-> tr[p].next, out |-> tr[p].out, keep |-> tr[p].keep, proof |-> tr[p].proof]
  BY <1>1 DEF TrShape
<1>3. tr' = [tr EXCEPT ![p] = t]
  BY <1>1 DEF Sets
<1> HIDE DEF r
<1>4. s = [at |-> tr[p].at, source |-> tr[p].source, lang |-> tr[p].lang, known |-> known,
           next |-> tr[p].next, out |-> out, keep |-> tr[p].keep, proof |-> tr[p].proof]
  BY <1>2
<1> HIDE DEF s
<1>5. t = [at |-> step, source |-> tr[p].source, lang |-> tr[p].lang, known |-> known,
           next |-> tr[p].next, out |-> out, keep |-> tr[p].keep, proof |-> tr[p].proof]
  BY <1>4
<1> HIDE DEF t
<1>6. /\ TrShape(t) /\ t.at = step /\ t.source = tr[p].source /\ t.lang = tr[p].lang
      /\ t.next = tr[p].next /\ t.out = out /\ t.keep = tr[p].keep
      /\ t.proof = tr[p].proof
  BY <1>5 DEF TrShape
<1> QED BY <1>3, <1>6

Turned(p, known, step, next) ==
    tr' = [tr EXCEPT ![p].known = known, ![p].at = step, ![p].next = next]

LEMMA TurnsTo ==
  ASSUME TranslationInv, NEW p \in Processes, NEW known, NEW step, NEW next, Turned(p, known, step, next)
  PROVE  \E t : /\ tr' = [tr EXCEPT ![p] = t]
                /\ TrShape(t) /\ t.at = step /\ t.source = tr[p].source /\ t.lang = tr[p].lang
                /\ t.next = next /\ t.out = tr[p].out /\ t.keep = tr[p].keep
                /\ t.proof = tr[p].proof
<1>1. tr = [q \in Processes |-> tr[q]] /\ TrShape(tr[p])
  BY TranslationFacts
<1> DEFINE r == [tr[p] EXCEPT !.known = known]
           s == [r EXCEPT !.at = step]
           t == [s EXCEPT !.next = next]
<1>2. r = [at |-> tr[p].at, source |-> tr[p].source, lang |-> tr[p].lang, known |-> known,
           next |-> tr[p].next, out |-> tr[p].out, keep |-> tr[p].keep, proof |-> tr[p].proof]
  BY <1>1 DEF TrShape
<1>3. tr' = [tr EXCEPT ![p] = t]
  BY <1>1 DEF Turned
<1> HIDE DEF r
<1>4. s = [at |-> step, source |-> tr[p].source, lang |-> tr[p].lang, known |-> known,
           next |-> tr[p].next, out |-> tr[p].out, keep |-> tr[p].keep, proof |-> tr[p].proof]
  BY <1>2
<1> HIDE DEF s
<1>5. t = [at |-> step, source |-> tr[p].source, lang |-> tr[p].lang, known |-> known,
           next |-> next, out |-> tr[p].out, keep |-> tr[p].keep, proof |-> tr[p].proof]
  BY <1>4
<1> HIDE DEF t
<1>6. /\ TrShape(t) /\ t.at = step /\ t.source = tr[p].source /\ t.lang = tr[p].lang
      /\ t.next = next /\ t.out = tr[p].out /\ t.keep = tr[p].keep
      /\ t.proof = tr[p].proof
  BY <1>5 DEF TrShape
<1> QED BY <1>3, <1>6

\* The translation under way keeps its text and language, and is one.
Advances(p) ==
    /\ HistoryInv' /\ TranslationInv'
    /\ tr[p].at \notin Resting
    /\ tr'[p].source = tr[p].source /\ tr'[p].lang = tr[p].lang
    /\ \A q \in Processes \ {p} : tr'[q] = tr[q]

\* What holds of the outputs while segments are missing.
Partly(t) ==
    /\ DOMAIN t.out = DOMAIN t.source /\ t.out = [i \in DOMAIN t.out |-> t.out[i]]
    /\ \A i \in DOMAIN t.out : t.out[i] = NoText \/ IsTranslated(t.out[i], t.source[i], t.lang)

LEMMA HoldsPartly ==
  ASSUME NEW t, NEW c, TrShape(t), IsText(t.source), t.at \in Lacking, Partly(t),
         t.at = "replay" => c.op = "replay" /\ c.key = Key(t.source, t.lang),
         t.at = "lookup" => c.op = "find" /\ c.key = Key(t.source[t.next], t.lang)
  PROVE  Holds(t, c)
<1>1. t.at \notin {"store", "record", "done"} /\ t.at # "store"
  BY DEF Lacking
<1> QED BY <1>1, Zenon DEF Holds, Partly

LEMMA PartlyHolds ==
  ASSUME NEW t, NEW c, Holds(t, c), t.at \in Lacking
  PROVE  Partly(t)
  BY Zenon DEF Holds, Partly

LEMMA EndsSteps ==
  ASSUME HistoryInv, TranslationInv, NEW p \in Processes, UNCHANGED <<file, lock, draft>>,
         UNCHANGED job, UNCHANGED call, NEW step, Ends(p, step), tr[p].at \notin Resting,
         step \in {"prepare", "generate"} => Partly(tr[p]),
         step \in {"prepare", "generate", "failed"}
  PROVE  Advances(p)
<1>1. PICK t : /\ tr' = [tr EXCEPT ![p] = t]
               /\ TrShape(t) /\ t.at = step /\ t.source = tr[p].source /\ t.lang = tr[p].lang
               /\ t.next = tr[p].next /\ t.out = tr[p].out /\ t.keep = tr[p].keep
               /\ t.proof = tr[p].proof
  BY EndsAt
<1>2. IsText(tr[p].source)
  BY TranslationFacts
<1>3. CASE step = "failed"
  <2>1. Holds(t, call'[p])
    BY <1>1, <1>2, <1>3 DEF Holds, Lacking
  <2> QED BY <1>1, <2>1, TranslationMoves, HistoryStays DEF Advances, database
<1>4. CASE step # "failed"
  <2>1. t.at \in Lacking /\ t.at \notin {"replay", "lookup"} /\ Partly(t)
    BY <1>1, <1>4 DEF Lacking, Partly
  <2>2. Holds(t, call'[p])
    BY <1>1, <1>2, <2>1, HoldsPartly
  <2> QED BY <1>1, <2>2, TranslationMoves, HistoryStays DEF Advances, database
<1> QED BY <1>3, <1>4

LEMMA ReplaySteps ==
  ASSUME HistoryInv, TranslationInv, NEW p \in Processes, UNCHANGED <<file, lock, draft>>, Replay(p)
  PROVE  Advances(p)
<1>1. /\ tr[p].at = "replay" /\ call[p].op = "replay" /\ call[p].key = Key(tr[p].source, tr[p].lang)
      /\ Partly(tr[p]) /\ UNCHANGED job
  BY TranslationFacts, PartlyHolds DEF Replay, Holds, Lacking
<1>2. CASE call[p].found = NoText /\ Ends(p, "prepare") /\ UNCHANGED call
  BY <1>1, <1>2, EndsSteps DEF Resting
<1>3. CASE /\ call[p].found # NoText
           /\ tr' = [tr EXCEPT ![p].at = "record", ![p].out = call[p].found]
           /\ Asks(p, "insert", Key(tr[p].source, tr[p].lang), call[p].found)
  <2>1. PICK found : found = call[p].found
    OBVIOUS
  <2> DEFINE s == [tr[p] EXCEPT !.at = "record"]
             t == [s EXCEPT !.out = found]
  <2>2. tr = [q \in Processes |-> tr[q]] /\ TrShape(tr[p]) /\ IsText(tr[p].source)
    BY TranslationFacts
  <2>3. s = [at |-> "record", source |-> tr[p].source, lang |-> tr[p].lang, known |-> tr[p].known,
             next |-> tr[p].next, out |-> tr[p].out, keep |-> tr[p].keep, proof |-> tr[p].proof]
    BY <2>2 DEF TrShape
  <2>4. tr' = [tr EXCEPT ![p] = t]
    BY <1>3, <2>1, <2>2
  <2> HIDE DEF s
  <2>5. t = [at |-> "record", source |-> tr[p].source, lang |-> tr[p].lang, known |-> tr[p].known,
             next |-> tr[p].next, out |-> found, keep |-> tr[p].keep, proof |-> tr[p].proof]
    BY <2>3
  <2> HIDE DEF t
  <2>6. /\ TrShape(t) /\ t.at = "record" /\ t.source = tr[p].source /\ t.lang = tr[p].lang
        /\ t.out = found
    BY <2>5 DEF TrShape
  <2>7. Key(tr[p].source, tr[p].lang).of = tr[p].source /\ Key(tr[p].source, tr[p].lang).in = tr[p].lang
    BY DEF Key
  <2>8. Whole(found, tr[p].source, tr[p].lang)
    <3>1. Meant(call[p])
      BY HistoryFacts
    <3> QED BY <1>1, <1>3, <2>1, <2>7, <3>1 DEF Meant
  <2>9. Holds(t, call'[p])
    BY <2>2, <2>6, <2>8 DEF Holds, Lacking
  <2>10. HistoryInv' /\ \A q \in Processes \ {p} : call'[q] = call[q]
    BY <1>3, <2>1, <2>7, <2>8, AskMoves
  <2>11. TranslationInv' /\ tr'[p] = t /\ \A q \in Processes \ {p} : tr'[q] = tr[q]
    BY <1>1, <2>4, <2>9, <2>10, TranslationMoves
  <2> QED BY <1>1, <2>6, <2>10, <2>11 DEF Advances, Resting
<1>4. \/ call[p].found = NoText /\ Ends(p, "prepare") /\ UNCHANGED call
      \/ /\ call[p].found # NoText
         /\ tr' = [tr EXCEPT ![p].at = "record", ![p].out = call[p].found]
         /\ Asks(p, "insert", Key(tr[p].source, tr[p].lang), call[p].found)
  BY Zenon DEF Replay
<1> QED BY <1>2, <1>3, <1>4

\* After the last look-up, and when there is none.
LEMMA Forecasting ==
  ASSUME HistoryInv, TranslationInv, NEW p \in Processes, UNCHANGED <<file, lock, draft>>,
         UNCHANGED job, NEW known, NEW out, tr[p].at \notin Resting,
         \/ Sets(p, known, out, "estimate") /\ Asks(p, "estimate", NoText, NoText)
         \/ Sets(p, known, out, "generate") /\ UNCHANGED call,
         DOMAIN out = DOMAIN tr[p].source, out = [i \in DOMAIN out |-> out[i]],
         \A i \in DOMAIN out : out[i] = NoText \/ IsTranslated(out[i], tr[p].source[i], tr[p].lang)
  PROVE  Advances(p)
<1>1. HistoryInv' /\ \A q \in Processes \ {p} : call'[q] = call[q]
  <2>1. CASE Asks(p, "estimate", NoText, NoText)
    BY <2>1, AskMoves
  <2>2. CASE UNCHANGED call
    BY <2>2, HistoryStays DEF database
  <2> QED BY <2>1, <2>2
<1>2. PICK step \in {"estimate", "generate"} : Sets(p, known, out, step)
  OBVIOUS
<1>3. PICK t : /\ tr' = [tr EXCEPT ![p] = t]
               /\ TrShape(t) /\ t.at = step /\ t.source = tr[p].source /\ t.lang = tr[p].lang
               /\ t.next = tr[p].next /\ t.out = out /\ t.keep = tr[p].keep
               /\ t.proof = tr[p].proof
  BY <1>2, SetsOut
<1>4. t.at \in Lacking /\ t.at \notin {"replay", "lookup"} /\ Partly(t) /\ IsText(t.source)
  BY <1>3, TranslationFacts DEF Lacking, Partly
<1>5. Holds(t, call'[p])
  BY <1>3, <1>4, HoldsPartly
<1>6. /\ TranslationInv' /\ tr'[p] = t
      /\ \A q \in Processes \ {p} : tr'[q] = tr[q]
  BY <1>1, <1>3, <1>5, TranslationMoves
<1> QED BY <1>1, <1>3, <1>6 DEF Advances

LEMMA ForecastIs ==
  ASSUME NEW p, NEW out, NEW known, Forecast(p, out, known)
  PROVE  \/ Sets(p, known, out, "estimate") /\ Asks(p, "estimate", NoText, NoText)
         \/ Sets(p, known, out, "generate") /\ UNCHANGED call
  BY DEF Forecast, Sets

\* The next look-up is that of the segment at next.
LEMMA LooksUp ==
  ASSUME HistoryInv, TranslationInv, NEW p \in Processes, UNCHANGED <<file, lock, draft>>,
         UNCHANGED job, tr[p].at \notin Resting, NEW next, NEW t,
         tr' = [tr EXCEPT ![p] = t], TrShape(t), t.at = "lookup", t.next = next, Partly(t),
         t.source = tr[p].source, t.lang = tr[p].lang,
         Asks(p, "find", Key(tr[p].source[next], tr[p].lang), NoText)
  PROVE  Advances(p)
<1>1. /\ HistoryInv' /\ call'[p].op = "find" /\ call'[p].key = Key(tr[p].source[next], tr[p].lang)
      /\ \A q \in Processes \ {p} : call'[q] = call[q]
  BY AskMoves
<1>2. IsText(t.source) /\ t.at \in Lacking /\ t.at # "replay"
  BY TranslationFacts DEF Lacking
<1>3. Holds(t, call'[p])
  BY <1>1, <1>2, HoldsPartly
<1> QED BY <1>1, <1>3, TranslationMoves DEF Advances

LEMMA OnwardSteps ==
  ASSUME HistoryInv, TranslationInv, NEW p \in Processes, UNCHANGED <<file, lock, draft>>,
         UNCHANGED job, tr[p].at = "prepare", NEW known, Onward(p, known)
  PROVE  Advances(p)
<1>1. Partly(tr[p]) /\ TrShape(tr[p])
  BY TranslationFacts, PartlyHolds DEF Lacking
<1>2. CASE /\ Turned(p, known, "lookup", 1)
           /\ Asks(p, "find", Key(tr[p].source[1], tr[p].lang), NoText)
  <2>1. PICK t : /\ tr' = [tr EXCEPT ![p] = t]
                 /\ TrShape(t) /\ t.at = "lookup" /\ t.source = tr[p].source /\ t.lang = tr[p].lang
                 /\ t.next = 1 /\ t.out = tr[p].out /\ t.keep = tr[p].keep
                 /\ t.proof = tr[p].proof
    BY <1>2, TurnsTo
  <2>2. Partly(t)
    BY <1>1, <2>1 DEF Partly
  <2> QED BY <1>2, <2>1, <2>2, LooksUp DEF Resting
<1>3. CASE \/ Sets(p, known, tr[p].out, "estimate") /\ Asks(p, "estimate", NoText, NoText)
           \/ Sets(p, known, tr[p].out, "generate") /\ UNCHANGED call
  BY <1>1, <1>3, Forecasting DEF Resting, Partly
<1>4. \/ /\ Turned(p, known, "lookup", 1)
         /\ Asks(p, "find", Key(tr[p].source[1], tr[p].lang), NoText)
      \/ Sets(p, known, tr[p].out, "estimate") /\ Asks(p, "estimate", NoText, NoText)
      \/ Sets(p, known, tr[p].out, "generate") /\ UNCHANGED call
  BY Zenon DEF Onward, Forecast, Sets, Turned
<1> QED BY <1>2, <1>3, <1>4

LEMMA PrepareSteps ==
  ASSUME HistoryInv, TranslationInv, NEW p \in Processes, UNCHANGED <<file, lock, draft>>, Prepare(p)
  PROVE  Advances(p)
<1>1. tr[p].at = "prepare" /\ UNCHANGED job
  BY DEF Prepare
<1>2. ASSUME NEW known, Onward(p, known)
      PROVE  Advances(p)
  BY <1>1, <1>2, OnwardSteps
<1>3. CASE Ends(p, "failed") /\ UNCHANGED call
  BY <1>1, <1>3, EndsSteps DEF Resting
<1>4. (\E known : Onward(p, known)) \/ (Ends(p, "failed") /\ UNCHANGED call)
  BY Zenon DEF Prepare
<1> QED BY <1>2, <1>3, <1>4

LEMMA LookupSteps ==
  ASSUME HistoryInv, TranslationInv, NEW p \in Processes, UNCHANGED <<file, lock, draft>>, Lookup(p)
  PROVE  Advances(p)
<1> DEFINE i == tr[p].next
           out == [tr[p].out EXCEPT ![i] = call[p].found]
<1>1. tr[p].at = "lookup" /\ UNCHANGED job
  BY DEF Lookup
<1>2. /\ Partly(tr[p]) /\ TrShape(tr[p]) /\ call[p].op = "find"
      /\ call[p].key = Key(tr[p].source[i], tr[p].lang)
  BY <1>1, TranslationFacts, PartlyHolds DEF Lacking, Holds
<1>3. call[p].found = NoText \/ IsTranslated(call[p].found, tr[p].source[i], tr[p].lang)
  <2>1. Meant(call[p])
    BY HistoryFacts
  <2>2. call[p].key.of = tr[p].source[i] /\ call[p].key.in = tr[p].lang
    BY <1>2 DEF Key
  <2> QED BY <1>2, <2>1, <2>2 DEF Meant
<1>4. /\ DOMAIN out = DOMAIN tr[p].source /\ out = [j \in DOMAIN out |-> out[j]]
      /\ \A j \in DOMAIN out : out[j] = NoText \/ IsTranslated(out[j], tr[p].source[j], tr[p].lang)
  BY <1>2, <1>3 DEF Partly
<1>5. CASE \/ Sets(p, tr[p].known, out, "estimate") /\ Asks(p, "estimate", NoText, NoText)
           \/ Sets(p, tr[p].known, out, "generate") /\ UNCHANGED call
  <2> HIDE DEF out
  <2> QED BY <1>1, <1>4, <1>5, Forecasting DEF Resting
<1>6. CASE /\ tr' = [tr EXCEPT ![p].out = out, ![p].next = i + 1]
           /\ Asks(p, "find", Key(tr[p].source[i + 1], tr[p].lang), NoText)
  <2> DEFINE s == [tr[p] EXCEPT !.out = out]
             t == [s EXCEPT !.next = i + 1]
  <2>1. tr' = [tr EXCEPT ![p] = t]
    BY <1>6, TranslationFacts
  <2> HIDE DEF out
  <2>2. s = [at |-> tr[p].at, source |-> tr[p].source, lang |-> tr[p].lang, known |-> tr[p].known,
             next |-> tr[p].next, out |-> out, keep |-> tr[p].keep, proof |-> tr[p].proof]
    BY <1>2 DEF TrShape
  <2> HIDE DEF s
  <2>3. t = [at |-> tr[p].at, source |-> tr[p].source, lang |-> tr[p].lang, known |-> tr[p].known,
             next |-> i + 1, out |-> out, keep |-> tr[p].keep, proof |-> tr[p].proof]
    BY <2>2
  <2> HIDE DEF t
  <2>4. /\ TrShape(t) /\ t.at = "lookup" /\ t.source = tr[p].source /\ t.lang = tr[p].lang
        /\ t.next = i + 1 /\ Partly(t)
    BY <1>1, <1>4, <2>3 DEF TrShape, Partly
  <2> QED BY <1>1, <1>6, <2>1, <2>4, LooksUp DEF Resting
<1>7. \/ Sets(p, tr[p].known, out, "estimate") /\ Asks(p, "estimate", NoText, NoText)
      \/ Sets(p, tr[p].known, out, "generate") /\ UNCHANGED call
      \/ /\ tr' = [tr EXCEPT ![p].out = out, ![p].next = i + 1]
         /\ Asks(p, "find", Key(tr[p].source[i + 1], tr[p].lang), NoText)
  BY Zenon DEF Lookup, Forecast, Sets
<1> QED BY <1>5, <1>6, <1>7

LEMMA EstimatedSteps ==
  ASSUME HistoryInv, TranslationInv, NEW p \in Processes, UNCHANGED <<file, lock, draft>>, Estimated(p)
  PROVE  Advances(p)
<1>1. Partly(tr[p])
  BY TranslationFacts, PartlyHolds DEF Estimated, Lacking
<1> QED BY <1>1, EndsSteps DEF Estimated, Resting

Written(p, out, keep, step, proof) ==
    tr' = [tr EXCEPT ![p].out = out, ![p].keep = keep, ![p].at = step, ![p].proof = proof]

LEMMA WrittenIs ==
  ASSUME TranslationInv, NEW p \in Processes, NEW out, NEW keep, NEW step, NEW proof,
         Written(p, out, keep, step, proof)
  PROVE  \E t : /\ tr' = [tr EXCEPT ![p] = t]
                /\ TrShape(t) /\ t.at = step /\ t.source = tr[p].source /\ t.lang = tr[p].lang
                /\ t.out = out /\ t.keep = keep /\ t.proof = proof
<1>1. tr = [q \in Processes |-> tr[q]] /\ TrShape(tr[p])
  BY TranslationFacts
<1> DEFINE r == [tr[p] EXCEPT !.out = out]
           s == [r EXCEPT !.keep = keep]
           u == [s EXCEPT !.at = step]
           t == [u EXCEPT !.proof = proof]
<1>2. r = [at |-> tr[p].at, source |-> tr[p].source, lang |-> tr[p].lang, known |-> tr[p].known,
           next |-> tr[p].next, out |-> out, keep |-> tr[p].keep, proof |-> tr[p].proof]
  BY <1>1 DEF TrShape
<1>3. tr' = [tr EXCEPT ![p] = t]
  BY <1>1 DEF Written
<1> HIDE DEF r
<1>4. s = [at |-> tr[p].at, source |-> tr[p].source, lang |-> tr[p].lang, known |-> tr[p].known,
           next |-> tr[p].next, out |-> out, keep |-> keep, proof |-> tr[p].proof]
  BY <1>2
<1> HIDE DEF s
<1>5. u = [at |-> step, source |-> tr[p].source, lang |-> tr[p].lang, known |-> tr[p].known,
           next |-> tr[p].next, out |-> out, keep |-> keep, proof |-> tr[p].proof]
  BY <1>4
<1> HIDE DEF u
<1>6. t = [at |-> step, source |-> tr[p].source, lang |-> tr[p].lang, known |-> tr[p].known,
           next |-> tr[p].next, out |-> out, keep |-> keep, proof |-> proof]
  BY <1>5
<1> HIDE DEF t
<1>7. /\ TrShape(t) /\ t.at = step /\ t.source = tr[p].source /\ t.lang = tr[p].lang
      /\ t.out = out /\ t.keep = keep /\ t.proof = proof
  BY <1>6 DEF TrShape
<1> QED BY <1>3, <1>7

LEMMA StoreAsks ==
  ASSUME HistoryInv, NEW p \in Processes, UNCHANGED <<file, lock, draft>>,
         NEW out, NEW keep \in SUBSET Nat, Store(p, out, keep),
         Whole(out, tr[p].source, tr[p].lang),
         tr'[p].proof => AllTranslated(out, tr[p].source, tr[p].lang),
         \A i \in keep : IsTranslated(out[i], tr[p].source[i], tr[p].lang)
  PROVE  HistoryInv' /\ \A q \in Processes \ {p} : call'[q] = call[q]
<1>1. CASE keep = {}
  <2> DEFINE key == Key(tr[p].source, tr[p].lang)
  <2>1. key.of = tr[p].source /\ key.in = tr[p].lang
    BY DEF Key
  <2>2. \/ tr'[p].proof /\ Asks(p, "prove", key, out)
        \/ Asks(p, "insert", key, out)
    BY <1>1, Zenon DEF Store
  <2> HIDE DEF key
  <2> QED BY <2>1, <2>2, AskMoves
<1>2. CASE keep # {}
  <2> DEFINE key == Key(tr[p].source[Least(keep)], tr[p].lang)
  <2>1. Least(keep) \in keep
    BY <1>2, LeastIn
  <2>2. key.of = tr[p].source[Least(keep)] /\ key.in = tr[p].lang
    BY DEF Key
  <2>3. Asks(p, "store", key, out[Least(keep)])
    BY <1>2, Zenon DEF Store
  <2>4. IsTranslated(out[Least(keep)], key.of, key.in)
    BY <2>1, <2>2
  <2> HIDE DEF key
  <2> QED BY <2>3, <2>4, AskMoves
<1> QED BY <1>1, <1>2

LEMMA GenerateSteps ==
  ASSUME HistoryInv, TranslationInv, NEW p \in Processes, UNCHANGED <<file, lock, draft>>, Generate(p)
  PROVE  Advances(p)
<1> DEFINE missing == {i \in DOMAIN tr[p].out : tr[p].out[i] = NoText}
           outOf(ends) == [i \in DOMAIN tr[p].out |->
                             IF Paragraph(i) \in Retained(ends) THEN tr[p].source[i]
                             ELSE IF i \in missing THEN Translated(tr[p].source[i], tr[p].lang, p)
                             ELSE tr[p].out[i]]
           may == Writes(p) /\ tr[p].known = "verified"
           keepOf(ends) == IF may THEN Candidates(p, ends) ELSE {}
           proofOf(ends) == may /\ missing = DOMAIN outOf(ends) /\ \A i \in missing : ends[i] = "first"
<1>1. tr[p].at = "generate" /\ UNCHANGED job
  BY DEF Generate
<1>2. Partly(tr[p]) /\ IsText(tr[p].source)
  BY <1>1, TranslationFacts, PartlyHolds DEF Lacking
<1>3. CASE Ends(p, "failed") /\ UNCHANGED call
  BY <1>1, <1>3, EndsSteps DEF Resting
<1>4. ASSUME NEW ends \in [missing -> Outcomes],
             Written(p, outOf(ends), keepOf(ends), IF keepOf(ends) = {} THEN "record" ELSE "store",
                     proofOf(ends)),
             Store(p, outOf(ends), keepOf(ends))
      PROVE  Advances(p)
  <2> DEFINE out == outOf(ends)
             keep == keepOf(ends)
             step == IF keep = {} THEN "record" ELSE "store"
  <2>1. /\ DOMAIN out = DOMAIN tr[p].source /\ missing \subseteq DOMAIN out
        /\ \A i \in DOMAIN out :
             \/ Paragraph(i) \in Retained(ends) /\ out[i] = tr[p].source[i]
             \/ Paragraph(i) \notin Retained(ends) /\ IsTranslated(out[i], tr[p].source[i], tr[p].lang)
    <3>1. DOMAIN out = DOMAIN tr[p].source /\ missing \subseteq DOMAIN out
      BY <1>2 DEF Partly
    <3>2. ASSUME NEW i \in DOMAIN out
          PROVE  \/ Paragraph(i) \in Retained(ends) /\ out[i] = tr[p].source[i]
                 \/ Paragraph(i) \notin Retained(ends)
                      /\ IsTranslated(out[i], tr[p].source[i], tr[p].lang)
      <4>1. i \in DOMAIN tr[p].out
        BY <3>2
      <4>2. CASE Paragraph(i) \in Retained(ends)
        <5>1. out[i] = tr[p].source[i]
          BY <4>1, <4>2
        <5> QED BY <4>2, <5>1
      <4>3. CASE Paragraph(i) \notin Retained(ends) /\ i \in missing
        <5>1. out[i] = Translated(tr[p].source[i], tr[p].lang, p)
          BY <4>1, <4>3
        <5> QED BY <4>3, <5>1 DEF IsTranslated
      <4>4. CASE Paragraph(i) \notin Retained(ends) /\ i \notin missing
        <5>1. out[i] = tr[p].out[i] /\ tr[p].out[i] # NoText
          BY <4>1, <4>4
        <5> QED BY <1>2, <4>1, <4>4, <5>1 DEF Partly
      <4> QED BY <4>2, <4>3, <4>4
    <3> QED BY <3>1, <3>2
  <2>a. out = [i \in DOMAIN out |-> out[i]]
    OBVIOUS
  <2>2. DOMAIN ends = missing
    OBVIOUS
  <2>3. keep \subseteq missing /\ \A i \in keep : Paragraph(i) \notin Retained(ends)
    BY <2>2 DEF Candidates
  <2>4. PICK proof : proof = proofOf(ends)
    OBVIOUS
  <2>5. Written(p, out, keep, step, proof) /\ Store(p, out, keep)
    BY <1>4, <2>4, Zenon
  <2>6. proof => \A i \in DOMAIN out : Paragraph(i) \notin Retained(ends)
    <3>1. SUFFICES ASSUME proof PROVE Retained(ends) = {}
      BY Zenon
    <3>2. \A i \in missing : ends[i] = "first"
      BY <2>4, <3>1, Zenon
    <3>3. \A i \in DOMAIN ends : ends[i] # "kept"
      BY <2>2, <3>2
    <3> QED BY <3>3 DEF Retained
  <2>7. PICK t : /\ tr' = [tr EXCEPT ![p] = t]
                 /\ TrShape(t) /\ t.at = step /\ t.source = tr[p].source /\ t.lang = tr[p].lang
                 /\ t.out = out /\ t.keep = keep /\ t.proof = proof
    <3> HIDE DEF out, keep, step
    <3> QED BY <2>5, WrittenIs
  <2>8. (step = "record" /\ keep = {}) \/ (step = "store" /\ keep # {})
    OBVIOUS
  <2> HIDE DEF out, keep, missing, step
  <2>9. Whole(out, tr[p].source, tr[p].lang)
    <3>1. IsText(out)
      BY <1>2, <2>1, <2>a, TextLike
    <3> QED BY <2>1, <3>1 DEF Whole
  <2>10. proof => AllTranslated(out, tr[p].source, tr[p].lang)
    BY <2>1, <2>6, Zenon DEF AllTranslated
  <2>11. /\ keep \subseteq DOMAIN tr[p].source
         /\ \A i \in keep : IsTranslated(out[i], tr[p].source[i], tr[p].lang)
    BY <2>1, <2>3
  <2>12. Holds(t, call'[p])
    <3>1. t.at \notin Lacking /\ t.at \in {"store", "record"} /\ (t.at = "store" => keep # {})
      BY <2>7, <2>8 DEF Lacking
    <3>2. t.at \notin {"replay", "lookup"}
      BY <3>1
    <3>3. t.proof => AllTranslated(t.out, t.source, t.lang)
      BY <2>7, <2>10, Zenon
    <3>4. /\ Whole(t.out, t.source, t.lang) /\ IsText(t.source) /\ t.keep \subseteq DOMAIN t.source
          /\ \A i \in t.keep : IsTranslated(t.out[i], t.source[i], t.lang)
      BY <1>2, <2>7, <2>9, <2>11
    <3>5. TrShape(t) /\ (t.at = "store" => t.keep # {})
      BY <2>7, <3>1
    <3> QED BY <3>1, <3>2, <3>3, <3>4, <3>5, Zenon DEF Holds
  <2>13. tr'[p].proof => AllTranslated(out, tr[p].source, tr[p].lang)
    <3>1. tr'[p] = t
      BY <2>7, TranslationFacts
    <3> QED BY <2>7, <2>10, <3>1, Zenon
  <2>14. keep \in SUBSET Nat
    BY <1>2, <2>11, TextDomain
  <2>15. HistoryInv' /\ \A q \in Processes \ {p} : call'[q] = call[q]
    BY <2>5, <2>9, <2>11, <2>13, <2>14, StoreAsks
  <2> QED BY <1>1, <2>7, <2>12, <2>15, TranslationMoves DEF Advances, Resting
<1>5. \/ Ends(p, "failed") /\ UNCHANGED call
      \/ \E ends \in [missing -> Outcomes] :
            /\ Written(p, outOf(ends), keepOf(ends), IF keepOf(ends) = {} THEN "record" ELSE "store",
                       proofOf(ends))
            /\ Store(p, outOf(ends), keepOf(ends))
  BY Zenon DEF Generate, Written
<1> HIDE DEF missing, outOf, may, keepOf, proofOf
<1> QED BY <1>3, <1>4, <1>5

LEMMA StoreNextSteps ==
  ASSUME HistoryInv, TranslationInv, NEW p \in Processes, UNCHANGED <<file, lock, draft>>, StoreNext(p)
  PROVE  Advances(p)
<1> DEFINE left == tr[p].keep \ {Least(tr[p].keep)}
           step == IF left = {} THEN "record" ELSE "store"
           s == [tr[p] EXCEPT !.keep = left]
           t == [s EXCEPT !.at = step]
<1>1. tr[p].at = "store" /\ UNCHANGED job
  BY DEF StoreNext
<1>2. /\ TrShape(tr[p]) /\ IsText(tr[p].source) /\ Whole(tr[p].out, tr[p].source, tr[p].lang)
      /\ tr[p].keep \subseteq DOMAIN tr[p].source
      /\ \A i \in tr[p].keep : IsTranslated(tr[p].out[i], tr[p].source[i], tr[p].lang)
      /\ tr[p].proof => AllTranslated(tr[p].out, tr[p].source, tr[p].lang)
  BY <1>1, TranslationFacts, Zenon DEF Holds
<1>3. tr' = [tr EXCEPT ![p] = t] /\ Store(p, tr[p].out, left)
  BY TranslationFacts DEF StoreNext
<1>4. left \subseteq tr[p].keep /\ step \in {"record", "store"} /\ (step = "store" => left # {})
  OBVIOUS
<1> HIDE DEF left, step
<1>5. s = [at |-> tr[p].at, source |-> tr[p].source, lang |-> tr[p].lang, known |-> tr[p].known,
           next |-> tr[p].next, out |-> tr[p].out, keep |-> left, proof |-> tr[p].proof]
  BY <1>2 DEF TrShape
<1> HIDE DEF s
<1>6. t = [at |-> step, source |-> tr[p].source, lang |-> tr[p].lang, known |-> tr[p].known,
           next |-> tr[p].next, out |-> tr[p].out, keep |-> left, proof |-> tr[p].proof]
  BY <1>5
<1> HIDE DEF t
<1>7. /\ TrShape(t) /\ t.at = step /\ t.source = tr[p].source /\ t.lang = tr[p].lang
      /\ t.out = tr[p].out /\ t.keep = left /\ t.proof = tr[p].proof
  BY <1>6 DEF TrShape
<1>8. Holds(t, call'[p])
  <2>1. t.at \notin Lacking /\ t.at \notin {"replay", "lookup"} /\ (t.at = "store" => t.keep # {})
    BY <1>4, <1>7 DEF Lacking
  <2>2. t.proof => AllTranslated(t.out, t.source, t.lang)
    BY <1>2, <1>7, Zenon
  <2>3. /\ Whole(t.out, t.source, t.lang) /\ IsText(t.source) /\ t.keep \subseteq DOMAIN t.source
        /\ \A i \in t.keep : IsTranslated(t.out[i], t.source[i], t.lang)
    BY <1>2, <1>4, <1>7
  <2>4. TrShape(t)
    BY <1>7
  <2> QED BY <2>1, <2>2, <2>3, <2>4, Zenon DEF Holds
<1>9. tr'[p].proof => AllTranslated(tr[p].out, tr[p].source, tr[p].lang)
  <2>1. tr'[p] = t
    BY <1>3, TranslationFacts
  <2> QED BY <1>2, <1>7, <2>1, Zenon
<1>10. left \in SUBSET Nat /\ \A i \in left : IsTranslated(tr[p].out[i], tr[p].source[i], tr[p].lang)
  BY <1>2, <1>4, TextDomain
<1>11. HistoryInv' /\ \A q \in Processes \ {p} : call'[q] = call[q]
  BY <1>2, <1>3, <1>9, <1>10, StoreAsks
<1> QED BY <1>1, <1>3, <1>7, <1>8, <1>11, TranslationMoves DEF Advances, Resting

LEMMA RecordSteps ==
  ASSUME HistoryInv, TranslationInv, NEW p \in Processes, UNCHANGED <<file, lock, draft>>, Record(p)
  PROVE  Advances(p)
<1>1. /\ tr[p].at = "record" /\ UNCHANGED job /\ Ends(p, "done")
      /\ call' = [call EXCEPT ![p] = NoCall]
  BY DEF Record
<1>2. Whole(tr[p].out, tr[p].source, tr[p].lang) /\ IsText(tr[p].source)
  BY <1>1, TranslationFacts DEF Holds
<1>3. PICK t : /\ tr' = [tr EXCEPT ![p] = t]
               /\ TrShape(t) /\ t.at = "done" /\ t.source = tr[p].source /\ t.lang = tr[p].lang
               /\ t.next = tr[p].next /\ t.out = tr[p].out /\ t.keep = tr[p].keep
               /\ t.proof = tr[p].proof
  BY <1>1, EndsAt
<1>4. Holds(t, call'[p])
  BY <1>2, <1>3 DEF Holds, Lacking
<1>5. HistoryInv' /\ \A q \in Processes \ {p} : call'[q] = call[q]
  BY <1>1, HangsUp
<1> QED BY <1>1, <1>3, <1>4, <1>5, TranslationMoves DEF Advances, Resting

LEMMA TranslationSteps ==
  ASSUME HistoryInv, TranslationInv, NEW p \in Processes, UNCHANGED <<file, lock, draft>>,
         TranslationStep(p)
  PROVE  Advances(p)
  BY ReplaySteps, PrepareSteps, LookupSteps, EstimatedSteps, GenerateSteps, StoreNextSteps,
     RecordSteps DEF TranslationStep

-----------------------------------------------------------------------------
(* What the steps of a command do to the rest.                             *)

LEMMA TranslationRests ==
  ASSUME TranslationInv, NEW p \in Processes, UNCHANGED <<job, tr>>, tr[p].at \in Resting,
         \A q \in Processes \ {p} : call'[q] = call[q]
  PROVE  TranslationInv'
<1>1. tr = [q \in Processes |-> tr[q]] /\ tr' = [tr EXCEPT ![p] = tr[p]]
  BY TranslationFacts
<1>2. Holds(tr[p], call[p])
  BY TranslationFacts
<1>3. Holds(tr[p], call'[p])
  BY <1>2 DEF Holds, Resting
<1> QED BY <1>1, <1>3, TranslationMoves

LEMMA TranslationAll ==
  ASSUME TranslationInv, UNCHANGED <<job, tr, call>>
  PROVE  TranslationInv'
<1>1. SameCalls
  BY DEF SameCalls
<1> QED BY <1>1, TranslationStays

\* What p asks of the history, or that its call is over.
Quiet(p) ==
    \/ UNCHANGED call
    \/ call' = [call EXCEPT ![p] = NoCall]
    \/ \E op \in {"clear", "recall", "estimate", "replay", "count"} : \E key : Asks(p, op, key, NoText)

LEMMA QuietSteps ==
  ASSUME HistoryInv, TranslationInv, NEW p \in Processes, UNCHANGED <<file, lock, draft, job, tr>>,
         Quiet(p), tr[p].at \in Resting
  PROVE  HistoryInv' /\ TranslationInv'
<1>1. CASE UNCHANGED call
  BY <1>1, HistoryStays, TranslationAll DEF database
<1>2. CASE call' = [call EXCEPT ![p] = NoCall]
  BY <1>2, HangsUp, TranslationRests
<1>3. CASE \E op \in {"clear", "recall", "estimate", "replay", "count"} : \E key : Asks(p, op, key, NoText)
  <2>1. PICK op \in {"clear", "recall", "estimate", "replay", "count"} : \E key : Asks(p, op, key, NoText)
    BY <1>3
  <2>2. op \notin {"store", "insert", "prove"}
    BY <2>1
  <2>3. HistoryInv' /\ \A q \in Processes \ {p} : call'[q] = call[q]
    BY <2>1, <2>2, AskMoves
  <2> QED BY <2>3, TranslationRests
<1> QED BY <1>1, <1>2, <1>3 DEF Quiet

\* Nothing that a target was planned from changes but the files written here.
OnlyMade ==
    /\ UNCHANGED job /\ DOMAIN made \subseteq DOMAIN made'
    /\ \A name \in Names \ DOMAIN made' : disk'[name] = disk[name]

LEMMA ComesStays ==
  ASSUME OnlyMade, NEW p, NEW x, NEW text, Comes(p, x, text)
  PROVE  Comes(p, x, text)'
<1>1. x.from \in Names \ DOMAIN made' => x.from \in Names \ DOMAIN made /\ disk'[x.from] = disk[x.from]
  BY DEF OnlyMade
<1> QED BY <1>1 DEF Comes, OnlyMade

LEMMA ProceedsStays ==
  ASSUME OnlyMade, NEW p, NEW w, NEW t, Proceeds(p, w, t)
  PROVE  Proceeds(p, w, t)'
<1>1. ASSUME NEW x, Planning(p, x) PROVE Planning(p, x)'
  BY <1>1, ComesStays DEF Planning, OnlyMade
<1>2. job' = job
  BY DEF OnlyMade
<1>3. Comes(p, w.now, t.source) => Comes(p, w.now, t.source)'
  BY ComesStays
<1>4. (\A x \in Range(w.todo) : Planning(p, x)) => \A x \in Range(w.todo) : Planning(p, x)'
  BY <1>1
<1>5. Planning(p, w.now) => Planning(p, w.now)'
  BY <1>1
<1> QED BY <1>2, <1>3, <1>4, <1>5, Zenon DEF Proceeds, Has

LEMMA SameFilesOnlyMade ==
  ASSUME UNCHANGED <<job, disk, made>>
  PROVE  OnlyMade
  BY DEF OnlyMade

\* The process of p becomes w.
LEMMA WorkMoves ==
  ASSUME WorkInv, NEW p \in Processes, NEW w, NEW t, OnlyMade,
         work' = [work EXCEPT ![p] = w], tr'[p] = t, Proceeds(p, w, t),
         \A q \in Processes \ {p} : tr'[q] = tr[q]
  PROVE  /\ WorkInv' /\ work'[p] = w
         /\ \A q \in Processes \ {p} : work'[q] = work[q]
<1>1. work = [q \in Processes |-> work[q]] /\ \A q \in Processes : Proceeds(q, work[q], tr[q])
  BY DEF WorkInv
<1>2. /\ work' = [q \in Processes |-> work'[q]] /\ work'[p] = w
      /\ \A q \in Processes \ {p} : work'[q] = work[q]
  BY <1>1
<1>3. ASSUME NEW q \in Processes PROVE Proceeds(q, work[q], tr[q])'
  <2>1. PICK v, s : v = work'[q] /\ s = tr'[q]
    OBVIOUS
  <2>2. Proceeds(q, v, s)
    BY <1>1, <1>2, <2>1
  <2>3. Proceeds(q, v, s)'
    BY <2>2, ProceedsStays
  <2>4. Proceeds(q, v, s)' <=> Proceeds(q, work[q], tr[q])'
    BY <2>1 DEF Proceeds, Planning, Comes, Has
  <2> QED BY <2>3, <2>4
<1>4. WorkInv'
  BY <1>2, <1>3 DEF WorkInv
<1> QED BY <1>2, <1>4

\* The temporary files stay, and so does what is written to them.
LEMMA TempsStay ==
  ASSUME TempsInv, UNCHANGED temps,
         \A p \in Processes : work'[p].at = "writing" =>
            work[p].at = "writing" /\ work'[p] = work[p] /\ tr'[p] = tr[p]
  PROVE  TempsInv'
<1>1. ASSUME NEW p \in Processes, work'[p].at = "writing"
      PROVE  \E t \in temps' :
                /\ t.name = TempName(p)' /\ Len(t.text) <= Len(tr'[p].out)
                /\ \A i \in DOMAIN t.text : t.text[i] = tr'[p].out[i]
  <2>1. work[p].at = "writing" /\ work'[p] = work[p] /\ tr'[p] = tr[p]
    BY <1>1
  <2>2. PICK t \in temps :
           /\ t.name = TempName(p) /\ Len(t.text) <= Len(tr[p].out)
           /\ \A i \in DOMAIN t.text : t.text[i] = tr[p].out[i]
    BY <2>1 DEF TempsInv
  <2> QED BY <2>1, <2>2 DEF TempName
<1>2. temps' = temps
  OBVIOUS
<1>3. /\ \A s, t \in temps : s.name = t.name => s = t
      /\ \A t \in temps : t = [name |-> t.name, text |-> t.text] /\ IsText(t.text)
  BY DEF TempsInv
<1> QED BY <1>1, <1>2, <1>3 DEF TempsInv

LEMMA DiskStays ==
  ASSUME DiskInv, UNCHANGED <<job, disk, made>>
  PROVE  DiskInv'
  BY DEF DiskInv, Origin, Source, Has

LEMMA PagesStay ==
  ASSUME PagesInv, UNCHANGED pages
  PROVE  PagesInv'
  BY DEF PagesInv

\* A step of p that writes no file.
LEMMA CommandMoves ==
  ASSUME CommandInv, NEW p \in Processes, UNCHANGED <<outputs, temps, job>>,
         HistoryInv', TranslationInv', PagesInv',
         \A q \in Processes \ {p} : tr'[q] = tr[q],
         NEW w, NEW t, work' = [work EXCEPT ![p] = w], tr'[p] = t, Proceeds(p, w, t),
         w.at # "writing"
  PROVE  CommandInv'
<1>1. UNCHANGED <<disk, made>>
  BY DEF outputs
<1>2. /\ WorkInv' /\ work'[p] = w /\ \A q \in Processes \ {p} : work'[q] = work[q]
  BY <1>1, SameFilesOnlyMade, WorkMoves DEF CommandInv
<1>3. TempsInv'
  BY <1>2, TempsStay DEF CommandInv
<1>4. DiskInv'
  BY <1>1, DiskStays DEF CommandInv
<1> QED BY <1>2, <1>3, <1>4 DEF CommandInv

\* What CommandInv says of p.
LEMMA CommandFacts ==
  ASSUME CommandInv, NEW p \in Processes
  PROVE  /\ HistoryInv /\ TranslationInv /\ WorkInv /\ TempsInv /\ DiskInv /\ PagesInv
         /\ Proceeds(p, work[p], tr[p]) /\ WorkShape(work[p])
         /\ work = [q \in Processes |-> work[q]] /\ tr = [q \in Processes |-> tr[q]]
         /\ IsText(work[p].todo) /\ IsText(work[p].scanned)
         /\ work[p].at # "translating" => tr[p].at \in Resting
  BY TranslationFacts DEF CommandInv, WorkInv, Proceeds

\* A step of p that only asks the history and goes on.
LEMMA QuietMoves ==
  ASSUME CommandInv, NEW p \in Processes, UNCHANGED <<file, lock, draft, job, tr, files>>, Quiet(p),
         tr[p].at \in Resting, NEW w, work' = [work EXCEPT ![p] = w], Proceeds(p, w, tr[p]),
         w.at # "writing"
  PROVE  CommandInv'
<1>1. HistoryInv' /\ TranslationInv'
  BY QuietSteps DEF CommandInv
<1>2. PICK t : t = tr[p]
  OBVIOUS
<1>3. UNCHANGED <<outputs, temps, pages>>
  BY DEF files
<1>4. PagesInv'
  BY <1>3, PagesStay DEF CommandInv
<1> QED BY <1>1, <1>2, <1>3, <1>4, CommandMoves

\* The same command a step further.
Planners == {"seek", "measure", "counted", "measured", "scanned"}
LEMMA ProceedsOn ==
  ASSUME NEW p, NEW v, NEW w, NEW t, Proceeds(p, v, t), t.at \in Resting, WorkShape(w),
         w.id = v.id, w.scanned = v.scanned, w.todo = v.todo, w.now = v.now,
         \/ w.at \in {"managing", "plan", "next", "exit"}
         \/ w.at \in Planners /\ v.at \in Planners /\ (w.at = "scanned" \/ v.at # "scanned")
  PROVE  Proceeds(p, w, t)
<1>1. w.at \notin {"translating", "writing"}
  BY DEF Planners
<1>2. w.at \in Busy => v.at \in Busy
  BY DEF Planners, Busy
<1>3. w.at \in Planners => v.at \in Planners
  BY DEF Planners
<1> QED BY <1>1, <1>2, <1>3, Zenon DEF Proceeds, Planners

LEMMA GoesTo ==
  ASSUME CommandInv, NEW p \in Processes, NEW step, Goes(p, step)
  PROVE  \E w : /\ work' = [work EXCEPT ![p] = w]
                /\ WorkShape(w) /\ w.at = step /\ w.id = work[p].id /\ w.scanned = work[p].scanned
                /\ w.todo = work[p].todo /\ w.now = work[p].now
<1> DEFINE w == [work[p] EXCEPT !.at = step]
<1>1. work' = [work EXCEPT ![p] = w] /\ WorkShape(work[p])
  BY CommandFacts DEF Goes
<1>2. /\ WorkShape(w) /\ w.at = step /\ w.id = work[p].id /\ w.scanned = work[p].scanned
      /\ w.todo = work[p].todo /\ w.now = work[p].now
  BY <1>1 DEF WorkShape
<1> HIDE DEF w
<1> QED BY <1>1, <1>2

LEMMA ExitsWith ==
  ASSUME CommandInv, NEW p \in Processes, NEW status, Exits(p, status)
  PROVE  \E w : /\ work' = [work EXCEPT ![p] = w]
                /\ WorkShape(w) /\ w.at = "exit" /\ w.id = work[p].id /\ w.scanned = work[p].scanned
                /\ w.todo = work[p].todo /\ w.now = work[p].now
<1> DEFINE v == [work[p] EXCEPT !.at = "exit"]
           w == [v EXCEPT !.status = status]
<1>1. work' = [work EXCEPT ![p] = w] /\ WorkShape(work[p])
  BY CommandFacts DEF Exits
<1>a. /\ WorkShape(v) /\ v.at = "exit" /\ v.id = work[p].id /\ v.scanned = work[p].scanned
      /\ v.todo = work[p].todo /\ v.now = work[p].now
  BY <1>1 DEF WorkShape
<1> HIDE DEF v
<1>2. /\ WorkShape(w) /\ w.at = "exit" /\ w.id = work[p].id /\ w.scanned = work[p].scanned
      /\ w.todo = work[p].todo /\ w.now = work[p].now
  BY <1>a DEF WorkShape
<1> HIDE DEF w
<1> QED BY <1>1, <1>2

LEMMA ExitSteps ==
  ASSUME CommandInv, NEW p \in Processes, UNCHANGED <<file, lock, draft, job, tr, files>>, Quiet(p),
         tr[p].at \in Resting, NEW status, Exits(p, status)
  PROVE  CommandInv'
<1>1. PICK w : /\ work' = [work EXCEPT ![p] = w]
               /\ WorkShape(w) /\ w.at = "exit" /\ w.id = work[p].id /\ w.scanned = work[p].scanned
               /\ w.todo = work[p].todo /\ w.now = work[p].now
  BY ExitsWith
<1>2. Proceeds(p, w, tr[p])
  BY <1>1, CommandFacts, ProceedsOn
<1> QED BY <1>1, <1>2, QuietMoves

LEMMA GoesSteps ==
  ASSUME CommandInv, NEW p \in Processes, UNCHANGED <<file, lock, draft, job, tr, files>>, Quiet(p),
         tr[p].at \in Resting, NEW step, Goes(p, step),
         \/ step \in {"managing", "plan", "next"}
         \/ step \in Planners /\ work[p].at \in Planners /\ (step = "scanned" \/ work[p].at # "scanned")
  PROVE  CommandInv'
<1>1. PICK w : /\ work' = [work EXCEPT ![p] = w]
               /\ WorkShape(w) /\ w.at = step /\ w.id = work[p].id /\ w.scanned = work[p].scanned
               /\ w.todo = work[p].todo /\ w.now = work[p].now
  BY GoesTo
<1>2. Proceeds(p, w, tr[p])
  BY <1>1, CommandFacts, ProceedsOn
<1>3. w.at # "writing"
  BY <1>1 DEF Planners
<1> QED BY <1>1, <1>2, <1>3, QuietMoves

-----------------------------------------------------------------------------
(* The beginning and the plan.                                             *)

LEMMA BeginSteps ==
  ASSUME CommandInv, NEW p \in Processes, Begin(p)
  PROVE  CommandInv'
<1>1. /\ work[p].at = "begin" /\ tr[p].at \in Resting
      /\ UNCHANGED <<file, lock, draft, job, tr, files>>
  BY CommandFacts DEF Begin
<1>2. CASE (\E status : Exits(p, status)) /\ UNCHANGED call
  BY <1>1, <1>2, ExitSteps DEF Quiet
<1>3. CASE Goes(p, "managing") /\ \E op \in {"clear", "recall", "estimate"} : Asks(p, op, NoText, NoText)
  <2>1. Quiet(p)
    BY <1>3 DEF Quiet
  <2> QED BY <1>1, <1>3, <2>1, GoesSteps
<1>4. CASE Goes(p, "plan") /\ UNCHANGED call
  BY <1>1, <1>4, GoesSteps DEF Quiet
<1>5. \/ (\E status : Exits(p, status)) /\ UNCHANGED call
      \/ Goes(p, "managing") /\ \E op \in {"clear", "recall", "estimate"} : Asks(p, op, NoText, NoText)
      \/ Goes(p, "plan") /\ UNCHANGED call
  BY Zenon DEF Begin
<1> QED BY <1>2, <1>3, <1>4, <1>5

LEMMA ManagedSteps ==
  ASSUME CommandInv, NEW p \in Processes, Managed(p) \/ Estimate(p)
  PROVE  CommandInv'
<1>1. /\ work[p].at = "managing" /\ tr[p].at \in Resting
      /\ UNCHANGED <<file, lock, draft, job, tr, files>>
      /\ call' = [call EXCEPT ![p] = NoCall]
  BY CommandFacts DEF Managed, Estimate, translation
<1>2. \E status : Exits(p, status)
  BY Zenon DEF Managed, Estimate
<1> QED BY <1>1, <1>2, ExitSteps DEF Quiet

\* The names of a set, in some order.
LEMMA Orders ==
  ASSUME NEW S, IsFiniteSet(S), NEW names \in SetToSeqs(S)
  PROVE  names \in Seq(S) /\ IsText(names) /\ Range(names) \subseteq S
<1>1. Cardinality(S) \in Nat
  BY FS_CardinalityType
<1>2. names \in [1 .. Cardinality(S) -> S]
  BY DEF SetToSeqs
<1>3. names \in Seq(S)
  BY <1>1, <1>2
<1> QED BY <1>3, TextIs

LEMMA NamesFinite ==
  ASSUME NEW S \in SUBSET Names
  PROVE  IsFiniteSet(S)
  BY DiskAssumption, FS_Subset

LEMMA JobFacts ==
  ASSUME CommandInv, NEW p \in Processes
  PROVE  /\ job[p].kind \in Kinds /\ job[p].paths \subseteq Names /\ job[p].to \in Names
         /\ job[p].kind \in {"exec", "man", "info"} => job[p].command \in DOMAIN Prints
         /\ job[p].kind = "text" => IF job[p].input \in Names THEN Disk[job[p].input] # Missing
                                    ELSE IsText(job[p].input.text)
<1>1. job \in Jobs
  BY DEF CommandInv, TranslationInv
<1>2. job[p].kind \in Kinds
  BY <1>1, JobsAssumption
<1>3. job[p].paths \subseteq Names /\ job[p].to \in Names
  BY <1>1, PathsAssumption
<1>4. job[p].kind \in {"exec", "man", "info"} => job[p].command \in DOMAIN Prints
  BY <1>1, PrintsAssumption
<1>5. job[p].kind = "text" => IF job[p].input \in Names THEN Disk[job[p].input] # Missing
                              ELSE IsText(job[p].input.text)
  BY <1>1, InputsAssumption
<1> QED BY <1>2, <1>3, <1>4, <1>5

\* A file has a text.
LEMMA FilesHaveText ==
  ASSUME CommandInv, NEW name \in Names, name \in DOMAIN made \/ disk[name] # Missing \/ Disk[name] # Missing
  PROVE  IsText(disk[name].text)
<1>1. CASE name \in DOMAIN made
  BY <1>1 DEF CommandInv, DiskInv, Whole
<1>2. CASE name \notin DOMAIN made
  <2>1. disk[name] = Disk[name]
    BY <1>2 DEF CommandInv, DiskInv
  <2> QED BY <1>2, <2>1, DiskAssumption
<1> QED BY <1>1, <1>2

LEMMA ScanSteps ==
  ASSUME CommandInv, NEW p \in Processes, Scan(p)
  PROVE  CommandInv'
<1>1. /\ work[p].at = "plan" /\ tr[p].at \in Resting /\ job[p].kind = "batch"
      /\ UNCHANGED <<file, lock, draft, job, tr, files, call>>
  BY CommandFacts DEF Scan, database, translation
<1>2. PICK names \in SetToSeqs({n \in job[p].paths : disk[n] # Missing}) :
         work' = [work EXCEPT ![p].at = "scanned", ![p].scanned = names]
  BY DEF Scan
<1>3. IsText(names) /\ Range(names) \subseteq Names
  <2> DEFINE S == {n \in job[p].paths : disk[n] # Missing}
  <2>1. S \subseteq Names
    BY JobFacts
  <2>2. names \in SetToSeqs(S)
    OBVIOUS
  <2> HIDE DEF S
  <2>3. IsFiniteSet(S)
    BY <2>1, NamesFinite
  <2> QED BY <2>1, <2>2, <2>3, Orders
<1> DEFINE v == [work[p] EXCEPT !.at = "scanned"]
           w == [v EXCEPT !.scanned = names]
<1>4. work' = [work EXCEPT ![p] = w] /\ WorkShape(work[p])
  BY <1>2, CommandFacts
<1>5. /\ WorkShape(v) /\ v.at = "scanned" /\ v.id = work[p].id
      /\ v.todo = work[p].todo /\ v.now = work[p].now
  BY <1>4 DEF WorkShape
<1> HIDE DEF v
<1>6. /\ WorkShape(w) /\ w.at = "scanned" /\ w.id = work[p].id /\ w.scanned = names
      /\ w.todo = work[p].todo /\ w.now = work[p].now
  BY <1>5 DEF WorkShape
<1> HIDE DEF w
<1>7. Proceeds(p, w, tr[p])
  <2>1. Proceeds(p, work[p], tr[p])
    BY CommandFacts
  <2>2. w.at \notin Busy /\ w.at \notin {"translating", "writing"}
    BY <1>6 DEF Busy
  <2> QED BY <1>1, <1>3, <1>6, <2>1, <2>2, Zenon DEF Proceeds
<1> QED BY <1>1, <1>4, <1>6, <1>7, QuietMoves DEF Quiet

\* A source of translate-doc or batch comes from itself.
LEMMA TargetComes ==
  ASSUME CommandInv, NEW p \in Processes, NEW name \in Names, IsSource(p, name), job[p].kind # "text"
  PROVE  Planning(p, Target(p, name))
<1> DEFINE lang == TargetLang(p, disk[name])
           x == Target(p, name)
<1>1. x.from = name /\ x.to = Suffixed(name, lang) /\ x.lang = lang /\ x.text = disk[name].text
  BY DEF Target
<1>2. Suffixed(name, lang) \in Names /\ disk[name] # Missing
  BY DEF IsSource
<1>3. IsText(disk[name].text)
  BY <1>2, FilesHaveText
<1> HIDE DEF x, lang
<1>4. Comes(p, x, x.text)
  BY <1>1, <1>2 DEF Comes
<1> QED BY <1>1, <1>3, <1>4 DEF Planning, x

LEMMA PlanFileSteps ==
  ASSUME CommandInv, NEW p \in Processes, PlanFile(p)
  PROVE  CommandInv'
<1> DEFINE name == Head(work[p].scanned)
           rest == [work[p] EXCEPT !.scanned = Tail(@)]
<1>1. /\ work[p].at = "scanned" /\ tr[p].at \in Resting /\ work[p].scanned # <<>>
      /\ UNCHANGED <<file, lock, draft, job, tr, files>>
  BY CommandFacts DEF PlanFile, translation
<1>2. name \in Names /\ IsText(Tail(work[p].scanned)) /\ Range(Tail(work[p].scanned)) \subseteq Names
  BY <1>1, CommandFacts, RestOfText DEF Proceeds
<1>3. /\ WorkShape(rest) /\ rest.at = "scanned" /\ rest.id = work[p].id
      /\ rest.scanned = Tail(work[p].scanned)
      /\ rest.todo = work[p].todo /\ rest.now = work[p].now
  <2>1. PICK tail : tail = Tail(work[p].scanned)
    OBVIOUS
  <2> DEFINE u == [work[p] EXCEPT !.scanned = tail]
  <2>2. WorkShape(work[p])
    BY CommandFacts
  <2>3. /\ WorkShape(u) /\ u.at = work[p].at /\ u.id = work[p].id /\ u.scanned = tail
        /\ u.todo = work[p].todo /\ u.now = work[p].now
    BY <2>2 DEF WorkShape
  <2>4. u = rest
    BY <2>1
  <2> HIDE DEF u, rest
  <2> QED BY <1>1, <2>1, <2>3, <2>4
<1>4. job[p].kind = "batch" /\ Proceeds(p, work[p], tr[p])
  BY <1>1, CommandFacts DEF Proceeds
<1>5. CASE work' = [work EXCEPT ![p] = rest] /\ UNCHANGED call
  <2> HIDE DEF rest
  <2>1. rest.at \notin Busy /\ rest.at \notin {"translating", "writing"}
    BY <1>3 DEF Busy
  <2>2. Proceeds(p, rest, tr[p])
    BY <1>1, <1>2, <1>3, <1>4, <2>1, Zenon DEF Proceeds
  <2> QED BY <1>1, <1>3, <1>5, <2>2, QuietMoves DEF Quiet
<1>6. ASSUME NEW step \in {"seek", "measure"}, IsSource(p, name), Quiet(p),
             work' = [work EXCEPT ![p] = [rest EXCEPT !.now = Target(p, name), !.at = step]]
      PROVE  CommandInv'
  <2> DEFINE x == Target(p, name)
             v == [rest EXCEPT !.now = x]
             w == [v EXCEPT !.at = step]
  <2>1. Planning(p, x)
    BY <1>2, <1>4, <1>6, TargetComes
  <2> HIDE DEF x, name, rest
  <2>2. /\ WorkShape(v) /\ v.id = work[p].id
        /\ v.scanned = Tail(work[p].scanned) /\ v.todo = work[p].todo /\ v.now = x
    BY <1>3 DEF WorkShape
  <2>3. work' = [work EXCEPT ![p] = w]
    BY <1>6 DEF x
  <2> HIDE DEF v
  <2>4. /\ WorkShape(w) /\ w.at = step /\ w.id = work[p].id
        /\ w.scanned = Tail(work[p].scanned) /\ w.todo = work[p].todo /\ w.now = x
    BY <2>2 DEF WorkShape
  <2> HIDE DEF w
  <2>5. w.at \notin {"translating", "writing"} /\ w.at # "writing"
    BY <1>6, <2>4
  <2>6. Proceeds(p, w, tr[p])
    BY <1>1, <1>2, <1>4, <2>1, <2>4, <2>5, Zenon DEF Proceeds
  <2> QED BY <1>1, <1>6, <2>3, <2>5, <2>6, QuietMoves
<1>7. \/ work' = [work EXCEPT ![p] = rest] /\ UNCHANGED call
      \/ \E step \in {"seek", "measure"} :
            /\ IsSource(p, name) /\ Quiet(p)
            /\ work' = [work EXCEPT ![p] = [rest EXCEPT !.now = Target(p, name), !.at = step]]
  <2>1. CASE work' = [work EXCEPT ![p] = rest] /\ UNCHANGED call
    BY <2>1, Zenon
  <2>2. CASE Reads(p) /\ ~(work' = [work EXCEPT ![p] = rest] /\ UNCHANGED call)
    <3>1. /\ IsSource(p, name)
          /\ work' = [work EXCEPT ![p] = [rest EXCEPT !.now = Target(p, name), !.at = "seek"]]
          /\ Asks(p, "replay", Key(disk[name].text, TargetLang(p, disk[name])), NoText)
      BY <2>2, Zenon DEF PlanFile
    <3>2. Quiet(p)
      BY <3>1 DEF Quiet
    <3> QED BY <3>1, <3>2, Zenon
  <2>3. CASE ~Reads(p) /\ ~(work' = [work EXCEPT ![p] = rest] /\ UNCHANGED call)
    <3>1. /\ IsSource(p, name)
          /\ work' = [work EXCEPT ![p] = [rest EXCEPT !.now = Target(p, name), !.at = "measure"]]
          /\ UNCHANGED call
      BY <2>3, Zenon DEF PlanFile
    <3>2. Quiet(p)
      BY <3>1 DEF Quiet
    <3> QED BY <3>1, <3>2, Zenon
  <2> QED BY <2>1, <2>2, <2>3
<1> HIDE DEF name, rest
<1> QED BY <1>5, <1>6, <1>7

\* A file is put on the list.
LEMMA KeepsSteps ==
  ASSUME CommandInv, NEW p \in Processes, UNCHANGED <<file, lock, draft, job, tr, files>>, Quiet(p),
         tr[p].at \in Resting, Keeps(p), work[p].at \in {"seek", "counted", "measured"}
  PROVE  CommandInv'
<1> DEFINE todo == Append(work[p].todo, work[p].now)
           v == [work[p] EXCEPT !.at = "scanned"]
           w == [v EXCEPT !.todo = todo]
<1>1. WorkShape(work[p]) /\ Proceeds(p, work[p], tr[p])
  BY CommandFacts
<1>2. work' = [work EXCEPT ![p] = w]
  BY CommandFacts DEF Keeps
<1>3. IsText(todo) /\ Range(todo) = Range(work[p].todo) \cup {work[p].now}
  BY CommandFacts, AppendText
<1> HIDE DEF todo
<1>4. /\ WorkShape(v) /\ v.at = "scanned" /\ v.id = work[p].id /\ v.scanned = work[p].scanned
      /\ v.now = work[p].now
  BY <1>1 DEF WorkShape
<1> HIDE DEF v
<1>5. /\ WorkShape(w) /\ w.at = "scanned" /\ w.id = work[p].id /\ w.scanned = work[p].scanned
      /\ w.todo = todo /\ w.now = work[p].now
  BY <1>4 DEF WorkShape
<1> HIDE DEF w
<1>6. \A x \in Range(todo) : Planning(p, x)
  <2>1. (\A x \in Range(work[p].todo) : Planning(p, x)) /\ Planning(p, work[p].now)
    BY <1>1 DEF Proceeds, Busy
  <2> QED BY <1>3, <2>1
<1>7. job[p].kind = "batch"
  BY <1>1 DEF Proceeds
<1>8. w.at \notin Busy /\ w.at \notin {"translating", "writing"}
  BY <1>5 DEF Busy
<1>9. Proceeds(p, w, tr[p])
  BY <1>1, <1>3, <1>5, <1>6, <1>7, <1>8, Zenon DEF Proceeds
<1> QED BY <1>2, <1>5, <1>9, QuietMoves

LEMMA SoughtSteps ==
  ASSUME CommandInv, NEW p \in Processes, Sought(p)
  PROVE  CommandInv'
<1>1. /\ work[p].at = "seek" /\ tr[p].at \in Resting
      /\ UNCHANGED <<file, lock, draft, job, tr, files>>
      /\ call' = [call EXCEPT ![p] = NoCall]
  BY CommandFacts DEF Sought, translation
<1>2. Quiet(p)
  BY <1>1 DEF Quiet
<1>3. Goes(p, "measure") \/ Keeps(p)
  BY Zenon DEF Sought
<1>4. work[p].at \in Planners /\ work[p].at # "scanned"
  BY <1>1 DEF Planners
<1>5. CASE Goes(p, "measure")
  BY <1>1, <1>2, <1>4, <1>5, GoesSteps DEF Planners
<1>6. CASE Keeps(p)
  BY <1>1, <1>2, <1>6, KeepsSteps
<1> QED BY <1>3, <1>5, <1>6

LEMMA MeasureSteps ==
  ASSUME CommandInv, NEW p \in Processes, Measure(p)
  PROVE  CommandInv'
<1>1. /\ work[p].at = "measure" /\ tr[p].at \in Resting
      /\ UNCHANGED <<file, lock, draft, job, tr, files>>
  BY CommandFacts DEF Measure
<1>2. work[p].at \in Planners /\ work[p].at # "scanned"
  BY <1>1 DEF Planners
<1>3. CASE \E key : Asks(p, "count", key, NoText) /\ Goes(p, "counted")
  <2>1. Quiet(p)
    BY <1>3 DEF Quiet
  <2> QED BY <1>1, <1>2, <1>3, <2>1, GoesSteps DEF Planners
<1>4. CASE Asks(p, "estimate", NoText, NoText) /\ Goes(p, "measured")
  <2>1. Quiet(p)
    BY <1>4 DEF Quiet
  <2> QED BY <1>1, <1>2, <1>4, <2>1, GoesSteps DEF Planners
<1>5. CASE Exits(p, "error") /\ UNCHANGED call
  BY <1>1, <1>5, ExitSteps DEF Quiet
<1>6. \/ \E key : Asks(p, "count", key, NoText) /\ Goes(p, "counted")
      \/ Asks(p, "estimate", NoText, NoText) /\ Goes(p, "measured")
      \/ Exits(p, "error") /\ UNCHANGED call
  BY Zenon DEF Measure
<1> QED BY <1>3, <1>4, <1>5, <1>6

LEMMA CountsSteps ==
  ASSUME CommandInv, NEW p \in Processes, Counts(p)
  PROVE  CommandInv'
<1>1. /\ work[p].at = "counted" /\ tr[p].at \in Resting
      /\ UNCHANGED <<file, lock, draft, job, tr, files>>
  BY CommandFacts DEF Counts, translation
<1>2. work[p].at \in Planners /\ work[p].at # "scanned"
  BY <1>1 DEF Planners
<1>3. CASE Keeps(p) /\ call' = [call EXCEPT ![p] = NoCall]
  BY <1>1, <1>3, KeepsSteps DEF Quiet
<1>4. CASE Asks(p, "estimate", NoText, NoText) /\ Goes(p, "measured")
  <2>1. Quiet(p)
    BY <1>4 DEF Quiet
  <2> QED BY <1>1, <1>2, <1>4, <2>1, GoesSteps DEF Planners
<1>5. \/ Keeps(p) /\ call' = [call EXCEPT ![p] = NoCall]
      \/ Asks(p, "estimate", NoText, NoText) /\ Goes(p, "measured")
  BY Zenon DEF Counts
<1> QED BY <1>3, <1>4, <1>5

LEMMA MeasuredSteps ==
  ASSUME CommandInv, NEW p \in Processes, Measured(p)
  PROVE  CommandInv'
<1>1. /\ work[p].at = "measured" /\ tr[p].at \in Resting /\ Keeps(p)
      /\ UNCHANGED <<file, lock, draft, job, tr, files>>
      /\ call' = [call EXCEPT ![p] = NoCall]
  BY CommandFacts DEF Measured, translation
<1> QED BY <1>1, KeepsSteps DEF Quiet

\* A plan of which every text may be translated.
LEMMA PlannedSteps ==
  ASSUME CommandInv, NEW p \in Processes, UNCHANGED <<file, lock, draft, job, tr, files, call>>,
         tr[p].at \in Resting, NEW todo, Planned(p, todo), IsText(todo),
         \A x \in Range(todo) : Planning(p, x)
  PROVE  CommandInv'
<1> DEFINE u == [work[p] EXCEPT !.at = "next"]
           v == [u EXCEPT !.todo = todo]
           w == [v EXCEPT !.plan = Range(todo)]
<1>1. WorkShape(work[p]) /\ Proceeds(p, work[p], tr[p])
  BY CommandFacts
<1>2. work' = [work EXCEPT ![p] = w]
  BY CommandFacts DEF Planned
<1>3. WorkShape(u) /\ u.at = "next" /\ u.id = work[p].id /\ u.scanned = work[p].scanned
  BY <1>1 DEF WorkShape
<1> HIDE DEF u
<1>4. /\ WorkShape(v) /\ v.at = "next" /\ v.id = work[p].id /\ v.scanned = work[p].scanned
      /\ v.todo = todo
  BY <1>3 DEF WorkShape
<1> HIDE DEF v
<1>5. /\ WorkShape(w) /\ w.at = "next" /\ w.id = work[p].id /\ w.scanned = work[p].scanned
      /\ w.todo = todo
  BY <1>4 DEF WorkShape
<1> HIDE DEF w
<1>6. w.at \notin Busy /\ w.at \notin Planners /\ w.at \notin {"translating", "writing"}
  BY <1>5 DEF Busy, Planners
<1>7. Proceeds(p, w, tr[p])
  BY <1>1, <1>5, <1>6, Zenon DEF Proceeds, Planners
<1> QED BY <1>2, <1>5, <1>7, QuietMoves DEF Quiet

LEMMA PlanBatchSteps ==
  ASSUME CommandInv, NEW p \in Processes, PlanBatch(p)
  PROVE  CommandInv'
<1>1. /\ work[p].at = "scanned" /\ tr[p].at \in Resting
      /\ UNCHANGED <<file, lock, draft, job, tr, files, call>>
  BY CommandFacts DEF PlanBatch, translation, database
<1>2. IsText(work[p].todo) /\ \A x \in Range(work[p].todo) : Planning(p, x)
  BY CommandFacts DEF Proceeds
<1>3. Exits(p, "ok") \/ Planned(p, work[p].todo)
  BY Zenon DEF PlanBatch
<1> QED BY <1>1, <1>2, <1>3, ExitSteps, PlannedSteps DEF Quiet

LEMMA PlanDocumentsSteps ==
  ASSUME CommandInv, NEW p \in Processes, PlanDocuments(p)
  PROVE  CommandInv'
<1>1. /\ work[p].at = "plan" /\ tr[p].at \in Resting /\ job[p].kind = "doc"
      /\ UNCHANGED <<file, lock, draft, job, tr, files, call>>
  BY CommandFacts DEF PlanDocuments, translation, database
<1> DEFINE S == {name \in Names : IsSource(p, name)}
           todoOf(sources) == [i \in DOMAIN sources |-> Target(p, sources[i])]
<1>2. CASE Exits(p, "error")
  BY <1>1, <1>2, ExitSteps DEF Quiet
<1>3. ASSUME NEW sources \in SetToSeqs(S), Planned(p, todoOf(sources))
      PROVE  CommandInv'
  <2> DEFINE todo == todoOf(sources)
  <2>1. IsText(sources) /\ Range(sources) \subseteq S
    <3>1. S \subseteq Names /\ sources \in SetToSeqs(S)
      OBVIOUS
    <3> HIDE DEF S
    <3> QED BY <3>1, NamesFinite, Orders
  <2>2. IsText(todo) /\ DOMAIN todo = DOMAIN sources
    <3>1. todo = [i \in DOMAIN sources |-> todo[i]]
      OBVIOUS
    <3> HIDE DEF todo
    <3> QED BY <2>1, <3>1, TextLike
  <2>3. \A x \in Range(todo) : Planning(p, x)
    <3>1. ASSUME NEW i \in DOMAIN sources PROVE Planning(p, todo[i])
      <4>1. sources[i] \in Names /\ IsSource(p, sources[i])
        BY <2>1 DEF Range
      <4>2. Planning(p, Target(p, sources[i]))
        BY <1>1, <4>1, TargetComes
      <4> QED BY <4>2
    <3> HIDE DEF todo
    <3> QED BY <2>2, <3>1 DEF Range
  <2>4. Planned(p, todo)
    BY <1>3
  <2> HIDE DEF todo
  <2> QED BY <1>1, <2>2, <2>3, <2>4, PlannedSteps
<1>4. Exits(p, "error") \/ \E sources \in SetToSeqs(S) : Planned(p, todoOf(sources))
  BY Zenon DEF PlanDocuments
<1> HIDE DEF S, todoOf
<1> QED BY <1>2, <1>3, <1>4

LEMMA PlanTextSteps ==
  ASSUME CommandInv, NEW p \in Processes, PlanText(p)
  PROVE  CommandInv'
<1> DEFINE input == job[p].input
           content == Content(input)
           target == [from |-> input, to |-> job[p].to, lang |-> TargetLang(p, content), text |-> content.text]
           todo == <<target>>
<1>1. /\ work[p].at = "plan" /\ tr[p].at \in Resting /\ job[p].kind = "text"
      /\ UNCHANGED <<file, lock, draft, job, tr, files, call>>
  BY CommandFacts DEF PlanText, translation, database
<1>2. CASE \E status : Exits(p, status)
  BY <1>1, <1>2, ExitSteps DEF Quiet
<1>3. CASE Planned(p, <<target>>)
  <2>1. target.from = input /\ target.to = job[p].to /\ target.text = content.text
    OBVIOUS
  <2>2. IsText(content.text)
    <3>1. CASE input \in Names
      <4>1. Disk[input] # Missing
        BY <1>1, <3>1, JobFacts
      <4>2. IsText(disk[input].text)
        BY <3>1, <4>1, FilesHaveText
      <4> QED BY <3>1, <4>2 DEF Content
    <3>2. CASE input \notin Names
      <4>1. IsText(input.text)
        BY <1>1, <3>2, JobFacts
      <4> QED BY <3>2, <4>1 DEF Content
    <3> QED BY <3>1, <3>2
  <2>3. input \in Names => content = disk[input]
    BY DEF Content
  <2>4. input \notin Names => content = input
    BY DEF Content
  <2>5. IsText(todo) /\ Range(todo) = {target}
    <3> HIDE DEF target
    <3> QED BY OneText
  <2> HIDE DEF content, target, todo
  <2>6. Comes(p, target, target.text)
    BY <1>1, <2>1, <2>3, <2>4, JobFacts DEF Comes
  <2>7. Planning(p, target)
    BY <2>1, <2>2, <2>6 DEF Planning
  <2>8. Planned(p, todo)
    BY <1>3 DEF todo
  <2> QED BY <1>1, <2>5, <2>7, <2>8, PlannedSteps
<1>4. (\E status : Exits(p, status)) \/ Planned(p, <<target>>)
  BY Zenon DEF PlanText
<1> QED BY <1>2, <1>3, <1>4

-----------------------------------------------------------------------------
(* The pages.                                                              *)

\* FlattenSeq joins the sequences one after the other.
LEMMA FlattenIs ==
  ASSUME NEW s, IsText(s), s # <<>>
  PROVE  \E f : /\ FlattenSeq(s) = f[Len(s)]
                /\ \A k \in 1 .. Len(s) : f[k] = IF k = 1 THEN s[k] ELSE f[k-1] \o s[k]
<1> DEFINE n == Len(s)
           flattens(m, f) == f = [k \in 1 .. m |-> IF k = 1 THEN s[k] ELSE f[k-1] \o s[k]]
<1>1. DOMAIN s = 1 .. n /\ n \in Nat /\ n # 0
  BY TextDomain
<1>2. \A m \in Nat : \E f : flattens(m, f)
  <2> DEFINE T == {m \in Nat : ~ \E f : flattens(m, f)}
  <2> SUFFICES ASSUME T # {} PROVE FALSE
    OBVIOUS
  <2>1. PICK m \in T : \A k \in T : m <= k
    <3>1. T \in SUBSET Nat
      OBVIOUS
    <3> HIDE DEF T
    <3> QED BY <3>1, LeastNumber
  <2>2. m \in Nat /\ ~ \E f : flattens(m, f)
    OBVIOUS
  <2>3. m # 0
    <3> DEFINE e == [k \in 1 .. 0 |-> s[k]]
    <3>1. flattens(0, e)
      OBVIOUS
    <3> QED BY <2>2, <3>1
  <2>4. PICK f : flattens(m - 1, f)
    <3>1. m - 1 \in Nat /\ m - 1 \notin T
      <4> HIDE DEF T
      <4> QED BY <2>1, <2>2, <2>3
    <3> QED BY <3>1
  <2> DEFINE last == IF m = 1 THEN s[m] ELSE f[m-1] \o s[m]
             g == [k \in 1 .. m |-> IF k = m THEN last ELSE f[k]]
  <2>5. ASSUME NEW k \in 1 .. m
        PROVE  g[k] = IF k = 1 THEN s[k] ELSE g[k-1] \o s[k]
    <3>1. CASE k = m
      <4>1. k # 1 => k - 1 \in 1 .. m /\ k - 1 # m
        BY <2>2, <3>1
      <4> QED BY <3>1, <4>1
    <3>2. CASE k # m
      <4>1. k \in 1 .. m - 1 /\ (k # 1 => k - 1 \in 1 .. m /\ k - 1 # m)
        BY <2>2, <3>2
      <4>2. f[k] = IF k = 1 THEN s[k] ELSE f[k-1] \o s[k]
        BY <2>4, <4>1
      <4> QED BY <3>2, <4>1, <4>2
    <3> QED BY <3>1, <3>2
  <2>6. g = [k \in 1 .. m |-> g[k]]
    OBVIOUS
  <2> HIDE DEF g
  <2>7. flattens(m, g)
    BY <2>5, <2>6
  <2> QED BY <2>2, <2>7
<1> DEFINE f == CHOOSE h : flattens(n, h)
<1>3. FlattenSeq(s) = f[n]
  BY <1>1 DEF FlattenSeq
<1>4. flattens(n, f)
  <2>1. \E h : flattens(n, h)
    <3> HIDE DEF flattens, n
    <3> QED BY <1>1, <1>2
  <2> HIDE DEF flattens, n
  <2> QED BY <2>1
<1> HIDE DEF f
<1>5. \A k \in 1 .. n : f[k] = IF k = 1 THEN s[k] ELSE f[k-1] \o s[k]
  BY <1>4
<1> HIDE DEF flattens, n
<1> QED BY <1>3, <1>5 DEF n

LEMMA FlattenText ==
  ASSUME NEW S, NEW s, IsText(s), \A i \in DOMAIN s : s[i] \in Seq(S)
  PROVE  FlattenSeq(s) \in Seq(S)
<1>1. DOMAIN s = 1 .. Len(s) /\ Len(s) \in Nat /\ (s = <<>> <=> DOMAIN s = {})
  BY TextDomain
<1>2. CASE s = <<>>
  <2>1. FlattenSeq(s) = s
    BY <1>2 DEF FlattenSeq
  <2>2. s \in Seq(S)
    BY <1>2
  <2> QED BY <2>1, <2>2
<1>3. CASE s # <<>>
  <2>1. PICK f : /\ FlattenSeq(s) = f[Len(s)]
                 /\ \A k \in 1 .. Len(s) : f[k] = IF k = 1 THEN s[k] ELSE f[k-1] \o s[k]
    BY <1>3, FlattenIs
  <2> DEFINE T == {k \in 1 .. Len(s) : f[k] \notin Seq(S)}
  <2>2. T = {}
    <3> SUFFICES ASSUME T # {} PROVE FALSE
      OBVIOUS
    <3>1. PICK k \in T : \A j \in T : k <= j
      <4>1. T \in SUBSET Nat
        OBVIOUS
      <4> HIDE DEF T
      <4> QED BY <4>1, LeastNumber
    <3>2. k \in 1 .. Len(s) /\ f[k] \notin Seq(S) /\ s[k] \in Seq(S)
      BY <1>1
    <3>3. k # 1
      BY <2>1, <3>2
    <3>4. k - 1 \in 1 .. Len(s) /\ k - 1 \notin T
      BY <1>1, <3>1, <3>2, <3>3
    <3>5. f[k-1] \in Seq(S)
      BY <3>4
    <3>6. f[k] = f[k-1] \o s[k]
      BY <2>1, <3>2, <3>3
    <3> QED BY <3>2, <3>5, <3>6
  <2>3. Len(s) \in 1 .. Len(s)
    BY <1>1, <1>3
  <2> QED BY <2>1, <2>2, <2>3
<1> QED BY <1>2, <1>3

LEMMA PageText ==
  ASSUME NEW invocation, NEW stream, NEW lang, NEW text
  PROVE  PageOf(invocation, stream, lang, text).text = text
  BY DEF PageOf

\* Sequences of pages whose texts are texts.
Readable(pagesOf) == IsText(pagesOf) /\ \A x \in Range(pagesOf) : IsText(x.text)

LEMMA ReadableNone == Readable(<<>>)
  BY EmptyText DEF Readable

LEMMA ReadableOne ==
  ASSUME NEW invocation, NEW stream, NEW lang, NEW text, IsText(text)
  PROVE  Readable(<<PageOf(invocation, stream, lang, text)>>)
<1> DEFINE x == PageOf(invocation, stream, lang, text)
<1>1. x.text = text
  BY PageText
<1> HIDE DEF x
<1>2. IsText(<<x>>) /\ Range(<<x>>) = {x}
  BY OneText
<1>3. Readable(<<x>>)
  BY <1>1, <1>2 DEF Readable
<1> QED BY <1>3 DEF x

LEMMA ReadableJoined ==
  ASSUME NEW s, NEW t, Readable(s), Readable(t)
  PROVE  Readable(s \o t)
<1>1. IsText(s \o t) /\ Range(s \o t) \subseteq Range(s) \cup Range(t)
  BY JoinedText DEF Readable
<1> QED BY <1>1 DEF Readable

LEMMA ExecPagesReadable ==
  ASSUME NEW p, NEW invocation \in DOMAIN Prints
  PROVE  Readable(ExecPages(p, invocation))
<1> DEFINE printed == Prints[invocation]
           lang == IF printed.out.sort = "cut" THEN Primary ELSE TargetLang(p, printed.out)
           err == IF TranslatesStderr(invocation)
                  THEN <<PageOf(invocation, "err", lang, printed.err.text)>> ELSE <<>>
           out == IF TranslatesStdout(invocation)
                  THEN <<PageOf(invocation, "out", lang, printed.out.text)>> ELSE <<>>
<1>1. ExecPages(p, invocation) = err \o out
  BY DEF ExecPages
<1>2. IsText(printed.err.text) /\ IsText(printed.out.text)
  BY PrintsAssumption
<1> HIDE DEF printed, lang
<1>3. Readable(err)
  BY <1>2, ReadableOne, ReadableNone
<1>4. Readable(out)
  BY <1>2, ReadableOne, ReadableNone
<1> HIDE DEF err, out
<1> QED BY <1>1, <1>3, <1>4, ReadableJoined

LEMMA ManPageReadable ==
  ASSUME NEW p, NEW invocation \in DOMAIN Prints
  PROVE  Readable(ManPage(p, invocation))
<1>1. IsText(Prints[invocation].out.text)
  BY PrintsAssumption
<1> QED BY <1>1, ReadableOne DEF ManPage

LEMMA PrecachePagesReadable ==
  ASSUME NEW cmd \in OnPath
  PROVE  Readable(PrecachePages(cmd))
<1> DEFINE all(flag) == Prints[<<cmd, flag>>].out.text \o Prints[<<cmd, flag>>].err.text
           manual == Prints[<<"man", cmd>>].out
           man == IF manual.sort \notin {"fails", "blank", "none"}
                  THEN <<PageOf(<<"man", cmd>>, "out", Primary, manual.text)>> ELSE <<>>
           help == IF HelpOf(cmd) = <<>> THEN <<>>
                   ELSE <<PageOf(<<cmd, "--help">>, "out", Primary, HelpOf(cmd))>>
<1>1. <<"man", cmd>> \in DOMAIN Prints /\ <<cmd, "--help">> \in DOMAIN Prints /\ <<cmd, "-h">> \in DOMAIN Prints
  BY PathAssumption
<1>2. IsText(manual.text)
  BY <1>1, PrintsAssumption
<1>3. IsText(all("--help"))
  <2>1. IsText(Prints[<<cmd, "--help">>].out.text) /\ IsText(Prints[<<cmd, "--help">>].err.text)
    BY <1>1, PrintsAssumption
  <2> QED BY <2>1, JoinedText
<1>4. IsText(all("-h"))
  <2>1. IsText(Prints[<<cmd, "-h">>].out.text) /\ IsText(Prints[<<cmd, "-h">>].err.text)
    BY <1>1, PrintsAssumption
  <2> QED BY <2>1, JoinedText
<1>5. HelpOf(cmd) = all("--help") \/ HelpOf(cmd) = all("-h") \/ HelpOf(cmd) = <<>>
  BY DEF HelpOf
<1>6. PrecachePages(cmd) = man \o help
  BY DEF PrecachePages
<1> HIDE DEF all, manual
<1>7. IsText(HelpOf(cmd))
  BY <1>3, <1>4, <1>5, EmptyText
<1>8. Readable(man)
  BY <1>2, ReadableOne, ReadableNone
<1>9. Readable(help)
  BY <1>7, ReadableOne, ReadableNone
<1> HIDE DEF man, help
<1> QED BY <1>6, <1>8, <1>9, ReadableJoined

\* A plan of pages.
LEMMA PlannedPages ==
  ASSUME CommandInv, NEW p \in Processes, UNCHANGED <<file, lock, draft, job, tr, files, call>>,
         tr[p].at \in Resting, job[p].kind \notin OfTexts, NEW todo, Planned(p, todo), Readable(todo)
  PROVE  CommandInv'
<1>1. IsText(todo) /\ \A x \in Range(todo) : Planning(p, x)
  BY DEF Readable, Planning
<1> QED BY <1>1, PlannedSteps

LEMMA PlanPagesSteps ==
  ASSUME CommandInv, NEW p \in Processes, PlanPages(p)
  PROVE  CommandInv'
<1>1. /\ work[p].at = "plan" /\ tr[p].at \in Resting /\ job[p].kind \in {"exec", "man", "info"}
      /\ UNCHANGED <<file, lock, draft, job, tr, files, call>>
  BY CommandFacts DEF PlanPages, translation, database
<1>2. job[p].command \in DOMAIN Prints /\ job[p].kind \notin OfTexts
  BY <1>1, JobFacts DEF OfTexts
<1>3. CASE Exits(p, "error")
  BY <1>1, <1>3, ExitSteps DEF Quiet
<1>4. CASE \E todo : Planned(p, todo) /\ Readable(todo)
  BY <1>1, <1>2, <1>4, PlannedPages
<1>5. \/ Exits(p, "error")
      \/ Planned(p, ExecPages(p, job[p].command))
      \/ Planned(p, ManPage(p, job[p].command))
  <2>1. Exits(p, "error") \/ Planned(p, IF job[p].kind = "exec" THEN ExecPages(p, job[p].command)
                                        ELSE ManPage(p, job[p].command))
    BY Zenon DEF PlanPages
  <2> QED BY <2>1
<1>6. Readable(ExecPages(p, job[p].command)) /\ Readable(ManPage(p, job[p].command))
  BY <1>2, ExecPagesReadable, ManPageReadable
<1> QED BY <1>3, <1>4, <1>5, <1>6, Zenon

LEMMA PrecacheReadable ==
  ASSUME NEW names \in Discovered
  PROVE  Readable(FlattenSeq([i \in DOMAIN names |-> PrecachePages(names[i])]))
<1> DEFINE wanted == {name \in Wanted : Cardinality(Earlier(name)) < RecentLimit}
           S == UNION {Range(PrecachePages(cmd)) : cmd \in OnPath}
           s == [i \in DOMAIN names |-> PrecachePages(names[i])]
           todo == FlattenSeq(s)
<1>1. IsText(names) /\ Range(names) \subseteq OnPath
  <2>1. names \in SetToSeqs(wanted)
    BY DEF Discovered
  <2>2. wanted \subseteq OnPath
    BY DEF Wanted
  <2>3. IsFiniteSet(wanted)
    BY <2>2, PathAssumption, FS_Subset
  <2> HIDE DEF wanted
  <2> QED BY <2>1, <2>2, <2>3, Orders
<1>2. \A x \in S : IsText(x.text)
  BY PrecachePagesReadable DEF Readable
<1>3. ASSUME NEW cmd \in OnPath PROVE PrecachePages(cmd) \in Seq(S)
  <2>1. IsText(PrecachePages(cmd))
    BY PrecachePagesReadable DEF Readable
  <2>2. Range(PrecachePages(cmd)) \subseteq S
    OBVIOUS
  <2> HIDE DEF S
  <2> QED BY <2>1, <2>2 DEF IsText
<1> HIDE DEF S
<1>4. IsText(s) /\ DOMAIN s = DOMAIN names
  <2>1. s = [i \in DOMAIN names |-> s[i]]
    OBVIOUS
  <2> HIDE DEF s
  <2> QED BY <1>1, <2>1, TextLike
<1>5. \A i \in DOMAIN s : s[i] \in Seq(S)
  <2>1. \A i \in DOMAIN names : names[i] \in OnPath
    BY <1>1 DEF Range
  <2> QED BY <1>3, <1>4, <2>1
<1> HIDE DEF s
<1>6. todo \in Seq(S)
  BY <1>4, <1>5, FlattenText
<1> HIDE DEF todo
<1>7. Readable(todo)
  BY <1>2, <1>6, TextIs DEF Readable
<1> QED BY <1>7 DEF todo, s

LEMMA PlanPrecacheSteps ==
  ASSUME CommandInv, NEW p \in Processes, PlanPrecache(p)
  PROVE  CommandInv'
<1>1. /\ work[p].at = "plan" /\ tr[p].at \in Resting /\ job[p].kind = "precache"
      /\ UNCHANGED <<file, lock, draft, job, tr, files, call>>
  BY CommandFacts DEF PlanPrecache, translation, database
<1>2. PICK names \in Discovered : Planned(p, FlattenSeq([i \in DOMAIN names |-> PrecachePages(names[i])]))
  BY DEF PlanPrecache
<1>3. PICK todo : todo = FlattenSeq([i \in DOMAIN names |-> PrecachePages(names[i])])
  OBVIOUS
<1>4. Readable(todo) /\ Planned(p, todo)
  BY <1>2, <1>3, PrecacheReadable
<1>5. job[p].kind \notin OfTexts
  BY <1>1 DEF OfTexts
<1> QED BY <1>1, <1>4, <1>5, PlannedPages

-----------------------------------------------------------------------------
(* The texts and the pages.                                                *)

LEMMA NoWorkShape == TrShape(NoWork)
<1>1. \A no, w : w = [at |-> "off", source |-> <<>>, lang |-> NoText, known |-> "unknown",
                      next |-> 0, out |-> <<>>, keep |-> {}, proof |-> no]
         => TrShape(w)
  BY DEF TrShape
<1> QED BY <1>1, Zenon DEF NoWork

\* What a translation starts with.
Started(text, lang, out, step) ==
    [NoWork EXCEPT !.source = text, !.lang = lang, !.out = out, !.at = step]

LEMMA Starting ==
  ASSUME NEW text, NEW lang, NEW out, NEW step, NEW t, t = Started(text, lang, out, step)
  PROVE  TrShape(t) /\ t.at = step /\ t.source = text /\ t.lang = lang /\ t.out = out
<1> DEFINE a == [NoWork EXCEPT !.source = text]
           b == [a EXCEPT !.lang = lang]
           d == [b EXCEPT !.out = out]
           e == [d EXCEPT !.at = step]
<1>1. TrShape(NoWork)
  BY NoWorkShape
<1>2. t = e
  BY Zenon DEF Started
<1> USE DEF TrShape
<1>3. TrShape(a) /\ a.source = text
  BY <1>1
<1> HIDE DEF a
<1>4. TrShape(b) /\ b.source = text /\ b.lang = lang
  BY <1>3
<1> HIDE DEF b
<1>5. TrShape(d) /\ d.source = text /\ d.lang = lang /\ d.out = out
  BY <1>4
<1> HIDE DEF d
<1>6. TrShape(e) /\ e.at = step /\ e.source = text /\ e.lang = lang /\ e.out = out
  BY <1>5
<1> HIDE DEF e, TrShape
<1> QED BY <1>2, <1>6

LEMMA TranslateSteps ==
  ASSUME HistoryInv, TranslationInv, NEW p \in Processes, UNCHANGED <<file, lock, draft, job>>,
         NEW text, NEW lang, IsText(text), Translate(p, text, lang)
  PROVE  /\ HistoryInv' /\ TranslationInv'
         /\ tr'[p].source = text /\ tr'[p].lang = lang
         /\ \A q \in Processes \ {p} : tr'[q] = tr[q]
<1> DEFINE out == [i \in DOMAIN text |-> NoText]
           step == IF text = <<>> THEN "done" ELSE IF Reads(p) THEN "replay" ELSE "prepare"
<1>0. PICK t : t = Started(text, lang, out, step)
  OBVIOUS
<1>1. TrShape(t) /\ t.at = step /\ t.source = text /\ t.lang = lang /\ t.out = out
  <2> HIDE DEF out, step
  <2> QED BY <1>0, Starting
<1>2. tr' = [tr EXCEPT ![p] = t]
  BY <1>0, Zenon DEF Translate, Started
<1>3. Partly(t)
  <2>1. DOMAIN out = DOMAIN text /\ out = [i \in DOMAIN out |-> out[i]] /\ \A i \in DOMAIN out : out[i] = NoText
    OBVIOUS
  <2> HIDE DEF out, step
  <2> QED BY <1>1, <2>1 DEF Partly
<1>4. CASE text # <<>> /\ Reads(p)
  <2>1. Asks(p, "replay", Key(text, lang), NoText)
    BY <1>4, Zenon DEF Translate
  <2>2. /\ HistoryInv' /\ call'[p].op = "replay" /\ call'[p].key = Key(text, lang)
        /\ \A q \in Processes \ {p} : call'[q] = call[q]
    BY <2>1, AskMoves
  <2>3. t.at = "replay"
    BY <1>1, <1>4
  <2>4. Holds(t, call'[p])
    <3> HIDE DEF out, step
    <3>1. t.at \in Lacking /\ t.at # "lookup"
      BY <2>3 DEF Lacking
    <3> QED BY <1>1, <1>3, <2>2, <3>1, HoldsPartly
  <2> HIDE DEF out, step
  <2>5. TranslationInv' /\ tr'[p] = t /\ \A q \in Processes \ {p} : tr'[q] = tr[q]
    BY <1>2, <2>2, <2>4, TranslationMoves
  <2> QED BY <1>1, <2>2, <2>5
<1>5. CASE ~(text # <<>> /\ Reads(p))
  <2>1. UNCHANGED call
    BY <1>5, Zenon DEF Translate
  <2>2. HistoryInv'
    BY <2>1, HistoryStays DEF database
  <2>3. Holds(t, call'[p])
    <3>1. CASE text = <<>>
      <4>1. t.at = "done" /\ t.at \notin Lacking
        BY <1>1, <3>1 DEF Lacking
      <4>2. Whole(t.out, t.source, t.lang)
        <5>1. DOMAIN out = {} /\ DOMAIN text = {}
          BY <3>1, TextDomain
        <5>2. IsText(out)
          BY TextLike
        <5> HIDE DEF out, step
        <5> QED BY <1>1, <5>1, <5>2 DEF Whole
      <4> HIDE DEF out, step
      <4> QED BY <1>1, <4>1, <4>2, Zenon DEF Holds
    <3>2. CASE text # <<>>
      <4>1. t.at = "prepare"
        BY <1>1, <1>5, <3>2
      <4> HIDE DEF out, step
      <4>2. t.at \in Lacking /\ t.at \notin {"replay", "lookup"}
        BY <4>1 DEF Lacking
      <4> QED BY <1>1, <1>3, <4>2, HoldsPartly
    <3> QED BY <3>1, <3>2
  <2> HIDE DEF out, step
  <2>4. TranslationInv' /\ tr'[p] = t /\ \A q \in Processes \ {p} : tr'[q] = tr[q]
    BY <1>2, <2>1, <2>3, TranslationMoves
  <2> QED BY <1>1, <2>2, <2>4
<1> QED BY <1>4, <1>5

\* The next target of the list.
LEMMA NextIs ==
  ASSUME CommandInv, NEW p \in Processes, work[p].todo # <<>>
  PROVE  /\ Planning(p, Head(work[p].todo)) /\ IsText(Tail(work[p].todo))
         /\ \A x \in Range(Tail(work[p].todo)) : Planning(p, x)
<1>1. IsText(work[p].todo) /\ \A x \in Range(work[p].todo) : Planning(p, x)
  BY CommandFacts DEF Proceeds
<1> QED BY <1>1, RestOfText

\* A text or page of p is taken from the list and translated.
LEMMA TakesUp ==
  ASSUME CommandInv, NEW p \in Processes, work[p].todo # <<>>, NEW w,
         work' = [work EXCEPT ![p] = w], WorkShape(w), w.at = "translating", w.id = work[p].id,
         w.scanned = work[p].scanned, w.todo = Tail(work[p].todo), w.now = Head(work[p].todo),
         UNCHANGED <<file, lock, draft, job, files>>,
         NEW text, IsText(text), Translate(p, text, w.now.lang),
         job[p].kind \in OfTexts \cup OfPages,
         job[p].kind \in OfTexts => Comes(p, w.now, text),
         job[p].kind \in OfPages => text = w.now.text
  PROVE  CommandInv'
<1>1. HistoryInv /\ TranslationInv /\ Proceeds(p, work[p], tr[p])
  BY CommandFacts
<1>2. /\ HistoryInv' /\ TranslationInv'
      /\ tr'[p].source = text /\ tr'[p].lang = w.now.lang
      /\ \A q \in Processes \ {p} : tr'[q] = tr[q]
  BY <1>1, TranslateSteps
<1>3. PICK t : t = tr'[p]
  OBVIOUS
<1>4. Planning(p, w.now) /\ \A x \in Range(w.todo) : Planning(p, x)
  BY NextIs
<1>5. IsText(w.todo)
  BY NextIs
<1>6. t.source = text /\ t.lang = w.now.lang
  BY <1>2, <1>3
<1>7. Proceeds(p, w, t)
  <2>1. w.at \notin {"seek", "measure", "counted", "measured", "scanned"} /\ w.at # "writing"
    OBVIOUS
  <2>2. w.id = <<p, w.id[2]>> /\ IsText(w.scanned) /\ Range(w.scanned) \subseteq Names
    BY <1>1 DEF Proceeds
  <2> QED BY <1>4, <1>5, <1>6, <2>1, <2>2, Zenon DEF Proceeds
<1>8. UNCHANGED <<outputs, temps, pages>>
  BY DEF files
<1>9. PagesInv'
  BY <1>8, PagesStay DEF CommandInv
<1> QED BY <1>2, <1>3, <1>7, <1>8, <1>9, CommandMoves

\* One that cannot be read is not translated.
LEMMA CannotRead ==
  ASSUME CommandInv, NEW p \in Processes, work[p].todo # <<>>, NEW w,
         work' = [work EXCEPT ![p] = w], WorkShape(w), w.at = "translating", w.id = work[p].id,
         w.scanned = work[p].scanned, w.todo = Tail(work[p].todo), w.now = Head(work[p].todo),
         UNCHANGED <<file, lock, draft, call, job, files>>, job[p].kind \in OfTexts \cup OfPages,
         tr' = [tr EXCEPT ![p] = [NoWork EXCEPT !.at = "failed"]]
  PROVE  CommandInv'
<1>1. HistoryInv /\ TranslationInv /\ Proceeds(p, work[p], tr[p])
  BY CommandFacts
<1>2. PICK t : t = [NoWork EXCEPT !.at = "failed"]
  OBVIOUS
<1>3. TrShape(t) /\ t.at = "failed" /\ t.source = <<>>
  <2>1. TrShape(NoWork) /\ NoWork.source = <<>>
    BY NoWorkShape, Zenon DEF NoWork
  <2>2. PICK n : n = NoWork
    OBVIOUS
  <2> QED BY <1>2, <2>1, <2>2 DEF TrShape
<1>4. HistoryInv'
  BY <1>1, HistoryStays DEF database
<1>5. Holds(t, call'[p])
  BY <1>3, EmptyText DEF Holds, Lacking
<1>6. TranslationInv' /\ tr'[p] = t /\ \A q \in Processes \ {p} : tr'[q] = tr[q]
  BY <1>1, <1>2, <1>5, TranslationMoves
<1>7. /\ Planning(p, w.now) /\ IsText(w.todo)
      /\ \A x \in Range(w.todo) : Planning(p, x)
  BY NextIs
<1>8. Proceeds(p, w, t)
  <2>1. w.at \notin {"seek", "measure", "counted", "measured", "scanned"} /\ w.at # "writing"
    OBVIOUS
  <2>2. w.id = <<p, w.id[2]>> /\ IsText(w.scanned) /\ Range(w.scanned) \subseteq Names
    BY <1>1 DEF Proceeds
  <2> QED BY <1>3, <1>7, <2>1, <2>2, Zenon DEF Proceeds
<1>9. UNCHANGED <<outputs, temps, pages>>
  BY DEF files
<1>10. PagesInv'
  BY <1>9, PagesStay DEF CommandInv
<1> QED BY <1>4, <1>6, <1>8, <1>9, <1>10, CommandMoves

LEMMA NextTextSteps ==
  ASSUME CommandInv, NEW p \in Processes, NextText(p)
  PROVE  CommandInv'
<1> DEFINE x == Head(work[p].todo)
           text == TextRead(p, x)
           u == [work[p] EXCEPT !.at = "translating"]
           v == [u EXCEPT !.now = x]
           rest == Tail(work[p].todo)
           w == [v EXCEPT !.todo = rest]
<1>1. /\ work[p].at = "next" /\ work[p].todo # <<>> /\ job[p].kind \in OfTexts
      /\ UNCHANGED <<file, lock, draft, job, files>>
      /\ \/ Translate(p, text, x.lang)
         \/ tr' = [tr EXCEPT ![p] = [NoWork EXCEPT !.at = "failed"]] /\ UNCHANGED call
      /\ work' = [work EXCEPT ![p].at = "translating", ![p].now = x, ![p].todo = Tail(@)]
  BY Zenon DEF NextText, OfTexts
<1>2. WorkShape(work[p]) /\ Planning(p, x)
  BY <1>1, CommandFacts, NextIs
<1>3. work' = [work EXCEPT ![p] = w]
  BY <1>1, CommandFacts
<1>4. IsText(text) /\ Comes(p, x, text)
  <2>1. IsText(x.text) /\ Comes(p, x, x.text)
    BY <1>1, <1>2 DEF Planning
  <2> HIDE DEF x
  <2>2. CASE job[p].kind # "batch" /\ x.from \in Names
    <3>1. text = disk[x.from].text
      BY <2>2 DEF TextRead, ReadsNow
    <3> HIDE DEF text
    <3>2. IsText(text)
      BY <2>1, <2>2, <3>1, FilesHaveText DEF Comes
    <3> QED BY <2>1, <2>2, <3>1, <3>2 DEF Comes
  <2>3. CASE ~(job[p].kind # "batch" /\ x.from \in Names)
    <3>1. text = x.text
      BY <2>3 DEF TextRead, ReadsNow
    <3> QED BY <2>1, <3>1
  <2> QED BY <2>2, <2>3
<1> HIDE DEF text
<1>5. rest = Tail(work[p].todo) /\ x = Head(work[p].todo)
  OBVIOUS
<1> HIDE DEF x, rest
<1>7. /\ WorkShape(u) /\ u.at = "translating" /\ u.id = work[p].id /\ u.scanned = work[p].scanned
  BY <1>2 DEF WorkShape
<1> HIDE DEF u
<1>8. /\ WorkShape(v) /\ v.at = "translating" /\ v.id = work[p].id /\ v.scanned = work[p].scanned
      /\ v.now = x
  BY <1>7 DEF WorkShape
<1> HIDE DEF v
<1>9. /\ WorkShape(w) /\ w.at = "translating" /\ w.id = work[p].id /\ w.scanned = work[p].scanned
      /\ w.now = x /\ w.todo = rest
  BY <1>8 DEF WorkShape
<1> HIDE DEF w
<1>10. w.now = Head(work[p].todo) /\ w.todo = Tail(work[p].todo) /\ w.now = x
  BY <1>5, <1>9
<1>11. job[p].kind \in OfTexts \cup OfPages /\ job[p].kind \notin OfPages
  BY <1>1 DEF OfTexts, OfPages
<1>12. CASE Translate(p, text, x.lang)
  <2>1. Translate(p, text, w.now.lang) /\ Comes(p, w.now, text)
    BY <1>4, <1>10, <1>12
  <2> QED BY <1>1, <1>3, <1>4, <1>9, <1>10, <1>11, <2>1, TakesUp
<1>13. CASE tr' = [tr EXCEPT ![p] = [NoWork EXCEPT !.at = "failed"]] /\ UNCHANGED call
  BY <1>1, <1>3, <1>9, <1>10, <1>11, <1>13, CannotRead
<1> QED BY <1>1, <1>12, <1>13

LEMMA NextPageSteps ==
  ASSUME CommandInv, NEW p \in Processes, NextPage(p)
  PROVE  CommandInv'
<1> DEFINE x == Head(work[p].todo)
           rest == Tail(work[p].todo)
           u == [work[p] EXCEPT !.now = x]
           v == [u EXCEPT !.todo = rest]
           started == [work[p] EXCEPT !.now = x, !.todo = Tail(@)]
<1>1. /\ work[p].at = "next" /\ work[p].todo # <<>> /\ job[p].kind \in OfPages
      /\ UNCHANGED <<file, lock, draft, job, files>>
  BY Zenon DEF NextPage, OfPages
<1>2. WorkShape(work[p]) /\ Planning(p, x) /\ Proceeds(p, work[p], tr[p]) /\ tr[p].at \in Resting
  BY <1>1, CommandFacts, NextIs
<1>3. started = v
  OBVIOUS
<1>4. \/ work' = [work EXCEPT ![p] = [started EXCEPT !.done = @ \cup {x}]] /\ UNCHANGED <<tr, call>>
      \/ /\ work' = [work EXCEPT ![p] = [started EXCEPT !.at = "translating"]]
         /\ Translate(p, x.text, x.lang)
  BY Zenon DEF NextPage
<1> HIDE DEF started
<1>5. IsText(rest) /\ \A y \in Range(rest) : Planning(p, y)
  BY <1>1, NextIs
<1>a. x = Head(work[p].todo) /\ rest = Tail(work[p].todo)
  OBVIOUS
<1> HIDE DEF x, rest
<1>6. /\ WorkShape(u) /\ u.at = "next" /\ u.id = work[p].id /\ u.scanned = work[p].scanned
      /\ u.now = x
  BY <1>1, <1>2 DEF WorkShape
<1> HIDE DEF u
<1>7. /\ WorkShape(v) /\ v.at = "next" /\ v.id = work[p].id /\ v.scanned = work[p].scanned
      /\ v.now = x /\ v.todo = rest
  BY <1>6 DEF WorkShape
<1> HIDE DEF v
<1>8. CASE work' = [work EXCEPT ![p] = [started EXCEPT !.done = @ \cup {x}]] /\ UNCHANGED <<tr, call>>
  <2> DEFINE w == [v EXCEPT !.done = v.done \cup {x}]
  <2>1. work' = [work EXCEPT ![p] = w]
    BY <1>3, <1>8
  <2>2. /\ WorkShape(w) /\ w.at = "next" /\ w.id = work[p].id /\ w.scanned = work[p].scanned
        /\ w.now = x /\ w.todo = rest
    BY <1>7 DEF WorkShape
  <2> HIDE DEF w
  <2>3. w.at \notin Busy /\ w.at \notin Planners /\ w.at \notin {"translating", "writing"}
    BY <2>2 DEF Busy, Planners
  <2>4. Proceeds(p, w, tr[p])
    BY <1>2, <1>5, <2>2, <2>3, Zenon DEF Proceeds, Planners
  <2> QED BY <1>1, <1>2, <1>8, <2>1, <2>2, <2>4, QuietMoves DEF Quiet
<1>9. CASE /\ work' = [work EXCEPT ![p] = [started EXCEPT !.at = "translating"]]
           /\ Translate(p, x.text, x.lang)
  <2> DEFINE w == [v EXCEPT !.at = "translating"]
  <2>1. work' = [work EXCEPT ![p] = w]
    BY <1>3, <1>9
  <2>2. /\ WorkShape(w) /\ w.at = "translating" /\ w.id = work[p].id /\ w.scanned = work[p].scanned
        /\ w.now = x /\ w.todo = rest
    BY <1>7 DEF WorkShape
  <2> HIDE DEF w
  <2>3. IsText(x.text)
    BY <1>2 DEF Planning
  <2>4. job[p].kind \in OfTexts \cup OfPages /\ job[p].kind \notin OfTexts
    BY <1>1 DEF OfTexts, OfPages
  <2>5. Translate(p, x.text, w.now.lang)
    BY <1>9, <2>2
  <2> QED BY <1>1, <1>a, <2>1, <2>2, <2>3, <2>4, <2>5, TakesUp
<1> QED BY <1>4, <1>8, <1>9

LEMMA FinishSteps ==
  ASSUME CommandInv, NEW p \in Processes, Finish(p)
  PROVE  CommandInv'
<1>1. /\ work[p].at = "next" /\ tr[p].at \in Resting /\ Exits(p, Status(p))
      /\ UNCHANGED <<file, lock, draft, job, tr, files, call>>
  BY CommandFacts DEF Finish, translation, database
<1> QED BY <1>1, ExitSteps DEF Quiet

\* The end of a text or page, whatever became of it.
LEMMA FailedWith ==
  ASSUME CommandInv, NEW p \in Processes, NEW names, Failed(p, names)
  PROVE  \E w : /\ work' = [work EXCEPT ![p] = w]
                /\ WorkShape(w) /\ w.at \in {"next", "exit"} /\ w.id = work[p].id
                /\ w.scanned = work[p].scanned /\ w.todo = work[p].todo /\ w.now = work[p].now
<1>1. CASE Exits(p, "error")
  BY <1>1, ExitsWith
<1>2. CASE work' = [work EXCEPT ![p].at = "next", ![p].failed = @ + 1, ![p].count = @ + names]
  <2> DEFINE u == [work[p] EXCEPT !.at = "next"]
             v == [u EXCEPT !.failed = work[p].failed + 1]
             w == [v EXCEPT !.count = work[p].count + names]
  <2>1. WorkShape(work[p])
    BY CommandFacts
  <2>2. work' = [work EXCEPT ![p] = w]
    BY <1>2, CommandFacts
  <2>3. /\ WorkShape(u) /\ u.at = "next" /\ u.id = work[p].id
        /\ u.scanned = work[p].scanned /\ u.todo = work[p].todo /\ u.now = work[p].now
    BY <2>1 DEF WorkShape
  <2> HIDE DEF u
  <2>4. /\ WorkShape(v) /\ v.at = "next" /\ v.id = work[p].id
        /\ v.scanned = work[p].scanned /\ v.todo = work[p].todo /\ v.now = work[p].now
    BY <2>3 DEF WorkShape
  <2> HIDE DEF v
  <2>5. /\ WorkShape(w) /\ w.at = "next" /\ w.id = work[p].id
        /\ w.scanned = work[p].scanned /\ w.todo = work[p].todo /\ w.now = work[p].now
    BY <2>4 DEF WorkShape
  <2> HIDE DEF w
  <2> QED BY <2>2, <2>5
<1> QED BY <1>1, <1>2, Zenon DEF Failed

LEMMA NotTranslatedSteps ==
  ASSUME CommandInv, NEW p \in Processes, NotTranslated(p)
  PROVE  CommandInv'
<1>1. /\ tr[p].at \in Resting /\ Failed(p, 0) /\ call' = [call EXCEPT ![p] = NoCall]
      /\ UNCHANGED <<file, lock, draft, job, tr, files>>
  BY DEF NotTranslated, translation, Resting
<1>2. PICK w : /\ work' = [work EXCEPT ![p] = w]
               /\ WorkShape(w) /\ w.at \in {"next", "exit"} /\ w.id = work[p].id
               /\ w.scanned = work[p].scanned /\ w.todo = work[p].todo /\ w.now = work[p].now
  BY <1>1, FailedWith
<1>3. Proceeds(p, w, tr[p])
  BY <1>1, <1>2, CommandFacts, ProceedsOn
<1> QED BY <1>1, <1>2, <1>3, QuietMoves DEF Quiet

LEMMA ShowsWith ==
  ASSUME CommandInv, NEW p \in Processes, Shows(p)
  PROVE  \E w : /\ work' = [work EXCEPT ![p] = w]
                /\ WorkShape(w) /\ w.at = "next" /\ w.id = work[p].id
                /\ w.scanned = work[p].scanned /\ w.todo = work[p].todo /\ w.now = work[p].now
<1> DEFINE v == [work[p] EXCEPT !.at = "next"]
           w == [v EXCEPT !.done = work[p].done \cup {work[p].now}]
<1>1. WorkShape(work[p])
  BY CommandFacts
<1>2. work' = [work EXCEPT ![p] = w]
  BY CommandFacts DEF Shows
<1>3. /\ WorkShape(v) /\ v.at = "next" /\ v.id = work[p].id
      /\ v.scanned = work[p].scanned /\ v.todo = work[p].todo /\ v.now = work[p].now
  BY <1>1 DEF WorkShape
<1> HIDE DEF v
<1>4. /\ WorkShape(w) /\ w.at = "next" /\ w.id = work[p].id
      /\ w.scanned = work[p].scanned /\ w.todo = work[p].todo /\ w.now = work[p].now
  BY <1>3 DEF WorkShape
<1> HIDE DEF w
<1> QED BY <1>2, <1>4

LEMMA ShowTextSteps ==
  ASSUME CommandInv, NEW p \in Processes, ShowText(p)
  PROVE  CommandInv'
<1>1. /\ tr[p].at \in Resting /\ Shows(p)
      /\ UNCHANGED <<file, lock, draft, job, tr, files, call>>
  BY DEF ShowText, translation, database, Resting
<1>2. PICK w : /\ work' = [work EXCEPT ![p] = w]
               /\ WorkShape(w) /\ w.at = "next" /\ w.id = work[p].id
               /\ w.scanned = work[p].scanned /\ w.todo = work[p].todo /\ w.now = work[p].now
  BY <1>1, ShowsWith
<1>3. Proceeds(p, w, tr[p])
  BY <1>1, <1>2, CommandFacts, ProceedsOn
<1> QED BY <1>1, <1>2, <1>3, QuietMoves DEF Quiet

\* A page that is kept is translated throughout.
LEMMA KeepPageSteps ==
  ASSUME CommandInv, NEW p \in Processes, KeepPage(p)
  PROVE  CommandInv'
<1>1. /\ work[p].at = "translating" /\ tr[p].at = "done" /\ tr[p].at \in Resting
      /\ job[p].kind \in OfPages /\ Shows(p)
      /\ UNCHANGED <<file, lock, draft, job, tr, call, outputs, temps>>
  BY Zenon DEF KeepPage, translation, database, Resting, OfPages
<1>2. PICK w : /\ work' = [work EXCEPT ![p] = w]
               /\ WorkShape(w) /\ w.at = "next" /\ w.id = work[p].id
               /\ w.scanned = work[p].scanned /\ w.todo = work[p].todo /\ w.now = work[p].now
  BY <1>1, ShowsWith
<1>3. Proceeds(p, w, tr[p])
  BY <1>1, <1>2, CommandFacts, ProceedsOn
<1>4. HistoryInv' /\ TranslationInv'
  BY <1>1, CommandFacts, HistoryStays, TranslationAll DEF database
<1>5. PagesInv'
  <2>1. CASE UNCHANGED pages
    BY <2>1, CommandFacts, PagesStay
  <2>2. CASE ~Degraded(p) /\ StorePage(work[p].now, tr[p].out)
    <3> DEFINE row == RowOf(work[p].now, tr[p].out)
    <3>1. Whole(tr[p].out, tr[p].source, tr[p].lang)
      BY <1>1, CommandFacts, TranslationFacts DEF Holds
    <3>2. tr[p].lang = work[p].now.lang /\ tr[p].source = work[p].now.text
      BY <1>1, CommandFacts DEF Proceeds
    <3>3. AllTranslated(tr[p].out, tr[p].source, tr[p].lang)
      BY <2>2, <3>1 DEF Degraded, Whole, AllTranslated
    <3>4. row.text = tr[p].out /\ row.source = work[p].now.text /\ row.lang = work[p].now.lang
      BY DEF RowOf
    <3>5. \A r \in pages' : r \in pages \/ r = row
      BY <2>2 DEF StorePage
    <3>6. \A r \in pages : Whole(r.text, r.source, r.lang) /\ AllTranslated(r.text, r.source, r.lang)
      BY CommandFacts DEF PagesInv
    <3> HIDE DEF row
    <3> QED BY <3>1, <3>2, <3>3, <3>4, <3>5, <3>6 DEF PagesInv
  <2>3. UNCHANGED pages \/ (~Degraded(p) /\ StorePage(work[p].now, tr[p].out))
    BY Zenon DEF KeepPage
  <2> QED BY <2>1, <2>2, <2>3
<1>6. PICK t : t = tr[p]
  OBVIOUS
<1>7. w.at # "writing"
  BY <1>2
<1> QED BY <1>1, <1>2, <1>3, <1>4, <1>5, <1>6, <1>7, CommandMoves

-----------------------------------------------------------------------------
(* The outputs.                                                            *)

LEMMA NamesDiffer ==
  ASSUME CommandInv, NEW p \in Processes, NEW q \in Processes, p # q
  PROVE  TempName(p) # TempName(q)
<1>1. work[p].id = <<p, work[p].id[2]>> /\ work[q].id = <<q, work[q].id[2]>>
  BY CommandFacts DEF Proceeds
<1>2. work[p].id # work[q].id
  BY <1>1
<1> QED BY <1>2 DEF TempName

\* The file that p writes.
LEMMA TempIs ==
  ASSUME CommandInv, NEW p \in Processes, work[p].at = "writing"
  PROVE  /\ Temp(p) \in temps /\ Temp(p).name = TempName(p)
         /\ Temp(p) = [name |-> TempName(p), text |-> Temp(p).text] /\ IsText(Temp(p).text)
         /\ Len(Temp(p).text) <= Len(tr[p].out)
         /\ \A i \in DOMAIN Temp(p).text : Temp(p).text[i] = tr[p].out[i]
<1>1. PICK t \in temps :
         /\ t.name = TempName(p) /\ Len(t.text) <= Len(tr[p].out)
         /\ \A i \in DOMAIN t.text : t.text[i] = tr[p].out[i]
  BY CommandFacts DEF TempsInv
<1>2. \A s \in temps : s.name = t.name => s = t
  BY CommandFacts DEF TempsInv
<1>3. Temp(p) = t
  BY <1>1, <1>2 DEF Temp
<1>4. t = [name |-> t.name, text |-> t.text] /\ IsText(t.text)
  BY CommandFacts DEF TempsInv
<1> QED BY <1>1, <1>3, <1>4

\* The temporary files of the others stay.
LEMMA TempsMove ==
  ASSUME CommandInv, NEW p \in Processes, NEW w, work' = [work EXCEPT ![p] = w], UNCHANGED tr,
         \A s, t \in temps' : s.name = t.name => s = t,
         \A t \in temps' : t = [name |-> t.name, text |-> t.text] /\ IsText(t.text),
         \A t \in temps : t.name # TempName(p) => t \in temps',
         w.at = "writing" =>
            \E t \in temps' :
               /\ t.name = <<w.id, w.count>> /\ Len(t.text) <= Len(tr[p].out)
               /\ \A i \in DOMAIN t.text : t.text[i] = tr[p].out[i]
  PROVE  TempsInv'
<1>1. work'[p] = w /\ \A q \in Processes \ {p} : work'[q] = work[q]
  BY CommandFacts
<1>2. ASSUME NEW q \in Processes, work'[q].at = "writing"
      PROVE  \E t \in temps' :
                /\ t.name = TempName(q)' /\ Len(t.text) <= Len(tr'[q].out)
                /\ \A i \in DOMAIN t.text : t.text[i] = tr'[q].out[i]
  <2>1. CASE q = p
    <3>1. TempName(q)' = <<w.id, w.count>>
      BY <1>1, <2>1 DEF TempName
    <3> QED BY <1>1, <1>2, <2>1, <3>1
  <2>2. CASE q # p
    <3>1. work'[q] = work[q] /\ TempName(q)' = TempName(q) /\ TempName(q) # TempName(p)
      BY <1>1, <2>2, NamesDiffer DEF TempName
    <3>2. /\ Temp(q) \in temps /\ Temp(q).name = TempName(q)
          /\ Len(Temp(q).text) <= Len(tr[q].out)
          /\ \A i \in DOMAIN Temp(q).text : Temp(q).text[i] = tr[q].out[i]
      BY <1>2, <3>1, TempIs
    <3>3. Temp(q) \in temps'
      BY <3>1, <3>2
    <3> QED BY <3>1, <3>2, <3>3
  <2> QED BY <2>1, <2>2
<1> QED BY <1>2 DEF TempsInv

\* A step of p that writes a file.
LEMMA WritingMoves ==
  ASSUME CommandInv, NEW p \in Processes, UNCHANGED <<database, translation, pages>>,
         OnlyMade, DiskInv', TempsInv',
         NEW w, work' = [work EXCEPT ![p] = w], Proceeds(p, w, tr[p])
  PROVE  CommandInv'
<1>1. UNCHANGED <<file, lock, draft, call, job, runtime, tr>>
  BY DEF database, translation
<1>2. HistoryInv' /\ TranslationInv' /\ PagesInv'
  BY <1>1, CommandFacts, HistoryStays, TranslationAll, PagesStay
<1>3. WorkInv'
  <2>1. PICK t : t = tr[p]
    OBVIOUS
  <2> QED BY <1>1, <2>1, CommandFacts, WorkMoves
<1> QED BY <1>2, <1>3 DEF CommandInv

LEMMA CreateSteps ==
  ASSUME CommandInv, NEW p \in Processes, Create(p)
  PROVE  CommandInv'
<1> DEFINE w == [work[p] EXCEPT !.at = "writing"]
           t == [name |-> TempName(p), text |-> <<>>]
<1>1. /\ work[p].at = "translating" /\ tr[p].at = "done"
      /\ job[p].kind \in OfTexts /\ (job[p].kind = "text" => Has(p, "output"))
      /\ TempName(p) \notin {s.name : s \in temps} /\ temps' = temps \cup {t}
      /\ Goes(p, "writing") /\ UNCHANGED <<database, translation, pages, disk, made, job, tr>>
  BY Zenon DEF Create, Publishes, OfTexts, outputs, translation
<1>2. WorkShape(work[p]) /\ Proceeds(p, work[p], tr[p])
  BY CommandFacts
<1>3. work' = [work EXCEPT ![p] = w]
  BY <1>1, CommandFacts DEF Goes
<1>4. /\ WorkShape(w) /\ w.at = "writing" /\ w.id = work[p].id /\ w.count = work[p].count
      /\ w.scanned = work[p].scanned /\ w.todo = work[p].todo /\ w.now = work[p].now
  BY <1>2 DEF WorkShape
<1> HIDE DEF w
<1>5. Proceeds(p, w, tr[p])
  <2>1. work[p].at \in Busy /\ w.at \notin {"seek", "measure", "counted", "measured", "scanned"}
    BY <1>1, <1>4 DEF Busy
  <2>2. tr[p].at \in Resting
    BY <1>1 DEF Resting
  <2> QED BY <1>1, <1>2, <1>4, <2>1, <2>2, Zenon DEF Proceeds
<1>6. t.name = TempName(p) /\ t = [name |-> t.name, text |-> t.text] /\ IsText(t.text)
  BY EmptyText
<1>7. Len(t.text) = 0 /\ DOMAIN t.text = {}
  BY <1>6
<1> HIDE DEF t
<1>8. Len(tr[p].out) \in Nat
  BY <1>1, CommandFacts, TranslationFacts, TextDomain DEF Holds, Whole
<1>9. TempsInv'
  <2>1. t.name = <<w.id, w.count>>
    BY <1>4, <1>6 DEF TempName
  <2>2. \A s, u \in temps : s.name = u.name => s = u
    BY CommandFacts DEF TempsInv
  <2>3. \A s \in temps : s.name # t.name
    BY <1>1, <1>6
  <2>4. \A s \in temps : s = [name |-> s.name, text |-> s.text] /\ IsText(s.text)
    BY CommandFacts DEF TempsInv
  <2>5. \A s, u \in temps' : s.name = u.name => s = u
    BY <1>1, <2>2, <2>3
  <2>6. \A s \in temps' : s = [name |-> s.name, text |-> s.text] /\ IsText(s.text)
    BY <1>1, <1>6, <2>4
  <2>7. t \in temps' /\ Len(t.text) <= Len(tr[p].out) /\ \A i \in DOMAIN t.text : t.text[i] = tr[p].out[i]
    BY <1>1, <1>7, <1>8
  <2>8. \A s \in temps : s.name # TempName(p) => s \in temps'
    BY <1>1
  <2> QED BY <1>1, <1>3, <2>1, <2>5, <2>6, <2>7, <2>8, TempsMove
<1>10. OnlyMade /\ DiskInv'
  BY <1>1, CommandFacts, SameFilesOnlyMade, DiskStays
<1> QED BY <1>1, <1>3, <1>5, <1>9, <1>10, WritingMoves

\* A text or page ends without an output.
LEMMA EndsSomehow ==
  ASSUME CommandInv, NEW p \in Processes, NEW names, Failed(p, names), tr[p].at \in Resting,
         UNCHANGED <<database, translation, pages, outputs>>,
         temps' = temps \/ (work[p].at = "writing" /\ temps' = temps \ {Temp(p)})
  PROVE  CommandInv'
<1>1. PICK w : /\ work' = [work EXCEPT ![p] = w]
               /\ WorkShape(w) /\ w.at \in {"next", "exit"} /\ w.id = work[p].id
               /\ w.scanned = work[p].scanned /\ w.todo = work[p].todo /\ w.now = work[p].now
  BY FailedWith
<1>2. Proceeds(p, w, tr[p])
  BY <1>1, CommandFacts, ProceedsOn
<1>3. \A t \in temps : t.name # TempName(p) => t \in temps'
  BY TempIs
<1>4. UNCHANGED <<disk, made, job, tr>>
  BY DEF outputs, translation
<1>5. temps' \subseteq temps
  OBVIOUS
<1>6. TempsInv'
  <2>1. /\ \A s, t \in temps' : s.name = t.name => s = t
        /\ \A t \in temps' : t = [name |-> t.name, text |-> t.text] /\ IsText(t.text)
    BY <1>5, CommandFacts DEF TempsInv
  <2> QED BY <1>1, <1>3, <1>4, <2>1, TempsMove
<1>7. OnlyMade /\ DiskInv'
  BY <1>4, CommandFacts, SameFilesOnlyMade, DiskStays
<1> QED BY <1>1, <1>2, <1>6, <1>7, WritingMoves

LEMMA RefusedSteps ==
  ASSUME CommandInv, NEW p \in Processes, Refused(p)
  PROVE  CommandInv'
<1>1. /\ tr[p].at \in Resting /\ UNCHANGED <<database, translation, pages, outputs, temps>>
      /\ \E names : Failed(p, names)
  BY Zenon DEF Refused, Publishes, Resting, files
<1> QED BY <1>1, EndsSomehow

LEMMA WriteFailsSteps ==
  ASSUME CommandInv, NEW p \in Processes, WriteFails(p)
  PROVE  CommandInv'
<1>1. /\ work[p].at = "writing" /\ temps' = temps \ {Temp(p)} /\ Failed(p, 1)
      /\ UNCHANGED <<database, translation, pages, outputs>>
  BY DEF WriteFails
<1>2. tr[p].at \in Resting
  BY <1>1, CommandFacts
<1> QED BY <1>1, <1>2, EndsSomehow

LEMMA WriteSteps ==
  ASSUME CommandInv, NEW p \in Processes, Write(p)
  PROVE  CommandInv'
<1> DEFINE old == Temp(p)
           text == Append(old.text, tr[p].out[Len(old.text) + 1])
           t == [name |-> TempName(p), text |-> text]
           w == work[p]
<1>1. /\ work[p].at = "writing" /\ Len(Temp(p).text) < Len(tr[p].out)
      /\ temps' = (temps \ {Temp(p)}) \cup
                    {[Temp(p) EXCEPT !.text = Append(Temp(p).text, tr[p].out[Len(Temp(p).text) + 1])]}
      /\ UNCHANGED <<database, translation, pages, disk, made, job, tr, work>>
  BY DEF Write, outputs, translation
<1>2. /\ old \in temps /\ old.name = TempName(p) /\ old = [name |-> TempName(p), text |-> old.text]
      /\ IsText(old.text) /\ \A i \in DOMAIN old.text : old.text[i] = tr[p].out[i]
  BY <1>1, TempIs
<1>3. temps' = (temps \ {old}) \cup {t}
  <2>1. [old EXCEPT !.text = text] = t
    <3> HIDE DEF old, text
    <3> QED BY <1>2
  <2> QED BY <1>1, <2>1
<1>4. IsText(text) /\ Len(text) = Len(old.text) + 1
      /\ \A i \in DOMAIN text : text[i] = IF i = Len(old.text) + 1 THEN tr[p].out[Len(old.text) + 1]
                                          ELSE old.text[i]
  <2> HIDE DEF old
  <2> QED BY <1>2, AppendText
<1>5. Len(old.text) \in Nat /\ DOMAIN old.text = 1 .. Len(old.text)
  <2> HIDE DEF old
  <2> QED BY <1>2, TextDomain
<1>6. Len(old.text) < Len(tr[p].out) /\ Len(tr[p].out) \in Nat
  <2>1. tr[p].at = "done"
    BY <1>1, CommandFacts DEF Proceeds
  <2>2. Len(tr[p].out) \in Nat
    BY <2>1, CommandFacts, TranslationFacts, TextDomain DEF Holds, Whole
  <2> QED BY <1>1, <2>2
<1>7. DOMAIN text = 1 .. Len(text)
  <2> HIDE DEF text, old
  <2> QED BY <1>4, TextDomain
<1> HIDE DEF text, old
<1>8. Len(text) <= Len(tr[p].out) /\ \A i \in DOMAIN text : text[i] = tr[p].out[i]
  <2>1. Len(text) <= Len(tr[p].out)
    BY <1>4, <1>5, <1>6
  <2>2. ASSUME NEW i \in DOMAIN text, i # Len(old.text) + 1 PROVE i \in DOMAIN old.text
    BY <1>4, <1>5, <1>7, <2>2
  <2> QED BY <1>2, <1>4, <2>1, <2>2
<1>9. t.name = TempName(p) /\ t.text = text /\ t = [name |-> t.name, text |-> t.text]
  OBVIOUS
<1> HIDE DEF t
<1>10. TempsInv'
  <2>1. \A s, u \in temps : s.name = u.name => s = u
    BY CommandFacts DEF TempsInv
  <2>2. \A s \in temps \ {old} : s.name # t.name
    BY <1>2, <1>9, <2>1
  <2>3. \A s \in temps : s = [name |-> s.name, text |-> s.text] /\ IsText(s.text)
    BY CommandFacts DEF TempsInv
  <2>4. \A s, u \in temps' : s.name = u.name => s = u
    BY <1>3, <2>1, <2>2
  <2>5. \A s \in temps' : s = [name |-> s.name, text |-> s.text] /\ IsText(s.text)
    BY <1>3, <1>4, <1>9, <2>3
  <2>6. \A s \in temps : s.name # TempName(p) => s \in temps'
    BY <1>2, <1>3
  <2>7. t \in temps' /\ t.name = <<work[p].id, work[p].count>>
    BY <1>3, <1>9 DEF TempName
  <2>8. work' = [work EXCEPT ![p] = work[p]] /\ UNCHANGED tr
    BY <1>1, CommandFacts
  <2> HIDE DEF w
  <2> QED BY <1>8, <1>9, <2>4, <2>5, <2>6, <2>7, <2>8, TempsMove
<1>11. OnlyMade /\ DiskInv'
  BY <1>1, CommandFacts, SameFilesOnlyMade, DiskStays
<1>12. work' = [work EXCEPT ![p] = w] /\ Proceeds(p, w, tr[p])
  BY <1>1, CommandFacts
<1> HIDE DEF w
<1> QED BY <1>1, <1>10, <1>11, <1>12, WritingMoves

\* The output takes the place of what the file held.
LEMMA RenameSteps ==
  ASSUME CommandInv, NEW p \in Processes, Rename(p)
  PROVE  CommandInv'
<1>0. PICK to, lang : to = work[p].now.to /\ lang = work[p].now.lang
  OBVIOUS
<1> DEFINE text == Temp(p).text
           content == [lang |-> lang, text |-> text]
           u == [work[p] EXCEPT !.at = "next"]
           v == [u EXCEPT !.count = work[p].count + 1]
           w == [v EXCEPT !.done = work[p].done \cup {work[p].now}]
<1>1. /\ work[p].at = "writing" /\ Len(text) = Len(tr[p].out)
      /\ disk' = [disk EXCEPT ![to] = content]
      /\ made' = [name \in DOMAIN made \cup {to} |-> IF name = to THEN tr[p].source ELSE made[name]]
      /\ temps' = temps \ {Temp(p)}
      /\ work' = [work EXCEPT ![p].at = "next", ![p].count = @ + 1, ![p].done = @ \cup {work[p].now}]
      /\ UNCHANGED <<database, translation, pages, job, tr>>
  BY <1>0, Zenon DEF Rename, Flushed, translation
<1>2. WorkShape(work[p]) /\ Proceeds(p, work[p], tr[p])
  BY CommandFacts
<1>3. work' = [work EXCEPT ![p] = w]
  BY <1>1, CommandFacts
<1>4. tr[p].at = "done" /\ tr[p].at \in Resting /\ tr[p].lang = lang /\ Comes(p, work[p].now, tr[p].source)
      /\ job[p].kind \in OfTexts /\ (job[p].kind = "text" => Has(p, "output"))
  BY <1>0, <1>1, <1>2 DEF Proceeds, Resting
<1>5. to \in Names
  BY <1>0, <1>4 DEF Comes
\* What was written is all of it.
<1>6. Whole(text, tr[p].source, lang)
  <2>1. Whole(tr[p].out, tr[p].source, tr[p].lang)
    BY <1>4, CommandFacts, TranslationFacts DEF Holds
  <2>2. IsText(text) /\ \A i \in DOMAIN text : text[i] = tr[p].out[i]
    BY <1>1, TempIs
  <2>3. DOMAIN text = DOMAIN tr[p].out
    <3> HIDE DEF text
    <3> QED BY <1>1, <2>1, <2>2, TextDomain DEF Whole
  <2>4. \A i \in DOMAIN tr[p].out : text[i] = tr[p].out[i]
    BY <2>2, <2>3
  <2> HIDE DEF text
  <2> QED BY <1>4, <2>1, <2>2, <2>3, <2>4 DEF Whole
<1>7. /\ disk = [name \in Names |-> disk[name]] /\ DOMAIN made \subseteq Names
      /\ \A name \in Names :
            IF name \in DOMAIN made
            THEN /\ Whole(disk[name].text, made[name], disk[name].lang) /\ Origin(name)
            ELSE disk[name] = Disk[name]
  BY CommandFacts DEF DiskInv
<1>8. content.text = text /\ content.lang = lang
  OBVIOUS
<1> HIDE DEF content
<1>9. /\ disk' = [name \in Names |-> disk'[name]]
      /\ disk'[to] = content /\ \A name \in Names \ {to} : disk'[name] = disk[name]
  BY <1>1, <1>5, <1>7
<1>10. /\ DOMAIN made' = DOMAIN made \cup {to} /\ made'[to] = tr[p].source
       /\ \A name \in DOMAIN made \ {to} : made'[name] = made[name]
  BY <1>1
<1>11. OnlyMade
  <2>1. \A name \in Names \ DOMAIN made' : disk'[name] = disk[name]
    BY <1>9, <1>10
  <2> QED BY <1>1, <1>10, <2>1 DEF OnlyMade
\* A source that was not written since is unchanged.
<1>12. ASSUME NEW name, NEW given, Source(name, given), name \in DOMAIN made \ {to}
       PROVE  Source(name, given)'
  BY <1>10, <1>11, <1>12 DEF Source, OnlyMade
<1>13. ASSUME NEW name \in DOMAIN made \ {to} PROVE Origin(name)'
  <2>1. Origin(name) /\ disk'[name] = disk[name] /\ made'[name] = made[name]
    BY <1>7, <1>9, <1>10
  <2>2. CASE \E given \in Names : name = Suffixed(given, disk[name].lang) /\ Source(name, given)
    <3>1. PICK given \in Names : name = Suffixed(given, disk[name].lang) /\ Source(name, given)
      BY <2>2
    <3>2. Source(name, given)'
      BY <1>12, <3>1
    <3>3. name = Suffixed(given, disk'[name].lang)
      BY <2>1, <3>1
    <3> QED BY <3>2, <3>3 DEF Origin
  <2>3. CASE \E q \in Processes :
                /\ job[q].kind = "text" /\ Has(q, "output") /\ name = job[q].to
                /\ Source(name, job[q].input)
                /\ job[q].input \notin Names => made[name] = job[q].input.text
    <3>1. PICK q \in Processes :
             /\ job[q].kind = "text" /\ Has(q, "output") /\ name = job[q].to
             /\ Source(name, job[q].input)
             /\ job[q].input \notin Names => made[name] = job[q].input.text
      BY <2>3
    <3>2. PICK given : given = job[q].input
      OBVIOUS
    <3>3. Source(name, given)'
      BY <1>12, <3>1, <3>2
    <3>4. Source(name, job[q].input)'
      BY <1>1, <3>2, <3>3 DEF Source
    <3>5. job' = job /\ (Has(q, "output") <=> Has(q, "output")')
      BY <1>1 DEF Has
    <3> QED BY <2>1, <3>1, <3>4, <3>5 DEF Origin
  <2> QED BY <2>1, <2>2, <2>3 DEF Origin
<1>14. Origin(to)'
  <2> DEFINE x == work[p].now
  <2>1. Comes(p, x, tr[p].source) /\ x.to = to /\ x.lang = lang
    BY <1>0, <1>4
  <2> HIDE DEF x
  <2>2. x.from \in Names \ DOMAIN made' => made'[to] = disk'[x.from].text
    BY <1>10, <1>11, <2>1 DEF Comes, OnlyMade
  <2>3. CASE job[p].kind = "text"
    <3>1. x.from = job[p].input /\ to = job[p].to /\ (x.from \notin Names => made'[to] = x.from.text)
      BY <1>10, <2>1, <2>3 DEF Comes
    <3>2. Source(to, job[p].input)'
      BY <1>1, <2>2, <3>1 DEF Source
    <3>3. job' = job /\ Has(p, "output") /\ Has(p, "output")'
      BY <1>1, <1>4, <2>3 DEF Has
    <3> QED BY <2>3, <3>1, <3>2, <3>3 DEF Origin
  <2>4. CASE job[p].kind # "text"
    <3>1. x.from \in Names /\ to = Suffixed(x.from, lang)
      BY <2>1, <2>4 DEF Comes
    <3>2. PICK given : given = x.from
      OBVIOUS
    <3>3. Source(to, given)'
      BY <2>2, <3>2 DEF Source
    <3>4. to = Suffixed(given, disk'[to].lang)
      BY <1>8, <1>9, <3>1, <3>2
    <3> QED BY <3>1, <3>2, <3>3, <3>4 DEF Origin
  <2> QED BY <2>3, <2>4
<1>15. DiskInv'
  <2>1. ASSUME NEW name \in Names
        PROVE  IF name \in DOMAIN made'
               THEN /\ Whole(disk'[name].text, made'[name], disk'[name].lang) /\ Origin(name)'
               ELSE disk'[name] = Disk[name]
    <3> HIDE DEF text
    <3>1. CASE name = to
      BY <1>6, <1>8, <1>9, <1>10, <1>14, <3>1
    <3>2. CASE name # to /\ name \in DOMAIN made
      <4>1. disk'[name] = disk[name] /\ made'[name] = made[name] /\ Origin(name)' /\ name \in DOMAIN made'
        BY <1>9, <1>10, <1>13, <3>2
      <4>2. Whole(disk[name].text, made[name], disk[name].lang)
        BY <1>7, <3>2
      <4> QED BY <4>1, <4>2
    <3>3. CASE name # to /\ name \notin DOMAIN made
      BY <1>7, <1>9, <1>10, <3>3
    <3> QED BY <3>1, <3>2, <3>3
  <2>2. DOMAIN made' \subseteq Names
    BY <1>5, <1>7, <1>10
  <2> QED BY <1>9, <2>1, <2>2 DEF DiskInv
<1>16. /\ WorkShape(w) /\ w.at = "next" /\ w.id = work[p].id /\ w.scanned = work[p].scanned
       /\ w.todo = work[p].todo /\ w.now = work[p].now
  <2>1. /\ WorkShape(u) /\ u.at = "next" /\ u.id = work[p].id /\ u.scanned = work[p].scanned
        /\ u.todo = work[p].todo /\ u.now = work[p].now
    BY <1>2 DEF WorkShape
  <2> HIDE DEF u
  <2>2. /\ WorkShape(v) /\ v.at = "next" /\ v.id = work[p].id /\ v.scanned = work[p].scanned
        /\ v.todo = work[p].todo /\ v.now = work[p].now
    BY <2>1 DEF WorkShape
  <2> HIDE DEF v
  <2> QED BY <2>2 DEF WorkShape
<1> HIDE DEF w
<1>17. Proceeds(p, w, tr[p])
  BY <1>2, <1>4, <1>16, ProceedsOn
<1>18. TempsInv'
  <2>1. temps' \subseteq temps
    BY <1>1
  <2>2. /\ \A s, t \in temps' : s.name = t.name => s = t
        /\ \A t \in temps' : t = [name |-> t.name, text |-> t.text] /\ IsText(t.text)
    BY <2>1, CommandFacts DEF TempsInv
  <2>3. \A t \in temps : t.name # TempName(p) => t \in temps'
    BY <1>1, TempIs
  <2> QED BY <1>1, <1>3, <1>16, <2>2, <2>3, TempsMove
<1>19. UNCHANGED <<database, translation, pages>>
  BY <1>1
<1> QED BY <1>3, <1>11, <1>15, <1>17, <1>18, <1>19, WritingMoves

\* A killed process leaves its temporary file, and nothing else.
LEMMA NewWorkShape ==
  ASSUME NEW id
  PROVE  /\ WorkShape(NewWork(id)) /\ NewWork(id).at = "begin" /\ NewWork(id).id = id
         /\ NewWork(id).scanned = <<>> /\ NewWork(id).todo = <<>>
  BY DEF WorkShape, NewWork

LEMMA NewWorkProceeds ==
  ASSUME NEW p, NEW id, id = <<p, id[2]>>
  PROVE  Proceeds(p, NewWork(id), NoWork)
<1> DEFINE w == NewWork(id)
<1>1. WorkShape(w) /\ w.at = "begin" /\ w.id = id /\ w.scanned = <<>> /\ w.todo = <<>>
  BY NewWorkShape
<1> HIDE DEF w
<1>2. w.at \notin Busy /\ w.at \notin {"translating", "writing"}
      /\ w.at \notin {"seek", "measure", "counted", "measured", "scanned"}
  BY <1>1 DEF Busy
<1>3. NoWork.at \in Resting
  BY DEF NoWork, Resting
<1>4. IsText(w.scanned) /\ Range(w.scanned) \subseteq Names
      /\ IsText(w.todo) /\ \A x \in Range(w.todo) : Planning(p, x)
  BY <1>1, EmptyText
<1>5. w.id = <<p, w.id[2]>>
  BY <1>1
<1>6. Proceeds(p, w, NoWork)
  BY <1>1, <1>2, <1>3, <1>4, <1>5, Zenon DEF Proceeds
<1> QED BY <1>6 DEF w

LEMMA NoWorkHolds ==
  ASSUME NEW c
  PROVE  Holds(NoWork, c)
<1>1. NoWork.at = "off" /\ NoWork.source = <<>>
  BY DEF NoWork
<1>2. PICK t : t = NoWork
  OBVIOUS
<1>3. TrShape(t) /\ t.at = "off" /\ IsText(t.source)
  BY <1>1, <1>2, NoWorkShape, EmptyText
<1>4. Holds(t, c)
  BY <1>3 DEF Holds, Lacking
<1> QED BY <1>2, <1>4

LEMMA CrashSteps ==
  ASSUME CommandInv, NEW p \in Processes, Crash(p)
  PROVE  CommandInv'
<1>1. /\ Hangup(p) /\ tr' = [tr EXCEPT ![p] = NoWork]
      /\ UNCHANGED <<job, outputs, temps, pages>>
  BY DEF Crash, files
<1>2. PICK id \in {work[p].id, <<p, faults + 1>>} : work' = [work EXCEPT ![p] = NewWork(id)]
  BY DEF Crash
<1>3. /\ HistoryInv' /\ call'[p] = NoCall
      /\ \A q \in Processes \ {p} : call'[q] = call[q]
  <2>1. NoCall.at \notin Upgrading
    BY NoCallMeans DEF Upgrading
  <2> QED BY <1>1, <2>1, CommandFacts, NoCallMeans, Dropping DEF Hangup
<1>4. /\ TranslationInv' /\ tr'[p] = NoWork
      /\ \A q \in Processes \ {p} : tr'[q] = tr[q]
  <2>1. Holds(NoWork, call'[p])
    BY NoWorkHolds
  <2> QED BY <1>1, <1>3, <2>1, CommandFacts, TranslationMoves
<1>5. PagesInv'
  BY <1>1, CommandFacts, PagesStay
<1>6. id = <<p, id[2]>>
  <2>1. work[p].id = <<p, work[p].id[2]>>
    BY CommandFacts DEF Proceeds
  <2>2. CASE id = work[p].id
    BY <2>1, <2>2
  <2>3. CASE id = <<p, faults + 1>>
    BY <2>3
  <2> QED BY <2>2, <2>3
<1>7. PICK w, t : w = NewWork(id) /\ t = NoWork
  OBVIOUS
<1>8. Proceeds(p, w, t)
  BY <1>6, <1>7, NewWorkProceeds
<1>9. w.at # "writing"
  BY <1>7, NewWorkShape
<1>10. work' = [work EXCEPT ![p] = w] /\ tr'[p] = t
  BY <1>2, <1>4, <1>7
<1> QED BY <1>1, <1>3, <1>4, <1>5, <1>8, <1>9, <1>10, CommandMoves

-----------------------------------------------------------------------------
(* The invariant.                                                          *)

\* A step of the history leaves the command where it is.
LEMMA HistoryAlone ==
  ASSUME CommandInv, NEW p \in Processes, DatabaseStep(p) \/ GiveUp(p),
         UNCHANGED <<translation, files, work>>
  PROVE  CommandInv'
<1>1. HistoryInv' /\ SameCalls
  BY CommandFacts, DatabaseSteps
<1>2. UNCHANGED <<job, tr, outputs, temps, pages, work>>
  BY DEF translation, files
<1>3. TranslationInv' /\ PagesInv'
  BY <1>1, <1>2, CommandFacts, TranslationStays, PagesStay
<1>4. PICK w, t : w = work[p] /\ t = tr[p]
  OBVIOUS
<1>5. UNCHANGED <<disk, made>>
  BY <1>2 DEF outputs
<1>6. WorkInv'
  <2>1. work' = [work EXCEPT ![p] = w] /\ tr'[p] = t /\ Proceeds(p, w, t)
    BY <1>2, <1>4, CommandFacts
  <2> QED BY <1>2, <1>5, <2>1, CommandFacts, SameFilesOnlyMade, WorkMoves
<1>7. TempsInv'
  BY <1>2, CommandFacts, TempsStay
<1>8. DiskInv'
  BY <1>2, <1>5, CommandFacts, DiskStays
<1> QED BY <1>1, <1>3, <1>6, <1>7, <1>8 DEF CommandInv

\* So does a step of the translation that it waits for.
LEMMA TranslationAlone ==
  ASSUME CommandInv, NEW p \in Processes, TranslationStep(p),
         UNCHANGED <<file, lock, draft, files, work>>
  PROVE  CommandInv'
<1>1. Advances(p)
  BY CommandFacts, TranslationSteps
<1>2. UNCHANGED <<outputs, temps, pages, work>>
  BY DEF files
<1>3. job' = job
  BY DEF TranslationStep, Replay, Prepare, Lookup, Estimated, Generate, StoreNext, Record
<1>4. work[p].at = "translating"
  BY <1>1, CommandFacts DEF Advances
<1>5. PICK w, t : w = work[p] /\ t = tr'[p]
  OBVIOUS
<1>6. Proceeds(p, w, t)
  <2>1. Proceeds(p, w, tr[p]) /\ w.at = "translating" /\ w.at # "writing"
    BY <1>4, <1>5, CommandFacts
  <2>2. t.source = tr[p].source /\ t.lang = tr[p].lang /\ tr[p].at # "failed"
    BY <1>1, <1>5 DEF Advances, Resting
  <2> QED BY <2>1, <2>2, Zenon DEF Proceeds
<1>7. PagesInv'
  BY <1>2, CommandFacts, PagesStay
<1>8. work' = [work EXCEPT ![p] = w] /\ tr'[p] = t /\ w.at # "writing"
  BY <1>2, <1>4, <1>5, CommandFacts
<1> QED BY <1>1, <1>2, <1>3, <1>6, <1>7, <1>8, CommandMoves DEF Advances

LEMMA NothingHappens ==
  ASSUME CommandInv, UNCHANGED vars
  PROVE  CommandInv'
<1>1. UNCHANGED <<database, translation, files, work>>
  BY DEF vars
<1>2. UNCHANGED <<job, tr, call, disk, made, temps, pages, work, outputs>>
  BY <1>1 DEF database, translation, files, outputs
<1>3. HistoryInv' /\ TranslationInv' /\ PagesInv' /\ DiskInv'
  BY <1>1, <1>2, HistoryStays, TranslationAll, PagesStay, DiskStays DEF CommandInv
<1>4. TempsInv'
  BY <1>2, TempsStay DEF CommandInv
<1>5. WorkInv'
  <2>1. work' = [q \in Processes |-> work'[q]]
    BY <1>2 DEF CommandInv, WorkInv
  <2>2. ASSUME NEW q \in Processes PROVE Proceeds(q, work[q], tr[q])'
    <3>1. PICK w, t : w = work[q] /\ t = tr[q]
      OBVIOUS
    <3>2. Proceeds(q, w, t)
      BY <3>1, CommandFacts
    <3>3. Proceeds(q, w, t)'
      BY <1>2, <3>2, SameFilesOnlyMade, ProceedsStays
    <3>4. Proceeds(q, w, t)' <=> Proceeds(q, work[q], tr[q])'
      BY <1>2, <3>1 DEF Proceeds, Planning, Comes, Has
    <3> QED BY <3>3, <3>4
  <2> QED BY <2>1, <2>2 DEF WorkInv
<1> QED BY <1>3, <1>4, <1>5 DEF CommandInv

LEMMA CommandBegins == Init => CommandInv
<1> SUFFICES ASSUME Init PROVE CommandInv
  OBVIOUS
<1>1. PICK start \in Beginnings :
         /\ file = start /\ lock = Nobody /\ draft = [p \in Processes |-> NoDraft]
         /\ call = [p \in Processes |-> NoCall]
  BY DEF Init, DatabaseInit
<1>2. /\ job \in Jobs /\ tr = [p \in Processes |-> NoWork] /\ disk = Disk /\ made = <<>>
      /\ temps = {} /\ pages = {} /\ work = [p \in Processes |-> NewWork(<<p, 0>>)]
  BY DEF Init, TranslationInit
<1>3. HistoryInv
  <2>1. /\ file = Database(file.layout, file.rows, file.tasks) /\ IsText(file.tasks)
        /\ RowsOf(file) /\ TasksOf(file)
    BY <1>1, BeginningsAssumption
  <2>2. ASSUME NEW p \in Processes
        PROVE  CallShape(call[p]) /\ DraftShape(draft[p]) /\ Drafted(p) /\ Meant(call[p])
    <3>1. call[p] = NoCall /\ draft[p] = NoDraft
      BY <1>1
    <3>2. call[p].at \notin Upgrading /\ call[p].at # "swap"
      BY <3>1, NoCallMeans DEF Upgrading
    <3> QED BY <3>1, <3>2, NoCallMeans, NoDraftShape DEF Drafted
  <2>3. call = [p \in Processes |-> call[p]] /\ draft = [p \in Processes |-> draft[p]]
    BY <1>1
  <2> QED BY <2>1, <2>2, <2>3 DEF HistoryInv, FileInv
<1>4. TranslationInv
  <2>1. tr = [p \in Processes |-> tr[p]] /\ \A p \in Processes : tr[p] = NoWork
    BY <1>2
  <2> QED BY <1>2, <2>1, NoWorkHolds DEF TranslationInv
<1>5. WorkInv
  <2>1. work = [p \in Processes |-> work[p]]
    BY <1>2
  <2>2. ASSUME NEW p \in Processes PROVE Proceeds(p, work[p], tr[p])
    <3>1. PICK id : id = <<p, 0>>
      OBVIOUS
    <3>2. id = <<p, id[2]>>
      BY <3>1
    <3>3. work[p] = NewWork(id) /\ tr[p] = NoWork
      BY <1>2, <3>1
    <3> QED BY <3>2, <3>3, NewWorkProceeds
  <2> QED BY <2>1, <2>2 DEF WorkInv
<1>6. TempsInv
  <2>1. ASSUME NEW p \in Processes PROVE work[p].at # "writing"
    BY <1>2, NewWorkShape
  <2> QED BY <1>2, <2>1 DEF TempsInv
<1>7. DiskInv
  <2>1. DOMAIN made = {}
    BY <1>2
  <2> QED BY <1>2, <2>1, DiskAssumption DEF DiskInv
<1>8. PagesInv
  BY <1>2 DEF PagesInv
<1> QED BY <1>3, <1>4, <1>5, <1>6, <1>7, <1>8 DEF CommandInv

LEMMA CommandSteps == CommandInv /\ [Next]_vars => CommandInv'
<1> SUFFICES ASSUME CommandInv, [Next]_vars PROVE CommandInv'
  OBVIOUS
<1>1. ASSUME NEW p \in Processes,
             \/ DatabaseStep(p) /\ UNCHANGED <<translation, files, work, faults>>
             \/ GiveUp(p) /\ Fault /\ UNCHANGED <<translation, files, work>>
      PROVE  CommandInv'
  BY <1>1, HistoryAlone
<1>2. ASSUME NEW p \in Processes,
             TranslationStep(p) /\ UNCHANGED <<file, lock, draft, files, work, faults>>
      PROVE  CommandInv'
  BY <1>2, TranslationAlone
<1>3. ASSUME NEW p \in Processes,
             \/ Begin(p) \/ Managed(p) \/ Estimate(p)
             \/ Scan(p) \/ PlanFile(p) \/ Sought(p) \/ Measure(p) \/ Counts(p) \/ Measured(p)
             \/ PlanBatch(p) \/ PlanDocuments(p) \/ PlanPages(p) \/ PlanPrecache(p) \/ PlanText(p)
      PROVE  CommandInv'
  BY <1>3, BeginSteps, ManagedSteps, ScanSteps, PlanFileSteps, SoughtSteps, MeasureSteps,
     CountsSteps, MeasuredSteps, PlanBatchSteps, PlanDocumentsSteps, PlanPagesSteps,
     PlanPrecacheSteps, PlanTextSteps
<1>4. ASSUME NEW p \in Processes,
             \/ NextText(p) \/ NextPage(p) \/ NotTranslated(p) \/ ShowText(p) \/ KeepPage(p) \/ Finish(p)
             \/ Create(p) \/ Refused(p) \/ Write(p) \/ Rename(p) \/ WriteFails(p)
             \/ Crash(p)
      PROVE  CommandInv'
  BY <1>4, NextTextSteps, NextPageSteps, NotTranslatedSteps, ShowTextSteps, KeepPageSteps,
     FinishSteps, CreateSteps, RefusedSteps, WriteSteps, RenameSteps, WriteFailsSteps, CrashSteps
<1>5. CASE UNCHANGED vars
  BY <1>5, NothingHappens
<1>6. CASE Next
  BY <1>1, <1>2, <1>3, <1>4, <1>6, Zenon DEF Next
<1> QED BY <1>5, <1>6

-----------------------------------------------------------------------------
(* The rows and tasks that there were.                                     *)

LEMMA PrefixSame ==
  ASSUME NEW s
  PROVE  Len(s) \in Nat => IsPrefix(s, s)
  BY DEF IsPrefix

LEMMA PrefixAppend ==
  ASSUME NEW s, IsText(s), NEW x
  PROVE  IsPrefix(s, Append(s, x))
<1> DEFINE S == Range(s) \cup {x}
<1>1. s \in Seq(S)
  BY DEF IsText
<1> HIDE DEF S
<1>2. Append(s, x) \in Seq(S \cup {x}) /\ s \in Seq(S \cup {x})
  BY <1>1
<1>3. Len(Append(s, x)) = Len(s) + 1 /\ Len(s) \in Nat /\ \A i \in 1 .. Len(s) : Append(s, x)[i] = s[i]
  BY <1>1
<1>4. SubSeq(Append(s, x), 1, Len(s)) = SubSeq(s, 1, Len(s))
  BY <1>2, <1>3
<1> QED BY <1>3, <1>4 DEF IsPrefix

LEMMA SameRowsKept ==
  ASSUME HistoryInv, file'.rows = file.rows, file'.tasks = file.tasks
  PROVE  RowsKept
<1>1. IsText(file.tasks)
  BY DEF HistoryInv, FileInv
<1>2. IsPrefix(file.tasks, file'.tasks)
  BY <1>1, TextDomain, PrefixSame
<1> QED BY <1>2 DEF RowsKept

LEMMA DatabaseKeeps ==
  ASSUME HistoryInv, NEW p \in Processes, DatabaseStep(p) \/ GiveUp(p)
  PROVE  RowsKept
<1>1. /\ file = [layout |-> file.layout, rows |-> file.rows, tasks |-> file.tasks]
      /\ IsText(file.tasks) /\ Meant(call[p])
  BY HistoryFacts DEF Database
<1>2. IsPrefix(file.tasks, file.tasks)
  BY <1>1, TextDomain, PrefixSame
<1>3. CASE UNCHANGED file
  BY <1>3, SameRowsKept
<1>4. CASE Open(p)
  <2>1. file' = file \/ file' = [file EXCEPT !.layout = "bare"]
    BY <1>4, Zenon DEF Open
  <2> QED BY <1>1, <2>1, SameRowsKept
<1>5. CASE Commit(p)
  BY <1>5, CommitSteps, SameRowsKept
<1>6. CASE StoreRow(p)
  <2> DEFINE stale(r) == r.key = call[p].key /\ r.scope = "current"
             row == [key |-> call[p].key, scope |-> "current", text |-> call[p].text]
             rows == {r \in file.rows : ~stale(r)} \cup {row}
  <2>1. file' = [file EXCEPT !.rows = rows] /\ Acting(p, "store")
    BY <1>6 DEF StoreRow, Acting
  <2>2. \A r \in file.rows \ rows : r.key = call[p].key /\ r.scope = "current"
    <3> HIDE DEF row
    <3> QED OBVIOUS
  <2> HIDE DEF rows
  <2>3. file'.rows = rows /\ file'.tasks = file.tasks
    BY <1>1, <2>1
  <2> QED BY <1>2, <2>1, <2>2, <2>3 DEF RowsKept
<1>7. CASE Insert(p)
  <2>1. PICK task : file' = [file EXCEPT !.tasks = Append(file.tasks, task)]
    BY <1>7 DEF Insert
  <2>2. PICK tasks : tasks = Append(file.tasks, task)
    OBVIOUS
  <2>3. file'.rows = file.rows /\ file'.tasks = tasks
    BY <1>1, <2>1, <2>2
  <2>4. IsPrefix(file.tasks, file'.tasks)
    BY <1>1, <2>2, <2>3, PrefixAppend
  <2> QED BY <2>3, <2>4 DEF RowsKept
<1>8. CASE ClearSegments(p)
  <2>1. file' = [file EXCEPT !.rows = {}] /\ Acting(p, "clear")
    BY <1>8 DEF ClearSegments, Acting
  <2>2. file'.tasks = file.tasks
    BY <1>1, <2>1
  <2> QED BY <1>2, <2>1, <2>2 DEF RowsKept
<1>9. CASE ClearTasks(p)
  <2>1. file' = [file EXCEPT !.tasks = <<>>] /\ call[p].at = "again"
    BY <1>9 DEF ClearTasks
  <2>2. file'.rows = file.rows
    BY <1>1, <2>1
  <2>3. Acting(p, "clear")
    BY <1>1, <2>1 DEF Acting, Meant
  <2> QED BY <2>1, <2>2, <2>3 DEF RowsKept
<1> QED BY <1>3, <1>4, <1>5, <1>6, <1>7, <1>8, <1>9
        DEF DatabaseStep, GiveUp, CopyRows, SwapTables, Read

LEMMA StepKeepsRows == CommandInv /\ [Next]_vars => [RowsKept]_file
<1> SUFFICES ASSUME CommandInv, [Next]_vars, file' # file PROVE RowsKept
  OBVIOUS
<1>1. CASE UNCHANGED vars
  BY <1>1 DEF vars, database
<1>2. CASE Next
  <2>1. ASSUME NEW p \in Processes,
               \/ Begin(p) \/ Managed(p) \/ Estimate(p)
               \/ Scan(p) \/ PlanFile(p) \/ Sought(p) \/ Measure(p) \/ Counts(p) \/ Measured(p)
               \/ PlanBatch(p) \/ PlanDocuments(p) \/ PlanPages(p) \/ PlanPrecache(p) \/ PlanText(p)
        PROVE  file' = file
    BY <2>1, Zenon DEF Begin, Managed, Estimate, Scan, PlanFile, Sought, Measure, Counts, Measured,
           PlanBatch, PlanDocuments, PlanPages, PlanPrecache, PlanText, database
  <2>2. ASSUME NEW p \in Processes,
               \/ NextText(p) \/ NextPage(p) \/ NotTranslated(p) \/ ShowText(p) \/ KeepPage(p) \/ Finish(p)
               \/ Create(p) \/ Refused(p) \/ Write(p) \/ Rename(p) \/ WriteFails(p)
        PROVE  file' = file
    BY <2>2, Zenon DEF NextText, NextPage, NotTranslated, ShowText, KeepPage, Finish, Create,
           Refused, Write, Rename, WriteFails, database
  <2>3. ASSUME NEW p \in Processes, Crash(p) PROVE file' = file
    BY <2>3 DEF Crash, Hangup
  <2>4. ASSUME NEW p \in Processes, DatabaseStep(p) \/ GiveUp(p) PROVE RowsKept
    BY <2>4, DatabaseKeeps DEF CommandInv
  <2> QED BY <1>2, <2>1, <2>2, <2>3, <2>4, Zenon DEF Next
<1> QED BY <1>1, <1>2

-----------------------------------------------------------------------------
(* What becomes of a plan.                                                 *)

Early == {"begin", "managing", "plan"} \cup Planners

\* Nothing is planned yet.
Planless(w, t) == w.plan = {} /\ w.done = {} /\ w.failed = 0 /\ t.out = <<>>

\* No file is gone through twice.
Scanning(w) ==
    /\ IsInjective(w.scanned) /\ IsInjective(w.todo)
    /\ \A x \in Range(w.todo) : x.from \notin Range(w.scanned)
    /\ w.at # "scanned" => w.now.from \notin Range(w.scanned) /\ w.now \notin Range(w.todo)

\* What is not decided yet of the plan.
Hand(w) == IF w.at \in {"translating", "writing"} THEN {w.now} ELSE {}
Left(w) == Range(w.todo) \cup Hand(w)

\* Every target is on the list or in hand, done, or counted as failed.
Running == {"next", "translating", "writing"}
Balanced(w, j) ==
    /\ IsFiniteSet(w.plan) /\ w.done \subseteq w.plan /\ Left(w) \subseteq w.plan \ w.done
    /\ IsInjective(w.todo) /\ (w.at # "next" => w.now \notin Range(w.todo))
    /\ w.failed \in Nat /\ (w.failed > 0 => j.kind \in {"doc", "exec", "precache"})
    /\ Cardinality(w.plan) = Cardinality(w.done) + w.failed + Cardinality(Left(w))

\* What StatusHonest says of an exit.
Degrades(t) == \E i \in DOMAIN t.out : t.out[i] = t.source[i]
Complete(w, t, j) ==
    w.done = w.plan /\ (j.kind = "text" => ~(Degrades(t) /\ "warn" \notin j.options))
Settled(w) == Cardinality(w.done) + w.failed = Cardinality(w.plan)
Honest(w, t, j) ==
    /\ w.status = "ok" /\ j.kind # "precache" => Complete(w, t, j)
    /\ w.status = "error" => ~Complete(w, t, j) \/ w.plan = {}
    /\ w.status = "own" \/ w.failed > 0 => Settled(w)
    /\ j.kind \in {"man", "info"} => w.failed = 0

Accounts(w, t, j) ==
    /\ w.at \in Early => Planless(w, t)
    /\ w.at \in {"begin", "managing", "plan"} => w.todo = <<>>
    /\ w.at \in Planners => Scanning(w)
    /\ w.at \in Running => Balanced(w, j)
    /\ w.at = "exit" => Honest(w, t, j)

AccountInv == \A p \in Processes : Accounts(work[p], tr[p], job[p])

-----------------------------------------------------------------------------
(* Fields.                                                                 *)

LEMMA PutAt ==
  ASSUME NEW v, WorkShape(v), NEW x, NEW w, w = [v EXCEPT !.at = x]
  PROVE  /\ WorkShape(w) /\ w.at = x
         /\ w.id = v.id /\ w.scanned = v.scanned /\ w.plan = v.plan /\ w.todo = v.todo
         /\ w.now = v.now /\ w.done = v.done /\ w.failed = v.failed /\ w.status = v.status
  BY DEF WorkShape

LEMMA PutScanned ==
  ASSUME NEW v, WorkShape(v), NEW x, NEW w, w = [v EXCEPT !.scanned = x]
  PROVE  /\ WorkShape(w) /\ w.scanned = x
         /\ w.at = v.at /\ w.id = v.id /\ w.plan = v.plan /\ w.todo = v.todo
         /\ w.now = v.now /\ w.done = v.done /\ w.failed = v.failed /\ w.status = v.status
  BY DEF WorkShape

LEMMA PutPlan ==
  ASSUME NEW v, WorkShape(v), NEW x, NEW w, w = [v EXCEPT !.plan = x]
  PROVE  /\ WorkShape(w) /\ w.plan = x
         /\ w.at = v.at /\ w.id = v.id /\ w.scanned = v.scanned /\ w.todo = v.todo
         /\ w.now = v.now /\ w.done = v.done /\ w.failed = v.failed /\ w.status = v.status
  BY DEF WorkShape

LEMMA PutTodo ==
  ASSUME NEW v, WorkShape(v), NEW x, NEW w, w = [v EXCEPT !.todo = x]
  PROVE  /\ WorkShape(w) /\ w.todo = x
         /\ w.at = v.at /\ w.id = v.id /\ w.scanned = v.scanned /\ w.plan = v.plan
         /\ w.now = v.now /\ w.done = v.done /\ w.failed = v.failed /\ w.status = v.status
  BY DEF WorkShape

LEMMA PutNow ==
  ASSUME NEW v, WorkShape(v), NEW x, NEW w, w = [v EXCEPT !.now = x]
  PROVE  /\ WorkShape(w) /\ w.now = x
         /\ w.at = v.at /\ w.id = v.id /\ w.scanned = v.scanned /\ w.plan = v.plan
         /\ w.todo = v.todo /\ w.done = v.done /\ w.failed = v.failed /\ w.status = v.status
  BY DEF WorkShape

LEMMA PutDone ==
  ASSUME NEW v, WorkShape(v), NEW x, NEW w, w = [v EXCEPT !.done = x]
  PROVE  /\ WorkShape(w) /\ w.done = x
         /\ w.at = v.at /\ w.id = v.id /\ w.scanned = v.scanned /\ w.plan = v.plan
         /\ w.todo = v.todo /\ w.now = v.now /\ w.failed = v.failed /\ w.status = v.status
  BY DEF WorkShape

LEMMA PutFailed ==
  ASSUME NEW v, WorkShape(v), NEW x, NEW w, w = [v EXCEPT !.failed = x]
  PROVE  /\ WorkShape(w) /\ w.failed = x
         /\ w.at = v.at /\ w.id = v.id /\ w.scanned = v.scanned /\ w.plan = v.plan
         /\ w.todo = v.todo /\ w.now = v.now /\ w.done = v.done /\ w.status = v.status
  BY DEF WorkShape

LEMMA PutCount ==
  ASSUME NEW v, WorkShape(v), NEW x, NEW w, w = [v EXCEPT !.count = x]
  PROVE  /\ WorkShape(w)
         /\ w.at = v.at /\ w.id = v.id /\ w.scanned = v.scanned /\ w.plan = v.plan
         /\ w.todo = v.todo /\ w.now = v.now /\ w.done = v.done /\ w.failed = v.failed
         /\ w.status = v.status
  BY DEF WorkShape

LEMMA PutStatus ==
  ASSUME NEW v, WorkShape(v), NEW x, NEW w, w = [v EXCEPT !.status = x]
  PROVE  /\ WorkShape(w) /\ w.status = x
         /\ w.at = v.at /\ w.id = v.id /\ w.scanned = v.scanned /\ w.plan = v.plan
         /\ w.todo = v.todo /\ w.now = v.now /\ w.done = v.done /\ w.failed = v.failed
  BY DEF WorkShape

-----------------------------------------------------------------------------
(* Lists without repetition.                                               *)

LEMMA NoneTwice ==
  /\ IsInjective(<<>>)
  /\ \A x : IsInjective(<<x>>)
<1>1. DOMAIN <<>> = {} /\ \A x : DOMAIN <<x>> = {1}
  OBVIOUS
<1> QED BY <1>1 DEF IsInjective

\* The first of a list is not in the rest.
LEMMA RestTwice ==
  ASSUME NEW s, IsText(s), s # <<>>, IsInjective(s)
  PROVE  /\ IsInjective(Tail(s)) /\ Head(s) \notin Range(Tail(s))
         /\ Range(s) = Range(Tail(s)) \cup {Head(s)}
<1>1. s \in Seq(Range(s)) /\ DOMAIN s = 1 .. Len(s) /\ Len(s) \in Nat \ {0}
  BY TextDomain DEF IsText
<1> DEFINE t == Tail(s)
<1>2. DOMAIN t = 1 .. Len(s) - 1 /\ (\A i \in DOMAIN t : t[i] = s[i + 1]) /\ Head(s) = s[1]
  BY <1>1
<1> HIDE DEF t
<1>3. \A i \in DOMAIN t : i \in Nat /\ i + 1 \in DOMAIN s /\ i + 1 # 1
  BY <1>1, <1>2
<1>4. IsInjective(t)
  <2>1. ASSUME NEW i \in DOMAIN t, NEW j \in DOMAIN t, t[i] = t[j] PROVE i = j
    <3>1. i + 1 = j + 1
      BY <1>2, <1>3, <2>1 DEF IsInjective
    <3> QED BY <1>3, <3>1
  <2> QED BY <2>1 DEF IsInjective
<1>5. 1 \in DOMAIN s
  BY <1>1
<1>6. Head(s) \notin Range(t)
  BY <1>2, <1>3, <1>5 DEF IsInjective, Range
<1>7. \A i \in DOMAIN s : i = 1 \/ (i - 1 \in DOMAIN t /\ t[i - 1] = s[i])
  <2> TAKE i \in DOMAIN s
  <2>1. i = 1 \/ i - 1 \in DOMAIN t
    BY <1>1, <1>2
  <2>2. i \in Nat /\ (i - 1) + 1 = i
    BY <1>1
  <2> QED BY <1>2, <2>1, <2>2
<1>8. Range(s) = Range(t) \cup {Head(s)}
  <2>1. \A x \in Range(s) : x \in Range(t) \cup {Head(s)}
    BY <1>2, <1>7 DEF Range
  <2>2. \A x \in Range(t) \cup {Head(s)} : x \in Range(s)
    BY <1>2, <1>3, <1>5 DEF Range
  <2> QED BY <2>1, <2>2
<1> QED BY <1>4, <1>6, <1>8 DEF t

\* A list stays so when something new comes behind it,
LEMMA AppendTwice ==
  ASSUME NEW s, IsText(s), IsInjective(s), NEW x, x \notin Range(s)
  PROVE  IsInjective(Append(s, x))
<1> DEFINE a == Append(s, x)
<1>1. DOMAIN s = 1 .. Len(s) /\ Len(s) \in Nat
  BY TextDomain
<1>2. /\ IsText(a) /\ Len(a) = Len(s) + 1
      /\ \A i \in DOMAIN a : a[i] = IF i = Len(s) + 1 THEN x ELSE s[i]
  BY AppendText
<1> HIDE DEF a
<1>3. \A i \in DOMAIN a : i = Len(s) + 1 \/ i \in DOMAIN s
  BY <1>1, <1>2, TextDomain
<1>4. \A i \in DOMAIN s : s[i] # x
  BY DEF Range
<1>5. IsInjective(a)
  <2>1. ASSUME NEW i \in DOMAIN a, NEW j \in DOMAIN a, a[i] = a[j] PROVE i = j
    BY <1>2, <1>3, <1>4, <2>1 DEF IsInjective
  <2> QED BY <2>1 DEF IsInjective
<1> QED BY <1>5 DEF a

\* or another list that shares nothing with it.
LEMMA JoinedTwice ==
  ASSUME NEW s, IsText(s), IsInjective(s), NEW t, IsText(t), IsInjective(t),
         Range(s) \cap Range(t) = {}
  PROVE  IsInjective(s \o t)
<1> DEFINE a == s \o t
           S == Range(s) \cup Range(t)
<1>1. DOMAIN s = 1 .. Len(s) /\ Len(s) \in Nat /\ DOMAIN t = 1 .. Len(t) /\ Len(t) \in Nat
  BY TextDomain
<1>2. s \in Seq(S) /\ t \in Seq(S)
  BY DEF IsText
<1> HIDE DEF S
<1>3. /\ DOMAIN a = 1 .. Len(s) + Len(t)
      /\ \A i \in DOMAIN a : a[i] = IF i <= Len(s) THEN s[i] ELSE t[i - Len(s)]
  BY <1>1, <1>2
<1> HIDE DEF a
<1>4. \A i \in DOMAIN a : IF i <= Len(s) THEN i \in DOMAIN s ELSE i - Len(s) \in DOMAIN t
  BY <1>1, <1>3
<1>5. \A i \in DOMAIN s, j \in DOMAIN t : s[i] # t[j]
  BY DEF Range
<1>6. ASSUME NEW i \in DOMAIN a, NEW j \in DOMAIN a, a[i] = a[j] PROVE i = j
  <2>1. i \in Nat /\ j \in Nat
    BY <1>1, <1>3
  <2>2. CASE i <= Len(s) /\ j <= Len(s)
    BY <1>3, <1>4, <1>6, <2>2 DEF IsInjective
  <2>3. CASE ~(i <= Len(s)) /\ ~(j <= Len(s))
    <3>1. i - Len(s) = j - Len(s)
      BY <1>3, <1>4, <1>6, <2>3 DEF IsInjective
    <3> QED BY <1>1, <2>1, <3>1
  <2>4. (i <= Len(s)) = (j <= Len(s))
    BY <1>3, <1>4, <1>5, <1>6
  <2> QED BY <2>2, <2>3, <2>4
<1>7. IsInjective(a)
  BY <1>6 DEF IsInjective
<1> QED BY <1>7 DEF a

\* A list holds finitely many things.
LEMMA RangeFinite ==
  ASSUME NEW s, IsText(s)
  PROVE  IsFiniteSet(Range(s))
<1>1. DOMAIN s = 1 .. Len(s) /\ Len(s) \in Nat /\ s = [i \in DOMAIN s |-> s[i]]
  BY TextDomain
<1>2. IsFiniteSet(1 .. Len(s))
  BY <1>1, FS_Interval
<1>3. s \in Surjection(1 .. Len(s), Range(s))
  BY <1>1 DEF Surjection, Range
<1> QED BY <1>2, <1>3, FS_Surjection

\* Lists without repetition that share nothing make one without repetition.
LEMMA FlattenTwice ==
  ASSUME NEW S, NEW s, IsText(s), \A i \in DOMAIN s : s[i] \in Seq(S) /\ IsInjective(s[i]),
         \A i, j \in DOMAIN s : i # j => Range(s[i]) \cap Range(s[j]) = {}
  PROVE  IsInjective(FlattenSeq(s))
<1>1. DOMAIN s = 1 .. Len(s) /\ Len(s) \in Nat /\ (s = <<>> <=> DOMAIN s = {})
  BY TextDomain
<1>2. CASE s = <<>>
  <2>1. FlattenSeq(s) = s
    BY <1>2 DEF FlattenSeq
  <2> QED BY <1>2, <2>1, NoneTwice
<1>3. CASE s # <<>>
  <2>1. PICK f : /\ FlattenSeq(s) = f[Len(s)]
                 /\ \A k \in 1 .. Len(s) : f[k] = IF k = 1 THEN s[k] ELSE f[k-1] \o s[k]
    BY <1>3, FlattenIs
  <2> DEFINE Joins(k) == /\ IsText(f[k]) /\ IsInjective(f[k])
                         /\ \A x \in Range(f[k]) : \E i \in 1 .. k : x \in Range(s[i])
             T == {k \in 1 .. Len(s) : ~Joins(k)}
  <2>2. T = {}
    <3> SUFFICES ASSUME T # {} PROVE FALSE
      OBVIOUS
    <3>1. PICK k \in T : \A j \in T : k <= j
      <4>1. T \in SUBSET Nat
        OBVIOUS
      <4> HIDE DEF T
      <4> QED BY <4>1, LeastNumber
    <3>2. k \in 1 .. Len(s) /\ ~Joins(k) /\ k \in DOMAIN s /\ k \in Nat
      BY <1>1
    <3>3. IsText(s[k]) /\ IsInjective(s[k])
      <4>1. s[k] \in Seq(S) /\ IsInjective(s[k])
        BY <3>2
      <4> QED BY <4>1, TextIs
    <3>4. k # 1
      <4>1. ASSUME k = 1 PROVE Joins(k)
        <5>1. f[k] = s[k] /\ k \in 1 .. k
          BY <2>1, <3>2, <4>1
        <5> QED BY <3>3, <5>1
      <4> HIDE DEF Joins
      <4> QED BY <3>2, <4>1
    <3>5. k - 1 \in 1 .. Len(s) /\ k - 1 \notin T
      <4> HIDE DEF T
      <4> QED BY <1>1, <3>1, <3>2, <3>4
    <3>6. Joins(k - 1)
      BY <3>5
    <3>7. f[k] = f[k-1] \o s[k]
      BY <2>1, <3>2, <3>4
    <3>8. Range(f[k-1]) \cap Range(s[k]) = {}
      <4>1. ASSUME NEW x \in Range(f[k-1]) PROVE x \notin Range(s[k])
        <5>1. PICK i \in 1 .. k - 1 : x \in Range(s[i])
          BY <3>6
        <5>2. i \in DOMAIN s /\ i # k
          BY <1>1, <3>2
        <5>3. Range(s[i]) \cap Range(s[k]) = {}
          BY <3>2, <5>2
        <5> QED BY <5>1, <5>3
      <4> QED BY <4>1
    <3>9. IsText(f[k]) /\ IsInjective(f[k])
      BY <3>3, <3>6, <3>7, <3>8, JoinedText, JoinedTwice
    <3>10. ASSUME NEW x \in Range(f[k]) PROVE \E i \in 1 .. k : x \in Range(s[i])
      <4>1. x \in Range(f[k-1]) \/ x \in Range(s[k])
        BY <3>3, <3>6, <3>7, JoinedText
      <4>2. CASE x \in Range(s[k])
        <5>1. k \in 1 .. k
          BY <3>2
        <5> QED BY <4>2, <5>1
      <4>3. CASE x \in Range(f[k-1])
        <5>1. PICK i \in 1 .. k - 1 : x \in Range(s[i])
          BY <3>6, <4>3
        <5>2. i \in 1 .. k
          BY <3>2
        <5> QED BY <5>1, <5>2
      <4> QED BY <4>1, <4>2, <4>3
    <3> QED BY <3>2, <3>9, <3>10
  <2>3. Len(s) \in 1 .. Len(s)
    BY <1>1, <1>3
  <2>4. Joins(Len(s))
    BY <2>2, <2>3
  <2> QED BY <2>1, <2>4
<1> QED BY <1>2, <1>3

-----------------------------------------------------------------------------
(* No page is translated twice.                                            *)

LEMMA PageFields ==
  ASSUME NEW invocation, NEW stream, NEW lang, NEW text,
         NEW x \in Range(<<PageOf(invocation, stream, lang, text)>>)
  PROVE  x.cmd = invocation[1] /\ x.sub = invocation[2] /\ x.stream = stream
<1>1. x = PageOf(invocation, stream, lang, text)
  BY OneText
<1> QED BY <1>1 DEF PageOf

LEMMA ExecPagesTwice ==
  ASSUME NEW p, NEW invocation \in DOMAIN Prints
  PROVE  IsInjective(ExecPages(p, invocation))
<1> DEFINE printed == Prints[invocation]
           lang == IF printed.out.sort = "cut" THEN Primary ELSE TargetLang(p, printed.out)
           err == IF TranslatesStderr(invocation)
                  THEN <<PageOf(invocation, "err", lang, printed.err.text)>> ELSE <<>>
           out == IF TranslatesStdout(invocation)
                  THEN <<PageOf(invocation, "out", lang, printed.out.text)>> ELSE <<>>
<1>1. ExecPages(p, invocation) = err \o out
  BY DEF ExecPages
<1> HIDE DEF printed, lang
<1>2. IsText(err) /\ IsInjective(err) /\ \A x \in Range(err) : x.stream = "err"
  BY OneText, EmptyText, NoneTwice, PageFields
<1>3. IsText(out) /\ IsInjective(out) /\ \A x \in Range(out) : x.stream = "out"
  BY OneText, EmptyText, NoneTwice, PageFields
<1> HIDE DEF err, out
<1>4. Range(err) \cap Range(out) = {}
  BY <1>2, <1>3
<1> QED BY <1>1, <1>2, <1>3, <1>4, JoinedTwice

LEMMA PrecachePagesTwice ==
  ASSUME NEW cmd \in OnPath
  PROVE  /\ IsInjective(PrecachePages(cmd))
         /\ \A x \in Range(PrecachePages(cmd)) :
               (x.cmd = "man" /\ x.sub = cmd) \/ (x.cmd = cmd /\ x.sub = "--help")
<1> DEFINE manual == Prints[<<"man", cmd>>].out
           man == IF manual.sort \notin {"fails", "blank", "none"}
                  THEN <<PageOf(<<"man", cmd>>, "out", Primary, manual.text)>> ELSE <<>>
           help == IF HelpOf(cmd) = <<>> THEN <<>>
                   ELSE <<PageOf(<<cmd, "--help">>, "out", Primary, HelpOf(cmd))>>
<1>1. PrecachePages(cmd) = man \o help
  BY DEF PrecachePages
<1> HIDE DEF manual
<1>2. IsText(man) /\ IsInjective(man) /\ \A x \in Range(man) : x.cmd = "man" /\ x.sub = cmd
  BY OneText, EmptyText, NoneTwice, PageFields
<1>3. IsText(help) /\ IsInjective(help) /\ \A x \in Range(help) : x.cmd = cmd /\ x.sub = "--help"
  BY OneText, EmptyText, NoneTwice, PageFields
<1> HIDE DEF man, help
<1>4. Range(man) \cap Range(help) = {}
  BY <1>2, <1>3, PathAssumption
<1>5. \A x \in Range(man \o help) : x \in Range(man) \/ x \in Range(help)
  BY <1>2, <1>3, JoinedText
<1> QED BY <1>1, <1>2, <1>3, <1>4, <1>5, JoinedTwice

\* The files of a set, each once.
LEMMA OrdersTwice ==
  ASSUME NEW S, IsFiniteSet(S), NEW names \in SetToSeqs(S)
  PROVE  IsInjective(names)
<1>1. Cardinality(S) \in Nat
  BY FS_CardinalityType
<1>2. /\ names \in [1 .. Cardinality(S) -> S]
      /\ \A i, j \in 1 .. Cardinality(S) : i # j => names[i] # names[j]
  BY DEF SetToSeqs
<1> QED BY <1>2 DEF IsInjective

LEMMA PrecacheTwice ==
  ASSUME NEW names \in Discovered
  PROVE  IsInjective(FlattenSeq([i \in DOMAIN names |-> PrecachePages(names[i])]))
<1> DEFINE wanted == {name \in Wanted : Cardinality(Earlier(name)) < RecentLimit}
           S == UNION {Range(PrecachePages(cmd)) : cmd \in OnPath}
           s == [i \in DOMAIN names |-> PrecachePages(names[i])]
<1>1. IsText(names) /\ Range(names) \subseteq OnPath /\ IsInjective(names)
  <2>1. names \in SetToSeqs(wanted)
    BY DEF Discovered
  <2>2. wanted \subseteq OnPath
    BY DEF Wanted
  <2>3. IsFiniteSet(wanted)
    BY <2>2, PathAssumption, FS_Subset
  <2> HIDE DEF wanted
  <2> QED BY <2>1, <2>2, <2>3, Orders, OrdersTwice
<1>2. ASSUME NEW cmd \in OnPath
      PROVE  /\ PrecachePages(cmd) \in Seq(S) /\ IsInjective(PrecachePages(cmd))
             /\ \A x \in Range(PrecachePages(cmd)) :
                   (x.cmd = "man" /\ x.sub = cmd) \/ (x.cmd = cmd /\ x.sub = "--help")
  <2>1. IsText(PrecachePages(cmd))
    BY PrecachePagesReadable DEF Readable
  <2>2. Range(PrecachePages(cmd)) \subseteq S
    OBVIOUS
  <2>3. PrecachePages(cmd) \in Seq(S)
    <3> HIDE DEF S
    <3> QED BY <2>1, <2>2 DEF IsText
  <2> QED BY <2>3, PrecachePagesTwice
<1> HIDE DEF S
<1>3. \A i \in DOMAIN names : names[i] \in OnPath /\ names[i] # "--help"
  BY <1>1, PathAssumption DEF Range
<1>4. /\ IsText(s) /\ DOMAIN s = DOMAIN names
      /\ \A i \in DOMAIN names : s[i] = PrecachePages(names[i])
  <2>1. /\ s = [i \in DOMAIN names |-> s[i]]
        /\ \A i \in DOMAIN names : s[i] = PrecachePages(names[i])
    OBVIOUS
  <2> HIDE DEF s
  <2> QED BY <1>1, <2>1, TextLike
<1> HIDE DEF s
<1>5. \A i \in DOMAIN s : s[i] \in Seq(S) /\ IsInjective(s[i])
  BY <1>2, <1>3, <1>4
<1>6. ASSUME NEW i \in DOMAIN s, NEW j \in DOMAIN s, i # j PROVE Range(s[i]) \cap Range(s[j]) = {}
  <2>1. names[i] # names[j]
    BY <1>1, <1>4, <1>6 DEF IsInjective
  <2>2. \A x \in Range(s[i]) : (x.cmd = "man" /\ x.sub = names[i]) \/ (x.cmd = names[i] /\ x.sub = "--help")
    BY <1>2, <1>3, <1>4
  <2>3. \A x \in Range(s[j]) : (x.cmd = "man" /\ x.sub = names[j]) \/ (x.cmd = names[j] /\ x.sub = "--help")
    BY <1>2, <1>3, <1>4
  <2>4. names[i] # "--help" /\ names[j] # "--help"
    BY <1>3, <1>4
  <2> QED BY <2>1, <2>2, <2>3, <2>4
<1>7. IsInjective(FlattenSeq(s))
  BY <1>4, <1>5, <1>6, FlattenTwice
<1> QED BY <1>7 DEF s

-----------------------------------------------------------------------------
(* The account of a command.                                               *)

LEMMA AccountMoves ==
  ASSUME CommandInv, AccountInv, NEW p \in Processes, UNCHANGED job, NEW w, NEW t,
         work' = [work EXCEPT ![p] = w], tr'[p] = t, \A q \in Processes \ {p} : tr'[q] = tr[q],
         Accounts(w, t, job[p])
  PROVE  AccountInv'
<1>1. work'[p] = w /\ \A q \in Processes \ {p} : work'[q] = work[q]
  BY CommandFacts
<1>2. ASSUME NEW q \in Processes PROVE Accounts(work'[q], tr'[q], job'[q])
  <2>1. CASE q = p
    BY <1>1, <2>1
  <2>2. CASE q # p
    BY <1>1, <2>2 DEF AccountInv
  <2> QED BY <2>1, <2>2
<1> QED BY <1>2 DEF AccountInv

\* A step in which p does not translate.
LEMMA AccountStays ==
  ASSUME CommandInv, AccountInv, NEW p \in Processes, UNCHANGED <<job, tr>>, NEW w,
         work' = [work EXCEPT ![p] = w], Accounts(w, tr[p], job[p])
  PROVE  AccountInv'
<1>1. PICK t : t = tr[p]
  OBVIOUS
<1> QED BY <1>1, AccountMoves

LEMMA AccountFacts ==
  ASSUME CommandInv, AccountInv, NEW p \in Processes
  PROVE  /\ Accounts(work[p], tr[p], job[p]) /\ WorkShape(work[p])
         /\ work = [q \in Processes |-> work[q]]
         /\ IsText(work[p].todo) /\ IsText(work[p].scanned)
  BY CommandFacts DEF AccountInv

\* What the step of a command sets besides its place.
SamePlan(w, v) == w.plan = v.plan /\ w.done = v.done /\ w.failed = v.failed
SameList(w, v) == w.scanned = v.scanned /\ w.todo = v.todo /\ w.now = v.now

LEMMA GoesOn ==
  ASSUME CommandInv, NEW p \in Processes, NEW step, Goes(p, step)
  PROVE  \E w : /\ work' = [work EXCEPT ![p] = w] /\ WorkShape(w) /\ w.at = step
                /\ SamePlan(w, work[p]) /\ SameList(w, work[p])
<1>1. PICK w : w = [work[p] EXCEPT !.at = step]
  OBVIOUS
<1>2. WorkShape(work[p]) /\ work' = [work EXCEPT ![p] = w]
  BY <1>1, CommandFacts DEF Goes
<1>3. WorkShape(w) /\ w.at = step /\ SamePlan(w, work[p]) /\ SameList(w, work[p])
  BY <1>1, <1>2, PutAt DEF SamePlan, SameList
<1> QED BY <1>2, <1>3

LEMMA ExitsOn ==
  ASSUME CommandInv, NEW p \in Processes, NEW status, Exits(p, status)
  PROVE  \E w : /\ work' = [work EXCEPT ![p] = w] /\ WorkShape(w) /\ w.at = "exit" /\ w.status = status
                /\ SamePlan(w, work[p])
<1>1. PICK v : v = [work[p] EXCEPT !.at = "exit"]
  OBVIOUS
<1>2. PICK w : w = [v EXCEPT !.status = status]
  OBVIOUS
<1>3. WorkShape(work[p]) /\ work' = [work EXCEPT ![p] = w]
  BY <1>1, <1>2, CommandFacts DEF Exits
<1>4. WorkShape(v) /\ v.at = "exit" /\ SamePlan(v, work[p])
  BY <1>1, <1>3, PutAt DEF SamePlan
<1>5. WorkShape(w) /\ w.at = "exit" /\ w.status = status /\ SamePlan(w, v)
  BY <1>2, <1>4, PutStatus DEF SamePlan
<1> QED BY <1>3, <1>4, <1>5 DEF SamePlan

\* An exit before anything was planned.
LEMMA EarlyExit ==
  ASSUME NEW v, NEW t, NEW j, Planless(v, t), NEW w, w.at = "exit", SamePlan(w, v),
         w.status \in {"ok", "error", "own"}
  PROVE  Accounts(w, t, j)
<1>1. w.plan = {} /\ w.done = {} /\ w.failed = 0 /\ t.out = <<>>
  BY DEF Planless, SamePlan
<1>2. DOMAIN t.out = {}
  BY <1>1
<1>3. Complete(w, t, j)
  BY <1>1, <1>2 DEF Complete, Degrades
<1>4. Settled(w)
  BY <1>1, FS_EmptySet DEF Settled
<1>5. Honest(w, t, j)
  BY <1>1, <1>3, <1>4 DEF Honest
<1> QED BY <1>5 DEF Accounts, Early, Planners, Running

LEMMA EarlyExits ==
  ASSUME CommandInv, AccountInv, NEW p \in Processes, UNCHANGED <<job, tr>>, work[p].at \in Early,
         NEW status \in {"ok", "error", "own"}, Exits(p, status)
  PROVE  AccountInv'
<1>1. PICK w : /\ work' = [work EXCEPT ![p] = w] /\ WorkShape(w) /\ w.at = "exit" /\ w.status = status
               /\ SamePlan(w, work[p])
  BY ExitsOn
<1>2. Planless(work[p], tr[p])
  BY AccountFacts DEF Accounts
<1>3. PICK v, t, j : v = work[p] /\ t = tr[p] /\ j = job[p]
  OBVIOUS
<1>4. Accounts(w, t, j)
  BY <1>1, <1>2, <1>3, EarlyExit
<1> QED BY <1>1, <1>3, <1>4, AccountStays

\* A step of the planning.
LEMMA EarlyGoes ==
  ASSUME CommandInv, AccountInv, NEW p \in Processes, UNCHANGED <<job, tr>>, work[p].at \in Early,
         NEW step, Goes(p, step),
         \/ step \in {"managing", "plan"} /\ work[p].at = "begin"
         \/ step \in Planners \ {"scanned"} /\ work[p].at \in Planners \ {"scanned"}
  PROVE  AccountInv'
<1>1. PICK w : /\ work' = [work EXCEPT ![p] = w] /\ WorkShape(w) /\ w.at = step
               /\ SamePlan(w, work[p]) /\ SameList(w, work[p])
  BY GoesOn
<1>2. Accounts(work[p], tr[p], job[p])
  BY AccountFacts
<1>3. PICK v, t, j : v = work[p] /\ t = tr[p] /\ j = job[p]
  OBVIOUS
<1>4. Planless(w, t)
  BY <1>1, <1>2, <1>3 DEF Accounts, Planless, SamePlan
<1>5. w.at \in {"begin", "managing", "plan"} => w.todo = <<>>
  BY <1>1, <1>2, <1>3 DEF Accounts, SameList, Planners
<1>6. w.at \in Planners => Scanning(w)
  <2> SUFFICES ASSUME w.at \in Planners PROVE Scanning(w)
    OBVIOUS
  <2>1. v.at \in Planners /\ v.at # "scanned"
    BY <1>1, <1>3 DEF Planners
  <2>2. Scanning(v)
    BY <1>2, <1>3, <2>1 DEF Accounts
  <2> QED BY <1>1, <1>3, <2>1, <2>2 DEF Scanning, SameList
<1>7. w.at \notin Running /\ w.at # "exit"
  BY <1>1 DEF Running, Planners
<1>8. Accounts(w, t, j)
  BY <1>4, <1>5, <1>6, <1>7, Zenon DEF Accounts
<1> QED BY <1>1, <1>3, <1>8, AccountStays

LEMMA BeginAccounts ==
  ASSUME CommandInv, AccountInv, NEW p \in Processes, Begin(p)
  PROVE  AccountInv'
<1>1. work[p].at = "begin" /\ UNCHANGED <<job, tr>> /\ work[p].at \in Early
  BY DEF Begin, Early
<1>2. \/ \E status \in {"error", "own"} : Exits(p, status)
      \/ \E step \in {"managing", "plan"} : Goes(p, step)
  BY Zenon DEF Begin
<1> QED BY <1>1, <1>2, EarlyExits, EarlyGoes

LEMMA ManagedAccounts ==
  ASSUME CommandInv, AccountInv, NEW p \in Processes, Managed(p) \/ Estimate(p)
  PROVE  AccountInv'
<1>1. UNCHANGED <<job, tr>> /\ work[p].at \in Early
  BY DEF Managed, Estimate, Early, translation
<1>2. \E status \in {"ok", "error"} : Exits(p, status)
  BY Zenon DEF Managed, Estimate
<1> QED BY <1>1, <1>2, EarlyExits

-----------------------------------------------------------------------------
(* Making the plan.                                                        *)

\* The list of a batch goes on.
LEMMA ScanGoes ==
  ASSUME CommandInv, AccountInv, NEW p \in Processes, UNCHANGED <<job, tr>>, work[p].at \in Early,
         NEW w, work' = [work EXCEPT ![p] = w], SamePlan(w, work[p]), w.at \in Planners, Scanning(w)
  PROVE  AccountInv'
<1>1. PICK v, t, j : v = work[p] /\ t = tr[p] /\ j = job[p]
  OBVIOUS
<1>2. Planless(v, t)
  BY <1>1, AccountFacts DEF Accounts
<1>3. Planless(w, t)
  BY <1>1, <1>2 DEF Planless, SamePlan
<1>4. w.at \notin {"begin", "managing", "plan"} /\ w.at \notin Running /\ w.at # "exit"
  BY DEF Planners, Running
<1>5. Accounts(w, t, j)
  BY <1>3, <1>4, Zenon DEF Accounts
<1> QED BY <1>1, <1>5, AccountStays

LEMMA ScanAccounts ==
  ASSUME CommandInv, AccountInv, NEW p \in Processes, Scan(p)
  PROVE  AccountInv'
<1>1. /\ work[p].at = "plan" /\ work[p].at \in Early /\ UNCHANGED <<job, tr>>
  BY DEF Scan, translation, Early
<1> DEFINE S == {n \in job[p].paths : disk[n] # Missing}
<1>2. PICK names \in SetToSeqs(S) :
         work' = [work EXCEPT ![p].at = "scanned", ![p].scanned = names]
  BY DEF Scan
<1>3. IsInjective(names)
  <2>1. S \subseteq Names
    BY JobFacts
  <2> HIDE DEF S
  <2>2. IsFiniteSet(S)
    BY <2>1, NamesFinite
  <2> QED BY <2>2, OrdersTwice
<1> HIDE DEF S
<1>4. PICK v : v = [work[p] EXCEPT !.at = "scanned"]
  OBVIOUS
<1>5. PICK w : w = [v EXCEPT !.scanned = names]
  OBVIOUS
<1>6. WorkShape(work[p]) /\ work' = [work EXCEPT ![p] = w]
  BY <1>2, <1>4, <1>5, AccountFacts
<1>7. WorkShape(v) /\ v.at = "scanned" /\ SamePlan(v, work[p]) /\ v.todo = work[p].todo
  BY <1>4, <1>6, PutAt DEF SamePlan
<1>8. w.at = "scanned" /\ SamePlan(w, v) /\ w.todo = v.todo /\ w.scanned = names
  BY <1>5, <1>7, PutScanned DEF SamePlan
<1>9. w.todo = <<>>
  BY <1>1, <1>7, <1>8, AccountFacts DEF Accounts
<1>10. Scanning(w)
  BY <1>3, <1>8, <1>9, NoneTwice, EmptyText DEF Scanning
<1>11. SamePlan(w, work[p]) /\ w.at \in Planners
  BY <1>7, <1>8 DEF SamePlan, Planners
<1> QED BY <1>1, <1>6, <1>10, <1>11, ScanGoes

LEMMA PlanFileAccounts ==
  ASSUME CommandInv, AccountInv, NEW p \in Processes, PlanFile(p)
  PROVE  AccountInv'
<1>1. /\ work[p].at = "scanned" /\ work[p].at \in Early /\ UNCHANGED <<job, tr>>
      /\ work[p].scanned # <<>>
  BY DEF PlanFile, translation, Early, Planners
<1>2. PICK name, tail : name = Head(work[p].scanned) /\ tail = Tail(work[p].scanned)
  OBVIOUS
<1>3. PICK rest : rest = [work[p] EXCEPT !.scanned = tail]
  OBVIOUS
<1>4. rest = [work[p] EXCEPT !.scanned = Tail(@)]
  BY <1>2, <1>3
<1>5. /\ WorkShape(rest) /\ rest.at = "scanned" /\ SamePlan(rest, work[p])
      /\ rest.todo = work[p].todo /\ rest.scanned = tail
  <2>1. WorkShape(work[p])
    BY AccountFacts
  <2>2. WorkShape(rest) /\ rest.at = work[p].at /\ rest.todo = work[p].todo /\ rest.scanned = tail
    BY <1>3, <2>1, PutScanned
  <2>3. rest.plan = work[p].plan /\ rest.done = work[p].done /\ rest.failed = work[p].failed
    BY <1>3, <2>1, PutScanned
  <2> QED BY <1>1, <2>2, <2>3 DEF SamePlan
<1>6. Scanning(work[p]) /\ IsText(work[p].scanned)
  BY <1>1, AccountFacts DEF Accounts, Planners
<1>7. /\ IsInjective(tail) /\ name \notin Range(tail)
      /\ Range(work[p].scanned) = Range(tail) \cup {name}
  BY <1>1, <1>2, <1>6, RestTwice DEF Scanning
<1>8. Scanning(rest)
  BY <1>5, <1>6, <1>7 DEF Scanning
<1>9. CASE work' = [work EXCEPT ![p] = rest]
  <2>1. rest.at \in Planners
    BY <1>5 DEF Planners
  <2> QED BY <1>1, <1>5, <1>8, <1>9, <2>1, ScanGoes
<1>10. ASSUME NEW step \in {"seek", "measure"},
              work' = [work EXCEPT ![p] = [rest EXCEPT !.now = Target(p, name), !.at = step]]
       PROVE  AccountInv'
  <2>1. PICK x : x = Target(p, name)
    OBVIOUS
  <2>2. x.from = name
    BY <2>1 DEF Target
  <2>3. PICK v : v = [rest EXCEPT !.now = x]
    OBVIOUS
  <2>4. PICK w : w = [v EXCEPT !.at = step]
    OBVIOUS
  <2>5. work' = [work EXCEPT ![p] = w]
    BY <1>10, <2>1, <2>3, <2>4
  <2>6. /\ WorkShape(v) /\ v.now = x /\ SamePlan(v, rest) /\ v.todo = rest.todo /\ v.scanned = rest.scanned
    BY <1>5, <2>3, PutNow DEF SamePlan
  <2>7. /\ w.at = step /\ w.now = x /\ SamePlan(w, v) /\ w.todo = v.todo /\ w.scanned = v.scanned
    BY <2>4, <2>6, PutAt DEF SamePlan
  <2>8. SamePlan(w, work[p]) /\ w.at \in Planners
    BY <1>5, <2>6, <2>7 DEF SamePlan, Planners
  <2>9. w.scanned = tail /\ w.todo = work[p].todo
    BY <1>5, <2>6, <2>7
  <2>10. x \notin Range(w.todo)
    BY <1>6, <1>7, <2>2, <2>9 DEF Scanning
  <2>11. Scanning(w)
    BY <1>6, <1>7, <2>2, <2>7, <2>9, <2>10 DEF Scanning
  <2> QED BY <1>1, <2>5, <2>8, <2>11, ScanGoes
<1>11. \/ work' = [work EXCEPT ![p] = rest]
       \/ \E step \in {"seek", "measure"} :
             work' = [work EXCEPT ![p] = [rest EXCEPT !.now = Target(p, name), !.at = step]]
  <2>1. CASE work' = [work EXCEPT ![p] = rest]
    BY <2>1, Zenon
  <2>2. CASE Reads(p) /\ work' # [work EXCEPT ![p] = rest]
    <3>1. work' = [work EXCEPT ![p] = [rest EXCEPT !.now = Target(p, name), !.at = "seek"]]
      BY <1>2, <1>4, <2>2, Zenon DEF PlanFile
    <3> QED BY <3>1, Zenon
  <2>3. CASE ~Reads(p) /\ work' # [work EXCEPT ![p] = rest]
    <3>1. work' = [work EXCEPT ![p] = [rest EXCEPT !.now = Target(p, name), !.at = "measure"]]
      BY <1>2, <1>4, <2>3, Zenon DEF PlanFile
    <3> QED BY <3>1, Zenon
  <2> QED BY <2>1, <2>2, <2>3
<1> QED BY <1>9, <1>10, <1>11

LEMMA KeepsAccounts ==
  ASSUME CommandInv, AccountInv, NEW p \in Processes, UNCHANGED <<job, tr>>, Keeps(p),
         work[p].at \in {"seek", "counted", "measured"}
  PROVE  AccountInv'
<1>1. PICK x, s : x = work[p].now /\ s = work[p].todo
  OBVIOUS
<1>2. PICK todo : todo = Append(s, x)
  OBVIOUS
<1>3. PICK v : v = [work[p] EXCEPT !.at = "scanned"]
  OBVIOUS
<1>4. PICK w : w = [v EXCEPT !.todo = todo]
  OBVIOUS
<1>5. WorkShape(work[p]) /\ work' = [work EXCEPT ![p] = w]
  BY <1>1, <1>2, <1>3, <1>4, AccountFacts DEF Keeps
<1>6. work[p].at \in Early /\ work[p].at \in Planners /\ work[p].at # "scanned"
  BY DEF Early, Planners
<1>7. Scanning(work[p]) /\ IsText(s)
  BY <1>1, <1>6, AccountFacts DEF Accounts
<1>8. IsInjective(s) /\ x \notin Range(s) /\ x.from \notin Range(work[p].scanned)
  BY <1>1, <1>6, <1>7 DEF Scanning
<1>9. IsInjective(todo) /\ Range(todo) = Range(s) \cup {x}
  BY <1>2, <1>7, <1>8, AppendText, AppendTwice
<1>10. WorkShape(v) /\ v.at = "scanned" /\ SamePlan(v, work[p]) /\ v.scanned = work[p].scanned
  BY <1>3, <1>5, PutAt DEF SamePlan
<1>11. w.at = "scanned" /\ w.todo = todo /\ SamePlan(w, v) /\ w.scanned = v.scanned
  BY <1>4, <1>10, PutTodo DEF SamePlan
<1>12. Scanning(w)
  BY <1>1, <1>7, <1>8, <1>9, <1>10, <1>11 DEF Scanning
<1>13. SamePlan(w, work[p]) /\ w.at \in Planners
  BY <1>10, <1>11 DEF SamePlan, Planners
<1> QED BY <1>5, <1>6, <1>12, <1>13, ScanGoes

LEMMA ReadingAccounts ==
  ASSUME CommandInv, AccountInv, NEW p \in Processes,
         Sought(p) \/ Measure(p) \/ Counts(p) \/ Measured(p)
  PROVE  AccountInv'
<1>1. CASE Sought(p)
  <2>1. UNCHANGED <<job, tr>> /\ work[p].at = "seek"
    BY <1>1 DEF Sought, translation
  <2>2. Goes(p, "measure") \/ Keeps(p)
    BY <1>1, Zenon DEF Sought
  <2>3. work[p].at \in Early /\ work[p].at \in Planners \ {"scanned"} /\ "measure" \in Planners \ {"scanned"}
    BY <2>1 DEF Early, Planners
  <2> QED BY <2>1, <2>2, <2>3, EarlyGoes, KeepsAccounts
<1>2. CASE Measure(p)
  <2>1. UNCHANGED <<job, tr>> /\ work[p].at = "measure"
    BY <1>2 DEF Measure
  <2>2. Goes(p, "counted") \/ Goes(p, "measured") \/ Exits(p, "error")
    BY <1>2, Zenon DEF Measure
  <2>3. /\ work[p].at \in Early /\ work[p].at \in Planners \ {"scanned"}
        /\ {"counted", "measured"} \subseteq Planners \ {"scanned"}
    BY <2>1 DEF Early, Planners
  <2> QED BY <2>1, <2>2, <2>3, EarlyGoes, EarlyExits
<1>3. CASE Counts(p)
  <2>1. UNCHANGED <<job, tr>> /\ work[p].at = "counted"
    BY <1>3 DEF Counts, translation
  <2>2. Goes(p, "measured") \/ Keeps(p)
    BY <1>3, Zenon DEF Counts
  <2>3. work[p].at \in Early /\ work[p].at \in Planners \ {"scanned"} /\ "measured" \in Planners \ {"scanned"}
    BY <2>1 DEF Early, Planners
  <2> QED BY <2>1, <2>2, <2>3, EarlyGoes, KeepsAccounts
<1>4. CASE Measured(p)
  <2>1. UNCHANGED <<job, tr>> /\ work[p].at = "measured" /\ Keeps(p)
    BY <1>4 DEF Measured, translation
  <2> QED BY <2>1, KeepsAccounts
<1> QED BY <1>1, <1>2, <1>3, <1>4

\* The plan is what is on the list, each target once.
LEMMA PlannedAccounts ==
  ASSUME CommandInv, AccountInv, NEW p \in Processes, UNCHANGED <<job, tr>>, work[p].at \in Early,
         NEW todo, IsText(todo), IsInjective(todo), Planned(p, todo)
  PROVE  AccountInv'
<1>1. PICK u : u = [work[p] EXCEPT !.at = "next"]
  OBVIOUS
<1>2. PICK v : v = [u EXCEPT !.todo = todo]
  OBVIOUS
<1>3. PICK plan : plan = Range(todo)
  OBVIOUS
<1>4. PICK w : w = [v EXCEPT !.plan = plan]
  OBVIOUS
<1>5. WorkShape(work[p]) /\ work' = [work EXCEPT ![p] = w]
  BY <1>1, <1>2, <1>3, <1>4, AccountFacts DEF Planned
<1>6. WorkShape(u) /\ u.at = "next" /\ u.done = work[p].done /\ u.failed = work[p].failed
  BY <1>1, <1>5, PutAt
<1>7. WorkShape(v) /\ v.at = "next" /\ v.todo = todo /\ v.done = u.done /\ v.failed = u.failed
  BY <1>2, <1>6, PutTodo
<1>8. w.at = "next" /\ w.todo = todo /\ w.plan = plan /\ w.done = v.done /\ w.failed = v.failed
  BY <1>4, <1>7, PutPlan
<1>9. w.done = {} /\ w.failed = 0
  BY <1>6, <1>7, <1>8, AccountFacts DEF Accounts, Planless
<1>10. IsFiniteSet(plan) /\ Left(w) = plan
  <2>1. Hand(w) = {}
    BY <1>8 DEF Hand
  <2> QED BY <1>3, <1>8, <2>1, RangeFinite DEF Left
<1>11. PICK t, j : t = tr[p] /\ j = job[p]
  OBVIOUS
<1>12. Balanced(w, j)
  <2>1. Cardinality(plan) \in Nat
    BY <1>10, FS_CardinalityType
  <2>2. Cardinality(w.done) = 0
    BY <1>9, FS_EmptySet
  <2> QED BY <1>8, <1>9, <1>10, <2>1, <2>2 DEF Balanced
<1>13. Accounts(w, t, j)
  BY <1>8, <1>12 DEF Accounts, Early, Planners
<1> QED BY <1>5, <1>11, <1>13, AccountStays

LEMMA PlanBatchAccounts ==
  ASSUME CommandInv, AccountInv, NEW p \in Processes, PlanBatch(p)
  PROVE  AccountInv'
<1>1. /\ work[p].at = "scanned" /\ work[p].at \in Early /\ work[p].at \in Planners
      /\ UNCHANGED <<job, tr>>
  BY DEF PlanBatch, translation, Early, Planners
<1>2. Exits(p, "ok") \/ Planned(p, work[p].todo)
  BY Zenon DEF PlanBatch
<1>3. IsText(work[p].todo) /\ IsInjective(work[p].todo)
  BY <1>1, AccountFacts DEF Accounts, Scanning
<1> QED BY <1>1, <1>2, <1>3, EarlyExits, PlannedAccounts

LEMMA PlanDocumentsAccounts ==
  ASSUME CommandInv, AccountInv, NEW p \in Processes, PlanDocuments(p)
  PROVE  AccountInv'
<1>1. work[p].at = "plan" /\ work[p].at \in Early /\ UNCHANGED <<job, tr>>
  BY DEF PlanDocuments, translation, Early
<1> DEFINE S == {name \in Names : IsSource(p, name)}
<1>2. CASE Exits(p, "error")
  BY <1>1, <1>2, EarlyExits
<1>3. ASSUME NEW sources \in SetToSeqs(S), NEW todo,
             todo = [i \in DOMAIN sources |-> Target(p, sources[i])], Planned(p, todo)
      PROVE  AccountInv'
  <2>1. IsText(sources) /\ IsInjective(sources)
    <3>1. S \in SUBSET Names
      OBVIOUS
    <3> HIDE DEF S
    <3> QED BY <3>1, NamesFinite, Orders, OrdersTwice
  <2> HIDE DEF S
  <2>2. IsText(todo)
    BY <1>3, <2>1, TextLike
  <2>3. \A i \in DOMAIN sources : todo[i].from = sources[i]
    BY <1>3 DEF Target
  <2>4. IsInjective(todo)
    <3>1. DOMAIN todo = DOMAIN sources
      BY <1>3
    <3> QED BY <2>1, <2>3, <3>1 DEF IsInjective
  <2> QED BY <1>1, <1>3, <2>2, <2>4, PlannedAccounts
<1>4. \/ Exits(p, "error")
      \/ \E sources \in SetToSeqs(S) : Planned(p, [i \in DOMAIN sources |-> Target(p, sources[i])])
  BY Zenon DEF PlanDocuments
<1> HIDE DEF S
<1> QED BY <1>2, <1>3, <1>4

LEMMA PlanPagesAccounts ==
  ASSUME CommandInv, AccountInv, NEW p \in Processes, PlanPages(p)
  PROVE  AccountInv'
<1>1. /\ work[p].at = "plan" /\ work[p].at \in Early /\ UNCHANGED <<job, tr>>
      /\ job[p].kind \in {"exec", "man", "info"}
  BY DEF PlanPages, translation, Early
<1>2. \/ Exits(p, "error") \/ Planned(p, ExecPages(p, job[p].command))
      \/ Planned(p, ManPage(p, job[p].command))
  BY Zenon DEF PlanPages
<1>3. job[p].command \in DOMAIN Prints
  BY <1>1, JobFacts
<1>4. IsText(ExecPages(p, job[p].command)) /\ IsInjective(ExecPages(p, job[p].command))
  BY <1>3, ExecPagesReadable, ExecPagesTwice DEF Readable
<1>5. IsText(ManPage(p, job[p].command)) /\ IsInjective(ManPage(p, job[p].command))
  BY <1>3, ManPageReadable, NoneTwice DEF Readable, ManPage
<1> QED BY <1>1, <1>2, <1>4, <1>5, EarlyExits, PlannedAccounts

LEMMA PlanPrecacheAccounts ==
  ASSUME CommandInv, AccountInv, NEW p \in Processes, PlanPrecache(p)
  PROVE  AccountInv'
<1>1. work[p].at = "plan" /\ work[p].at \in Early /\ UNCHANGED <<job, tr>>
  BY DEF PlanPrecache, translation, Early
<1>2. PICK names \in Discovered :
         Planned(p, FlattenSeq([i \in DOMAIN names |-> PrecachePages(names[i])]))
  BY DEF PlanPrecache
<1>3. PICK todo : todo = FlattenSeq([i \in DOMAIN names |-> PrecachePages(names[i])])
  OBVIOUS
<1>4. IsText(todo)
  BY <1>3, PrecacheReadable DEF Readable
<1>5. IsInjective(todo)
  BY <1>3, PrecacheTwice
<1>6. Planned(p, todo)
  BY <1>2, <1>3
<1> QED BY <1>1, <1>4, <1>5, <1>6, PlannedAccounts

LEMMA PlanTextAccounts ==
  ASSUME CommandInv, AccountInv, NEW p \in Processes, PlanText(p)
  PROVE  AccountInv'
<1>1. work[p].at = "plan" /\ work[p].at \in Early /\ UNCHANGED <<job, tr>>
  BY DEF PlanText, translation, Early
<1>2. (\E status \in {"ok", "error"} : Exits(p, status)) \/ (\E x : Planned(p, <<x>>))
  BY Zenon DEF PlanText
<1>3. \A x : IsText(<<x>>) /\ IsInjective(<<x>>)
  BY OneText, NoneTwice
<1> QED BY <1>1, <1>2, <1>3, EarlyExits, PlannedAccounts

-----------------------------------------------------------------------------
(* Going through the plan.                                                 *)

\* The next target is taken in hand.
LEMMA Takes ==
  ASSUME NEW v, NEW j, Balanced(v, j), v.at = "next", v.todo # <<>>, IsText(v.todo),
         NEW w, w.at = "translating", w.now = Head(v.todo), w.todo = Tail(v.todo), SamePlan(w, v)
  PROVE  Balanced(w, j)
<1>1. IsInjective(v.todo)
  BY DEF Balanced
<1>2. IsInjective(w.todo) /\ w.now \notin Range(w.todo) /\ Range(v.todo) = Range(w.todo) \cup {w.now}
  BY <1>1, RestTwice
<1>3. Hand(v) = {} /\ Hand(w) = {w.now}
  BY DEF Hand
<1>4. Left(w) = Left(v)
  BY <1>2, <1>3 DEF Left
<1> QED BY <1>2, <1>4 DEF Balanced, SamePlan

\* What is left without what is in hand.
LEMMA HandIs ==
  ASSUME NEW v, NEW j, Balanced(v, j), v.at \in {"translating", "writing"},
         NEW w, w.at = "next", w.todo = v.todo
  PROVE  /\ Left(v) = Left(w) \cup {v.now} /\ v.now \notin Left(w)
         /\ IsFiniteSet(v.plan) /\ IsFiniteSet(v.done) /\ IsFiniteSet(Left(w))
         /\ v.now \in v.plan \ v.done /\ Left(w) \subseteq v.plan \ v.done
         /\ v.done \subseteq v.plan /\ v.failed \in Nat
         /\ Cardinality(v.done) \in Nat /\ Cardinality(Left(w)) \in Nat
         /\ Cardinality(v.plan) = Cardinality(v.done) + v.failed + Cardinality(Left(w)) + 1
<1>1. Left(v) = Range(v.todo) \cup {v.now} /\ Left(w) = Range(v.todo)
  BY DEF Left, Hand
<1>2. v.now \notin Range(v.todo) /\ Left(v) \subseteq v.plan \ v.done /\ v.done \subseteq v.plan
  BY DEF Balanced
<1>3. IsFiniteSet(v.plan) /\ IsFiniteSet(v.done) /\ IsFiniteSet(Left(w))
  <2>1. IsFiniteSet(v.plan)
    BY DEF Balanced
  <2>2. Left(w) \subseteq v.plan
    BY <1>1, <1>2
  <2> QED BY <1>2, <2>1, <2>2, FS_Subset
<1>4. Cardinality(v.done) \in Nat /\ Cardinality(Left(w)) \in Nat
  BY <1>3, FS_CardinalityType
<1>5. Cardinality(Left(v)) = Cardinality(Left(w)) + 1
  <2>1. PICK S, x : S = Left(w) /\ x = v.now
    OBVIOUS
  <2>2. IsFiniteSet(S) /\ x \notin S
    BY <1>1, <1>2, <1>3, <2>1
  <2>3. Cardinality(S \cup {x}) = Cardinality(S) + 1
    BY <2>2, FS_AddElement
  <2> QED BY <1>1, <2>1, <2>3
<1>6. v.failed \in Nat /\ Cardinality(v.plan) = Cardinality(v.done) + v.failed + Cardinality(Left(v))
  BY DEF Balanced
<1>7. Cardinality(v.plan) = Cardinality(v.done) + v.failed + Cardinality(Left(w)) + 1
  BY <1>4, <1>5, <1>6
<1> QED BY <1>1, <1>2, <1>3, <1>4, <1>6, <1>7

\* It is published or shown,
LEMMA Settles ==
  ASSUME NEW v, NEW j, Balanced(v, j), v.at \in {"translating", "writing"},
         NEW w, w.at = "next", w.done = v.done \cup {v.now}, w.plan = v.plan, w.failed = v.failed,
         w.todo = v.todo
  PROVE  Balanced(w, j)
<1>1. /\ IsInjective(v.todo)
      /\ v.failed > 0 => j.kind \in {"doc", "exec", "precache"}
  BY DEF Balanced
<1>2. /\ v.now \notin Left(w) /\ IsFiniteSet(v.plan) /\ IsFiniteSet(v.done)
      /\ v.now \in v.plan \ v.done /\ Left(w) \subseteq v.plan \ v.done
      /\ v.done \subseteq v.plan /\ v.failed \in Nat
      /\ Cardinality(v.done) \in Nat /\ Cardinality(Left(w)) \in Nat
      /\ Cardinality(v.plan) = Cardinality(v.done) + v.failed + Cardinality(Left(w)) + 1
  BY HandIs
<1>3. Cardinality(w.done) = Cardinality(v.done) + 1
  BY <1>2, FS_AddElement
<1>4. Cardinality(w.plan) = Cardinality(w.done) + w.failed + Cardinality(Left(w))
  BY <1>2, <1>3
<1>5. w.done \subseteq w.plan /\ Left(w) \subseteq w.plan \ w.done
  BY <1>2
<1> QED BY <1>1, <1>2, <1>4, <1>5 DEF Balanced

\* or counted as failed,
LEMMA Tallies ==
  ASSUME NEW v, NEW j, Balanced(v, j), v.at \in {"translating", "writing"},
         j.kind \in {"doc", "exec", "precache"},
         NEW w, w.at = "next", w.done = v.done, w.plan = v.plan, w.failed = v.failed + 1,
         w.todo = v.todo
  PROVE  Balanced(w, j)
<1>1. IsInjective(v.todo)
  BY DEF Balanced
<1>2. /\ IsFiniteSet(v.plan) /\ Left(w) \subseteq v.plan \ v.done
      /\ v.done \subseteq v.plan /\ v.failed \in Nat
      /\ Cardinality(v.done) \in Nat /\ Cardinality(Left(w)) \in Nat
      /\ Cardinality(v.plan) = Cardinality(v.done) + v.failed + Cardinality(Left(w)) + 1
  BY HandIs
<1>3. w.failed \in Nat /\ Cardinality(w.plan) = Cardinality(w.done) + w.failed + Cardinality(Left(w))
  BY <1>2
<1> QED BY <1>1, <1>2, <1>3 DEF Balanced

\* or it ends the command.
LEMMA Abandons ==
  ASSUME NEW v, NEW t, NEW j, Balanced(v, j), v.at \in {"translating", "writing"},
         j.kind \in {"batch", "text", "man", "info"},
         NEW w, w.at = "exit", w.status = "error", SamePlan(w, v)
  PROVE  Accounts(w, t, j)
<1>1. v.now \in v.plan /\ v.now \notin v.done /\ v.failed = 0
  BY DEF Balanced, Left, Hand
<1>2. w.done # w.plan /\ w.failed = 0
  BY <1>1 DEF SamePlan
<1>3. Honest(w, t, j)
  BY <1>2 DEF Honest, Complete
<1> QED BY <1>3 DEF Accounts, Early, Planners, Running

\* Nothing is left when a command ends by itself.
LEMMA Concludes ==
  ASSUME NEW v, NEW t, NEW j, Balanced(v, j), v.at = "next", v.todo = <<>>,
         NEW w, w.at = "exit", SamePlan(w, v),
         w.status = CASE j.kind \in {"exec", "man", "info"} -> "own"
                      [] j.kind = "doc" /\ v.failed > 0 -> "error"
                      [] j.kind = "text" /\ Degrades(t) /\ "warn" \notin j.options -> "error"
                      [] OTHER -> "ok"
  PROVE  Accounts(w, t, j)
<1>1. Left(v) = {}
  BY EmptyText DEF Left, Hand
<1>2. /\ IsFiniteSet(v.plan) /\ v.done \subseteq v.plan /\ v.failed \in Nat
      /\ v.failed > 0 => j.kind \in {"doc", "exec", "precache"}
      /\ Cardinality(v.plan) = Cardinality(v.done) + v.failed + Cardinality(Left(v))
  BY DEF Balanced
<1>3. IsFiniteSet(v.done) /\ Cardinality(v.done) \in Nat /\ Cardinality({}) = 0
  BY <1>2, FS_Subset, FS_CardinalityType, FS_EmptySet
<1>4. Cardinality(v.plan) = Cardinality(v.done) + v.failed
  BY <1>1, <1>2, <1>3
<1>5. v.failed = 0 => v.done = v.plan
  BY <1>2, <1>3, <1>4, FS_Subset
<1>6. v.failed > 0 => v.done # v.plan
  BY <1>2, <1>3, <1>4
<1>7. w.plan = v.plan /\ w.done = v.done /\ w.failed = v.failed
  BY DEF SamePlan
<1>8. Settled(w)
  BY <1>4, <1>7 DEF Settled
<1>9. w.status = "ok" /\ j.kind # "precache" => v.failed = 0 /\ ~(j.kind = "text" /\ Degrades(t) /\ "warn" \notin j.options)
  BY <1>2
<1>10. w.status = "error" => v.failed > 0 \/ (j.kind = "text" /\ Degrades(t) /\ "warn" \notin j.options)
  OBVIOUS
<1>11. w.status = "ok" /\ j.kind # "precache" => Complete(w, t, j)
  BY <1>5, <1>7, <1>9 DEF Complete
<1>12. w.status = "error" => ~Complete(w, t, j)
  BY <1>6, <1>7, <1>10 DEF Complete
<1>13. j.kind \in {"man", "info"} => w.failed = 0
  BY <1>2, <1>7
<1>14. Honest(w, t, j)
  BY <1>8, <1>11, <1>12, <1>13, Zenon DEF Honest
<1> QED BY <1>14 DEF Accounts, Early, Planners, Running

-----------------------------------------------------------------------------
(* The steps that do.                                                      *)

LEMMA TranslateOthers ==
  ASSUME CommandInv, NEW p \in Processes, NEW text, NEW lang, Translate(p, text, lang)
  PROVE  \A q \in Processes \ {p} : tr'[q] = tr[q]
<1>1. \E t : tr' = [tr EXCEPT ![p] = t]
  BY Zenon DEF Translate
<1> QED BY <1>1, CommandFacts

LEMMA RunsOn ==
  ASSUME CommandInv, AccountInv, NEW p \in Processes, UNCHANGED job, NEW w,
         work' = [work EXCEPT ![p] = w], \A q \in Processes \ {p} : tr'[q] = tr[q],
         w.at \in Running, Balanced(w, job[p])
  PROVE  AccountInv'
<1>1. PICK t, j : t = tr'[p] /\ j = job[p]
  OBVIOUS
<1>2. Accounts(w, t, j)
  BY <1>1 DEF Accounts, Early, Planners, Running
<1> QED BY <1>1, <1>2, AccountMoves

LEMMA RunFacts ==
  ASSUME CommandInv, AccountInv, NEW p \in Processes, work[p].at \in Running
  PROVE  /\ Balanced(work[p], job[p]) /\ WorkShape(work[p]) /\ IsText(work[p].todo)
         /\ work = [q \in Processes |-> work[q]]
  BY AccountFacts DEF Accounts

LEMMA NextTextAccounts ==
  ASSUME CommandInv, AccountInv, NEW p \in Processes, NextText(p)
  PROVE  AccountInv'
<1>1. PICK x, rest : x = Head(work[p].todo) /\ rest = Tail(work[p].todo)
  OBVIOUS
<1>2. /\ work[p].at = "next" /\ work[p].todo # <<>> /\ UNCHANGED job
      /\ work' = [work EXCEPT ![p].at = "translating", ![p].now = x, ![p].todo = Tail(@)]
      /\ \E t : tr' = [tr EXCEPT ![p] = t]
  BY <1>1, Zenon DEF NextText, Translate
<1>3. PICK u : u = [work[p] EXCEPT !.at = "translating"]
  OBVIOUS
<1>4. PICK v : v = [u EXCEPT !.now = x]
  OBVIOUS
<1>5. PICK w : w = [v EXCEPT !.todo = rest]
  OBVIOUS
<1>6. work' = [work EXCEPT ![p] = w] /\ WorkShape(work[p])
  BY <1>1, <1>2, <1>3, <1>4, <1>5, AccountFacts
<1>7. WorkShape(u) /\ u.at = "translating" /\ SamePlan(u, work[p])
  BY <1>3, <1>6, PutAt DEF SamePlan
<1>8. WorkShape(v) /\ v.at = "translating" /\ v.now = x /\ SamePlan(v, u)
  BY <1>4, <1>7, PutNow DEF SamePlan
<1>9. w.at = "translating" /\ w.now = x /\ w.todo = rest /\ SamePlan(w, v)
  BY <1>5, <1>8, PutTodo DEF SamePlan
<1>10. SamePlan(w, work[p])
  BY <1>7, <1>8, <1>9 DEF SamePlan
<1>11. Balanced(work[p], job[p]) /\ IsText(work[p].todo)
  BY <1>2, RunFacts DEF Running
<1>12. PICK v0, j : v0 = work[p] /\ j = job[p]
  OBVIOUS
<1>13. Balanced(w, j)
  BY <1>1, <1>2, <1>9, <1>10, <1>11, <1>12, Takes
<1>14. w.at \in Running /\ \A q \in Processes \ {p} : tr'[q] = tr[q]
  BY <1>2, <1>9, CommandFacts DEF Running
<1> QED BY <1>2, <1>6, <1>12, <1>13, <1>14, RunsOn

LEMMA NextPageAccounts ==
  ASSUME CommandInv, AccountInv, NEW p \in Processes, NextPage(p)
  PROVE  AccountInv'
<1>1. PICK x, rest : x = Head(work[p].todo) /\ rest = Tail(work[p].todo)
  OBVIOUS
<1> DEFINE started == [work[p] EXCEPT !.now = x, !.todo = Tail(@)]
<1>2. work[p].at = "next" /\ work[p].todo # <<>> /\ UNCHANGED job
  BY Zenon DEF NextPage
<1>3. \/ work' = [work EXCEPT ![p] = [started EXCEPT !.done = @ \cup {x}]] /\ UNCHANGED tr
      \/ /\ work' = [work EXCEPT ![p] = [started EXCEPT !.at = "translating"]]
         /\ \E text, lang : Translate(p, text, lang)
  <2>1. \/ /\ work' = [work EXCEPT ![p] = [[work[p] EXCEPT !.now = Head(work[p].todo), !.todo = Tail(@)]
                                             EXCEPT !.done = @ \cup {Head(work[p].todo)}]]
           /\ UNCHANGED <<tr, call>>
        \/ /\ work' = [work EXCEPT ![p] = [[work[p] EXCEPT !.now = Head(work[p].todo), !.todo = Tail(@)]
                                             EXCEPT !.at = "translating"]]
           /\ Translate(p, Head(work[p].todo).text, Head(work[p].todo).lang)
    BY Zenon DEF NextPage
  <2> QED BY <1>1, <2>1, Zenon
<1>4. PICK u : u = [work[p] EXCEPT !.now = x]
  OBVIOUS
<1>5. PICK v : v = [u EXCEPT !.todo = rest]
  OBVIOUS
<1>6. started = v
  BY <1>1, <1>4, <1>5
<1> HIDE DEF started
<1>7. WorkShape(work[p]) /\ Balanced(work[p], job[p]) /\ IsText(work[p].todo)
  BY <1>2, RunFacts DEF Running
<1>8. WorkShape(u) /\ u.at = "next" /\ u.now = x /\ SamePlan(u, work[p])
  <2>1. WorkShape(u) /\ u.now = x /\ u.at = work[p].at /\ SamePlan(u, work[p])
    BY <1>4, <1>7, PutNow DEF SamePlan
  <2> QED BY <1>2, <2>1
<1>9. WorkShape(v) /\ v.at = "next" /\ v.now = x /\ v.todo = rest /\ SamePlan(v, u)
  BY <1>5, <1>8, PutTodo DEF SamePlan
<1>10. PICK y : y = [v EXCEPT !.at = "translating"]
  OBVIOUS
<1>11. y.at = "translating" /\ y.now = x /\ y.todo = rest /\ SamePlan(y, v)
  BY <1>9, <1>10, PutAt DEF SamePlan
<1>12. SamePlan(y, work[p])
  BY <1>8, <1>9, <1>11 DEF SamePlan
<1>13. PICK v0, j : v0 = work[p] /\ j = job[p]
  OBVIOUS
<1>14. Balanced(y, j)
  BY <1>1, <1>2, <1>7, <1>11, <1>12, <1>13, Takes
<1>15. CASE work' = [work EXCEPT ![p] = [started EXCEPT !.done = @ \cup {x}]] /\ UNCHANGED tr
  <2>1. PICK done : done = v.done \cup {x}
    OBVIOUS
  <2>2. PICK w : w = [v EXCEPT !.done = done]
    OBVIOUS
  <2>3. work' = [work EXCEPT ![p] = w]
    BY <1>6, <1>15, <2>1, <2>2
  <2>4. w.at = "next" /\ w.done = done /\ w.plan = v.plan /\ w.failed = v.failed /\ w.todo = rest
    BY <1>9, <2>2, PutDone
  <2>5. /\ w.done = y.done \cup {y.now} /\ w.plan = y.plan /\ w.failed = y.failed /\ w.todo = y.todo
    BY <1>11, <2>1, <2>4 DEF SamePlan
  <2>6. Balanced(w, j)
    BY <1>11, <1>14, <2>4, <2>5, Settles
  <2> QED BY <1>2, <1>13, <1>15, <2>3, <2>4, <2>6, RunsOn DEF Running
<1>16. CASE /\ work' = [work EXCEPT ![p] = [started EXCEPT !.at = "translating"]]
            /\ \E text, lang : Translate(p, text, lang)
  <2>1. work' = [work EXCEPT ![p] = y]
    BY <1>6, <1>10, <1>16
  <2>2. y.at \in Running /\ \A q \in Processes \ {p} : tr'[q] = tr[q]
    BY <1>11, <1>16, TranslateOthers DEF Running
  <2> QED BY <1>2, <1>13, <1>14, <2>1, <2>2, RunsOn
<1> QED BY <1>3, <1>15, <1>16

LEMMA ShowsAccounts ==
  ASSUME CommandInv, AccountInv, NEW p \in Processes, UNCHANGED <<job, tr>>,
         work[p].at = "translating", Shows(p)
  PROVE  AccountInv'
<1>1. PICK done : done = work[p].done \cup {work[p].now}
  OBVIOUS
<1>2. PICK v : v = [work[p] EXCEPT !.at = "next"]
  OBVIOUS
<1>3. PICK w : w = [v EXCEPT !.done = done]
  OBVIOUS
<1>4. WorkShape(work[p]) /\ Balanced(work[p], job[p])
  BY RunFacts DEF Running
<1>5. work' = [work EXCEPT ![p] = w]
  BY <1>1, <1>2, <1>3, <1>4, AccountFacts DEF Shows
<1>6. /\ WorkShape(v) /\ v.at = "next" /\ v.plan = work[p].plan /\ v.failed = work[p].failed
      /\ v.todo = work[p].todo
  BY <1>2, <1>4, PutAt
<1>7. w.at = "next" /\ w.done = done /\ w.plan = v.plan /\ w.failed = v.failed /\ w.todo = v.todo
  BY <1>3, <1>6, PutDone
<1>8. PICK v0, j : v0 = work[p] /\ j = job[p]
  OBVIOUS
<1>9. Balanced(w, j)
  BY <1>1, <1>4, <1>6, <1>7, <1>8, Settles
<1> QED BY <1>5, <1>7, <1>8, <1>9, RunsOn DEF Running

LEMMA FailedAccounts ==
  ASSUME CommandInv, AccountInv, NEW p \in Processes, UNCHANGED <<job, tr>>,
         work[p].at \in {"translating", "writing"}, NEW names, Failed(p, names)
  PROVE  AccountInv'
<1>1. WorkShape(work[p]) /\ Balanced(work[p], job[p])
  BY RunFacts DEF Running
<1>2. PICK v0, t, j : v0 = work[p] /\ t = tr[p] /\ j = job[p]
  OBVIOUS
<1>3. CASE job[p].kind \in {"batch", "text", "man", "info"}
  <2>1. Exits(p, "error")
    BY <1>3, Zenon DEF Failed
  <2>2. PICK w : /\ work' = [work EXCEPT ![p] = w] /\ w.at = "exit" /\ w.status = "error"
                 /\ SamePlan(w, work[p])
    BY <2>1, ExitsOn
  <2>3. Accounts(w, t, j)
    BY <1>1, <1>2, <1>3, <2>2, Abandons
  <2> QED BY <1>2, <2>2, <2>3, AccountStays
<1>4. CASE job[p].kind \notin {"batch", "text", "man", "info"}
  <2>1. PICK failed, count : failed = work[p].failed + 1 /\ count = work[p].count + names
    OBVIOUS
  <2>2. work' = [work EXCEPT ![p].at = "next", ![p].failed = @ + 1, ![p].count = @ + names]
    BY <1>4, Zenon DEF Failed
  <2>3. PICK u : u = [work[p] EXCEPT !.at = "next"]
    OBVIOUS
  <2>4. PICK v : v = [u EXCEPT !.failed = failed]
    OBVIOUS
  <2>5. PICK w : w = [v EXCEPT !.count = count]
    OBVIOUS
  <2>6. work' = [work EXCEPT ![p] = w]
    BY <1>1, <2>1, <2>2, <2>3, <2>4, <2>5, AccountFacts
  <2>7. /\ WorkShape(u) /\ u.at = "next" /\ u.plan = work[p].plan /\ u.done = work[p].done
        /\ u.todo = work[p].todo
    BY <1>1, <2>3, PutAt
  <2>8. /\ WorkShape(v) /\ v.at = "next" /\ v.plan = u.plan /\ v.done = u.done /\ v.failed = failed
        /\ v.todo = u.todo
    BY <2>4, <2>7, PutFailed
  <2>9. w.at = "next" /\ w.plan = v.plan /\ w.done = v.done /\ w.failed = v.failed /\ w.todo = v.todo
    BY <2>5, <2>8, PutCount
  <2>10. job[p].kind \in {"doc", "exec", "precache"}
    <3>1. job[p].kind \in OfTexts \cup OfPages
      BY CommandFacts, Zenon DEF Proceeds
    <3> QED BY <1>4, <3>1 DEF OfTexts, OfPages
  <2>11. Balanced(w, j)
    BY <1>1, <1>2, <2>1, <2>7, <2>8, <2>9, <2>10, Tallies
  <2> QED BY <1>2, <2>6, <2>9, <2>11, RunsOn DEF Running
<1> QED BY <1>3, <1>4

LEMMA OutcomeAccounts ==
  ASSUME CommandInv, AccountInv, NEW p \in Processes,
         NotTranslated(p) \/ Refused(p) \/ WriteFails(p) \/ ShowText(p) \/ KeepPage(p)
  PROVE  AccountInv'
<1>1. UNCHANGED <<job, tr>> /\ work[p].at \in {"translating", "writing"}
  BY Zenon DEF NotTranslated, Refused, WriteFails, ShowText, KeepPage, Publishes, translation
<1>2. Failed(p, 0) \/ Failed(p, 1) \/ (work[p].at = "translating" /\ Shows(p))
  BY Zenon DEF NotTranslated, Refused, WriteFails, ShowText, KeepPage
<1> QED BY <1>1, <1>2, FailedAccounts, ShowsAccounts

LEMMA CreateAccounts ==
  ASSUME CommandInv, AccountInv, NEW p \in Processes, Create(p)
  PROVE  AccountInv'
<1>1. work[p].at = "translating" /\ UNCHANGED <<job, tr>> /\ Goes(p, "writing")
  BY DEF Create, Publishes, translation
<1>2. PICK w : /\ work' = [work EXCEPT ![p] = w] /\ w.at = "writing"
               /\ SamePlan(w, work[p]) /\ SameList(w, work[p])
  BY <1>1, GoesOn
<1>3. Balanced(work[p], job[p])
  BY <1>1, RunFacts DEF Running
<1>4. Left(w) = Left(work[p])
  BY <1>1, <1>2 DEF Left, Hand, SameList
<1>5. Balanced(w, job[p])
  BY <1>1, <1>2, <1>3, <1>4 DEF Balanced, SamePlan, SameList
<1> QED BY <1>1, <1>2, <1>5, RunsOn DEF Running

LEMMA RenameAccounts ==
  ASSUME CommandInv, AccountInv, NEW p \in Processes, Rename(p)
  PROVE  AccountInv'
<1>1. /\ work[p].at = "writing" /\ UNCHANGED <<job, tr>>
      /\ work' = [work EXCEPT ![p].at = "next", ![p].count = @ + 1,
                              ![p].done = @ \cup {work[p].now}]
  BY DEF Rename, translation
<1>2. PICK done, count : done = work[p].done \cup {work[p].now} /\ count = work[p].count + 1
  OBVIOUS
<1>3. PICK u : u = [work[p] EXCEPT !.at = "next"]
  OBVIOUS
<1>4. PICK v : v = [u EXCEPT !.count = count]
  OBVIOUS
<1>5. PICK w : w = [v EXCEPT !.done = done]
  OBVIOUS
<1>6. WorkShape(work[p]) /\ Balanced(work[p], job[p])
  BY <1>1, RunFacts DEF Running
<1>7. work' = [work EXCEPT ![p] = w]
  BY <1>1, <1>2, <1>3, <1>4, <1>5, <1>6, AccountFacts
<1>8. /\ WorkShape(u) /\ u.at = "next" /\ u.plan = work[p].plan /\ u.failed = work[p].failed
      /\ u.todo = work[p].todo
  BY <1>3, <1>6, PutAt
<1>9. /\ WorkShape(v) /\ v.at = "next" /\ v.plan = u.plan /\ v.failed = u.failed /\ v.todo = u.todo
  BY <1>4, <1>8, PutCount
<1>10. w.at = "next" /\ w.done = done /\ w.plan = v.plan /\ w.failed = v.failed /\ w.todo = v.todo
  BY <1>5, <1>9, PutDone
<1>11. PICK v0, j : v0 = work[p] /\ j = job[p]
  OBVIOUS
<1>12. Balanced(w, j)
  BY <1>1, <1>2, <1>6, <1>8, <1>9, <1>10, <1>11, Settles
<1> QED BY <1>1, <1>7, <1>10, <1>11, <1>12, RunsOn DEF Running

LEMMA FinishAccounts ==
  ASSUME CommandInv, AccountInv, NEW p \in Processes, Finish(p)
  PROVE  AccountInv'
<1>1. /\ work[p].at = "next" /\ work[p].todo = <<>> /\ UNCHANGED <<job, tr>>
      /\ Exits(p, Status(p))
  BY DEF Finish, translation
<1>2. PICK w : /\ work' = [work EXCEPT ![p] = w] /\ w.at = "exit" /\ w.status = Status(p)
               /\ SamePlan(w, work[p])
  BY <1>1, ExitsOn
<1>3. Balanced(work[p], job[p])
  BY <1>1, RunFacts DEF Running
<1>4. PICK v, t, j : v = work[p] /\ t = tr[p] /\ j = job[p]
  OBVIOUS
<1>5. w.status = CASE j.kind \in {"exec", "man", "info"} -> "own"
                   [] j.kind = "doc" /\ v.failed > 0 -> "error"
                   [] j.kind = "text" /\ Degrades(t) /\ "warn" \notin j.options -> "error"
                   [] OTHER -> "ok"
  BY <1>2, <1>4 DEF Status, Degraded, Degrades, Has
<1>6. Accounts(w, t, j)
  BY <1>1, <1>2, <1>3, <1>4, <1>5, Concludes
<1> QED BY <1>1, <1>2, <1>4, <1>6, AccountStays

\* A new life has planned nothing.
LEMMA NewAccounts ==
  ASSUME NEW id, NEW j
  PROVE  Accounts(NewWork(id), NoWork, j)
<1>1. PICK w : w = NewWork(id)
  OBVIOUS
<1>2. w.at = "begin" /\ w.plan = {} /\ w.done = {} /\ w.failed = 0 /\ w.todo = <<>>
  BY <1>1 DEF NewWork
<1>3. NoWork.out = <<>>
  BY DEF NoWork
<1>4. Planless(w, NoWork)
  BY <1>2, <1>3 DEF Planless
<1>5. Accounts(w, NoWork, j)
  BY <1>2, <1>4 DEF Accounts, Planners, Running
<1> QED BY <1>1, <1>5

LEMMA CrashAccounts ==
  ASSUME CommandInv, AccountInv, NEW p \in Processes, Crash(p)
  PROVE  AccountInv'
<1>1. UNCHANGED job /\ tr' = [tr EXCEPT ![p] = NoWork]
  BY DEF Crash
<1>2. PICK id : work' = [work EXCEPT ![p] = NewWork(id)]
  BY DEF Crash
<1>3. tr'[p] = NoWork /\ \A q \in Processes \ {p} : tr'[q] = tr[q]
  BY <1>1, CommandFacts
<1>4. PICK w, t : w = NewWork(id) /\ t = NoWork
  OBVIOUS
<1>5. Accounts(w, t, job[p])
  BY <1>4, NewAccounts
<1> QED BY <1>1, <1>2, <1>3, <1>4, <1>5, AccountMoves

\* A step that is not one of the command itself.
LEMMA AccountWaits ==
  ASSUME CommandInv, AccountInv, NEW p \in Processes, UNCHANGED <<job, work>>,
         \A q \in Processes \ {p} : tr'[q] = tr[q], tr'[p] = tr[p] \/ work[p].at = "translating"
  PROVE  AccountInv'
<1>1. PICK w, t, j : w = work[p] /\ t = tr'[p] /\ j = job[p]
  OBVIOUS
<1>2. Accounts(w, tr[p], j)
  BY <1>1, AccountFacts
<1>3. Accounts(w, t, j)
  <2>1. CASE tr'[p] = tr[p]
    BY <1>1, <1>2, <2>1
  <2>2. CASE work[p].at = "translating"
    BY <1>1, <1>2, <2>2 DEF Accounts, Early, Planners
  <2> QED BY <2>1, <2>2
<1>4. work' = [work EXCEPT ![p] = w]
  BY <1>1, AccountFacts
<1> QED BY <1>1, <1>3, <1>4, AccountMoves

LEMMA OtherAccounts ==
  ASSUME CommandInv, AccountInv, NEW p \in Processes,
         \/ (DatabaseStep(p) \/ GiveUp(p)) /\ UNCHANGED <<translation, files, work>>
         \/ TranslationStep(p) /\ UNCHANGED <<file, lock, draft, files, work, faults>>
         \/ Write(p)
  PROVE  AccountInv'
<1>1. CASE \/ (DatabaseStep(p) \/ GiveUp(p)) /\ UNCHANGED <<translation, files, work>>
           \/ Write(p)
  <2>1. UNCHANGED <<job, tr, work>>
    BY <1>1 DEF Write, translation
  <2> QED BY <2>1, AccountWaits
<1>2. CASE TranslationStep(p) /\ UNCHANGED <<file, lock, draft, files, work, faults>>
  <2>1. Advances(p)
    BY <1>2, CommandFacts, TranslationSteps
  <2>2. job' = job
    BY <1>2 DEF TranslationStep, Replay, Prepare, Lookup, Estimated, Generate, StoreNext, Record
  <2>3. work[p].at = "translating" /\ \A q \in Processes \ {p} : tr'[q] = tr[q]
    BY <2>1, CommandFacts DEF Advances
  <2> QED BY <1>2, <2>2, <2>3, AccountWaits
<1> QED BY <1>1, <1>2

LEMMA AccountBegins == Init => AccountInv
<1> SUFFICES ASSUME Init, NEW p \in Processes PROVE Accounts(work[p], tr[p], job[p])
  BY DEF AccountInv
<1>1. work = [q \in Processes |-> NewWork(<<q, 0>>)] /\ tr = [q \in Processes |-> NoWork]
  BY DEF Init, TranslationInit
<1>2. work[p] = NewWork(<<p, 0>>) /\ tr[p] = NoWork
  BY <1>1
<1> QED BY <1>2, NewAccounts

LEMMA AccountSteps == CommandInv /\ AccountInv /\ [Next]_vars => AccountInv'
<1> SUFFICES ASSUME CommandInv, AccountInv, [Next]_vars PROVE AccountInv'
  OBVIOUS
<1>1. ASSUME NEW p \in Processes,
             \/ DatabaseStep(p) /\ UNCHANGED <<translation, files, work, faults>>
             \/ GiveUp(p) /\ Fault /\ UNCHANGED <<translation, files, work>>
             \/ TranslationStep(p) /\ UNCHANGED <<file, lock, draft, files, work, faults>>
             \/ Write(p)
      PROVE  AccountInv'
  BY <1>1, OtherAccounts
<1>2. ASSUME NEW p \in Processes,
             \/ Begin(p) \/ Managed(p) \/ Estimate(p)
             \/ Scan(p) \/ PlanFile(p) \/ Sought(p) \/ Measure(p) \/ Counts(p) \/ Measured(p)
             \/ PlanBatch(p) \/ PlanDocuments(p) \/ PlanPages(p) \/ PlanPrecache(p) \/ PlanText(p)
      PROVE  AccountInv'
  BY <1>2, BeginAccounts, ManagedAccounts, ScanAccounts, PlanFileAccounts, ReadingAccounts,
     PlanBatchAccounts, PlanDocumentsAccounts, PlanPagesAccounts, PlanPrecacheAccounts,
     PlanTextAccounts
<1>3. ASSUME NEW p \in Processes,
             \/ NextText(p) \/ NextPage(p) \/ NotTranslated(p) \/ ShowText(p) \/ KeepPage(p) \/ Finish(p)
             \/ Create(p) \/ Refused(p) \/ Rename(p) \/ WriteFails(p)
             \/ Crash(p)
      PROVE  AccountInv'
  BY <1>3, NextTextAccounts, NextPageAccounts, OutcomeAccounts, FinishAccounts, CreateAccounts,
     RenameAccounts, CrashAccounts
<1>4. CASE UNCHANGED vars
  <2>1. UNCHANGED <<job, tr, work>>
    BY <1>4 DEF vars, translation
  <2> QED BY <2>1 DEF AccountInv
<1>5. CASE Next
  BY <1>1, <1>2, <1>3, <1>5, Zenon DEF Next
<1> QED BY <1>4, <1>5

-----------------------------------------------------------------------------
(* The theorems.                                                           *)

\* Whatever the commands, files, programs and earlier history, however many
\* processes there are and wherever they are killed: every call of the history
\* is for a translation of its key, every translation under way has one for the
\* segments it has, every temporary file holds the beginning of its output, and
\* every file, page, row and task holds what it should (history.rs,
\* translate.rs:1471-2010, the workflows and write_translation_output).
THEOREM Commanded == Spec => []CommandInv
<1>1. Init => CommandInv
  BY CommandBegins
<1>2. CommandInv /\ [Next]_vars => CommandInv'
  BY CommandSteps
<1> QED BY <1>1, <1>2, PTL DEF Spec

\* write_translation_output (translate.rs:2578-2637): nobody ever reads part of
\* an output. A file holds what it held at first, or a complete translation, in
\* one language, of the text of the file it is named after or of what a text
\* command was given; a page or a task that is kept is complete too.
THEOREM PublishedWhole == Spec => []OutputsWhole
<1>1. CommandInv => OutputsWhole
  BY DEF CommandInv, DiskInv, PagesInv, HistoryInv, TasksOf, OutputsWhole
<1> QED BY <1>1, Commanded, PTL

\* retained_original::finalize (retained_original.rs:112-181): a paragraph that
\* was put back in the original never reaches the rows of the segments, a kept
\* page, or a task with a replay proof.
THEOREM OriginalsNotCached == Spec => []RetainedNotCached
<1>1. CommandInv => RetainedNotCached
  BY DEF CommandInv, PagesInv, HistoryInv, TasksOf, RetainedNotCached
<1> QED BY <1>1, Commanded, PTL

\* ensure_schema (history.rs:712-722): rows and tasks vanish only by a clear or
\* under a newer translation of the same key, however many processes open an
\* old file at once and whichever of them are killed while it is rebuilt.
THEOREM HistorySurvives == Spec => RowsSurvive
<1>1. CommandInv /\ [Next]_vars => [RowsKept]_file
  BY StepKeepsRows
<1> QED BY <1>1, Commanded, PTL DEF Spec, RowsSurvive

\* run_doc_translation (doc_translate.rs:248-303), run_batch_translation
\* (batch.rs:407-436), finalize_top_level_outcome (main.rs:1096-1112) and
\* run_exec_command (exec_wrapper.rs:44-138): the status of a command is true.
\* Success means that every output of the plan was published or shown, failure
\* that one was not or that a piece is still in the original; translate-doc and
\* exec have tried everything they planned, whatever failed on the way.
THEOREM StatusesHonest == Spec => []StatusHonest
<1>1. Init => CommandInv /\ AccountInv
  BY CommandBegins, AccountBegins
<1>2. CommandInv /\ AccountInv /\ [Next]_vars => (CommandInv /\ AccountInv)'
  BY CommandSteps, AccountSteps
<1>3. CommandInv /\ AccountInv => StatusHonest
  <2> SUFFICES ASSUME AccountInv, NEW p \in Processes, work[p].at = "exit"
               PROVE  Honest(work[p], tr[p], job[p])
    BY Zenon DEF StatusHonest, Honest, Complete, Settled, Degrades, Degraded, Has
  <2> QED BY DEF AccountInv, Accounts
<1> QED BY <1>1, <1>2, <1>3, PTL DEF Spec

=============================================================================
