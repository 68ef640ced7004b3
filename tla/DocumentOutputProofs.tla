------------------------- MODULE DocumentOutputProofs -------------------------
(***************************************************************************)
(* Theorems about DocumentOutput, for any documents, replies and limits,   *)
(* and any order in which segments complete.                               *)
(***************************************************************************)
EXTENDS DocumentOutput, DocumentPlanProofs

-----------------------------------------------------------------------------
(* The plan of an invocation.                                              *)

\* A number is in as many groups as a section to translate should be.
LEMMA InOneGroup ==
  ASSUME NEW gs, NEW ss \in Lists(Sections), Grouping(gs, ss, Len(ss)), NEW k \in 1 .. Len(ss)
  PROVE  Cardinality({g \in {gs[a] : a \in 1 .. Len(gs)} : k \in ToSet(g)}) = IF ss[k].go THEN 1 ELSE 0
<1> DEFINE X == {g \in {gs[a] : a \in 1 .. Len(gs)} : k \in ToSet(g)}
<1>1. /\ gs \in Lists(Lists(Nat)) /\ Len(gs) \in Nat
      /\ \A a \in 1 .. Len(gs) : gs[a] \in Lists(Nat) /\ DOMAIN gs[a] = 1 .. Len(gs[a])
  BY ListIs DEF Grouping
<1>2. \A a \in 1 .. Len(gs) : k \in ToSet(gs[a]) <=> \E j \in 1 .. Len(gs[a]) : gs[a][j] = k
  BY <1>1 DEF ToSet
<1>3. CASE ss[k].go
  <2>1. PICK a \in 1 .. Len(gs) : \E j \in 1 .. Len(gs[a]) : gs[a][j] = k
    BY <1>3 DEF Grouping
  <2>2. ASSUME NEW b \in 1 .. Len(gs), k \in ToSet(gs[b]) PROVE b = a
    <3>1. PICK i \in 1 .. Len(gs[b]) : gs[b][i] = k
      BY <1>2, <2>2
    <3>2. PICK j \in 1 .. Len(gs[a]) : gs[a][j] = k
      BY <2>1
    <3>3. ~(a < b) /\ ~(b < a)
      <4>1. ~(k < k)
        BY ListIs
      <4> QED BY <3>1, <3>2, <4>1 DEF Grouping
    <3> QED BY <1>1, <3>3
  <2>3. k \in ToSet(gs[a])
    BY <1>2, <2>1
  <2>4. X = {gs[a]}
    BY <2>2, <2>3
  <2>5. Cardinality({gs[a]}) = 1
    BY FS_Singleton
  <2> QED BY <1>3, <2>4, <2>5
<1>4. CASE ~ss[k].go
  <2>1. X = {}
    BY <1>2, <1>4 DEF Grouping
  <2> QED BY <1>4, <2>1, FS_EmptySet
<1> QED BY <1>3, <1>4

\* What PlanWhole says of the plan p.
Whole(p) ==
  LET Holds(g) == [i \in DOMAIN p.segments |->
                    IF p.segments[i].group = g THEN p.segments[i].text ELSE <<>>]
      groups == {p.segments[i].group : i \in DOMAIN p.segments}
  IN /\ Source(p.sections) = p.explicit
     /\ \A g \in groups : Join(Holds(g)) = GroupText(p.sections, g)
     /\ \A k \in DOMAIN p.sections :
          Quantify(groups, LAMBDA g : k \in ToSet(g)) = IF p.sections[k].go THEN 1 ELSE 0
     /\ \A i \in DOMAIN p.segments :
          /\ Len(p.segments[i].text) <= Available
          /\ Request(p.segments[i].text) <= Capacity

LEMMA WholeIs ==
  ASSUME NEW d \in Text, NEW p, NEW gs, NEW home, Planned(d, p, gs, home), Plannable(p)
  PROVE  Whole(p)
<1> DEFINE groups == {p.segments[i].group : i \in DOMAIN p.segments}
           ss == p.sections
<1>1. /\ ss \in Lists(Sections) /\ Source(ss) = p.explicit
      /\ Grouping(gs, ss, Len(ss)) /\ Segmented(p.segments, gs, home)
      /\ \A a \in 1 .. Len(gs) : Join(Of(p.segments, gs[a])) = GroupText(ss, gs[a])
  BY DEF Planned
<1>2. /\ p.segments \in Lists(Segs) /\ DOMAIN p.segments = 1 .. Len(p.segments)
      /\ \A i \in 1 .. Len(p.segments) : p.segments[i] \in Segs
  BY <1>1, ListIs DEF Segmented
<1>3. groups = {gs[a] : a \in 1 .. Len(gs)}
  <2>1. ASSUME NEW i \in 1 .. Len(p.segments)
        PROVE  p.segments[i].group \in {gs[a] : a \in 1 .. Len(gs)}
    BY <1>1 DEF Segmented
  <2>2. ASSUME NEW a \in 1 .. Len(gs) PROVE gs[a] \in groups
    <3>1. PICK i \in 1 .. Len(p.segments) : home[i] = a
      BY <1>1 DEF Segmented
    <3>2. p.segments[i].group = gs[a]
      BY <1>1, <3>1 DEF Segmented
    <3> QED BY <1>2, <3>2
  <2> QED BY <1>2, <2>1, <2>2
<1>4. \A g \in groups : Join(Of(p.segments, g)) = GroupText(ss, g)
  BY <1>1, <1>3
<1>5. ASSUME NEW k \in DOMAIN ss
      PROVE  Quantify(groups, LAMBDA g : k \in ToSet(g)) = IF ss[k].go THEN 1 ELSE 0
  <2>1. k \in 1 .. Len(ss)
    BY <1>1, ListIs
  <2> HIDE DEF ss
  <2>2. Cardinality({g \in {gs[a] : a \in 1 .. Len(gs)} : k \in ToSet(g)}) = IF ss[k].go THEN 1 ELSE 0
    BY <1>1, <2>1, InOneGroup
  <2> QED BY <1>3, <2>2 DEF Quantify
<1>6. ASSUME NEW i \in DOMAIN p.segments
      PROVE  Len(p.segments[i].text) <= Available /\ Request(p.segments[i].text) <= Capacity
  BY <1>2 DEF Segs, Budget
<1> HIDE DEF groups, ss
<1>7. \A g \in groups : Join([i \in DOMAIN p.segments |->
          IF p.segments[i].group = g THEN p.segments[i].text ELSE <<>>]) = GroupText(ss, g)
  BY <1>4 DEF Of
<1> QED BY <1>1, <1>5, <1>6, <1>7 DEF Whole, groups, ss

-----------------------------------------------------------------------------
(* What every state of an invocation agrees on.                            *)

\* The plan is that of the document and a refused document stays refused.
Prepared ==
  /\ source \in Sources /\ plan = Plan(source)
  /\ mode \in (IF IsJson(source) THEN {"Validated"} ELSE Modes)
  /\ status \in {"running", "refused", "done"}
  /\ status # "refused" => Plannable(plan)

LEMMA PreparedInit == Init => Prepared
<1> SUFFICES ASSUME Init PROVE Prepared
  OBVIOUS
<1>1. source \in Sources /\ plan = Plans[source] /\ mode \in (IF IsJson(source) THEN {"Validated"} ELSE Modes)
      /\ status = IF Plannable(plan) THEN "running" ELSE "refused"
  BY DEF Init
<1>2. plan = Plan(source)
  BY <1>1 DEF Plans
<1> QED BY <1>1, <1>2 DEF Prepared

LEMMA PreparedNext == Prepared /\ [Next]_vars => Prepared'
<1> SUFFICES ASSUME Prepared, [Next]_vars PROVE Prepared'
  OBVIOUS
<1>1. UNCHANGED <<source, mode, plan>> /\ (status' = status \/ (status = "running" /\ status' = "done"))
  BY DEF Next, Show, Finish, Complete, Retain, vars
<1> QED BY <1>1 DEF Prepared

THEOREM PreparedHolds == Spec => []Prepared
<1>1. Init => Prepared
  BY PreparedInit
<1>2. Prepared /\ [Next]_vars => Prepared'
  BY PreparedNext
<1> QED BY <1>1, <1>2, PTL DEF Spec

LEMMA PreparedPlan ==
  ASSUME Prepared
  PROVE  source \in Text /\ \E gs, home : Planned(source, plan, gs, home)
<1>1. source \in Text
  BY OutputAssumption DEF Prepared
<1>2. PICK d \in Text : d = source
  BY <1>1
<1>3. plan = Plan(d)
  BY <1>2 DEF Prepared
<1> QED BY <1>1, <1>2, <1>3, PlanIs

LEMMA PreparedWhole == Prepared => PlanWhole
<1> SUFFICES ASSUME Prepared, status # "refused" PROVE Whole(plan)
  BY DEF PlanWhole, Whole
<1>1. PICK gs, home : Planned(source, plan, gs, home)
  BY PreparedPlan
<1>2. source \in Text /\ Plannable(plan)
  BY PreparedPlan DEF Prepared
<1> QED BY <1>1, <1>2, WholeIs

\* A plan loses nothing: the sections hold the document, the segments of each
\* group hold it whole, every section to translate is in exactly one group, and
\* each segment keeps within its budget and its request (segmentation and
\* fitting of translate.rs), whatever the limits, the capacity and the document.
THEOREM PlanWholeHolds == Spec => []PlanWhole
<1>1. Prepared => PlanWhole
  BY PreparedWhole
<1> QED BY <1>1, PreparedHolds, PTL

-----------------------------------------------------------------------------
(* How segments lie among the sections.                                    *)

Start(p, i) == Head(p.segments[i].group)
Stop(p, i) == Last(p.segments[i].group)

\* Every segment stands for the sections from Start to Stop, which are all to be
\* translated and of its owner; segments follow the order of the sections.
Layout(p) ==
  /\ p.sections \in Lists(Sections) /\ p.segments \in Lists(Segs)
  /\ \A i \in 1 .. Len(p.segments) :
       /\ Start(p, i) \in 1 .. Len(p.sections) /\ Stop(p, i) \in 1 .. Len(p.sections)
       /\ Start(p, i) <= Stop(p, i)
       /\ ToSet(p.segments[i].group) = Start(p, i) .. Stop(p, i)
       /\ \A k \in Start(p, i) .. Stop(p, i) :
            p.sections[k].go /\ p.sections[k].para = Owner(p, i)
       /\ GroupText(p.sections, p.segments[i].group)
            = Source(SubSeq(p.sections, Start(p, i), Stop(p, i)))
  /\ \A i, j \in 1 .. Len(p.segments) : i <= j =>
       p.segments[i].group = p.segments[j].group \/ Stop(p, i) < Start(p, j)
  /\ \A k \in 1 .. Len(p.sections) : p.sections[k].go =>
       \E i \in 1 .. Len(p.segments) : k \in Start(p, i) .. Stop(p, i)

\* A group is a range of sections.
LEMMA GroupRange ==
  ASSUME NEW gs, NEW ss \in Lists(Sections), Grouping(gs, ss, Len(ss)), NEW g, NEW a \in 1 .. Len(gs), g = gs[a]
  PROVE  /\ g \in Lists(Nat) /\ Len(g) # 0 /\ Head(g) = g[1] /\ Last(g) = g[Len(g)]
         /\ Head(g) \in 1 .. Len(ss) /\ Last(g) \in 1 .. Len(ss) /\ Last(g) = Head(g) + Len(g) - 1
         /\ Head(g) <= Last(g) /\ ToSet(g) = Head(g) .. Last(g)
         /\ \A k \in Head(g) .. Last(g) : ss[k].go /\ ss[k].para = ss[Head(g)].para
         /\ GroupText(ss, g) = Source(SubSeq(ss, Head(g), Last(g)))
<1>1. /\ g \in Lists(Nat) /\ Len(g) # 0
      /\ \A j \in 1 .. Len(g) : /\ g[j] \in 1 .. Len(ss) /\ g[j] = g[1] + j - 1
                                /\ ss[g[j]].go /\ ss[g[j]].para = ss[g[1]].para
  <2>1. gs \in Lists(Lists(Nat))
    BY DEF Grouping
  <2>2. g \in Lists(Nat)
    BY <2>1, ListIs
  <2> QED BY <2>2 DEF Grouping
<1>2. DOMAIN g = 1 .. Len(g) /\ Len(g) \in Nat /\ Len(ss) \in Nat
  BY <1>1, ListIs
<1>3. Head(g) = g[1] /\ Last(g) = g[Len(g)]
  BY DEF Head, Last
<1>4. PICK h \in 1 .. Len(ss) : h = g[1]
  <2>1. 1 \in 1 .. Len(g)
    BY <1>1, <1>2
  <2> QED BY <1>1, <2>1
<1>5. PICK l \in 1 .. Len(ss) : l = g[Len(g)] /\ l = h + Len(g) - 1
  <2>1. Len(g) \in 1 .. Len(g)
    BY <1>1, <1>2
  <2> QED BY <1>1, <1>4, <2>1
<1>6. h <= l /\ h \in Nat /\ l \in Nat
  BY <1>1, <1>2, <1>5
<1>7. \A j \in 1 .. Len(g) : h + j - 1 \in h .. l /\ g[j] = h + j - 1
  BY <1>1, <1>2, <1>4, <1>5
<1>8. ASSUME NEW k \in h .. l PROVE k - h + 1 \in 1 .. Len(g) /\ g[k - h + 1] = k
  <2>1. k - h + 1 \in 1 .. Len(g)
    BY <1>2, <1>5, <1>8
  <2>2. g[k - h + 1] = h + (k - h + 1) - 1
    BY <1>7, <2>1
  <2> QED BY <2>1, <2>2
<1>9. ToSet(g) = h .. l
  <2>1. ToSet(g) = {g[j] : j \in 1 .. Len(g)}
    BY <1>2 DEF ToSet
  <2>2. \A j \in 1 .. Len(g) : g[j] \in h .. l
    BY <1>7
  <2>3. \A k \in h .. l : \E j \in 1 .. Len(g) : g[j] = k
    BY <1>8
  <2> QED BY <2>1, <2>2, <2>3
<1>10. ASSUME NEW k \in h .. l PROVE ss[k].go /\ ss[k].para = ss[h].para
  <2>1. PICK j \in 1 .. Len(g) : g[j] = k
    BY <1>8
  <2> QED BY <1>1, <1>4, <2>1
<1>11. GroupText(ss, g) = Source(SubSeq(ss, h, l))
  <2> DEFINE q == SubSeq(ss, h, l)
             ts == [i \in DOMAIN g |-> ss[g[i]].text]
             us == [i \in DOMAIN q |-> q[i].text]
  <2>1. q \in Lists(Sections) /\ Len(q) = l - h + 1 /\ \A i \in 1 .. l - h + 1 : q[i] = ss[h + i - 1]
    <3>1. 1 <= h /\ h <= l + 1 /\ l <= Len(ss)
      BY <1>6
    <3> QED BY <1>6, <3>1, SubIs
  <2>2. l - h + 1 = Len(g)
    BY <1>2, <1>5
  <2>3. DOMAIN q = 1 .. Len(g)
    BY <2>1, <2>2, ListIs
  <2>4. \A i \in 1 .. Len(g) : ts[i] = us[i]
    BY <1>2, <1>7, <2>1, <2>2, <2>3
  <2>5. ts = us
    BY <1>2, <2>3, <2>4
  <2> QED BY <2>5 DEF GroupText, Source
<1>12. /\ Head(g) = h /\ Last(g) = l
  BY <1>3, <1>4, <1>5
<1> HIDE DEF Grouping
<1> QED BY <1>1, <1>3, <1>4, <1>5, <1>6, <1>9, <1>10, <1>11, <1>12

LEMMA LayoutIs ==
  ASSUME NEW d, NEW p, NEW gs, NEW home, Planned(d, p, gs, home)
  PROVE  Layout(p)
<1> DEFINE ss == p.sections
           N == Len(p.segments)
<1>1. ss \in Lists(Sections) /\ Grouping(gs, ss, Len(ss)) /\ Segmented(p.segments, gs, home)
  BY DEF Planned
<1>2. /\ p.segments \in Lists(Segs)
      /\ \A i \in 1 .. N : home[i] \in 1 .. Len(gs) /\ p.segments[i].group = gs[home[i]]
      /\ \A i, j \in 1 .. N : i <= j => home[i] <= home[j]
      /\ \A a \in 1 .. Len(gs) : \E i \in 1 .. N : home[i] = a
  BY <1>1 DEF Segmented
<1>3. ASSUME NEW i \in 1 .. N
      PROVE  /\ Start(p, i) \in 1 .. Len(ss) /\ Stop(p, i) \in 1 .. Len(ss)
             /\ Start(p, i) <= Stop(p, i)
             /\ ToSet(p.segments[i].group) = Start(p, i) .. Stop(p, i)
             /\ \A k \in Start(p, i) .. Stop(p, i) : ss[k].go /\ ss[k].para = Owner(p, i)
             /\ GroupText(ss, p.segments[i].group) = Source(SubSeq(ss, Start(p, i), Stop(p, i)))
  <2>1. PICK a \in 1 .. Len(gs) : p.segments[i].group = gs[a]
    BY <1>2
  <2> DEFINE g == p.segments[i].group
  <2>2. g = gs[a] /\ Start(p, i) = Head(g) /\ Stop(p, i) = Last(g) /\ Owner(p, i) = ss[Head(g)].para
    BY <2>1 DEF Start, Stop, Owner
  <2> HIDE DEF g, ss
  <2>3. /\ Head(g) \in 1 .. Len(ss) /\ Last(g) \in 1 .. Len(ss)
        /\ Head(g) <= Last(g) /\ ToSet(g) = Head(g) .. Last(g)
        /\ \A k \in Head(g) .. Last(g) : ss[k].go /\ ss[k].para = ss[Head(g)].para
        /\ GroupText(ss, g) = Source(SubSeq(ss, Head(g), Last(g)))
    BY <1>1, <2>2, GroupRange
  <2> QED BY <2>2, <2>3 DEF g
<1>4. ASSUME NEW i \in 1 .. N, NEW j \in 1 .. N, i <= j
      PROVE  p.segments[i].group = p.segments[j].group \/ Stop(p, i) < Start(p, j)
  <2>1. PICK a \in 1 .. Len(gs) : a = home[i] /\ p.segments[i].group = gs[a]
    BY <1>2
  <2>2. PICK b \in 1 .. Len(gs) : b = home[j] /\ p.segments[j].group = gs[b]
    BY <1>2
  <2>3. a <= b
    BY <1>2, <1>4, <2>1, <2>2
  <2>4. CASE a = b
    BY <2>1, <2>2, <2>4
  <2>5. CASE a # b
    <3>1. a < b
      BY <2>3, <2>5
    <3>2. \A x \in 1 .. Len(gs[a]) : \A y \in 1 .. Len(gs[b]) : gs[a][x] < gs[b][y]
      BY <1>1, <3>1 DEF Grouping
    <3> DEFINE g == gs[a]
               f == gs[b]
    <3>3. /\ g \in Lists(Nat) /\ Len(g) # 0 /\ Last(g) = g[Len(g)]
          /\ f \in Lists(Nat) /\ Len(f) # 0 /\ Head(f) = f[1]
      BY SMTT(30), <1>1, GroupRange
    <3>4. Len(g) \in 1 .. Len(g) /\ 1 \in 1 .. Len(f)
      <4> HIDE DEF g, f
      <4>1. Len(g) \in Nat /\ Len(f) \in Nat
        BY <3>3, ListIs
      <4> QED BY <3>3, <4>1
    <3>5. Last(g) < Head(f)
      BY <3>2, <3>3, <3>4
    <3> QED BY <2>1, <2>2, <3>5 DEF Start, Stop
  <2> QED BY <2>4, <2>5
<1>5. ASSUME NEW k \in 1 .. Len(ss), ss[k].go
      PROVE  \E i \in 1 .. N : k \in Start(p, i) .. Stop(p, i)
  <2>1. PICK a \in 1 .. Len(gs) : \E j \in 1 .. Len(gs[a]) : gs[a][j] = k
    BY <1>1, <1>5 DEF Grouping
  <2>2. PICK i \in 1 .. N : home[i] = a
    BY <1>2
  <2>3. p.segments[i].group = gs[a]
    BY <1>2, <2>2
  <2>4. k \in ToSet(p.segments[i].group)
    <3>1. gs[a] \in Lists(Nat)
      BY <1>1, GroupRange
    <3>2. DOMAIN gs[a] = 1 .. Len(gs[a])
      BY <3>1, ListIs
    <3> QED BY <2>1, <2>3, <3>2 DEF ToSet
  <2> QED BY <1>3, <2>4
<1> QED BY <1>1, <1>2, <1>3, <1>4, <1>5 DEF Layout

\* A document that is not JSON has every paragraph together, in order.
Ordered(p, d) ==
  /\ Laid(p.sections)
  /\ \A k \in 1 .. Len(p.sections) : p.sections[k].para # 0 =>
       \E a \in Nat, b \in Nat :
         p.originals[p.sections[k].para] = <<a + 1, b>> /\ a <= b /\ b <= Len(d)

LEMMA LaidOut ==
  ASSUME Prepared
  PROVE  /\ Layout(plan) /\ source \in Text
         /\ IsJson(source) /\ status # "refused" =>
              \A i \in 1 .. Len(plan.segments) : IsJson(plan.segments[i].text)
         /\ ~IsJson(source) => Ordered(plan, source)
<1>1. source \in Text /\ (status # "refused" => Plannable(plan))
  BY PreparedPlan DEF Prepared
<1>2. PICK gs, home : Planned(source, plan, gs, home)
  BY PreparedPlan
<1>3. Layout(plan)
  BY <1>2, LayoutIs
<1>4. /\ IsJson(source) /\ Plannable(plan) =>
           \A i \in 1 .. Len(plan.segments) : plan.segments[i].text = source
      /\ ~IsJson(source) => Ordered(plan, source)
  BY <1>2 DEF Planned, Ordered
<1> QED BY <1>1, <1>3, <1>4

\* Owners come in the order of the segments, and those of one owner together.
LEMMA OwnersInOrder ==
  ASSUME NEW p, Layout(p), Laid(p.sections)
  PROVE  /\ \A i \in 1 .. Len(p.segments) : Owner(p, i) \in Nat \ {0}
         /\ \A i, j \in 1 .. Len(p.segments) : i <= j => Owner(p, i) <= Owner(p, j)
<1> DEFINE ss == p.sections
           N == Len(p.segments)
<1>1. ASSUME NEW i \in 1 .. N
      PROVE  /\ Start(p, i) \in 1 .. Len(ss) /\ Owner(p, i) = ss[Start(p, i)].para
             /\ Owner(p, i) \in Nat \ {0}
  <2>1. PICK k \in 1 .. Len(ss) : k = Start(p, i) /\ ss[k].go /\ ss[k].para = Owner(p, i)
    <3>1. /\ Start(p, i) \in 1 .. Len(ss) /\ Stop(p, i) \in 1 .. Len(ss)
          /\ Start(p, i) <= Stop(p, i)
          /\ \A k \in Start(p, i) .. Stop(p, i) : ss[k].go /\ ss[k].para = Owner(p, i)
      BY DEF Layout
    <3>2. Start(p, i) \in Start(p, i) .. Stop(p, i)
      BY <3>1
    <3> QED BY <3>1, <3>2
  <2>2. ss[k] \in Sections /\ ss[k].para # 0
    BY <2>1, ListIs DEF Layout, Laid
  <2> QED BY <2>1, <2>2 DEF Sections
<1>2. ASSUME NEW i \in 1 .. N, NEW j \in 1 .. N, i <= j
      PROVE  Owner(p, i) <= Owner(p, j)
  <2>1. p.segments[i].group = p.segments[j].group \/ Stop(p, i) < Start(p, j)
    BY <1>2 DEF Layout
  <2>2. CASE p.segments[i].group = p.segments[j].group
    <3>1. Owner(p, i) = Owner(p, j)
      BY <2>2 DEF Owner
    <3> QED BY <1>1, <3>1
  <2>3. CASE Stop(p, i) < Start(p, j)
    <3>1. PICK h \in 1 .. Len(ss), k \in 1 .. Len(ss) : h = Start(p, i) /\ k = Start(p, j)
      BY <1>1
    <3>2. h <= Stop(p, i) /\ Stop(p, i) \in 1 .. Len(ss)
      BY <3>1 DEF Layout
    <3>3. h <= k
      <4>1. h \in Int /\ k \in Int /\ Stop(p, i) \in Int
        BY <3>2
      <4> QED BY <2>3, <3>1, <3>2, <4>1
    <3>4. ss[h].para = Owner(p, i) /\ ss[k].para = Owner(p, j) /\ ss[k].para # 0
      BY <1>1, <3>1
    <3>5. ss[h].para <= ss[k].para
      BY <3>3, <3>4 DEF Laid
    <3> QED BY <3>4, <3>5
  <2> QED BY <2>1, <2>2, <2>3
<1> QED BY <1>1, <1>2

-----------------------------------------------------------------------------
(* Newlines at the end of a text.                                          *)

LEMMA GreatestNumber ==
  ASSUME NEW n \in Nat, NEW S \in SUBSET (1 .. n), S # {}
  PROVE  Max(S) \in S /\ \A y \in S : y <= Max(S)
<1> DEFINE T == {n - y : y \in S}
<1>1. T \in SUBSET Nat /\ T # {}
  <2>1. \A y \in S : n - y \in Nat
    OBVIOUS
  <2> QED BY <2>1
<1>2. PICK x \in T : \A z \in T : x <= z
  BY <1>1, LeastNumber
<1>3. PICK m \in S : x = n - m
  BY <1>2
<1>4. \A y \in S : m >= y
  <2>1. ASSUME NEW y \in S PROVE m >= y
    <3>1. n - m <= n - y
      BY <1>2, <1>3
    <3>2. m \in Int /\ y \in Int
      OBVIOUS
    <3> QED BY <3>1, <3>2
  <2> QED BY <2>1
<1>5. Max(S) \in S /\ \A y \in S : Max(S) >= y
  BY <1>4 DEF Max
<1>6. \A y \in S : y <= Max(S)
  BY <1>5
<1> QED BY <1>5, <1>6

LEMMA LeastOf ==
  ASSUME NEW S \in SUBSET Nat, S # {}
  PROVE  Min(S) \in S /\ \A y \in S : Min(S) <= y
<1>1. PICK x \in S : \A y \in S : x <= y
  BY LeastNumber
<1> QED BY <1>1 DEF Min

LEMMA GreaterOf ==
  ASSUME NEW a \in Nat, NEW b \in Nat
  PROVE  Max({a, b}) = IF a > b THEN a ELSE b
<1> DEFINE S == {a, b}
           m == IF a > b THEN a ELSE b
<1>1. m \in S /\ \A y \in S : m >= y
  OBVIOUS
<1>2. \A x \in S : (\A y \in S : x >= y) => x = m
  OBVIOUS
<1> HIDE DEF S, m
<1>3. Max(S) = m
  BY <1>1, <1>2 DEF Max
<1> QED BY <1>3 DEF S, m

\* The last k atoms of t are newlines and no more are.
Ends(t, k) ==
  /\ k \in Nat /\ k <= Len(t)
  /\ \A i \in 1 .. Len(t) : i > Len(t) - k => t[i] = "n"
  /\ k < Len(t) => t[Len(t) - k] # "n"

LEMMA EndsOnce ==
  ASSUME NEW t \in Text, NEW j, NEW k, Ends(t, j), Ends(t, k)
  PROVE  j = k
<1>1. Len(t) \in Nat
  BY RequestIs
<1>2. j \in Nat /\ k \in Nat /\ j <= Len(t) /\ k <= Len(t)
  BY DEF Ends
<1>3. ASSUME NEW a \in Nat, NEW b \in Nat, Ends(t, a), Ends(t, b), a < b PROVE FALSE
  <2>1. b <= Len(t) /\ a < Len(t)
    BY <1>1, <1>3 DEF Ends
  <2>2. Len(t) - a \in 1 .. Len(t) /\ Len(t) - a > Len(t) - b
    BY <1>1, <1>3, <2>1
  <2> QED BY <1>3, <2>1, <2>2 DEF Ends
<1>4. ~(j < k) /\ ~(k < j)
  BY <1>2, <1>3
<1> QED BY <1>2, <1>4

LEMMA TrailingIs ==
  ASSUME NEW t \in Text
  PROVE  /\ Ends(t, Trailing(t)) /\ Trailing(t) \in Nat /\ Trailing(t) <= Len(t)
<1> DEFINE I == {i \in 1 .. Len(t) : t[i] # "n"}
           m == IF I # {} THEN Max(I) ELSE 0
<1>1. PICK n \in Nat : n = Len(t)
  BY RequestIs
<1>2. Trailing(t) = n - m
  BY <1>1 DEF Trailing, SelectLastInSeq
<1>3. m \in 0 .. n /\ (\A i \in 1 .. n : i > m => t[i] = "n") /\ (m # 0 => t[m] # "n")
  <2>1. CASE I = {}
    BY <1>1, <2>1
  <2>2. CASE I # {}
    <3>1. I \in SUBSET (1 .. n)
      BY <1>1
    <3>2. Max(I) \in I /\ \A y \in I : y <= Max(I)
      <4> HIDE DEF I
      <4> QED BY <2>2, <3>1, GreatestNumber
    <3>3. m = Max(I)
      BY <2>2
    <3>4. m \in 1 .. n /\ t[m] # "n"
      BY <1>1, <3>2, <3>3
    <3>5. ASSUME NEW i \in 1 .. n, i > m PROVE t[i] = "n"
      <4>1. i \notin I
        BY <3>2, <3>3, <3>4, <3>5
      <4> QED BY <1>1, <4>1
    <3> HIDE DEF m
    <3> QED BY <3>4, <3>5
  <2> QED BY <2>1, <2>2
<1> HIDE DEF m
<1>4. n - m \in Nat /\ n - m <= n /\ n - (n - m) = m
  BY <1>3
<1>5. Ends(t, n - m)
  BY <1>1, <1>3, <1>4 DEF Ends
<1> QED BY <1>1, <1>2, <1>4, <1>5

\* A concatenation ends as its second part does, and also as the first one does
\* when the second is all newlines.
LEMMA TrailingConcat ==
  ASSUME NEW a \in Text, NEW b \in Text
  PROVE  /\ a \o b \in Text /\ Len(a \o b) = Len(a) + Len(b)
         /\ Trailing(b) < Len(b) => Trailing(a \o b) = Trailing(b)
         /\ Trailing(b) = Len(b) => Trailing(a \o b) = Len(b) + Trailing(a)
         /\ Trailing(b) <= Trailing(a \o b)
<1> DEFINE c == a \o b
<1>1. /\ c \in Text /\ Len(c) = Len(a) + Len(b) /\ Len(a) \in Nat /\ Len(b) \in Nat
      /\ \A i \in 1 .. Len(a) : c[i] = a[i]
      /\ \A i \in Len(a) + 1 .. Len(a) + Len(b) : c[i] = b[i - Len(a)]
  <2>1. a \in Lists(Atom) /\ b \in Lists(Atom) /\ Len(a) \in Nat /\ Len(b) \in Nat
    BY TextIs, RequestIs
  <2>2. /\ a \o b \in Lists(Atom) /\ Len(a \o b) = Len(a) + Len(b)
        /\ \A i \in 1 .. Len(a) : (a \o b)[i] = a[i]
        /\ \A i \in Len(a) + 1 .. Len(a) + Len(b) : (a \o b)[i] = b[i - Len(a)]
    BY <2>1, ConcatIs
  <2> QED BY <2>1, <2>2, TextIs
<1> HIDE DEF c
<1>2. PICK m \in Nat, n \in Nat : m = Len(a) /\ n = Len(b) /\ Len(c) = m + n
  BY <1>1
<1>3. PICK x \in Nat, y \in Nat : x = Trailing(a) /\ y = Trailing(b) /\ x <= m /\ y <= n
  BY <1>2, TrailingIs
<1>4. /\ \A i \in 1 .. m : i > m - x => a[i] = "n"
      /\ x < m => a[m - x] # "n"
      /\ \A i \in 1 .. n : i > n - y => b[i] = "n"
      /\ y < n => b[n - y] # "n"
  BY <1>2, <1>3, TrailingIs DEF Ends
<1>5. CASE y < n
  <2>1. \A i \in 1 .. m + n : i > m + n - y => c[i] = "n"
    <3>1. ASSUME NEW i \in 1 .. m + n, i > m + n - y PROVE c[i] = "n"
      <4>1. i \in m + 1 .. m + n /\ i - m \in 1 .. n /\ i - m > n - y
        BY <1>3, <1>5, <3>1
      <4> QED BY <1>1, <1>2, <1>4, <4>1
    <3> QED BY <3>1
  <2>2. c[m + n - y] # "n"
    <3>1. m + n - y \in m + 1 .. m + n /\ m + n - y - m = n - y
      BY <1>3, <1>5
    <3> QED BY SMTT(30), <1>1, <1>2, <1>4, <1>5, <3>1
  <2>3. y <= m + n
    BY <1>3
  <2>4. Ends(c, y)
    BY <1>2, <1>3, <2>1, <2>2, <2>3 DEF Ends
  <2>5. Trailing(c) = y
    BY <1>1, <2>4, TrailingIs, EndsOnce
  <2> QED BY <1>1, <1>2, <1>3, <1>5, <2>5 DEF c
<1>6. CASE y = n
  <2>1. \A i \in 1 .. m + n : i > m - x => c[i] = "n"
    <3>1. ASSUME NEW i \in 1 .. m + n, i > m - x PROVE c[i] = "n"
      <4>1. CASE i <= m
        BY <1>1, <1>2, <1>4, <3>1, <4>1
      <4>2. CASE i > m
        <5>1. i \in m + 1 .. m + n /\ i - m \in 1 .. n /\ i - m > n - y
          BY <1>6, <4>2
        <5> QED BY <1>1, <1>2, <1>4, <5>1
      <4> QED BY <4>1, <4>2
    <3> QED BY <3>1
  <2>2. x < m => c[m - x] # "n"
    <3>1. ASSUME x < m PROVE c[m - x] # "n"
      <4>1. m - x \in 1 .. m
        BY <1>3, <3>1
      <4> QED BY <1>1, <1>2, <1>4, <3>1, <4>1
    <3> QED BY <3>1
  <2>3. n + x <= m + n /\ m + n - (n + x) = m - x /\ n + x \in Nat /\ (n + x < m + n => x < m)
    BY <1>3
  <2>4. Ends(c, n + x)
    BY <1>2, <2>1, <2>2, <2>3 DEF Ends
  <2>5. Trailing(c) = n + x
    BY <1>1, <2>4, TrailingIs, EndsOnce
  <2> QED BY <1>1, <1>2, <1>3, <1>6, <2>5 DEF c
<1> QED BY <1>3, <1>5, <1>6

LEMMA NewlinesAre ==
  ASSUME NEW k \in Nat
  PROVE  /\ Newlines(k) \in Text /\ Len(Newlines(k)) = k /\ Trailing(Newlines(k)) = k
         /\ Newlines(0) = <<>>
<1> DEFINE t == Newlines(k)
<1>1. t = [i \in 1 .. k |-> t[i]] /\ \A i \in 1 .. k : t[i] = "n"
  BY DEF Newlines
<1> HIDE DEF t
<1>2. "n" \in Atom
  BY DEF Atom
<1>3. t \in Text /\ Len(t) = k
  BY <1>1, <1>2, ListOf, TextIs
<1>4. Ends(t, k)
  BY <1>1, <1>3 DEF Ends
<1>5. Trailing(t) = k
  BY <1>3, <1>4, TrailingIs, EndsOnce
<1>6. Newlines(0) = <<>>
  BY DEF Newlines
<1> QED BY <1>3, <1>5, <1>6 DEF t

LEMMA RestoredIs ==
  ASSUME NEW t \in Text, NEW original \in Text
  PROVE  /\ Restored(t, original) \in Text /\ Deficit(t, original) \in Nat
         /\ Trailing(Restored(t, original))
              = IF Trailing(original) > Trailing(t) THEN Trailing(original) ELSE Trailing(t)
         /\ Trailing(original) <= Trailing(t) => Restored(t, original) = t
<1>1. Trailing(t) \in Nat /\ Trailing(original) \in Nat
  BY TrailingIs
<1>2. PICK k \in Nat : k = Deficit(t, original)
  BY <1>1 DEF Deficit, Monus
<1>3. Restored(t, original) = t \o Newlines(k)
  BY <1>2 DEF Restored
<1>4. PICK b \in Text : b = Newlines(k) /\ Len(b) = k /\ Trailing(b) = k
  BY NewlinesAre
<1>5. t \o b \in Text /\ Trailing(t \o b) = k + Trailing(t)
  <2>1. t \o b \in Text /\ (Trailing(b) = Len(b) => Trailing(t \o b) = Len(b) + Trailing(t))
    BY TrailingConcat
  <2> QED BY <1>4, <2>1
<1>6. k = IF Trailing(original) > Trailing(t) THEN Trailing(original) - Trailing(t) ELSE 0
  BY <1>2 DEF Deficit, Monus
<1>7. k = 0 => t \o Newlines(k) = t
  <2>1. t \o <<>> = t
    BY ConcatNone, TextIs
  <2> QED BY <2>1, NewlinesAre
<1> QED BY <1>1, <1>2, <1>3, <1>4, <1>5, <1>6, <1>7

-----------------------------------------------------------------------------
(* Publishing segments.                                                    *)

Indexes(p) == 1 .. Len(p.segments)
Lasts(p) == 0 .. Len(p.segments)

\* The texts of the segments of p, some of them still to come.
Given(p, texts) == texts \in Lists(Text \cup {NoText}) /\ Len(texts) = Len(p.segments)

LEMMA GivenAt ==
  ASSUME NEW p, NEW texts, Given(p, texts)
  PROVE  /\ Len(texts) = Len(p.segments) /\ Len(texts) \in Nat /\ DOMAIN texts = 1 .. Len(texts)
         /\ \A i \in 1 .. Len(texts) : texts[i] \in Text \cup {NoText} /\ (texts[i] # NoText => texts[i] \in Text)
<1>1. Len(texts) \in Nat /\ DOMAIN texts = 1 .. Len(texts) /\ \A i \in 1 .. Len(texts) : texts[i] \in Text \cup {NoText}
  BY ListIs DEF Given
<1> QED BY <1>1 DEF Given

LEMMA SegmentAt ==
  ASSUME NEW p, Layout(p), NEW i \in 1 .. Len(p.segments)
  PROVE  /\ p.segments[i].text \in Text /\ Start(p, i) \in 1 .. Len(p.sections)
         /\ Stop(p, i) \in 1 .. Len(p.sections) /\ Start(p, i) <= Stop(p, i)
         /\ GroupText(p.sections, p.segments[i].group) \in Text
         /\ GroupText(p.sections, p.segments[i].group) = Source(SubSeq(p.sections, Start(p, i), Stop(p, i)))
         /\ Len(p.segments) \in Nat /\ Len(p.sections) \in Nat
<1>1. /\ Start(p, i) \in 1 .. Len(p.sections) /\ Stop(p, i) \in 1 .. Len(p.sections)
      /\ Start(p, i) <= Stop(p, i)
      /\ GroupText(p.sections, p.segments[i].group) = Source(SubSeq(p.sections, Start(p, i), Stop(p, i)))
  BY DEF Layout
<1>2. p.segments[i] \in Segs /\ Len(p.segments) \in Nat /\ Len(p.sections) \in Nat /\ p.sections \in Lists(Sections)
  BY ListIs DEF Layout
<1>3. p.segments[i].text \in Text
  BY <1>2 DEF Segs, Budget
<1>4. PICK m \in 1 .. Len(p.sections), k \in 1 .. Len(p.sections) :
         m = Start(p, i) /\ k = Stop(p, i) /\ m <= k
  BY <1>1
<1>5. SubSeq(p.sections, m, k) \in Lists(Sections)
  <2>1. 1 <= m /\ m <= k + 1 /\ k <= Len(p.sections) /\ m \in Nat /\ k \in Nat
    BY <1>2, <1>4
  <2> QED BY <1>2, <2>1, SubIs
<1>6. Source(SubSeq(p.sections, m, k)) \in Text
  BY <1>5, TextsAre
<1> QED BY <1>1, <1>2, <1>3, <1>4, <1>6

\* What the text published for segment i must end like.
Wanted(p, i) ==
  IF i < Len(p.segments) /\ p.segments[i + 1].group = p.segments[i].group
  THEN p.segments[i].text ELSE GroupText(p.sections, p.segments[i].group)

LEMMA WantedIs ==
  ASSUME NEW p, Layout(p), NEW i \in 1 .. Len(p.segments)
  PROVE  Wanted(p, i) \in Text /\ Trailing(Wanted(p, i)) \in Nat
<1>1. Wanted(p, i) \in Text
  BY SegmentAt DEF Wanted
<1> QED BY <1>1, TrailingIs

\* The texts of the first i segments are there.
Answered(texts, i) == \A j \in 1 .. i : texts[j] \in Text

Looks == [trailing : Nat, restored : Nat, over : BOOLEAN]

Looked(p, texts, i, required, acc, k) ==
  LET j == i + 1 - k
      known == IF j < i THEN Max({acc.restored, acc.trailing + Trailing(p.segments[j].text)})
               ELSE acc.restored
      trailing == acc.trailing + Trailing(texts[j])
  IN IF acc.over \/ p.segments[j].group # p.segments[i].group THEN acc
     ELSE IF known >= required THEN [acc EXCEPT !.restored = known, !.over = TRUE]
     ELSE [trailing |-> trailing, restored |-> known,
           over |-> trailing >= required \/ Trailing(texts[j]) < Len(texts[j])]

LEMMA LookedIs ==
  ASSUME NEW p, Layout(p), NEW texts, NEW i \in 1 .. Len(p.segments),
         Answered(texts, i), NEW required \in Nat, NEW acc \in Looks, NEW k \in 1 .. i
  PROVE  Looked(p, texts, i, required, acc, k) \in Looks
<1>1. PICK j \in 1 .. i : j = i + 1 - k /\ j \in 1 .. Len(p.segments)
  <2>1. i \in Nat /\ Len(p.segments) \in Nat
    BY SegmentAt
  <2>2. i + 1 - k \in 1 .. i
    BY <2>1
  <2>3. \A x \in 1 .. i : x \in 1 .. Len(p.segments)
    BY <2>1
  <2> QED BY <2>2, <2>3
<1>2. p.segments[j].text \in Text /\ texts[j] \in Text
  BY <1>1, SegmentAt DEF Answered
<1>3. PICK r \in Nat, s \in Nat : r = Trailing(p.segments[j].text) /\ s = Trailing(texts[j])
  BY <1>2, TrailingIs
<1>4. PICK x \in Nat, y \in Nat : x = acc.trailing /\ y = acc.restored
  BY DEF Looks
<1>5. x + r \in Nat /\ x + s \in Nat
  OBVIOUS
<1>6. Max({y, x + r}) \in Nat
  BY <1>5, GreaterOf
<1> DEFINE known == IF j < i THEN Max({y, x + r}) ELSE y
           over == x + s >= required \/ s < Len(texts[j])
<1>7. Looked(p, texts, i, required, acc, k) =
        IF acc.over \/ p.segments[j].group # p.segments[i].group THEN acc
        ELSE IF known >= required THEN [acc EXCEPT !.restored = known, !.over = TRUE]
        ELSE [trailing |-> x + s, restored |-> known, over |-> over]
  BY <1>1, <1>3, <1>4 DEF Looked
<1>8. known \in Nat /\ over \in BOOLEAN
  BY <1>6
<1> HIDE DEF known, over
<1>9. [acc EXCEPT !.restored = known, !.over = TRUE] \in Looks
  BY <1>8 DEF Looks
<1>10. [trailing |-> x + s, restored |-> known, over |-> over] \in Looks
  BY <1>5, <1>8 DEF Looks
<1> QED BY <1>7, <1>9, <1>10


Scan(p, texts, i, required, f) ==
  /\ \A k \in 0 .. i : f[k] \in Looks
  /\ f[0] = [trailing |-> 0, restored |-> 0, over |-> FALSE]
  /\ Missing(p, texts, i, required) = Monus(required, Max({f[i].trailing, f[i].restored}))
  /\ \A k \in 1 .. i : f[k] = Looked(p, texts, i, required, f[k - 1], k)

\* The scan backwards over the group of segment i.
LEMMA MissingLoop ==
  ASSUME NEW p, Layout(p), NEW texts, NEW i \in Indexes(p),
         Answered(texts, i), NEW required \in Nat
  PROVE  \E f : Scan(p, texts, i, required, f)
<1> DEFINE n == i
           T == Looks
           x == [trailing |-> 0, restored |-> 0, over |-> FALSE]
           F == [k \in 1 .. n |-> [a \in T |-> Looked(p, texts, i, required, a, k)]]
           Loops(g) == g = [k \in 0 .. n |-> IF k = 0 THEN [trailing |-> 0, restored |-> 0, over |-> FALSE] ELSE
                              LET j == i + 1 - k
                                known == IF j < i THEN Max({g[k-1].restored, g[k-1].trailing + Trailing(p.segments[j].text)})
                                         ELSE g[k-1].restored
                                trailing == g[k-1].trailing + Trailing(texts[j])
                            IN IF g[k-1].over \/ p.segments[j].group # p.segments[i].group THEN g[k-1]
                               ELSE IF known >= required THEN [g[k-1] EXCEPT !.restored = known, !.over = TRUE]
                               ELSE [trailing |-> trailing, restored |-> known,
                                     over |-> trailing >= required \/ Trailing(texts[j]) < Len(texts[j])]]
<1>1. n \in Nat /\ x \in T
  <2>1. i \in Nat
    BY SegmentAt DEF Indexes
  <2> QED BY <2>1 DEF Looks
<1>2. F \in [1 .. n -> [T -> T]]
  <2>1. ASSUME NEW k \in 1 .. n, NEW a \in T PROVE Looked(p, texts, i, required, a, k) \in T
    BY LookedIs DEF Indexes
  <2> HIDE DEF T, n
  <2> QED BY <2>1
<1> HIDE DEF T, n, x
<1>3. PICK f : /\ \A k \in 0 .. n : f[k] \in T
               /\ f[0] = x /\ \A k \in 1 .. n : f[k] = F[k][f[k - 1]]
  <2> HIDE DEF F, Loops
  <2>1. n \in Nat /\ x \in T /\ F \in [1 .. n -> [T -> T]]
    BY <1>1, <1>2
  <2> QED BY <2>1, LoopExists
<1>4. ASSUME NEW k \in 1 .. n PROVE f[k] = Looked(p, texts, i, required, f[k - 1], k)
  <2>1. k - 1 \in 0 .. n
    BY <1>1
  <2>2. f[k - 1] \in T
    BY <1>3, <2>1
  <2>3. F[k][f[k - 1]] = Looked(p, texts, i, required, f[k - 1], k)
    BY <2>2
  <2> QED BY <1>3, <2>3
<1> HIDE DEF F
<1> DEFINE h == [k \in 0 .. n |-> f[k]]
           g == CHOOSE g : Loops(g)
<1>5. Loops(h)
  <2>1. ASSUME NEW k \in 0 .. n
        PROVE  h[k] = IF k = 0 THEN [trailing |-> 0, restored |-> 0, over |-> FALSE] ELSE
                        LET j == i + 1 - k
                                known == IF j < i THEN Max({h[k-1].restored, h[k-1].trailing + Trailing(p.segments[j].text)})
                                         ELSE h[k-1].restored
                                trailing == h[k-1].trailing + Trailing(texts[j])
                            IN IF h[k-1].over \/ p.segments[j].group # p.segments[i].group THEN h[k-1]
                               ELSE IF known >= required THEN [h[k-1] EXCEPT !.restored = known, !.over = TRUE]
                               ELSE [trailing |-> trailing, restored |-> known,
                                     over |-> trailing >= required \/ Trailing(texts[j]) < Len(texts[j])]
    <3>1. CASE k = 0
      BY <1>3, <3>1 DEF x
    <3>2. CASE k # 0
      <4>1. k \in 1 .. n /\ h[k] = f[k] /\ h[k-1] = f[k-1]
        BY <1>1, <3>2
      <4>2. h[k] = Looked(p, texts, i, required, h[k - 1], k)
        BY <1>4, <4>1
      <4> HIDE DEF h
      <4> QED BY <3>2, <4>2 DEF Looked
    <3> QED BY <3>1, <3>2
  <2> QED BY <2>1
<1>6. Loops(g)
  <2> HIDE DEF Loops, h
  <2> QED BY <1>5
<1>7. Missing(p, texts, i, required) = Monus(required, Max({g[n].trailing, g[n].restored}))
  BY DEF Missing, Loop, n
<1> HIDE DEF g
<1>8. ASSUME NEW k \in 0 .. n
      PROVE  g[k] = IF k = 0 THEN [trailing |-> 0, restored |-> 0, over |-> FALSE] ELSE Looked(p, texts, i, required, g[k - 1], k)
  <2>1. g[k] = IF k = 0 THEN [trailing |-> 0, restored |-> 0, over |-> FALSE] ELSE
                 LET j == i + 1 - k
                                known == IF j < i THEN Max({g[k-1].restored, g[k-1].trailing + Trailing(p.segments[j].text)})
                                         ELSE g[k-1].restored
                                trailing == g[k-1].trailing + Trailing(texts[j])
                            IN IF g[k-1].over \/ p.segments[j].group # p.segments[i].group THEN g[k-1]
                               ELSE IF known >= required THEN [g[k-1] EXCEPT !.restored = known, !.over = TRUE]
                               ELSE [trailing |-> trailing, restored |-> known,
                                     over |-> trailing >= required \/ Trailing(texts[j]) < Len(texts[j])]
    BY <1>6
  <2> QED BY <2>1 DEF Looked
<1> HIDE DEF Loops
<1>9. ASSUME NEW k \in 1 .. n, g[k - 1] = f[k - 1] PROVE g[k] = f[k]
  <2>1. k \in 0 .. n /\ k # 0
    BY <1>1
  <2> QED BY <1>4, <1>8, <1>9, <2>1
<1>10. g[0] = f[0]
  BY <1>1, <1>3, <1>8 DEF x
<1>11. \A k \in 0 .. n : g[k] = f[k]
  BY <1>1, <1>9, <1>10, LoopUnique
<1>12. Missing(p, texts, i, required) = Monus(required, Max({f[n].trailing, f[n].restored}))
  BY <1>1, <1>7, <1>11
<1>13. \A k \in 1 .. n : f[k] = Looked(p, texts, i, required, f[k - 1], k)
  BY <1>4
<1>14. Scan(p, texts, i, required, f)
  BY <1>3, <1>12, <1>13 DEF n, T, x, Scan
<1> QED BY <1>14

LEMMA MissingType ==
  ASSUME NEW p, Layout(p), NEW texts, NEW i \in Indexes(p),
         Answered(texts, i), NEW required \in Nat
  PROVE  Missing(p, texts, i, required) \in Nat
<1>1. PICK f : Scan(p, texts, i, required, f)
  BY MissingLoop
<1>2. f[i] \in Looks
  <2>1. i \in 0 .. i
    BY SegmentAt DEF Indexes
  <2> QED BY <1>1, <2>1 DEF Scan
<1>3. PICK a \in Nat, b \in Nat : a = f[i].trailing /\ b = f[i].restored
  BY <1>2 DEF Looks
<1>4. Max({a, b}) \in Nat
  BY GreaterOf
<1> QED BY <1>1, <1>3, <1>4 DEF Monus, Scan

Ready(texts, i) == \A j \in 1 .. i : texts[j] # NoText

LEMMA NewlineAfterIs ==
  ASSUME NEW p, Layout(p), NEW texts, NEW i \in 1 .. Len(p.segments),
         Given(p, texts), Ready(texts, i)
  PROVE  /\ NewlineAfter(p, texts, i) = Newlines(Missing(p, texts, i, Trailing(Wanted(p, i))))
         /\ NewlineAfter(p, texts, i) \in Text
<1> DEFINE required == Trailing(Wanted(p, i))
<1>0. i \in Indexes(p)
  BY DEF Indexes
<1>1. required \in Nat
  BY WantedIs
<1>2. Answered(texts, i)
  <2>1. \A j \in 1 .. i : j \in 1 .. Len(texts)
    BY GivenAt
  <2> QED BY <2>1, GivenAt DEF Answered, Ready
<1>3. NewlineAfter(p, texts, i) =
        IF required = 0 THEN <<>> ELSE Newlines(Missing(p, texts, i, required))
  BY DEF NewlineAfter, Wanted
<1> HIDE DEF required
<1>4. Missing(p, texts, i, required) \in Nat
  BY <1>0, <1>1, <1>2, MissingType
<1>5. Newlines(Missing(p, texts, i, required)) \in Text
  BY <1>4, NewlinesAre
<1>6. CASE required = 0
  <2>1. PICK m \in Nat : m = Missing(p, texts, i, required)
    BY <1>4
  <2>2. m = 0
    <3>1. PICK f : Scan(p, texts, i, required, f)
      BY <1>0, <1>1, <1>2, MissingLoop
    <3>2. f[i] \in Looks
      <4>1. i \in 0 .. i
        BY SegmentAt
      <4> QED BY <3>1, <4>1 DEF Scan
    <3>3. PICK a \in Nat, b \in Nat : a = f[i].trailing /\ b = f[i].restored
      BY <3>2 DEF Looks
    <3>4. Max({a, b}) \in Nat
      BY GreaterOf
    <3> QED BY <1>6, <2>1, <3>1, <3>3, <3>4 DEF Monus, Scan
  <2>3. Newlines(0) = <<>>
    BY NewlinesAre
  <2> QED BY <1>3, <1>5, <1>6, <2>1, <2>2, <2>3 DEF required
<1>7. CASE required # 0
  BY <1>3, <1>5, <1>7 DEF required
<1> QED BY <1>6, <1>7

\* A stream over the sections and segments of p that has published what is there.
Streams(p, texts) ==
  {st \in [out : Text, seg : 1 .. Len(p.segments) + 1, sec : 1 .. Len(p.sections) + 1,
           end : Nat, ready : Nat, shown : Text \cup {NoText}] :
     \A j \in 1 .. st.seg - 1 : texts[j] # NoText}

LEMMA SectionsOfIs ==
  ASSUME NEW p, p.sections \in Lists(Sections), NEW m \in 1 .. Len(p.sections) + 1, NEW k \in Nat,
         m <= k + 1, k <= Len(p.sections)
  PROVE  SectionsOf(p, m, k) \in Text
<1>1. Len(p.sections) \in Nat
  BY ListIs
<1>2. SubSeq(p.sections, m, k) \in Lists(Sections)
  <2>1. 1 <= m /\ m \in Nat
    BY <1>1
  <2> QED BY <2>1, SubIs
<1> QED BY <1>2, TextsAre DEF SectionsOf

LEMMA BeforeIs ==
  ASSUME NEW p, Layout(p), NEW i \in 1 .. Len(p.segments), NEW sec \in 1 .. Len(p.sections) + 1
  PROVE  /\ Before(p, i, sec).text \in Text /\ Before(p, i, sec).sec \in 1 .. Len(p.sections) + 1
         /\ Start(p, i) < sec => Before(p, i, sec) = [text |-> <<>>, sec |-> sec]
         /\ ~(Start(p, i) < sec) =>
              Before(p, i, sec) = [text |-> SectionsOf(p, sec, Start(p, i) - 1), sec |-> Stop(p, i) + 1]
<1>1. PICK h \in 1 .. Len(p.sections), l \in 1 .. Len(p.sections) : h = Start(p, i) /\ l = Stop(p, i)
  BY SegmentAt
<1>2. Len(p.sections) \in Nat /\ p.sections \in Lists(Sections)
  BY SegmentAt DEF Layout
<1>3. Before(p, i, sec) = IF h < sec THEN [text |-> <<>>, sec |-> sec]
                          ELSE [text |-> SectionsOf(p, sec, h - 1), sec |-> l + 1]
  BY <1>1 DEF Before, Start, Stop
<1>4. ~(h < sec) => SectionsOf(p, sec, h - 1) \in Text
  <2>1. ASSUME ~(h < sec) PROVE SectionsOf(p, sec, h - 1) \in Text
    <3>1. PICK k \in Nat : k = h - 1
      BY <1>2
    <3>2. sec <= k + 1 /\ k <= Len(p.sections)
      BY <1>2, <2>1, <3>1
    <3> QED BY <1>2, <3>1, <3>2, SectionsOfIs
  <2> QED BY <2>1
<1>5. <<>> \in Text
  BY RequestEmpty
<1>6. l + 1 \in 1 .. Len(p.sections) + 1
  BY <1>2
<1> QED BY <1>1, <1>3, <1>4, <1>5, <1>6

\* What publishing the segment that is next does to a stream, if it does.
Emitted(p, texts, st, last, e) ==
  /\ e \in Streams(p, texts)
  /\ e.end = st.end /\ e.ready = st.ready /\ e.shown = st.shown
  /\ (st.seg > last \/ texts[st.seg] = NoText) => e = st
  /\ ~(st.seg > last \/ texts[st.seg] = NoText) =>
       /\ st.seg \in 1 .. Len(p.segments) /\ e.seg = st.seg + 1
       /\ e.sec = Before(p, st.seg, st.sec).sec
       /\ e.out = ((st.out \o Before(p, st.seg, st.sec).text) \o texts[st.seg])
                   \o NewlineAfter(p, texts, st.seg)

LEMMA EmitIs ==
  ASSUME NEW p, Layout(p), NEW texts, Given(p, texts), NEW st \in Streams(p, texts),
         NEW last \in Lasts(p)
  PROVE  Emitted(p, texts, st, last, Emit(p, texts, st, last))
<1> DEFINE e == Emit(p, texts, st, last)
           N == Len(p.segments)
<1>1. /\ st.out \in Text /\ st.seg \in 1 .. N + 1 /\ st.sec \in 1 .. Len(p.sections) + 1
      /\ \A j \in 1 .. st.seg - 1 : texts[j] # NoText
  BY DEF Streams
<1>2. N \in Nat /\ Len(texts) = N /\ last \in 0 .. N
  BY GivenAt DEF Lasts
<1>3. CASE st.seg > last \/ texts[st.seg] = NoText
  <2>1. e = st
    BY <1>3 DEF Emit
  <2> QED BY <1>3, <2>1 DEF Emitted
<1>4. CASE ~(st.seg > last \/ texts[st.seg] = NoText)
  <2>1. PICK i \in 1 .. N : i = st.seg
    BY <1>1, <1>2, <1>4
  <2>2. PICK s \in 1 .. Len(p.sections) + 1 : s = st.sec
    BY <1>1
  <2>3. texts[i] \in Text
    BY <1>2, <1>4, <2>1, GivenAt
  <2>4. Ready(texts, i)
    <3>1. ASSUME NEW j \in 1 .. i PROVE texts[j] # NoText
      <4>1. j = i \/ j \in 1 .. i - 1
        OBVIOUS
      <4> QED BY <1>1, <1>4, <2>1, <4>1
    <3> QED BY <3>1 DEF Ready
  <2>5. NewlineAfter(p, texts, i) \in Text
    BY <2>4, NewlineAfterIs
  <2>6. Before(p, i, s).text \in Text /\ Before(p, i, s).sec \in 1 .. Len(p.sections) + 1
    BY BeforeIs
  <2> DEFINE a == st.out
             b == Before(p, i, s).text
             c == texts[i]
             d == NewlineAfter(p, texts, i)
             z == Before(p, i, s).sec
             x == a \o b \o c \o d
  <2>7. e = [st EXCEPT !.out = x, !.sec = z, !.seg = i + 1]
    BY <1>4, <2>1, <2>2 DEF Emit
  <2>8. x \in Text /\ x = ((a \o b) \o c) \o d
    <3>1. a \in Text /\ b \in Text /\ c \in Text /\ d \in Text
      BY <1>1, <2>3, <2>5, <2>6
    <3> HIDE DEF a, b, c, d
    <3>2. a \o b \in Text
      BY <3>1, TrailingConcat
    <3>3. (a \o b) \o c \in Text
      BY <3>1, <3>2, TrailingConcat
    <3> QED BY <3>1, <3>3, TrailingConcat
  <2>9. z \in 1 .. Len(p.sections) + 1
    BY <2>6
  <2>10. i + 1 \in 1 .. N + 1
    BY <1>2
  <2>11. \A j \in 1 .. i + 1 - 1 : texts[j] # NoText
    BY <2>4 DEF Ready
  <2> HIDE DEF e, x, z
  <2> DEFINE R == [out : Text, seg : 1 .. N + 1, sec : 1 .. Len(p.sections) + 1,
                   end : Nat, ready : Nat, shown : Text \cup {NoText}]
  <2>14. st \in R
    BY DEF Streams
  <2>15. /\ e.seg = i + 1 /\ e.sec = z /\ e.out = x
         /\ e.end = st.end /\ e.ready = st.ready /\ e.shown = st.shown /\ e \in R
    <3> HIDE DEF N
    <3> QED BY <2>7, <2>8, <2>9, <2>10, <2>14
  <2>16. \A j \in 1 .. e.seg - 1 : texts[j] # NoText
    <3> HIDE DEF R
    <3> QED BY <2>11, <2>15
  <2>12. e \in Streams(p, texts) /\ e.seg = i + 1 /\ e.sec = z /\ e.out = x
         /\ e.end = st.end /\ e.ready = st.ready /\ e.shown = st.shown
    BY <2>15, <2>16 DEF Streams
  <2>13. e.out = ((st.out \o Before(p, st.seg, st.sec).text) \o texts[st.seg])
                             \o NewlineAfter(p, texts, st.seg)
    BY <2>1, <2>2, <2>8, <2>12
  <2> QED BY <1>4, <2>1, <2>2, <2>12, <2>13 DEF e, z, Emitted
<1> QED BY <1>3, <1>4

\* Publishing by the loop over the segments.
LEMMA FlushPrefixLoop ==
  ASSUME NEW p, Layout(p), NEW texts, Given(p, texts), NEW st \in Streams(p, texts),
         NEW last \in Lasts(p)
  PROVE  \E f : /\ \A k \in 0 .. Len(texts) : f[k] \in Streams(p, texts)
                /\ f[0] = st /\ FlushPrefix(p, texts, st, last) = f[Len(texts)]
                /\ \A k \in 1 .. Len(texts) : f[k] = Emit(p, texts, f[k - 1], last)
<1> DEFINE n == Len(texts)
           T == Streams(p, texts)
           x == st
           F == [k \in 1 .. n |-> [a \in T |-> Emit(p, texts, a, last)]]
           Loops(g) == g = [k \in 0 .. n |-> IF k = 0 THEN st ELSE
                              Emit(p, texts, g[k-1], last)]
<1>1. n \in Nat /\ x \in T
  BY GivenAt
<1>2. F \in [1 .. n -> [T -> T]]
  <2>1. ASSUME NEW k \in 1 .. n, NEW a \in T PROVE Emit(p, texts, a, last) \in T
    BY EmitIs DEF Emitted
  <2> HIDE DEF T, n
  <2> QED BY <2>1
<1> HIDE DEF T, n, x
<1>3. PICK f : /\ \A k \in 0 .. n : f[k] \in T
               /\ f[0] = x /\ \A k \in 1 .. n : f[k] = F[k][f[k - 1]]
  <2> HIDE DEF F, Loops
  <2>1. n \in Nat /\ x \in T /\ F \in [1 .. n -> [T -> T]]
    BY <1>1, <1>2
  <2> QED BY <2>1, LoopExists
<1>4. ASSUME NEW k \in 1 .. n PROVE f[k] = Emit(p, texts, f[k - 1], last)
  <2>1. k - 1 \in 0 .. n
    BY <1>1
  <2>2. f[k - 1] \in T
    BY <1>3, <2>1
  <2>3. F[k][f[k - 1]] = Emit(p, texts, f[k - 1], last)
    BY <2>2
  <2> QED BY <1>3, <2>3
<1> HIDE DEF F
<1> DEFINE h == [k \in 0 .. n |-> f[k]]
           g == CHOOSE g : Loops(g)
<1>5. Loops(h)
  <2>1. ASSUME NEW k \in 0 .. n
        PROVE  h[k] = IF k = 0 THEN st ELSE
                        Emit(p, texts, h[k-1], last)
    <3>1. CASE k = 0
      BY <1>3, <3>1 DEF x
    <3>2. CASE k # 0
      <4>1. k \in 1 .. n /\ h[k] = f[k] /\ h[k-1] = f[k-1]
        BY <1>1, <3>2
      <4>2. h[k] = Emit(p, texts, h[k - 1], last)
        BY <1>4, <4>1
      <4> HIDE DEF h
      <4> QED BY <3>2, <4>2
    <3> QED BY <3>1, <3>2
  <2> QED BY <2>1
<1>6. Loops(g)
  <2> HIDE DEF Loops, h
  <2> QED BY <1>5
<1>7. FlushPrefix(p, texts, st, last) = g[n]
  BY DEF FlushPrefix, Loop, n
<1> HIDE DEF g
<1>8. ASSUME NEW k \in 0 .. n
      PROVE  g[k] = IF k = 0 THEN st ELSE Emit(p, texts, g[k - 1], last)
  <2>1. g[k] = IF k = 0 THEN st ELSE
                 Emit(p, texts, g[k-1], last)
    BY <1>6
  <2> QED BY <2>1
<1> HIDE DEF Loops
<1>9. ASSUME NEW k \in 1 .. n, g[k - 1] = f[k - 1] PROVE g[k] = f[k]
  <2>1. k \in 0 .. n /\ k # 0
    BY <1>1
  <2> QED BY <1>4, <1>8, <1>9, <2>1
<1>10. g[0] = f[0]
  BY <1>1, <1>3, <1>8 DEF x
<1>11. \A k \in 0 .. n : g[k] = f[k]
  BY <1>1, <1>9, <1>10, LoopUnique
<1>12. FlushPrefix(p, texts, st, last) = f[n]
  BY <1>1, <1>7, <1>11
<1>13. \A k \in 1 .. n : f[k] = Emit(p, texts, f[k - 1], last)
  BY <1>4
<1> QED BY <1>3, <1>12, <1>13 DEF n, T, x

\* Publishing stops where a text is missing, at last at the latest.
LEMMA FlushPrefixStops ==
  ASSUME NEW p, Layout(p), NEW texts, Given(p, texts), NEW st \in Streams(p, texts),
         NEW last \in Lasts(p)
  PROVE  LET r == FlushPrefix(p, texts, st, last)
         IN /\ r \in Streams(p, texts)
            /\ r.end = st.end /\ r.ready = st.ready /\ r.shown = st.shown
            /\ r.seg > last \/ texts[r.seg] = NoText
            /\ st.seg <= r.seg /\ (st.seg <= last + 1 => r.seg <= last + 1)
<1> DEFINE r == FlushPrefix(p, texts, st, last)
           N == Len(texts)
<1>1. N \in Nat /\ N = Len(p.segments) /\ last \in 0 .. N
  BY GivenAt DEF Lasts
<1>2. PICK f : /\ \A k \in 0 .. N : f[k] \in Streams(p, texts)
               /\ f[0] = st /\ r = f[N]
               /\ \A k \in 1 .. N : f[k] = Emit(p, texts, f[k - 1], last)
  BY FlushPrefixLoop
<1> HIDE DEF r
<1> DEFINE J(k) == /\ f[k].end = st.end /\ f[k].ready = st.ready /\ f[k].shown = st.shown
                   /\ f[k].seg > last \/ texts[f[k].seg] = NoText \/ f[k].seg = st.seg + k
                   /\ st.seg <= f[k].seg /\ (st.seg <= last + 1 => f[k].seg <= last + 1)
           I == {k \in 0 .. N : J(k)}
<1>3. st.seg \in Nat /\ st.seg >= 1
  BY <1>1 DEF Streams
<1>4. 0 \in I
  BY <1>1, <1>2, <1>3
<1>5. ASSUME NEW k \in 0 .. N - 1, k \in I PROVE k + 1 \in I
  <2>1. PICK m \in 1 .. N : m = k + 1 /\ m - 1 = k /\ m \in 0 .. N
    BY <1>1
  <2>2. PICK a \in Streams(p, texts) : a = f[k]
    BY <1>2
  <2>3. PICK e : e = f[m] /\ e = Emit(p, texts, a, last)
    BY <1>2, <2>1, <2>2
  <2>4. /\ e.end = a.end /\ e.ready = a.ready /\ e.shown = a.shown
        /\ (a.seg > last \/ texts[a.seg] = NoText) => e = a
        /\ ~(a.seg > last \/ texts[a.seg] = NoText) => e.seg = a.seg + 1
    <3> HIDE DEF I, J, N
    <3>1. Emitted(p, texts, a, last, Emit(p, texts, a, last))
      BY EmitIs
    <3> QED BY <2>3, <3>1 DEF Emitted
  <2>5. J(k)
    BY <1>5
  <2>6. a.seg \in Nat
    BY <1>1 DEF Streams
  <2>7. CASE a.seg > last \/ texts[a.seg] = NoText
    <3>1. e = a
      BY <2>4, <2>7
    <3>2. J(m)
      BY <2>2, <2>3, <2>5, <2>7, <3>1
    <3> QED BY <2>1, <3>2
  <2>8. CASE ~(a.seg > last \/ texts[a.seg] = NoText)
    <3>1. e.seg = a.seg + 1 /\ a.seg = st.seg + k
      BY <2>2, <2>4, <2>5, <2>8
    <3>3. /\ e.end = st.end /\ e.ready = st.ready /\ e.shown = st.shown
      BY <2>2, <2>4, <2>5
    <3>4. e.seg = st.seg + m /\ st.seg <= e.seg
      BY <1>3, <2>1, <3>1
    <3>5. st.seg <= last + 1 => e.seg <= last + 1
      <4>1. ~(a.seg > last)
        BY <2>8
      <4> QED BY <1>1, <2>6, <3>1, <4>1
    <3>2. J(m)
      BY <2>3, <3>3, <3>4, <3>5
    <3> QED BY <2>1, <3>2
  <2> QED BY <2>7, <2>8
<1>6. \A k \in 0 .. N : k \in I
  <2> HIDE DEF I
  <2> QED BY <1>1, <1>4, <1>5, Onward
<1>7. J(N)
  <2>1. N \in 0 .. N
    BY <1>1
  <2> QED BY <1>6, <2>1
<1>8. r \in Streams(p, texts)
  <2>1. N \in 0 .. N
    BY <1>1
  <2> QED BY <1>2, <2>1
<1>9. st.seg + N > last
  BY <1>1, <1>3 DEF Lasts
<1>10. r.seg > last \/ texts[r.seg] = NoText
  BY <1>2, <1>7, <1>9
<1> QED BY <1>2, <1>7, <1>8, <1>10 DEF r

-----------------------------------------------------------------------------
(* The paragraph a stream waits for.                                       *)

\* How many texts from a up to b are there.
Arrived(texts, a, b) == Quantify(a .. (b - 1), LAMBDA k : texts[k] # NoText)

LEMMA ArrivedIs ==
  ASSUME NEW texts, NEW a \in Nat, NEW b \in Nat, a <= b
  PROVE  /\ Arrived(texts, a, b) \in Nat /\ Arrived(texts, a, b) <= b - a
         /\ Arrived(texts, a, b) = b - a <=> \A k \in a .. b - 1 : texts[k] # NoText
<1> DEFINE S == a .. b - 1
           Y == {k \in S : texts[k] # NoText}
<1>1. Arrived(texts, a, b) = Cardinality(Y)
  BY DEF Arrived, Quantify
<1>2. IsFiniteSet(S) /\ Cardinality(S) = b - a
  <2>1. a \in Int /\ b - 1 \in Int
    OBVIOUS
  <2>2. IsFiniteSet(S) /\ Cardinality(S) = IF a > b - 1 THEN 0 ELSE b - 1 - a + 1
    BY <2>1, FS_Interval
  <2> QED BY <2>2
<1>3. Y \in SUBSET S
  OBVIOUS
<1>4. Y = S <=> \A k \in a .. b - 1 : texts[k] # NoText
  OBVIOUS
<1> HIDE DEF Y, S
<1>5. Cardinality(Y) <= Cardinality(S) /\ (Cardinality(S) = Cardinality(Y) => S = Y) /\ IsFiniteSet(Y)
  BY <1>2, <1>3, FS_Subset
<1>6. Cardinality(Y) \in Nat
  BY <1>5, FS_CardinalityType
<1> QED BY <1>1, <1>2, <1>4, <1>5, <1>6

\* One more arrives.
LEMMA ArrivedGrows ==
  ASSUME NEW texts, NEW a \in Nat, NEW b \in Nat, NEW i \in a .. b - 1, texts[i] = NoText,
         NEW more, more[i] # NoText, \A k \in a .. b - 1 : k # i => more[k] = texts[k]
  PROVE  Arrived(more, a, b) = Arrived(texts, a, b) + 1
<1> DEFINE S == a .. b - 1
           Y == {k \in S : texts[k] # NoText}
           Z == {k \in S : more[k] # NoText}
<1>1. Arrived(texts, a, b) = Cardinality(Y) /\ Arrived(more, a, b) = Cardinality(Z)
  BY DEF Arrived, Quantify
<1>2. IsFiniteSet(Y)
  <2>1. a \in Int /\ b - 1 \in Int
    OBVIOUS
  <2>2. IsFiniteSet(S)
    BY <2>1, FS_Interval
  <2>3. Y \in SUBSET S
    OBVIOUS
  <2> HIDE DEF Y, S
  <2> QED BY <2>2, <2>3, FS_Subset
<1>3. Z = Y \cup {i} /\ i \notin Y
  OBVIOUS
<1> HIDE DEF Y, Z, S
<1>4. Cardinality(Y \cup {i}) = Cardinality(Y) + 1
  BY <1>2, <1>3, FS_AddElement
<1> QED BY <1>1, <1>3, <1>4

LEMMA ArrivedSame ==
  ASSUME NEW texts, NEW a, NEW b, NEW more, \A k \in a .. b - 1 : more[k] = texts[k]
  PROVE  Arrived(more, a, b) = Arrived(texts, a, b)
<1>1. {k \in a .. b - 1 : texts[k] # NoText} = {k \in a .. b - 1 : more[k] # NoText}
  OBVIOUS
<1> QED BY <1>1 DEF Arrived, Quantify

\* Segments from s up to e are those of the owner of s, and e is of another.
Run(p, s, e) ==
  /\ s \in 1 .. Len(p.segments) /\ e \in s + 1 .. Len(p.segments) + 1
  /\ \A k \in s .. e - 1 : Owner(p, k) = Owner(p, s)
  /\ \A k \in e .. Len(p.segments) : Owner(p, k) # Owner(p, s)

RunEnd(p, texts, s) == Min({k \in (s + 1)..(Len(texts) + 1) :
                        k > Len(texts) \/ Owner(p, k) # Owner(p, s)})

LEMMA RunIs ==
  ASSUME NEW p, Layout(p), Laid(p.sections), NEW texts, Given(p, texts),
         NEW s \in 1 .. Len(p.segments)
  PROVE  Run(p, s, RunEnd(p, texts, s))
<1> DEFINE N == Len(p.segments)
           S == {k \in (s + 1)..(Len(texts) + 1) : k > Len(texts) \/ Owner(p, k) # Owner(p, s)}
           e == Min(S)
<1>1. N \in Nat /\ Len(texts) = N
  BY GivenAt
<1>2. S \in SUBSET Nat /\ S # {}
  <2>1. N + 1 \in S
    BY <1>1
  <2>2. \A k \in S : k \in Nat
    BY <1>1
  <2> QED BY <2>1, <2>2
<1>3. e \in S /\ \A y \in S : e <= y
  <2> HIDE DEF S
  <2> QED BY <1>2, LeastOf
<1> HIDE DEF e
<1>4. e \in s + 1 .. N + 1 /\ (e > N \/ Owner(p, e) # Owner(p, s))
  BY <1>1, <1>3
<1>5. ASSUME NEW k \in s .. e - 1 PROVE Owner(p, k) = Owner(p, s)
  <2>1. CASE k = s
    BY <2>1
  <2>2. CASE k # s
    <3>1. k \notin S
      BY <1>1, <1>3, <1>4
    <3>2. k \in s + 1 .. N + 1 /\ k <= N
      BY <1>1, <1>4, <2>2
    <3> QED BY <1>1, <3>1, <3>2
  <2> QED BY <2>1, <2>2
<1>6. ASSUME NEW k \in e .. N PROVE Owner(p, k) # Owner(p, s)
  <2>1. e \in 1 .. N /\ k \in 1 .. N /\ s <= e /\ e <= k /\ s \in 1 .. N
    BY <1>1, <1>4
  <2>2. Owner(p, e) # Owner(p, s)
    BY <1>1, <1>4, <2>1
  <2>3. Owner(p, s) <= Owner(p, e) /\ Owner(p, e) <= Owner(p, k)
        /\ Owner(p, s) \in Nat /\ Owner(p, e) \in Nat /\ Owner(p, k) \in Nat
    BY <2>1, OwnersInOrder
  <2> QED BY <2>2, <2>3
<1>7. RunEnd(p, texts, s) = e
  BY DEF RunEnd, e
<1> QED BY <1>4, <1>5, <1>6, <1>7 DEF Run

\* The sections from sec that are of an owner, and those that are not.
OwnedFrom(p, sec, owner) == {k \in sec..Len(p.sections) : p.sections[k].para = owner}
OthersFrom(p, sec, owner) == {k \in sec..(Len(p.sections) + 1) :
                        k > Len(p.sections) \/ p.sections[k].para # owner}

\* The sections of an owner from sec are those from start up to after.
OwnedRun(p, owner, sec, start, after) ==
  /\ start \in 1 .. Len(p.sections) /\ after \in 1 .. Len(p.sections) + 1
  /\ sec <= start /\ start < after
  /\ \A k \in sec .. Len(p.sections) : p.sections[k].para = owner <=> k \in start .. after - 1

LEMMA SectionRun ==
  ASSUME NEW p, Layout(p), Laid(p.sections), NEW owner \in Nat \ {0},
         NEW sec \in Nat \ {0}, OwnedFrom(p, sec, owner) # {}
  PROVE  OwnedRun(p, owner, sec, Min(OwnedFrom(p, sec, owner)),
                  Min(OthersFrom(p, Min(OwnedFrom(p, sec, owner)), owner)))
<1> DEFINE S == OwnedFrom(p, sec, owner)
           start == Min(S)
           A == OthersFrom(p, start, owner)
           after == Min(A)
           ss == p.sections
<1>1. PICK n \in Nat : n = Len(ss)
  BY ListIs DEF Layout
<1>2. S = {k \in sec .. n : ss[k].para = owner} /\ S \in SUBSET Nat
  BY <1>1 DEF OwnedFrom
<1>3. start \in S /\ \A y \in S : start <= y
  <2>1. S # {} /\ S \in SUBSET Nat
    BY <1>2
  <2> HIDE DEF S
  <2> QED BY <2>1, LeastOf
<1> HIDE DEF start, S
<1>4. start \in 1 .. n /\ start \in sec .. n /\ ss[start].para = owner
  BY <1>1, <1>2, <1>3
<1>5. A = {k \in start .. n + 1 : k > n \/ ss[k].para # owner} /\ A \in SUBSET Nat
  BY <1>1, <1>4 DEF OthersFrom
<1>6. after \in A /\ \A y \in A : after <= y
  <2>1. n + 1 \in A
    BY <1>1, <1>4, <1>5
  <2> HIDE DEF A
  <2> QED BY <1>5, <2>1, LeastOf
<1> HIDE DEF after, A
<1>7. after \in start .. n + 1 /\ (after > n \/ ss[after].para # owner)
  BY <1>5, <1>6
<1>8. start < after
  <2>1. after # start
    BY <1>1, <1>4, <1>7
  <2> QED BY <1>4, <1>7, <2>1
<1>9. ASSUME NEW k \in sec .. n, k \in start .. after - 1 PROVE ss[k].para = owner
  <2>1. k \in start .. n + 1 /\ ~(k > n) /\ ~(after <= k)
    BY <1>1, <1>4, <1>7, <1>9
  <2> QED BY <1>5, <1>6, <2>1
<1>10. ASSUME NEW k \in sec .. n, ss[k].para = owner PROVE k \in start .. after - 1
  <2>1. k \in S
    BY <1>2, <1>10
  <2>2. start <= k /\ k \in Nat
    BY <1>3, <2>1
  <2>3. ASSUME after <= k PROVE FALSE
    <3>1. after \in 1 .. n /\ k \in 1 .. n /\ start \in 1 .. n /\ start <= after /\ after <= k
      BY <1>1, <1>4, <1>7, <2>2, <2>3
    <3>2. ss[after].para # owner
      BY <1>1, <1>7, <3>1
    <3>3. \A i, m, j \in 1 .. n :
            i <= m /\ m <= j /\ ss[i].para = ss[j].para /\ ss[i].para # 0 => ss[m].para = ss[i].para
      BY <1>1 DEF Laid
    <3> QED BY <1>4, <1>10, <3>1, <3>2, <3>3
  <2> QED BY <1>4, <1>7, <2>2, <2>3
<1>11. OwnedRun(p, owner, sec, start, after)
  <2>1. start \in 1 .. n /\ after \in 1 .. n + 1 /\ sec <= start /\ start < after
    BY <1>4, <1>7, <1>8
  <2>2. \A k \in sec .. n : ss[k].para = owner <=> k \in start .. after - 1
    BY <1>9, <1>10
  <2> QED BY <1>1, <2>1, <2>2 DEF OwnedRun
<1> QED BY <1>11 DEF after, A, start, S

-----------------------------------------------------------------------------
(* What the buffered path collects of a group.                              *)

Greater(a, b) == IF a > b THEN a ELSE b

Same(p, i, j) == p.segments[i].group = p.segments[j].group

\* What is there of the group of segment i before its own text.
Carried(p, R, i) == IF i > 1 /\ Same(p, i - 1, i) THEN R[i - 1] ELSE <<>>

\* R[i] is the buffered text of the group of segment i up to i, for the first m.
Collected(p, texts, R, m) ==
  \A i \in 1 .. m : R[i] \in Text /\ R[i] = Restored(Carried(p, R, i) \o texts[i], Wanted(p, i))

\* Every segment has its text.
Full(p, texts) == texts \in Lists(Text) /\ Len(texts) = Len(p.segments)

\* Segments between two of a group are of that group.
LEMMA Between ==
  ASSUME NEW p, Layout(p), NEW i \in Indexes(p), NEW m \in Indexes(p), NEW j \in Indexes(p),
         i <= m, m <= j, Same(p, i, j)
  PROVE  Same(p, i, m) /\ Same(p, m, j)
<1>1. \A a, b \in Indexes(p) : a <= b => Same(p, a, b) \/ Stop(p, a) < Start(p, b)
  BY DEF Layout, Indexes, Same
<1>2. /\ Start(p, i) = Start(p, j) /\ Stop(p, i) = Stop(p, j)
  BY DEF Same, Start, Stop
<1>3. PICK a \in Nat, b \in Nat, c \in Nat, d \in Nat :
        a = Start(p, i) /\ b = Stop(p, i) /\ c = Start(p, m) /\ d = Stop(p, m) /\ c <= d /\ a <= b
  BY SegmentAt DEF Indexes
<1>4. ASSUME ~Same(p, i, m) PROVE FALSE
  <2>1. b < c
    BY <1>1, <1>3, <1>4
  <2>2. Same(p, m, j) \/ d < a
    BY <1>1, <1>2, <1>3
  <2>3. ~Same(p, m, j)
    BY <1>4 DEF Same
  <2> QED BY <1>3, <2>1, <2>2, <2>3
<1> QED BY <1>4 DEF Same

LEMMA CollectedExists ==
  ASSUME NEW p, Layout(p), NEW texts, Full(p, texts)
  PROVE  \E R : R[0] = <<>> /\ Collected(p, texts, R, Len(p.segments))
<1> DEFINE N == Len(p.segments)
           From1(a, i) == IF i > 1 /\ Same(p, i - 1, i) THEN a ELSE <<>>
           Next1(a, i) == Restored(From1(a, i) \o texts[i], Wanted(p, i))
           F == [i \in 1 .. N |-> [a \in Text |-> Next1(a, i)]]
<1>1. N \in Nat /\ \A i \in 1 .. N : texts[i] \in Text
  BY ListIs DEF Full
<1>2. <<>> \in Text
  BY RequestEmpty
<1>3. ASSUME NEW i \in 1 .. N, NEW a \in Text PROVE Next1(a, i) \in Text
  <2>1. From1(a, i) \in Text /\ texts[i] \in Text
    BY <1>1, <1>2
  <2>2. From1(a, i) \o texts[i] \in Text
    <3> HIDE DEF From1
    <3> QED BY <2>1, TrailingConcat
  <2>3. Wanted(p, i) \in Text
    BY WantedIs
  <2> HIDE DEF From1
  <2> QED BY <2>2, <2>3, RestoredIs
<1>4. F \in [1 .. N -> [Text -> Text]]
  <2> HIDE DEF Next1, N
  <2> QED BY <1>3
<1>5. PICK R : /\ \A k \in 0 .. N : R[k] \in Text
               /\ R[0] = <<>> /\ \A k \in 1 .. N : R[k] = F[k][R[k - 1]]
  <2> HIDE DEF F, N, Next1
  <2> QED BY <1>1, <1>2, <1>4, LoopExists
<1>6. ASSUME NEW i \in 1 .. N
      PROVE  R[i] \in Text /\ R[i] = Restored(Carried(p, R, i) \o texts[i], Wanted(p, i))
  <2>1. i - 1 \in 0 .. N /\ i \in 0 .. N
    BY <1>1
  <2>2. R[i - 1] \in Text /\ R[i] \in Text
    BY <1>5, <2>1
  <2>3. R[i] = Next1(R[i - 1], i)
    <3> HIDE DEF Next1
    <3> QED BY <1>5, <2>2
  <2> QED BY <2>2, <2>3 DEF Carried
<1>7. Collected(p, texts, R, N)
  BY <1>6 DEF Collected
<1> QED BY <1>5, <1>7

LEMMA CarriedIs ==
  ASSUME NEW p, NEW R, NEW texts, NEW m \in Nat, Collected(p, texts, R, m), NEW i \in 1 .. m + 1
  PROVE  Carried(p, R, i) \in Text
<1>1. <<>> \in Text
  BY RequestEmpty
<1>2. CASE i > 1 /\ Same(p, i - 1, i)
  <2>1. i - 1 \in 1 .. m
    BY <1>2
  <2>2. R[i - 1] \in Text
    BY <2>1 DEF Collected
  <2> QED BY <1>2, <2>2 DEF Carried
<1> QED BY <1>1, <1>2 DEF Carried

\* How what is collected of a group ends.
LEMMA CollectedEnds ==
  ASSUME NEW p, Layout(p), NEW texts, NEW i \in Indexes(p), Answered(texts, i),
         NEW R, Collected(p, texts, R, i)
  PROVE  LET b == Carried(p, R, i) \o texts[i]
         IN /\ b \in Text /\ Trailing(b) \in Nat /\ Trailing(Carried(p, R, i)) \in Nat
            /\ Trailing(texts[i]) \in Nat /\ Len(texts[i]) \in Nat /\ texts[i] \in Text
            /\ Trailing(texts[i]) <= Len(texts[i]) /\ Trailing(texts[i]) <= Trailing(b)
            /\ Trailing(b) = IF Trailing(texts[i]) < Len(texts[i]) THEN Trailing(texts[i])
                             ELSE Len(texts[i]) + Trailing(Carried(p, R, i))
            /\ Trailing(R[i]) = Greater(Trailing(Wanted(p, i)), Trailing(b))
<1>1. i \in Nat /\ i \in 1 .. i /\ i \in 1 .. Len(p.segments) /\ i \in 1 .. i + 1
  BY SegmentAt DEF Indexes
<1>2. PICK t \in Text : t = texts[i]
  BY <1>1 DEF Answered
<1>3. PICK a \in Text : a = Carried(p, R, i)
  BY <1>1, CarriedIs
<1>4. /\ Trailing(t) \in Nat /\ Trailing(t) <= Len(t) /\ Trailing(a) \in Nat /\ Len(t) \in Nat
  BY TrailingIs, RequestIs
<1>5. /\ a \o t \in Text
      /\ Trailing(t) < Len(t) => Trailing(a \o t) = Trailing(t)
      /\ Trailing(t) = Len(t) => Trailing(a \o t) = Len(t) + Trailing(a)
      /\ Trailing(t) <= Trailing(a \o t)
  BY TrailingConcat
<1>6. Trailing(a \o t) \in Nat
  BY <1>5, TrailingIs
<1>7. PICK w \in Text : w = Wanted(p, i)
  BY <1>1, WantedIs
<1>8. Trailing(Restored(a \o t, w)) = Greater(Trailing(w), Trailing(a \o t))
  BY <1>5, RestoredIs DEF Greater
<1>9. R[i] = Restored(a \o t, w)
  BY <1>1, <1>2, <1>3, <1>7 DEF Collected
<1>10. Trailing(a \o t) = IF Trailing(t) < Len(t) THEN Trailing(t) ELSE Len(t) + Trailing(a)
  BY <1>4, <1>5
<1> QED BY <1>2, <1>3, <1>4, <1>5, <1>6, <1>7, <1>8, <1>9, <1>10

-----------------------------------------------------------------------------
(* The scan backwards agrees with what is gathered forwards.               *)

\* How many newlines the group of segment i has at the end up to segment c, when
\* all of its texts after c are newlines only.
Tail1(p, R, i, c) == IF c >= 1 /\ Same(p, c, i) THEN Trailing(R[c]) ELSE 0

\* What is known of b newlines, of which required are asked for, after a pass.
Found(a, rest, b, required) ==
  /\ a.over => Monus(required, Greater(a.restored, a.trailing)) = Monus(required, b)
  /\ ~a.over => b = Greater(a.restored, a.trailing + rest)

\* What earlier passes, which found x and y, and the text before say of b.
Heard(x, y, b, sigma, beta, known) ==
  \/ known = Greater(y, x + sigma) /\ b = Greater(y, x + Greater(sigma, beta))
  \/ known = y /\ x = 0 /\ y = 0 /\ b = beta

\* What the pass over a text of length n that ends in tau newlines says of b.
Told(x, known, required, tau, n, rest, b) ==
  /\ known >= required => Monus(required, Greater(known, x)) = Monus(required, b)
  /\ ~(known >= required) =>
       /\ (x + tau >= required \/ tau < n) =>
            Monus(required, Greater(known, x + tau)) = Monus(required, b)
       /\ ~(x + tau >= required \/ tau < n) => b = Greater(known, x + tau + rest)

\* A pass over segment c, which ends in newlines, of which more are newlines
\* only if all of its text is.
LEMMA LookStep ==
  ASSUME NEW x \in Nat, NEW y \in Nat, NEW b \in Nat, NEW required \in Nat,
         NEW sigma \in Nat, NEW tau \in Nat, NEW n \in Nat, NEW rest \in Nat, NEW beta \in Nat, NEW known \in Nat,
         tau <= n, tau <= beta, beta = IF tau < n THEN tau ELSE n + rest,
         Heard(x, y, b, sigma, beta, known)
  PROVE  Told(x, known, required, tau, n, rest, b)
<1>1. known <= b /\ x + tau <= b
  BY DEF Greater, Heard
<1>2. known >= required => Monus(required, Greater(known, x)) = 0 /\ Monus(required, b) = 0
  BY <1>1 DEF Greater, Monus
<1>3. x + tau >= required => Monus(required, Greater(known, x + tau)) = 0 /\ Monus(required, b) = 0
  BY <1>1 DEF Greater, Monus
<1>4. tau < n => b = Greater(known, x + tau)
  BY DEF Greater, Heard
<1>5. ~(tau < n) => b = Greater(known, x + tau + rest)
  BY DEF Greater, Heard
<1> QED BY <1>2, <1>3, <1>4, <1>5 DEF Told

LEMMA LookFinds ==
  ASSUME NEW p, Layout(p), NEW texts, NEW i \in Indexes(p), Answered(texts, i),
         NEW R, Collected(p, texts, R, i), NEW required \in Nat,
         NEW k \in 0 .. i - 1, NEW a \in Looks,
         NEW b, b = Trailing(Carried(p, R, i) \o texts[i]),
         k = 0 => a = [trailing |-> 0, restored |-> 0, over |-> FALSE],
         k # 0 => Found(a, Tail1(p, R, i, i - k), b, required)
  PROVE  Found(Looked(p, texts, i, required, a, k + 1), Tail1(p, R, i, i - (k + 1)), b, required)
<1>0. i \in Nat /\ i \in 1 .. Len(p.segments) /\ Len(p.segments) \in Nat
  BY SegmentAt DEF Indexes
<1>1. PICK c \in 1 .. i : c = i - k /\ c = i + 1 - (k + 1) /\ c - 1 = i - (k + 1)
  BY <1>0
<1>2. c \in Indexes(p) /\ Answered(texts, c) /\ Collected(p, texts, R, c) /\ c \in Nat /\ c <= i
  <2>1. \A j \in 1 .. c : j \in 1 .. i
    BY <1>0
  <2> QED BY <1>0, <2>1 DEF Indexes, Answered, Collected
<1> DEFINE e == Looked(p, texts, i, required, a, k + 1)
           rest == Tail1(p, R, i, c - 1)
<1>3. PICK x \in Nat, y \in Nat : x = a.trailing /\ y = a.restored /\ a.over \in BOOLEAN
  BY DEF Looks
<1>4. b \in Nat
  BY CollectedEnds
<1>5. rest \in Nat
  <2>1. CASE c - 1 >= 1 /\ Same(p, c - 1, i)
    <3>1. R[c - 1] \in Text
      BY <1>2, <2>1 DEF Collected
    <3> QED BY <2>1, <3>1, TrailingIs DEF Tail1
  <2>2. CASE ~(c - 1 >= 1 /\ Same(p, c - 1, i))
    BY <2>2 DEF Tail1
  <2> QED BY <2>1, <2>2
<1>6. CASE a.over
  <2>1. e = a /\ k # 0
    BY <1>6 DEF Looked
  <2> QED BY <1>1, <1>6, <2>1 DEF Found
<1>7. CASE ~a.over /\ ~Same(p, c, i)
  <2>1. e = a
    BY <1>1, <1>7 DEF Looked, Same
  <2>2. k # 0
    BY <1>0, <1>1, <1>7 DEF Same
  <2>3. Tail1(p, R, i, i - k) = 0
    BY <1>1, <1>7 DEF Tail1
  <2>4. rest = 0
    <3>1. ASSUME c - 1 >= 1, Same(p, c - 1, i) PROVE FALSE
      <4>1. c - 1 \in Indexes(p)
        BY <1>0, <1>2, <3>1 DEF Indexes
      <4>2. c - 1 <= c /\ c <= i
        BY <1>2
      <4> QED BY <1>2, <1>7, <3>1, <4>1, <4>2, Between
    <3> QED BY <3>1 DEF Tail1
  <2> QED BY <1>1, <2>1, <2>2, <2>3, <2>4 DEF Found
<1>8. CASE ~a.over /\ Same(p, c, i)
  <2> DEFINE beta == Trailing(Carried(p, R, c) \o texts[c])
             tau == Trailing(texts[c])
             n == Len(texts[c])
             sigma == Trailing(p.segments[c].text)
             known == IF c < i THEN Max({y, x + sigma}) ELSE y
  <2>1. /\ beta \in Nat /\ tau \in Nat /\ n \in Nat /\ tau <= n /\ tau <= beta
        /\ beta = IF tau < n THEN tau ELSE n + Trailing(Carried(p, R, c))
        /\ Trailing(R[c]) = Greater(Trailing(Wanted(p, c)), beta)
    BY <1>2, CollectedEnds
  <2>2. Trailing(Carried(p, R, c)) = rest
    <3>1. Same(p, c - 1, c) <=> Same(p, c - 1, i)
      BY <1>8 DEF Same
    <3>2. Trailing(<<>>) = 0
      BY RequestEmpty, TrailingIs, NoneIs
    <3> QED BY <1>2, <3>1, <3>2 DEF Carried, Tail1
  <2>3. sigma \in Nat
    BY <1>2, SegmentAt, TrailingIs DEF Indexes
  <2>4. known \in Nat /\ (c < i => known = Greater(y, x + sigma))
    <3>1. x + sigma \in Nat
      BY <2>3
    <3> HIDE DEF sigma
    <3> QED BY <3>1, GreaterOf DEF Greater
  <2>5. Heard(x, y, b, sigma, beta, known)
    <3>1. CASE c = i
      <4>1. k = 0
        BY <1>0, <1>1, <3>1
      <4> QED BY <1>3, <3>1, <4>1 DEF Heard
    <3>2. CASE c # i
      <4>1. k # 0 /\ c < i
        BY <1>0, <1>1, <3>2
      <4>2. Wanted(p, c) = p.segments[c].text
        <5>1. c + 1 \in Indexes(p) /\ c <= c + 1 /\ c + 1 <= i
          BY <1>0, <1>2, <4>1 DEF Indexes
        <5>2. Same(p, c, c + 1)
          BY <1>2, <1>8, <5>1, Between
        <5> QED BY <1>0, <1>2, <4>1, <5>2 DEF Wanted, Same, Indexes
      <4>3. Tail1(p, R, i, i - k) = Greater(sigma, beta)
        BY <1>1, <1>8, <2>1, <4>2 DEF Tail1
      <4>4. b = Greater(y, x + Greater(sigma, beta))
        BY <1>3, <1>8, <4>1, <4>3 DEF Found
      <4> QED BY <2>4, <4>1, <4>4 DEF Heard
    <3> QED BY <3>1, <3>2
  <2>6. e = IF known >= required THEN [a EXCEPT !.restored = known, !.over = TRUE]
            ELSE [trailing |-> x + tau, restored |-> known,
                  over |-> x + tau >= required \/ tau < n]
    BY <1>1, <1>3, <1>8 DEF Looked, Same
  <2> HIDE DEF beta, tau, n, sigma, known, rest, e
  <2>7. Told(x, known, required, tau, n, rest, b)
    BY <1>4, <1>5, <2>1, <2>2, <2>3, <2>4, <2>5, LookStep
  <2>8. CASE known >= required
    <3>1. e.over /\ e.restored = known /\ e.trailing = x
      BY <1>3, <2>6, <2>8 DEF Looks
    <3> QED BY <1>1, <2>7, <2>8, <3>1 DEF Found, Told, e, rest
  <2>9. CASE ~(known >= required)
    <3>1. e.restored = known /\ e.trailing = x + tau /\ e.over = (x + tau >= required \/ tau < n)
      BY <2>6, <2>9
    <3>2. Found(e, rest, b, required)
      BY <2>7, <2>9, <3>1 DEF Found, Told
    <3> QED BY <1>1, <3>2 DEF e, rest
  <2> QED BY <2>8, <2>9
<1> QED BY <1>3, <1>6, <1>7, <1>8

-----------------------------------------------------------------------------
(* What is published of a segment makes up for what was collected.         *)

LEMMA MissingRight ==
  ASSUME NEW p, Layout(p), NEW texts, NEW i \in Indexes(p), Answered(texts, i),
         NEW R, Collected(p, texts, R, i), NEW required \in Nat
  PROVE  Missing(p, texts, i, required) = Monus(required, Trailing(Carried(p, R, i) \o texts[i]))
<1> DEFINE b == Trailing(Carried(p, R, i) \o texts[i])
<1>0. i \in Nat
  BY SegmentAt DEF Indexes
<1>1. PICK f : Scan(p, texts, i, required, f)
  BY MissingLoop
<1> DEFINE I == {k \in 0 .. i : k # 0 => Found(f[k], Tail1(p, R, i, i - k), b, required)}
<1>2. 0 \in I
  BY <1>0
<1>3. ASSUME NEW k \in 0 .. i - 1, k \in I PROVE k + 1 \in I
  <2>1. PICK a \in Looks : a = f[k]
    <3>1. k \in 0 .. i
      BY <1>0
    <3> QED BY <1>1, <3>1 DEF Scan
  <2>2. k = 0 => a = [trailing |-> 0, restored |-> 0, over |-> FALSE]
    BY <1>1, <2>1 DEF Scan
  <2>3. k # 0 => Found(a, Tail1(p, R, i, i - k), b, required)
    BY <1>3, <2>1
  <2>4. Found(Looked(p, texts, i, required, a, k + 1), Tail1(p, R, i, i - (k + 1)), b, required)
    <3> HIDE DEF I
    <3>1. PICK z : z = b
      OBVIOUS
    <3>2. Found(Looked(p, texts, i, required, a, k + 1), Tail1(p, R, i, i - (k + 1)), z, required)
      BY <2>2, <2>3, <3>1, LookFinds
    <3> QED BY <3>1, <3>2
  <2>5. f[k + 1] = Looked(p, texts, i, required, a, k + 1)
    <3>1. k + 1 \in 1 .. i /\ k + 1 - 1 = k
      BY <1>0
    <3> QED BY <1>1, <2>1, <3>1 DEF Scan
  <2>6. k + 1 \in 0 .. i
    BY <1>0
  <2> HIDE DEF b
  <2> QED BY <2>4, <2>5, <2>6
<1>4. \A k \in 0 .. i : k \in I
  <2> HIDE DEF I
  <2> QED BY <1>0, <1>2, <1>3, Onward
<1>5. Found(f[i], Tail1(p, R, i, i - i), b, required)
  <2>1. i \in 0 .. i /\ i # 0
    BY <1>0, SegmentAt DEF Indexes
  <2> QED BY <1>4, <2>1
<1>6. PICK x \in Nat, y \in Nat : x = f[i].trailing /\ y = f[i].restored /\ f[i].over \in BOOLEAN
  <2>1. i \in 0 .. i
    BY <1>0
  <2>2. f[i] \in Looks
    BY <1>1, <2>1 DEF Scan
  <2> QED BY <2>2 DEF Looks
<1>7. Tail1(p, R, i, i - i) = 0
  BY <1>0 DEF Tail1
<1>8. Max({x, y}) = Greater(x, y) /\ Greater(x, y) = Greater(y, x)
  <2>1. Max({x, y}) = Greater(x, y)
    BY GreaterOf DEF Greater
  <2> QED BY <2>1 DEF Greater
<1>9. Missing(p, texts, i, required) = Monus(required, Greater(y, x))
  BY <1>1, <1>6, <1>8 DEF Scan
<1> HIDE DEF b, I
<1>10. Monus(required, Greater(y, x)) = Monus(required, b)
  <2>1. CASE f[i].over
    BY <1>5, <1>6, <2>1 DEF Found
  <2>2. CASE ~f[i].over
    <3>1. b = Greater(y, x)
      BY <1>5, <1>6, <1>7, <2>2 DEF Found
    <3> QED BY <3>1
  <2> QED BY <2>1, <2>2
<1> QED BY <1>9, <1>10 DEF b

\* What is published for segment i brings the stream to what is collected.
LEMMA PublishedSame ==
  ASSUME NEW p, Layout(p), NEW texts, NEW i \in Indexes(p), Given(p, texts), Ready(texts, i),
         NEW R, Collected(p, texts, R, i)
  PROVE  /\ NewlineAfter(p, texts, i) \in Text
         /\ (Carried(p, R, i) \o texts[i]) \o NewlineAfter(p, texts, i) = R[i]
<1>1. i \in 1 .. Len(p.segments) /\ i \in 1 .. i
  BY SegmentAt DEF Indexes
<1>2. NewlineAfter(p, texts, i) = Newlines(Missing(p, texts, i, Trailing(Wanted(p, i))))
      /\ NewlineAfter(p, texts, i) \in Text
  BY <1>1, NewlineAfterIs
<1>0. Answered(texts, i)
  <2>1. \A j \in 1 .. i : j \in 1 .. Len(texts) /\ texts[j] # NoText
    BY <1>1, GivenAt DEF Ready
  <2> QED BY <2>1, GivenAt DEF Answered
<1>3. PICK r \in Nat : r = Trailing(Wanted(p, i))
  BY <1>1, WantedIs
<1>4. Missing(p, texts, i, r) = Monus(r, Trailing(Carried(p, R, i) \o texts[i]))
  BY <1>0, MissingRight
<1>5. R[i] = Restored(Carried(p, R, i) \o texts[i], Wanted(p, i))
  BY <1>1 DEF Collected
<1> QED BY <1>2, <1>3, <1>4, <1>5 DEF Restored, Deficit

-----------------------------------------------------------------------------
(* What the sections contribute to the buffered text.                      *)

GroupAt(p, k) == {i \in DOMAIN p.segments : k \in ToSet(p.segments[i].group)}

Written(p, texts, G, out, i) ==
  IF i \notin G THEN out
  ELSE IF i + 1 \in G THEN Restored(out \o texts[i], p.segments[i].text)
  ELSE Restored(out \o texts[i], GroupText(p.sections, p.segments[i].group))

WrittenAll(p, texts, G) == Loop(LAMBDA out, i : Written(p, texts, G, out, i), <<>>, Len(p.segments))

\* The text of a group by the loop over the segments.
LEMMA WrittenLoop ==
  ASSUME NEW p, Layout(p), NEW texts, Full(p, texts), NEW G
  PROVE  \E f : /\ \A k \in 0 .. Len(p.segments) : f[k] \in Text
                /\ f[0] = <<>> /\ WrittenAll(p, texts, G) = f[Len(p.segments)]
                /\ \A k \in 1 .. Len(p.segments) : f[k] = Written(p, texts, G, f[k - 1], k)
<1> DEFINE n == Len(p.segments)
           T == Text
           x == <<>>
           F == [k \in 1 .. n |-> [a \in T |-> Written(p, texts, G, a, k)]]
           Loops(g) == g = [k \in 0 .. n |-> IF k = 0 THEN <<>> ELSE
                              Written(p, texts, G, g[k-1], k)]
<1>1. n \in Nat /\ x \in T
  <2>1. <<>> \in Text /\ Len(p.segments) \in Nat
    BY RequestEmpty, ListIs DEF Layout
  <2> QED BY <2>1
<1>2. F \in [1 .. n -> [T -> T]]
  <2>1. ASSUME NEW k \in 1 .. n, NEW a \in T PROVE Written(p, texts, G, a, k) \in T
    <3>1. texts[k] \in Text
      BY ListIs DEF Full
    <3>2. a \o texts[k] \in Text
      BY <3>1, TrailingConcat
    <3>3. p.segments[k].text \in Text /\ GroupText(p.sections, p.segments[k].group) \in Text
      BY SegmentAt
    <3>4. /\ Restored(a \o texts[k], p.segments[k].text) \in Text
          /\ Restored(a \o texts[k], GroupText(p.sections, p.segments[k].group)) \in Text
      BY <3>2, <3>3, RestoredIs
    <3> QED BY <3>4 DEF Written
  <2> HIDE DEF T, n
  <2> QED BY <2>1
<1> HIDE DEF T, n, x
<1>3. PICK f : /\ \A k \in 0 .. n : f[k] \in T
               /\ f[0] = x /\ \A k \in 1 .. n : f[k] = F[k][f[k - 1]]
  <2> HIDE DEF F, Loops
  <2>1. n \in Nat /\ x \in T /\ F \in [1 .. n -> [T -> T]]
    BY <1>1, <1>2
  <2> QED BY <2>1, LoopExists
<1>4. ASSUME NEW k \in 1 .. n PROVE f[k] = Written(p, texts, G, f[k - 1], k)
  <2>1. k - 1 \in 0 .. n
    BY <1>1
  <2>2. f[k - 1] \in T
    BY <1>3, <2>1
  <2>3. F[k][f[k - 1]] = Written(p, texts, G, f[k - 1], k)
    BY <2>2
  <2> QED BY <1>3, <2>3
<1> HIDE DEF F
<1> DEFINE h == [k \in 0 .. n |-> f[k]]
           g == CHOOSE g : Loops(g)
<1>5. Loops(h)
  <2>1. ASSUME NEW k \in 0 .. n
        PROVE  h[k] = IF k = 0 THEN <<>> ELSE
                        Written(p, texts, G, h[k-1], k)
    <3>1. CASE k = 0
      BY <1>3, <3>1 DEF x
    <3>2. CASE k # 0
      <4>1. k \in 1 .. n /\ h[k] = f[k] /\ h[k-1] = f[k-1]
        BY <1>1, <3>2
      <4>2. h[k] = Written(p, texts, G, h[k - 1], k)
        BY <1>4, <4>1
      <4> HIDE DEF h
      <4> QED BY <3>2, <4>2
    <3> QED BY <3>1, <3>2
  <2> QED BY <2>1
<1>6. Loops(g)
  <2> HIDE DEF Loops, h
  <2> QED BY <1>5
<1>7. WrittenAll(p, texts, G) = g[n]
  BY DEF WrittenAll, Loop, n
<1> HIDE DEF g
<1>8. ASSUME NEW k \in 0 .. n
      PROVE  g[k] = IF k = 0 THEN <<>> ELSE Written(p, texts, G, g[k - 1], k)
  <2>1. g[k] = IF k = 0 THEN <<>> ELSE
                 Written(p, texts, G, g[k-1], k)
    BY <1>6
  <2> QED BY <2>1
<1> HIDE DEF Loops
<1>9. ASSUME NEW k \in 1 .. n, g[k - 1] = f[k - 1] PROVE g[k] = f[k]
  <2>1. k \in 0 .. n /\ k # 0
    BY <1>1
  <2> QED BY <1>4, <1>8, <1>9, <2>1
<1>10. g[0] = f[0]
  BY <1>1, <1>3, <1>8 DEF x
<1>11. \A k \in 0 .. n : g[k] = f[k]
  BY <1>1, <1>9, <1>10, LoopUnique
<1>12. WrittenAll(p, texts, G) = f[n]
  BY <1>1, <1>7, <1>11
<1>13. \A k \in 1 .. n : f[k] = Written(p, texts, G, f[k - 1], k)
  BY <1>4
<1> QED BY <1>3, <1>12, <1>13 DEF n, T, x

\* A section is in the groups of the segments of one group.
LEMMA InGroup ==
  ASSUME NEW p, Layout(p), NEW i \in Indexes(p), NEW j \in Indexes(p), NEW k,
         k \in Start(p, i) .. Stop(p, i), k \in Start(p, j) .. Stop(p, j)
  PROVE  Same(p, i, j)
<1>1. \A a, b \in Indexes(p) : a <= b => Same(p, a, b) \/ Stop(p, a) < Start(p, b)
  BY DEF Layout, Indexes, Same
<1>2. PICK a \in Nat, b \in Nat, c \in Nat, d \in Nat :
        a = Start(p, i) /\ b = Stop(p, i) /\ c = Start(p, j) /\ d = Stop(p, j)
  BY SegmentAt DEF Indexes
<1>3. Len(p.segments) \in Nat
  BY SegmentAt DEF Indexes
<1>4. i <= j \/ j <= i
  BY <1>3 DEF Indexes
<1>5. k \in a .. b /\ k \in c .. d
  BY <1>2
<1>6. i <= j => Same(p, i, j) \/ b < c
  BY <1>1, <1>2
<1>7. j <= i => Same(p, j, i) \/ d < a
  BY <1>1, <1>2
<1>8. Same(p, j, i) => Same(p, i, j)
  BY DEF Same
<1> QED BY <1>4, <1>5, <1>6, <1>7, <1>8

LEMMA GroupAtIs ==
  ASSUME NEW p, Layout(p), NEW k
  PROVE  /\ GroupAt(p, k) = {i \in Indexes(p) : k \in Start(p, i) .. Stop(p, i)}
         /\ \A i \in GroupAt(p, k) : GroupAt(p, k) = {j \in Indexes(p) : Same(p, j, i)}
<1>1. DOMAIN p.segments = Indexes(p)
  BY ListIs DEF Layout, Indexes
<1>2. \A i \in Indexes(p) : ToSet(p.segments[i].group) = Start(p, i) .. Stop(p, i)
  BY DEF Layout, Indexes
<1>3. GroupAt(p, k) = {i \in Indexes(p) : k \in Start(p, i) .. Stop(p, i)}
  BY <1>1, <1>2 DEF GroupAt
<1>4. ASSUME NEW i \in GroupAt(p, k) PROVE GroupAt(p, k) = {j \in Indexes(p) : Same(p, j, i)}
  <2>1. i \in Indexes(p) /\ k \in Start(p, i) .. Stop(p, i)
    BY <1>3, <1>4
  <2>2. \A j \in Indexes(p) : Same(p, j, i) => Start(p, j) = Start(p, i) /\ Stop(p, j) = Stop(p, i)
    BY DEF Same, Start, Stop
  <2>3. ASSUME NEW j \in Indexes(p), k \in Start(p, j) .. Stop(p, j) PROVE Same(p, j, i)
    BY <2>1, <2>3, InGroup
  <2> QED BY <1>3, <2>1, <2>2, <2>3
<1> QED BY <1>3, <1>4

\* The group of segment i has no segment after i.
Ending(p, i) == i = Len(p.segments) \/ ~Same(p, i, i + 1)

\* A group is written as it was collected.
LEMMA WrittenIs ==
  ASSUME NEW p, Layout(p), NEW texts, Full(p, texts), NEW R, Collected(p, texts, R, Len(p.segments)),
         NEW i \in Indexes(p), Ending(p, i)
  PROVE  WrittenAll(p, texts, {j \in Indexes(p) : Same(p, j, i)}) = R[i]
<1> DEFINE G == {j \in Indexes(p) : Same(p, j, i)}
<1>0. PICK N \in Nat : N = Len(p.segments) /\ i \in 1 .. N /\ Indexes(p) = 1 .. N
  BY SegmentAt DEF Indexes
<1>1. PICK f : /\ \A k \in 0 .. N : f[k] \in Text
               /\ f[0] = <<>> /\ WrittenAll(p, texts, G) = f[N]
               /\ \A k \in 1 .. N : f[k] = Written(p, texts, G, f[k - 1], k)
  <2>1. \E f : /\ \A k \in 0 .. Len(p.segments) : f[k] \in Text
               /\ f[0] = <<>> /\ WrittenAll(p, texts, G) = f[Len(p.segments)]
               /\ \A k \in 1 .. Len(p.segments) : f[k] = Written(p, texts, G, f[k - 1], k)
    <3> HIDE DEF G
    <3> QED BY WrittenLoop
  <2> QED BY <1>0, <2>1
<1>2. \A j \in G : j <= i
  <2> SUFFICES ASSUME NEW j \in G, i < j PROVE FALSE
    BY <1>0
  <2>1. i + 1 \in Indexes(p) /\ j \in Indexes(p) /\ i + 1 <= j /\ i <= i + 1 /\ Same(p, i, j)
    BY <1>0 DEF Same
  <2>2. Same(p, i, i + 1)
    <3> HIDE DEF G
    <3> QED BY <2>1, Between
  <2> QED BY <1>0, <2>1, <2>2 DEF Ending
<1>3. i \in G
  BY DEF Same
<1>4. \A j \in G, m \in Indexes(p) : j <= m /\ m <= i => m \in G
  <2> SUFFICES ASSUME NEW j \in Indexes(p), Same(p, j, i), NEW m \in Indexes(p), j <= m, m <= i PROVE Same(p, m, i)
    OBVIOUS
  <2> QED BY Between
<1>5. \A j \in G : j \in 1 .. N
  BY <1>0
<1>6. \A j \in G : j + 1 \in G <=> (j < N /\ Same(p, j + 1, j))
  <2>1. \A j \in G : j + 1 \in G => j + 1 \in 1 .. N
    BY <1>5
  <2>2. \A j \in G : j < N => j + 1 \in 1 .. N
    BY <1>0
  <2> QED BY <1>0, <2>1, <2>2 DEF Same
<1>7. \A j \in G : j > 1 => (j - 1 \in G <=> Same(p, j - 1, j))
  <2>1. \A j \in G : j > 1 => j - 1 \in 1 .. N
    BY <1>5
  <2> QED BY <1>0, <2>1 DEF Same
<1> HIDE DEF G
<1> DEFINE J(m) == /\ m \in G => f[m] = R[m]
                   /\ m \notin G /\ m < i => f[m] = <<>>
                   /\ m > i => f[m] = R[i]
           I == {m \in 0 .. N : J(m)}
<1>8. 0 \in I
  <2>1. 0 \notin G /\ ~(0 > i)
    BY <1>0, <1>5
  <2> QED BY <1>0, <1>1, <2>1
<1>9. ASSUME NEW m \in 0 .. N - 1, m \in I PROVE m + 1 \in I
  <2>1. PICK e \in 1 .. N : e = m + 1 /\ m = e - 1 /\ e \in 0 .. N
    BY <1>0
  <2>2. J(m) /\ f[e] = Written(p, texts, G, f[m], e)
    BY <1>1, <1>9, <2>1
  <2>3. CASE e \in G
    <3>1. f[m] = Carried(p, R, e)
      <4>1. CASE e = 1
        <5>1. m = 0 /\ ~(e > 1)
          BY <2>1, <4>1
        <5> QED BY <1>1, <5>1 DEF Carried
      <4>2. CASE e # 1 /\ m \in G
        BY <1>7, <2>1, <2>2, <2>3, <4>2 DEF Carried
      <4>3. CASE e # 1 /\ m \notin G
        <5>1. m < i /\ e > 1
          BY <1>0, <1>2, <2>1, <2>3, <4>3
        <5>2. f[m] = <<>>
          BY <2>2, <4>3, <5>1
        <5> QED BY <1>7, <2>1, <2>3, <4>3, <5>1, <5>2 DEF Carried
      <4> QED BY <4>1, <4>2, <4>3
    <3>2. R[e] = Restored(Carried(p, R, e) \o texts[e], Wanted(p, e))
      BY <1>0 DEF Collected
    <3>3. f[e] = R[e]
      <4>1. e + 1 \in G => Wanted(p, e) = p.segments[e].text
        BY <1>0, <1>6, <2>3 DEF Wanted, Same
      <4>2. e + 1 \notin G => Wanted(p, e) = GroupText(p.sections, p.segments[e].group)
        BY <1>0, <1>6, <2>3 DEF Wanted, Same
      <4> QED BY <2>2, <2>3, <3>1, <3>2, <4>1, <4>2 DEF Written
    <3>4. ~(e > i)
      BY <1>0, <1>2, <2>3
    <3> QED BY <2>1, <2>3, <3>3, <3>4
  <2>4. CASE e \notin G
    <3>1. f[e] = f[m]
      BY <2>2, <2>4 DEF Written
    <3>2. e < i => f[e] = <<>>
      <4>1. ASSUME e < i, m \in G PROVE FALSE
        <5>1. m <= e /\ e <= i /\ e \in Indexes(p)
          BY <1>0, <2>1, <4>1
        <5> QED BY <1>4, <2>4, <4>1, <5>1
      <4>2. e < i => m < i
        BY <1>0, <2>1
      <4> QED BY <2>2, <3>1, <4>1, <4>2
    <3>3. e > i => f[e] = R[i]
      <4>1. e > i => m = i \/ m > i
        BY <1>0, <2>1
      <4> QED BY <1>3, <2>2, <3>1, <4>1
    <3> QED BY <2>1, <2>4, <3>2, <3>3
  <2> QED BY <2>3, <2>4
<1>10. \A m \in 0 .. N : m \in I
  <2> HIDE DEF I
  <2> QED BY <1>0, <1>8, <1>9, Onward
<1>11. J(N)
  <2>1. N \in 0 .. N
    BY <1>0
  <2> QED BY <1>10, <2>1
<1>12. f[N] = R[i]
  <2>1. i = N \/ N > i
    BY <1>0
  <2> QED BY <1>3, <1>11, <2>1
<1> QED BY <1>1, <1>12 DEF G

\* What a section contributes: its text, its group at the first section of the
\* group, or nothing.
LEMMA PartIs ==
  ASSUME NEW p, Layout(p), NEW texts, Full(p, texts), NEW R, Collected(p, texts, R, Len(p.segments)),
         NEW k \in 1 .. Len(p.sections)
  PROVE  /\ (\A i \in Indexes(p) : k \notin Start(p, i) .. Stop(p, i)) =>
              Parts(p, texts)[k] = p.sections[k].text
         /\ \A i \in Indexes(p) : k = Start(p, i) /\ Ending(p, i) => Parts(p, texts)[k] = R[i]
         /\ \A i \in Indexes(p) : k \in Start(p, i) .. Stop(p, i) /\ k # Start(p, i) =>
              Parts(p, texts)[k] = <<>>
<1> DEFINE G == GroupAt(p, k)
<1>1. DOMAIN p.sections = 1 .. Len(p.sections)
  BY ListIs DEF Layout
<1>2. Parts(p, texts)[k] =
        IF G = {} THEN p.sections[k].text
        ELSE IF \A i \in G : Head(p.segments[i].group) = k THEN WrittenAll(p, texts, G)
        ELSE <<>>
  BY <1>1 DEF Parts, WrittenAll, Written, GroupAt
<1>3. /\ G = {i \in Indexes(p) : k \in Start(p, i) .. Stop(p, i)}
      /\ \A i \in G : G = {j \in Indexes(p) : Same(p, j, i)}
  BY GroupAtIs
<1>4. (\A i \in G : Head(p.segments[i].group) = k) <=> \A i \in G : Start(p, i) = k
  BY DEF Start
<1> HIDE DEF G
<1>5. ASSUME NEW i \in Indexes(p), k = Start(p, i), Ending(p, i) PROVE Parts(p, texts)[k] = R[i]
  <2>1. k \in Start(p, i) .. Stop(p, i)
    <3>1. Start(p, i) \in 1 .. Len(p.sections) /\ Stop(p, i) \in 1 .. Len(p.sections)
          /\ Start(p, i) <= Stop(p, i)
      BY SegmentAt DEF Indexes
    <3> QED BY <1>5, <3>1
  <2>2. i \in G
    BY <1>3, <2>1
  <2>3. \A j \in G : Start(p, j) = k
    <3>1. \A j \in G : Same(p, j, i)
      BY <1>3, <2>2
    <3> QED BY <1>5, <3>1 DEF Same, Start
  <2>4. G = {j \in Indexes(p) : Same(p, j, i)}
    BY <1>3, <2>2
  <2>5. WrittenAll(p, texts, G) = R[i]
    BY <1>5, <2>4, WrittenIs
  <2> QED BY <1>2, <1>4, <2>2, <2>3, <2>5
<1>6. ASSUME NEW i \in Indexes(p), k \in Start(p, i) .. Stop(p, i), k # Start(p, i)
      PROVE  Parts(p, texts)[k] = <<>>
  <2>1. i \in G
    BY <1>3, <1>6
  <2> QED BY <1>2, <1>4, <1>6, <2>1
<1>7. (\A i \in Indexes(p) : k \notin Start(p, i) .. Stop(p, i)) => G = {}
  BY <1>3
<1> QED BY <1>2, <1>5, <1>6, <1>7

-----------------------------------------------------------------------------
(* The buffered text.                                                      *)

LEMMA SectionIs ==
  ASSUME NEW p, Layout(p), NEW k \in 1 .. Len(p.sections)
  PROVE  p.sections[k].text \in Text /\ p.sections[k].para \in Nat /\ p.sections[k].go \in BOOLEAN
<1>1. p.sections \in Lists(Sections)
  BY DEF Layout
<1>2. p.sections[k] \in Sections
  BY <1>1, ListIs
<1> QED BY <1>2 DEF Sections

LEMMA EndingExists ==
  ASSUME NEW p, Layout(p), NEW i \in Indexes(p)
  PROVE  \E j \in Indexes(p) : i <= j /\ Same(p, j, i) /\ Ending(p, j)
<1> DEFINE S == {j \in Indexes(p) : Same(p, j, i)}
<1>0. PICK n \in Nat : n = Len(p.segments) /\ i \in 1 .. n /\ Indexes(p) = 1 .. n
  BY SegmentAt DEF Indexes
<1>1. S \in SUBSET (1 .. n) /\ i \in S
  BY <1>0 DEF Same
<1>2. PICK j : j = Max(S) /\ j \in S /\ \A y \in S : y <= j
  <2> HIDE DEF S
  <2>1. S # {}
    BY <1>1
  <2> QED BY <1>0, <1>1, <2>1, GreatestNumber
<1>3. j \in 1 .. n /\ Same(p, j, i) /\ i <= j
  BY <1>0, <1>1, <1>2
<1>4. ASSUME j # n, Same(p, j, j + 1) PROVE FALSE
  <2>1. j + 1 \in 1 .. n
    BY <1>3, <1>4
  <2>2. Same(p, j + 1, i)
    BY <1>3, <1>4 DEF Same
  <2>3. j + 1 \in S
    BY <1>0, <2>1, <2>2
  <2> HIDE DEF S
  <2> QED BY <1>2, <1>3, <2>3
<1> QED BY <1>0, <1>3, <1>4 DEF Ending

LEMMA PartsType ==
  ASSUME NEW p, Layout(p), NEW texts, Full(p, texts), NEW k \in 1 .. Len(p.sections)
  PROVE  Parts(p, texts)[k] \in Text
<1>1. PICK R : Collected(p, texts, R, Len(p.segments))
  BY CollectedExists
<1>2. p.sections[k].text \in Text /\ <<>> \in Text
  BY SectionIs, RequestEmpty
<1>3. CASE \A i \in Indexes(p) : k \notin Start(p, i) .. Stop(p, i)
  BY <1>1, <1>2, <1>3, PartIs
<1>4. CASE \E i \in Indexes(p) : k \in Start(p, i) .. Stop(p, i)
  <2>1. PICK i \in Indexes(p) : k \in Start(p, i) .. Stop(p, i)
    BY <1>4
  <2>2. CASE k # Start(p, i)
    BY <1>1, <1>2, <2>1, <2>2, PartIs
  <2>3. CASE k = Start(p, i)
    <3>1. PICK j \in Indexes(p) : Same(p, j, i) /\ Ending(p, j)
      BY EndingExists
    <3>2. k = Start(p, j)
      BY <2>3, <3>1 DEF Same, Start
    <3>3. R[j] \in Text
      BY <1>1 DEF Collected, Indexes
    <3> QED BY <1>1, <3>1, <3>2, <3>3, PartIs
  <2> QED BY <2>2, <2>3
<1> QED BY <1>3, <1>4

Spots == [source : Nat \X Nat, output : Nat \X Nat]
Bodied == [text : Text, emitted : SUBSET Nat, regions : SUBSET Spots]
NoBody == [text |-> <<>>, emitted |-> {}, regions |-> {}]

\* The source of paragraph q.
Origin(src, p, q) == SubSeq(src, p.originals[q][1], p.originals[q][2])

\* Whose paragraphs may be retained.
Suits(src, p, retained) ==
  /\ src \in Text /\ retained \subseteq Nat \ {0}
  /\ retained # {} => Ordered(p, src)

LEMMA OriginIs ==
  ASSUME NEW src, NEW p, NEW retained, Layout(p), Suits(src, p, retained),
         NEW k \in 1 .. Len(p.sections), p.sections[k].para \in retained
  PROVE  /\ p.originals[p.sections[k].para] \in Nat \X Nat
         /\ Origin(src, p, p.sections[k].para) \in Text
<1>1. p.sections[k].para # 0 /\ Ordered(p, src) /\ src \in Text
  BY DEF Suits
<1>2. PICK a \in Nat, b \in Nat :
        p.originals[p.sections[k].para] = <<a + 1, b>> /\ a <= b /\ b <= Len(src)
  BY <1>1 DEF Ordered
<1>3. Origin(src, p, p.sections[k].para) = SubSeq(src, a + 1, b)
  BY <1>2 DEF Origin
<1>4. SubSeq(src, a + 1, b) \in Text
  <2>1. a + 1 \in Nat /\ 1 <= a + 1 /\ a + 1 <= b + 1 /\ src \in Lists(Atom)
    BY <1>1, <1>2, TextIs
  <2>2. SubSeq(src, a + 1, b) \in Lists(Atom)
    BY <1>2, <2>1, SubIs
  <2> QED BY <2>2, TextIs
<1> QED BY <1>2, <1>3, <1>4

Added(src, p, texts, retained, acc, k) ==
  LET q == p.sections[k].para
      range == p.originals[q]
      text == SubSeq(src, range[1], range[2])
  IN CASE q \notin retained -> [acc EXCEPT !.text = @ \o Parts(p, texts)[k]]
                   [] q \in retained /\ q \in acc.emitted -> acc
                   [] OTHER -> [text |-> acc.text \o text, emitted |-> acc.emitted \cup {q},
                                regions |-> acc.regions \cup
                                  {[source |-> range,
                                    output |-> <<Len(acc.text) + 1, Len(acc.text) + Len(text)>>]}]

\* What a section adds to the body a, which gives e.
Grown(src, p, texts, retained, a, k, e) ==
  LET q == p.sections[k].para
  IN /\ e \in Bodied
     /\ q \notin retained =>
          e.text = a.text \o Parts(p, texts)[k] /\ e.emitted = a.emitted /\ e.regions = a.regions
     /\ q \in retained /\ q \in a.emitted => e = a
     /\ q \in retained /\ q \notin a.emitted =>
          /\ e.text = a.text \o Origin(src, p, q) /\ e.emitted = a.emitted \cup {q}
          /\ e.regions = a.regions \cup
               {[source |-> p.originals[q],
                 output |-> <<Len(a.text) + 1, Len(a.text) + Len(Origin(src, p, q))>>]}

LEMMA AddedIs ==
  ASSUME NEW src, NEW p, NEW texts, NEW retained, Layout(p), Full(p, texts), Suits(src, p, retained),
         NEW a \in Bodied, NEW k \in 1 .. Len(p.sections)
  PROVE  Grown(src, p, texts, retained, a, k, Added(src, p, texts, retained, a, k))
<1> DEFINE q == p.sections[k].para
           e == Added(src, p, texts, retained, a, k)
<1>1. a.text \in Text /\ a.emitted \in SUBSET Nat /\ a.regions \in SUBSET Spots
  BY DEF Bodied
<1>2. PICK t \in Text : t = Parts(p, texts)[k]
  BY PartsType
<1>3. q \in Nat
  BY SectionIs
<1>4. CASE q \notin retained
  <2>1. e = [a EXCEPT !.text = @ \o t]
    BY <1>2, <1>4 DEF Added
  <2>2. a.text \o t \in Text
    BY <1>1, TrailingConcat
  <2>3. e = [text |-> a.text \o t, emitted |-> a.emitted, regions |-> a.regions]
    BY <2>1 DEF Bodied
  <2>4. e \in Bodied
    BY <1>1, <2>2, <2>3 DEF Bodied
  <2> HIDE DEF e
  <2>5. Grown(src, p, texts, retained, a, k, e)
    BY <1>2, <1>4, <2>3, <2>4 DEF Grown
  <2> QED BY <2>5 DEF e
<1>5. CASE q \in retained /\ q \in a.emitted
  <2>1. e = a
    BY <1>5 DEF Added
  <2> HIDE DEF e
  <2>2. Grown(src, p, texts, retained, a, k, e)
    BY <1>5, <2>1 DEF Grown
  <2> QED BY <2>2 DEF e
<1>6. CASE q \in retained /\ q \notin a.emitted
  <2>1. PICK o \in Text : o = Origin(src, p, q)
    BY <1>6, OriginIs
  <2>2. p.originals[q] \in Nat \X Nat
    BY <1>6, OriginIs
  <2> DEFINE spot == [source |-> p.originals[q], output |-> <<Len(a.text) + 1, Len(a.text) + Len(o)>>]
  <2>3. e = [text |-> a.text \o o, emitted |-> a.emitted \cup {q}, regions |-> a.regions \cup {spot}]
    BY <1>6, <2>1 DEF Added, Origin
  <2>4. spot \in Spots
    <3>1. Len(a.text) \in Nat /\ Len(o) \in Nat
      BY <1>1, RequestIs
    <3>2. <<Len(a.text) + 1, Len(a.text) + Len(o)>> \in Nat \X Nat
      BY <3>1
    <3> QED BY <2>2, <3>2 DEF Spots
  <2>5. a.text \o o \in Text
    BY <1>1, TrailingConcat
  <2> HIDE DEF spot
  <2>6. e \in Bodied
    BY <1>1, <1>3, <2>3, <2>4, <2>5 DEF Bodied
  <2> HIDE DEF e
  <2>7. Grown(src, p, texts, retained, a, k, e)
    BY <1>6, <2>1, <2>3, <2>6 DEF Grown, spot
  <2> QED BY <2>7 DEF e
<1> QED BY <1>4, <1>5, <1>6

\* The body by the loop over the sections.
LEMMA BodyLoop ==
  ASSUME NEW src, NEW p, NEW texts, NEW retained, Layout(p), Full(p, texts),
         Suits(src, p, retained)
  PROVE  \E f : /\ \A k \in 0 .. Len(p.sections) : f[k] \in Bodied
                /\ f[0] = [text |-> <<>>, emitted |-> {}, regions |-> {}] /\ Body(src, p, texts, retained) = f[Len(p.sections)]
                /\ \A k \in 1 .. Len(p.sections) : f[k] = Added(src, p, texts, retained, f[k - 1], k)
<1> DEFINE n == Len(p.sections)
           T == Bodied
           x == [text |-> <<>>, emitted |-> {}, regions |-> {}]
           F == [k \in 1 .. n |-> [a \in T |-> Added(src, p, texts, retained, a, k)]]
           Loops(g) == g = [k \in 0 .. n |-> IF k = 0 THEN [text |-> <<>>, emitted |-> {}, regions |-> {}] ELSE
                              LET q == p.sections[k].para
                  range == p.originals[q]
                  text == SubSeq(src, range[1], range[2])
              IN CASE q \notin retained -> [g[k-1] EXCEPT !.text = @ \o Parts(p, texts)[k]]
                   [] q \in retained /\ q \in g[k-1].emitted -> g[k-1]
                   [] OTHER -> [text |-> g[k-1].text \o text, emitted |-> g[k-1].emitted \cup {q},
                                regions |-> g[k-1].regions \cup
                                  {[source |-> range,
                                    output |-> <<Len(g[k-1].text) + 1, Len(g[k-1].text) + Len(text)>>]}]]
<1>1. n \in Nat /\ x \in T
  <2>1. <<>> \in Text /\ Len(p.sections) \in Nat
    BY RequestEmpty, ListIs DEF Layout
  <2> QED BY <2>1 DEF Bodied
<1>2. F \in [1 .. n -> [T -> T]]
  <2>1. ASSUME NEW k \in 1 .. n, NEW a \in T PROVE Added(src, p, texts, retained, a, k) \in T
    BY AddedIs DEF Grown
  <2> HIDE DEF T, n
  <2> QED BY <2>1
<1> HIDE DEF T, n, x
<1>3. PICK f : /\ \A k \in 0 .. n : f[k] \in T
               /\ f[0] = x /\ \A k \in 1 .. n : f[k] = F[k][f[k - 1]]
  <2> HIDE DEF F, Loops
  <2>1. n \in Nat /\ x \in T /\ F \in [1 .. n -> [T -> T]]
    BY <1>1, <1>2
  <2> QED BY <2>1, LoopExists
<1>4. ASSUME NEW k \in 1 .. n PROVE f[k] = Added(src, p, texts, retained, f[k - 1], k)
  <2>1. k - 1 \in 0 .. n
    BY <1>1
  <2>2. f[k - 1] \in T
    BY <1>3, <2>1
  <2>3. F[k][f[k - 1]] = Added(src, p, texts, retained, f[k - 1], k)
    BY <2>2
  <2> QED BY <1>3, <2>3
<1> HIDE DEF F
<1> DEFINE h == [k \in 0 .. n |-> f[k]]
           g == CHOOSE g : Loops(g)
<1>5. Loops(h)
  <2>1. ASSUME NEW k \in 0 .. n
        PROVE  h[k] = IF k = 0 THEN [text |-> <<>>, emitted |-> {}, regions |-> {}] ELSE
                        LET q == p.sections[k].para
                  range == p.originals[q]
                  text == SubSeq(src, range[1], range[2])
              IN CASE q \notin retained -> [h[k-1] EXCEPT !.text = @ \o Parts(p, texts)[k]]
                   [] q \in retained /\ q \in h[k-1].emitted -> h[k-1]
                   [] OTHER -> [text |-> h[k-1].text \o text, emitted |-> h[k-1].emitted \cup {q},
                                regions |-> h[k-1].regions \cup
                                  {[source |-> range,
                                    output |-> <<Len(h[k-1].text) + 1, Len(h[k-1].text) + Len(text)>>]}]
    <3>1. CASE k = 0
      BY <1>3, <3>1 DEF x
    <3>2. CASE k # 0
      <4>1. k \in 1 .. n /\ h[k] = f[k] /\ h[k-1] = f[k-1]
        BY <1>1, <3>2
      <4>2. h[k] = Added(src, p, texts, retained, h[k - 1], k)
        BY <1>4, <4>1
      <4> HIDE DEF h
      <4> QED BY <3>2, <4>2 DEF Added
    <3> QED BY <3>1, <3>2
  <2> QED BY <2>1
<1>6. Loops(g)
  <2> HIDE DEF Loops, h
  <2> QED BY <1>5
<1>7. Body(src, p, texts, retained) = g[n]
  BY DEF Body, Loop, n
<1> HIDE DEF g
<1>8. ASSUME NEW k \in 0 .. n
      PROVE  g[k] = IF k = 0 THEN [text |-> <<>>, emitted |-> {}, regions |-> {}] ELSE Added(src, p, texts, retained, g[k - 1], k)
  <2>1. g[k] = IF k = 0 THEN [text |-> <<>>, emitted |-> {}, regions |-> {}] ELSE
                 LET q == p.sections[k].para
                  range == p.originals[q]
                  text == SubSeq(src, range[1], range[2])
              IN CASE q \notin retained -> [g[k-1] EXCEPT !.text = @ \o Parts(p, texts)[k]]
                   [] q \in retained /\ q \in g[k-1].emitted -> g[k-1]
                   [] OTHER -> [text |-> g[k-1].text \o text, emitted |-> g[k-1].emitted \cup {q},
                                regions |-> g[k-1].regions \cup
                                  {[source |-> range,
                                    output |-> <<Len(g[k-1].text) + 1, Len(g[k-1].text) + Len(text)>>]}]
    BY <1>6
  <2> QED BY <2>1 DEF Added
<1> HIDE DEF Loops
<1>9. ASSUME NEW k \in 1 .. n, g[k - 1] = f[k - 1] PROVE g[k] = f[k]
  <2>1. k \in 0 .. n /\ k # 0
    BY <1>1
  <2> QED BY <1>4, <1>8, <1>9, <2>1
<1>10. g[0] = f[0]
  BY <1>1, <1>3, <1>8 DEF x
<1>11. \A k \in 0 .. n : g[k] = f[k]
  BY <1>1, <1>9, <1>10, LoopUnique
<1>12. Body(src, p, texts, retained) = f[n]
  BY <1>1, <1>7, <1>11
<1>13. \A k \in 1 .. n : f[k] = Added(src, p, texts, retained, f[k - 1], k)
  BY <1>4
<1> QED BY <1>3, <1>12, <1>13 DEF n, T, x

\* b[k] is the body up to section k.
Bodies(src, p, texts, retained, b) ==
  /\ \A k \in 0 .. Len(p.sections) : b[k] \in Bodied
  /\ b[0] = NoBody /\ Body(src, p, texts, retained) = b[Len(p.sections)]
  /\ \A k \in 1 .. Len(p.sections) : Grown(src, p, texts, retained, b[k - 1], k, b[k])

LEMMA BodiesExist ==
  ASSUME NEW src, NEW p, NEW texts, NEW retained, Layout(p), Full(p, texts), Suits(src, p, retained)
  PROVE  \E b : Bodies(src, p, texts, retained, b)
<1>1. PICK b : /\ \A k \in 0 .. Len(p.sections) : b[k] \in Bodied
               /\ b[0] = NoBody /\ Body(src, p, texts, retained) = b[Len(p.sections)]
               /\ \A k \in 1 .. Len(p.sections) : b[k] = Added(src, p, texts, retained, b[k - 1], k)
  <2>1. PICK b : /\ \A k \in 0 .. Len(p.sections) : b[k] \in Bodied
               /\ b[0] = [text |-> <<>>, emitted |-> {}, regions |-> {}]
               /\ Body(src, p, texts, retained) = b[Len(p.sections)]
               /\ \A k \in 1 .. Len(p.sections) : b[k] = Added(src, p, texts, retained, b[k - 1], k)
    BY BodyLoop
  <2> QED BY <2>1 DEF NoBody
<1>2. PICK n \in Nat : n = Len(p.sections)
  BY ListIs DEF Layout
<1>3. ASSUME NEW k \in 1 .. n PROVE Grown(src, p, texts, retained, b[k - 1], k, b[k])
  <2>1. k - 1 \in 0 .. n
    BY <1>2
  <2>2. PICK a \in Bodied : a = b[k - 1]
    BY <1>1, <1>2, <2>1
  <2>3. b[k] = Added(src, p, texts, retained, a, k)
    BY <1>1, <1>2, <2>2
  <2> QED BY <1>2, <2>2, <2>3, AddedIs
<1> QED BY <1>1, <1>2, <1>3 DEF Bodies

-----------------------------------------------------------------------------
(* Where retained paragraphs lie.                                          *)

LEMMA SubLeft ==
  ASSUME NEW a \in Text, NEW c \in Text, NEW x \in Nat, NEW y \in Nat,
         1 <= x, x <= y + 1, y <= Len(a)
  PROVE  SubSeq(a \o c, x, y) = SubSeq(a, x, y)
<1>1. a \in Lists(Atom) /\ c \in Lists(Atom)
  BY TextIs
<1>2. /\ a \o c \in Lists(Atom) /\ Len(a \o c) = Len(a) + Len(c)
      /\ \A i \in 1 .. Len(a) : (a \o c)[i] = a[i]
  BY <1>1, ConcatIs
<1>3. Len(a) \in Nat /\ Len(c) \in Nat
  BY RequestIs
<1> DEFINE t == a \o c
           u == SubSeq(t, x, y)
           v == SubSeq(a, x, y)
<1>4. /\ u \in Lists(Atom) /\ Len(u) = y - x + 1
      /\ \A i \in 1 .. y - x + 1 : u[i] = t[x + i - 1]
  <2>1. y <= Len(t) /\ t \in Lists(Atom)
    BY <1>2, <1>3
  <2>2. /\ SubSeq(t, x, y) \in Lists(Atom) /\ Len(SubSeq(t, x, y)) = y - x + 1
        /\ \A i \in 1 .. y - x + 1 : SubSeq(t, x, y)[i] = t[x + i - 1]
    <3> HIDE DEF t
    <3> QED BY <2>1, SubIs
  <2> HIDE DEF t
  <2> QED BY <2>2
<1>5. /\ v \in Lists(Atom) /\ Len(v) = y - x + 1
      /\ \A i \in 1 .. y - x + 1 : v[i] = a[x + i - 1]
  BY <1>1, SubIs
<1>6. ASSUME NEW i \in 1 .. y - x + 1 PROVE u[i] = v[i]
  <2>1. x + i - 1 \in 1 .. Len(a)
    BY <1>3
  <2>2. t[x + i - 1] = a[x + i - 1]
    BY <1>2, <2>1
  <2> HIDE DEF t, u, v
  <2> QED BY <1>4, <1>5, <2>2
<1>7. u = v
  <2> HIDE DEF t, u, v
  <2> QED BY <1>4, <1>5, <1>6, ListEqual
<1> QED BY <1>7

LEMMA SubRight ==
  ASSUME NEW a \in Text, NEW c \in Text, NEW x \in Nat, NEW y \in Nat,
         1 <= x, x <= y + 1, y <= Len(c), NEW l \in Nat, l = Len(a),
         NEW left \in Nat, NEW right \in Nat, left = l + x, right = l + y
  PROVE  SubSeq(a \o c, left, right) = SubSeq(c, x, y)
<1>1. a \in Lists(Atom) /\ c \in Lists(Atom)
  BY TextIs
<1>2. /\ a \o c \in Lists(Atom) /\ Len(a \o c) = Len(a) + Len(c)
      /\ \A i \in 1 .. Len(c) : (a \o c)[Len(a) + i] = c[i]
  BY <1>1, ConcatIs
<1>3. Len(c) \in Nat
  BY RequestIs
<1> DEFINE t == a \o c
           u == SubSeq(t, left, right)
           v == SubSeq(c, x, y)
<1>4. /\ u \in Lists(Atom) /\ Len(u) = right - left + 1
      /\ \A i \in 1 .. right - left + 1 : u[i] = t[left + i - 1]
  <2>1. t \in Lists(Atom) /\ 1 <= left /\ left <= right + 1 /\ right <= Len(t)
    BY <1>2, <1>3
  <2>2. /\ SubSeq(t, left, right) \in Lists(Atom) /\ Len(SubSeq(t, left, right)) = right - left + 1
        /\ \A i \in 1 .. right - left + 1 : SubSeq(t, left, right)[i] = t[left + i - 1]
    <3> HIDE DEF t
    <3> QED BY <2>1, SubIs
  <2> HIDE DEF t
  <2> QED BY <2>2
<1>5. /\ v \in Lists(Atom) /\ Len(v) = y - x + 1
      /\ \A i \in 1 .. y - x + 1 : v[i] = c[x + i - 1]
  BY <1>1, SubIs
<1>6. ASSUME NEW i \in 1 .. y - x + 1 PROVE u[i] = v[i]
  <2>1. x + i - 1 \in 1 .. Len(c)
    BY <1>3
  <2>2. t[l + (x + i - 1)] = c[x + i - 1]
    BY <1>2, <2>1
  <2>3. left + i - 1 = l + (x + i - 1) /\ right - left + 1 = y - x + 1
    OBVIOUS
  <2> HIDE DEF t, u, v
  <2> QED BY <1>4, <1>5, <2>2, <2>3
<1>7. Len(u) = Len(v)
  <2>1. right - left + 1 = y - x + 1
    OBVIOUS
  <2> HIDE DEF t, u, v
  <2> QED BY <1>4, <1>5, <2>1
<1>8. \A i \in 1 .. Len(u) : u[i] = v[i]
  <2> HIDE DEF t, u, v
  <2> QED BY <1>5, <1>6, <1>7
<1>9. u = v
  <2> HIDE DEF t, u, v
  <2> QED BY <1>4, <1>5, <1>7, <1>8, ListEqual
<1> QED BY <1>9

\* A region lies in t after front and holds the source it stands for.
Exact(src, t, front, r) ==
  /\ r \in Spots
  /\ front < r.output[1] /\ r.output[1] <= r.output[2] + 1 /\ r.output[2] <= Len(t)
  /\ SubSeq(t, r.output[1], r.output[2]) = SubSeq(src, r.source[1], r.source[2])

LEMMA ExactGrows ==
  ASSUME NEW src, NEW t \in Text, NEW c \in Text, NEW front \in Nat, NEW r, Exact(src, t, front, r)
  PROVE  Exact(src, t \o c, front, r)
<1>1. PICK x \in Nat, y \in Nat : x = r.output[1] /\ y = r.output[2]
  BY DEF Exact, Spots
<1>2. Len(t) \in Nat /\ Len(c) \in Nat /\ Len(t \o c) = Len(t) + Len(c)
  BY RequestIs, TrailingConcat
<1>3. front < x /\ x <= y + 1 /\ y <= Len(t) /\ 1 <= x /\ y <= Len(t \o c)
  BY <1>1, <1>2 DEF Exact
<1>4. SubSeq(t \o c, x, y) = SubSeq(t, x, y)
  BY <1>3, SubLeft
<1> QED BY <1>1, <1>3, <1>4 DEF Exact

\* A text goes in between two others.
LEMMA SubShifts ==
  ASSUME NEW A \in Text, NEW B \in Text, NEW c \in Text, NEW x \in Nat, NEW y \in Nat,
         NEW f \in Nat, NEW n \in Nat, NEW l \in Nat, f = Len(A), n = Len(B), l = Len(c),
         f < x, x <= y + 1, y <= f + n
  PROVE  /\ SubSeq((A \o c) \o B, x + l, y + l) = SubSeq(A \o B, x, y)
         /\ Len((A \o c) \o B) = f + l + n
<1>1. PICK d \in Nat, e \in Nat : d = x - f /\ e = y - f
  <2>1. x - f \in Nat /\ y - f \in Nat
    OBVIOUS
  <2> QED BY <2>1
<1>2. 1 <= d /\ d <= e + 1 /\ e <= Len(B) /\ x = f + d /\ y = f + e
  BY <1>1
<1>3. SubSeq(A \o B, x, y) = SubSeq(B, d, e)
  BY <1>2, SubRight
<1>4. PICK z \in Text : z = A \o c /\ Len(z) = f + l
  BY TrailingConcat
<1>5. PICK k \in Nat, g \in Nat, h \in Nat : k = f + l /\ g = x + l /\ h = y + l
  OBVIOUS
<1>6. k = Len(z) /\ g = k + d /\ h = k + e
  BY <1>1, <1>4, <1>5
<1>7. SubSeq(z \o B, g, h) = SubSeq(B, d, e)
  BY SMTT(30), <1>2, <1>6, SubRight
<1>8. Len(z \o B) = f + l + n
  BY <1>4, TrailingConcat
<1> QED BY <1>3, <1>4, <1>5, <1>7, <1>8

Moved(r, l) == [r EXCEPT !.output = <<@[1] + l, @[2] + l>>]

\* A text goes in between front and the region.
Within(front, t) == front <= Len(t)

LEMMA ExactShifts ==
  ASSUME NEW src, NEW t \in Text, NEW front \in Nat, Within(front, t),
         NEW c \in Text, NEW r, Exact(src, t, front, r)
  PROVE  /\ Exact(src, (SubSeq(t, 1, front) \o c) \o SubSeq(t, front + 1, Len(t)), front, Moved(r, Len(c)))
         /\ Moved(r, Len(c)).source = r.source
<1>0. PICK n \in Nat : n = Len(t) /\ front <= n
  BY RequestIs DEF Within
<1>2. PICK l \in Nat : l = Len(c)
  BY RequestIs
<1>1. PICK x \in Nat, y \in Nat : x = r.output[1] /\ y = r.output[2]
  BY DEF Exact, Spots
<1>3. front < x /\ x <= y + 1 /\ y <= n
  BY <1>0, <1>1 DEF Exact
<1>4. t \in Lists(Atom)
  BY TextIs
<1>5. PICK A \in Text : A = SubSeq(t, 1, front) /\ Len(A) = front
  <2>1. front \in 0 .. Len(t)
    BY <1>0
  <2>2. SubSeq(t, 1, front) \in Lists(Atom) /\ Len(SubSeq(t, 1, front)) = front
    BY <1>4, <2>1, PrefixIs
  <2> QED BY <2>2, TextIs
<1>6. PICK B \in Text : B = SubSeq(t, front + 1, n) /\ Len(B) = n - front
  <2>1. PICK g \in Nat : g = front + 1 /\ 1 <= g /\ g <= n + 1 /\ n <= Len(t)
    BY <1>0
  <2>2. SubSeq(t, g, n) \in Lists(Atom) /\ Len(SubSeq(t, g, n)) = n - g + 1
    BY <1>4, <2>1, SubIs
  <2>3. SubSeq(t, g, n) \in Text /\ Len(SubSeq(t, g, n)) = n - front
    BY <2>1, <2>2, TextIs
  <2> QED BY <2>1, <2>3
<1>7. t = A \o B
  <2>1. SubSeq(t, 1, n) = SubSeq(t, 1, front) \o SubSeq(t, front + 1, n)
    <3>1. 1 \in Nat /\ 1 <= 1 /\ 1 <= front + 1 /\ front <= n /\ n <= Len(t)
      BY <1>0
    <3> QED BY <1>4, <3>1, CutInTwo
  <2>2. SubSeq(t, 1, Len(t)) = t
    BY <1>4, PrefixEnds
  <2> QED BY <1>0, <1>5, <1>6, <2>1, <2>2
<1>8. PICK m \in Nat : m = n - front
  <2>1. n - front \in Nat
    BY <1>0
  <2> QED BY <2>1
<1>9. front = Len(A) /\ m = Len(B) /\ y <= front + m
  BY <1>3, <1>5, <1>6, <1>8
<1>14. /\ SubSeq((A \o c) \o B, x + l, y + l) = SubSeq(t, x, y)
       /\ Len((A \o c) \o B) = front + l + m
  BY <1>2, <1>3, <1>7, <1>9, SubShifts
<1>16. r \in Spots /\ r.source \in Nat \X Nat /\ r.output = <<x, y>>
  BY <1>1 DEF Exact, Spots
<1>17. Moved(r, l).source = r.source /\ Moved(r, l).output = <<x + l, y + l>> /\ Moved(r, l) \in Spots
  <2>1. Moved(r, l) = [source |-> r.source, output |-> <<x + l, y + l>>]
    BY <1>1, <1>16 DEF Moved, Spots
  <2>2. <<x + l, y + l>> \in Nat \X Nat
    OBVIOUS
  <2> QED BY <1>16, <2>1, <2>2 DEF Spots
<1>18. front < x + l /\ x + l <= (y + l) + 1 /\ y + l <= Len((A \o c) \o B)
  BY <1>3, <1>8, <1>14
<1>19. SubSeq(t, x, y) = SubSeq(src, r.source[1], r.source[2])
  BY <1>1 DEF Exact
<1>20. Exact(src, (A \o c) \o B, front, Moved(r, l))
  <2>1. PICK s : s = Moved(r, l)
    OBVIOUS
  <2>2. /\ s \in Spots /\ s.source = r.source /\ s.output[1] = x + l /\ s.output[2] = y + l
    BY <1>17, <2>1
  <2>3. Exact(src, (A \o c) \o B, front, s)
    BY <1>14, <1>18, <1>19, <2>2 DEF Exact
  <2> QED BY <2>1, <2>3
<1> QED BY <1>0, <1>2, <1>5, <1>6, <1>17, <1>20

-----------------------------------------------------------------------------
(* The regions of a body.                                                  *)

\* The first front atoms of the body are those of the first section, literally.
Fronted(p, front) ==
  \/ front = 0
  \/ /\ 1 \in 1 .. Len(p.sections) /\ ~p.sections[1].go /\ p.sections[1].para = 0
     /\ front = Len(p.sections[1].text)

\* What the regions of the body a up to section k are.
Regioned(src, p, retained, front, a, k) ==
  /\ IsFiniteSet(a.regions)
  /\ k # 0 => Within(front, a.text)
  /\ \A r \in a.regions : Exact(src, a.text, front, r)
  /\ {r.source : r \in a.regions} = {p.originals[q] : q \in a.emitted}
  /\ a.emitted = {p.sections[j].para : j \in 1 .. k} \cap retained

LEMMA ParaGrows ==
  ASSUME NEW p, NEW k \in Nat, NEW m \in Nat, m = k + 1
  PROVE  {p.sections[j].para : j \in 1 .. m} = {p.sections[j].para : j \in 1 .. k} \cup {p.sections[m].para}
<1>1. 1 .. m = (1 .. k) \cup {m}
  OBVIOUS
<1> QED BY <1>1

\* A literal section is its own part.
LEMMA LiteralPart ==
  ASSUME NEW p, Layout(p), NEW texts, Full(p, texts), NEW k \in 1 .. Len(p.sections), ~p.sections[k].go
  PROVE  Parts(p, texts)[k] = p.sections[k].text
<1>1. PICK R : Collected(p, texts, R, Len(p.segments))
  BY CollectedExists
<1>2. ASSUME NEW i \in Indexes(p) PROVE k \notin Start(p, i) .. Stop(p, i)
  BY DEF Layout, Indexes
<1> QED BY <1>1, <1>2, PartIs

LEMMA RegionedGrows ==
  ASSUME NEW src, NEW p, NEW texts, NEW retained, Layout(p), Full(p, texts), Suits(src, p, retained),
         NEW front \in Nat, Fronted(p, front), NEW a \in Bodied, NEW k \in Nat,
         NEW m \in 1 .. Len(p.sections), m = k + 1, NEW e,
         Grown(src, p, texts, retained, a, m, e), Regioned(src, p, retained, front, a, k),
         k = 0 => a = NoBody
  PROVE  Regioned(src, p, retained, front, e, m)
<1> DEFINE q == p.sections[m].para
<1>1. /\ a.text \in Text /\ a.emitted \in SUBSET Nat /\ Len(a.text) \in Nat
      /\ m \in Nat /\ m # 0
  <2>1. a.text \in Text /\ a.emitted \in SUBSET Nat
    BY DEF Bodied
  <2> QED BY <2>1, RequestIs
<1>2. {p.sections[j].para : j \in 1 .. m} = {p.sections[j].para : j \in 1 .. k} \cup {q}
  <2>1. m \in Nat
    BY <1>1
  <2> QED BY <2>1, ParaGrows
<1>3. /\ IsFiniteSet(a.regions)
      /\ k # 0 => Within(front, a.text)
      /\ \A r \in a.regions : Exact(src, a.text, front, r)
      /\ {r.source : r \in a.regions} = {p.originals[j] : j \in a.emitted}
      /\ a.emitted = {p.sections[j].para : j \in 1 .. k} \cap retained
  BY DEF Regioned
<1>4. front = 0 => Within(front, e.text)
  <2>1. e.text \in Text
    BY DEF Grown, Bodied
  <2> QED BY <2>1, RequestIs DEF Within
<1>5. ASSUME NEW t \in Text, Within(front, a.text) PROVE Within(front, a.text \o t)
  <2>1. Len(a.text \o t) = Len(a.text) + Len(t) /\ Len(t) \in Nat
    BY <1>1, TrailingConcat, RequestIs
  <2> QED BY <1>1, <1>5, <2>1 DEF Within
<1>6. k = 0 => m = 1 /\ a.text = <<>> /\ a.emitted = {}
  BY DEF NoBody
<1>7. front # 0 => p.sections[1].para \notin retained
  BY DEF Fronted, Suits
<1>8. CASE q \notin retained
  <2>1. PICK t \in Text : t = Parts(p, texts)[m]
    BY PartsType
  <2>2. e.text = a.text \o t /\ e.emitted = a.emitted /\ e.regions = a.regions
    BY <1>8, <2>1 DEF Grown
  <2>3. \A r \in e.regions : Exact(src, e.text, front, r)
    BY <1>1, <1>3, <2>2, ExactGrows
  <2>4. Within(front, e.text)
    <3>1. CASE front = 0
      BY <1>4, <3>1
    <3>2. CASE front # 0 /\ k = 0
      <4>1. t = p.sections[1].text
        <5>1. m = 1
          BY <1>6, <3>2
        <5> QED BY <2>1, <3>2, <5>1, LiteralPart DEF Fronted
      <4>2. e.text = t
        <5>1. <<>> \o t = t
          BY TextIs, ConcatNone
        <5> QED BY <1>6, <2>2, <3>2, <5>1
      <4> QED BY <3>2, <4>1, <4>2 DEF Fronted, Within
    <3>3. CASE k # 0
      BY <1>3, <1>5, <2>2, <3>3
    <3> QED BY <3>1, <3>2, <3>3
  <2>5. e.emitted = {p.sections[j].para : j \in 1 .. m} \cap retained
    BY <1>2, <1>3, <1>8, <2>2
  <2> QED BY <1>3, <2>2, <2>3, <2>4, <2>5 DEF Regioned
<1>9. CASE q \in retained /\ q \in a.emitted
  <2>1. e = a
    BY <1>9 DEF Grown
  <2>2. k # 0
    BY <1>6, <1>9
  <2>3. a.emitted = {p.sections[j].para : j \in 1 .. m} \cap retained
    BY <1>2, <1>3, <1>9
  <2> QED BY <1>3, <2>1, <2>2, <2>3 DEF Regioned
<1>10. CASE q \in retained /\ q \notin a.emitted
  <2>1. PICK o \in Text : o = Origin(src, p, q)
    BY <1>10, OriginIs
  <2>2. p.originals[q] \in Nat \X Nat
    BY <1>10, OriginIs
  <2> DEFINE spot == [source |-> p.originals[q], output |-> <<Len(a.text) + 1, Len(a.text) + Len(o)>>]
  <2>3. e.text = a.text \o o /\ e.emitted = a.emitted \cup {q} /\ e.regions = a.regions \cup {spot}
    BY <1>10, <2>1 DEF Grown
  <2>4. Within(front, e.text) /\ (k = 0 => front = 0)
    <3>1. k = 0 => front = 0
      BY <1>6, <1>7, <1>10
    <3> QED BY <1>3, <1>4, <1>5, <2>3, <3>1
  <2>5. Exact(src, e.text, front, spot)
    <3>1. PICK l \in Nat, n \in Nat : l = Len(a.text) /\ n = Len(o)
      BY <1>1, RequestIs
    <3>2. spot.output[1] = l + 1 /\ spot.output[2] = l + n /\ spot.source = p.originals[q]
          /\ spot \in Spots
      <4>1. spot = [source |-> p.originals[q], output |-> <<l + 1, l + n>>]
        BY <3>1
      <4>2. <<l + 1, l + n>> \in Nat \X Nat
        OBVIOUS
      <4> HIDE DEF spot
      <4> QED BY <2>2, <4>1, <4>2 DEF Spots
    <3>3. Len(a.text \o o) = l + n
      BY <1>1, <3>1, TrailingConcat
    <3>4. SubSeq(a.text \o o, l + 1, l + n) = o
      <4>1. PICK b \in Text, x \in Nat, y \in Nat : b = a.text /\ x = l + 1 /\ y = l + n
        BY <1>1
      <4>2. /\ 1 \in Nat /\ 1 <= 1 /\ 1 <= n + 1 /\ n <= Len(o) /\ l = Len(b)
        BY <3>1, <4>1
      <4>3. SubSeq(b \o o, x, y) = SubSeq(o, 1, n)
        BY SMTT(30), <4>1, <4>2, SubRight
      <4>4. SubSeq(o, 1, Len(o)) = o
        BY TextIs, PrefixEnds
      <4> QED BY <3>1, <4>1, <4>3, <4>4
    <3>5. front <= l
      <4>1. front = 0 \/ Within(front, a.text)
        BY <1>3, <2>4
      <4> QED BY <3>1, <4>1 DEF Within
    <3>6. front < l + 1 /\ l + 1 <= (l + n) + 1 /\ l + n <= Len(a.text \o o)
      BY <3>3, <3>5
    <3> HIDE DEF spot
    <3>7. SubSeq(src, spot.source[1], spot.source[2]) = o
      BY <2>1, <3>2 DEF Origin
    <3> QED BY <2>3, <3>2, <3>4, <3>6, <3>7 DEF Exact
  <2>6. spot.source = p.originals[q]
    OBVIOUS
  <2> HIDE DEF spot
  <2>7. \A r \in e.regions : Exact(src, e.text, front, r)
    <3>1. \A r \in a.regions : Exact(src, e.text, front, r)
      BY <1>1, <1>3, <2>3, ExactGrows
    <3> QED BY <2>3, <2>5, <3>1
  <2>8. IsFiniteSet(e.regions)
    BY SMTT(30), <1>3, <2>3, FS_AddElement
  <2>9. {r.source : r \in e.regions} = {p.originals[j] : j \in e.emitted}
    <3>1. {r.source : r \in a.regions \cup {spot}} = {r.source : r \in a.regions} \cup {spot.source}
      OBVIOUS
    <3>2. {p.originals[j] : j \in a.emitted \cup {q}} = {p.originals[j] : j \in a.emitted} \cup {p.originals[q]}
      OBVIOUS
    <3> QED BY <1>3, <2>3, <2>6, <3>1, <3>2
  <2>10. e.emitted = {p.sections[j].para : j \in 1 .. m} \cap retained
    BY <1>2, <1>3, <1>10, <2>3
  <2> QED BY <2>4, <2>7, <2>8, <2>9, <2>10 DEF Regioned
<1> QED BY <1>8, <1>9, <1>10

LEMMA BodyRegions ==
  ASSUME NEW src, NEW p, NEW texts, NEW retained, Layout(p), Full(p, texts), Suits(src, p, retained),
         NEW front \in Nat, Fronted(p, front)
  PROVE  /\ Body(src, p, texts, retained) \in Bodied
         /\ Regioned(src, p, retained, front, Body(src, p, texts, retained), Len(p.sections))
<1>1. PICK b : Bodies(src, p, texts, retained, b)
  BY BodiesExist
<1>2. PICK n \in Nat : n = Len(p.sections)
  BY ListIs DEF Layout
<1> DEFINE I == {k \in 0 .. n : Regioned(src, p, retained, front, b[k], k)}
<1>3. b[0] = NoBody /\ \A k \in 0 .. n : b[k] \in Bodied
  BY <1>1, <1>2 DEF Bodies
<1>4. 0 \in I
  <2>1. IsFiniteSet({})
    BY FS_EmptySet
  <2>2. 1 .. 0 = {}
    OBVIOUS
  <2>3. Regioned(src, p, retained, front, NoBody, 0)
    BY <2>1, <2>2 DEF Regioned, NoBody
  <2> QED BY <1>3, <2>3
<1>5. ASSUME NEW k \in 0 .. n - 1, k \in I PROVE k + 1 \in I
  <2>1. PICK m \in 1 .. n : m = k + 1 /\ m - 1 = k /\ m \in 0 .. n /\ k \in 0 .. n
    OBVIOUS
  <2>2. PICK a \in Bodied : a = b[k]
    BY <1>3, <2>1
  <2>3. PICK e : e = b[m] /\ Grown(src, p, texts, retained, a, m, e)
    BY <1>1, <1>2, <2>1, <2>2 DEF Bodies
  <2>4. Regioned(src, p, retained, front, a, k)
    BY <1>5, <2>2
  <2>5. k = 0 => a = NoBody
    BY <1>3, <2>2
  <2>6. Regioned(src, p, retained, front, e, m)
    <3>1. m \in 1 .. Len(p.sections) /\ k \in Nat
      BY <1>2
    <3> HIDE DEF I
    <3> QED BY <2>1, <2>3, <2>4, <2>5, <3>1, RegionedGrows
  <2> QED BY <2>1, <2>3, <2>6
<1>6. \A k \in 0 .. n : k \in I
  <2> HIDE DEF I
  <2> QED BY <1>4, <1>5, Onward
<1>7. n \in I /\ n \in 0 .. n
  BY <1>6
<1> QED BY <1>1, <1>2, <1>3, <1>7 DEF Bodies

-----------------------------------------------------------------------------
(* The outcome.                                                            *)

OwnersOf(p, failed) == {Owner(p, i) : i \in failed}

\* Segments of p that may have exhausted their retries.
Fails(src, p, failed) ==
  /\ src \in Text /\ failed \subseteq Indexes(p)
  /\ failed # {} => Ordered(p, src)

LEMMA FailsSuit ==
  ASSUME NEW src, NEW p, NEW failed, Layout(p), Fails(src, p, failed)
  PROVE  Suits(src, p, OwnersOf(p, failed))
<1>1. CASE failed = {}
  BY <1>1 DEF Fails, Suits, OwnersOf
<1>2. CASE failed # {}
  <2>1. Ordered(p, src) /\ Laid(p.sections)
    BY <1>2 DEF Fails, Ordered
  <2>2. \A i \in Indexes(p) : Owner(p, i) \in Nat \ {0}
    BY <2>1, OwnersInOrder DEF Indexes
  <2> QED BY <2>1, <2>2 DEF Fails, Suits, OwnersOf
<1> QED BY <1>1, <1>2

\* Every failed segment has a section, so its owner is retained where it stands.
LEMMA AllEmitted ==
  ASSUME NEW src, NEW p, NEW failed, Layout(p), Fails(src, p, failed)
  PROVE  {p.sections[j].para : j \in 1 .. Len(p.sections)} \cap OwnersOf(p, failed) = OwnersOf(p, failed)
<1>1. ASSUME NEW i \in failed PROVE \E j \in 1 .. Len(p.sections) : p.sections[j].para = Owner(p, i)
  <2>1. i \in Indexes(p)
    BY DEF Fails
  <2>2. Start(p, i) \in 1 .. Len(p.sections)
    BY <2>1, SegmentAt DEF Indexes
  <2> QED BY <2>2 DEF Owner, Start
<1> QED BY <1>1 DEF OwnersOf

\* What an outcome f is, given the body.
Rendered(src, p, texts, failed, append, f) ==
  LET body == Body(src, p, texts, OwnersOf(p, failed))
  IN /\ f.text \in Text
     /\ \A r \in f.regions :
          SubSeq(f.text, r.output[1], r.output[2]) = SubSeq(src, r.source[1], r.source[2])
     /\ {r.source : r \in f.regions} = {p.originals[Owner(p, i)] : i \in failed}
     /\ failed = {} => f.text = body.text
     /\ append => \E tail \in Text : f.text = body.text \o tail

\* The first front atoms of the body are those of the first section.
FrontOf(p) ==
  IF p.sections[1].kind = "code" /\ FrontMarker(Lines(p.sections[1].text)[1])
  THEN Len(p.sections[1].text) ELSE 0

LEMMA FrontFits ==
  ASSUME NEW p, Layout(p), Laid(p.sections), 1 \in 1 .. Len(p.sections)
  PROVE  FrontOf(p) \in Nat /\ Fronted(p, FrontOf(p))
<1>1. p.sections[1].text \in Text /\ p.sections[1].go \in BOOLEAN
  BY SectionIs
<1>2. Len(p.sections[1].text) \in Nat
  BY <1>1, RequestIs
<1>3. p.sections[1].kind = "code" => ~p.sections[1].go /\ p.sections[1].para = 0
  BY <1>1 DEF Laid
<1> QED BY <1>2, <1>3 DEF FrontOf, Fronted

LEMMA NoticeIs ==
  ASSUME NEW n \in Nat
  PROVE  Notice \o Join([i \in 1 .. n |-> Notice]) \in Text
<1>1. Notice \in Text
  BY DEF Notice, Text, Atom
<1> DEFINE ts == [i \in 1 .. n |-> Notice]
<1>2. ts = [i \in 1 .. n |-> ts[i]] /\ \A i \in 1 .. n : ts[i] \in Text
  BY <1>1
<1> HIDE DEF ts
<1>3. ts \in Lists(Text)
  BY <1>2, ListOf
<1>4. Join(ts) \in Text
  BY <1>3, TextIs, JoinType
<1>5. Notice \o Join(ts) \in Text
  BY <1>1, <1>4, TrailingConcat
<1> QED BY <1>5 DEF ts

\* The text and the regions when a text goes in after front.
Inserted(body, front, c, f) ==
  /\ f.text = (SubSeq(body.text, 1, front) \o c) \o SubSeq(body.text, front + 1, Len(body.text))
  /\ f.regions = {Moved(r, Len(c)) : r \in body.regions}

\* What is known of the body when it becomes the outcome f.
Shaped(src, p, texts, failed, append, body, front, f) ==
  /\ body = Body(src, p, texts, OwnersOf(p, failed)) /\ front = FrontOf(p)
  /\ body \in Bodied /\ IsFiniteSet(body.regions) /\ Within(front, body.text)
  /\ f = Finalize(src, p, texts, failed, append)

\* How the notice joins the body.
Closed(body, append, front, f) ==
  /\ body.regions = {} => f.text = body.text /\ f.regions = {}
  /\ body.regions # {} /\ append => f.regions = body.regions /\ \E c \in Text : f.text = body.text \o c
  /\ body.regions # {} /\ ~append => \E c \in Text : Inserted(body, front, c, f)

LEMMA TextAssoc ==
  ASSUME NEW a \in Text, NEW b \in Text, NEW c \in Text
  PROVE  (a \o b) \o c = a \o (b \o c)
  BY TextIs, ConcatAssoc

LEMMA ShortNewlines == <<>> \in Text /\ <<"n">> \in Text /\ <<"n", "n">> \in Text
  BY DEF Text, Atom

LEMMA FinalizeCases ==
  ASSUME NEW src, NEW p, NEW texts, NEW failed, NEW append \in BOOLEAN, NEW body, NEW front \in Nat,
         NEW f, Shaped(src, p, texts, failed, append, body, front, f)
  PROVE  Closed(body, append, front, f)
<1>1. PICK notice \in Text : notice = Notice \o Join([i \in 1..Cardinality(body.regions) |-> Notice])
  <2>1. Cardinality(body.regions) \in Nat
    BY FS_CardinalityType DEF Shaped
  <2> QED BY <2>1, NoticeIs
<1>2. body.text \in Text /\ Within(front, body.text)
  BY DEF Bodied, Shaped
<1>3. PICK gap \in Text : gap = IF front > 0 /\ Trailing(SubSeq(body.text, 1, front)) < 2 THEN <<"n">> ELSE <<>>
  BY ShortNewlines
<1>4. PICK ending \in Text : ending = IF Trailing(body.text) < 2 THEN <<"n", "n">> ELSE <<>>
  BY ShortNewlines
<1>5. f = CASE body.regions = {} -> [text |-> body.text, regions |-> {}]
         [] body.regions # {} /\ append ->
                [text |-> body.text \o ending \o notice, regions |-> body.regions]
         [] OTHER ->
                [text |-> SubSeq(body.text, 1, front) \o gap \o notice
                            \o SubSeq(body.text, front + 1, Len(body.text)),
                 regions |-> Shift(body.regions, Len(gap \o notice))]
  BY <1>1, <1>3, <1>4 DEF Finalize, FrontOf, OwnersOf, Shaped
<1>6. CASE body.regions = {}
  BY <1>5, <1>6 DEF Closed
<1>7. CASE body.regions # {} /\ append
  <2>1. f.text = (body.text \o ending) \o notice /\ f.regions = body.regions
    BY <1>5, <1>7
  <2>2. ending \o notice \in Text
    BY TrailingConcat
  <2>3. (body.text \o ending) \o notice = body.text \o (ending \o notice)
    BY <1>2, TextAssoc
  <2> QED BY <1>7, <2>1, <2>2, <2>3 DEF Closed
<1>8. CASE body.regions # {} /\ ~append
  <2> DEFINE B == SubSeq(body.text, front + 1, Len(body.text))
  <2>1. PICK A \in Text : A = SubSeq(body.text, 1, front)
    <3>1. PICK n \in Nat : n = Len(body.text) /\ front <= n /\ 1 <= front + 1
      BY <1>2, RequestIs DEF Within
    <3>2. SubSeq(body.text, 1, front) \in Text
      <4>1. 1 \in Nat /\ 1 <= 1
        OBVIOUS
      <4> QED BY <1>2, <3>1, <4>1, TextIs, SubIs
    <3> QED BY <3>2
  <2>2. f.text = ((A \o gap) \o notice) \o B /\ f.regions = Shift(body.regions, Len(gap \o notice))
    BY <1>5, <1>8, <2>1
  <2>3. gap \o notice \in Text
    BY TrailingConcat
  <2>4. (A \o gap) \o notice = A \o (gap \o notice)
    BY TextAssoc
  <2>5. Inserted(body, front, gap \o notice, f)
    BY <2>1, <2>2, <2>4 DEF Inserted, Shift, Moved
  <2> QED BY <1>8, <2>3, <2>5 DEF Closed
<1> QED BY <1>6, <1>7, <1>8 DEF Closed

LEMMA FinalizeIs ==
  ASSUME NEW src, NEW p, NEW texts, NEW failed, NEW append \in BOOLEAN, Layout(p), Full(p, texts),
         Fails(src, p, failed)
  PROVE  Rendered(src, p, texts, failed, append, Finalize(src, p, texts, failed, append))
<1>1. PICK body : body = Body(src, p, texts, OwnersOf(p, failed))
  OBVIOUS
<1>2. PICK f : f = Finalize(src, p, texts, failed, append)
  OBVIOUS
<1>3. Suits(src, p, OwnersOf(p, failed))
  BY FailsSuit
<1>4. ASSUME NEW front \in Nat, Fronted(p, front)
      PROVE  /\ body \in Bodied /\ IsFiniteSet(body.regions) /\ (Len(p.sections) # 0 => Within(front, body.text))
             /\ \A r \in body.regions : Exact(src, body.text, front, r)
             /\ {r.source : r \in body.regions} = {p.originals[Owner(p, i)] : i \in failed}
  <2>1. body \in Bodied /\ Regioned(src, p, OwnersOf(p, failed), front, body, Len(p.sections))
    BY <1>1, <1>3, <1>4, BodyRegions
  <2>2. body.emitted = OwnersOf(p, failed)
    BY <2>1, AllEmitted DEF Regioned
  <2>3. {p.originals[q] : q \in OwnersOf(p, failed)} = {p.originals[Owner(p, i)] : i \in failed}
    BY DEF OwnersOf
  <2> QED BY <2>1, <2>2, <2>3 DEF Regioned
<1>5. CASE failed = {}
  <2>1. 0 \in Nat /\ Fronted(p, 0)
    BY DEF Fronted
  <2>2. body \in Bodied /\ {r.source : r \in body.regions} = {}
    BY <1>4, <1>5, <2>1
  <2>3. body.regions = {} /\ body.text \in Text
    BY <2>2 DEF Bodied
  <2>4. f.text = body.text /\ f.regions = {}
    BY <1>1, <1>2, <2>3 DEF Finalize, OwnersOf
  <2>5. body.text = body.text \o <<>> /\ <<>> \in Text
    BY <2>3, ConcatNone, TextIs, RequestEmpty
  <2> QED BY <1>1, <1>2, <1>5, <2>3, <2>4, <2>5 DEF Rendered
<1>6. CASE failed # {}
  <2>1. Laid(p.sections)
    BY <1>6 DEF Fails, Ordered
  <2>2. 1 \in 1 .. Len(p.sections) /\ Len(p.sections) # 0
    <3>1. PICK i \in Indexes(p) : i \in failed
      BY <1>6 DEF Fails
    <3>2. Start(p, i) \in 1 .. Len(p.sections) /\ Len(p.sections) \in Nat
      BY SegmentAt DEF Indexes
    <3> QED BY <3>2
  <2>3. PICK front \in Nat : front = FrontOf(p) /\ Fronted(p, front)
    BY <2>1, <2>2, FrontFits
  <2>4. /\ body \in Bodied /\ IsFiniteSet(body.regions) /\ Within(front, body.text)
        /\ \A r \in body.regions : Exact(src, body.text, front, r)
        /\ {r.source : r \in body.regions} = {p.originals[Owner(p, i)] : i \in failed}
    BY <1>4, <2>2, <2>3
  <2>5. body.text \in Text
    BY <2>4 DEF Bodied
  <2>6. \A r \in body.regions :
          SubSeq(body.text, r.output[1], r.output[2]) = SubSeq(src, r.source[1], r.source[2])
    BY <2>4 DEF Exact
  <2>7. Closed(body, append, front, f)
    <3>1. Shaped(src, p, texts, failed, append, body, front, f)
      BY <1>1, <1>2, <2>3, <2>4 DEF Shaped
    <3> QED BY <3>1, FinalizeCases
  <2>8. body.regions # {}
    <3>1. {p.originals[Owner(p, i)] : i \in failed} # {}
      BY <1>6
    <3> QED BY <2>4, <3>1
  <2>9. CASE append
    <3>1. PICK c \in Text : f.text = body.text \o c /\ f.regions = body.regions
      BY <2>7, <2>8, <2>9 DEF Closed
    <3>2. f.text \in Text
      BY <2>5, <3>1, TrailingConcat
    <3>3. ASSUME NEW r \in f.regions
          PROVE  SubSeq(f.text, r.output[1], r.output[2]) = SubSeq(src, r.source[1], r.source[2])
      <4>1. Exact(src, f.text, front, r)
        BY <2>4, <2>5, <3>1, ExactGrows
      <4> QED BY <4>1 DEF Exact
    <3> QED BY <1>1, <1>2, <1>6, <2>4, <3>1, <3>2, <3>3 DEF Rendered
  <2>10. CASE ~append
    <3>1. PICK c \in Text : Inserted(body, front, c, f)
      BY <2>7, <2>8, <2>10 DEF Closed
    <3>2. f.text \in Text
      <4>1. PICK n \in Nat : n = Len(body.text) /\ front <= n
        BY <2>4, <2>5, RequestIs DEF Within
      <4>2. SubSeq(body.text, 1, front) \in Text
        <5>1. 1 \in Nat /\ 1 <= front + 1 /\ 1 <= 1
          OBVIOUS
        <5> QED BY <2>5, <4>1, <5>1, TextIs, SubIs
      <4>3. SubSeq(body.text, front + 1, Len(body.text)) \in Text
        <5>1. PICK m \in Nat : m = front + 1 /\ 1 <= m /\ m <= n + 1 /\ n <= n
          BY <4>1
        <5>2. SubSeq(body.text, m, n) \in Text
          BY <2>5, <4>1, <5>1, TextIs, SubIs
        <5> QED BY <4>1, <5>1, <5>2
      <4>4. SubSeq(body.text, 1, front) \o c \in Text
        BY <4>2, TrailingConcat
      <4>5. (SubSeq(body.text, 1, front) \o c) \o SubSeq(body.text, front + 1, Len(body.text)) \in Text
        BY <4>3, <4>4, TrailingConcat
      <4> QED BY <3>1, <4>5 DEF Inserted
    <3>3. ASSUME NEW r \in body.regions
          PROVE  /\ Exact(src, f.text, front, Moved(r, Len(c)))
                 /\ Moved(r, Len(c)).source = r.source
      BY <2>4, <2>5, <3>1, ExactShifts DEF Inserted
    <3>4. ASSUME NEW s \in f.regions
          PROVE  SubSeq(f.text, s.output[1], s.output[2]) = SubSeq(src, s.source[1], s.source[2])
      <4>1. PICK r \in body.regions : s = Moved(r, Len(c))
        BY <3>1 DEF Inserted
      <4>2. Exact(src, f.text, front, s)
        BY <3>3, <4>1
      <4> QED BY <4>2 DEF Exact
    <3>5. {s.source : s \in f.regions} = {r.source : r \in body.regions}
      BY <3>1, <3>3 DEF Inserted
    <3> QED BY <1>1, <1>2, <1>6, <2>4, <2>10, <3>2, <3>4, <3>5 DEF Rendered
  <2> QED BY <2>9, <2>10
<1> QED BY <1>5, <1>6

-----------------------------------------------------------------------------
(* The texts of an invocation.                                             *)

\* The segments with a text, those that exhausted their retries, and the outcome.
Filled ==
  /\ Given(plan, got)
  /\ kept \subseteq Indexes(plan) /\ \A i \in kept : got[i] # NoText
  /\ IsJson(source) \/ mode = "Optimistic" => kept = {}
  /\ status = "done" => /\ \A i \in Indexes(plan) : got[i] # NoText
                        /\ final = Finalize(source, plan, got, kept, mode = "Paragraph")

LEMMA TextsIn ==
  ASSUME NEW p, Layout(p), NEW i \in Indexes(p)
  PROVE  Texts(p, i) \subseteq Text
<1>1. p.segments[i].text \in Text
  BY SegmentAt DEF Indexes
<1> QED BY <1>1, OutputAssumption DEF Texts

LEMMA GivenWith ==
  ASSUME NEW p, Layout(p), NEW texts, Given(p, texts), NEW i \in Indexes(p), NEW t \in Text
  PROVE  /\ Given(p, [texts EXCEPT ![i] = t])
         /\ \A j \in Indexes(p) : [texts EXCEPT ![i] = t][j] = IF j = i THEN t ELSE texts[j]
<1> DEFINE more == [texts EXCEPT ![i] = t]
<1>1. PICK N \in Nat : N = Len(p.segments) /\ N = Len(texts) /\ DOMAIN texts = 1 .. N
                       /\ Indexes(p) = 1 .. N /\ texts = [j \in 1 .. N |-> texts[j]]
  BY GivenAt, ListIs DEF Indexes, Given
<1>2. \A j \in 1 .. N : texts[j] \in Text \cup {NoText}
  BY <1>1, GivenAt
<1>3. more = [j \in 1 .. N |-> more[j]] /\ \A j \in 1 .. N : more[j] = IF j = i THEN t ELSE texts[j]
  BY <1>1
<1> HIDE DEF more
<1>4. more \in Lists(Text \cup {NoText}) /\ Len(more) = N
  <2>1. \A j \in 1 .. N : more[j] \in Text \cup {NoText}
    BY <1>2, <1>3
  <2> QED BY <1>3, <2>1, ListOf
<1> QED BY <1>1, <1>3, <1>4 DEF Given, more

LEMMA FilledInit ==
  ASSUME Init, Prepared
  PROVE  Filled
<1>1. Layout(plan)
  BY LaidOut
<1>2. PICK N \in Nat : N = Len(plan.segments) /\ DOMAIN plan.segments = 1 .. N /\ Indexes(plan) = 1 .. N
  BY <1>1, ListIs DEF Layout, Indexes
<1>3. PICK hits \in SUBSET DOMAIN plan.segments :
        got \in {f \in [DOMAIN plan.segments -> {NoText} \cup UNION {Texts(plan, i) : i \in hits}] :
                    \A i \in DOMAIN f : f[i] \in (IF i \in hits THEN Texts(plan, i) ELSE {NoText})}
  BY DEF Init
<1>4. got = [i \in 1 .. N |-> got[i]] /\ \A i \in 1 .. N : got[i] \in Text \cup {NoText}
  <2>1. PICK U : U = {NoText} \cup UNION {Texts(plan, i) : i \in hits}
    OBVIOUS
  <2>2. U \subseteq Text \cup {NoText}
    <3>1. \A i \in hits : i \in Indexes(plan)
      BY <1>2
    <3>2. \A i \in hits : Texts(plan, i) \subseteq Text
      BY <1>1, <3>1, TextsIn
    <3>3. ASSUME NEW x \in U PROVE x \in Text \cup {NoText}
      <4>1. CASE x \in UNION {Texts(plan, i) : i \in hits}
        <5>1. PICK i \in hits : x \in Texts(plan, i)
          BY <4>1
        <5>2. x \in Text
          BY <3>2, <5>1
        <5> QED BY <5>2
      <4>2. x \in UNION {Texts(plan, i) : i \in hits} \/ x = NoText
        BY <2>1, <3>3, Zenon
      <4> QED BY <4>1, <4>2
    <3> QED BY <3>3
  <2>3. got \in [1 .. N -> U]
    BY <1>2, <1>3, <2>1
  <2> QED BY <2>2, <2>3
<1>5. got \in Lists(Text \cup {NoText}) /\ Len(got) = N
  BY <1>4, ListOf
<1>6. kept = {} /\ status # "done"
  BY DEF Init
<1> QED BY <1>2, <1>5, <1>6 DEF Filled, Given

LEMMA FilledNext ==
  ASSUME Prepared, Filled, [Next]_vars
  PROVE  Filled'
<1>1. Layout(plan) /\ source \in Text
      /\ (IsJson(source) /\ status # "refused" =>
              \A i \in Indexes(plan) : IsJson(plan.segments[i].text))
  BY LaidOut DEF Indexes
<1>2. DOMAIN got = Indexes(plan) /\ Given(plan, got)
  BY GivenAt DEF Filled, Indexes
<1>3. CASE Show \/ UNCHANGED vars
  <2>1. UNCHANGED <<source, mode, plan, got, kept, final, status>>
    BY <1>3 DEF Show, vars
  <2> QED BY <2>1 DEF Filled, Given, Indexes
<1>4. ASSUME NEW i \in DOMAIN got, Complete(i) PROVE Filled'
  <2>1. PICK t \in Text : got' = [got EXCEPT ![i] = t] /\ UNCHANGED <<source, mode, plan, kept, final, status>>
                          /\ status = "running"
    BY <1>1, <1>2, <1>4, TextsIn DEF Complete
  <2>2. Given(plan, got') /\ \A j \in Indexes(plan) : got'[j] = IF j = i THEN t ELSE got[j]
    BY <1>1, <1>2, <2>1, GivenWith
  <2>3. t # NoText
    BY OutputAssumption
  <2> QED BY <2>1, <2>2, <2>3 DEF Filled, Given, Indexes
<1>5. ASSUME NEW i \in DOMAIN got, Retain(i) PROVE Filled'
  <2>1. PICK t \in Text : t = plan.segments[i].text
    BY <1>1, <1>2, SegmentAt DEF Indexes
  <2>2. /\ got' = [got EXCEPT ![i] = t] /\ UNCHANGED <<source, mode, plan, final, status>>
        /\ status = "running" /\ mode # "Optimistic" /\ ~IsJson(t) /\ kept' = kept \cup {i}
    BY <1>5, <2>1 DEF Retain
  <2>3. Given(plan, got') /\ \A j \in Indexes(plan) : got'[j] = IF j = i THEN t ELSE got[j]
    BY <1>1, <1>2, <2>2, GivenWith
  <2>4. t # NoText
    BY OutputAssumption
  <2>5. ~IsJson(source)
    BY <1>1, <1>2, <2>1, <2>2
  <2>6. kept' \subseteq Indexes(plan) /\ \A j \in kept' : got'[j] # NoText
    BY <1>2, <2>2, <2>3, <2>4 DEF Filled
  <2>7. Indexes(plan)' = Indexes(plan) /\ Given(plan, got)' = Given(plan, got')
    BY <2>2 DEF Indexes, Given
  <2> QED BY <2>2, <2>3, <2>5, <2>6, <2>7 DEF Filled
<1>6. CASE Finish
  <2>1. /\ UNCHANGED <<source, mode, plan, got, kept>> /\ status' = "done"
        /\ \A i \in DOMAIN got : got[i] # NoText
        /\ final' = Finalize(source, plan, got, kept, mode = "Paragraph")
    BY <1>6 DEF Finish
  <2>2. /\ Given(plan, got)' /\ Indexes(plan)' = Indexes(plan)
        /\ Finalize(source, plan, got, kept, mode = "Paragraph")' = Finalize(source, plan, got, kept, mode = "Paragraph")
    BY <1>2, <2>1 DEF Given, Indexes
  <2> QED BY <1>2, <2>1, <2>2 DEF Filled
<1> QED BY <1>3, <1>4, <1>5, <1>6 DEF Next

LEMMA FilledHolds == Spec => [](Prepared /\ Filled)
<1>1. Init => Prepared /\ Filled
  BY PreparedInit, FilledInit
<1>2. Prepared /\ Filled /\ [Next]_vars => (Prepared /\ Filled)'
  BY PreparedNext, FilledNext
<1> QED BY <1>1, <1>2, PTL DEF Spec

LEMMA FullWhen ==
  ASSUME NEW p, NEW texts, Given(p, texts), \A i \in Indexes(p) : texts[i] # NoText
  PROVE  Full(p, texts)
<1>1. PICK N \in Nat : N = Len(p.segments) /\ N = Len(texts) /\ Indexes(p) = 1 .. N
                       /\ texts = [j \in 1 .. N |-> texts[j]]
  BY GivenAt, ListIs DEF Indexes, Given
<1>2. \A j \in 1 .. N : texts[j] \in Text
  BY <1>1, GivenAt
<1> QED BY <1>1, <1>2, ListOf DEF Full

LEMMA FilledFails ==
  ASSUME Prepared, Filled
  PROVE  Layout(plan) /\ Fails(source, plan, kept)
<1>1. Layout(plan) /\ source \in Text /\ (~IsJson(source) => Ordered(plan, source))
  BY LaidOut
<1> QED BY <1>1 DEF Filled, Fails

LEMMA DoneRendered ==
  ASSUME Prepared, Filled, status = "done"
  PROVE  Full(plan, got) /\ Rendered(source, plan, got, kept, mode = "Paragraph", final)
<1>1. Full(plan, got)
  BY FullWhen DEF Filled
<1>2. (mode = "Paragraph") \in BOOLEAN
  OBVIOUS
<1>3. Rendered(source, plan, got, kept, mode = "Paragraph", Finalize(source, plan, got, kept, mode = "Paragraph"))
  BY <1>1, <1>2, FilledFails, FinalizeIs
<1> QED BY <1>1, <1>3 DEF Filled

\* The regions an outcome reports are the untranslated paragraphs, one for each
\* owner of a segment that exhausted its retries, with the same bytes in the
\* document and in the output, wherever the notice goes (reconstruct_with_retained
\* and the insertion of the notice in translate.rs).
THEOREM RegionsExactHolds == Spec => []RegionsExact
<1>1. Prepared /\ Filled => RegionsExact
  BY DoneRendered DEF RegionsExact, Rendered
<1> QED BY <1>1, FilledHolds, PTL

-----------------------------------------------------------------------------
(* What stretches of sections add to the body.                             *)

LEMMA BodyAt ==
  ASSUME NEW src, NEW p, NEW texts, NEW retained, NEW b, Bodies(src, p, texts, retained, b), Layout(p)
  PROVE  /\ Len(p.sections) \in Nat /\ b[0] = NoBody
         /\ \A k \in 0 .. Len(p.sections) : b[k] \in Bodied /\ b[k].text \in Text
         /\ \A k \in 1 .. Len(p.sections) : Grown(src, p, texts, retained, b[k - 1], k, b[k])
<1>1. Len(p.sections) \in Nat
  BY ListIs DEF Layout
<1> QED BY <1>1 DEF Bodies, Bodied

LEMMA Climb ==
  ASSUME NEW x \in Nat, NEW z \in Nat, NEW I, x \in I,
         \A k \in x .. z : k < z /\ k \in I => k + 1 \in I
  PROVE  \A k \in x .. z : k \in I
<1>1. CASE z < x
  BY <1>1
<1>2. CASE x <= z
  <2> DEFINE J == {j \in Nat : x + j \in I}
  <2>1. PICK n \in Nat : n = z - x
    BY <1>2
  <2>2. 0 \in J
    OBVIOUS
  <2>3. ASSUME NEW j \in 0 .. n - 1, j \in J PROVE j + 1 \in J
    <3>1. x + j \in x .. z /\ x + j < z /\ x + j \in I /\ (x + j) + 1 = x + (j + 1)
      BY <2>1, <2>3
    <3>2. (x + j) + 1 \in I
      BY <3>1
    <3> QED BY <3>1, <3>2
  <2>4. \A j \in 0 .. n : j \in J
    <3> HIDE DEF J
    <3> QED BY <2>2, <2>3, Onward
  <2>5. ASSUME NEW k \in x .. z PROVE k \in I
    <3>1. k - x \in 0 .. n /\ x + (k - x) = k
      BY <2>1
    <3>2. k - x \in J
      BY <2>4, <3>1
    <3> QED BY <3>1, <3>2
  <2> QED BY <2>5
<1> QED BY <1>1, <1>2

\* Sections m to k, of which there may be none, are not to be translated, and
\* their paragraphs not retained.
Literal(p, retained, m, k) ==
  /\ m \in 1 .. Len(p.sections) + 1 /\ k \in m - 1 .. Len(p.sections)
  /\ \A j \in m .. k : ~p.sections[j].go /\ p.sections[j].para \notin retained

\* A section by itself, or none.
LEMMA SectionsGrow ==
  ASSUME NEW p, Layout(p), NEW m \in Nat \ {0}, NEW j \in m - 1 .. Len(p.sections) - 1
  PROVE  /\ SectionsOf(p, m, j + 1) = SectionsOf(p, m, j) \o p.sections[j + 1].text
         /\ SectionsOf(p, m, j + 1) \in Text /\ SectionsOf(p, m, j) \in Text
<1>1. p.sections \in Lists(Sections) /\ Len(p.sections) \in Nat
  BY ListIs DEF Layout
<1>2. PICK k \in 1 .. Len(p.sections) : k = j + 1 /\ k \in Nat
  BY <1>1
<1>3. /\ m \in Nat /\ j \in Nat /\ 1 <= m /\ m <= j + 1 /\ j <= k /\ k <= Len(p.sections)
  BY <1>1, <1>2
<1>4. /\ Source(SubSeq(p.sections, m, k)) = Source(SubSeq(p.sections, m, j)) \o Source(SubSeq(p.sections, j + 1, k))
      /\ Source(SubSeq(p.sections, m, k)) \in Text /\ Source(SubSeq(p.sections, m, j)) \in Text
  <2>1. PICK ss \in Lists(Sections), h \in Nat : ss = p.sections /\ h = j
    BY <1>1, <1>3
  <2>2. 1 <= m /\ m <= h + 1 /\ h <= k /\ k <= Len(ss) /\ m \in Nat /\ k \in Nat
    BY <1>2, <1>3, <2>1
  <2>3. /\ Source(SubSeq(ss, m, k)) = Source(SubSeq(ss, m, h)) \o Source(SubSeq(ss, h + 1, k))
        /\ Source(SubSeq(ss, m, k)) \in Text /\ Source(SubSeq(ss, m, h)) \in Text
    BY <2>2, SourceCut
  <2> QED BY <2>1, <2>3
<1>5. Source(SubSeq(p.sections, k, k)) = p.sections[k].text
  BY <1>1, SourceOne
<1> QED BY <1>2, <1>4, <1>5 DEF SectionsOf

LEMMA SectionsNone ==
  ASSUME NEW p, Layout(p), NEW m \in 1 .. Len(p.sections) + 1
  PROVE  SectionsOf(p, m, m - 1) = <<>>
<1>1. p.sections \in Lists(Sections) /\ Len(p.sections) \in Nat
  BY ListIs DEF Layout
<1>2. PICK j \in Nat : j = m - 1 /\ m = j + 1 /\ j <= Len(p.sections) /\ 1 <= m /\ m \in Nat /\ m <= j + 1
  BY <1>1
<1>3. /\ SubSeq(p.sections, m, j) \in Lists(Sections) /\ Len(SubSeq(p.sections, m, j)) = j - m + 1
  BY <1>1, <1>2, SubIs
<1>4. SubSeq(p.sections, m, j) = <<>>
  BY <1>2, <1>3, ListIs
<1> QED BY <1>2, <1>4, SourceNone DEF SectionsOf

\* What the sections from x to z add to the body b.
Adds(b, x, z, t) == b[z].text = b[x - 1].text \o t

LEMMA LiteralAdds ==
  ASSUME NEW src, NEW p, NEW texts, NEW retained, NEW b, Bodies(src, p, texts, retained, b),
         Layout(p), Full(p, texts), NEW m, NEW k, Literal(p, retained, m, k)
  PROVE  Adds(b, m, k, SectionsOf(p, m, k))
<1>1. PICK n \in Nat : n = Len(p.sections)
  BY BodyAt
<1>2. PICK l \in Nat : l = m - 1 /\ l \in 0 .. n /\ m \in Nat \ {0} /\ k \in l .. n /\ k \in Nat
  BY <1>1 DEF Literal
<1>3. b[l].text \in Text
  BY <1>1, <1>2, BodyAt
<1> DEFINE I == {j \in l .. k : b[j].text = b[l].text \o SectionsOf(p, m, j)}
<1>4. l \in I
  <2>1. SectionsOf(p, m, m - 1) = <<>>
    BY SectionsNone DEF Literal
  <2>2. b[l].text \o <<>> = b[l].text
    BY <1>3, ConcatNone, TextIs
  <2>3. SectionsOf(p, m, l) = <<>> /\ l \in l .. k
    BY <1>2, <2>1
  <2> QED BY <2>2, <2>3
<1>5. ASSUME NEW y \in l .. k, y < k, y \in I PROVE y + 1 \in I
  <2>1. PICK x \in m .. k : x = y + 1 /\ x \in 1 .. n /\ x - 1 = y /\ y \in m - 1 .. n - 1
    BY <1>2, <1>5
  <2>2. b[y].text = b[l].text \o SectionsOf(p, m, y)
    BY <1>5
  <2> HIDE DEF I
  <2>3. ~p.sections[x].go /\ p.sections[x].para \notin retained
    BY DEF Literal
  <2>4. b[x].text = b[y].text \o p.sections[x].text
    <3>1. Grown(src, p, texts, retained, b[y], x, b[x])
      BY <1>1, <2>1, BodyAt
    <3>2. b[x].text = b[y].text \o Parts(p, texts)[x]
      BY <2>3, <3>1 DEF Grown
    <3>3. Parts(p, texts)[x] = p.sections[x].text
      BY <1>1, <2>1, <2>3, LiteralPart
    <3> QED BY <3>2, <3>3
  <2>5. /\ SectionsOf(p, m, x) = SectionsOf(p, m, y) \o p.sections[x].text
        /\ SectionsOf(p, m, y) \in Text
    BY <1>1, <1>2, <2>1, SectionsGrow
  <2>6. p.sections[x].text \in Text
    BY <1>1, <2>1, SectionIs
  <2>7. PICK s \in Text, t \in Text, u \in Text : s = b[l].text /\ t = SectionsOf(p, m, y) /\ u = p.sections[x].text
    BY <1>3, <2>5, <2>6
  <2>8. (s \o t) \o u = s \o (t \o u)
    BY TextAssoc
  <2>9. b[x].text = b[l].text \o SectionsOf(p, m, x)
    BY <2>2, <2>4, <2>5, <2>7, <2>8
  <2>10. x \in l .. k
    BY <1>2, <2>1
  <2> QED BY <2>1, <2>9, <2>10 DEF I
<1>6. \A j \in l .. k : j \in I
  <2> HIDE DEF I
  <2> QED BY <1>2, <1>4, <1>5, Climb
<1>7. k \in l .. k
  BY <1>2
<1> QED BY <1>2, <1>6, <1>7 DEF Adds

\* A group that is translated adds what was collected of it.
LEMMA GroupAdds ==
  ASSUME NEW src, NEW p, NEW texts, NEW retained, NEW b, Bodies(src, p, texts, retained, b),
         Layout(p), Full(p, texts), NEW R, Collected(p, texts, R, Len(p.segments)),
         NEW i \in Indexes(p), Ending(p, i), Owner(p, i) \notin retained
  PROVE  Adds(b, Start(p, i), Stop(p, i), R[i])
<1>1. PICK n \in Nat : n = Len(p.sections)
  BY BodyAt
<1>2. PICK l \in Nat, x \in 1 .. n, z \in 1 .. n :
        l = x - 1 /\ l \in 0 .. n /\ x = Start(p, i) /\ z = Stop(p, i) /\ x <= z /\ x \in x .. z /\ z \in x .. z
        /\ x \in Nat /\ z \in Nat
  <2>1. Start(p, i) \in 1 .. n /\ Stop(p, i) \in 1 .. n /\ Start(p, i) <= Stop(p, i)
    BY <1>1, SegmentAt DEF Indexes
  <2>2. Start(p, i) - 1 \in Nat /\ Start(p, i) - 1 \in 0 .. n
    BY <2>1
  <2> QED BY <2>1, <2>2
<1>3. \A k \in x .. z : p.sections[k].para \notin retained
  BY <1>2 DEF Layout, Indexes
<1>4. b[l].text \in Text /\ R[i] \in Text
  BY <1>1, <1>2, BodyAt DEF Collected, Indexes
<1>5. ASSUME NEW k \in x .. z
      PROVE  /\ b[k].text = b[k - 1].text \o Parts(p, texts)[k]
             /\ k = x => Parts(p, texts)[k] = R[i]
             /\ k # x => Parts(p, texts)[k] = <<>>
  <2>1. k \in 1 .. n
    BY <1>2
  <2>2. Grown(src, p, texts, retained, b[k - 1], k, b[k])
    BY <1>1, <2>1, BodyAt
  <2>3. b[k].text = b[k - 1].text \o Parts(p, texts)[k]
    BY <1>3, <2>2 DEF Grown
  <2>4. k \in Start(p, i) .. Stop(p, i) /\ k \in 1 .. Len(p.sections) /\ (k = x <=> k = Start(p, i))
    BY <1>1, <1>2, <2>1
  <2>5. k = Start(p, i) => Parts(p, texts)[k] = R[i]
    BY <2>4, PartIs
  <2>6. k # Start(p, i) => Parts(p, texts)[k] = <<>>
    BY <2>4, PartIs
  <2> QED BY <2>3, <2>4, <2>5, <2>6
<1> DEFINE I == {j \in x .. z : b[j].text = b[l].text \o R[i]}
<1>6. x \in I
  BY <1>2, <1>5
<1>7. ASSUME NEW y \in x .. z, y < z, y \in I PROVE y + 1 \in I
  <2>1. PICK k \in x .. z : k = y + 1 /\ k - 1 = y /\ k # x /\ y \in 0 .. n
    BY <1>2, <1>7
  <2>2. b[k].text = b[y].text \o <<>>
    BY <1>5, <2>1
  <2>3. b[y].text \in Text
    BY <1>1, <2>1, BodyAt
  <2>4. b[k].text = b[y].text
    <3>1. PICK t \in Text : t = b[y].text
      BY <2>3
    <3>2. t \o <<>> = t
      BY ConcatNone, TextIs
    <3> QED BY <2>2, <3>1, <3>2
  <2> QED BY <1>7, <2>1, <2>4
<1>8. \A j \in x .. z : j \in I
  <2> HIDE DEF I
  <2> QED BY <1>2, <1>6, <1>7, Climb
<1>9. b[z].text = b[l].text \o R[i]
  BY <1>2, <1>8
<1> QED BY <1>2, <1>9 DEF Adds

\* Only paragraphs of sections passed are in the body.
LEMMA EmittedPassed ==
  ASSUME NEW src, NEW p, NEW texts, NEW retained, NEW b, Bodies(src, p, texts, retained, b),
         Layout(p), NEW k \in 0 .. Len(p.sections), NEW q \in b[k].emitted
  PROVE  \E j \in 1 .. k : p.sections[j].para = q
<1>1. PICK n \in Nat : n = Len(p.sections)
  BY BodyAt
<1> DEFINE J(m) == \A r \in b[m].emitted : \E j \in 1 .. m : p.sections[j].para = r
           I == {m \in 0 .. n : J(m)}
<1>2. 0 \in I
  BY BodyAt DEF NoBody
<1>3. ASSUME NEW m \in 0 .. n - 1, m \in I PROVE m + 1 \in I
  <2>1. PICK x \in 1 .. n : x = m + 1 /\ x - 1 = m /\ m \in 0 .. n
    OBVIOUS
  <2>2. Grown(src, p, texts, retained, b[m], x, b[x])
    BY <1>1, <2>1, BodyAt
  <2>3. b[x].emitted \subseteq b[m].emitted \cup {p.sections[x].para}
    BY <2>2 DEF Grown
  <2>4. ASSUME NEW r \in b[x].emitted PROVE \E j \in 1 .. x : p.sections[j].para = r
    <3>1. CASE r = p.sections[x].para
      <4>1. x \in 1 .. x
        OBVIOUS
      <4> QED BY <3>1, <4>1
    <3>2. CASE r \in b[m].emitted
      <4>1. PICK j \in 1 .. m : p.sections[j].para = r
        BY <1>3, <3>2
      <4>2. j \in 1 .. x
        BY <2>1
      <4> QED BY <4>1, <4>2
    <3> QED BY <2>3, <3>1, <3>2
  <2> QED BY <2>1, <2>4
<1>4. \A m \in 0 .. n : m \in I
  <2> HIDE DEF I
  <2> QED BY <1>2, <1>3, Onward
<1> QED BY <1>1, <1>4

\* The paragraph q is the sections from x to z and no section before them.
Alone(p, q, x, z) ==
  /\ x \in 1 .. Len(p.sections) /\ z \in x .. Len(p.sections)
  /\ \A k \in x .. z : p.sections[k].para = q
  /\ \A k \in 1 .. x - 1 : p.sections[k].para # q

\* The sections of a retained paragraph add its source, once.
LEMMA RetainedAdds ==
  ASSUME NEW src, NEW p, NEW texts, NEW retained, NEW b, Bodies(src, p, texts, retained, b),
         Layout(p), NEW q \in retained, NEW x, NEW z, Alone(p, q, x, z)
  PROVE  Adds(b, x, z, Origin(src, p, q))
<1>1. PICK n \in Nat : n = Len(p.sections)
  BY BodyAt
<1>2. PICK l \in 0 .. n : l = x - 1 /\ x \in 1 .. n /\ z \in x .. n
                         /\ (\A k \in x .. z : p.sections[k].para = q)
                         /\ (\A k \in 1 .. l : p.sections[k].para # q)
  BY <1>1 DEF Alone
<1>3. q \notin b[l].emitted
  BY <1>1, <1>2, EmittedPassed
<1>4. \A k \in x .. z : k \in 1 .. n /\ Grown(src, p, texts, retained, b[k - 1], k, b[k])
  BY <1>1, <1>2, BodyAt
<1> DEFINE I == {j \in x .. z : b[j].text = b[l].text \o Origin(src, p, q) /\ q \in b[j].emitted}
<1>5. x \in x .. z /\ z \in x .. z /\ x \in Nat /\ z \in Nat
  BY <1>2
<1>6. x \in I
  <2>1. Grown(src, p, texts, retained, b[l], x, b[x])
    BY <1>2, <1>4, <1>5
  <2>2. b[x].text = b[l].text \o Origin(src, p, q) /\ q \in b[x].emitted
    BY <1>2, <1>3, <1>5, <2>1 DEF Grown
  <2> QED BY <1>5, <2>2
<1>7. ASSUME NEW y \in x .. z, y < z, y \in I PROVE y + 1 \in I
  <2>1. PICK k \in x .. z : k = y + 1 /\ k - 1 = y
    BY <1>5, <1>7
  <2>2. q \in b[y].emitted /\ b[y].text = b[l].text \o Origin(src, p, q)
    BY <1>7
  <2>3. Grown(src, p, texts, retained, b[y], k, b[k])
    BY <1>4, <2>1
  <2>4. b[k] = b[y]
    BY <1>2, <2>1, <2>2, <2>3 DEF Grown
  <2> QED BY <2>1, <2>2, <2>4
<1>8. \A j \in x .. z : j \in I
  <2> HIDE DEF I
  <2> QED BY <1>5, <1>6, <1>7, Climb
<1> QED BY <1>2, <1>5, <1>8 DEF Adds

-----------------------------------------------------------------------------
(* A model that repeats its source.                                        *)

\* The segments of each group hold it whole.
Kept(p) ==
  \A i \in Indexes(p) :
    Join(Of(p.segments, p.segments[i].group)) = GroupText(p.sections, p.segments[i].group)

\* Every text is that of its segment.
Echoes(p, texts) == \A i \in Indexes(p) : texts[i] = p.segments[i].text

\* What the first k segments hold of the group g.
Holding(p, g, k) == Join(SubSeq(Of(p.segments, g), 1, k))

LEMMA HoldingIs ==
  ASSUME NEW p, Layout(p), NEW g
  PROVE  /\ \A k \in 0 .. Len(p.segments) : Holding(p, g, k) \in Text
         /\ Holding(p, g, 0) = <<>> /\ Holding(p, g, Len(p.segments)) = Join(Of(p.segments, g))
         /\ \A k \in Indexes(p) : Holding(p, g, k) =
              Holding(p, g, k - 1) \o (IF p.segments[k].group = g THEN p.segments[k].text ELSE <<>>)
<1> DEFINE ts == Of(p.segments, g)
<1>1. PICK N \in Nat : N = Len(p.segments) /\ DOMAIN p.segments = 1 .. N /\ Indexes(p) = 1 .. N
  BY ListIs DEF Layout, Indexes
<1>2. \A i \in 1 .. N : p.segments[i].text \in Text
  BY <1>1, SegmentAt
<1>3. ts = [i \in 1 .. N |-> ts[i]]
      /\ \A i \in 1 .. N : ts[i] = IF p.segments[i].group = g THEN p.segments[i].text ELSE <<>>
  BY <1>1 DEF Of
<1>4. \A i \in 1 .. N : ts[i] \in Lists(Atom)
  BY <1>2, <1>3, TextIs, RequestEmpty
<1> HIDE DEF ts
<1>5. ts \in Lists(Lists(Atom)) /\ Len(ts) = N
  BY <1>3, <1>4, ListOf
<1>6. SubSeq(ts, 1, 0) = <<>> /\ SubSeq(ts, 1, N) = ts
  BY <1>5, PrefixEnds
<1>7. \A k \in 1 .. N : /\ Join(SubSeq(ts, 1, k)) = Join(SubSeq(ts, 1, k - 1)) \o ts[k]
                        /\ Join(SubSeq(ts, 1, k)) \in Text
  BY <1>5, JoinPrefix, TextIs
<1>8. Join(SubSeq(ts, 1, 0)) = <<>> /\ <<>> \in Text
  BY <1>6, JoinEmpty, RequestEmpty
<1>9. \A k \in 0 .. N : k = 0 \/ k \in 1 .. N
  OBVIOUS
<1> QED BY <1>1, <1>3, <1>6, <1>7, <1>8, <1>9 DEF Holding, ts

LEMMA HoldingAt ==
  ASSUME NEW p, Layout(p), NEW g, NEW k \in Indexes(p), NEW y, y = k - 1
  PROVE  /\ p.segments[k].group = g => Holding(p, g, k) = Holding(p, g, y) \o p.segments[k].text
         /\ p.segments[k].group # g => Holding(p, g, k) = Holding(p, g, y)
<1>1. PICK N \in Nat : N = Len(p.segments) /\ Indexes(p) = 1 .. N
  BY ListIs DEF Layout, Indexes
<1>2. y \in 0 .. N
  BY <1>1
<1>3. PICK t \in Text : t = Holding(p, g, y)
  BY <1>1, <1>2, HoldingIs
<1>4. Holding(p, g, k) = t \o (IF p.segments[k].group = g THEN p.segments[k].text ELSE <<>>)
  <2>1. Holding(p, g, k) = Holding(p, g, k - 1) \o (IF p.segments[k].group = g THEN p.segments[k].text ELSE <<>>)
    BY HoldingIs
  <2> QED BY <1>3, <2>1
<1>5. t \o <<>> = t
  BY ConcatNone, TextIs
<1> QED BY <1>3, <1>4, <1>5

\* Segments of other groups add nothing to it.
LEMMA HoldingSame ==
  ASSUME NEW p, Layout(p), NEW g, NEW x \in 0 .. Len(p.segments), NEW z \in 0 .. Len(p.segments), x <= z,
         \A j \in x + 1 .. z : p.segments[j].group # g
  PROVE  Holding(p, g, z) = Holding(p, g, x)
<1>1. PICK N \in Nat : N = Len(p.segments) /\ Indexes(p) = 1 .. N
  BY ListIs DEF Layout, Indexes
<1> DEFINE I == {k \in x .. z : Holding(p, g, k) = Holding(p, g, x)}
<1>2. x \in Nat /\ z \in Nat /\ x \in I /\ z \in x .. z
  BY <1>1
<1>3. ASSUME NEW y \in x .. z, y < z, y \in I PROVE y + 1 \in I
  <2>1. PICK k \in 1 .. N : k = y + 1 /\ k - 1 = y /\ k \in x + 1 .. z /\ k \in x .. z /\ y \in 0 .. N
    BY <1>1, <1>2, <1>3
  <2>2. k \in Indexes(p) /\ p.segments[k].group # g
    BY <1>1, <2>1
  <2>3. Holding(p, g, k) = Holding(p, g, y)
    BY <2>1, <2>2, HoldingAt
  <2> QED BY <1>3, <2>1, <2>3
<1>4. \A k \in x .. z : k \in I
  <2> HIDE DEF I
  <2> QED BY <1>2, <1>3, Climb
<1> QED BY <1>2, <1>4

\* What is carried to segment m, when what is collected before it is what it holds.
LEMMA EchoCarried ==
  ASSUME NEW p, Layout(p), NEW R, NEW m \in Indexes(p), NEW k \in 0 .. Len(p.segments), k = m - 1,
         k # 0 => R[k] = Holding(p, p.segments[k].group, k)
  PROVE  Carried(p, R, m) = Holding(p, p.segments[m].group, k)
<1> DEFINE g == p.segments[m].group
<1>1. PICK N \in Nat : N = Len(p.segments) /\ Indexes(p) = 1 .. N
  BY ListIs DEF Layout, Indexes
<1>2. Holding(p, g, 0) = <<>>
  BY HoldingIs
<1>3. CASE k = 0
  <2>1. m = 1
    BY <1>1, <1>3
  <2> QED BY <1>2, <1>3, <2>1 DEF Carried
<1>4. CASE k # 0 /\ Same(p, k, m)
  <2>1. m > 1
    BY <1>1, <1>4
  <2> QED BY <1>4, <2>1 DEF Carried, Same
<1>5. CASE k # 0 /\ ~Same(p, k, m)
  <2>1. Carried(p, R, m) = <<>>
    BY <1>5 DEF Carried
  <2>2. k \in Indexes(p) /\ k <= m
    BY <1>1, <1>5
  <2>3. ASSUME NEW j \in 0 + 1 .. k PROVE p.segments[j].group # g
    <3>1. j \in Indexes(p) /\ j <= k
      BY <1>1
    <3>2. CASE p.segments[j].group = g
      <4>1. Same(p, j, m)
        BY <3>2 DEF Same
      <4>2. Same(p, k, m)
        BY <2>2, <3>1, <4>1, Between
      <4> QED BY <1>5, <4>2
    <3> QED BY <3>2
  <2>4. Holding(p, g, k) = Holding(p, g, 0)
    <3>1. 0 \in 0 .. Len(p.segments) /\ 0 <= k
      BY <1>1
    <3> HIDE DEF g
    <3> QED BY <2>3, <3>1, HoldingSame
  <2> QED BY <1>2, <2>1, <2>4
<1> QED BY <1>3, <1>4, <1>5

\* h is a with the text t of segment m, and what segments hold up to m.
Holds(p, m, a, t, h) ==
  /\ a \in Text /\ t \in Text /\ t = p.segments[m].text
  /\ h = a \o t /\ h = Holding(p, p.segments[m].group, m)

\* Nothing is restored, for nothing is lost.
LEMMA EchoEnds ==
  ASSUME NEW p, Layout(p), Kept(p), NEW m \in Indexes(p), NEW a, NEW t, NEW h,
         Holds(p, m, a, t, h)
  PROVE  Restored(h, Wanted(p, m)) = h
<1> DEFINE g == p.segments[m].group
<1>1. PICK N \in Nat : N = Len(p.segments) /\ Indexes(p) = 1 .. N
  BY ListIs DEF Layout, Indexes
<1>0. t = p.segments[m].text /\ h = Holding(p, g, m)
  BY DEF Holds
<1>2. h \in Text /\ Trailing(t) <= Trailing(h)
  BY TrailingConcat DEF Holds
<1>3. Wanted(p, m) \in Text
  BY WantedIs DEF Indexes
<1>4. Trailing(Wanted(p, m)) <= Trailing(h)
  <2>1. CASE m < N /\ p.segments[m + 1].group = g
    BY <1>0, <1>1, <1>2, <2>1 DEF Wanted
  <2>2. CASE ~(m < N /\ p.segments[m + 1].group = g)
    <3>1. Wanted(p, m) = Holding(p, g, N)
      <4>1. Wanted(p, m) = GroupText(p.sections, g)
        BY <1>1, <2>2 DEF Wanted
      <4>2. Join(Of(p.segments, g)) = GroupText(p.sections, g)
        BY DEF Kept
      <4>3. Holding(p, g, Len(p.segments)) = Join(Of(p.segments, g))
        BY HoldingIs
      <4> QED BY <1>1, <4>1, <4>2, <4>3
    <3>2. ASSUME NEW j \in m + 1 .. N PROVE p.segments[j].group # g
      <4>1. PICK n \in Indexes(p) : n = m + 1 /\ m <= n /\ n <= j /\ m < N
        BY <1>1
      <4>2. j \in Indexes(p)
        BY <1>1
      <4>3. CASE p.segments[j].group = g
        <5>1. Same(p, m, j)
          BY <4>3 DEF Same
        <5>2. Same(p, m, n)
          BY <4>1, <4>2, <5>1, Between
        <5> QED BY <2>2, <4>1, <5>2 DEF Same
      <4> QED BY <4>3
    <3>3. Holding(p, g, N) = Holding(p, g, m)
      <4>1. N \in 0 .. Len(p.segments) /\ m \in 0 .. Len(p.segments) /\ m <= N
        BY <1>1
      <4> HIDE DEF g
      <4> QED BY <3>2, <4>1, HoldingSame
    <3>4. Trailing(h) \in Nat
      BY <1>2, TrailingIs
    <3> QED BY <1>0, <3>1, <3>3, <3>4
  <2> QED BY <2>1, <2>2
<1> QED BY <1>2, <1>3, <1>4, RestoredIs

LEMMA EchoCollected ==
  ASSUME NEW p, Layout(p), Kept(p), NEW texts, Echoes(p, texts),
         NEW R, Collected(p, texts, R, Len(p.segments)), NEW i \in Indexes(p)
  PROVE  R[i] = Holding(p, p.segments[i].group, i)
<1>1. PICK N \in Nat : N = Len(p.segments) /\ Indexes(p) = 1 .. N
  BY ListIs DEF Layout, Indexes
<1> DEFINE J(k) == k # 0 => R[k] = Holding(p, p.segments[k].group, k)
           I == {k \in 0 .. N : J(k)}
<1>2. 0 \in I
  OBVIOUS
<1>3. ASSUME NEW k \in 0 .. N - 1, k \in I PROVE k + 1 \in I
  <2>1. PICK m \in 1 .. N : m = k + 1 /\ k = m - 1 /\ k \in 0 .. N
    OBVIOUS
  <2> DEFINE g == p.segments[m].group
  <2>2. J(k)
    BY <1>3
  <2>3. Carried(p, R, m) = Holding(p, g, k)
    <3>1. m \in Indexes(p) /\ k \in 0 .. Len(p.segments) /\ k = m - 1
      BY <1>1, <2>1
    <3> QED BY <2>2, <3>1, EchoCarried
  <2>4. PICK a \in Text : a = Holding(p, g, k)
    BY <1>1, <2>1, HoldingIs
  <2>5. PICK t \in Text : t = p.segments[m].text /\ t = texts[m]
    BY <1>1, SegmentAt DEF Echoes
  <2>6. Holding(p, g, m) = a \o t
    <3>1. m \in Indexes(p) /\ p.segments[m].group = g
      BY <1>1
    <3>2. Holding(p, g, m) = Holding(p, g, k) \o p.segments[m].text
      <4> HIDE DEF g
      <4> QED BY <2>1, <3>1, HoldingAt
    <3> QED BY <2>4, <2>5, <3>2
  <2>7. R[m] = Restored(a \o t, Wanted(p, m))
    BY <1>1, <2>3, <2>4, <2>5 DEF Collected
  <2>8. Restored(a \o t, Wanted(p, m)) = a \o t
    <3>1. m \in Indexes(p)
      BY <1>1
    <3>2. PICK h : h = a \o t
      OBVIOUS
    <3>3. Holds(p, m, a, t, h)
      BY <2>5, <2>6, <3>2 DEF Holds
    <3>4. Restored(h, Wanted(p, m)) = h
      BY <3>1, <3>3, EchoEnds
    <3> QED BY <3>2, <3>4
  <2>9. R[m] = Holding(p, g, m)
    BY <2>6, <2>7, <2>8
  <2> QED BY <2>1, <2>9
<1>4. \A k \in 0 .. N : k \in I
  <2> HIDE DEF I
  <2> QED BY <1>2, <1>3, Onward
<1>5. i \in 0 .. N /\ i # 0
  BY <1>1
<1> QED BY <1>4, <1>5

\* A group is its sections again.
LEMMA EchoGroup ==
  ASSUME NEW p, Layout(p), Kept(p), NEW texts, Echoes(p, texts),
         NEW R, Collected(p, texts, R, Len(p.segments)), NEW i \in Indexes(p), Ending(p, i)
  PROVE  R[i] = SectionsOf(p, Start(p, i), Stop(p, i))
<1> DEFINE g == p.segments[i].group
<1>1. PICK N \in Nat : N = Len(p.segments) /\ Indexes(p) = 1 .. N
  BY ListIs DEF Layout, Indexes
<1>2. R[i] = Holding(p, g, i)
  BY EchoCollected
<1>3. ASSUME NEW j \in i + 1 .. N PROVE p.segments[j].group # g
  <2>1. PICK n \in Indexes(p) : n = i + 1 /\ i <= n /\ n <= j /\ i # N
    BY <1>1
  <2>2. j \in Indexes(p)
    BY <1>1
  <2>3. CASE p.segments[j].group = g
    <3>1. Same(p, i, j)
      BY <2>3 DEF Same
    <3>2. Same(p, i, n)
      BY <2>1, <2>2, <3>1, Between
    <3> QED BY <1>1, <2>1, <3>2 DEF Ending
  <2> QED BY <2>3
<1>4. Holding(p, g, N) = Holding(p, g, i)
  <2>1. N \in 0 .. Len(p.segments) /\ i \in 0 .. Len(p.segments) /\ i <= N
    BY <1>1
  <2> HIDE DEF g
  <2> QED BY <1>3, <2>1, HoldingSame
<1>5. Holding(p, g, Len(p.segments)) = Join(Of(p.segments, g))
  BY HoldingIs
<1>6. Join(Of(p.segments, g)) = Source(SubSeq(p.sections, Start(p, i), Stop(p, i)))
  BY SegmentAt DEF Kept, Indexes
<1> QED BY <1>1, <1>2, <1>4, <1>5, <1>6 DEF SectionsOf

\* Section j stands between m and k.
Parting(p, m, j, k) ==
  /\ m \in Nat /\ j \in Nat /\ k \in Nat /\ 1 <= m /\ m <= j + 1 /\ j <= k /\ k <= Len(p.sections)

\* The sections from m to k are those up to j and those from i.
Parted(p, m, j, i, k) ==
  /\ SectionsOf(p, m, k) = SectionsOf(p, m, j) \o SectionsOf(p, i, k)
  /\ SectionsOf(p, m, k) \in Text /\ SectionsOf(p, m, j) \in Text
  /\ SectionsOf(p, i, k) \in Text

LEMMA SectionsJoin ==
  ASSUME NEW p, Layout(p), NEW m, NEW j, NEW k, Parting(p, m, j, k)
  PROVE  Parted(p, m, j, j + 1, k)
<1>1. PICK ss \in Lists(Sections) : ss = p.sections
  BY DEF Layout
<1>2. m \in Nat /\ j \in Nat /\ k \in Nat /\ 1 <= m /\ m <= j + 1 /\ j <= k /\ k <= Len(ss)
  BY <1>1 DEF Parting
<1>3. /\ Source(SubSeq(ss, m, k)) = Source(SubSeq(ss, m, j)) \o Source(SubSeq(ss, j + 1, k))
      /\ Source(SubSeq(ss, m, k)) \in Text /\ Source(SubSeq(ss, m, j)) \in Text
      /\ Source(SubSeq(ss, j + 1, k)) \in Text
  BY <1>2, SourceCut
<1> QED BY <1>1, <1>3 DEF SectionsOf, Parted

\* Groups are the same or apart.
LEMMA Apart ==
  ASSUME NEW p, Layout(p), NEW i \in Indexes(p), NEW j \in Indexes(p)
  PROVE  Same(p, i, j) \/ Stop(p, i) < Start(p, j) \/ Stop(p, j) < Start(p, i)
<1>1. i \in Nat /\ j \in Nat
  BY SegmentAt DEF Indexes
<1>2. i <= j \/ j <= i
  BY <1>1
<1> QED BY <1>2 DEF Layout, Indexes, Same

\* No group goes on after section k.
Edge(p, k) == \A i \in Indexes(p) : ~(Start(p, i) <= k /\ k < Stop(p, i))

LEMMA EdgeBefore ==
  ASSUME NEW p, Layout(p), NEW i \in Indexes(p), NEW l, l = Start(p, i) - 1
  PROVE  Edge(p, l)
<1>1. ASSUME NEW j \in Indexes(p), Start(p, j) <= l, l < Stop(p, j) PROVE FALSE
  <2>1. PICK a \in Nat, c \in Nat, d \in Nat, e \in Nat :
          a = Start(p, j) /\ c = Stop(p, j) /\ d = Start(p, i) /\ e = Stop(p, i) /\ a <= c /\ d <= e
    BY SegmentAt DEF Indexes
  <2>2. a = d \/ c < d \/ e < a
    BY <2>1, Apart DEF Same, Start
  <2> QED BY <1>1, <2>1, <2>2
<1> QED BY <1>1 DEF Edge

LEMMA EdgeLiteral ==
  ASSUME NEW p, Layout(p), NEW m \in 1 .. Len(p.sections), ~p.sections[m].go, NEW k, k = m - 1
  PROVE  Edge(p, k)
<1>1. ASSUME NEW j \in Indexes(p), Start(p, j) <= k, k < Stop(p, j) PROVE FALSE
  <2>1. PICK a \in Nat, c \in Nat : a = Start(p, j) /\ c = Stop(p, j)
    BY SegmentAt DEF Indexes
  <2>2. m \in a .. c
    BY <1>1, <2>1
  <2> QED BY <2>1, <2>2 DEF Layout, Indexes
<1> QED BY <1>1 DEF Edge

Nothing(set) == set = {}

\* Where a model repeats its source, the body is the sections.
LEMMA EchoBody ==
  ASSUME NEW src, NEW p, Layout(p), Kept(p), NEW texts, Full(p, texts), Echoes(p, texts),
         NEW none, Nothing(none), NEW b, Bodies(src, p, texts, none, b)
  PROVE  b[Len(p.sections)].text = Source(p.sections)
<1>1. PICK n \in Nat : n = Len(p.sections) /\ p.sections \in Lists(Sections)
  BY BodyAt DEF Layout
<1>2. PICK R : Collected(p, texts, R, Len(p.segments))
  BY CollectedExists
<1> DEFINE J(k) == Edge(p, k) => b[k].text = SectionsOf(p, 1, k)
           I == {k \in 0 .. n : \A j \in 0 .. k : J(j)}
<1>3. 0 \in I
  <2>1. b[0].text = <<>>
    BY BodyAt DEF NoBody
  <2>2. SectionsOf(p, 1, 0) = <<>>
    BY <1>1, SourceAll DEF SectionsOf
  <2> QED BY <2>1, <2>2
<1>4. ASSUME NEW k \in 0 .. n - 1, k \in I PROVE k + 1 \in I
  <2>1. PICK m \in 1 .. n : m = k + 1 /\ k = m - 1 /\ k \in 0 .. n /\ k \in Nat /\ m \in Nat /\ 1 <= m /\ k <= m
    OBVIOUS
  <2>2. ASSUME Edge(p, m), p.sections[m].go PROVE b[m].text = SectionsOf(p, 1, m)
    <3>1. PICK i \in Indexes(p) : m \in Start(p, i) .. Stop(p, i)
      BY <1>1, <2>2 DEF Layout, Indexes
    <3>2. PICK e \in Indexes(p) : Same(p, e, i) /\ Ending(p, e)
      BY EndingExists
    <3>3. Start(p, e) = Start(p, i) /\ Stop(p, e) = Stop(p, i)
      BY <3>2 DEF Same, Start, Stop
    <3>4. PICK x \in 1 .. n, z \in 1 .. n, l \in Nat : x = Start(p, e) /\ z = Stop(p, e) /\ x <= z /\ l = x - 1
      <4>1. Start(p, e) \in 1 .. n /\ Stop(p, e) \in 1 .. n /\ Start(p, e) <= Stop(p, e)
        BY <1>1, SegmentAt DEF Indexes
      <4>2. Start(p, e) - 1 \in Nat
        BY <4>1
      <4> QED BY <4>1, <4>2
    <3>5. z = m
      <4>1. ~(x <= m /\ m < z)
        BY <2>2, <3>4 DEF Edge
      <4> QED BY <3>1, <3>3, <3>4, <4>1
    <3>6. l \in 0 .. k /\ l + 1 = x /\ l <= m /\ m <= Len(p.sections) /\ 1 \in Nat /\ 1 <= 1 /\ 1 <= l + 1
      BY <1>1, <2>1, <3>4, <3>5
    <3>7. Edge(p, l)
      BY <3>4, EdgeBefore
    <3>8. b[l].text = SectionsOf(p, 1, l)
      BY <1>4, <3>6, <3>7
    <3>9. b[m].text = b[l].text \o R[e]
      <4>1. Owner(p, e) \notin none
        BY DEF Nothing
      <4>2. Adds(b, Start(p, e), Stop(p, e), R[e])
        BY <1>2, <3>2, <4>1, GroupAdds
      <4> QED BY <3>4, <3>5, <4>2 DEF Adds
    <3>10. R[e] = SectionsOf(p, x, m)
      <4>1. R[e] = SectionsOf(p, Start(p, e), Stop(p, e))
        BY <1>2, <3>2, EchoGroup
      <4> QED BY <3>4, <3>5, <4>1
    <3>11. SectionsOf(p, 1, m) = SectionsOf(p, 1, l) \o SectionsOf(p, l + 1, m)
      <4>1. Parting(p, 1, l, m)
        BY <2>1, <3>6 DEF Parting
      <4>2. Parted(p, 1, l, l + 1, m)
        BY <4>1, SectionsJoin
      <4> QED BY <4>2 DEF Parted
    <3> QED BY <3>6, <3>8, <3>9, <3>10, <3>11
  <2>3. ASSUME Edge(p, m), ~p.sections[m].go PROVE b[m].text = SectionsOf(p, 1, m)
    <3>1. Edge(p, k)
      BY <1>1, <2>1, <2>3, EdgeLiteral
    <3>2. b[k].text = SectionsOf(p, 1, k)
      <4>1. k \in 0 .. k
        BY <2>1
      <4> QED BY <1>4, <3>1, <4>1
    <3>3. b[m].text = b[k].text \o SectionsOf(p, m, m)
      <4>1. Literal(p, none, m, m)
        BY <1>1, <2>3 DEF Literal, Nothing
      <4>2. Adds(b, m, m, SectionsOf(p, m, m))
        BY <4>1, LiteralAdds
      <4> QED BY <2>1, <4>2 DEF Adds
    <3>4. SectionsOf(p, 1, m) = SectionsOf(p, 1, k) \o SectionsOf(p, k + 1, m)
      <4>1. Parting(p, 1, k, m)
        BY <1>1, <2>1 DEF Parting
      <4>2. Parted(p, 1, k, k + 1, m)
        BY <4>1, SectionsJoin
      <4> QED BY <4>2 DEF Parted
    <3> QED BY <2>1, <3>2, <3>3, <3>4
  <2>4. J(m)
    BY <2>2, <2>3
  <2>5. ASSUME NEW j \in 0 .. m PROVE J(j)
    <3>1. j \in 0 .. k \/ j = m
      BY <2>1
    <3>2. \A h \in 0 .. k : J(h)
      BY <1>4
    <3> HIDE DEF J
    <3> QED BY <2>4, <3>1, <3>2
  <2> QED BY <2>1, <2>5
<1>5. \A k \in 0 .. n : k \in I
  <2> HIDE DEF I
  <2> QED BY <1>3, <1>4, Onward
<1>6. Edge(p, n)
  <2>1. \A i \in Indexes(p) : Stop(p, i) \in 1 .. n
    BY <1>1, SegmentAt DEF Indexes
  <2>2. \A i \in Indexes(p) : ~(n < Stop(p, i))
    BY <2>1
  <2> QED BY <2>2 DEF Edge
<1>7. n \in 0 .. n
  OBVIOUS
<1>8. b[n].text = SectionsOf(p, 1, n)
  BY <1>5, <1>6, <1>7
<1> QED BY <1>1, <1>8, SourceAll DEF SectionsOf

LEMMA KeptPlan ==
  ASSUME Prepared, Whole(plan)
  PROVE  Kept(plan) /\ Source(plan.sections) = plan.explicit
<1>1. Layout(plan)
  BY LaidOut
<1>2. DOMAIN plan.segments = Indexes(plan)
  BY <1>1, ListIs DEF Layout, Indexes
<1> QED BY <1>2 DEF Whole, Kept, Of

LEMMA EchoDone ==
  ASSUME Prepared, Filled, status = "done", kept = {}, Echoes(plan, got)
  PROVE  final.text = plan.explicit
<1>1. Layout(plan) /\ Fails(source, plan, {})
  BY FilledFails
<1>2. Full(plan, got) /\ final.text = Body(source, plan, got, {}).text
  <2>1. OwnersOf(plan, {}) = {}
    BY DEF OwnersOf
  <2> QED BY <2>1, DoneRendered DEF Rendered
<1>3. Whole(plan)
  <2>1. PlanWhole
    BY PreparedWhole
  <2> QED BY <2>1 DEF PlanWhole, Whole
<1>4. Kept(plan) /\ Source(plan.sections) = plan.explicit
  BY <1>3, KeptPlan
<1>5. Suits(source, plan, {})
  BY <1>1 DEF Fails, Suits
<1>6. PICK b : Bodies(source, plan, got, {}, b)
  BY <1>1, <1>2, <1>5, BodiesExist
<1>7. Body(source, plan, got, {}) = b[Len(plan.sections)]
  BY <1>6 DEF Bodies
<1>8. b[Len(plan.sections)].text = Source(plan.sections)
  <2>1. PICK none : none = {} /\ Nothing(none) /\ Bodies(source, plan, got, none, b)
    BY <1>6 DEF Nothing
  <2> QED BY <1>1, <1>2, <1>4, <2>1, EchoBody
<1> QED BY <1>2, <1>4, <1>7, <1>8

\* A model that repeats its source gives the document back, byte for byte but for
\* the references written out, whatever the document: cutting it into segments
\* and joining them again add and lose nothing (translate.rs).
THEOREM EchoKeepsDocumentHolds == Spec => []EchoKeepsDocument
<1>1. ASSUME Prepared, Filled PROVE EchoKeepsDocument
  <2>1. Given(plan, got)
    BY <1>1 DEF Filled
  <2>2. DOMAIN got = Indexes(plan)
    BY <2>1, GivenAt DEF Indexes
  <2> QED BY <1>1, <2>2, EchoDone DEF EchoKeepsDocument, Echoes
<1>2. Prepared /\ Filled => EchoKeepsDocument
  BY <1>1
<1> QED BY <1>2, FilledHolds, PTL

-----------------------------------------------------------------------------
(* Where a stream stands in the buffered text.                             *)

\* b is the body of p for the full texts, R what is collected of each group.
Telling(src, p, texts, retained, b, R) ==
  /\ Layout(p) /\ Full(p, texts) /\ Bodies(src, p, texts, retained, b)
  /\ Collected(p, texts, R, Len(p.segments))

\* A stream before the group of its next segment, or among its segments.
Fresh(p, st) ==
  /\ st.seg <= Len(p.segments) => st.sec <= Start(p, st.seg)
  /\ \A j \in 1 .. st.seg - 1 : Stop(p, j) < st.sec
Amid(p, st) ==
  /\ st.seg \in 2 .. Len(p.segments) /\ Same(p, st.seg - 1, st.seg)
  /\ st.sec = Stop(p, st.seg) + 1

\* A stream has published what the buffered text has so far.
At(p, b, R, st) ==
  \/ Fresh(p, st) /\ st.out = b[st.sec - 1].text
  \/ Amid(p, st) /\ st.out = b[Start(p, st.seg) - 1].text \o R[st.seg - 1]

\* Nothing retained is ahead of a stream up to segment last.
Clear(p, retained, st, last) ==
  \A i \in st.seg .. last :
    Owner(p, i) \notin retained /\ \A k \in st.sec .. Stop(p, i) : p.sections[k].para \notin retained

LEMMA StreamIs ==
  ASSUME NEW p, Layout(p), NEW texts, NEW st \in Streams(p, texts)
  PROVE  /\ Len(p.segments) \in Nat /\ Len(p.sections) \in Nat
         /\ st.seg \in 1 .. Len(p.segments) + 1 /\ st.sec \in 1 .. Len(p.sections) + 1
         /\ st.out \in Text /\ st.end \in Nat /\ st.ready \in Nat /\ st.shown \in Text \cup {NoText}
         /\ \A j \in 1 .. st.seg - 1 : texts[j] # NoText
<1>1. Len(p.segments) \in Nat /\ Len(p.sections) \in Nat
  BY ListIs DEF Layout
<1> QED BY <1>1 DEF Streams

\* The groups of two segments in order.
LEMMA StopsInOrder ==
  ASSUME NEW p, Layout(p), NEW i \in Indexes(p), NEW j \in Indexes(p), i <= j
  PROVE  Stop(p, i) <= Stop(p, j) /\ Start(p, i) <= Start(p, j)
<1>1. Same(p, i, j) \/ Stop(p, i) < Start(p, j)
  BY DEF Layout, Indexes, Same
<1>2. PICK a \in Nat, c \in Nat, d \in Nat, e \in Nat :
        a = Start(p, i) /\ c = Stop(p, i) /\ d = Start(p, j) /\ e = Stop(p, j) /\ a <= c /\ d <= e
  BY SegmentAt DEF Indexes
<1>3. Same(p, i, j) => a = d /\ c = e
  BY <1>2 DEF Same, Start, Stop
<1>4. (a = d /\ c = e) \/ c < d
  BY <1>1, <1>2, <1>3
<1>5. c <= e /\ a <= d
  BY <1>2, <1>4
<1> QED BY <1>2, <1>5

\* Before the group of the next segment no section is to be translated.
LEMMA Untranslated ==
  ASSUME NEW p, Layout(p), NEW st, Fresh(p, st), st.seg \in Nat \ {0}, st.sec \in Nat,
         NEW k \in 1 .. Len(p.sections), st.sec <= k, st.seg <= Len(p.segments) => k < Start(p, st.seg)
  PROVE  ~p.sections[k].go
<1>1. ASSUME NEW j \in Indexes(p), k \in Start(p, j) .. Stop(p, j) PROVE FALSE
  <2>1. PICK N \in Nat : N = Len(p.segments) /\ j \in 1 .. N /\ Indexes(p) = 1 .. N
    BY SegmentAt DEF Indexes
  <2>2. PICK a \in Nat, c \in Nat : a = Start(p, j) /\ c = Stop(p, j)
    BY SegmentAt DEF Indexes
  <2>3. CASE j < st.seg
    <3>1. c < st.sec
      BY <2>1, <2>2, <2>3 DEF Fresh
    <3> QED BY <1>1, <2>2, <3>1
  <2>4. CASE st.seg <= j
    <3>1. st.seg \in Indexes(p) /\ st.seg <= Len(p.segments)
      BY <2>1, <2>4
    <3>2. Start(p, st.seg) <= a /\ Start(p, st.seg) \in Nat
      BY <2>2, <2>4, <3>1, StopsInOrder, SegmentAt DEF Indexes
    <3> QED BY <1>1, <2>2, <3>1, <3>2
  <2> QED BY <2>1, <2>3, <2>4
<1> QED BY <1>1 DEF Layout, Indexes

\* The stream after what precedes the text of segment i.
Leads(p, b, R, st, i) ==
  /\ st.out \o Before(p, i, st.sec).text = b[Start(p, i) - 1].text \o Carried(p, R, i)
  /\ Before(p, i, st.sec).sec = Stop(p, i) + 1
  /\ Before(p, i, st.sec).text \in Text /\ b[Start(p, i) - 1].text \in Text
  /\ Carried(p, R, i) \in Text

LEMMA LeadIs ==
  ASSUME NEW src, NEW p, NEW more, NEW retained, NEW b, NEW R, Telling(src, p, more, retained, b, R),
         NEW texts, NEW st \in Streams(p, texts), NEW i \in Indexes(p), st.seg = i,
         At(p, b, R, st), Clear(p, retained, st, i)
  PROVE  Leads(p, b, R, st, i)
<1>0. Layout(p) /\ Full(p, more) /\ Bodies(src, p, more, retained, b) /\ Collected(p, more, R, Len(p.segments))
  BY DEF Telling
<1>1. PICK N \in Nat, n \in Nat : /\ N = Len(p.segments) /\ n = Len(p.sections) /\ Indexes(p) = 1 .. N
                                 /\ i \in 1 .. N /\ st.sec \in 1 .. n + 1 /\ st.out \in Text
  BY <1>0, StreamIs DEF Indexes
<1>2. PICK x \in 1 .. n, z \in 1 .. n, l \in 0 .. n :
        x = Start(p, i) /\ z = Stop(p, i) /\ x <= z /\ l = x - 1 /\ l = Start(p, i) - 1
  <2>1. Start(p, i) \in 1 .. n /\ Stop(p, i) \in 1 .. n /\ Start(p, i) <= Stop(p, i)
    BY <1>0, <1>1, SegmentAt
  <2>2. Start(p, i) - 1 \in 0 .. n
    BY <2>1
  <2> QED BY <2>1, <2>2
<1>3. b[l].text \in Text /\ Carried(p, R, i) \in Text
  <2>1. i \in 1 .. Len(p.segments) + 1 /\ Len(p.segments) \in Nat
    BY <1>1
  <2>2. Carried(p, R, i) \in Text
    BY <1>0, <2>1, CarriedIs
  <2> QED BY <1>0, <1>1, <2>2, BodyAt
<1>4. PICK s \in 1 .. n + 1 : s = st.sec
  BY <1>1
<1>5. /\ Before(p, i, s).text \in Text
      /\ x < s => Before(p, i, s) = [text |-> <<>>, sec |-> s]
      /\ ~(x < s) => Before(p, i, s) = [text |-> SectionsOf(p, s, l), sec |-> z + 1]
  BY <1>0, <1>1, <1>2, BeforeIs
<1>6. CASE Amid(p, st) /\ st.out = b[Start(p, i) - 1].text \o R[i - 1]
  <2>1. s = z + 1 /\ i > 1 /\ Same(p, i - 1, i)
    BY <1>1, <1>2, <1>4, <1>6 DEF Amid
  <2>2. x < s
    BY <1>2, <2>1
  <2>3. Carried(p, R, i) = R[i - 1]
    BY <2>1 DEF Carried
  <2>4. st.out \o <<>> = st.out
    BY <1>1, ConcatNone, TextIs
  <2>5. Before(p, i, s).text = <<>> /\ Before(p, i, s).sec = s
    BY <1>5, <2>2
  <2> QED BY <1>2, <1>3, <1>4, <1>5, <1>6, <2>1, <2>3, <2>4, <2>5 DEF Leads
<1>7. CASE Fresh(p, st) /\ st.out = b[s - 1].text
  <2>1. s <= x /\ s \in Nat
    BY <1>1, <1>2, <1>4, <1>7 DEF Fresh
  <2>2. Before(p, i, s).text = SectionsOf(p, s, l) /\ Before(p, i, s).sec = z + 1
    <3>1. ~(x < s)
      BY <1>2, <2>1
    <3> QED BY <1>5, <3>1
  <2>3. Carried(p, R, i) = <<>>
    <3>1. ASSUME i > 1, Same(p, i - 1, i) PROVE FALSE
      <4>1. PICK j \in 1 .. N : j = i - 1 /\ j \in 1 .. i - 1
        BY <1>1, <3>1
      <4>2. Stop(p, j) = z
        BY <1>2, <3>1, <4>1 DEF Same, Stop
      <4>3. Stop(p, j) < s
        BY <1>4, <1>7, <4>1 DEF Fresh
      <4> QED BY <1>2, <2>1, <4>2, <4>3
    <3> QED BY <3>1 DEF Carried
  <2>4. Literal(p, retained, s, l)
    <3>1. s \in 1 .. n + 1 /\ l \in s - 1 .. n
      BY <1>2, <2>1
    <3>2. ASSUME NEW k \in s .. l PROVE ~p.sections[k].go /\ p.sections[k].para \notin retained
      <4>1. k \in 1 .. n /\ k < x /\ s <= k /\ k \in s .. z
        BY <1>2, <2>1
      <4>2. p.sections[k].para \notin retained
        <5>1. i \in st.seg .. i
          BY <1>1
        <5> QED BY <1>2, <1>4, <4>1, <5>1 DEF Clear
      <4>3. ~p.sections[k].go
        <5>1. k \in 1 .. Len(p.sections) /\ st.sec <= k /\ (st.seg <= Len(p.segments) => k < Start(p, st.seg))
              /\ st.seg \in Nat \ {0} /\ st.sec \in Nat
          BY <1>1, <1>2, <1>4, <2>1, <4>1
        <5> QED BY <1>0, <1>7, <5>1, Untranslated
      <4> QED BY <4>2, <4>3
    <3> QED BY <1>1, <3>1, <3>2 DEF Literal
  <2>5. b[l].text = b[s - 1].text \o SectionsOf(p, s, l)
    <3>1. Adds(b, s, l, SectionsOf(p, s, l))
      BY <1>0, <2>4, LiteralAdds
    <3> QED BY <3>1 DEF Adds
  <2>6. b[l].text \o <<>> = b[l].text
    BY <1>3, ConcatNone, TextIs
  <2> QED BY <1>2, <1>3, <1>4, <1>5, <1>7, <2>2, <2>3, <2>5, <2>6 DEF Leads
<1> QED BY <1>4, <1>6, <1>7 DEF At

\* A stream that has published all of the group of segment i up to i.
Landing(p, b, R, st, i) ==
  /\ st.seg = i + 1 /\ st.sec = Stop(p, i) + 1
  /\ st.out = b[Start(p, i) - 1].text \o R[i]

LEMMA Landed ==
  ASSUME NEW src, NEW p, NEW more, NEW retained, NEW b, NEW R, Telling(src, p, more, retained, b, R),
         NEW i \in Indexes(p), Owner(p, i) \notin retained, NEW st, Landing(p, b, R, st, i)
  PROVE  At(p, b, R, st)
<1>0. Layout(p) /\ Full(p, more) /\ Bodies(src, p, more, retained, b) /\ Collected(p, more, R, Len(p.segments))
  BY DEF Telling
<1>1. PICK N \in Nat : N = Len(p.segments) /\ Indexes(p) = 1 .. N /\ i \in 1 .. N
  BY <1>0, SegmentAt DEF Indexes
<1>2. PICK m \in Nat, z \in Nat, x \in Nat : m = st.seg /\ m = i + 1 /\ m - 1 = i /\ z = Stop(p, i) /\ z + 1 = st.sec
                                 /\ x = Start(p, i) /\ x <= z /\ st.sec - 1 = z
  <2>1. i \in 1 .. Len(p.segments)
    BY <1>1
  <2>2. /\ Start(p, i) \in 1 .. Len(p.sections) /\ Stop(p, i) \in 1 .. Len(p.sections)
        /\ Start(p, i) <= Stop(p, i)
    BY <1>0, <2>1, SegmentAt
  <2>3. PICK z \in Nat, x \in Nat : z = Stop(p, i) /\ x = Start(p, i) /\ x <= z
    BY <2>2
  <2>4. z + 1 = st.sec /\ st.sec - 1 = z /\ st.seg = i + 1
    BY <2>3 DEF Landing
  <2>5. st.seg \in Nat /\ st.seg - 1 = i
    BY <1>1, <2>4
  <2> QED BY <2>3, <2>4, <2>5
<1>3. CASE Ending(p, i)
  <2>1. Adds(b, Start(p, i), Stop(p, i), R[i])
    BY <1>0, <1>3, GroupAdds
  <2>2. st.out = b[st.sec - 1].text
    BY <1>2, <2>1 DEF Adds, Landing
  <2>3. ASSUME NEW j \in 1 .. m - 1 PROVE Stop(p, j) < st.sec
    <3>1. j \in Indexes(p) /\ j <= i
      BY <1>1, <1>2
    <3>2. Stop(p, j) <= z /\ Stop(p, j) \in Nat
      BY <1>0, <1>2, <3>1, StopsInOrder, SegmentAt DEF Indexes
    <3> QED BY <1>2, <3>2
  <2>4. ASSUME m <= N PROVE st.sec <= Start(p, m)
    <3>1. m \in Indexes(p) /\ i <= m
      BY <1>1, <1>2, <2>4
    <3>2. ~Same(p, i, m)
      BY <1>1, <1>2, <1>3, <2>4 DEF Ending
    <3>3. Stop(p, i) < Start(p, m) /\ Start(p, m) \in Nat
      BY <1>0, <3>1, <3>2, SegmentAt DEF Layout, Indexes, Same
    <3> QED BY <1>2, <3>3
  <2> QED BY <1>1, <1>2, <2>2, <2>3, <2>4 DEF At, Fresh
<1>4. CASE ~Ending(p, i)
  <2>1. i # N /\ Same(p, i, m)
    BY <1>1, <1>2, <1>4 DEF Ending
  <2>2. m \in 2 .. N /\ Stop(p, m) = z /\ Start(p, m) = x
    BY <1>1, <1>2, <2>1 DEF Same, Start, Stop
  <2> QED BY <1>1, <1>2, <2>1, <2>2 DEF At, Amid, Landing
<1> QED BY <1>3, <1>4

-----------------------------------------------------------------------------
(* Publishing segments keeps a stream in the buffered text.                *)

\* The first m of the texts are what they will be.
Agrees(texts, more, m) == \A j \in 1 .. m : texts[j] = more[j]

\* So are those a stream has published.
Known(texts, more, st) == Agrees(texts, more, st.seg - 1)

LEMMA CollectedSame ==
  ASSUME NEW p, NEW more, NEW R, NEW N \in Nat, Collected(p, more, R, N), NEW i \in 0 .. N,
         NEW texts, Agrees(texts, more, i)
  PROVE  Collected(p, texts, R, i)
<1>1. ASSUME NEW j \in 1 .. i
      PROVE  R[j] \in Text /\ R[j] = Restored(Carried(p, R, j) \o texts[j], Wanted(p, j))
  <2>1. j \in 1 .. N
    OBVIOUS
  <2>2. texts[j] = more[j]
    BY DEF Agrees
  <2> QED BY <2>1, <2>2 DEF Collected
<1> QED BY <1>1 DEF Collected

Assoc(x, y, t, w) == ((x \o y) \o t) \o w = x \o ((y \o t) \o w)

LEMMA TextAdds ==
  ASSUME NEW x \in Text, NEW y \in Text, NEW t \in Text, NEW w \in Text
  PROVE  Assoc(x, y, t, w)
<1>1. x \o y \in Text /\ y \o t \in Text
  BY TrailingConcat
<1>2. (x \o y) \o t = x \o (y \o t)
  BY TextAssoc
<1>3. PICK u \in Text : u = y \o t
  BY <1>1
<1>4. (x \o u) \o w = x \o (u \o w)
  BY TextAssoc
<1> QED BY <1>2, <1>3, <1>4 DEF Assoc

LEMMA ClearKept ==
  ASSUME NEW p, Layout(p), NEW retained, NEW texts, NEW st \in Streams(p, texts), NEW last \in Lasts(p),
         Clear(p, retained, st, last), NEW e, Emitted(p, texts, st, last, e)
  PROVE  Clear(p, retained, e, last)
<1>1. PICK N \in Nat, n \in Nat, s \in Nat, i \in Nat :
        /\ N = Len(p.segments) /\ n = Len(p.sections) /\ s = st.sec /\ i = st.seg /\ last \in 0 .. N /\ s \in 1 .. n + 1
  BY StreamIs DEF Lasts
<1>2. CASE e = st
  BY <1>2
<1>3. CASE e # st
  <2>1. i \in 1 .. N /\ e.seg = i + 1 /\ e.sec = Before(p, i, s).sec
    BY <1>1, <1>3 DEF Emitted
  <2>2. PICK x \in 1 .. n, z \in 1 .. n : x = Start(p, i) /\ z = Stop(p, i) /\ x <= z
    BY <1>1, <2>1, SegmentAt
  <2>3. (x < s => e.sec = s) /\ (~(x < s) => e.sec = z + 1)
    BY <1>1, <2>1, <2>2, BeforeIs
  <2>4. s <= e.sec /\ e.sec \in Nat
    BY <1>1, <2>2, <2>3
  <2>5. ASSUME NEW j \in e.seg .. last
        PROVE  Owner(p, j) \notin retained /\ \A k \in e.sec .. Stop(p, j) : p.sections[k].para \notin retained
    <3>1. j \in st.seg .. last
      BY <1>1, <2>1
    <3>2. \A k \in e.sec .. Stop(p, j) : k \in st.sec .. Stop(p, j)
      BY <1>1, <2>4
    <3> QED BY <3>1, <3>2 DEF Clear
  <2> QED BY <2>5 DEF Clear
<1> QED BY <1>2, <1>3

LEMMA EmitAt ==
  ASSUME NEW src, NEW p, NEW more, NEW retained, NEW b, NEW R, Telling(src, p, more, retained, b, R),
         NEW texts, Given(p, texts), NEW st \in Streams(p, texts), NEW last \in Lasts(p),
         At(p, b, R, st), Clear(p, retained, st, last),
         NEW e, Emitted(p, texts, st, last, e), Known(texts, more, e)
  PROVE  At(p, b, R, e)
<1>0. Layout(p) /\ Full(p, more) /\ Bodies(src, p, more, retained, b) /\ Collected(p, more, R, Len(p.segments))
  BY DEF Telling
<1>1. PICK N \in Nat : /\ N = Len(p.segments) /\ last \in 0 .. N /\ Indexes(p) = 1 .. N
                       /\ st.seg \in 1 .. N + 1 /\ st.out \in Text /\ st.sec \in 1 .. Len(p.sections) + 1
                       /\ \A j \in 1 .. st.seg - 1 : texts[j] # NoText
  BY <1>0, StreamIs DEF Lasts, Indexes
<1>2. CASE st.seg > last \/ texts[st.seg] = NoText
  <2>1. e = st
    BY <1>2 DEF Emitted
  <2> QED BY <2>1
<1>3. CASE ~(st.seg > last \/ texts[st.seg] = NoText)
  <2>1. PICK i \in 1 .. N : i = st.seg /\ i <= last /\ texts[i] # NoText
    BY <1>1, <1>3
  <2>2. /\ e.seg = i + 1 /\ e.sec = Before(p, i, st.sec).sec
        /\ e.out = ((st.out \o Before(p, i, st.sec).text) \o texts[i]) \o NewlineAfter(p, texts, i)
    BY <1>3, <2>1 DEF Emitted
  <2>3. Clear(p, retained, st, i) /\ Owner(p, i) \notin retained
    <3>1. \A j \in st.seg .. i : j \in st.seg .. last
      BY <1>1, <2>1
    <3>2. i \in st.seg .. last
      BY <1>1, <2>1
    <3> QED BY <2>1, <3>1, <3>2 DEF Clear
  <2>4. Leads(p, b, R, st, i)
    <3>1. i \in Indexes(p)
      BY <1>1
    <3> QED BY <2>1, <2>3, <3>1, LeadIs
  <2>5. i \in Indexes(p) /\ Ready(texts, i)
    <3>1. ASSUME NEW j \in 1 .. i PROVE texts[j] # NoText
      BY <1>1, <2>1
    <3> QED BY <1>1, <3>1 DEF Ready
  <2>6. Agrees(texts, more, i)
    <3>1. e.seg - 1 = i
      BY <1>1, <2>2
    <3> QED BY <3>1 DEF Known
  <2>7. Collected(p, texts, R, i)
    <3>1. i \in 0 .. N
      OBVIOUS
    <3> QED BY <1>0, <1>1, <2>6, <3>1, CollectedSame
  <2>8. NewlineAfter(p, texts, i) \in Text /\ (Carried(p, R, i) \o texts[i]) \o NewlineAfter(p, texts, i) = R[i]
    BY <1>0, <2>5, <2>7, PublishedSame
  <2>9. texts[i] \in Text
    BY <1>1, <2>1, GivenAt
  <2>10. e.out = b[Start(p, i) - 1].text \o R[i] /\ e.sec = Stop(p, i) + 1
    <3>1. PICK a \in Text, c \in Text, x \in Text, y \in Text :
            a = st.out /\ c = Before(p, i, st.sec).text /\ x = b[Start(p, i) - 1].text /\ y = Carried(p, R, i)
      BY <1>1, <2>4 DEF Leads
    <3>2. a \o c = x \o y
      BY <2>4, <3>1 DEF Leads
    <3>4. PICK t \in Text, w \in Text : t = texts[i] /\ w = NewlineAfter(p, texts, i)
      BY <2>8, <2>9
    <3>5. (y \o t) \o w = R[i]
      BY <2>8, <3>1, <3>4
    <3>6. Assoc(x, y, t, w)
      BY TextAdds
    <3>3. ((a \o c) \o t) \o w = x \o R[i]
      BY <3>2, <3>5, <3>6 DEF Assoc
    <3> QED BY <2>2, <2>4, <3>1, <3>3, <3>4 DEF Leads
  <2>11. Landing(p, b, R, e, i)
    BY <2>2, <2>10 DEF Landing
  <2> QED BY <2>3, <2>5, <2>11, Landed
<1> QED BY <1>2, <1>3

\* Publishing up to last, when the texts published are what they will be.
LEMMA FlushAt ==
  ASSUME NEW src, NEW p, NEW more, NEW retained, NEW b, NEW R, Telling(src, p, more, retained, b, R),
         NEW texts, Given(p, texts), NEW st \in Streams(p, texts), NEW last \in Lasts(p),
         At(p, b, R, st), Clear(p, retained, st, last),
         NEW r, r = FlushPrefix(p, texts, st, last), Known(texts, more, r)
  PROVE  At(p, b, R, r)
<1>0. Layout(p)
  BY DEF Telling
<1>1. PICK N \in Nat : N = Len(texts) /\ N = Len(p.segments)
  BY GivenAt
<1>2. PICK f : /\ \A k \in 0 .. N : f[k] \in Streams(p, texts)
               /\ f[0] = st /\ r = f[N]
               /\ \A k \in 1 .. N : f[k] = Emit(p, texts, f[k - 1], last)
  <2>1. \E f : /\ \A k \in 0 .. Len(texts) : f[k] \in Streams(p, texts)
               /\ f[0] = st /\ FlushPrefix(p, texts, st, last) = f[Len(texts)]
               /\ \A k \in 1 .. Len(texts) : f[k] = Emit(p, texts, f[k - 1], last)
    BY <1>0, FlushPrefixLoop
  <2> QED BY <1>1, <2>1
<1>8. r \in Streams(p, texts)
  BY <1>1, <1>2
<1>9. PICK d \in Nat : d + 1 = r.seg /\ Agrees(texts, more, d)
  <2>1. r.seg - 1 \in Nat /\ r.seg \in Nat
    BY <1>0, <1>1, <1>8, StreamIs
  <2> QED BY <2>1 DEF Known
<1> DEFINE J(k) == /\ Clear(p, retained, f[k], last)
                   /\ f[k].seg <= d + 1 => At(p, b, R, f[k])
           I == {k \in 0 .. N : J(k)}
<1>3. 0 \in I
  BY <1>1, <1>2
<1>4. ASSUME NEW k \in 0 .. N - 1, k \in I PROVE k + 1 \in I
  <2>1. PICK m \in 1 .. N : m = k + 1 /\ m - 1 = k /\ m \in 0 .. N
    BY <1>1
  <2>2. PICK a \in Streams(p, texts) : a = f[k]
    BY <1>2
  <2>3. PICK e : e = f[m] /\ e = Emit(p, texts, a, last)
    BY <1>2, <2>1, <2>2
  <2>4. Clear(p, retained, a, last) /\ (a.seg <= d + 1 => At(p, b, R, a))
    BY <1>4, <2>2
  <2> HIDE DEF I, J
  <2>5. Emitted(p, texts, a, last, e)
    BY <1>0, <2>3, EmitIs
  <2>6. Clear(p, retained, e, last)
    BY <1>0, <2>4, <2>5, ClearKept
  <2>7. ASSUME e.seg <= d + 1 PROVE At(p, b, R, e)
    <3>1. PICK g \in Nat, h \in Nat : g = a.seg /\ h = e.seg /\ h # 0
      <4>1. e \in Streams(p, texts)
        BY <2>5 DEF Emitted
      <4>2. a.seg \in Nat /\ e.seg \in Nat /\ e.seg # 0
        BY <1>0, <1>1, <4>1, StreamIs
      <4> QED BY <4>2
    <3>2. g <= h
      <4>1. e = a \/ e.seg = a.seg + 1
        BY <2>5 DEF Emitted
      <4>2. h = g \/ h = g + 1
        BY <3>1, <4>1
      <4> QED BY <4>2
    <3>3. At(p, b, R, a)
      BY <2>4, <2>7, <3>1, <3>2
    <3>4. Known(texts, more, e)
      <4>1. e.seg - 1 \in Nat /\ e.seg - 1 <= d
        BY <2>7, <3>1
      <4> QED BY <1>9, <4>1 DEF Agrees, Known
    <3> QED BY <2>4, <2>5, <3>3, <3>4, EmitAt
  <2>8. J(m)
    BY <2>3, <2>6, <2>7 DEF J
  <2> QED BY <2>1, <2>8 DEF I
<1>5. \A k \in 0 .. N : k \in I
  <2> HIDE DEF I
  <2> QED BY <1>1, <1>3, <1>4, Onward
<1>6. J(N)
  BY <1>5
<1>7. r.seg <= d + 1
  BY <1>9
<1> QED BY <1>2, <1>6, <1>7

-----------------------------------------------------------------------------
(* One paragraph of a paragraph stream.                                    *)

\* A stream stands between paragraphs: no section ahead is of a segment behind,
\* and none behind is of a segment ahead.
Boundary(p, st) ==
  /\ \A i \in 1 .. st.seg - 1, h \in st.sec .. Len(p.sections) : p.sections[h].para # Owner(p, i)
  /\ \A i \in st.seg .. Len(p.segments), h \in 1 .. st.sec - 1 : p.sections[h].para # Owner(p, i)

\* If it waits, it is for all segments of the paragraph that is next, and it has
\* counted those that are there.
Waiting(p, texts, st) ==
  st.end # st.seg => /\ st.seg <= Len(p.segments) /\ st.end = RunEnd(p, texts, st.seg)
                     /\ st.ready = Arrived(texts, st.seg, st.end)

Standing(p, texts) == {st \in Streams(p, texts) : Boundary(p, st) /\ Waiting(p, texts, st)}

\* The next paragraph has the segments up to e and the sections from start up to
\* after, and what lies before is of no segment ahead.
Facing(p, texts, st, e, start, after) ==
  /\ st.seg \in Indexes(p) /\ Run(p, st.seg, e) /\ e = RunEnd(p, texts, st.seg)
  /\ OwnedRun(p, Owner(p, st.seg), st.sec, start, after)
  /\ Owner(p, st.seg) \in Nat \ {0} /\ p.sections[start].para = Owner(p, st.seg)
  /\ start = Min(OwnedFrom(p, st.sec, Owner(p, st.seg)))
  /\ after = Min(OthersFrom(p, start, Owner(p, st.seg)))

LEMMA FacingIs ==
  ASSUME NEW p, Layout(p), Laid(p.sections), NEW texts, Given(p, texts), NEW st \in Streams(p, texts),
         Boundary(p, st), st.seg <= Len(p.segments)
  PROVE  \E e, start, after : Facing(p, texts, st, e, start, after)
<1>1. PICK N \in Nat, n \in Nat, i \in Nat, s \in Nat :
        /\ N = Len(p.segments) /\ n = Len(p.sections) /\ i = st.seg /\ s = st.sec
        /\ i \in 1 .. N /\ s \in 1 .. n + 1 /\ s # 0
  BY StreamIs
<1>2. PICK owner \in Nat \ {0} : owner = Owner(p, i)
  BY <1>1, OwnersInOrder
<1>3. Run(p, i, RunEnd(p, texts, i))
  BY <1>1, RunIs
<1>4. OwnedFrom(p, s, owner) # {}
  <2>1. PICK x \in 1 .. n : x = Start(p, i) /\ p.sections[x].para = owner
    <3>1. Start(p, i) \in 1 .. n
      BY <1>1, SegmentAt
    <3> QED BY <1>2, <3>1 DEF Owner, Start
  <2>2. s <= x
    <3>1. ASSUME ~(s <= x) PROVE FALSE
      <4>1. x \in 1 .. st.sec - 1 /\ i \in st.seg .. Len(p.segments)
        BY <1>1, <3>1
      <4> QED BY <1>2, <2>1, <4>1 DEF Boundary
    <3> QED BY <3>1
  <2>3. x \in OwnedFrom(p, s, owner)
    BY <1>1, <2>1, <2>2 DEF OwnedFrom
  <2> QED BY <2>3
<1>5. PICK start : start = Min(OwnedFrom(p, s, owner))
  OBVIOUS
<1>6. PICK after : after = Min(OthersFrom(p, start, owner))
  OBVIOUS
<1>7. OwnedRun(p, owner, s, start, after)
  <2>1. s \in Nat \ {0}
    BY <1>1
  <2>2. OwnedRun(p, owner, s, Min(OwnedFrom(p, s, owner)),
                  Min(OthersFrom(p, Min(OwnedFrom(p, s, owner)), owner)))
    BY <1>4, <2>1, SectionRun
  <2> QED BY <1>5, <1>6, <2>2
<1>8. p.sections[start].para = owner
  <2>1. start \in s .. Len(p.sections) /\ start \in start .. after - 1
    BY <1>1, <1>7 DEF OwnedRun
  <2> QED BY <2>1, <1>7 DEF OwnedRun
<1>9. i \in Indexes(p)
  BY <1>1 DEF Indexes
<1> QED BY <1>1, <1>2, <1>3, <1>5, <1>6, <1>7, <1>8, <1>9 DEF Facing

\* The sections before after are of the next paragraph or of no segment ahead.
LEMMA FacingApart ==
  ASSUME NEW p, Layout(p), Laid(p.sections), NEW texts, Given(p, texts), NEW st \in Streams(p, texts),
         Boundary(p, st), NEW e, NEW start, NEW after, Facing(p, texts, st, e, start, after)
  PROVE  /\ e \in Nat /\ start \in Nat /\ after \in Nat /\ st.seg < e /\ e <= Len(p.segments) + 1
         /\ start <= Len(p.sections) /\ st.sec <= start /\ start < after /\ after <= Len(p.sections) + 1
         /\ \A i \in Indexes(p), h \in st.sec .. after - 1 :
              p.sections[h].para = Owner(p, i) => Owner(p, i) = Owner(p, st.seg) /\ h \in start .. after - 1
         /\ \A i \in st.seg .. e - 1 : i \in Indexes(p) /\ Owner(p, i) = Owner(p, st.seg)
         /\ \A i \in e .. Len(p.segments) : i \in Indexes(p) /\ Owner(p, i) # Owner(p, st.seg)
         /\ \A h \in start .. after - 1 : p.sections[h].para = Owner(p, st.seg)
<1>1. PICK N \in Nat, n \in Nat, s \in Nat, t \in Nat :
        /\ N = Len(p.segments) /\ n = Len(p.sections) /\ s = st.seg /\ t = st.sec
        /\ s \in 1 .. N /\ t \in 1 .. n + 1 /\ Indexes(p) = 1 .. N
  BY SMTT(30), StreamIs DEF Facing, Indexes
<1>2. PICK owner \in Nat \ {0} : owner = Owner(p, s)
  BY <1>1 DEF Facing
<1>3. /\ e \in s + 1 .. N + 1
      /\ \A k \in s .. e - 1 : Owner(p, k) = owner
      /\ \A k \in e .. N : Owner(p, k) # owner
  BY <1>1, <1>2 DEF Facing, Run
<1>4. /\ start \in 1 .. n /\ after \in 1 .. n + 1 /\ t <= start /\ start < after
      /\ \A k \in t .. n : p.sections[k].para = owner <=> k \in start .. after - 1
  BY <1>1, <1>2 DEF Facing, OwnedRun
<1>5. p.sections[start].para = owner
  BY <1>1, <1>2 DEF Facing
<1>6. ASSUME NEW i \in Indexes(p), NEW h \in st.sec .. after - 1, p.sections[h].para = Owner(p, i)
      PROVE  Owner(p, i) = owner /\ h \in start .. after - 1
  <2>1. h \in t .. n /\ h \in 1 .. n
    BY <1>1, <1>4
  <2>2. CASE start <= h
    <3>1. p.sections[h].para = owner /\ h \in start .. after - 1
      BY <1>1, <1>4, <2>1, <2>2
    <3> QED BY <1>6, <3>1
  <2>3. CASE ~(start <= h)
    <3>1. p.sections[h].para # owner /\ h <= start
      BY <1>1, <1>4, <2>1, <2>3
    <3>2. p.sections[h].para <= p.sections[start].para
      <4>1. \A x, y \in 1 .. n : x <= y /\ p.sections[y].para # 0 => p.sections[x].para <= p.sections[y].para
        BY <1>1 DEF Laid
      <4> QED BY <1>4, <1>5, <2>1, <3>1, <4>1
    <3>3. Owner(p, i) <= owner /\ Owner(p, i) # owner
      BY <1>5, <1>6, <3>1, <3>2
    <3>4. ASSUME s <= i PROVE FALSE
      <4>1. owner <= Owner(p, i) /\ Owner(p, i) \in Nat
        BY <1>1, <1>2, <3>4, OwnersInOrder
      <4> QED BY <3>3, <4>1
    <3>5. ASSUME ~(s <= i) PROVE FALSE
      <4>1. i \in 1 .. st.seg - 1 /\ h \in st.sec .. Len(p.sections)
        BY <1>1, <2>1, <3>5
      <4> QED BY <1>6, <4>1 DEF Boundary
    <3> QED BY <3>4, <3>5
  <2> QED BY <2>2, <2>3
<1>7. \A i \in s .. e - 1 : i \in Indexes(p) /\ Owner(p, i) = owner
  BY <1>1, <1>3
<1>8. \A i \in e .. N : i \in Indexes(p) /\ Owner(p, i) # owner
  BY <1>1, <1>3
<1>9. \A h \in start .. after - 1 : p.sections[h].para = owner
  BY <1>1, <1>4
<1>10. /\ e \in Nat /\ start \in Nat /\ after \in Nat /\ s < e /\ e <= N + 1
       /\ start <= n /\ t <= start /\ start < after /\ after <= n + 1
  BY <1>1, <1>3, <1>4
<1> QED BY <1>1, <1>2, <1>6, <1>7, <1>8, <1>9, <1>10

\* After the paragraph the stream stands between paragraphs again.
LEMMA FacingPassed ==
  ASSUME NEW p, Layout(p), Laid(p.sections), NEW texts, Given(p, texts), NEW st \in Streams(p, texts),
         Boundary(p, st), NEW e, NEW start, NEW after, Facing(p, texts, st, e, start, after),
         NEW r, r.seg = e, r.sec = after
  PROVE  Boundary(p, r)
<1>1. /\ e \in Nat /\ start \in Nat /\ after \in Nat /\ st.seg < e /\ e <= Len(p.segments) + 1
      /\ start <= Len(p.sections) /\ st.sec <= start /\ start < after /\ after <= Len(p.sections) + 1
      /\ \A i \in Indexes(p), h \in st.sec .. after - 1 :
           p.sections[h].para = Owner(p, i) => Owner(p, i) = Owner(p, st.seg) /\ h \in start .. after - 1
      /\ \A i \in st.seg .. e - 1 : i \in Indexes(p) /\ Owner(p, i) = Owner(p, st.seg)
      /\ \A i \in e .. Len(p.segments) : i \in Indexes(p) /\ Owner(p, i) # Owner(p, st.seg)
  BY FacingApart
<1>2. PICK N \in Nat, n \in Nat, s \in Nat, t \in Nat :
        N = Len(p.segments) /\ n = Len(p.sections) /\ s = st.seg /\ t = st.sec /\ s \in 1 .. N + 1 /\ t \in 1 .. n + 1
  BY StreamIs
<1>3. \A k \in t .. n : p.sections[k].para = Owner(p, s) <=> k \in start .. after - 1
  BY <1>2 DEF Facing, OwnedRun
<1>4. ASSUME NEW i \in 1 .. e - 1, NEW h \in after .. n PROVE p.sections[h].para # Owner(p, i)
  <2>1. h \in t .. n /\ h \notin start .. after - 1
    BY <1>1, <1>2
  <2>2. CASE i < s
    <3>1. i \in 1 .. st.seg - 1 /\ h \in st.sec .. Len(p.sections)
      BY <1>2, <2>1, <2>2
    <3> QED BY <3>1 DEF Boundary
  <2>3. CASE ~(i < s)
    <3>1. Owner(p, i) = Owner(p, s)
      BY <1>1, <1>2, <2>3
    <3> QED BY <1>3, <2>1, <3>1
  <2> QED BY <2>2, <2>3
<1>5. ASSUME NEW i \in e .. N, NEW h \in 1 .. after - 1 PROVE p.sections[h].para # Owner(p, i)
  <2>1. CASE h < t
    <3>1. i \in st.seg .. Len(p.segments) /\ h \in 1 .. st.sec - 1
      BY <1>1, <1>2, <2>1
    <3> QED BY <3>1 DEF Boundary
  <2>2. CASE ~(h < t)
    <3>1. i \in Indexes(p) /\ h \in st.sec .. after - 1 /\ Owner(p, i) # Owner(p, st.seg)
      BY <1>1, <1>2, <2>2
    <3> QED BY <1>1, <3>1
  <2> QED BY <2>1, <2>2
<1> QED BY <1>2, <1>4, <1>5 DEF Boundary

-----------------------------------------------------------------------------
(* What a pass of a paragraph stream does.                                 *)

\* The stream st, once it knows that it waits for the segments up to e.
Knows(texts, st, e, w) ==
  /\ w.out = st.out /\ w.seg = st.seg /\ w.sec = st.sec /\ w.shown = st.shown
  /\ w.end = e /\ w.ready = Arrived(texts, st.seg, e)

All(texts, a, b) == \A i \in a .. b - 1 : texts[i] # NoText

\* The three ways a pass ends.
Passes(src, p, texts, failed, st, w, e, start, after, r) ==
  \/ ~All(texts, st.seg, e) /\ r = w
  \/ /\ All(texts, st.seg, e) /\ Owner(p, st.seg) \in OwnersOf(p, failed)
     /\ r = Originally(src, p, w, start, after)
  \/ /\ All(texts, st.seg, e) /\ Owner(p, st.seg) \notin OwnersOf(p, failed)
     /\ r = Translated(p, texts, w, after)

LEMMA AwaitingIs ==
  ASSUME NEW p, Layout(p), NEW texts, NEW st \in Standing(p, texts), NEW e, e = RunEnd(p, texts, st.seg),
         Run(p, st.seg, e), NEW w, w = Awaiting(p, texts, st)
  PROVE  w \in Streams(p, texts) /\ Knows(texts, st, e, w)
<1>1. st \in Streams(p, texts) /\ Waiting(p, texts, st)
  BY DEF Standing
<1>2. PICK N \in Nat, s \in Nat : N = Len(p.segments) /\ s = st.seg /\ s \in 1 .. N + 1
  BY <1>1, StreamIs
<1>3. e \in Nat /\ e # s /\ s <= e
  BY <1>2 DEF Run
<1>4. Arrived(texts, s, e) \in Nat
  BY <1>2, <1>3, ArrivedIs
<1>5. CASE st.end # s
  <2>1. st.end = e /\ st.ready = Arrived(texts, s, e)
    BY <1>1, <1>2, <1>5 DEF Waiting
  <2>2. w = st
    BY <1>2, <1>5 DEF Awaiting
  <2> QED BY <1>1, <1>2, <2>1, <2>2 DEF Knows
<1>6. CASE st.end = s
  <2>1. w = [st EXCEPT !.end = e, !.ready = Arrived(texts, s, e)]
    BY <1>2, <1>6 DEF Awaiting, RunEnd, Arrived
  <2> DEFINE R == [out : Text, seg : 1 .. Len(p.segments) + 1, sec : 1 .. Len(p.sections) + 1,
                   end : Nat, ready : Nat, shown : Text \cup {NoText}]
  <2>2. st \in R /\ \A j \in 1 .. st.seg - 1 : texts[j] # NoText
    BY <1>1 DEF Streams
  <2>3. PICK v \in Nat : v = Arrived(texts, s, e)
    BY <1>4
  <2>4. /\ w.out = st.out /\ w.seg = st.seg /\ w.sec = st.sec /\ w.shown = st.shown
        /\ w.end = e /\ w.ready = v /\ w \in R
    BY <1>3, <2>1, <2>2, <2>3
  <2>5. \A j \in 1 .. w.seg - 1 : texts[j] # NoText
    <3> HIDE DEF R
    <3> QED BY <2>2, <2>4
  <2>6. w \in Streams(p, texts)
    BY <2>4, <2>5 DEF Streams
  <2> QED BY <1>2, <2>3, <2>4, <2>6 DEF Knows
<1> QED BY <1>5, <1>6

LEMMA SettleCases ==
  ASSUME NEW src, NEW p, Layout(p), Laid(p.sections), NEW texts, Given(p, texts), NEW failed,
         NEW st \in Standing(p, texts), st.seg <= Len(p.segments), NEW r, r = Settle(src, p, texts, failed, st)
  PROVE  \E e, start, after, w :
           /\ Facing(p, texts, st, e, start, after)
           /\ w \in Streams(p, texts) /\ Knows(texts, st, e, w)
           /\ Passes(src, p, texts, failed, st, w, e, start, after, r)
<1>1. st \in Streams(p, texts) /\ Boundary(p, st)
  BY DEF Standing
<1>2. PICK e, start, after : Facing(p, texts, st, e, start, after)
  BY <1>1, FacingIs
<1>3. PICK w : w = Awaiting(p, texts, st) /\ w \in Streams(p, texts) /\ Knows(texts, st, e, w)
  BY <1>2, AwaitingIs DEF Facing
<1>4. PICK s \in Nat, N \in Nat : s = st.seg /\ N = Len(p.segments) /\ N = Len(texts) /\ s <= N
  BY <1>1, StreamIs, GivenAt
<1>5. e \in Nat /\ s <= e
  BY <1>1, <1>2, <1>4, FacingApart
<1>6. PICK v \in Nat : v = Arrived(texts, s, e) /\ v <= e - s /\ (v = e - s <=> All(texts, s, e))
  <2>1. /\ Arrived(texts, s, e) \in Nat /\ Arrived(texts, s, e) <= e - s
        /\ Arrived(texts, s, e) = e - s <=> \A k \in s .. e - 1 : texts[k] # NoText
    BY <1>5, ArrivedIs
  <2> QED BY <2>1 DEF All
<1>7. w.ready = v /\ w.end = e /\ w.seg = s /\ w.sec = st.sec
  BY <1>3, <1>4, <1>6 DEF Knows
<1>8. start = Min({k \in w.sec..Len(p.sections) : p.sections[k].para = Owner(p, s)})
  BY <1>2, <1>4, <1>7 DEF Facing, OwnedFrom
<1>9. after = Min({k \in start..(Len(p.sections) + 1) :
                        k > Len(p.sections) \/ p.sections[k].para # Owner(p, s)})
  BY <1>2, <1>4 DEF Facing, OthersFrom
<1>10. r = IF w.ready < w.end - w.seg THEN w
           ELSE IF Owner(p, s) \in OwnersOf(p, failed) THEN Originally(src, p, w, start, after)
           ELSE Translated(p, texts, w, after)
  <2>1. ~(s > Len(texts))
    BY <1>4
  <2> QED BY <1>3, <1>4, <1>8, <1>9, <2>1 DEF Settle, OwnersOf
<1>11. w.ready < w.end - w.seg <=> ~All(texts, s, e)
  BY <1>5, <1>6, <1>7
<1> QED BY <1>2, <1>3, <1>4, <1>10, <1>11 DEF Passes

\* The texts of the segments before e are there.
Reached(texts, e) == \A j \in 1 .. e - 1 : texts[j] # NoText

\* A stream w that has published x and is now at segment e and section after.
Moves(w, x, after, e, r) == r = [w EXCEPT !.out = x, !.sec = after, !.seg = e, !.ready = 0]

LEMMA MovesIs ==
  ASSUME NEW p, NEW texts, NEW w \in Streams(p, texts), NEW x \in Text,
         NEW after \in 1 .. Len(p.sections) + 1, NEW e \in 1 .. Len(p.segments) + 1, Reached(texts, e),
         NEW r, Moves(w, x, after, e, r)
  PROVE  /\ r \in Streams(p, texts)
         /\ r.out = x /\ r.sec = after /\ r.seg = e /\ r.end = w.end /\ r.shown = w.shown
<1> DEFINE A == 1 .. Len(p.segments) + 1
           B == 1 .. Len(p.sections) + 1
           R == [out : Text, seg : A, sec : B, end : Nat, ready : Nat, shown : Text \cup {NoText}]
<1>1. w \in R /\ after \in B /\ e \in A
  BY DEF Streams
<1> HIDE DEF A, B
<1>2. r \in R /\ r.out = x /\ r.sec = after /\ r.seg = e /\ r.end = w.end /\ r.shown = w.shown
  BY <1>1 DEF Moves
<1> HIDE DEF R
<1>3. \A j \in 1 .. r.seg - 1 : texts[j] # NoText
  BY <1>2 DEF Reached
<1> QED BY <1>2, <1>3 DEF R, A, B, Streams

\* A paragraph in the original.
OriginalOf(src, p, st, start, after, e, r) ==
  /\ r.out = (st.out \o SectionsOf(p, st.sec, start - 1)) \o Origin(src, p, Owner(p, st.seg))
  /\ r.sec = after /\ r.seg = e /\ r.end = e /\ r.shown = st.shown

LEMMA OriginallyIs ==
  ASSUME NEW src, NEW p, Layout(p), Laid(p.sections), Ordered(p, src), src \in Text,
         NEW texts, Given(p, texts), NEW st \in Standing(p, texts),
         NEW e, NEW start, NEW after, NEW w, NEW r, Facing(p, texts, st, e, start, after),
         w \in Streams(p, texts), Knows(texts, st, e, w), All(texts, st.seg, e),
         r = Originally(src, p, w, start, after)
  PROVE  r \in Standing(p, texts) /\ OriginalOf(src, p, st, start, after, e, r)
<1>1. st \in Streams(p, texts) /\ Boundary(p, st)
  BY DEF Standing
<1>2. /\ e \in Nat /\ start \in Nat /\ after \in Nat /\ st.seg < e /\ e <= Len(p.segments) + 1
      /\ start <= Len(p.sections) /\ st.sec <= start /\ start < after /\ after <= Len(p.sections) + 1
  BY <1>1, FacingApart
<1>3. PICK N \in Nat, n \in Nat, s \in Nat, t \in Nat :
        /\ N = Len(p.segments) /\ n = Len(p.sections) /\ s = st.seg /\ t = st.sec /\ s \in 1 .. N + 1 /\ t \in 1 .. n + 1
        /\ st.out \in Text /\ \A j \in 1 .. s - 1 : texts[j] # NoText
  <2>1. /\ Len(p.segments) \in Nat /\ Len(p.sections) \in Nat
        /\ st.seg \in 1 .. Len(p.segments) + 1 /\ st.sec \in 1 .. Len(p.sections) + 1
        /\ st.out \in Text /\ \A j \in 1 .. st.seg - 1 : texts[j] # NoText
    BY <1>1, StreamIs
  <2>2. st.seg \in Nat /\ st.sec \in Nat
    BY <2>1
  <2> QED BY <2>1, <2>2
<1>4. PICK owner : owner = Owner(p, s) /\ owner \in Nat \ {0} /\ p.sections[start].para = owner
  BY <1>3 DEF Facing
<1>5. Origin(src, p, owner) \in Text
  <2>1. Suits(src, p, {owner})
    BY <1>4 DEF Suits
  <2>2. start \in 1 .. Len(p.sections) /\ p.sections[start].para \in {owner}
    BY <1>2, <1>3, <1>4
  <2>3. Origin(src, p, p.sections[start].para) \in Text
    BY <2>1, <2>2, OriginIs
  <2> QED BY <1>4, <2>3
<1>6. PICK l \in Nat : l = start - 1 /\ t <= l + 1 /\ l <= n
  <2>1. start - 1 \in Nat
    BY <1>2, <1>3
  <2> QED BY <1>2, <1>3, <2>1
<1>7. SectionsOf(p, t, l) \in Text
  <2>1. p.sections \in Lists(Sections) /\ t \in 1 .. Len(p.sections) + 1 /\ l <= Len(p.sections)
    BY <1>3, <1>6 DEF Layout
  <2> QED BY <1>6, <2>1, SectionsOfIs
<1>8. PICK x \in Text : x = (st.out \o SectionsOf(p, t, l)) \o Origin(src, p, owner)
  <2>1. st.out \o SectionsOf(p, t, l) \in Text
    BY <1>3, <1>7, TrailingConcat
  <2> QED BY <1>5, <2>1, TrailingConcat
<1>9. x = st.out \o SectionsOf(p, t, l) \o Origin(src, p, owner)
  BY <1>8
<1>10. w.out = st.out /\ w.sec = t /\ w.seg = s /\ w.end = e /\ w.shown = st.shown
  BY <1>3 DEF Knows
<1>11. r = [w EXCEPT !.out = x, !.sec = after, !.seg = e, !.ready = 0]
  BY <1>4, <1>6, <1>9, <1>10 DEF Originally, Origin
<1>13. e \in 1 .. Len(p.segments) + 1 /\ after \in 1 .. Len(p.sections) + 1
  BY <1>2, <1>3
<1>15. Reached(texts, e)
  <2>1. ASSUME NEW j \in 1 .. e - 1 PROVE texts[j] # NoText
    <3>1. j \in 1 .. s - 1 \/ j \in s .. e - 1
      BY <1>2, <1>3
    <3> QED BY <1>3, <3>1 DEF All
  <2> QED BY <2>1 DEF Reached
<1>14. /\ r \in Streams(p, texts) /\ r.out = x /\ r.sec = after /\ r.seg = e /\ r.end = e /\ r.shown = st.shown
  <2>1. Moves(w, x, after, e, r)
    BY <1>11 DEF Moves
  <2>2. /\ r \in Streams(p, texts) /\ r.out = x /\ r.sec = after /\ r.seg = e /\ r.end = w.end /\ r.shown = w.shown
    BY <1>13, <1>15, <2>1, MovesIs
  <2> QED BY <1>10, <2>2
<1>17. Boundary(p, r)
  BY <1>1, <1>14, FacingPassed
<1>18. Waiting(p, texts, r)
  BY <1>14 DEF Waiting
<1> QED BY <1>3, <1>4, <1>6, <1>8, <1>14, <1>17, <1>18 DEF Standing, OriginalOf

-----------------------------------------------------------------------------
(* A paragraph of translated segments.                                     *)

LEMMA StopWithin ==
  ASSUME NEW p, Layout(p), Laid(p.sections), NEW texts, Given(p, texts), NEW st \in Streams(p, texts),
         Boundary(p, st), NEW e, NEW start, NEW after, Facing(p, texts, st, e, start, after),
         NEW i \in st.seg .. e - 1
  PROVE  /\ Start(p, i) \in Nat /\ Stop(p, i) \in Nat /\ Start(p, i) <= Stop(p, i)
         /\ st.sec <= Start(p, i) /\ Stop(p, i) < after
<1>1. PICK N \in Nat, n \in Nat, s \in Nat, t \in Nat :
        N = Len(p.segments) /\ n = Len(p.sections) /\ s = st.seg /\ t = st.sec /\ s \in 1 .. N + 1 /\ t \in 1 .. n + 1
  BY StreamIs
<1>2. PICK owner : owner = Owner(p, s)
  OBVIOUS
<1>3. i \in 1 .. N /\ Owner(p, i) = owner /\ i \in s .. N
  <2>1. i \in Indexes(p) /\ Owner(p, i) = owner /\ e <= N + 1 /\ e \in Nat
    BY <1>1, <1>2, FacingApart
  <2> QED BY <1>1, <2>1 DEF Indexes
<1>4. PICK x \in 1 .. n, z \in 1 .. n : x = Start(p, i) /\ z = Stop(p, i) /\ x <= z
  BY <1>1, <1>3, SegmentAt
<1>5. p.sections[x].para = owner /\ p.sections[z].para = owner
  <2>1. \A k \in Start(p, i) .. Stop(p, i) : p.sections[k].para = Owner(p, i)
    BY <1>1, <1>3 DEF Layout
  <2> QED BY <1>3, <1>4, <2>1
<1>6. t <= x
  <2>1. ASSUME ~(t <= x) PROVE FALSE
    <3>1. i \in st.seg .. Len(p.segments) /\ x \in 1 .. st.sec - 1
      BY <1>1, <1>3, <1>4, <2>1
    <3> QED BY <1>3, <1>5, <3>1 DEF Boundary
  <2> QED BY <2>1
<1>7. z < after
  <2>1. /\ after \in 1 .. n + 1 /\ \A k \in t .. n : p.sections[k].para = owner <=> k \in start .. after - 1
    BY <1>1, <1>2 DEF Facing, OwnedRun
  <2>2. z \in start .. after - 1 /\ after \in Nat
    BY <1>1, <1>4, <1>5, <1>6, <2>1
  <2> QED BY <2>2
<1> QED BY <1>1, <1>4, <1>6, <1>7

JustBefore(last, e) == last + 1 = e

\* Publishing the segments of a paragraph stays within its sections.
LEMMA FlushWithin ==
  ASSUME NEW p, Layout(p), Laid(p.sections), NEW texts, Given(p, texts), NEW st \in Streams(p, texts),
         Boundary(p, st), NEW e, NEW start, NEW after, Facing(p, texts, st, e, start, after),
         NEW w \in Streams(p, texts), Knows(texts, st, e, w), NEW last \in Lasts(p), JustBefore(last, e),
         NEW r, r = FlushPrefix(p, texts, w, last)
  PROVE  r.sec \in Nat /\ st.sec <= r.sec /\ r.sec <= after
<1>1. PICK N \in Nat : N = Len(texts) /\ N = Len(p.segments)
  BY GivenAt
<1>2. PICK f : /\ \A k \in 0 .. N : f[k] \in Streams(p, texts)
               /\ f[0] = w /\ r = f[N]
               /\ \A k \in 1 .. N : f[k] = Emit(p, texts, f[k - 1], last)
  <2>1. \E f : /\ \A k \in 0 .. Len(texts) : f[k] \in Streams(p, texts)
               /\ f[0] = w /\ FlushPrefix(p, texts, w, last) = f[Len(texts)]
               /\ \A k \in 1 .. Len(texts) : f[k] = Emit(p, texts, f[k - 1], last)
    BY FlushPrefixLoop
  <2> QED BY <1>1, <2>1
<1>3. PICK s \in Nat, t \in Nat, u \in Nat : s = st.seg /\ t = st.sec /\ u = after /\ t <= u /\ e \in Nat
  <2>1. st.sec \in Nat /\ st.seg \in Nat
    BY StreamIs
  <2>2. after \in Nat /\ start \in Nat /\ st.sec <= start /\ start < after /\ e \in Nat
    BY FacingApart
  <2>3. st.sec <= after
    BY <2>1, <2>2
  <2> QED BY <2>1, <2>2, <2>3
<1> DEFINE J(k) == s <= f[k].seg /\ t <= f[k].sec /\ f[k].sec <= u
           I == {k \in 0 .. N : J(k)}
<1>4. 0 \in I
  <2>1. f[0].seg = s /\ f[0].sec = t
    BY <1>2, <1>3 DEF Knows
  <2> QED BY <1>1, <1>3, <2>1
<1>5. ASSUME NEW k \in 0 .. N - 1, k \in I PROVE k + 1 \in I
  <2>1. PICK m \in 1 .. N : m = k + 1 /\ m - 1 = k /\ m \in 0 .. N
    BY <1>1
  <2>2. PICK a \in Streams(p, texts) : a = f[k]
    BY <1>2
  <2>3. PICK v : v = f[m] /\ v = Emit(p, texts, a, last)
    BY <1>2, <2>1, <2>2
  <2>4. s <= a.seg /\ t <= a.sec /\ a.sec <= u
    BY <1>5, <2>2
  <2> HIDE DEF I, J
  <2>5. Emitted(p, texts, a, last, v)
    BY <2>3, EmitIs
  <2>6. PICK i \in Nat, c \in Nat : i = a.seg /\ c = a.sec /\ c \in 1 .. Len(p.sections) + 1
    BY StreamIs
  <2>7. CASE a.seg > last \/ texts[a.seg] = NoText
    <3>1. v = a
      BY <2>5, <2>7 DEF Emitted
    <3>2. J(m)
      BY <2>3, <2>4, <3>1 DEF J
    <3> QED BY <2>1, <3>2 DEF I
  <2>8. CASE ~(a.seg > last \/ texts[a.seg] = NoText)
    <3>1. v.seg = i + 1 /\ v.sec = Before(p, i, c).sec /\ i \in 1 .. Len(p.segments)
      BY <2>5, <2>6, <2>8 DEF Emitted
    <3>2. i \in st.seg .. e - 1
      <4>1. last \in Nat /\ last + 1 = e
        BY <1>1 DEF JustBefore, Lasts
      <4> QED BY <1>3, <2>4, <2>6, <2>8, <4>1
    <3>3. PICK x \in Nat, z \in Nat : x = Start(p, i) /\ z = Stop(p, i) /\ x <= z /\ t <= x /\ z < u
      BY <1>3, <3>2, StopWithin
    <3>4. (x < c => v.sec = c) /\ (~(x < c) => v.sec = z + 1)
      BY <2>6, <3>1, <3>3, BeforeIs
    <3>5. s <= v.seg /\ t <= v.sec /\ v.sec <= u
      BY <1>3, <2>4, <2>6, <3>1, <3>3, <3>4
    <3>6. J(m)
      BY <2>3, <3>5 DEF J
    <3> QED BY <2>1, <3>6 DEF I
  <2> QED BY <2>7, <2>8
<1>6. \A k \in 0 .. N : k \in I
  <2> HIDE DEF I
  <2> QED BY <1>1, <1>4, <1>5, Onward
<1>7. J(N)
  BY <1>6
<1>8. r.sec \in Nat
  <2>1. r \in Streams(p, texts)
    BY <1>1, <1>2
  <2> QED BY <2>1, StreamIs
<1> QED BY <1>2, <1>3, <1>7, <1>8

\* A paragraph as it was translated: its segments, published by f, and the rest
\* of its sections.
TranslationOf(p, texts, st, w, start, after, e, last, f, r) ==
  /\ last \in Lasts(p) /\ JustBefore(last, e)
  /\ f = FlushPrefix(p, texts, w, last) /\ f \in Streams(p, texts) /\ f.seg = e
  /\ st.sec <= f.sec /\ f.sec <= after
  /\ r.out = f.out \o SectionsOf(p, f.sec, after - 1)
  /\ r.sec = after /\ r.seg = e /\ r.end = e /\ r.shown = st.shown

LEMMA TranslatedIs ==
  ASSUME NEW p, Layout(p), Laid(p.sections),
         NEW texts, Given(p, texts), NEW st \in Standing(p, texts),
         NEW e, NEW start, NEW after, NEW w, NEW r, Facing(p, texts, st, e, start, after),
         w \in Streams(p, texts), Knows(texts, st, e, w), All(texts, st.seg, e),
         r = Translated(p, texts, w, after)
  PROVE  r \in Standing(p, texts) /\ \E f, last : TranslationOf(p, texts, st, w, start, after, e, last, f, r)
<1>1. st \in Streams(p, texts) /\ Boundary(p, st)
  BY DEF Standing
<1>2. /\ e \in Nat /\ start \in Nat /\ after \in Nat /\ st.seg < e /\ e <= Len(p.segments) + 1
      /\ start <= Len(p.sections) /\ st.sec <= start /\ start < after /\ after <= Len(p.sections) + 1
  BY <1>1, FacingApart
<1>3. PICK N \in Nat, n \in Nat, s \in Nat, t \in Nat :
        /\ N = Len(p.segments) /\ n = Len(p.sections) /\ s = st.seg /\ t = st.sec /\ s \in 1 .. N + 1 /\ t \in 1 .. n + 1
        /\ st.out \in Text /\ \A j \in 1 .. s - 1 : texts[j] # NoText
  <2>1. /\ Len(p.segments) \in Nat /\ Len(p.sections) \in Nat
        /\ st.seg \in 1 .. Len(p.segments) + 1 /\ st.sec \in 1 .. Len(p.sections) + 1
        /\ st.out \in Text /\ \A j \in 1 .. st.seg - 1 : texts[j] # NoText
    BY <1>1, StreamIs
  <2>2. st.seg \in Nat /\ st.sec \in Nat
    BY <2>1
  <2> QED BY <2>1, <2>2
<1>4. PICK last \in Lasts(p) : last = e - 1 /\ JustBefore(last, e)
  <2>1. e - 1 \in 0 .. N /\ (e - 1) + 1 = e
    BY <1>2, <1>3
  <2> QED BY <1>3, <2>1 DEF Lasts, JustBefore
<1>5. PICK f : f = FlushPrefix(p, texts, w, last)
  OBVIOUS
<1>6. w.seg = s /\ w.end = e /\ w.shown = st.shown
  BY <1>3 DEF Knows
<1>7. /\ f \in Streams(p, texts) /\ f.end = w.end /\ f.shown = w.shown
      /\ f.seg > last \/ texts[f.seg] = NoText
      /\ w.seg <= f.seg /\ (w.seg <= last + 1 => f.seg <= last + 1)
  BY <1>5, FlushPrefixStops
<1>8. f.seg = e
  <2>1. f.seg \in Nat
    BY <1>7, StreamIs
  <2>2. s <= f.seg /\ f.seg <= e
    BY <1>2, <1>3, <1>4, <1>6, <1>7
  <2>3. ASSUME f.seg # e PROVE FALSE
    <3>1. f.seg \in s .. e - 1 /\ ~(f.seg > last)
      BY <1>2, <1>3, <1>4, <2>1, <2>2, <2>3
    <3>2. texts[f.seg] # NoText
      BY <1>3, <3>1 DEF All
    <3> QED BY <1>7, <3>1, <3>2
  <2> QED BY <2>3
<1>9. f.sec \in Nat /\ st.sec <= f.sec /\ f.sec <= after
  BY <1>1, <1>4, <1>5, FlushWithin
<1>10. PICK u \in Nat : u = after - 1 /\ f.sec <= u + 1 /\ u <= n
  <2>1. after - 1 \in Nat
    BY <1>2, <1>3
  <2> QED BY <1>2, <1>3, <1>9, <2>1
<1>11. SectionsOf(p, f.sec, u) \in Text
  <2>1. p.sections \in Lists(Sections) /\ f.sec \in 1 .. Len(p.sections) + 1 /\ u <= Len(p.sections)
    BY <1>3, <1>7, <1>10, StreamIs DEF Layout
  <2> QED BY <1>10, <2>1, SectionsOfIs
<1>12. PICK x \in Text : x = f.out \o SectionsOf(p, f.sec, u)
  <2>1. f.out \in Text
    BY <1>7, StreamIs
  <2> QED BY <1>11, <2>1, TrailingConcat
<1>13. r = [f EXCEPT !.out = x, !.sec = after, !.ready = 0]
  BY <1>4, <1>5, <1>6, <1>10, <1>12 DEF Translated
<1>14. Moves(f, x, after, e, r)
  <2>1. f = [f EXCEPT !.seg = e]
    BY <1>7, <1>8 DEF Streams
  <2> QED BY <1>7, <1>8, <1>13 DEF Moves, Streams
<1>15. Reached(texts, e)
  <2>1. ASSUME NEW j \in 1 .. e - 1 PROVE texts[j] # NoText
    <3>1. j \in 1 .. s - 1 \/ j \in s .. e - 1
      BY <1>2, <1>3
    <3> QED BY <1>3, <3>1 DEF All
  <2> QED BY <2>1 DEF Reached
<1>16. e \in 1 .. Len(p.segments) + 1 /\ after \in 1 .. Len(p.sections) + 1
  BY <1>2, <1>3
<1>17. /\ r \in Streams(p, texts) /\ r.out = x /\ r.sec = after /\ r.seg = e /\ r.end = f.end /\ r.shown = f.shown
  BY <1>7, <1>14, <1>15, <1>16, MovesIs
<1>18. Boundary(p, r)
  BY <1>1, <1>17, FacingPassed
<1>19. Waiting(p, texts, r)
  BY <1>6, <1>7, <1>17 DEF Waiting
<1>20. TranslationOf(p, texts, st, w, start, after, e, last, f, r)
  BY <1>4, <1>5, <1>6, <1>7, <1>8, <1>9, <1>10, <1>12, <1>17 DEF TranslationOf
<1> QED BY <1>17, <1>18, <1>19, <1>20 DEF Standing

-----------------------------------------------------------------------------
(* Publishing paragraphs.                                                  *)

\* What a pass makes of the stream a.
PassOf(src, p, texts, failed, a, r) ==
  \/ a.seg > Len(p.segments) /\ r = a
  \/ a.seg <= Len(p.segments) /\ \E e, start, after, w :
       /\ Facing(p, texts, a, e, start, after) /\ w \in Streams(p, texts) /\ Knows(texts, a, e, w)
       /\ \/ ~All(texts, a.seg, e) /\ r = w
          \/ /\ All(texts, a.seg, e) /\ Owner(p, a.seg) \in OwnersOf(p, failed)
             /\ OriginalOf(src, p, a, start, after, e, r)
          \/ /\ All(texts, a.seg, e) /\ Owner(p, a.seg) \notin OwnersOf(p, failed)
             /\ \E f, last : TranslationOf(p, texts, a, w, start, after, e, last, f, r)

\* The plan of a document with paragraphs.
Paragraphs(src, p) == Layout(p) /\ Laid(p.sections) /\ Ordered(p, src) /\ src \in Text

LEMMA SettleIs ==
  ASSUME NEW src, NEW p, Paragraphs(src, p), NEW texts, Given(p, texts), NEW failed,
         NEW a \in Standing(p, texts), NEW r, r = Settle(src, p, texts, failed, a)
  PROVE  r \in Standing(p, texts) /\ PassOf(src, p, texts, failed, a, r)
<1>0. Layout(p) /\ Laid(p.sections) /\ Ordered(p, src) /\ src \in Text
  BY DEF Paragraphs
<1>1. a \in Streams(p, texts) /\ Boundary(p, a)
  BY DEF Standing
<1>2. CASE a.seg > Len(p.segments)
  <2>1. r = a
    BY <1>2, GivenAt DEF Settle
  <2> QED BY <1>2, <2>1 DEF PassOf
<1>3. CASE ~(a.seg > Len(p.segments))
  <2>1. a.seg <= Len(p.segments)
    BY <1>0, <1>1, <1>3, StreamIs
  <2>2. PICK e, start, after, w :
           /\ Facing(p, texts, a, e, start, after)
           /\ w \in Streams(p, texts) /\ Knows(texts, a, e, w)
           /\ Passes(src, p, texts, failed, a, w, e, start, after, r)
    BY <1>0, <2>1, SettleCases
  <2>3. CASE ~All(texts, a.seg, e) /\ r = w
    <3>1. w.seg = a.seg /\ w.sec = a.sec /\ w.end = e /\ w.ready = Arrived(texts, a.seg, e)
      BY <2>2 DEF Knows
    <3>2. Boundary(p, w)
      BY <1>1, <3>1 DEF Boundary
    <3>3. Waiting(p, texts, w)
      BY <2>1, <2>2, <3>1 DEF Waiting, Facing
    <3> QED BY <2>1, <2>2, <2>3, <3>2, <3>3 DEF Standing, PassOf
  <2>4. CASE All(texts, a.seg, e) /\ Owner(p, a.seg) \in OwnersOf(p, failed) /\ r = Originally(src, p, w, start, after)
    <3>1. r \in Standing(p, texts) /\ OriginalOf(src, p, a, start, after, e, r)
      BY <1>0, <2>2, <2>4, OriginallyIs
    <3> QED BY <2>1, <2>2, <2>4, <3>1 DEF PassOf
  <2>5. CASE All(texts, a.seg, e) /\ Owner(p, a.seg) \notin OwnersOf(p, failed) /\ r = Translated(p, texts, w, after)
    <3>1. r \in Standing(p, texts) /\ \E f, last : TranslationOf(p, texts, a, w, start, after, e, last, f, r)
      BY <1>0, <2>2, <2>5, TranslatedIs
    <3> QED BY <2>1, <2>2, <2>5, <3>1 DEF PassOf
  <2> QED BY <2>2, <2>3, <2>4, <2>5 DEF Passes
<1> QED BY <1>2, <1>3

\* Publishing paragraphs by the loop over the segments.
LEMMA FlushParagraphsLoop ==
  ASSUME NEW src, NEW p, Paragraphs(src, p), NEW texts, Given(p, texts), NEW failed,
         NEW st \in Standing(p, texts)
  PROVE  \E f : /\ \A k \in 0 .. Len(texts) : f[k] \in Standing(p, texts)
                /\ f[0] = st /\ FlushParagraphs(src, p, texts, failed, st) = f[Len(texts)]
                /\ \A k \in 1 .. Len(texts) : f[k] = Settle(src, p, texts, failed, f[k - 1])
<1> DEFINE n == Len(texts)
           T == Standing(p, texts)
           x == st
           F == [k \in 1 .. n |-> [a \in T |-> Settle(src, p, texts, failed, a)]]
           Loops(g) == g = [k \in 0 .. n |-> IF k = 0 THEN st ELSE
                              Settle(src, p, texts, failed, g[k-1])]
<1>1. n \in Nat /\ x \in T
  BY GivenAt
<1>2. F \in [1 .. n -> [T -> T]]
  <2>1. ASSUME NEW k \in 1 .. n, NEW a \in T PROVE Settle(src, p, texts, failed, a) \in T
    BY SettleIs
  <2> HIDE DEF T, n
  <2> QED BY <2>1
<1> HIDE DEF T, n, x
<1>3. PICK f : /\ \A k \in 0 .. n : f[k] \in T
               /\ f[0] = x /\ \A k \in 1 .. n : f[k] = F[k][f[k - 1]]
  <2> HIDE DEF F, Loops
  <2>1. n \in Nat /\ x \in T /\ F \in [1 .. n -> [T -> T]]
    BY <1>1, <1>2
  <2> QED BY <2>1, LoopExists
<1>4. ASSUME NEW k \in 1 .. n PROVE f[k] = Settle(src, p, texts, failed, f[k - 1])
  <2>1. k - 1 \in 0 .. n
    BY <1>1
  <2>2. f[k - 1] \in T
    BY <1>3, <2>1
  <2>3. F[k][f[k - 1]] = Settle(src, p, texts, failed, f[k - 1])
    BY <2>2
  <2> QED BY <1>3, <2>3
<1> HIDE DEF F
<1> DEFINE h == [k \in 0 .. n |-> f[k]]
           g == CHOOSE g : Loops(g)
<1>5. Loops(h)
  <2>1. ASSUME NEW k \in 0 .. n
        PROVE  h[k] = IF k = 0 THEN st ELSE
                        Settle(src, p, texts, failed, h[k-1])
    <3>1. CASE k = 0
      BY <1>3, <3>1 DEF x
    <3>2. CASE k # 0
      <4>1. k \in 1 .. n /\ h[k] = f[k] /\ h[k-1] = f[k-1]
        BY <1>1, <3>2
      <4>2. h[k] = Settle(src, p, texts, failed, h[k - 1])
        BY <1>4, <4>1
      <4> HIDE DEF h
      <4> QED BY <3>2, <4>2
    <3> QED BY <3>1, <3>2
  <2> QED BY <2>1
<1>6. Loops(g)
  <2> HIDE DEF Loops, h
  <2> QED BY <1>5
<1>7. FlushParagraphs(src, p, texts, failed, st) = g[n]
  BY DEF FlushParagraphs, Loop, n
<1> HIDE DEF g
<1>8. ASSUME NEW k \in 0 .. n
      PROVE  g[k] = IF k = 0 THEN st ELSE Settle(src, p, texts, failed, g[k - 1])
  <2>1. g[k] = IF k = 0 THEN st ELSE
                 Settle(src, p, texts, failed, g[k-1])
    BY <1>6
  <2> QED BY <2>1
<1> HIDE DEF Loops
<1>9. ASSUME NEW k \in 1 .. n, g[k - 1] = f[k - 1] PROVE g[k] = f[k]
  <2>1. k \in 0 .. n /\ k # 0
    BY <1>1
  <2> QED BY <1>4, <1>8, <1>9, <2>1
<1>10. g[0] = f[0]
  BY <1>1, <1>3, <1>8 DEF x
<1>11. \A k \in 0 .. n : g[k] = f[k]
  BY <1>1, <1>9, <1>10, LoopUnique
<1>12. FlushParagraphs(src, p, texts, failed, st) = f[n]
  BY <1>1, <1>7, <1>11
<1>13. \A k \in 1 .. n : f[k] = Settle(src, p, texts, failed, f[k - 1])
  BY <1>4
<1> QED BY <1>3, <1>12, <1>13 DEF n, T, x

\* A stream that waits lacks a text of the paragraph that is next.
Waits(p, texts, st) ==
  \/ st.seg > Len(p.segments)
  \/ \E k \in Indexes(p) : Owner(p, k) = Owner(p, st.seg) /\ texts[k] = NoText

LEMMA PassWaits ==
  ASSUME NEW src, NEW p, Paragraphs(src, p), NEW texts, Given(p, texts), NEW failed,
         NEW a \in Standing(p, texts), NEW r, PassOf(src, p, texts, failed, a, r)
  PROVE  /\ Waits(p, texts, a) => Waits(p, texts, r)
         /\ Waits(p, texts, r) \/ a.seg < r.seg
<1>0. Layout(p) /\ Laid(p.sections)
  BY DEF Paragraphs
<1>1. a \in Streams(p, texts) /\ Boundary(p, a)
  BY DEF Standing
<1>2. CASE a.seg > Len(p.segments) /\ r = a
  BY <1>2 DEF Waits
<1>3. CASE a.seg <= Len(p.segments)
  <2>1. PICK N \in Nat, s \in Nat : N = Len(p.segments) /\ s = a.seg /\ s \in 1 .. N /\ Indexes(p) = 1 .. N
                 /\ \A j \in 1 .. s - 1 : texts[j] # NoText
    <3>1. /\ Len(p.segments) \in Nat /\ a.seg \in 1 .. Len(p.segments) + 1
          /\ \A j \in 1 .. a.seg - 1 : texts[j] # NoText
      BY <1>0, <1>1, StreamIs
    <3> QED BY <1>3, <3>1 DEF Indexes
  <2>2. PICK e, start, after, w :
       /\ Facing(p, texts, a, e, start, after) /\ w \in Streams(p, texts) /\ Knows(texts, a, e, w)
       /\ \/ ~All(texts, a.seg, e) /\ r = w
          \/ /\ All(texts, a.seg, e) /\ Owner(p, a.seg) \in OwnersOf(p, failed)
             /\ OriginalOf(src, p, a, start, after, e, r)
          \/ /\ All(texts, a.seg, e) /\ Owner(p, a.seg) \notin OwnersOf(p, failed)
             /\ \E f, last : TranslationOf(p, texts, a, w, start, after, e, last, f, r)
    <3>1. ~(a.seg > Len(p.segments))
      BY <2>1
    <3> QED BY <3>1 DEF PassOf
  <2>3. /\ e \in Nat /\ s < e /\ e <= N + 1
        /\ \A i \in s .. e - 1 : i \in Indexes(p) /\ Owner(p, i) = Owner(p, s)
        /\ \A i \in e .. N : i \in Indexes(p) /\ Owner(p, i) # Owner(p, s)
    <3>1. /\ e \in Nat /\ a.seg < e /\ e <= Len(p.segments) + 1
          /\ \A i \in a.seg .. e - 1 : i \in Indexes(p) /\ Owner(p, i) = Owner(p, a.seg)
          /\ \A i \in e .. Len(p.segments) : i \in Indexes(p) /\ Owner(p, i) # Owner(p, a.seg)
      BY <1>0, <1>1, <2>2, FacingApart
    <3> QED BY <2>1, <3>1
  <2>4. CASE ~All(texts, a.seg, e) /\ r = w
    <3>1. PICK k \in s .. e - 1 : texts[k] = NoText
      BY <2>1, <2>4 DEF All
    <3>2. w.seg = s /\ Owner(p, k) = Owner(p, s) /\ k \in Indexes(p)
      BY <2>1, <2>2, <2>3, <3>1 DEF Knows
    <3>3. Waits(p, texts, r)
      BY <2>4, <3>1, <3>2 DEF Waits
    <3> QED BY <3>3
  <2>5. CASE All(texts, s, e) /\ r.seg = e
    <3>1. ASSUME Waits(p, texts, a) PROVE FALSE
      <4>1. PICK k \in 1 .. N : Owner(p, k) = Owner(p, s) /\ texts[k] = NoText
        <5>1. ~(a.seg > Len(p.segments))
          BY <2>1
        <5> QED BY <2>1, <3>1, <5>1 DEF Waits
      <4>2. k \in 1 .. s - 1 \/ k \in s .. e - 1 \/ k \in e .. N
        BY <2>1, <2>3
      <4>3. k \notin e .. N
        BY <2>3, <4>1
      <4> QED BY <2>1, <2>5, <4>1, <4>2, <4>3 DEF All
    <3> QED BY <2>1, <2>3, <2>5, <3>1
  <2> QED BY <2>1, <2>2, <2>4, <2>5 DEF OriginalOf, TranslationOf
<1> QED BY <1>2, <1>3 DEF PassOf

LEMMA FlushParagraphsWaits ==
  ASSUME NEW src, NEW p, Paragraphs(src, p), NEW texts, Given(p, texts), NEW failed,
         NEW st \in Standing(p, texts), NEW r, r = FlushParagraphs(src, p, texts, failed, st)
  PROVE  r \in Standing(p, texts) /\ Waits(p, texts, r)
<1>1. PICK N \in Nat : N = Len(texts) /\ N = Len(p.segments)
  BY GivenAt
<1>2. PICK f : /\ \A k \in 0 .. N : f[k] \in Standing(p, texts)
               /\ f[0] = st /\ r = f[N]
               /\ \A k \in 1 .. N : f[k] = Settle(src, p, texts, failed, f[k - 1])
  <2>1. \E f : /\ \A k \in 0 .. Len(texts) : f[k] \in Standing(p, texts)
               /\ f[0] = st /\ FlushParagraphs(src, p, texts, failed, st) = f[Len(texts)]
               /\ \A k \in 1 .. Len(texts) : f[k] = Settle(src, p, texts, failed, f[k - 1])
    BY FlushParagraphsLoop
  <2> QED BY <1>1, <2>1
<1>3. ASSUME NEW a \in Standing(p, texts) PROVE a.seg \in Nat /\ a.seg >= 1
  <2>1. Len(p.segments) \in Nat /\ a.seg \in 1 .. Len(p.segments) + 1
    BY StreamIs DEF Standing, Paragraphs
  <2> QED BY <2>1
<1> DEFINE J(k) == Waits(p, texts, f[k]) \/ f[k].seg > k
           I == {k \in 0 .. N : J(k)}
<1>4. 0 \in I
  <2>1. st.seg > 0
    BY <1>3
  <2> QED BY <1>1, <1>2, <2>1
<1>5. ASSUME NEW k \in 0 .. N - 1, k \in I PROVE k + 1 \in I
  <2>1. PICK m \in 1 .. N : m = k + 1 /\ m - 1 = k /\ m \in 0 .. N
    BY <1>1
  <2>2. PICK a \in Standing(p, texts) : a = f[k]
    BY <1>2
  <2>3. PICK v \in Standing(p, texts) : v = f[m] /\ v = Settle(src, p, texts, failed, a)
    BY <1>2, <2>1, <2>2
  <2>4. Waits(p, texts, a) \/ a.seg > k
    BY <1>5, <2>2
  <2> HIDE DEF I, J
  <2>5. PassOf(src, p, texts, failed, a, v)
    BY <2>3, SettleIs
  <2>6. /\ Waits(p, texts, a) => Waits(p, texts, v)
        /\ Waits(p, texts, v) \/ a.seg < v.seg
    BY <2>5, PassWaits
  <2>7. a.seg \in Nat /\ v.seg \in Nat
    BY <1>3
  <2>8. J(m)
    BY <2>1, <2>3, <2>4, <2>6, <2>7 DEF J
  <2> QED BY <2>1, <2>8 DEF I
<1>6. \A k \in 0 .. N : k \in I
  <2> HIDE DEF I
  <2> QED BY <1>1, <1>4, <1>5, Onward
<1>7. J(N)
  BY <1>6
<1>8. r \in Standing(p, texts)
  BY <1>1, <1>2
<1> QED BY <1>1, <1>2, <1>7, <1>8 DEF Waits

\* A text more, and the counter with it.
Tallied(st, i) == IF i \in st.seg .. (st.end - 1) THEN [st EXCEPT !.ready = @ + 1] ELSE st

\* The text of segment i has come.
Comes(p, texts, i, more) ==
  /\ Given(p, texts) /\ Given(p, more) /\ i \in Indexes(p) /\ texts[i] = NoText /\ more[i] # NoText
  /\ \A j \in Indexes(p) : j # i => more[j] = texts[j]

\* It is one of those from a up to b.
OneMore(texts, more, a, b, i) ==
  /\ i \in a .. b - 1 /\ texts[i] = NoText /\ more[i] # NoText
  /\ \A k \in a .. b - 1 : k # i => more[k] = texts[k]

LEMMA ArrivedOne ==
  ASSUME NEW texts, NEW more, NEW a \in Nat, NEW b \in Nat, NEW i, OneMore(texts, more, a, b, i)
  PROVE  Arrived(more, a, b) = Arrived(texts, a, b) + 1
<1>1. i \in a .. b - 1 /\ texts[i] = NoText /\ more[i] # NoText
      /\ \A k \in a .. b - 1 : k # i => more[k] = texts[k]
  BY DEF OneMore
<1> QED BY <1>1, ArrivedGrows

LEMMA StandingGrows ==
  ASSUME NEW p, Layout(p), Laid(p.sections), NEW texts, NEW i, NEW more, Comes(p, texts, i, more),
         NEW st \in Standing(p, texts)
  PROVE  Tallied(st, i) \in Standing(p, more)
<1>1. /\ Given(p, texts) /\ Given(p, more) /\ i \in Indexes(p) /\ texts[i] = NoText /\ more[i] # NoText
      /\ \A j \in Indexes(p) : j # i => more[j] = texts[j]
  BY DEF Comes
<1>2. st \in Streams(p, texts) /\ Boundary(p, st) /\ Waiting(p, texts, st)
  BY DEF Standing
<1>3. PICK N \in Nat, s \in Nat : N = Len(p.segments) /\ s = st.seg /\ s \in 1 .. N + 1 /\ Indexes(p) = 1 .. N
                 /\ st.ready \in Nat /\ st.end \in Nat
                 /\ \A j \in 1 .. s - 1 : texts[j] # NoText
  <2>1. /\ Len(p.segments) \in Nat /\ st.seg \in 1 .. Len(p.segments) + 1 /\ st.ready \in Nat /\ st.end \in Nat
        /\ \A j \in 1 .. st.seg - 1 : texts[j] # NoText
    BY <1>2, StreamIs
  <2> QED BY <2>1 DEF Indexes
<1>5. \A j \in 1 .. s - 1 : more[j] # NoText
  BY <1>1, <1>3
<1>6. PICK c : c = Tallied(st, i)
  OBVIOUS
<1>7. /\ c.seg = s /\ c.sec = st.sec /\ c.end = st.end
      /\ c \in Streams(p, more)
      /\ c.ready = IF i \in s .. st.end - 1 THEN st.ready + 1 ELSE st.ready
  <2> DEFINE A == 1 .. Len(p.segments) + 1
             B == 1 .. Len(p.sections) + 1
             R == [out : Text, seg : A, sec : B, end : Nat, ready : Nat, shown : Text \cup {NoText}]
  <2>1. st \in R
    BY <1>2 DEF Streams
  <2>2. PICK v \in Nat : v = st.ready + 1
    BY <1>3
  <2> HIDE DEF A, B
  <2>3. c \in R /\ c.seg = s /\ c.sec = st.sec /\ c.end = st.end
        /\ c.ready = IF i \in s .. st.end - 1 THEN v ELSE st.ready
    <3>1. CASE i \in s .. st.end - 1
      <4>1. c = [st EXCEPT !.ready = v]
        BY <1>3, <1>6, <2>2, <3>1 DEF Tallied
      <4> QED BY <1>3, <2>1, <3>1, <4>1
    <3>2. CASE i \notin s .. st.end - 1
      <4>1. c = st
        BY <1>3, <1>6, <3>2 DEF Tallied
      <4> QED BY <1>3, <2>1, <3>2, <4>1
    <3> QED BY <3>1, <3>2
  <2> HIDE DEF R
  <2>4. \A j \in 1 .. c.seg - 1 : more[j] # NoText
    BY <1>5, <2>3
  <2> QED BY <2>2, <2>3, <2>4 DEF Streams, R, A, B
<1>8. Boundary(p, c)
  BY <1>2, <1>3, <1>7 DEF Boundary
<1>9. ASSUME c.end # c.seg
      PROVE  c.seg <= Len(p.segments) /\ c.end = RunEnd(p, more, c.seg) /\ c.ready = Arrived(more, c.seg, c.end)
  <2>1. st.seg <= Len(p.segments) /\ st.end = RunEnd(p, texts, st.seg) /\ st.ready = Arrived(texts, st.seg, st.end)
    BY <1>2, <1>3, <1>7, <1>9 DEF Waiting
  <2>2. RunEnd(p, more, s) = RunEnd(p, texts, s)
    <3>1. Len(more) = Len(texts)
      BY <1>1, GivenAt
    <3> QED BY <3>1 DEF RunEnd
  <2>3. PICK e \in Nat : e = st.end /\ e <= N + 1
    <3>1. Run(p, s, RunEnd(p, texts, s))
      <4>1. Given(p, texts) /\ s \in 1 .. Len(p.segments)
        BY <1>1, <1>3, <2>1
      <4> QED BY <4>1, RunIs
    <3> QED BY <1>3, <2>1, <3>1 DEF Run
  <2>4. CASE i \in s .. e - 1
    <3>1. OneMore(texts, more, s, e, i)
      BY <1>1, <1>3, <2>3, <2>4 DEF OneMore
    <3>2. Arrived(more, s, e) = Arrived(texts, s, e) + 1
      BY <2>3, <3>1, ArrivedOne
    <3> QED BY <1>3, <1>7, <2>1, <2>2, <2>3, <2>4, <3>2
  <2>5. CASE i \notin s .. e - 1
    <3>1. \A k \in s .. e - 1 : more[k] = texts[k]
      BY SMTT(30), <1>1, <1>3, <2>3, <2>5
    <3>2. Arrived(more, s, e) = Arrived(texts, s, e)
      BY <3>1, ArrivedSame
    <3> QED BY <1>3, <1>7, <2>1, <2>2, <2>3, <2>5, <3>2
  <2> QED BY <2>4, <2>5
<1>10. Waiting(p, more, c)
  BY <1>9 DEF Waiting
<1> QED BY <1>6, <1>7, <1>8, <1>10 DEF Standing

-----------------------------------------------------------------------------
(* Paragraphs are published when they are settled.                         *)

\* A paragraph stream stands between paragraphs, and waits for the next one.
Settling ==
  /\ mode = "Paragraph" => ~IsJson(source)
  /\ mode = "Paragraph" /\ status = "running" => stream \in Standing(plan, got) /\ Waits(plan, got, stream)

LEMMA ParagraphPlan ==
  ASSUME Prepared, ~IsJson(source)
  PROVE  Paragraphs(source, plan)
  BY LaidOut DEF Paragraphs, Ordered

LEMMA UnpublishedIs ==
  ASSUME NEW p, Layout(p), NEW texts
  PROVE  /\ Unpublished \in Standing(p, texts) /\ Unpublished.seg = 1 /\ Unpublished.sec = 1
         /\ Unpublished.out = <<>> /\ Unpublished.shown = NoText
<1>1. PICK N \in Nat, n \in Nat : N = Len(p.segments) /\ n = Len(p.sections)
  BY ListIs DEF Layout
<1>2. 1 \in 1 .. N + 1 /\ 1 \in 1 .. n + 1 /\ <<>> \in Text /\ NoText \in Text \cup {NoText}
  BY <1>1, RequestEmpty
<1>3. PICK st : st = Unpublished
  OBVIOUS
<1>4. /\ st.out = <<>> /\ st.seg = 1 /\ st.sec = 1 /\ st.end = 1 /\ st.ready = 0 /\ st.shown = NoText
      /\ st \in [out : Text, seg : 1 .. N + 1, sec : 1 .. n + 1, end : Nat, ready : Nat, shown : Text \cup {NoText}]
  BY <1>2, <1>3 DEF Unpublished
<1>5. \A j \in 1 .. st.seg - 1 : texts[j] # NoText
  BY <1>4
<1>6. st \in Streams(p, texts)
  BY <1>1, <1>4, <1>5 DEF Streams
<1>7. Boundary(p, st)
  BY <1>4 DEF Boundary
<1>8. Waiting(p, texts, st)
  BY <1>4 DEF Waiting
<1> QED BY <1>3, <1>4, <1>6, <1>7, <1>8 DEF Standing

LEMMA SettlingInit ==
  ASSUME Init, Prepared, Filled
  PROVE  Settling
<1>1. mode = "Paragraph" => ~IsJson(source)
  BY DEF Init
<1>2. ASSUME mode = "Paragraph", status = "running"
      PROVE  stream \in Standing(plan, got) /\ Waits(plan, got, stream)
  <2>1. Paragraphs(source, plan) /\ Given(plan, got)
    BY <1>1, <1>2, ParagraphPlan DEF Filled
  <2>2. stream = FlushParagraphs(source, plan, got, {}, Unpublished)
    BY <1>2 DEF Init, Flush
  <2>3. Unpublished \in Standing(plan, got)
    BY <2>1, UnpublishedIs DEF Paragraphs
  <2> QED BY <2>1, <2>2, <2>3, FlushParagraphsWaits
<1> QED BY <1>1, <1>2 DEF Settling

\* The text of segment i comes, as a translation or as the original.
Arrives(i) ==
  /\ status = "running" /\ UNCHANGED <<source, mode, plan, status>>
  /\ Comes(plan, got, i, got') /\ kept \subseteq kept' /\ kept' \subseteq kept \cup {i}
  /\ stream' = Flush(plan, got', kept', Counted(i))

LEMMA Arrival ==
  ASSUME Prepared, Filled, NEW i \in DOMAIN got, Complete(i) \/ Retain(i)
  PROVE  Arrives(i)
<1>1. Layout(plan) /\ Given(plan, got) /\ DOMAIN got = Indexes(plan) /\ i \in Indexes(plan)
  BY LaidOut, GivenAt DEF Filled, Indexes
<1>2. PICK t \in Text : /\ status = "running" /\ UNCHANGED <<source, mode, plan, status>> /\ got[i] = NoText
                        /\ got' = [got EXCEPT ![i] = t] /\ kept \subseteq kept' /\ kept' \subseteq kept \cup {i}
                        /\ stream' = Flush(plan, got', kept', Counted(i))
  <2>1. CASE Complete(i)
    BY <1>1, <2>1, TextsIn DEF Complete
  <2>2. CASE Retain(i)
    <3>1. plan.segments[i].text \in Text
      BY <1>1, SegmentAt DEF Indexes
    <3> QED BY <2>2, <3>1 DEF Retain
  <2> QED BY <2>1, <2>2
<1>3. Given(plan, got') /\ \A j \in Indexes(plan) : got'[j] = IF j = i THEN t ELSE got[j]
  BY <1>1, <1>2, GivenWith
<1>4. t # NoText
  BY OutputAssumption
<1>5. Comes(plan, got, i, got')
  BY <1>1, <1>2, <1>3, <1>4 DEF Comes
<1> QED BY <1>2, <1>5 DEF Arrives

LEMMA SettlingNext ==
  ASSUME Prepared, Filled, Settling, [Next]_vars
  PROVE  Settling'
<1>1. CASE UNCHANGED vars
  BY <1>1 DEF vars, Settling
<1>2. CASE Show
  <2>1. mode = "Optimistic" /\ UNCHANGED <<mode, source, status>>
    BY <1>2 DEF Show
  <2> QED BY <2>1 DEF Settling
<1>3. CASE Finish
  <2>1. UNCHANGED <<mode, source>> /\ status' = "done"
    BY <1>3 DEF Finish
  <2> QED BY <2>1 DEF Settling
<1>4. ASSUME NEW i \in DOMAIN got, Complete(i) \/ Retain(i) PROVE Settling'
  <2>1. Arrives(i)
    BY <1>4, Arrival
  <2>2. status = "running" /\ mode' = mode /\ source' = source /\ plan' = plan /\ status' = status
        /\ Comes(plan, got, i, got') /\ stream' = Flush(plan, got', kept', Counted(i))
    BY <2>1 DEF Arrives
  <2>3. ASSUME mode = "Paragraph"
        PROVE  stream' \in Standing(plan, got') /\ Waits(plan, got', stream')
    <3>1. Paragraphs(source, plan) /\ stream \in Standing(plan, got)
      BY <2>2, <2>3, ParagraphPlan DEF Settling
    <3>2. Counted(i) = Tallied(stream, i)
      BY <2>3 DEF Counted, Tallied
    <3>3. Tallied(stream, i) \in Standing(plan, got')
      BY <2>2, <3>1, StandingGrows DEF Paragraphs
    <3>4. stream' = FlushParagraphs(source, plan, got', kept', Tallied(stream, i))
      BY <2>2, <2>3, <3>2 DEF Flush
    <3>5. Given(plan, got')
      BY <2>2 DEF Comes
    <3> QED BY <3>1, <3>3, <3>4, <3>5, FlushParagraphsWaits
  <2>4. /\ Standing(plan, got)' = Standing(plan, got')
        /\ Waits(plan, got, stream)' = Waits(plan, got', stream')
    BY <2>2
  <2> QED BY <2>2, <2>3, <2>4 DEF Settling
<1> QED BY <1>1, <1>2, <1>3, <1>4 DEF Next

LEMMA SettlingHolds == Spec => [](Prepared /\ Filled /\ Settling)
<1>1. Init => Prepared /\ Filled /\ Settling
  BY PreparedInit, FilledInit, SettlingInit
<1>2. Prepared /\ Filled /\ Settling /\ [Next]_vars => (Prepared /\ Filled /\ Settling)'
  BY PreparedNext, FilledNext, SettlingNext
<1> QED BY <1>1, <1>2, PTL DEF Spec

\* Nothing behind a stream between paragraphs has an owner ahead.
LEMMA BehindApart ==
  ASSUME NEW p, Layout(p), NEW texts, NEW st \in Standing(p, texts),
         NEW i \in Indexes(p), i < st.seg, NEW k \in Indexes(p), ~(k < st.seg)
  PROVE  Owner(p, k) # Owner(p, i)
<1>1. PICK N \in Nat, n \in Nat, s \in Nat, t \in Nat :
        N = Len(p.segments) /\ n = Len(p.sections) /\ s = st.seg /\ t = st.sec /\ Indexes(p) = 1 .. N
  <2>1. /\ Len(p.segments) \in Nat /\ Len(p.sections) \in Nat
        /\ st.seg \in 1 .. Len(p.segments) + 1 /\ st.sec \in 1 .. Len(p.sections) + 1
    BY StreamIs DEF Standing
  <2> QED BY <2>1 DEF Indexes
<1>2. PICK x \in 1 .. n : x = Start(p, k) /\ p.sections[x].para = Owner(p, k)
  <2>1. Start(p, k) \in 1 .. Len(p.sections)
    BY SegmentAt DEF Indexes
  <2> QED BY <1>1, <2>1 DEF Owner, Start
<1>3. CASE x < t
  <2>1. k \in st.seg .. Len(p.segments) /\ x \in 1 .. st.sec - 1
    BY <1>1, <1>3
  <2>2. p.sections[x].para # Owner(p, k)
    BY <2>1 DEF Standing, Boundary
  <2> QED BY <1>2, <2>2
<1>4. CASE ~(x < t)
  <2>1. i \in 1 .. st.seg - 1 /\ x \in st.sec .. Len(p.sections)
    BY <1>1, <1>4
  <2>2. p.sections[x].para # Owner(p, i)
    BY <2>1 DEF Standing, Boundary
  <2> QED BY <1>2, <2>2
<1> QED BY <1>3, <1>4

\* A paragraph stream publishes a paragraph no earlier than its last segment, for
\* until then it may still be kept in the original, and no later
\* (ParagraphStream::flush in paragraph_stream.rs).
THEOREM PublishedWhenSettledHolds == Spec => []PublishedWhenSettled
<1>1. ASSUME Prepared, Filled, Settling PROVE PublishedWhenSettled
  <2> SUFFICES ASSUME status = "running", mode = "Paragraph"
               PROVE  /\ \A i \in 1..(stream.seg - 1), k \in DOMAIN got :
                           Owner(plan, k) = Owner(plan, i) => got[k] # NoText
                      /\ stream.seg <= Len(got) => \E k \in DOMAIN got :
                           Owner(plan, k) = Owner(plan, stream.seg) /\ got[k] = NoText
    BY DEF PublishedWhenSettled
  <2>1. stream \in Standing(plan, got) /\ Waits(plan, got, stream) /\ stream \in Streams(plan, got)
    BY <1>1 DEF Settling, Standing
  <2>2. Layout(plan) /\ Given(plan, got)
    BY <1>1, LaidOut DEF Filled
  <2>3. PICK N \in Nat, s \in Nat :
          /\ N = Len(plan.segments) /\ N = Len(got) /\ DOMAIN got = 1 .. N /\ Indexes(plan) = 1 .. N
          /\ s = stream.seg /\ s \in 1 .. N + 1 /\ \A j \in 1 .. s - 1 : got[j] # NoText
    <3>1. /\ Len(plan.segments) \in Nat /\ stream.seg \in 1 .. Len(plan.segments) + 1
          /\ \A j \in 1 .. stream.seg - 1 : got[j] # NoText
      BY <2>1, <2>2, StreamIs
    <3>2. Len(got) = Len(plan.segments) /\ DOMAIN got = 1 .. Len(got)
      BY <2>2, GivenAt
    <3> QED BY <3>1, <3>2 DEF Indexes
  <2>4. ASSUME NEW i \in 1 .. s - 1, NEW k \in DOMAIN got, Owner(plan, k) = Owner(plan, i)
        PROVE  got[k] # NoText
    <3>1. i \in Indexes(plan) /\ i < stream.seg /\ k \in Indexes(plan)
      BY <2>3
    <3>2. k < stream.seg
      BY <2>1, <2>2, <2>4, <3>1, BehindApart
    <3> QED BY <2>3, <3>2
  <2>5. ASSUME s <= Len(got)
        PROVE  \E k \in DOMAIN got : Owner(plan, k) = Owner(plan, s) /\ got[k] = NoText
    <3>1. ~(stream.seg > Len(plan.segments))
      BY <2>3, <2>5
    <3> QED BY <2>1, <2>3, <3>1 DEF Waits
  <2> QED BY <2>3, <2>4, <2>5
<1> QED BY <1>1, SettlingHolds, PTL

-----------------------------------------------------------------------------
(* A paragraph stream is the beginning of what the outcome will be.        *)

\* The stream is what the body has before the section that is next.
Caught(b, st) == st.out = b[st.sec - 1].text

\* The owners published so far stay retained or not.
Agreed(p, failed, later, st) ==
  \A i \in 1 .. st.seg - 1 : Owner(p, i) \in OwnersOf(p, failed) <=> Owner(p, i) \in OwnersOf(p, later)

LEMMA StandingFresh ==
  ASSUME NEW p, Layout(p), NEW texts, NEW st \in Standing(p, texts)
  PROVE  Fresh(p, st)
<1>1. PICK N \in Nat, n \in Nat, s \in Nat, t \in Nat :
        /\ N = Len(p.segments) /\ n = Len(p.sections) /\ s = st.seg /\ t = st.sec /\ Indexes(p) = 1 .. N
        /\ s \in 1 .. N + 1 /\ t \in 1 .. n + 1
  <2>1. /\ Len(p.segments) \in Nat /\ Len(p.sections) \in Nat
        /\ st.seg \in 1 .. Len(p.segments) + 1 /\ st.sec \in 1 .. Len(p.sections) + 1
    BY StreamIs DEF Standing
  <2> QED BY <2>1 DEF Indexes
<1>2. ASSUME NEW i \in 1 .. N
      PROVE  \E x \in 1 .. n, z \in 1 .. n : /\ x = Start(p, i) /\ z = Stop(p, i) /\ x <= z
               /\ p.sections[x].para = Owner(p, i) /\ p.sections[z].para = Owner(p, i)
  <2>1. PICK x \in 1 .. n, z \in 1 .. n : x = Start(p, i) /\ z = Stop(p, i) /\ x <= z
    BY <1>1, SegmentAt
  <2>2. \A k \in Start(p, i) .. Stop(p, i) : p.sections[k].para = Owner(p, i)
    BY <1>1 DEF Layout
  <2> QED BY <2>1, <2>2
<1>3. Boundary(p, st)
  BY DEF Standing
<1>4. ASSUME st.seg <= Len(p.segments) PROVE st.sec <= Start(p, st.seg)
  <2>1. s \in 1 .. N
    BY <1>1, <1>4
  <2>2. PICK x \in 1 .. n : x = Start(p, s) /\ p.sections[x].para = Owner(p, s)
    BY <1>2, <2>1
  <2>3. ASSUME ~(t <= x) PROVE FALSE
    <3>1. s \in st.seg .. Len(p.segments) /\ x \in 1 .. st.sec - 1
      BY <1>1, <2>1, <2>3
    <3> QED BY <1>3, <2>2, <3>1 DEF Boundary
  <2> QED BY <1>1, <2>2, <2>3
<1>5. ASSUME NEW j \in 1 .. st.seg - 1 PROVE Stop(p, j) < st.sec
  <2>1. j \in 1 .. N
    BY <1>1
  <2>2. PICK z \in 1 .. n : z = Stop(p, j) /\ p.sections[z].para = Owner(p, j)
    BY <1>2, <2>1
  <2>3. ASSUME ~(z < t) PROVE FALSE
    <3>1. z \in st.sec .. Len(p.sections)
      BY <1>1, <2>3
    <3> QED BY <1>3, <2>2, <3>1 DEF Boundary
  <2> QED BY <1>1, <2>2, <2>3
<1> QED BY <1>4, <1>5 DEF Fresh

\* The sections passed before a paragraph are published as they are.
LEMMA FacingLiteral ==
  ASSUME NEW p, Layout(p), Laid(p.sections), NEW texts, Given(p, texts), NEW a \in Standing(p, texts),
         NEW e, NEW start, NEW after, Facing(p, texts, a, e, start, after),
         NEW later, later \subseteq Indexes(p), NEW l \in Nat, JustBefore(l, start)
  PROVE  Literal(p, OwnersOf(p, later), a.sec, l)
<1>1. a \in Streams(p, texts) /\ Boundary(p, a)
  BY DEF Standing
<1>2. /\ e \in Nat /\ start \in Nat /\ after \in Nat /\ a.seg < e
      /\ start <= Len(p.sections) /\ a.sec <= start /\ start < after /\ after <= Len(p.sections) + 1
      /\ \A i \in Indexes(p), h \in a.sec .. after - 1 :
           p.sections[h].para = Owner(p, i) => Owner(p, i) = Owner(p, a.seg) /\ h \in start .. after - 1
  BY <1>1, FacingApart
<1>3. PICK N \in Nat, n \in Nat, s \in Nat, t \in Nat :
        /\ N = Len(p.segments) /\ n = Len(p.sections) /\ s = a.seg /\ t = a.sec /\ Indexes(p) = 1 .. N
        /\ s \in 1 .. N /\ t \in 1 .. n + 1
  <2>1. /\ Len(p.segments) \in Nat /\ Len(p.sections) \in Nat /\ a.sec \in 1 .. Len(p.sections) + 1
    BY <1>1, StreamIs
  <2>2. a.seg \in Indexes(p)
    BY DEF Facing
  <2> QED BY <2>1, <2>2 DEF Indexes
<1>4. start \in 1 .. n /\ l + 1 = start /\ t <= start
  BY <1>2, <1>3 DEF JustBefore
<1>5. t \in 1 .. n + 1 /\ l \in t - 1 .. n
  BY <1>3, <1>4
<1>6. PICK x \in 1 .. n : x = Start(p, s) /\ p.sections[x].para = Owner(p, s)
  <2>1. Start(p, s) \in 1 .. Len(p.sections)
    BY <1>3, SegmentAt
  <2> QED BY <1>3, <2>1 DEF Owner, Start
<1>7. t <= x /\ start <= x
  <2>1. Fresh(p, a)
    BY StandingFresh
  <2>2. t <= x
    BY <1>3, <1>6, <2>1 DEF Fresh
  <2>3. \A k \in t .. n : p.sections[k].para = Owner(p, s) <=> k \in start .. after - 1
    BY <1>3 DEF Facing, OwnedRun
  <2>4. x \in start .. after - 1
    BY <1>3, <1>6, <2>2, <2>3
  <2> QED BY <1>4, <2>2, <2>4
<1>8. ASSUME NEW k \in t .. l PROVE ~p.sections[k].go /\ p.sections[k].para \notin OwnersOf(p, later)
  <2>1. k \in 1 .. n /\ t <= k /\ k < start /\ k \in t .. after - 1
    BY <1>2, <1>3, <1>4
  <2>2. p.sections[k].para \notin OwnersOf(p, later)
    <3>1. ASSUME NEW i \in later, p.sections[k].para = Owner(p, i) PROVE FALSE
      <4>1. i \in Indexes(p) /\ k \in a.sec .. after - 1
        BY <1>3, <2>1
      <4>2. k \in start .. after - 1
        BY <1>2, <3>1, <4>1
      <4> QED BY <1>2, <2>1, <4>2
    <3> QED BY <3>1 DEF OwnersOf
  <2>3. ~p.sections[k].go
    <3>1. Fresh(p, a) /\ k \in 1 .. Len(p.sections) /\ a.sec <= k /\ a.seg \in Nat \ {0} /\ a.sec \in Nat
          /\ (a.seg <= Len(p.segments) => k < Start(p, a.seg))
      <4>1. Fresh(p, a)
        BY StandingFresh
      <4>2. k < x /\ x = Start(p, a.seg)
        BY <1>3, <1>4, <1>6, <1>7, <2>1
      <4>3. k \in 1 .. Len(p.sections) /\ a.sec <= k /\ a.seg \in Nat \ {0} /\ a.sec \in Nat
        BY <1>3, <2>1
      <4> QED BY <4>1, <4>2, <4>3
    <3> QED BY <3>1, Untranslated
  <2> QED BY <2>2, <2>3
<1> QED BY <1>3, <1>5, <1>8 DEF Literal

\* The paragraph that is next is all together.
LEMMA FacingAlone ==
  ASSUME NEW p, Layout(p), Laid(p.sections), NEW texts, Given(p, texts), NEW a \in Standing(p, texts),
         NEW e, NEW start, NEW after, Facing(p, texts, a, e, start, after),
         NEW z \in Nat, JustBefore(z, after)
  PROVE  Alone(p, Owner(p, a.seg), start, z)
<1>1. a \in Streams(p, texts) /\ Boundary(p, a)
  BY DEF Standing
<1>2. /\ e \in Nat /\ start \in Nat /\ after \in Nat /\ a.seg < e
      /\ start <= Len(p.sections) /\ a.sec <= start /\ start < after /\ after <= Len(p.sections) + 1
      /\ \A h \in start .. after - 1 : p.sections[h].para = Owner(p, a.seg)
  BY <1>1, FacingApart
<1>3. PICK N \in Nat, n \in Nat, s \in Nat, t \in Nat :
        /\ N = Len(p.segments) /\ n = Len(p.sections) /\ s = a.seg /\ t = a.sec /\ Indexes(p) = 1 .. N
        /\ s \in 1 .. N /\ t \in 1 .. n + 1
  <2>1. /\ Len(p.segments) \in Nat /\ Len(p.sections) \in Nat /\ a.sec \in 1 .. Len(p.sections) + 1
    BY <1>1, StreamIs
  <2>2. a.seg \in Indexes(p)
    BY DEF Facing
  <2> QED BY <2>1, <2>2 DEF Indexes
<1>4. z + 1 = after /\ z = after - 1
  BY <1>2 DEF JustBefore
<1>5. start \in 1 .. n /\ z \in start .. n
  BY <1>2, <1>3, <1>4
<1>6. \A k \in start .. z : p.sections[k].para = Owner(p, s)
  BY <1>2, <1>3, <1>4
<1>7. ASSUME NEW k \in 1 .. start - 1 PROVE p.sections[k].para # Owner(p, s)
  <2>1. CASE k < t
    <3>1. s \in a.seg .. Len(p.segments) /\ k \in 1 .. a.sec - 1
      BY <1>2, <1>3, <2>1
    <3> QED BY <1>1, <3>1 DEF Boundary
  <2>2. CASE ~(k < t)
    <3>1. \A j \in t .. n : p.sections[j].para = Owner(p, s) <=> j \in start .. after - 1
      BY <1>3 DEF Facing, OwnedRun
    <3>2. k \in t .. n /\ k \notin start .. after - 1
      BY <1>2, <1>3, <2>2
    <3> QED BY <3>1, <3>2
  <2> QED BY <2>1, <2>2
<1> QED BY <1>3, <1>5, <1>6, <1>7 DEF Alone

-----------------------------------------------------------------------------
(* A pass of a paragraph stream keeps it in the body.                      *)

\* A paragraph in the original.
LEMMA OriginalTells ==
  ASSUME NEW src, NEW p, Paragraphs(src, p), NEW more, NEW later, later \subseteq Indexes(p),
         NEW b, NEW R, Telling(src, p, more, OwnersOf(p, later), b, R),
         NEW texts, Given(p, texts), NEW a \in Standing(p, texts), Caught(b, a),
         NEW e, NEW start, NEW after, Facing(p, texts, a, e, start, after),
         Owner(p, a.seg) \in OwnersOf(p, later),
         NEW r, OriginalOf(src, p, a, start, after, e, r)
  PROVE  Caught(b, r)
<1>0. /\ Layout(p) /\ Laid(p.sections) /\ Full(p, more) /\ Bodies(src, p, more, OwnersOf(p, later), b)
  BY DEF Telling, Paragraphs
<1>1. a \in Streams(p, texts) /\ Boundary(p, a)
  BY DEF Standing
<1>2. /\ start \in Nat /\ after \in Nat /\ start <= Len(p.sections) /\ a.sec <= start /\ start < after
      /\ after <= Len(p.sections) + 1
  BY <1>0, <1>1, FacingApart
<1>3. PICK n \in Nat, t \in Nat : n = Len(p.sections) /\ t = a.sec /\ t \in 1 .. n + 1 /\ a.out \in Text
  BY <1>0, <1>1, StreamIs
<1>4. PICK l \in Nat, z \in Nat : /\ l = start - 1 /\ z = after - 1 /\ JustBefore(l, start) /\ JustBefore(z, after)
                                  /\ l <= n
  <2>1. start - 1 \in Nat /\ after - 1 \in Nat
    BY <1>2, <1>3
  <2> QED BY <1>2, <1>3, <2>1 DEF JustBefore
<1>5. Adds(b, t, l, SectionsOf(p, t, l))
  <2>1. Literal(p, OwnersOf(p, later), t, l)
    BY <1>0, <1>3, <1>4, FacingLiteral
  <2> QED BY <1>0, <2>1, LiteralAdds
<1>6. Adds(b, start, z, Origin(src, p, Owner(p, a.seg)))
  <2>1. Alone(p, Owner(p, a.seg), start, z)
    BY <1>0, <1>4, FacingAlone
  <2> QED BY <1>0, <2>1, RetainedAdds
<1>7. b[l].text = a.out \o SectionsOf(p, t, l)
  BY <1>3, <1>5 DEF Adds, Caught
<1>8. b[z].text = b[l].text \o Origin(src, p, Owner(p, a.seg))
  BY <1>4, <1>6 DEF Adds
<1> QED BY <1>3, <1>4, <1>7, <1>8 DEF OriginalOf, Caught

\* A translated paragraph.
LEMMA TranslationTells ==
  ASSUME NEW src, NEW p, Paragraphs(src, p), NEW more, NEW later, later \subseteq Indexes(p),
         NEW b, NEW R, Telling(src, p, more, OwnersOf(p, later), b, R),
         NEW texts, Given(p, texts), NEW a \in Standing(p, texts), Caught(b, a),
         NEW e, NEW start, NEW after, Facing(p, texts, a, e, start, after),
         Owner(p, a.seg) \notin OwnersOf(p, later), NEW w \in Streams(p, texts), Knows(texts, a, e, w),
         NEW f, NEW last, NEW r \in Standing(p, texts), TranslationOf(p, texts, a, w, start, after, e, last, f, r),
         Known(texts, more, r)
  PROVE  Caught(b, r)
<1>0. /\ Layout(p) /\ Laid(p.sections) /\ Full(p, more) /\ Bodies(src, p, more, OwnersOf(p, later), b)
  BY DEF Telling, Paragraphs
<1>1. a \in Streams(p, texts) /\ Boundary(p, a)
  BY DEF Standing
<1>2. /\ e \in Nat /\ start \in Nat /\ after \in Nat /\ a.seg < e /\ e <= Len(p.segments) + 1
      /\ start <= Len(p.sections) /\ a.sec <= start /\ start < after /\ after <= Len(p.sections) + 1
      /\ \A i \in Indexes(p), h \in a.sec .. after - 1 :
              p.sections[h].para = Owner(p, i) => Owner(p, i) = Owner(p, a.seg) /\ h \in start .. after - 1
      /\ \A i \in a.seg .. e - 1 : i \in Indexes(p) /\ Owner(p, i) = Owner(p, a.seg)
      /\ \A i \in e .. Len(p.segments) : i \in Indexes(p) /\ Owner(p, i) # Owner(p, a.seg)
  BY <1>0, <1>1, FacingApart
<1>3. PICK N \in Nat, n \in Nat, s \in Nat, t \in Nat :
        /\ N = Len(p.segments) /\ n = Len(p.sections) /\ s = a.seg /\ t = a.sec /\ Indexes(p) = 1 .. N
        /\ s \in 1 .. N + 1 /\ t \in 1 .. n + 1
  <2>1. /\ Len(p.segments) \in Nat /\ Len(p.sections) \in Nat
        /\ a.seg \in 1 .. Len(p.segments) + 1 /\ a.sec \in 1 .. Len(p.sections) + 1
    BY <1>0, <1>1, StreamIs
  <2> QED BY <2>1 DEF Indexes
<1>4. /\ last \in Lasts(p) /\ JustBefore(last, e) /\ f = FlushPrefix(p, texts, w, last)
      /\ f \in Streams(p, texts) /\ f.seg = e /\ t <= f.sec /\ f.sec <= after
      /\ r.out = f.out \o SectionsOf(p, f.sec, after - 1) /\ r.sec = after /\ r.seg = e
  BY <1>3 DEF TranslationOf
<1>5. ASSUME NEW h \in t .. after - 1 PROVE p.sections[h].para \notin OwnersOf(p, later)
  <2>1. ASSUME NEW i \in later, p.sections[h].para = Owner(p, i) PROVE FALSE
    <3>1. i \in Indexes(p) /\ h \in a.sec .. after - 1
      BY <1>3
    <3>2. Owner(p, i) = Owner(p, a.seg)
      BY <1>2, <2>1, <3>1
    <3> QED BY <3>2 DEF OwnersOf
  <2> QED BY <2>1 DEF OwnersOf
<1>6. w.seg = s /\ w.sec = t /\ w.out = a.out
  BY <1>3 DEF Knows
<1>7. Clear(p, OwnersOf(p, later), w, last)
  <2>1. ASSUME NEW i \in w.seg .. last
        PROVE  Owner(p, i) \notin OwnersOf(p, later) /\ \A k \in w.sec .. Stop(p, i) : p.sections[k].para \notin OwnersOf(p, later)
    <3>1. i \in a.seg .. e - 1
      <4>1. last \in Nat /\ last + 1 = e
        BY <1>3, <1>4 DEF JustBefore, Lasts
      <4> QED BY <1>2, <1>3, <1>6, <4>1
    <3>2. Owner(p, i) = Owner(p, a.seg)
      BY <1>2, <3>1
    <3>3. Stop(p, i) \in Nat /\ Stop(p, i) < after
      BY <1>0, <1>1, <3>1, StopWithin
    <3>4. ASSUME NEW k \in w.sec .. Stop(p, i) PROVE p.sections[k].para \notin OwnersOf(p, later)
      <4>1. k \in t .. after - 1
        BY <1>2, <1>3, <1>6, <3>3
      <4> QED BY <1>5, <4>1
    <3> QED BY <3>2, <3>4
  <2> QED BY <2>1 DEF Clear
<1>8. At(p, b, R, w)
  <2>1. Fresh(p, a)
    BY <1>0, StandingFresh
  <2>2. Fresh(p, w)
    BY <1>3, <1>6, <2>1 DEF Fresh
  <2>3. w.out = b[w.sec - 1].text
    BY <1>3, <1>6 DEF Caught
  <2> QED BY <2>2, <2>3 DEF At
<1>9. At(p, b, R, f)
  <2>1. Known(texts, more, f)
    BY <1>4 DEF Known
  <2> QED BY <1>4, <1>7, <1>8, <2>1, FlushAt
<1>10. ~Amid(p, f)
  <2>1. ASSUME Amid(p, f) PROVE FALSE
    <3>1. e \in 2 .. N /\ Same(p, e - 1, e)
      BY <1>3, <1>4, <2>1 DEF Amid
    <3>2. Owner(p, e - 1) = Owner(p, e)
      BY <3>1 DEF Same, Owner
    <3>3. e - 1 \in a.seg .. e - 1 /\ e \in e .. Len(p.segments)
      BY <1>2, <1>3, <3>1
    <3>4. Owner(p, e - 1) = Owner(p, a.seg) /\ Owner(p, e) # Owner(p, a.seg)
      BY <1>2, <3>3
    <3> QED BY <3>2, <3>4
  <2> QED BY <2>1
<1>11. Fresh(p, f) /\ f.out = b[f.sec - 1].text
  BY <1>9, <1>10 DEF At
<1>12. PICK u \in Nat, z \in Nat : u = f.sec /\ z = after - 1 /\ u \in 1 .. n + 1 /\ z \in u - 1 .. n /\ t <= u /\ JustBefore(z, after)
  <2>1. f.sec \in 1 .. n + 1
    BY <1>0, <1>3, <1>4, StreamIs
  <2>2. after - 1 \in Nat /\ after - 1 \in f.sec - 1 .. n
    BY <1>2, <1>3, <1>4, <2>1
  <2> QED BY <1>2, <1>4, <2>1, <2>2 DEF JustBefore
<1>13. Literal(p, OwnersOf(p, later), u, z)
  <2>1. ASSUME NEW k \in u .. z PROVE ~p.sections[k].go /\ p.sections[k].para \notin OwnersOf(p, later)
    <3>1. k \in t .. after - 1 /\ k \in 1 .. n /\ k < after
      BY <1>2, <1>3, <1>12
    <3>2. ASSUME f.seg <= Len(p.segments) PROVE k < Start(p, f.seg)
      <4>1. Fresh(p, r)
        BY <1>0, StandingFresh
      <4>2. after <= Start(p, e)
        BY <1>4, <3>2, <4>1 DEF Fresh
      <4>3. Start(p, e) \in Nat
        <5>1. e \in 1 .. Len(p.segments)
          BY <1>2, <1>3, <1>4, <3>2
        <5>2. Start(p, e) \in 1 .. Len(p.sections)
          BY <1>0, <5>1, SegmentAt
        <5> QED BY <5>2
      <4> QED BY <1>2, <1>4, <3>1, <4>2, <4>3
    <3>3. f.seg \in Nat \ {0} /\ f.sec \in Nat /\ f.sec <= k /\ k \in 1 .. Len(p.sections)
      BY <1>2, <1>3, <1>4, <1>12, <3>1
    <3>4. ~p.sections[k].go
      BY <1>0, <1>11, <3>2, <3>3, Untranslated
    <3> QED BY <1>5, <3>1, <3>4
  <2> QED BY <1>3, <1>12, <2>1 DEF Literal
<1>14. Adds(b, u, z, SectionsOf(p, u, z))
  BY <1>0, <1>13, LiteralAdds
<1>15. b[z].text = f.out \o SectionsOf(p, u, z)
  BY <1>11, <1>12, <1>14 DEF Adds
<1> QED BY <1>4, <1>12, <1>15 DEF Caught

LEMMA PassTells ==
  ASSUME NEW src, NEW p, Paragraphs(src, p), NEW more, NEW later, later \subseteq Indexes(p),
         NEW b, NEW R, Telling(src, p, more, OwnersOf(p, later), b, R),
         NEW texts, Given(p, texts), NEW failed, NEW a \in Standing(p, texts), Caught(b, a),
         NEW r \in Standing(p, texts), PassOf(src, p, texts, failed, a, r),
         Known(texts, more, r), Agreed(p, failed, later, r)
  PROVE  Caught(b, r)
<1>0. Layout(p) /\ Laid(p.sections)
  BY DEF Paragraphs
<1>1. CASE a.seg > Len(p.segments) /\ r = a
  BY <1>1
<1>2. CASE a.seg <= Len(p.segments)
  <2>1. a \in Streams(p, texts) /\ Boundary(p, a) /\ ~(a.seg > Len(p.segments))
    <3>1. a \in Streams(p, texts) /\ Boundary(p, a)
      BY DEF Standing
    <3>2. Len(p.segments) \in Nat /\ a.seg \in 1 .. Len(p.segments) + 1
      BY <1>0, <3>1, StreamIs
    <3> QED BY <1>2, <3>1, <3>2
  <2>2. PICK e, start, after, w :
       /\ Facing(p, texts, a, e, start, after) /\ w \in Streams(p, texts) /\ Knows(texts, a, e, w)
       /\ \/ ~All(texts, a.seg, e) /\ r = w
          \/ /\ All(texts, a.seg, e) /\ Owner(p, a.seg) \in OwnersOf(p, failed)
             /\ OriginalOf(src, p, a, start, after, e, r)
          \/ /\ All(texts, a.seg, e) /\ Owner(p, a.seg) \notin OwnersOf(p, failed)
             /\ \E f, last : TranslationOf(p, texts, a, w, start, after, e, last, f, r)
    BY <2>1 DEF PassOf
  <2>3. CASE r = w
    <3>1. r.out = a.out /\ r.sec = a.sec
      BY <2>2, <2>3 DEF Knows
    <3> QED BY <3>1 DEF Caught
  <2>4. ASSUME r.seg = e
        PROVE  Owner(p, a.seg) \in OwnersOf(p, failed) <=> Owner(p, a.seg) \in OwnersOf(p, later)
    <3>1. e \in Nat /\ a.seg < e
      BY <1>0, <2>1, <2>2, FacingApart
    <3>2. a.seg \in 1 .. Len(p.segments) + 1 /\ Len(p.segments) \in Nat
      BY <1>0, <2>1, StreamIs
    <3>3. a.seg \in 1 .. r.seg - 1
      BY <2>4, <3>1, <3>2
    <3> QED BY <3>3 DEF Agreed
  <2>5. CASE Owner(p, a.seg) \in OwnersOf(p, failed) /\ OriginalOf(src, p, a, start, after, e, r)
    <3>1. Owner(p, a.seg) \in OwnersOf(p, later)
      BY <2>4, <2>5 DEF OriginalOf
    <3> QED BY <2>2, <2>5, <3>1, OriginalTells
  <2>6. CASE Owner(p, a.seg) \notin OwnersOf(p, failed)
             /\ \E f, last : TranslationOf(p, texts, a, w, start, after, e, last, f, r)
    <3>1. PICK f, last : TranslationOf(p, texts, a, w, start, after, e, last, f, r)
      BY <2>6
    <3>2. Owner(p, a.seg) \notin OwnersOf(p, later)
      BY <2>4, <2>6, <3>1 DEF TranslationOf
    <3> QED BY <2>2, <3>1, <3>2, TranslationTells
  <2> QED BY <2>2, <2>3, <2>5, <2>6
<1> QED BY <1>1, <1>2 DEF PassOf

-----------------------------------------------------------------------------
(* Paragraph streams, whatever is still to come.                           *)

LEMMA PassGrows ==
  ASSUME NEW src, NEW p, Paragraphs(src, p), NEW texts, Given(p, texts), NEW failed,
         NEW a \in Standing(p, texts), NEW r, PassOf(src, p, texts, failed, a, r)
  PROVE  a.seg <= r.seg
<1>0. Layout(p) /\ Laid(p.sections)
  BY DEF Paragraphs
<1>1. a \in Streams(p, texts) /\ Boundary(p, a)
  BY DEF Standing
<1>2. a.seg \in Nat
  <2>1. Len(p.segments) \in Nat /\ a.seg \in 1 .. Len(p.segments) + 1
    BY <1>0, <1>1, StreamIs
  <2> QED BY <2>1
<1>3. ASSUME NEW e, NEW start, NEW after, Facing(p, texts, a, e, start, after)
      PROVE  e \in Nat /\ a.seg < e
  BY <1>0, <1>1, <1>3, FacingApart
<1>4. r = a \/ r.seg = a.seg \/ (\E e, start, after : Facing(p, texts, a, e, start, after) /\ r.seg = e)
  <2>1. CASE ~(r = a)
    <3>1. PICK e, start, after, w :
       /\ Facing(p, texts, a, e, start, after) /\ Knows(texts, a, e, w)
       /\ \/ r = w
          \/ OriginalOf(src, p, a, start, after, e, r)
          \/ \E f, last : TranslationOf(p, texts, a, w, start, after, e, last, f, r)
      BY <2>1 DEF PassOf
    <3>2. CASE r = w
      BY <3>1, <3>2 DEF Knows
    <3>3. CASE r # w
      <4>1. r.seg = e
        BY <3>1, <3>3 DEF OriginalOf, TranslationOf
      <4> QED BY <3>1, <4>1
    <3> QED BY <3>2, <3>3
  <2> QED BY <2>1
<1> QED BY <1>2, <1>3, <1>4

LEMMA KnownLess ==
  ASSUME NEW p, NEW texts, NEW more, NEW failed, NEW later, NEW r, NEW a,
         r.seg \in Nat, a.seg \in Nat, a.seg <= r.seg, Known(texts, more, r), Agreed(p, failed, later, r)
  PROVE  Known(texts, more, a) /\ Agreed(p, failed, later, a)
  BY DEF Known, Agrees, Agreed

LEMMA FlushParagraphsTells ==
  ASSUME NEW src, NEW p, Paragraphs(src, p), NEW more, NEW later, later \subseteq Indexes(p),
         NEW b, NEW R, Telling(src, p, more, OwnersOf(p, later), b, R),
         NEW texts, Given(p, texts), NEW failed, NEW st \in Standing(p, texts),
         NEW r, r = FlushParagraphs(src, p, texts, failed, st),
         Known(texts, more, r), Agreed(p, failed, later, r)
  PROVE  /\ Known(texts, more, st) /\ Agreed(p, failed, later, st)
         /\ Caught(b, st) => Caught(b, r)
<1>1. PICK N \in Nat : N = Len(texts) /\ N = Len(p.segments)
  BY GivenAt
<1>2. PICK f : /\ \A k \in 0 .. N : f[k] \in Standing(p, texts)
               /\ f[0] = st /\ r = f[N]
               /\ \A k \in 1 .. N : f[k] = Settle(src, p, texts, failed, f[k - 1])
  <2>1. \E f : /\ \A k \in 0 .. Len(texts) : f[k] \in Standing(p, texts)
               /\ f[0] = st /\ FlushParagraphs(src, p, texts, failed, st) = f[Len(texts)]
               /\ \A k \in 1 .. Len(texts) : f[k] = Settle(src, p, texts, failed, f[k - 1])
    BY FlushParagraphsLoop
  <2> QED BY <1>1, <2>1
<1>3. ASSUME NEW a \in Standing(p, texts) PROVE a.seg \in Nat
  <2>1. Len(p.segments) \in Nat /\ a.seg \in 1 .. Len(p.segments) + 1
    BY StreamIs DEF Standing, Paragraphs
  <2> QED BY <2>1
<1>9. r \in Standing(p, texts) /\ r.seg \in Nat /\ st.seg \in Nat
  BY <1>1, <1>2, <1>3
<1> DEFINE J(k) == /\ st.seg <= f[k].seg
                   /\ Caught(b, st) /\ f[k].seg <= r.seg => Caught(b, f[k])
           I == {k \in 0 .. N : J(k)}
<1>4. 0 \in I
  BY <1>1, <1>2, <1>9
<1>5. ASSUME NEW k \in 0 .. N - 1, k \in I PROVE k + 1 \in I
  <2>1. PICK m \in 1 .. N : m = k + 1 /\ m - 1 = k /\ m \in 0 .. N
    BY <1>1
  <2>2. PICK a \in Standing(p, texts) : a = f[k]
    BY <1>2
  <2>3. PICK v \in Standing(p, texts) : v = f[m] /\ v = Settle(src, p, texts, failed, a)
    BY <1>2, <2>1, <2>2
  <2>4. st.seg <= a.seg /\ (Caught(b, st) /\ a.seg <= r.seg => Caught(b, a))
    BY <1>5, <2>2
  <2> HIDE DEF I, J
  <2>5. PassOf(src, p, texts, failed, a, v)
    BY <2>3, SettleIs
  <2>6. a.seg <= v.seg
    BY <2>5, PassGrows
  <2>7. a.seg \in Nat /\ v.seg \in Nat
    BY <1>3
  <2>8. ASSUME Caught(b, st), v.seg <= r.seg PROVE Caught(b, v)
    <3>1. Known(texts, more, v) /\ Agreed(p, failed, later, v)
      BY <1>9, <2>7, <2>8, KnownLess
    <3>2. Caught(b, a)
      BY <1>9, <2>4, <2>6, <2>7, <2>8
    <3> QED BY <2>5, <3>1, <3>2, PassTells
  <2>9. J(m)
    BY <1>9, <2>3, <2>4, <2>6, <2>7, <2>8 DEF J
  <2> QED BY <2>1, <2>9 DEF I
<1>6. \A k \in 0 .. N : k \in I
  <2> HIDE DEF I
  <2> QED BY <1>1, <1>4, <1>5, Onward
<1>7. J(N)
  BY <1>6
<1>8. st.seg <= r.seg /\ (Caught(b, st) => Caught(b, r))
  BY <1>2, <1>7, <1>9
<1> QED BY <1>8, <1>9, KnownLess

\* Whatever texts are still to come and whatever is still to fail, the stream is
\* the beginning of the body they will make.
Tells(src, p, texts, failed, st) ==
  \A more, later, b, R :
    /\ later \subseteq Indexes(p) /\ Telling(src, p, more, OwnersOf(p, later), b, R)
    /\ Known(texts, more, st) /\ Agreed(p, failed, later, st)
    => Caught(b, st)

LEMMA TellsFlushed ==
  ASSUME NEW src, NEW p, Paragraphs(src, p), NEW texts, Given(p, texts), NEW failed,
         NEW st \in Standing(p, texts), Tells(src, p, texts, failed, st)
  PROVE  Tells(src, p, texts, failed, FlushParagraphs(src, p, texts, failed, st))
<1>1. PICK r : r = FlushParagraphs(src, p, texts, failed, st)
  OBVIOUS
<1>2. ASSUME NEW more, NEW later, NEW b, NEW R,
             later \subseteq Indexes(p), Telling(src, p, more, OwnersOf(p, later), b, R),
             Known(texts, more, r), Agreed(p, failed, later, r)
      PROVE  Caught(b, r)
  <2>1. /\ Known(texts, more, st) /\ Agreed(p, failed, later, st)
        /\ Caught(b, st) => Caught(b, r)
    BY <1>1, <1>2, FlushParagraphsTells
  <2>2. Caught(b, st)
    BY <1>2, <2>1 DEF Tells
  <2> QED BY <2>1, <2>2
<1> QED BY <1>1, <1>2 DEF Tells

LEMMA TellsGrows ==
  ASSUME NEW src, NEW p, Layout(p), NEW texts, NEW i, NEW more, Comes(p, texts, i, more),
         NEW failed, failed \subseteq Indexes(p), NEW now, failed \subseteq now, now \subseteq failed \cup {i},
         NEW st \in Standing(p, texts), Tells(src, p, texts, failed, st)
  PROVE  Tells(src, p, more, now, Tallied(st, i))
<1>1. PICK N \in Nat, s \in Nat : N = Len(p.segments) /\ s = st.seg /\ s \in 1 .. N + 1 /\ Indexes(p) = 1 .. N
                 /\ \A j \in 1 .. s - 1 : texts[j] # NoText
  <2>1. /\ Len(p.segments) \in Nat /\ st.seg \in 1 .. Len(p.segments) + 1
        /\ \A j \in 1 .. st.seg - 1 : texts[j] # NoText
    BY StreamIs DEF Standing
  <2> QED BY <2>1 DEF Indexes
<1>2. i \in 1 .. N /\ i \notin 1 .. s - 1
  BY <1>1 DEF Comes
<1>3. PICK c : c = Tallied(st, i) /\ c.out = st.out /\ c.seg = s /\ c.sec = st.sec
  <2>1. st \in [out : Text, seg : 1 .. Len(p.segments) + 1, sec : 1 .. Len(p.sections) + 1,
           end : Nat, ready : Nat, shown : Text \cup {NoText}]
    BY DEF Standing, Streams
  <2>2. Tallied(st, i).out = st.out /\ Tallied(st, i).seg = s /\ Tallied(st, i).sec = st.sec
    BY <1>1, <2>1 DEF Tallied
  <2> QED BY <2>2
<1>4. ASSUME NEW k, Known(more, k, c) PROVE Known(texts, k, st)
  <2>1. ASSUME NEW j \in 1 .. s - 1 PROVE texts[j] = k[j]
    <3>1. j \in Indexes(p) /\ j # i
      BY <1>1, <1>2
    <3>2. more[j] = texts[j]
      BY <3>1 DEF Comes
    <3>3. more[j] = k[j]
      BY <1>3, <1>4 DEF Known, Agrees
    <3> QED BY <3>2, <3>3
  <2> QED BY <1>1, <2>1 DEF Known, Agrees
<1>5. ASSUME NEW later, Agreed(p, now, later, c) PROVE Agreed(p, failed, later, st)
  <2>1. ASSUME NEW j \in 1 .. s - 1
        PROVE  Owner(p, j) \in OwnersOf(p, failed) <=> Owner(p, j) \in OwnersOf(p, later)
    <3>1. Owner(p, j) \in OwnersOf(p, now) <=> Owner(p, j) \in OwnersOf(p, later)
      BY <1>3, <1>5 DEF Agreed
    <3>2. j \in Indexes(p) /\ j < st.seg /\ i \in Indexes(p) /\ ~(i < st.seg)
      BY <1>1, <1>2
    <3>3. Owner(p, i) # Owner(p, j)
      BY <3>2, BehindApart
    <3>4. Owner(p, j) \in OwnersOf(p, failed) <=> Owner(p, j) \in OwnersOf(p, now)
      BY <3>3 DEF OwnersOf
    <3> QED BY <3>1, <3>4
  <2> QED BY <1>1, <2>1 DEF Agreed
<1>6. ASSUME NEW b, Caught(b, st) PROVE Caught(b, c)
  BY <1>3, <1>6 DEF Caught
<1> QED BY <1>3, <1>4, <1>5, <1>6 DEF Tells

\* A paragraph stream is the beginning of the outcome, whatever it will be.
Foretold ==
  mode = "Paragraph" /\ status = "running" => Tells(source, plan, got, kept, stream)

LEMMA ForetoldInit ==
  ASSUME Init, Prepared, Filled, Settling
  PROVE  Foretold
<1>1. ASSUME mode = "Paragraph", status = "running" PROVE Tells(source, plan, got, kept, stream)
  <2>1. Paragraphs(source, plan) /\ Given(plan, got) /\ Layout(plan)
    BY <1>1, ParagraphPlan DEF Filled, Settling, Paragraphs
  <2>2. stream = FlushParagraphs(source, plan, got, {}, Unpublished) /\ kept = {}
    BY <1>1 DEF Init, Flush
  <2>3. Unpublished \in Standing(plan, got) /\ Unpublished.sec - 1 = 0 /\ Unpublished.out = <<>>
    BY <2>1, UnpublishedIs
  <2>4. Tells(source, plan, got, {}, Unpublished)
    <3>1. ASSUME NEW more, NEW later, NEW b, NEW R, Telling(source, plan, more, OwnersOf(plan, later), b, R)
          PROVE  Caught(b, Unpublished)
      <4>1. b[0] = NoBody
        BY <3>1 DEF Telling, Bodies
      <4> QED BY <2>3, <4>1 DEF Caught, NoBody
    <3> QED BY <3>1 DEF Tells
  <2> QED BY <2>1, <2>2, <2>3, <2>4, TellsFlushed
<1> QED BY <1>1 DEF Foretold

LEMMA ForetoldNext ==
  ASSUME Prepared, Filled, Settling, Foretold, [Next]_vars
  PROVE  Foretold'
<1>1. CASE UNCHANGED vars
  BY <1>1 DEF vars, Foretold
<1>2. CASE Show
  <2>1. mode = "Optimistic" /\ UNCHANGED <<mode, source, status>>
    BY <1>2 DEF Show
  <2> QED BY <2>1 DEF Foretold
<1>3. CASE Finish
  <2>1. UNCHANGED <<mode, source>> /\ status' = "done"
    BY <1>3 DEF Finish
  <2> QED BY <2>1 DEF Foretold
<1>4. ASSUME NEW i \in DOMAIN got, Complete(i) \/ Retain(i) PROVE Foretold'
  <2>1. Arrives(i)
    BY <1>4, Arrival
  <2>2. status = "running" /\ mode' = mode /\ source' = source /\ plan' = plan /\ status' = status
        /\ Comes(plan, got, i, got') /\ stream' = Flush(plan, got', kept', Counted(i))
        /\ kept \subseteq kept' /\ kept' \subseteq kept \cup {i}
    BY <2>1 DEF Arrives
  <2>3. ASSUME mode = "Paragraph" PROVE Tells(source, plan, got', kept', stream')
    <3>1. Paragraphs(source, plan) /\ stream \in Standing(plan, got) /\ Tells(source, plan, got, kept, stream)
          /\ Layout(plan) /\ kept \subseteq Indexes(plan) /\ Laid(plan.sections)
      BY <2>2, <2>3, ParagraphPlan DEF Settling, Foretold, Filled, Paragraphs
    <3>2. Counted(i) = Tallied(stream, i)
      BY <2>3 DEF Counted, Tallied
    <3>3. Tallied(stream, i) \in Standing(plan, got')
      BY <2>2, <3>1, StandingGrows
    <3>4. stream' = FlushParagraphs(source, plan, got', kept', Tallied(stream, i))
      BY <2>2, <2>3, <3>2 DEF Flush
    <3>5. Given(plan, got')
      BY <2>2 DEF Comes
    <3>6. Tells(source, plan, got', kept', Tallied(stream, i))
      BY <2>2, <3>1, TellsGrows
    <3> QED BY <3>1, <3>3, <3>4, <3>5, <3>6, TellsFlushed
  <2> QED BY <2>2, <2>3 DEF Foretold
<1> QED BY <1>1, <1>2, <1>3, <1>4 DEF Next

-----------------------------------------------------------------------------
(* Optimistic streams, whatever is still to come.                          *)

\* Nothing is published where a text is missing.
LEMMA FlushPrefixNone ==
  ASSUME NEW p, Layout(p), NEW texts, Given(p, texts), NEW st \in Streams(p, texts),
         NEW last \in Lasts(p), texts[st.seg] = NoText
  PROVE  FlushPrefix(p, texts, st, last) = st
<1>1. PICK N \in Nat : N = Len(texts)
  BY GivenAt
<1>2. PICK f : /\ f[0] = st /\ FlushPrefix(p, texts, st, last) = f[N]
               /\ \A k \in 1 .. N : f[k] = Emit(p, texts, f[k - 1], last)
  <2>1. \E f : /\ \A k \in 0 .. Len(texts) : f[k] \in Streams(p, texts)
               /\ f[0] = st /\ FlushPrefix(p, texts, st, last) = f[Len(texts)]
               /\ \A k \in 1 .. Len(texts) : f[k] = Emit(p, texts, f[k - 1], last)
    BY FlushPrefixLoop
  <2> QED BY <1>1, <2>1
<1> DEFINE I == {k \in 0 .. N : f[k] = st}
<1>3. 0 \in I
  BY <1>1, <1>2
<1>4. ASSUME NEW k \in 0 .. N - 1, k \in I PROVE k + 1 \in I
  <2>1. PICK m \in 1 .. N : m = k + 1 /\ m - 1 = k /\ m \in 0 .. N
    BY <1>1
  <2>2. f[m] = Emit(p, texts, st, last)
    BY <1>2, <1>4, <2>1
  <2>3. Emit(p, texts, st, last) = st
    BY DEF Emit
  <2> QED BY <2>1, <2>2, <2>3
<1>5. \A k \in 0 .. N : k \in I
  <2> HIDE DEF I
  <2> QED BY <1>1, <1>3, <1>4, Onward
<1>6. N \in I
  BY <1>5
<1> QED BY <1>2, <1>6

\* A stream that has shown the text of its next segment.
Shown(p, b, R, st) ==
  /\ st.seg \in Indexes(p) /\ st.sec = Stop(p, st.seg) + 1
  /\ st.out = b[Start(p, st.seg) - 1].text \o (Carried(p, R, st.seg) \o st.shown)

Located(p, b, R, st) == IF st.shown = NoText THEN At(p, b, R, st) ELSE Shown(p, b, R, st)

\* Whatever texts are still to come, that is where the stream is.
Locates(src, p, texts, st) ==
  \A more, b, R : Telling(src, p, more, {}, b, R) /\ Known(texts, more, st) => Located(p, b, R, st)

\* A stream stops at a missing text.
Halted(p, texts, st) ==
  /\ st.seg <= Len(p.segments) => texts[st.seg] = NoText
  /\ st.shown # NoText => st.seg <= Len(p.segments)

LEMMA ClearAll ==
  ASSUME NEW p, NEW st, NEW last
  PROVE  Clear(p, {}, st, last)
  BY DEF Clear

\* A shown text needs its newlines only.
AdvanceOf(p, texts, st, a) ==
  /\ a.seg = st.seg + 1 /\ a.sec = Before(p, st.seg, st.sec).sec /\ a.shown = NoText
  /\ a.out = st.out \o NewlineAfter(p, texts, st.seg)

LEMMA AdvanceIs ==
  ASSUME NEW p, Layout(p), NEW texts, Given(p, texts), NEW st \in Streams(p, texts),
         st.shown # NoText, texts[st.seg] # NoText, st.seg <= Len(p.segments),
         NEW a, a = Advance(p, texts, st)
  PROVE  a \in Streams(p, texts) /\ AdvanceOf(p, texts, st, a)
<1>1. /\ Len(p.segments) \in Nat /\ Len(p.sections) \in Nat /\ st.seg \in 1 .. Len(p.segments) + 1
      /\ st.sec \in 1 .. Len(p.sections) + 1 /\ st.out \in Text /\ \A j \in 1 .. st.seg - 1 : texts[j] # NoText
  BY StreamIs
<1>2. PICK N \in Nat, i \in Nat : N = Len(p.segments) /\ i = st.seg /\ i \in 1 .. N /\ i + 1 \in 1 .. N + 1
  BY <1>1
<1>3. Ready(texts, i)
  <2>1. ASSUME NEW j \in 1 .. i PROVE texts[j] # NoText
    BY <1>1, <1>2
  <2> QED BY <2>1 DEF Ready
<1>4. NewlineAfter(p, texts, i) \in Text
  BY <1>2, <1>3, NewlineAfterIs
<1>5. PICK x \in Text : x = st.out \o NewlineAfter(p, texts, i)
  BY <1>1, <1>4, TrailingConcat
<1>6. PICK z \in 1 .. Len(p.sections) + 1 : z = Before(p, i, st.sec).sec
  BY <1>1, <1>2, BeforeIs
<1>7. a = [st EXCEPT !.out = x, !.sec = z, !.seg = i + 1, !.shown = NoText]
  BY <1>2, <1>5, <1>6 DEF Advance
<1> DEFINE A == 1 .. Len(p.segments) + 1
           B == 1 .. Len(p.sections) + 1
           R == [out : Text, seg : A, sec : B, end : Nat, ready : Nat, shown : Text \cup {NoText}]
<1>8. st \in R /\ z \in B /\ i + 1 \in A
  BY <1>2 DEF Streams
<1>9. PICK y : y = i + 1
  OBVIOUS
<1> HIDE DEF A, B
<1>10. a \in R /\ a.out = x /\ a.sec = z /\ a.seg = y /\ a.shown = NoText
  BY <1>7, <1>8, <1>9
<1> HIDE DEF R
<1>11. \A j \in 1 .. a.seg - 1 : texts[j] # NoText
  BY <1>2, <1>3, <1>9, <1>10 DEF Ready
<1>12. a \in Streams(p, texts)
  BY <1>10, <1>11 DEF Streams, R, A, B
<1> QED BY <1>2, <1>5, <1>6, <1>9, <1>10, <1>12 DEF AdvanceOf

\* With its newlines the text of segment i makes up what is collected.
Completes(p, texts, R, i) ==
  /\ NewlineAfter(p, texts, i) \in Text
  /\ (Carried(p, R, i) \o texts[i]) \o NewlineAfter(p, texts, i) = R[i]

LEMMA PublishedCompletes ==
  ASSUME NEW p, Layout(p), NEW texts, NEW i \in Indexes(p), Given(p, texts), Ready(texts, i),
         NEW R, Collected(p, texts, R, i)
  PROVE  Completes(p, texts, R, i)
  BY PublishedSame DEF Completes

LEMMA AdvanceLands ==
  ASSUME NEW src, NEW p, NEW more, NEW b, NEW R, Telling(src, p, more, {}, b, R),
         NEW texts, Given(p, texts), NEW st \in Streams(p, texts), Shown(p, b, R, st),
         texts[st.seg] = st.shown, st.shown # NoText, NEW a, AdvanceOf(p, texts, st, a), Known(texts, more, a)
  PROVE  At(p, b, R, a)
<1>0. Layout(p) /\ Full(p, more) /\ Bodies(src, p, more, {}, b) /\ Collected(p, more, R, Len(p.segments))
  BY DEF Telling
<1>1. /\ Len(p.segments) \in Nat /\ Len(p.sections) \in Nat
      /\ st.sec \in 1 .. Len(p.sections) + 1 /\ st.out \in Text /\ \A j \in 1 .. st.seg - 1 : texts[j] # NoText
      /\ st.seg \in 1 .. Len(p.segments) + 1
  BY <1>0, StreamIs
<1>2. PICK N \in Nat, n \in Nat, i \in Nat : /\ N = Len(p.segments) /\ n = Len(p.sections) /\ i = st.seg /\ i \in 1 .. N
                              /\ Indexes(p) = 1 .. N /\ i \in 0 .. N /\ i \in Indexes(p)
  BY <1>1 DEF Shown, Indexes
<1>3. Ready(texts, i)
  <2>1. ASSUME NEW j \in 1 .. i PROVE texts[j] # NoText
    BY <1>1, <1>2
  <2> QED BY <2>1 DEF Ready
<1>4. Agrees(texts, more, i)
  <2>1. a.seg - 1 = i
    BY <1>2 DEF AdvanceOf
  <2> QED BY <2>1 DEF Known
<1>5. Collected(p, texts, R, i)
  BY <1>0, <1>2, <1>4, CollectedSame
<1>6. NewlineAfter(p, texts, i) \in Text /\ (Carried(p, R, i) \o texts[i]) \o NewlineAfter(p, texts, i) = R[i]
  <2>1. Completes(p, texts, R, i)
    BY <1>0, <1>2, <1>3, <1>5, PublishedCompletes
  <2> QED BY <2>1 DEF Completes
<1>7. PICK x \in 1 .. n, z \in 1 .. n, l \in 0 .. n :
        x = Start(p, i) /\ z = Stop(p, i) /\ x <= z /\ l = x - 1 /\ l = Start(p, i) - 1
  <2>1. Start(p, i) \in 1 .. n /\ Stop(p, i) \in 1 .. n /\ Start(p, i) <= Stop(p, i)
    BY <1>0, <1>2, SegmentAt
  <2>2. Start(p, i) - 1 \in 0 .. n
    BY <2>1
  <2> QED BY <2>1, <2>2
<1>8. PICK u \in Text : u = b[l].text
  BY <1>0, <1>2, BodyAt
<1>9. PICK c \in Text : c = Carried(p, R, i)
  <2>1. i \in 1 .. N + 1
    BY <1>2
  <2> QED BY <1>0, <1>2, <2>1, CarriedIs
<1>10. PICK t \in Text, w \in Text : t = texts[i] /\ w = NewlineAfter(p, texts, i)
  <2>1. texts[i] \in Text
    BY <1>2, GivenAt
  <2> QED BY <1>6, <2>1
<1>11. a.out = u \o R[i]
  <2>1. a.out = (u \o (c \o t)) \o w
    BY <1>2, <1>7, <1>8, <1>9, <1>10 DEF AdvanceOf, Shown
  <2>2. PICK v \in Text : v = c \o t
    BY TrailingConcat
  <2>3. (u \o v) \o w = u \o (v \o w)
    BY TextAssoc
  <2>4. v \o w = R[i]
    BY <1>6, <1>9, <1>10, <2>2
  <2> QED BY <2>1, <2>2, <2>3, <2>4
<1>12. a.sec = Stop(p, i) + 1
  <2>1. st.sec = z + 1 /\ x < st.sec
    BY <1>2, <1>7 DEF Shown
  <2>2. Before(p, i, st.sec) = [text |-> <<>>, sec |-> st.sec]
    BY <1>0, <1>1, <1>2, <1>7, <2>1, BeforeIs
  <2> QED BY <1>2, <1>7, <2>1, <2>2 DEF AdvanceOf
<1>13. Landing(p, b, R, a, i)
  BY <1>2, <1>7, <1>8, <1>11, <1>12 DEF Landing, AdvanceOf
<1> QED BY <1>2, <1>13, Landed

-----------------------------------------------------------------------------
(* Every step of an optimistic stream.                                     *)

LEMMA KnownBefore ==
  ASSUME NEW texts, NEW more, NEW r, NEW a, r.seg \in Nat, a.seg \in Nat, a.seg <= r.seg, Known(texts, more, r)
  PROVE  Known(texts, more, a)
  BY DEF Known, Agrees

\* What was shown is the text that came.
Matching(p, texts, st) ==
  st.shown # NoText => st.seg <= Len(p.segments) /\ (texts[st.seg] # NoText => texts[st.seg] = st.shown)

LEMMA FlushLocates ==
  ASSUME NEW src, NEW p, Layout(p), NEW texts, Given(p, texts), NEW a \in Streams(p, texts),
         a.shown = NoText, Locates(src, p, texts, a),
         NEW r, r = FlushPrefix(p, texts, a, Len(texts))
  PROVE  r \in Streams(p, texts) /\ Halted(p, texts, r) /\ Locates(src, p, texts, r)
<1>1. PICK N \in Nat : N = Len(p.segments) /\ N = Len(texts) /\ N \in Lasts(p)
  BY GivenAt DEF Lasts
<1>2. r = FlushPrefix(p, texts, a, N)
  BY <1>1
<1>3. /\ r \in Streams(p, texts) /\ r.shown = a.shown
      /\ r.seg > N \/ texts[r.seg] = NoText
      /\ a.seg <= r.seg
  BY <1>1, <1>2, FlushPrefixStops
<1>4. r.seg \in Nat /\ a.seg \in Nat
  <2>1. r.seg \in 1 .. Len(p.segments) + 1 /\ a.seg \in 1 .. Len(p.segments) + 1
    BY <1>3, StreamIs
  <2> QED BY <1>1, <2>1
<1>5. Halted(p, texts, r)
  BY <1>1, <1>3, <1>4 DEF Halted
<1>6. ASSUME NEW more, NEW b, NEW R, Telling(src, p, more, {}, b, R), Known(texts, more, r)
      PROVE  Located(p, b, R, r)
  <2>1. Known(texts, more, a)
    BY <1>3, <1>4, <1>6, KnownBefore
  <2>2. At(p, b, R, a)
    BY <1>6, <2>1 DEF Locates, Located
  <2>3. Clear(p, {}, a, N)
    BY ClearAll
  <2>4. At(p, b, R, r)
    BY <1>1, <1>2, <1>6, <2>2, <2>3, FlushAt
  <2> QED BY <1>3, <2>4 DEF Located
<1> QED BY <1>3, <1>5, <1>6 DEF Locates

LEMMA OptimisticFlushed ==
  ASSUME NEW src, NEW p, Layout(p), NEW texts, Given(p, texts), NEW st \in Streams(p, texts),
         Locates(src, p, texts, st), Matching(p, texts, st),
         NEW r, r = FlushPrefix(p, texts, Advance(p, texts, st), Len(texts))
  PROVE  r \in Streams(p, texts) /\ Halted(p, texts, r) /\ Locates(src, p, texts, r)
<1>1. PICK N \in Nat : N = Len(p.segments) /\ N = Len(texts) /\ N \in Lasts(p)
  BY GivenAt DEF Lasts
<1>2. PICK a : a = Advance(p, texts, st)
  OBVIOUS
<1>3. CASE st.shown = NoText
  <2>1. a = st
    BY <1>2, <1>3 DEF Advance
  <2> QED BY <1>2, <1>3, <2>1, FlushLocates
<1>4. CASE st.shown # NoText /\ texts[st.seg] = NoText
  <2>1. a = st
    BY <1>2, <1>4 DEF Advance
  <2>2. FlushPrefix(p, texts, st, N) = st
    BY <1>1, <1>4, FlushPrefixNone
  <2>3. r = st
    BY <1>1, <1>2, <2>1, <2>2
  <2>4. Halted(p, texts, st)
    BY <1>4 DEF Matching, Halted
  <2> QED BY <2>3, <2>4
<1>5. CASE st.shown # NoText /\ texts[st.seg] # NoText
  <2>1. st.seg <= Len(p.segments) /\ texts[st.seg] = st.shown
    BY <1>5 DEF Matching
  <2>2. a \in Streams(p, texts) /\ AdvanceOf(p, texts, st, a)
    BY <1>2, <1>5, <2>1, AdvanceIs
  <2>3. st.seg \in Nat /\ a.seg \in Nat /\ st.seg <= a.seg
    <3>1. st.seg \in 1 .. Len(p.segments) + 1
      BY StreamIs
    <3> QED BY <1>1, <2>2, <3>1 DEF AdvanceOf
  <2>4. ASSUME NEW more, NEW b, NEW R, Telling(src, p, more, {}, b, R), Known(texts, more, a)
        PROVE  At(p, b, R, a)
    <3>1. Known(texts, more, st)
      BY <2>3, <2>4, KnownBefore
    <3>2. Shown(p, b, R, st)
      BY <1>5, <2>4, <3>1 DEF Locates, Located
    <3> QED BY <1>5, <2>1, <2>2, <2>4, <3>2, AdvanceLands
  <2>5. a.shown = NoText /\ Locates(src, p, texts, a)
    BY <2>2, <2>4 DEF AdvanceOf, Locates, Located
  <2> QED BY <1>2, <2>2, <2>5, FlushLocates
<1> QED BY <1>3, <1>4, <1>5

\* The text of the next segment, shown as it comes.
ShowOf(p, st, t, r) ==
  LET before == Before(p, st.seg, st.sec)
  IN r = [st EXCEPT !.out = @ \o before.text \o t, !.sec = before.sec, !.shown = t]

LEMMA ShowIs ==
  ASSUME NEW src, NEW p, Layout(p), NEW texts, Given(p, texts), NEW st \in Streams(p, texts),
         Halted(p, texts, st), Locates(src, p, texts, st), st.shown = NoText, st.seg <= Len(p.segments),
         NEW t \in Text, NEW r, ShowOf(p, st, t, r)
  PROVE  r \in Streams(p, texts) /\ Halted(p, texts, r) /\ Locates(src, p, texts, r)
<1>1. PICK N \in Nat, n \in Nat, i \in Nat :
        /\ N = Len(p.segments) /\ n = Len(p.sections) /\ i = st.seg /\ i \in 1 .. N /\ st.sec \in 1 .. n + 1
        /\ st.out \in Text /\ \A j \in 1 .. i - 1 : texts[j] # NoText
  <2>1. /\ Len(p.segments) \in Nat /\ Len(p.sections) \in Nat /\ st.seg \in 1 .. Len(p.segments) + 1
        /\ st.sec \in 1 .. Len(p.sections) + 1 /\ st.out \in Text /\ \A j \in 1 .. st.seg - 1 : texts[j] # NoText
    BY StreamIs
  <2> QED BY <2>1
<1>2. PICK c \in Text, z \in 1 .. n + 1 : c = Before(p, i, st.sec).text /\ z = Before(p, i, st.sec).sec
  BY <1>1, BeforeIs
<1>3. PICK x \in Text : x = (st.out \o c) \o t
  <2>1. st.out \o c \in Text
    BY <1>1, TrailingConcat
  <2> QED BY <2>1, TrailingConcat
<1>4. r = [st EXCEPT !.out = x, !.sec = z, !.shown = t]
  BY <1>1, <1>2, <1>3 DEF ShowOf
<1> DEFINE A == 1 .. Len(p.segments) + 1
           B == 1 .. Len(p.sections) + 1
           T == [out : Text, seg : A, sec : B, end : Nat, ready : Nat, shown : Text \cup {NoText}]
<1>5. st \in T /\ z \in B
  BY <1>1 DEF Streams
<1> HIDE DEF A, B
<1>6. r \in T /\ r.out = x /\ r.sec = z /\ r.seg = i /\ r.shown = t
  BY <1>1, <1>4, <1>5
<1> HIDE DEF T
<1>7. r \in Streams(p, texts)
  BY <1>1, <1>6 DEF Streams, T, A, B
<1>8. t # NoText
  BY OutputAssumption
<1>9. Halted(p, texts, r)
  BY <1>1, <1>6 DEF Halted
<1>10. ASSUME NEW more, NEW b, NEW R, Telling(src, p, more, {}, b, R), Known(texts, more, r)
       PROVE  Shown(p, b, R, r)
  <2>1. Known(texts, more, st) /\ i \in Indexes(p)
    BY <1>1, <1>6, <1>10 DEF Known, Indexes
  <2>2. At(p, b, R, st)
    BY <1>10, <2>1 DEF Locates, Located
  <2>3. Leads(p, b, R, st, i)
    <3>1. Clear(p, {}, st, i)
      BY ClearAll
    <3> QED BY <1>1, <1>10, <2>1, <2>2, <3>1, LeadIs
  <2>4. PICK u \in Text, v \in Text : u = b[Start(p, i) - 1].text /\ v = Carried(p, R, i)
    BY <2>3 DEF Leads
  <2>5. st.out \o c = u \o v /\ z = Stop(p, i) + 1
    BY <1>1, <1>2, <2>3, <2>4 DEF Leads
  <2>6. (u \o v) \o t = u \o (v \o t)
    BY TextAssoc
  <2>7. r.out = u \o (v \o t)
    BY <1>3, <1>6, <2>5, <2>6
  <2> QED BY <1>6, <2>1, <2>4, <2>5, <2>7 DEF Shown
<1>11. Locates(src, p, texts, r)
  BY <1>6, <1>8, <1>10 DEF Locates, Located
<1> QED BY <1>7, <1>9, <1>11

\* A text more, when nothing is counted.
LEMMA LocatesGrows ==
  ASSUME NEW src, NEW p, Layout(p), NEW texts, NEW i, NEW more, Comes(p, texts, i, more),
         NEW st \in Streams(p, texts), Locates(src, p, texts, st)
  PROVE  st \in Streams(p, more) /\ Locates(src, p, more, st)
<1>1. PICK N \in Nat, s \in Nat : N = Len(p.segments) /\ s = st.seg /\ s \in 1 .. N + 1 /\ Indexes(p) = 1 .. N
                 /\ \A j \in 1 .. s - 1 : texts[j] # NoText
  <2>1. /\ Len(p.segments) \in Nat /\ st.seg \in 1 .. Len(p.segments) + 1
        /\ \A j \in 1 .. st.seg - 1 : texts[j] # NoText
    BY StreamIs
  <2> QED BY <2>1 DEF Indexes
<1>2. \A j \in 1 .. s - 1 : more[j] = texts[j] /\ more[j] # NoText
  BY <1>1 DEF Comes
<1>3. st \in Streams(p, more)
  BY <1>1, <1>2 DEF Streams
<1>4. ASSUME NEW k, Known(more, k, st) PROVE Known(texts, k, st)
  BY <1>1, <1>2, <1>4 DEF Known, Agrees
<1> QED BY <1>3, <1>4 DEF Locates

-----------------------------------------------------------------------------
(* A stream ends with what the buffered path returns.                      *)

\* An optimistic stream is where the body will have it, whatever is to come. But
\* for paragraphs the other modes publish nothing before the end.
Following ==
  /\ mode = "Optimistic" /\ status = "running" =>
       stream \in Streams(plan, got) /\ Halted(plan, got, stream) /\ Locates(source, plan, got, stream)
  /\ mode \notin {"Paragraph", "Optimistic"} /\ status = "running" => stream = Unpublished

\* Nothing is published yet.
LEMMA UnpublishedAt ==
  ASSUME NEW src, NEW p, NEW more, NEW retained, NEW b, NEW R, Telling(src, p, more, retained, b, R)
  PROVE  At(p, b, R, Unpublished)
<1>1. Layout(p) /\ b[0] = NoBody
  BY DEF Telling, Bodies
<1>2. Unpublished.seg = 1 /\ Unpublished.sec = 1 /\ Unpublished.out = <<>> /\ Unpublished.sec - 1 = 0
  BY <1>1, UnpublishedIs
<1>3. ASSUME Unpublished.seg <= Len(p.segments) PROVE Unpublished.sec <= Start(p, Unpublished.seg)
  <2>1. Len(p.segments) \in Nat
    BY <1>1, ListIs DEF Layout
  <2>2. 1 \in 1 .. Len(p.segments)
    BY <1>2, <1>3, <2>1
  <2>3. Start(p, 1) \in 1 .. Len(p.sections)
    BY <1>1, <2>2, SegmentAt
  <2> QED BY <1>2, <2>3
<1>4. Fresh(p, Unpublished)
  BY <1>2, <1>3 DEF Fresh
<1>5. NoBody.text = <<>>
  BY DEF NoBody
<1>6. Unpublished.out = b[Unpublished.sec - 1].text
  BY <1>1, <1>2, <1>5
<1> QED BY <1>4, <1>6 DEF At

LEMMA FollowingInit ==
  ASSUME Init, Prepared, Filled
  PROVE  Following
<1>1. ASSUME mode = "Optimistic", status = "running"
      PROVE  stream \in Streams(plan, got) /\ Halted(plan, got, stream) /\ Locates(source, plan, got, stream)
  <2>1. Layout(plan) /\ Given(plan, got)
    BY LaidOut DEF Filled
  <2>2. stream = FlushPrefix(plan, got, Advance(plan, got, Unpublished), Len(got))
    BY <1>1 DEF Init, Flush
  <2>3. Unpublished \in Streams(plan, got) /\ Unpublished.shown = NoText
    BY <2>1, UnpublishedIs DEF Standing
  <2>4. Locates(source, plan, got, Unpublished)
    BY <2>3, UnpublishedAt DEF Locates, Located
  <2>5. Matching(plan, got, Unpublished)
    BY <2>3 DEF Matching
  <2> QED BY <2>1, <2>2, <2>3, <2>4, <2>5, OptimisticFlushed
<1>2. mode \notin {"Paragraph", "Optimistic"} /\ status = "running" => stream = Unpublished
  BY DEF Init, Flush
<1> QED BY <1>1, <1>2 DEF Following

\* The text that comes for a segment already shown is the one shown.
LEMMA MatchingComes ==
  ASSUME NEW p, Layout(p), NEW texts, NEW i, NEW more, Comes(p, texts, i, more),
         NEW st \in Streams(p, texts), Halted(p, texts, st), i = st.seg /\ st.shown # NoText => more[i] = st.shown
  PROVE  Matching(p, more, st)
<1>1. ASSUME st.shown # NoText
      PROVE  st.seg <= Len(p.segments) /\ (more[st.seg] # NoText => more[st.seg] = st.shown)
  <2>1. st.seg <= Len(p.segments) /\ texts[st.seg] = NoText
    BY <1>1 DEF Halted
  <2>2. st.seg \in Indexes(p)
    <3>1. st.seg \in 1 .. Len(p.segments) + 1 /\ Len(p.segments) \in Nat
      BY StreamIs
    <3> QED BY <2>1, <3>1 DEF Indexes
  <2>3. CASE i = st.seg
    BY <1>1, <2>1, <2>3
  <2>4. CASE i # st.seg
    BY <2>1, <2>2, <2>4 DEF Comes
  <2> QED BY <2>1, <2>3, <2>4
<1> QED BY <1>1 DEF Matching

LEMMA FollowingNext ==
  ASSUME Prepared, Filled, Following, [Next]_vars
  PROVE  Following'
<1>0. Layout(plan) /\ Given(plan, got) /\ DOMAIN got = Indexes(plan) /\ Len(got) = Len(plan.segments)
  BY LaidOut, GivenAt DEF Filled, Indexes
<1>1. CASE UNCHANGED vars
  BY <1>1 DEF vars, Following
<1>2. CASE Show
  <2>1. /\ mode = "Optimistic" /\ status = "running" /\ stream.seg <= Len(got) /\ stream.shown = NoText
        /\ UNCHANGED <<source, mode, plan, got, status>>
    BY <1>2 DEF Show
  <2>2. PICK t \in Texts(plan, stream.seg) :
          stream' = [stream EXCEPT !.out = @ \o Before(plan, stream.seg, stream.sec).text \o t,
                                   !.sec = Before(plan, stream.seg, stream.sec).sec, !.shown = t]
    BY <1>2 DEF Show
  <2>3. stream \in Streams(plan, got) /\ Halted(plan, got, stream) /\ Locates(source, plan, got, stream)
    BY <2>1 DEF Following
  <2>4. stream.seg \in Indexes(plan)
    <3>1. stream.seg \in 1 .. Len(plan.segments) + 1 /\ Len(plan.segments) \in Nat
      BY <1>0, <2>3, StreamIs
    <3> QED BY <1>0, <2>1, <3>1 DEF Indexes
  <2>5. t \in Text
    BY <1>0, <2>4, TextsIn
  <2>6. ShowOf(plan, stream, t, stream')
    BY <2>2 DEF ShowOf
  <2>7. /\ stream' \in Streams(plan, got) /\ Halted(plan, got, stream')
        /\ Locates(source, plan, got, stream')
    BY <1>0, <2>1, <2>3, <2>5, <2>6, ShowIs
  <2> QED BY <2>1, <2>7 DEF Following
<1>3. CASE Finish
  <2>1. status' = "done"
    BY <1>3 DEF Finish
  <2> QED BY <2>1 DEF Following
<1>4. ASSUME NEW i \in DOMAIN got, Complete(i) \/ Retain(i) PROVE Following'
  <2>1. Arrives(i)
    BY <1>4, Arrival
  <2>2. status = "running" /\ mode' = mode /\ source' = source /\ plan' = plan /\ status' = status
        /\ Comes(plan, got, i, got') /\ stream' = Flush(plan, got', kept', Counted(i))
    BY <2>1 DEF Arrives
  <2>3. ASSUME mode = "Optimistic"
        PROVE  /\ stream' \in Streams(plan, got') /\ Halted(plan, got', stream')
               /\ Locates(source, plan, got', stream')
    <3>1. stream \in Streams(plan, got) /\ Halted(plan, got, stream) /\ Locates(source, plan, got, stream)
      BY <2>2, <2>3 DEF Following
    <3>2. i = stream.seg /\ stream.shown # NoText => got'[i] = stream.shown
      <4>1. Complete(i)
        BY <1>4, <2>3 DEF Retain
      <4>2. PICK t : (i = stream.seg /\ stream.shown # NoText => t = stream.shown) /\ got' = [got EXCEPT ![i] = t]
        BY <4>1 DEF Complete
      <4>3. got'[i] = t
        BY <1>4, <4>2
      <4> QED BY <4>2, <4>3
    <3>3. Counted(i) = stream
      BY <2>3 DEF Counted
    <3>4. stream' = FlushPrefix(plan, got', Advance(plan, got', stream), Len(got'))
      BY <2>2, <2>3, <3>3 DEF Flush
    <3>5. stream \in Streams(plan, got') /\ Locates(source, plan, got', stream)
      BY <1>0, <2>2, <3>1, LocatesGrows
    <3>6. Matching(plan, got', stream)
      BY <1>0, <2>2, <3>1, <3>2, MatchingComes
    <3>7. Given(plan, got')
      BY <2>2 DEF Comes
    <3> QED BY <1>0, <3>4, <3>5, <3>6, <3>7, OptimisticFlushed
  <2>4. ASSUME mode \notin {"Paragraph", "Optimistic"} PROVE stream' = Unpublished
    <3>1. stream = Unpublished
      BY <2>2, <2>4 DEF Following
    <3>2. Counted(i) = stream
      BY <2>4 DEF Counted
    <3> QED BY <2>2, <2>4, <3>1, <3>2 DEF Flush
  <2> QED BY <2>2, <2>3, <2>4 DEF Following
<1> QED BY <1>1, <1>2, <1>3, <1>4 DEF Next

LEMMA FollowingHolds == Spec => [](Prepared /\ Filled /\ Settling /\ Foretold /\ Following)
<1>1. Init => Prepared /\ Filled /\ Settling /\ Foretold /\ Following
  BY PreparedInit, FilledInit, SettlingInit, ForetoldInit, FollowingInit
<1>2. Prepared /\ Filled /\ Settling /\ Foretold /\ Following /\ [Next]_vars
      => (Prepared /\ Filled /\ Settling /\ Foretold /\ Following)'
  BY PreparedNext, FilledNext, SettlingNext, ForetoldNext, FollowingNext
<1> QED BY <1>1, <1>2, PTL DEF Spec

\* What is left to publish once all segments are: no section of it is translated.
Ended(p, b, st) ==
  /\ b[Len(p.sections)].text = st.out \o SectionsOf(p, st.sec, Len(p.sections))
  /\ SectionsOf(p, st.sec, Len(p.sections)) \in Text /\ st.out \in Text

LEMMA EndedIs ==
  ASSUME NEW src, NEW p, NEW more, NEW retained, NEW b, NEW R, Telling(src, p, more, retained, b, R),
         NEW texts, NEW st \in Streams(p, texts), st.seg > Len(p.segments), Fresh(p, st), Caught(b, st),
         \A k \in st.sec .. Len(p.sections) : p.sections[k].para \notin retained
  PROVE  Ended(p, b, st)
<1>0. Layout(p) /\ Full(p, more) /\ Bodies(src, p, more, retained, b)
  BY DEF Telling
<1>1. PICK N \in Nat, n \in Nat, s \in Nat, t \in Nat :
        N = Len(p.segments) /\ n = Len(p.sections) /\ s = st.seg /\ t = st.sec /\ t \in 1 .. n + 1 /\ s \in 1 .. N + 1
  <2>1. /\ Len(p.segments) \in Nat /\ Len(p.sections) \in Nat
        /\ st.seg \in 1 .. Len(p.segments) + 1 /\ st.sec \in 1 .. Len(p.sections) + 1
    BY <1>0, StreamIs
  <2> QED BY <2>1
<1>2. st.out \in Text
  BY <1>0, StreamIs
<1>3. ASSUME NEW k \in t .. n PROVE ~p.sections[k].go
  <2>1. k \in 1 .. Len(p.sections) /\ st.sec <= k /\ ~(st.seg <= Len(p.segments))
        /\ st.seg \in Nat \ {0} /\ st.sec \in Nat
    BY <1>1
  <2> QED BY <1>0, <2>1, Untranslated
<1>4. Literal(p, retained, t, n)
  <2>1. n \in t - 1 .. n
    BY <1>1
  <2> QED BY <1>1, <1>3, <2>1 DEF Literal
<1>5. Adds(b, t, n, SectionsOf(p, t, n))
  BY <1>0, <1>4, LiteralAdds
<1>6. SectionsOf(p, t, n) \in Text
  <2>1. p.sections \in Lists(Sections)
    BY <1>0 DEF Layout
  <2>2. t <= n + 1
    BY <1>1
  <2> QED BY <1>1, <2>1, <2>2, SectionsOfIs
<1> QED BY <1>1, <1>2, <1>5, <1>6 DEF Ended, Adds, Caught

\* A stream with nothing left to publish has published all segments.
LEMMA AtFresh ==
  ASSUME NEW p, NEW b, NEW R, NEW st, At(p, b, R, st), Len(p.segments) \in Nat, st.seg > Len(p.segments)
  PROVE  Fresh(p, st) /\ Caught(b, st)
<1>1. ~Amid(p, st)
  BY DEF Amid
<1> QED BY <1>1 DEF At, Caught

\* A text after what is published of it.
Rejoined(a, t) == a \o SubSeq(t, Len(a) + 1, Len(t)) = t

LEMMA RestIs ==
  ASSUME NEW a \in Text, NEW c \in Text, NEW t, t = a \o c
  PROVE  Rejoined(a, t)
<1>1. PICK l \in Nat, m \in Nat : l = Len(a) /\ m = Len(c)
  BY RequestIs
<1>2. t \in Text /\ Len(t) = l + m
  BY <1>1, TrailingConcat
<1>3. SubSeq(t, l + 1, l + m) = SubSeq(c, 1, m)
  <2>1. PICK left \in Nat, right \in Nat : left = l + 1 /\ right = l + m
    OBVIOUS
  <2>2. 1 <= m + 1 /\ m <= Len(c) /\ 1 <= 1
    BY <1>1
  <2> QED BY <1>1, <2>1, <2>2, SubRight
<1>4. SubSeq(c, 1, m) = c
  BY <1>1, TextIs, PrefixEnds
<1> QED BY <1>1, <1>2, <1>3, <1>4 DEF Rejoined

\* The buffered text of the invocation.
LEMMA TellingExists ==
  ASSUME NEW src, NEW p, NEW texts, Layout(p), Full(p, texts), NEW failed, Fails(src, p, failed)
  PROVE  \E b, R : Telling(src, p, texts, OwnersOf(p, failed), b, R)
<1>1. Suits(src, p, OwnersOf(p, failed))
  BY FailsSuit
<1>2. PICK b : Bodies(src, p, texts, OwnersOf(p, failed), b)
  BY <1>1, BodiesExist
<1>3. PICK R : Collected(p, texts, R, Len(p.segments))
  BY CollectedExists
<1>4. Telling(src, p, texts, OwnersOf(p, failed), b, R)
  BY <1>2, <1>3 DEF Telling
<1> QED BY <1>4

LEMMA FullAt ==
  ASSUME NEW p, NEW texts, Full(p, texts)
  PROVE  Len(p.segments) \in Nat /\ Indexes(p) = 1 .. Len(p.segments) /\ Len(texts) = Len(p.segments)
         /\ \A k \in Indexes(p) : texts[k] # NoText
<1>1. Len(texts) \in Nat /\ Len(texts) = Len(p.segments) /\ \A k \in 1 .. Len(texts) : texts[k] \in Text
  BY ListIs DEF Full
<1> QED BY <1>1, OutputAssumption DEF Indexes

\* A paragraph stream lacks the end of the outcome only.
LEMMA ParagraphDelivers ==
  ASSUME Prepared, Filled, Settling, Foretold, status = "running", mode = "Paragraph", Full(plan, got),
         NEW f, Rendered(source, plan, got, kept, TRUE, f)
  PROVE  Rejoined(stream.out, f.text)
<1>1. Layout(plan) /\ Fails(source, plan, kept) /\ kept \subseteq Indexes(plan)
  BY FilledFails DEF Filled
<1>2. PICK b, R : Telling(source, plan, got, OwnersOf(plan, kept), b, R)
  BY <1>1, TellingExists
<1>3. stream \in Standing(plan, got) /\ Waits(plan, got, stream) /\ stream \in Streams(plan, got)
      /\ Boundary(plan, stream)
  BY DEF Settling, Standing
<1>4. stream.seg > Len(plan.segments)
  BY <1>3, FullAt DEF Waits
<1>5. Caught(b, stream)
  <2>1. Tells(source, plan, got, kept, stream)
    BY DEF Foretold
  <2>2. Known(got, got, stream) /\ Agreed(plan, kept, kept, stream)
    BY DEF Known, Agrees, Agreed
  <2> QED BY <1>1, <1>2, <2>1, <2>2 DEF Tells
<1>6. ASSUME NEW k \in stream.sec .. Len(plan.sections)
      PROVE  plan.sections[k].para \notin OwnersOf(plan, kept)
  <2>1. ASSUME NEW i \in kept PROVE plan.sections[k].para # Owner(plan, i)
    <3>1. i \in 1 .. stream.seg - 1
      <4>1. Len(plan.segments) \in Nat /\ i \in 1 .. Len(plan.segments)
        BY <1>1, FullAt
      <4>2. stream.seg \in 1 .. Len(plan.segments) + 1
        BY <1>1, <1>3, StreamIs
      <4> QED BY <1>4, <4>1, <4>2
    <3> QED BY <1>3, <3>1 DEF Boundary
  <2> QED BY <2>1 DEF OwnersOf
<1>7. Fresh(plan, stream)
  BY <1>1, <1>3, StandingFresh
<1>8. Ended(plan, b, stream)
  BY <1>2, <1>3, <1>4, <1>5, <1>6, <1>7, EndedIs
<1>9. PICK tail \in Text : f.text = b[Len(plan.sections)].text \o tail
  <2>1. Body(source, plan, got, OwnersOf(plan, kept)) = b[Len(plan.sections)]
    BY <1>2 DEF Telling, Bodies
  <2> QED BY <2>1 DEF Rendered
<1>10. PICK a \in Text, c \in Text : a = stream.out /\ c = SectionsOf(plan, stream.sec, Len(plan.sections))
  BY <1>8 DEF Ended
<1>11. f.text = (a \o c) \o tail
  BY <1>8, <1>9, <1>10 DEF Ended
<1>12. PICK d \in Text : d = c \o tail
  BY TrailingConcat
<1>13. f.text = a \o d
  BY <1>11, <1>12, TextAssoc
<1>14. Rejoined(a, f.text)
  BY <1>13, RestIs
<1> QED BY <1>10, <1>14

\* The outcome is what is published and the rest of the sections.
Completed(p, st, f) == st.out \o SectionsOf(p, st.sec, Len(p.sections)) = f.text

\* Without retained paragraphs, the rest is the sections after the last segment.
LEMMA PrefixDelivers ==
  ASSUME NEW src, NEW p, Layout(p), NEW texts, Full(p, texts), Fails(src, p, {}),
         NEW st \in Streams(p, texts), st.seg > Len(p.segments), st.shown = NoText, Locates(src, p, texts, st),
         NEW append \in BOOLEAN, NEW f, Rendered(src, p, texts, {}, append, f)
  PROVE  Completed(p, st, f)
<1>1. PICK none : none = {} /\ OwnersOf(p, none) = none /\ Fails(src, p, none)
  BY DEF OwnersOf
<1>2. PICK b, R : Telling(src, p, texts, none, b, R)
  <2>1. \E b, R : Telling(src, p, texts, OwnersOf(p, none), b, R)
    BY <1>1, TellingExists
  <2> QED BY <1>1, <2>1
<1>3. Len(p.segments) \in Nat
  BY FullAt
<1>4. Known(texts, texts, st)
  BY DEF Known, Agrees
<1>5. At(p, b, R, st)
  BY <1>1, <1>2, <1>4 DEF Locates, Located
<1>6. Fresh(p, st) /\ Caught(b, st)
  BY <1>3, <1>5, AtFresh
<1>7. \A k \in st.sec .. Len(p.sections) : p.sections[k].para \notin none
  BY <1>1
<1>8. Ended(p, b, st)
  BY <1>2, <1>6, <1>7, EndedIs
<1>9. Body(src, p, texts, none) = b[Len(p.sections)]
  BY <1>2 DEF Telling, Bodies
<1>10. f.text = b[Len(p.sections)].text
  BY <1>1, <1>9 DEF Rendered
<1> QED BY <1>8, <1>10 DEF Ended, Completed

\* With every text there a stream stops after the last segment only.
LEMMA HaltedFull ==
  ASSUME NEW p, Layout(p), NEW texts, Full(p, texts), NEW st \in Streams(p, texts), Halted(p, texts, st)
  PROVE  st.seg > Len(p.segments) /\ st.shown = NoText
<1>1. st.seg \in 1 .. Len(p.segments) + 1 /\ Len(p.segments) \in Nat
  BY StreamIs
<1>2. st.seg <= Len(p.segments) => st.seg \in Indexes(p)
  BY <1>1 DEF Indexes
<1>3. ~(st.seg <= Len(p.segments))
  BY <1>2, FullAt DEF Halted
<1> QED BY <1>1, <1>3 DEF Halted

\* What Finish delivers.
LEMMA DeliverIs ==
  ASSUME Prepared, Filled, Settling, Foretold, Following, status = "running", Full(plan, got),
         NEW f, Rendered(source, plan, got, kept, mode = "Paragraph", f)
  PROVE  Deliver(f) = f.text
<1>1. Layout(plan) /\ Given(plan, got) /\ Fails(source, plan, kept)
  BY FilledFails DEF Filled
<1>2. CASE mode = "Paragraph"
  <2>1. Rejoined(stream.out, f.text)
    <3>1. (mode = "Paragraph") = TRUE
      BY <1>2
    <3>2. Rendered(source, plan, got, kept, TRUE, f)
      BY <3>1
    <3> QED BY <1>2, <3>2, ParagraphDelivers
  <2> QED BY <1>2, <2>1 DEF Deliver, Rejoined
<1>3. CASE mode = "Optimistic"
  <2>1. stream \in Streams(plan, got) /\ Halted(plan, got, stream) /\ Locates(source, plan, got, stream)
    BY <1>3 DEF Following
  <2>2. stream.seg > Len(plan.segments) /\ stream.shown = NoText
    BY <1>1, <2>1, HaltedFull
  <2>4. kept = {}
    BY <1>3 DEF Filled
  <2>5. PICK append \in BOOLEAN : Fails(source, plan, {}) /\ Rendered(source, plan, got, {}, append, f)
    BY <1>1, <2>4
  <2>6. Completed(plan, stream, f)
    BY <1>1, <2>1, <2>2, <2>5, PrefixDelivers
  <2> QED BY <1>3, <2>6 DEF Deliver, Completed
<1>4. CASE mode # "Paragraph" /\ mode # "Optimistic" /\ kept # {}
  BY <1>4 DEF Deliver
<1>5. CASE mode # "Paragraph" /\ mode # "Optimistic" /\ kept = {}
  <2>1. PICK r : r = FlushPrefix(plan, got, Unpublished, Len(got))
    OBVIOUS
  <2>2. Unpublished \in Streams(plan, got) /\ Unpublished.shown = NoText
    BY <1>1, UnpublishedIs DEF Standing
  <2>3. Locates(source, plan, got, Unpublished)
    BY <2>2, UnpublishedAt DEF Locates, Located
  <2>4. r \in Streams(plan, got) /\ Halted(plan, got, r) /\ Locates(source, plan, got, r)
    BY <1>1, <2>1, <2>2, <2>3, FlushLocates
  <2>5. r.seg > Len(plan.segments) /\ r.shown = NoText
    BY <1>1, <2>4, HaltedFull
  <2>6. PICK append \in BOOLEAN : Fails(source, plan, {}) /\ Rendered(source, plan, got, {}, append, f)
    BY <1>1, <1>5
  <2>7. Completed(plan, r, f)
    BY <1>1, <2>4, <2>5, <2>6, PrefixDelivers
  <2> QED BY <1>5, <2>1, <2>7 DEF Deliver, Completed
<1> QED BY <1>2, <1>3, <1>4, <1>5

LEMMA DeliveredNext ==
  ASSUME Prepared, Filled, Settling, Foretold, Following, StreamsTheDocument, [Next]_vars
  PROVE  StreamsTheDocument'
<1>1. CASE UNCHANGED vars
  BY <1>1 DEF vars, StreamsTheDocument
<1>2. CASE Show
  <2>1. status' = "running"
    BY <1>2 DEF Show
  <2> QED BY <2>1 DEF StreamsTheDocument
<1>3. ASSUME NEW i \in DOMAIN got, Complete(i) \/ Retain(i) PROVE StreamsTheDocument'
  <2>1. status' = "running"
    BY <1>3 DEF Complete, Retain
  <2> QED BY <2>1 DEF StreamsTheDocument
<1>4. CASE Finish
  <2>1. /\ status = "running" /\ \A i \in DOMAIN got : got[i] # NoText
        /\ final' = Finalize(source, plan, got, kept, mode = "Paragraph")
        /\ stream' = [stream EXCEPT !.out = Deliver(final')]
    BY <1>4 DEF Finish
  <2>2. Full(plan, got)
    <3>1. Given(plan, got)
      BY DEF Filled
    <3>2. DOMAIN got = Indexes(plan)
      BY <3>1, GivenAt DEF Indexes
    <3> QED BY <2>1, <3>1, <3>2, FullWhen
  <2>3. PICK f : f = final'
    OBVIOUS
  <2>4. Rendered(source, plan, got, kept, mode = "Paragraph", f)
    <3>1. (mode = "Paragraph") \in BOOLEAN
      OBVIOUS
    <3> QED BY <2>1, <2>2, <2>3, <3>1, FilledFails, FinalizeIs
  <2>5. Deliver(f) = f.text
    BY <2>1, <2>2, <2>4, DeliverIs
  <2>6. stream'.out = Deliver(f)
    <3>1. "out" \in DOMAIN stream
      <4>1. CASE mode = "Paragraph"
        <5>1. stream \in Streams(plan, got)
          BY <2>1, <4>1 DEF Settling, Standing
        <5> QED BY <5>1 DEF Streams
      <4>2. CASE mode = "Optimistic"
        <5>1. stream \in Streams(plan, got)
          BY <2>1, <4>2 DEF Following
        <5> QED BY <5>1 DEF Streams
      <4>3. CASE mode \notin {"Paragraph", "Optimistic"}
        BY <2>1, <4>3 DEF Following, Unpublished
      <4> QED BY <4>1, <4>2, <4>3
    <3> QED BY <2>1, <2>3, <3>1
  <2> QED BY <2>3, <2>5, <2>6 DEF StreamsTheDocument
<1> QED BY <1>1, <1>2, <1>3, <1>4 DEF Next

LEMMA StreamsTheDocumentInit == Init => StreamsTheDocument
<1> SUFFICES ASSUME Init PROVE StreamsTheDocument
  OBVIOUS
<1>1. status # "done"
  BY DEF Init
<1> QED BY <1>1 DEF StreamsTheDocument

\* Whatever the model answered, empty texts and stray newlines included, in
\* whatever order segments completed and failed, a stream ends having published
\* exactly the text the buffered path returns, for every document (the flushes of
\* translate.rs and paragraph_stream.rs against reconstruct_with_retained).
THEOREM StreamsTheDocumentHolds == Spec => []StreamsTheDocument
<1> DEFINE Inv == Prepared /\ Filled /\ Settling /\ Foretold /\ Following
<1>1. Spec => []Inv
  BY FollowingHolds
<1>2. Init => StreamsTheDocument
  BY StreamsTheDocumentInit
<1>3. Inv /\ StreamsTheDocument /\ [Next]_vars => StreamsTheDocument'
  BY DeliveredNext
<1> HIDE DEF Inv
<1> QED BY <1>1, <1>2, <1>3, PTL DEF Spec

=============================================================================
