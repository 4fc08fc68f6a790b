--------------------------- MODULE ControlProofs ---------------------------
(***************************************************************************)
(* Proofs about the controls of the engine: a cancel or a close ends what   *)
(* it is over, and, on a life of one chain, a pause holds what it is over   *)
(* until its wake and loses none of it.                                     *)
(* The record only grows, and what a name is under never changes, so what   *)
(* is known of a fact stays; what an ear still has to hear is told by its   *)
(* cursor, the place of the last fact that it heard from the bus.           *)
(***************************************************************************)
EXTENDS Control, TLAPS, SequenceTheorems

\* The place of the last fact that the bus gave to an ear, or had none to give.
Cursor(a) == IF a \in left THEN now - 1 ELSE now

\* The facts are about acts that were made, each by one fact of the record, and by acts that were made.
Recorded ==
  /\ \A i \in DOMAIN facts : facts[i].by \in {OPERATOR} \cup Known /\ facts[i].about \in Chains \cup Known
  /\ \A i \in DOMAIN facts : facts[i].kind = "act" => facts[i].about \in Known
  /\ \A a \in Known : \E i \in DOMAIN facts : facts[i].kind = "act" /\ facts[i].about = a
  /\ \A i, j \in DOMAIN facts :
       facts[i].kind = "act" /\ facts[j].kind = "act" /\ facts[i].about = facts[j].about => i = j

\* The ears that live are those that hear, and one of them goes on at a time.
Hearing ==
  /\ \A a \in Known : a \in alive \cup over
  /\ left \subseteq alive /\ (left # {} => now \in DOMAIN facts)
  /\ busy # 0 => GoesOn(busy) /\ busy \notin left
  /\ \A a \in Known : GoesOn(a) => a = busy
  /\ \A a \in Acts \ Known : later[a] = <<>> /\ got[a] = {}

\* Whether a control changes what a pause holds.
Turns(f, a) == f.kind \in {"pause", "wake"} /\ Covers(f, a)

\* What an ear put off is in record order, after all that it heard, and no pause or wake over it.
InOrder(s, g, c, a) ==
  /\ \A k, m \in DOMAIN s : k < m => s[k] < s[m]
  /\ \A k \in DOMAIN s : s[k] <= c /\ facts[s[k]].kind # "act" /\ ~Turns(facts[s[k]], a)
  /\ \A i \in g : i <= c /\ \A k \in DOMAIN s : i < s[k]
PutOff == \A a \in alive : InOrder(later[a], got[a], Cursor(a), a)

Missable(i, a) == Heeds(a, facts[i]) /\ facts[i].kind \notin {"act", "wake"} /\ ~IsPause(facts[i], a)

\* Of the facts up to its cursor an ear heard, or put off, each that it heeds.
HeardAll ==
  \A a \in alive \ over : \A i \in DOMAIN facts :
    Made(a) < i /\ i <= Cursor(a) /\ Missable(i, a) => i \in got[a] \cup Range(later[a])

\* A cancel or a close up to the cursor of an ear ended its act, or its ear put it off.
Ended ==
  \A i \in DOMAIN facts, a \in Known :
    facts[i].kind \in {"cancel", "close"} /\ Covers(facts[i], a) /\ Made(a) < i /\ i <= Cursor(a)
      => a \in over \/ (i \in Range(later[a]) /\ Under(facts[i].by, a))

\* A pause holds an act as its ear heard them so far, or, until the bus passes the place of its
\* making, as they stood there.
Halts ==
  \A a \in alive \ over :
    \/ a \in halt <=> PauseStands(a, Cursor(a) + 1)
    \/ Cursor(a) < Made(a) /\ (a \in halt <=> PauseStands(a, Made(a)))

-----------------------------------------------------------------------------
(* What is said enters the record, and what was in it stays.                *)

\* A step that says nothing.
Silent == UNCHANGED <<known, facts>>

\* A step that says a fact about an act that was made.
Utters(kind, about, by) ==
  /\ kind \in Controls \cup {"done", "news"} /\ about \in Chains \cup Known /\ by \in {OPERATOR} \cup Known
  /\ facts' = Append(facts, [kind |-> kind, about |-> about, by |-> by]) /\ known' = known

\* A step that makes an act.
Begins(kind, by, on) ==
  /\ kind \in Kinds /\ by \in {OPERATOR} \cup Known /\ on \in Places /\ Len(known) + 1 <= MaxActs
  /\ known' = Append(known, [kind |-> kind, by |-> by, on |-> on, line |-> {Len(known) + 1} \cup Lineage(by),
                             thread |-> {Len(known) + 1} \cup (IF kind = "prompt" THEN Thread(on) ELSE {}),
                             scope |-> Scope(on)])
  /\ facts' = Append(facts, [kind |-> "act", about |-> Len(known) + 1, by |-> by])

Tells ==
  \/ Silent
  \/ \E kind, about, by : Utters(kind, about, by)
  \/ \E kind, by, on : Begins(kind, by, on)

\* The record and the acts only grow.
Grown ==
  /\ Len(facts) \in Nat /\ Len(facts') \in Nat /\ Len(facts) <= Len(facts')
  /\ DOMAIN facts = 1 .. Len(facts) /\ (DOMAIN facts)' = 1 .. Len(facts')
  /\ \A i \in 1 .. Len(facts) : facts'[i] = facts[i]
  /\ Len(known) \in Nat /\ Len(known') \in Nat /\ Len(known) <= Len(known')
  /\ \A a \in Known : known'[a] = known[a]

\* A number is never the name of a chain.
LEMMA ChainsApart == \A c \in Chains, n \in 0 .. MaxActs : c # n
BY ControlAssumption

\* What the names of an act are, for every act that was made.
LEMMA Names ==
  ASSUME TypeOK, NEW a \in Known
  PROVE  /\ a \in Acts /\ Lineage(a) \subseteq 0 .. a /\ Thread(a) \subseteq Chains \cup Acts /\ Scope(a) \in Chains
         /\ known[a] \in Forms /\ a \notin Chains
<1>1. a \in Acts /\ a # OPERATOR BY ControlAssumption DEF TypeOK, Known, Acts, OPERATOR
<1>2. known[a] \in Forms BY DEF TypeOK, Known
<1> QED BY <1>1, <1>2, ChainsApart DEF TypeOK, Lineage, Thread, Scope, Forms, Acts

LEMMA PlacesNamed ==
  ASSUME TypeOK, NEW on \in Places
  PROVE  /\ Thread(on) \subseteq Chains \cup Acts /\ Scope(on) \in Chains
         /\ on \in Chains \/ on \in Known
<1>1. CASE on \in Chains
  <2>1. on \notin Known
    <3>1. Known \subseteq 0 .. MaxActs BY ControlAssumption DEF TypeOK, Known
    <3> QED BY <1>1, <3>1, ChainsApart
  <2> QED BY <1>1, <2>1 DEF Thread, Scope
<1>2. CASE on \in Known
  BY <1>2, Names
<1> QED BY <1>1, <1>2 DEF Places

\* Each step says one fact at most, of an act that was made or is made by it.
LEMMA StepTells == TypeOK /\ [Next]_vars => Tells
<1> SUFFICES ASSUME TypeOK, [Next]_vars PROVE Tells
  OBVIOUS
<1>0. alive \subseteq Known /\ left \subseteq Known /\ busy \in {0} \cup alive
  BY DEF TypeOK
<1>1. ASSUME NEW by \in {OPERATOR} \cup Known, NEW held, Makes(by, held) PROVE Tells
  BY <1>1 DEF Makes, Make, Say, Tells, Begins
<1>2. ASSUME NEW a \in Known, NEW i, NEW q, Lived(a, i, q) PROVE Tells
  <2>1. ASSUME Say("done", a, a), UNCHANGED known PROVE Utters("done", a, a)
    BY <2>1 DEF Say, Utters
  <2>2. CASE UNCHANGED <<known, facts>> BY <2>2 DEF Tells, Silent
  <2>3. CASE Say("done", a, a) /\ UNCHANGED known BY <2>1, <2>3 DEF Tells
  <2>4. CASE Makes(a, Held(facts[i], a)) BY <1>1, <2>4
  <2> QED BY <1>2, <2>2, <2>3, <2>4 DEF Lived, Inner
<1>3. CASE Take BY <1>3 DEF Take, Tells, Silent
<1>4. CASE Hear
  <2>1. PICK a \in left : \/ Lived(a, now, later[a])
                          \/ UNCHANGED <<known, facts>>
    BY <1>4 DEF Hear
  <2> QED BY <1>0, <1>2, <2>1 DEF Tells, Silent
<1>5. CASE Drain
  <2>1. PICK a \in {busy} \ {0} : Lived(a, later[a][1], Tail(later[a])) BY <1>5 DEF Drain
  <2>2. a \in Known BY <1>0, <2>1
  <2> QED BY <1>2, <2>1, <2>2
<1>6. CASE Work BY <1>1, <1>6 DEF Work
<1>7. CASE Control
  <2>1. PICK kind \in Controls, about \in Known \cup Chains, by \in {OPERATOR} \cup Known :
          Say(kind, about, by) /\ UNCHANGED known
    BY <1>7 DEF Control
  <2>2. Utters(kind, about, by) BY <2>1 DEF Utters, Say
  <2> QED BY <2>2 DEF Tells
<1>8. CASE World
  <2>1. PICK a \in Known : (Say("news", a, OPERATOR) \/ Say("done", a, OPERATOR)) /\ UNCHANGED known
    BY <1>8 DEF World
  <2>2. Utters("news", a, OPERATOR) \/ Utters("done", a, OPERATOR) BY <2>1 DEF Utters, Say
  <2> QED BY <2>2 DEF Tells
<1>9. CASE UNCHANGED vars BY <1>9 DEF vars, Tells, Silent
<1> QED BY <1>3, <1>4, <1>5, <1>6, <1>7, <1>8, <1>9 DEF Next

\* A fact at the end of a sequence of facts, or an act at the end of the acts.
LEMMA Appended ==
  ASSUME NEW T, NEW s \in Seq(T), NEW x \in T, NEW t, t = Append(s, x)
  PROVE  /\ t \in Seq(T) /\ Len(s) \in Nat /\ Len(t) = Len(s) + 1 /\ DOMAIN s = 1 .. Len(s) /\ DOMAIN t = 1 .. Len(t)
         /\ \A k \in 1 .. Len(s) : t[k] = s[k]
         /\ t[Len(s) + 1] = x
OBVIOUS

\* The shape of the record and of the acts after a step.
LEMMA TellsTypes ==
  ASSUME TypeOK, Tells
  PROVE  /\ Grown
         /\ (known \in Seq(Forms) /\ Len(known) <= MaxActs)'
         /\ \A a \in Known' : /\ known'[a].by < a /\ (known'[a].on \in Chains \/ known'[a].on < a)
                              /\ known'[a].line \subseteq 0 .. a
         /\ facts' \in Seq(Facts)
<1>0. /\ known \in Seq(Forms) /\ Len(known) <= MaxActs /\ facts \in Seq(Facts)
      /\ \A a \in Known : /\ known[a].by < a /\ (known[a].on \in Chains \/ known[a].on < a)
                          /\ known[a].line \subseteq 0 .. a
  BY DEF TypeOK
<1>1. /\ Len(known) \in Nat /\ Len(facts) \in Nat /\ DOMAIN facts = 1 .. Len(facts)
      /\ Known \subseteq Acts /\ Known \subseteq 0 .. MaxActs
  BY <1>0, ControlAssumption DEF Known, Acts
<1>2. CASE Silent
  BY <1>0, <1>1, <1>2 DEF Silent, Grown, Known
<1>3. ASSUME NEW kind, NEW about, NEW by, Utters(kind, about, by)
      PROVE  Grown /\ facts' \in Seq(Facts) /\ known' = known
  <2>1. [kind |-> kind, about |-> about, by |-> by] \in Facts
    <3>1. kind \in Controls \cup {"act", "done", "news"} BY <1>3 DEF Utters
    <3>2. about \in Chains \cup Acts BY <1>1, <1>3 DEF Utters
    <3>3. by \in 0 .. MaxActs BY <1>1, <1>3, ControlAssumption DEF Utters, OPERATOR
    <3> QED BY <3>1, <3>2, <3>3 DEF Facts
  <2>2. /\ facts' \in Seq(Facts) /\ Len(facts') = Len(facts) + 1 /\ DOMAIN facts' = 1 .. Len(facts')
        /\ \A k \in 1 .. Len(facts) : facts'[k] = facts[k]
    BY <1>0, <1>3, <2>1, Appended DEF Utters
  <2> QED BY <1>1, <1>3, <2>2 DEF Utters, Grown, Known
<1>4. ASSUME NEW kind, NEW by, NEW on, Begins(kind, by, on)
      PROVE  /\ Grown /\ facts' \in Seq(Facts) /\ (known \in Seq(Forms) /\ Len(known) <= MaxActs)'
             /\ \A a \in Known' : /\ known'[a].by < a /\ (known'[a].on \in Chains \/ known'[a].on < a)
                                  /\ known'[a].line \subseteq 0 .. a
  <2> DEFINE n == Len(known) + 1
             fact == [kind |-> "act", about |-> n, by |-> by]
             form == [kind |-> kind, by |-> by, on |-> on, line |-> {n} \cup Lineage(by),
                      thread |-> {n} \cup (IF kind = "prompt" THEN Thread(on) ELSE {}), scope |-> Scope(on)]
  <2>1. n \in Acts /\ by \in 0 .. MaxActs /\ by < n BY <1>1, ControlAssumption, <1>4 DEF Begins, Acts, Known, OPERATOR
  <2>2. Lineage(by) \subseteq 0 .. n
    <3>1. CASE by = OPERATOR BY <1>1, <3>1 DEF Lineage, OPERATOR
    <3>2. CASE by \in Known
      <4>1. Lineage(by) \subseteq 0 .. by BY <3>2, Names
      <4> QED BY <2>1, <4>1
    <3> QED BY <1>4, <3>1, <3>2 DEF Begins
  <2>3. Thread(on) \subseteq Chains \cup Acts /\ Scope(on) \in Chains /\ (on \in Chains \/ on \in Known)
    BY <1>4, PlacesNamed DEF Begins
  <2>4. form \in Forms
    <3>1. {n} \cup Lineage(by) \in SUBSET (0 .. MaxActs) BY <1>1, <2>1, <2>2, ControlAssumption DEF Acts
    <3>2. {n} \cup (IF kind = "prompt" THEN Thread(on) ELSE {}) \in SUBSET (Chains \cup Acts) BY <2>1, <2>3
    <3>3. on \in Chains \cup Acts /\ kind \in Kinds BY <1>1, <1>4, <2>3 DEF Begins
    <3> QED BY <2>1, <2>3, <3>1, <3>2, <3>3 DEF Forms
  <2>5. fact \in Facts BY <2>1 DEF Facts
  <2>6. known' = Append(known, form) /\ facts' = Append(facts, fact) BY <1>4 DEF Begins
  <2> HIDE DEF form, fact
  <2>7. /\ facts' \in Seq(Facts) /\ Len(facts') = Len(facts) + 1 /\ DOMAIN facts' = 1 .. Len(facts')
        /\ \A k \in 1 .. Len(facts) : facts'[k] = facts[k]
    BY <1>0, <2>5, <2>6, Appended
  <2>8. /\ known' \in Seq(Forms) /\ Len(known') = n /\ known'[n] = form
        /\ \A k \in 1 .. Len(known) : known'[k] = known[k]
    BY <1>0, <2>4, <2>6, Appended
  <2>9. Grown BY <1>1, <2>7, <2>8 DEF Grown, Known
  <2>10. Len(known') <= MaxActs BY <2>1, <2>8 DEF Acts
  <2>11. ASSUME NEW a \in Known'
         PROVE  /\ known'[a].by < a /\ (known'[a].on \in Chains \/ known'[a].on < a)
                /\ known'[a].line \subseteq 0 .. a
    <3>1. CASE a \in Known BY <1>0, <2>8, <3>1 DEF Known
    <3>2. CASE a = n
      <4>1. known'[a] = form /\ form.by = by /\ form.on = on /\ form.line = {n} \cup Lineage(by) BY <2>8, <3>2 DEF form
      <4>2. on \in Chains \/ on < n BY <1>1, <2>3 DEF Known
      <4>3. {n} \cup Lineage(by) \subseteq 0 .. n BY <1>1, <2>2
      <4> QED BY <2>1, <3>2, <4>1, <4>2, <4>3
    <3> QED BY <1>1, <2>8, <3>1, <3>2 DEF Known
  <2> QED BY <2>7, <2>8, <2>9, <2>10, <2>11
<1>5. ASSUME known' = known
      PROVE  /\ (known \in Seq(Forms) /\ Len(known) <= MaxActs)'
             /\ \A a \in Known' : /\ known'[a].by < a /\ (known'[a].on \in Chains \/ known'[a].on < a)
                                  /\ known'[a].line \subseteq 0 .. a
  BY <1>0, <1>5 DEF Known
<1> QED BY <1>2, <1>3, <1>4, <1>5 DEF Tells

-----------------------------------------------------------------------------
(* What is known of a fact stays.                                           *)

\* What the names of an act are does not change.
LEMMA NamesStay ==
  ASSUME TypeOK, Grown, NEW a \in Known
  PROVE  /\ a \in Known' /\ Lineage(a)' = Lineage(a) /\ Thread(a)' = Thread(a) /\ Scope(a)' = Scope(a)
         /\ known'[a] = known[a]
<1>1. a \in Known' /\ known'[a] = known[a] /\ a # OPERATOR BY DEF Grown, Known, OPERATOR
<1> QED BY <1>1 DEF Lineage, Thread, Scope

\* Nor what is under the makers of an act.
LEMMA ThreadsStay ==
  ASSUME TypeOK, Grown, NEW n \in {OPERATOR} \cup Known
  PROVE  Lineage(n)' = Lineage(n) /\ Thread(n)' = Thread(n)
<1>1. CASE n \in Known BY <1>1, NamesStay
<1>2. CASE n = OPERATOR
  <2>1. n \notin Known /\ n \notin Known' BY <1>2 DEF Known, OPERATOR
  <2> QED BY <1>2, <2>1 DEF Lineage, Thread
<1> QED BY <1>1, <1>2

\* What a fact is over stays.
LEMMA CoversStay ==
  ASSUME TypeOK, Grown, NEW a \in Known, NEW f
  PROVE  Covers(f, a)' <=> Covers(f, a)
<1>1. /\ a \in Known' /\ Lineage(a)' = Lineage(a) /\ Thread(a)' = Thread(a) /\ Scope(a)' = Scope(a)
      /\ known'[a] = known[a]
  BY NamesStay
<1>2. Lineage(a) \subseteq {OPERATOR} \cup Known
  <2>1. Lineage(a) \subseteq 0 .. a BY Names
  <2>2. 0 .. a \subseteq {OPERATOR} \cup Known BY ControlAssumption DEF Known, OPERATOR, TypeOK
  <2> QED BY <2>1, <2>2
<1>3. \A m \in Lineage(a) : Thread(m)' = Thread(m) BY <1>2, ThreadsStay
<1>4. known[a].by \in {OPERATOR} \cup Known
  <2>0. known[a].by < a /\ known \in Seq(Forms) BY DEF TypeOK
  <2>1. known[a].by \in 0 .. MaxActs /\ a \in 1 .. Len(known) /\ Len(known) \in Nat
    BY <2>0, Names DEF Forms, Known
  <2> QED BY <2>0, <2>1, ControlAssumption DEF Known, OPERATOR
<1>5. Thread(known[a].by)' = Thread(known[a].by)
  <2>1. PICK n \in {OPERATOR} \cup Known : n = known[a].by BY <1>4
  <2>2. Thread(n)' = Thread(n) BY ThreadsStay
  <2> QED BY <1>1, <2>1, <2>2 DEF Thread
<1> QED BY <1>1, <1>3, <1>5 DEF Covers

\* Whether an ear heeds a fact of the record stays.
LEMMA HeedsStay ==
  ASSUME TypeOK, Recorded, Tells, NEW a \in Known, NEW i \in 1 .. Len(facts)
  PROVE  Heeds(a, facts[i])' <=> Heeds(a, facts[i])
<1>0. Grown /\ Len(known') <= MaxActs BY TellsTypes
<1>1. PICK f : f = facts[i] OBVIOUS
<1>2. facts'[i] = f BY <1>0, <1>1 DEF Grown
<1>3. f.about \in Chains \cup Known BY <1>0, <1>1 DEF Recorded, Grown
<1>4. CASE f.about \in Known
  <2>1. f.about \in Known' /\ known'[f.about] = known[f.about] BY <1>0, <1>4, NamesStay
  <2> QED BY <1>1, <1>2, <1>4, <2>1 DEF Heeds
<1>5. CASE f.about \in Chains /\ f.about \notin Known
  <2>1. f.about \notin Known'
    <3>1. f.about \notin 0 .. MaxActs BY <1>5, ChainsApart
    <3>2. Known' \subseteq 0 .. MaxActs BY <1>0, ControlAssumption DEF Known, Grown
    <3> QED BY <3>1, <3>2
  <2> QED BY <1>1, <1>2, <1>5, <2>1 DEF Heeds
<1> QED BY <1>3, <1>4, <1>5

\* The record stays about acts that were made, each made once.
LEMMA RecordedStep == TypeOK /\ Recorded /\ Tells => Recorded'
<1> SUFFICES ASSUME TypeOK, Recorded, Tells PROVE Recorded'
  OBVIOUS
<1>1. Grown BY TellsTypes
<1>2. Known \subseteq Known' BY <1>1 DEF Grown, Known
<1>3. /\ \A i \in 1 .. Len(facts) : facts[i].by \in {OPERATOR} \cup Known /\ facts[i].about \in Chains \cup Known
      /\ \A i \in 1 .. Len(facts) : facts[i].kind = "act" => facts[i].about \in Known
      /\ \A a \in Known : \E i \in 1 .. Len(facts) : facts[i].kind = "act" /\ facts[i].about = a
      /\ \A i, j \in 1 .. Len(facts) :
           facts[i].kind = "act" /\ facts[j].kind = "act" /\ facts[i].about = facts[j].about => i = j
  BY <1>1 DEF Recorded, Grown
<1>4. /\ Len(facts) \in Nat /\ Len(known) \in Nat /\ \A i \in 1 .. Len(facts) : facts'[i] = facts[i]
      /\ facts \in Seq(Facts) /\ DOMAIN facts = 1 .. Len(facts) /\ (DOMAIN facts)' = 1 .. Len(facts')
      /\ known \in Seq(Forms)
  BY <1>1 DEF Grown, TypeOK
<1>5. CASE Silent
  BY <1>5 DEF Silent, Recorded, Known
<1>6. ASSUME NEW kind, NEW about, NEW by, Utters(kind, about, by) PROVE Recorded'
  <2>1. /\ Len(facts') = Len(facts) + 1 /\ facts'[Len(facts) + 1] = [kind |-> kind, about |-> about, by |-> by]
        /\ kind # "act" /\ Known' = Known
    BY <1>4, <1>6 DEF Utters, Controls, Known
  <2>2. about \in Chains \cup Known /\ by \in {OPERATOR} \cup Known BY <1>6 DEF Utters
  <2>3. ASSUME NEW i \in 1 .. Len(facts') PROVE i \in 1 .. Len(facts) \/ i = Len(facts) + 1 BY <1>4, <2>1
  <2>4. \A i \in 1 .. Len(facts') : facts'[i].by \in {OPERATOR} \cup Known /\ facts'[i].about \in Chains \cup Known
    BY <1>3, <1>4, <2>1, <2>2, <2>3
  <2>5. \A i \in 1 .. Len(facts') : facts'[i].kind = "act" => i \in 1 .. Len(facts) /\ facts'[i] = facts[i]
    BY <1>4, <2>1, <2>3
  <2>6. ASSUME NEW a \in Known PROVE \E i \in 1 .. Len(facts') : facts'[i].kind = "act" /\ facts'[i].about = a
    <3>1. PICK i \in 1 .. Len(facts) : facts[i].kind = "act" /\ facts[i].about = a BY <1>3
    <3>2. i \in 1 .. Len(facts') /\ facts'[i] = facts[i] BY <1>4, <2>1
    <3> QED BY <3>1, <3>2
  <2>7. \A i \in 1 .. Len(facts') : facts'[i].kind = "act" => facts'[i].about \in Known BY <1>3, <2>5
  <2>8. \A i, j \in 1 .. Len(facts') :
           facts'[i].kind = "act" /\ facts'[j].kind = "act" /\ facts'[i].about = facts'[j].about => i = j
    BY <1>3, <2>5
  <2> QED BY <1>4, <2>1, <2>4, <2>6, <2>7, <2>8 DEF Recorded
<1>7. ASSUME NEW kind, NEW by, NEW on, Begins(kind, by, on) PROVE Recorded'
  <2>1. PICK n : n = Len(known) + 1 OBVIOUS
  <2>2. /\ Len(facts') = Len(facts) + 1 /\ facts'[Len(facts) + 1] = [kind |-> "act", about |-> n, by |-> by]
        /\ Len(known') = n /\ by \in {OPERATOR} \cup Known
    BY <1>4, <1>7, <2>1 DEF Begins
  <2>3. Known' = Known \cup {n} /\ n \notin Known /\ n \in Known'
    BY <1>4, <2>1, <2>2 DEF Known
  <2>4. ASSUME NEW i \in 1 .. Len(facts') PROVE i \in 1 .. Len(facts) \/ i = Len(facts) + 1 BY <1>4, <2>2
  <2>5. \A i \in 1 .. Len(facts') : facts'[i].by \in {OPERATOR} \cup Known' /\ facts'[i].about \in Chains \cup Known'
    BY <1>3, <1>4, <2>2, <2>3, <2>4
  <2>6. \A i \in 1 .. Len(facts') : facts'[i].kind = "act" => facts'[i].about \in Known'
    BY <1>3, <1>4, <2>2, <2>3, <2>4
  <2>7. ASSUME NEW a \in Known' PROVE \E i \in 1 .. Len(facts') : facts'[i].kind = "act" /\ facts'[i].about = a
    <3>1. CASE a \in Known
      <4>1. PICK i \in 1 .. Len(facts) : facts[i].kind = "act" /\ facts[i].about = a BY <1>3, <3>1
      <4>2. i \in 1 .. Len(facts') /\ facts'[i] = facts[i] BY <1>4, <2>2
      <4> QED BY <4>1, <4>2
    <3>2. CASE a = n
      <4>1. Len(facts) + 1 \in 1 .. Len(facts') BY <1>4, <2>2
      <4> QED BY <2>2, <3>2, <4>1
    <3> QED BY <2>3, <3>1, <3>2
  <2>8. ASSUME NEW i \in 1 .. Len(facts'), NEW j \in 1 .. Len(facts'),
               facts'[i].kind = "act", facts'[j].kind = "act", facts'[i].about = facts'[j].about
        PROVE  i = j
    BY <1>3, <1>4, <2>2, <2>3, <2>4, <2>8
  <2> QED BY <1>4, <2>5, <2>6, <2>7, <2>8 DEF Recorded
<1> QED BY <1>5, <1>6, <1>7 DEF Tells

\* The place of the making of an act is a place of the record, and the only one.
LEMMA MadeIs ==
  ASSUME Recorded, NEW a \in Known
  PROVE  /\ Made(a) \in DOMAIN facts /\ facts[Made(a)].kind = "act" /\ facts[Made(a)].about = a
         /\ \A i \in DOMAIN facts : facts[i].kind = "act" /\ facts[i].about = a => i = Made(a)
BY DEF Recorded, Made

\* The place of the making of an act stays; an act that is made has the last place of the record.
LEMMA MadeStays ==
  ASSUME TypeOK, Recorded, Tells, NEW a \in Known'
  PROVE  /\ a \in Known => Made(a)' = Made(a)
         /\ a \notin Known => Made(a)' = Len(facts) + 1 /\ Len(facts') = Len(facts) + 1
<1>1. Grown /\ Recorded' BY TellsTypes, RecordedStep
<1>2. /\ Made(a)' \in 1 .. Len(facts')
      /\ \A i \in 1 .. Len(facts') : facts'[i].kind = "act" /\ facts'[i].about = a => i = Made(a)'
  <2>1. Recorded' => /\ Made(a)' \in (DOMAIN facts)'
                     /\ \A i \in (DOMAIN facts)' : facts'[i].kind = "act" /\ facts'[i].about = a => i = Made(a)'
    BY DEF Recorded, Made
  <2> QED BY <1>1, <2>1 DEF Grown
<1>3. CASE a \in Known
  <2>1. Made(a) \in 1 .. Len(facts) /\ facts[Made(a)].kind = "act" /\ facts[Made(a)].about = a BY <1>1, <1>3, MadeIs DEF Grown
  <2>2. PICK i \in 1 .. Len(facts) : i = Made(a) BY <2>1
  <2>3. i \in 1 .. Len(facts') /\ facts'[i] = facts[i] BY <1>1 DEF Grown
  <2> QED BY <1>2, <1>3, <2>1, <2>2, <2>3
<1>4. CASE a \notin Known
  <2>1. ASSUME NEW kind, NEW by, NEW on, Begins(kind, by, on)
        PROVE  Made(a)' = Len(facts) + 1 /\ Len(facts') = Len(facts) + 1
    <3>1. a = Len(known) + 1
      <4>1. Len(known') = Len(known) + 1 /\ Len(known) \in Nat BY <2>1 DEF Begins, TypeOK
      <4> QED BY <1>4, <4>1 DEF Known
    <3>2. Len(facts') = Len(facts) + 1 /\ facts'[Len(facts) + 1] = [kind |-> "act", about |-> a, by |-> by] /\ Len(facts) \in Nat
      BY <2>1, <3>1 DEF Begins, TypeOK
    <3>3. Len(facts) + 1 \in 1 .. Len(facts') BY <3>2
    <3> QED BY <1>2, <3>2, <3>3
  <2>2. known' # known BY <1>4 DEF Known
  <2>3. ~Silent BY <2>2 DEF Silent
  <2>4. \A kind, about, by : ~Utters(kind, about, by) BY <2>2 DEF Utters
  <2>5. PICK kind, by, on : Begins(kind, by, on) BY <2>3, <2>4 DEF Tells
  <2>6. Made(a)' = Len(facts) + 1 /\ Len(facts') = Len(facts) + 1 BY <2>1, <2>5
  <2> QED BY <1>4, <2>6
<1> QED BY <1>3, <1>4

-----------------------------------------------------------------------------
(* What a step does to the ears.                                            *)

\* What the making of an act does: its ear lives, and a pause over it holds it.
LEMMA MakesDoes ==
  ASSUME TypeOK, NEW by, NEW held, Makes(by, held)
  PROVE  \E n \in Acts \ Known : /\ Known' = Known \cup {n} /\ n = Len(known) + 1
                                 /\ alive' = alive \cup {n} /\ over' = over
                                 /\ halt' = IF Paused(n)' THEN held \cup {n} ELSE held
<1>1. PICK kind \in Kinds, on \in Places : Make(kind, by, on, held) BY DEF Makes
<1>5. known \in Seq(Forms) BY DEF TypeOK
<1>2. PICK n \in {Len(known) + 1} : /\ n <= MaxActs /\ Say("act", n, by) /\ alive' = alive \cup {n}
                                    /\ \E form : known' = Append(known, form)
                                    /\ halt' = IF Paused(n)' THEN held \cup {n} ELSE held
  BY <1>1 DEF Make, HaltBorn
<1>6. n = Len(known) + 1 /\ Len(known') = n /\ over' = over
  <2>1. PICK form : known' = Append(known, form) BY <1>2
  <2>2. Len(known') = Len(known) + 1 BY <1>5, <2>1
  <2> QED BY <1>2, <2>2 DEF Say
<1>3. Len(known) \in Nat BY DEF TypeOK
<1>4. n \in Acts \ Known /\ Known' = Known \cup {n} BY <1>2, <1>3, <1>6, ControlAssumption DEF Known, Acts
<1> QED BY <1>2, <1>4, <1>6

\* What a fact does to the ear that hears it, q being what the ear has then put off.
Does(a, i, q) ==
  LET f == facts[i] IN
  \/ a \in over /\ a \notin alive' /\ a \in over' /\ later'[a] = <<>>
  \/ /\ a \notin over /\ a \in alive'
     /\ \/ IsPause(f, a) /\ a \in halt' /\ later'[a] = q /\ got'[a] = got[a]
        \/ /\ Ends(f, a) /\ ~IsPause(f, a) /\ a \in over' /\ (a \in halt' <=> a \in halt)
           /\ later'[a] = q /\ got'[a] = got[a]
        \/ /\ ~IsPause(f, a) /\ ~Ends(f, a) /\ PutsOff(f, a) /\ (a \in halt' <=> a \in halt)
           /\ later'[a] = Append(q, i) /\ got'[a] = got[a]
        \/ /\ ~IsPause(f, a) /\ ~Ends(f, a) /\ ~PutsOff(f, a) /\ (a \in halt' <=> a \in Held(f, a)) /\ later'[a] = q
           /\ got'[a] = IF f.kind \in {"act", "wake"} THEN got[a] ELSE got[a] \cup {i}

\* What leaves an ear as it is; its act may end.
Spares(x) ==
  /\ x \in alive' <=> x \in alive
  /\ x \in halt' <=> x \in halt
  /\ x \in over => x \in over'
  /\ later'[x] = later[x] /\ got'[x] = got[x]

\* An act that is made has an ear, which heard nothing yet and which the pauses of the record hold.
Begun(n) ==
  /\ n \in alive' /\ n \notin over' /\ later'[n] = later[n] /\ got'[n] = got[n]
  /\ n \in halt' <=> Paused(n)'

\* The sets of the acts after a step.
Sets == /\ alive' \subseteq Known' /\ over' \subseteq Known' /\ halt' \subseteq Known'
        /\ \A a \in Known' : a \in alive' \cup over'
        /\ later' \in [Acts -> Seq(DOMAIN facts')] /\ got' \in [Acts -> SUBSET (DOMAIN facts')]
        /\ \A x \in Acts \ Known' : later'[x] = later[x] /\ got'[x] = got[x]

LEMMA LivedDoes ==
  ASSUME TypeOK, Hearing, Tells, NEW a \in alive, NEW i \in DOMAIN facts, NEW q \in Seq(DOMAIN facts), Lived(a, i, q)
  PROVE  /\ Does(a, i, q) /\ \A x \in Known \ {a} : Spares(x)
         /\ \A n \in Known' \ Known : Begun(n)
         /\ Sets
<1> DEFINE f == facts[i]
<1>0. /\ alive \subseteq Known /\ over \subseteq Known /\ halt \subseteq Known /\ a \in Known /\ a \in Acts
      /\ later \in [Acts -> Seq(DOMAIN facts)] /\ got \in [Acts -> SUBSET (DOMAIN facts)]
      /\ \A x \in Known : x \in alive \cup over
      /\ Held(f, a) \subseteq Known /\ \A x \in Known \ {a} : x \in Held(f, a) <=> x \in halt
  BY Names DEF TypeOK, Hearing, Held
<1>1. Known \subseteq Known' /\ DOMAIN facts \subseteq DOMAIN facts'
  BY TellsTypes DEF Grown, Known
<1>2. \A s \in Seq(DOMAIN facts) : s \in Seq(DOMAIN facts')
  BY <1>1, SeqMonotonic
<1>3. ASSUME NEW s \in Seq(DOMAIN facts), later' = [later EXCEPT ![a] = s]
      PROVE  /\ later' \in [Acts -> Seq(DOMAIN facts')] /\ later'[a] = s
             /\ \A x \in Acts : x # a => later'[x] = later[x]
  <2>1. s \in Seq(DOMAIN facts') BY <1>2
  <2>2. \A x \in Acts : later[x] \in Seq(DOMAIN facts') BY <1>0, <1>2
  <2> HIDE DEF f
  <2> QED BY <1>0, <1>3, <2>1, <2>2
<1>4. ASSUME UNCHANGED <<known, over, halt, got>>, alive' = alive \ {a}, a \in over, later' = [later EXCEPT ![a] = <<>>]
      PROVE  Does(a, i, q) /\ (\A x \in Known \ {a} : Spares(x)) /\ Sets /\ Known' = Known
  <2>1. <<>> \in Seq(DOMAIN facts) OBVIOUS
  <2>2. /\ later' \in [Acts -> Seq(DOMAIN facts')] /\ later'[a] = <<>> /\ \A x \in Acts : x # a => later'[x] = later[x]
    BY <1>3, <1>4, <2>1
  <2>3. Known' = Known /\ Known \subseteq Acts BY <1>4, Names DEF Known
  <2>4. got' \in [Acts -> SUBSET (DOMAIN facts')] BY <1>0, <1>1, <1>4
  <2>5. \A x \in Known \ {a} : Spares(x) BY <1>4, <2>2, <2>3 DEF Spares
  <2>6. Sets BY <1>0, <1>4, <2>2, <2>3, <2>4 DEF Sets
  <2>7. Does(a, i, q) BY <1>4, <2>2 DEF Does
  <2> QED BY <2>3, <2>5, <2>6, <2>7
<1>5. ASSUME UNCHANGED <<known, alive, got>>, NEW s \in Seq(DOMAIN facts), later' = [later EXCEPT ![a] = s],
             halt' \in {halt, Held(f, a)}, over' \in {over, over \cup {a}}
      PROVE  (\A x \in Known \ {a} : Spares(x)) /\ Sets /\ Known' = Known /\ later'[a] = s /\ got'[a] = got[a]
  <2>2. /\ later' \in [Acts -> Seq(DOMAIN facts')] /\ later'[a] = s /\ \A x \in Acts : x # a => later'[x] = later[x]
    BY <1>3, <1>5
  <2>3. Known' = Known /\ Known \subseteq Acts BY <1>5, Names DEF Known
  <2>4. got' \in [Acts -> SUBSET (DOMAIN facts')] BY <1>0, <1>1, <1>5
  <2>5. \A x \in Known \ {a} : Spares(x) BY <1>0, <1>5, <2>2, <2>3 DEF Spares
  <2>6. Sets BY <1>0, <1>5, <2>2, <2>3, <2>4 DEF Sets
  <2> QED BY <1>5, <2>2, <2>3, <2>5, <2>6
<1>6. ASSUME a \notin over, Inner(a, i, Held(f, a)), later' = [later EXCEPT ![a] = q]
      PROVE  /\ \A x \in Known \ {a} : Spares(x)
             /\ \A n \in Known' \ Known : Begun(n)
             /\ Sets /\ a \in alive' /\ (a \in halt' <=> a \in Held(f, a)) /\ later'[a] = q
             /\ got'[a] = IF f.kind \in {"act", "wake"} THEN got[a] ELSE got[a] \cup {i}
  <2>1. /\ later' \in [Acts -> Seq(DOMAIN facts')] /\ later'[a] = q /\ \A x \in Acts : x # a => later'[x] = later[x]
    BY <1>3, <1>6
  <2>2. PICK g : g = IF f.kind \in {"act", "wake"} THEN got[a] ELSE got[a] \cup {i} OBVIOUS
  <2>3. got' = [got EXCEPT ![a] = g] BY <1>0, <1>6, <2>2 DEF Inner
  <2>4. g \subseteq DOMAIN facts BY <1>0, <2>2
  <2>5. /\ got' \in [Acts -> SUBSET (DOMAIN facts')] /\ got'[a] = g /\ \A x \in Acts : x # a => got'[x] = got[x]
    <3> HIDE DEF f
    <3> QED BY <1>0, <1>1, <2>3, <2>4
  <2>6. Known \subseteq Acts BY Names
  <2>7. ASSUME halt' = Held(f, a), over' \in {over, over \cup {a}}, UNCHANGED <<known, alive>>
        PROVE  /\ \A x \in Known \ {a} : Spares(x)
               /\ \A n \in Known' \ Known : Begun(n)
               /\ Sets /\ a \in alive' /\ (a \in halt' <=> a \in Held(f, a))
    <3>1. Known' = Known BY <2>7 DEF Known
    <3>2. \A x \in Known \ {a} : Spares(x) BY <1>0, <2>1, <2>5, <2>6, <2>7 DEF Spares
    <3>3. Sets BY <1>0, <2>1, <2>5, <2>7, <3>1 DEF Sets
    <3> QED BY <2>7, <3>1, <3>2, <3>3
  <2>8. CASE Makes(a, Held(f, a))
    <3>1. PICK n \in Acts \ Known : /\ Known' = Known \cup {n}
                                    /\ alive' = alive \cup {n} /\ over' = over
                                    /\ halt' = IF Paused(n)' THEN Held(f, a) \cup {n} ELSE Held(f, a)
      BY <2>8, MakesDoes
    <3>2. \A x \in Known \ {a} : Spares(x) BY <1>0, <2>1, <2>5, <2>6, <3>1 DEF Spares
    <3>3. Begun(n) BY <1>0, <2>1, <2>5, <3>1 DEF Begun
    <3>4. Sets BY <1>0, <2>1, <2>5, <3>1 DEF Sets
    <3>5. a \in alive' /\ (a \in halt' <=> a \in Held(f, a)) BY <1>0, <3>1
    <3> QED BY <2>1, <2>2, <2>5, <3>1, <3>2, <3>3, <3>4, <3>5
  <2>9. CASE halt' = Held(f, a) /\ UNCHANGED <<known, facts, alive, over>> BY <2>1, <2>2, <2>5, <2>7, <2>9
  <2>10. CASE halt' = Held(f, a) /\ Say("done", a, a) /\ UNCHANGED <<known, alive>>
    <3>1. over' = over \cup {a} BY <2>10 DEF Say
    <3> QED BY <2>1, <2>2, <2>5, <2>7, <2>10, <3>1
  <2> QED BY <1>6, <2>8, <2>9, <2>10 DEF Inner
<1>7. CASE a \in over /\ alive' = alive \ {a} /\ later' = [later EXCEPT ![a] = <<>>] /\ UNCHANGED <<known, facts, over, halt, got>>
  BY <1>4, <1>7
<1>8. CASE /\ a \notin over /\ IsPause(f, a) /\ halt' = Held(f, a) /\ later' = [later EXCEPT ![a] = q]
           /\ UNCHANGED <<known, facts, alive, over, got>>
  <2>1. (\A x \in Known \ {a} : Spares(x)) /\ Sets /\ Known' = Known /\ later'[a] = q /\ got'[a] = got[a]
    BY <1>5, <1>8
  <2>2. a \in halt' BY <1>8 DEF IsPause, Held
  <2>3. Does(a, i, q) BY <1>8, <2>1, <2>2 DEF Does
  <2> QED BY <2>1, <2>3
<1>9. CASE /\ a \notin over /\ Ends(f, a) /\ Say("done", a, a) /\ later' = [later EXCEPT ![a] = q]
           /\ UNCHANGED <<known, alive, halt, got>>
  <2>0. over' = over \cup {a} BY <1>9 DEF Say
  <2>1. (\A x \in Known \ {a} : Spares(x)) /\ Sets /\ Known' = Known /\ later'[a] = q /\ got'[a] = got[a]
    BY <1>5, <1>9, <2>0
  <2>2. ~IsPause(f, a) BY <1>9 DEF IsPause, Ends
  <2>3. Does(a, i, q) BY <1>9, <2>0, <2>1, <2>2 DEF Does
  <2> QED BY <2>1, <2>3
<1>10. CASE /\ a \notin over /\ ~IsPause(f, a) /\ ~Ends(f, a) /\ PutsOff(f, a) /\ later' = [later EXCEPT ![a] = Append(q, i)]
            /\ UNCHANGED <<known, facts, alive, over, halt, got>>
  <2>0. Append(q, i) \in Seq(DOMAIN facts) OBVIOUS
  <2>1. /\ \A x \in Known \ {a} : Spares(x)
        /\ Sets /\ Known' = Known /\ later'[a] = Append(q, i) /\ got'[a] = got[a]
    BY <1>5, <1>10, <2>0
  <2>3. Does(a, i, q) BY <1>10, <2>1 DEF Does
  <2> QED BY <2>1, <2>3
<1>11. CASE /\ a \notin over /\ ~IsPause(f, a) /\ ~Ends(f, a) /\ ~PutsOff(f, a)
            /\ Inner(a, i, Held(f, a)) /\ later' = [later EXCEPT ![a] = q]
  <2>3. Does(a, i, q) BY <1>6, <1>11 DEF Does
  <2> QED BY <1>6, <1>11, <2>3
<1> QED BY <1>7, <1>8, <1>9, <1>10, <1>11 DEF Lived

\* The bus dispatches the next fact of its log.
Taken ==
  /\ busy = 0 /\ left = {} /\ now < Len(facts) /\ now' = now + 1 /\ left' = Ears(facts[now + 1]) /\ busy' = 0
  /\ UNCHANGED <<known, facts>>

\* An ear hears the fact that the bus dispatches, or goes on with the first that it put off.
Heard(a) ==
  /\ busy = 0 /\ a \in left /\ now' = now /\ left' = left \ {a} /\ Does(a, now, later[a])
Drained(a) ==
  /\ a = busy /\ busy # 0 /\ now' = now /\ left' = left /\ Does(a, later[a][1], Tail(later[a]))

\* What every step is, to the bus and to each ear.
Step ==
  /\ Sets /\ \A n \in Known' \ Known : Begun(n)
  /\ \/ (Taken \/ bus' = bus) /\ \A x \in Known : Spares(x)
     \/ \E a \in alive : /\ Heard(a) \/ Drained(a)
                         /\ busy' = IF GoesOn(a)' THEN a ELSE 0
                         /\ \A x \in Known \ {a} : Spares(x)

\* What an ear that goes on takes is a fact of the record.
LEMMA PutOffIs ==
  ASSUME TypeOK, NEW a \in Known, later[a] # <<>>
  PROVE  /\ later[a] \in Seq(DOMAIN facts) /\ Len(later[a]) \in Nat \ {0} /\ later[a][1] \in DOMAIN facts
         /\ Tail(later[a]) \in Seq(DOMAIN facts) /\ Len(Tail(later[a])) = Len(later[a]) - 1
         /\ \A k \in 1 .. Len(later[a]) - 1 : Tail(later[a])[k] = later[a][k + 1]
         /\ DOMAIN later[a] = 1 .. Len(later[a]) /\ DOMAIN Tail(later[a]) = 1 .. Len(later[a]) - 1
<1>1. later[a] \in Seq(DOMAIN facts)
  <2>1. a \in Acts BY Names
  <2> QED BY <2>1 DEF TypeOK
<1>2. Len(later[a]) \in Nat \ {0} /\ DOMAIN later[a] = 1 .. Len(later[a]) BY <1>1, EmptySeq
<1>3. later[a][1] \in DOMAIN facts
  <2>1. 1 \in 1 .. Len(later[a]) BY <1>2
  <2> QED BY <1>1, <2>1, ElementOfSeq
<1>4. /\ Tail(later[a]) \in Seq(DOMAIN facts) /\ Len(Tail(later[a])) = Len(later[a]) - 1
      /\ \A k \in 1 .. Len(Tail(later[a])) : Tail(later[a])[k] = later[a][k + 1]
  BY <1>1, HeadTailProperties
<1> QED BY <1>1, <1>2, <1>3, <1>4

LEMMA StepIs == TypeOK /\ Hearing /\ [Next]_vars => Step
<1> SUFFICES ASSUME TypeOK, Hearing, [Next]_vars PROVE Step
  OBVIOUS
<1>1. Tells /\ Grown BY StepTells, TellsTypes
<1>2. /\ alive \subseteq Known /\ over \subseteq Known /\ halt \subseteq Known /\ left \subseteq alive
      /\ Known \subseteq Acts /\ Known \subseteq Known' /\ DOMAIN facts \subseteq DOMAIN facts'
      /\ later \in [Acts -> Seq(DOMAIN facts)] /\ got \in [Acts -> SUBSET (DOMAIN facts)]
      /\ \A x \in Known : x \in alive \cup over
  <2>1. Known \subseteq Acts BY Names
  <2>2. Known \subseteq Known' /\ DOMAIN facts \subseteq DOMAIN facts' BY <1>1 DEF Grown, Known
  <2>3. alive \subseteq Known /\ over \subseteq Known /\ halt \subseteq Known BY DEF TypeOK
  <2>4. later \in [Acts -> Seq(DOMAIN facts)] /\ got \in [Acts -> SUBSET (DOMAIN facts)] BY DEF TypeOK
  <2>5. left \subseteq alive /\ \A x \in Known : x \in alive \cup over BY DEF Hearing
  <2> QED BY <2>1, <2>2, <2>3, <2>4, <2>5
<1>3. ASSUME UNCHANGED <<later, got>> PROVE /\ later' \in [Acts -> Seq(DOMAIN facts')]
                                            /\ got' \in [Acts -> SUBSET (DOMAIN facts')]
                                            /\ \A x \in Acts : later'[x] = later[x] /\ got'[x] = got[x]
  <2>1. \A x \in Acts : later[x] \in Seq(DOMAIN facts') BY <1>2, SeqMonotonic
  <2>2. later' = later /\ got' = got BY <1>3
  <2> QED BY <1>2, <2>1, <2>2
<1>4. ASSUME UNCHANGED <<later, got, known, alive, halt>>, over \subseteq over', over' \subseteq Known, Taken \/ bus' = bus
      PROVE  Step
  <2>1. Known' = Known BY <1>4 DEF Known
  <2>2. \A x \in Known : Spares(x) BY <1>4 DEF Spares
  <2>3. Sets BY <1>2, <1>3, <1>4, <2>1 DEF Sets
  <2> QED BY <1>4, <2>1, <2>2, <2>3 DEF Step
<1>5. CASE Take
  <2>1. Taken BY <1>5 DEF Take, Taken
  <2> QED BY <1>2, <1>4, <1>5, <2>1 DEF Take
<1>6. CASE Hear
  <2>1. PICK a \in left : /\ busy = 0 /\ left' = left \ {a} /\ now' = now
                          /\ a \in alive => Lived(a, now, later[a]) /\ Busy(a)
    BY <1>6 DEF Hear
  <2>2. a \in alive /\ now \in DOMAIN facts BY <1>2, <2>1 DEF Hearing
  <2>3. later[a] \in Seq(DOMAIN facts) BY <1>2, <2>2
  <2>4. /\ Does(a, now, later[a]) /\ \A x \in Known \ {a} : Spares(x)
        /\ \A n \in Known' \ Known : Begun(n)
        /\ Sets
    BY <1>1, <2>1, <2>2, <2>3, LivedDoes
  <2>5. Heard(a) /\ busy' = IF GoesOn(a)' THEN a ELSE 0 BY <2>1, <2>2, <2>4 DEF Heard, Busy
  <2> QED BY <2>2, <2>4, <2>5 DEF Step
<1>7. CASE Drain
  <2>1. PICK a \in {busy} \ {0} : Lived(a, later[a][1], Tail(later[a])) /\ Busy(a) /\ now' = now /\ left' = left
    BY <1>7 DEF Drain
  <2>2. a = busy /\ busy # 0 /\ a \in alive /\ later[a] # <<>> BY <2>1 DEF Hearing, GoesOn
  <2>3. later[a][1] \in DOMAIN facts /\ Tail(later[a]) \in Seq(DOMAIN facts) BY <1>2, <2>2, PutOffIs
  <2>4. /\ Does(a, later[a][1], Tail(later[a])) /\ \A x \in Known \ {a} : Spares(x)
        /\ \A n \in Known' \ Known : Begun(n)
        /\ Sets
    BY <1>1, <2>1, <2>2, <2>3, LivedDoes
  <2>5. Drained(a) /\ busy' = IF GoesOn(a)' THEN a ELSE 0 BY <2>1, <2>2, <2>4 DEF Drained, Busy
  <2> QED BY <2>2, <2>4, <2>5 DEF Step
<1>8. CASE Work
  <2>1. PICK by \in {OPERATOR} \cup Known : Makes(by, halt) /\ UNCHANGED <<bus, later, got>> BY <1>8 DEF Work
  <2>2. PICK n \in Acts \ Known : /\ Known' = Known \cup {n}
                                  /\ alive' = alive \cup {n} /\ over' = over
                                  /\ halt' = IF Paused(n)' THEN halt \cup {n} ELSE halt
    BY <2>1, MakesDoes
  <2>3. \A x \in Known : Spares(x) BY <1>2, <1>3, <2>1, <2>2 DEF Spares
  <2>4. Begun(n) BY <1>2, <1>3, <2>1, <2>2 DEF Begun
  <2>5. Sets BY <1>2, <1>3, <2>1, <2>2 DEF Sets
  <2> QED BY <2>1, <2>2, <2>3, <2>4, <2>5 DEF Step
<1>9. CASE Control
  <2>1. PICK kind \in Controls : \E about, by : Say(kind, about, by) BY <1>9 DEF Control
  <2>2. over' = over BY <2>1 DEF Say, Controls
  <2> QED BY <1>2, <1>4, <1>9, <2>2 DEF Control
<1>10. CASE World
  <2>1. PICK a \in Known : Say("news", a, OPERATOR) \/ Say("done", a, OPERATOR) BY <1>10 DEF World
  <2>2. over' \in {over, over \cup {a}} BY <2>1 DEF Say
  <2> QED BY <1>2, <1>4, <1>10, <2>2 DEF World
<1>11. CASE UNCHANGED vars
  BY <1>2, <1>4, <1>11 DEF vars, bus
<1> QED BY <1>5, <1>6, <1>7, <1>8, <1>9, <1>10, <1>11 DEF Next

-----------------------------------------------------------------------------
(* The types, and the ears that hear.                                       *)

LEMMA TypesStep == TypeOK /\ Hearing /\ [Next]_vars => TypeOK' /\ Hearing'
<1> SUFFICES ASSUME TypeOK, Hearing, [Next]_vars PROVE TypeOK' /\ Hearing'
  OBVIOUS
<1>1. /\ Grown /\ Step /\ facts' \in Seq(Facts)
      /\ (known \in Seq(Forms) /\ Len(known) <= MaxActs)'
      /\ \A a \in Known' : /\ known'[a].by < a /\ (known'[a].on \in Chains \/ known'[a].on < a)
                           /\ known'[a].line \subseteq 0 .. a
  BY StepTells, TellsTypes, StepIs
<1>2. /\ alive \subseteq Known /\ left \subseteq alive /\ busy \in {0} \cup alive /\ now \in 0 .. Len(facts)
      /\ left # {} => now \in 1 .. Len(facts)
      /\ busy # 0 => GoesOn(busy) /\ busy \notin left
      /\ \A a \in Known : GoesOn(a) => a = busy
      /\ \A a \in Acts \ Known : later[a] = <<>> /\ got[a] = {}
  BY <1>1 DEF TypeOK, Hearing, Grown
<1>3. Known \subseteq Known' /\ Known' \subseteq Acts /\ 0 \notin Known' BY <1>1, ControlAssumption DEF Grown, Known, Acts
<1>4. Sets BY <1>1 DEF Step
<1>5. \A x \in Known : Spares(x) => (GoesOn(x)' <=> GoesOn(x)) BY DEF Spares, GoesOn
<1>6. \A n \in Known' \ Known : Begun(n) /\ ~GoesOn(n)'
  BY <1>1, <1>2, <1>3 DEF Step, Begun, GoesOn
<1>7. \A a \in Acts \ Known' : later'[a] = <<>> /\ got'[a] = {} BY <1>2, <1>3, <1>4 DEF Sets
<1>8. ASSUME /\ left' \subseteq alive' /\ now' \in 0 .. Len(facts') /\ (left' # {} => now' \in 1 .. Len(facts'))
             /\ busy' # 0 => busy' \in alive' /\ GoesOn(busy)' /\ busy' \notin left'
             /\ \A a \in Known' : GoesOn(a)' => a = busy'
      PROVE  TypeOK' /\ Hearing'
  <2>1. TypeOK' BY <1>1, <1>4, <1>8 DEF TypeOK, Sets
  <2>2. (DOMAIN facts)' = 1 .. Len(facts') BY <1>1 DEF Grown
  <2>3. Hearing' BY <1>4, <1>7, <1>8, <2>2 DEF Hearing, Sets
  <2> QED BY <2>1, <2>3
<1>9. CASE (Taken \/ bus' = bus) /\ \A x \in Known : Spares(x)
  <2>1. \A x \in Known : (x \in alive' <=> x \in alive) /\ (GoesOn(x)' <=> GoesOn(x)) BY <1>5, <1>9 DEF Spares
  <2>2. CASE Taken
    <3>1. busy = 0 /\ now < Len(facts) /\ now' = now + 1 /\ left' \subseteq alive /\ busy' = 0 /\ facts' = facts /\ Known' = Known
      BY <2>2 DEF Taken, Ears, Known
    <3>2. now' \in 1 .. Len(facts') BY <1>1, <1>2, <3>1 DEF Grown
    <3>3. \A a \in Known' : GoesOn(a)' => a = busy' BY <1>2, <2>1, <3>1
    <3>4. left' \subseteq alive' BY <1>2, <2>1, <3>1
    <3>5. now' \in 0 .. Len(facts') BY <3>2
    <3> QED BY <1>8, <3>1, <3>2, <3>3, <3>4, <3>5
  <2>3. CASE bus' = bus
    <3>1. now' = now /\ left' = left /\ busy' = busy BY <2>3 DEF bus
    <3>2. busy # 0 => GoesOn(busy)'
      <4>1. PICK x : x = busy OBVIOUS
      <4>2. x # 0 => x \in Known /\ GoesOn(x) BY <1>2, <4>1
      <4>3. x # 0 => GoesOn(x)' BY <2>1, <4>2
      <4> QED BY <3>1, <4>1, <4>3 DEF GoesOn
    <3>3. \A a \in Known' : GoesOn(a)' => a = busy' BY <1>2, <1>6, <2>1, <3>1
    <3>4. left' \subseteq alive' /\ (busy # 0 => busy \in alive') BY <1>2, <2>1, <3>1
    <3>5. now' \in 0 .. Len(facts') /\ (left' # {} => now' \in 1 .. Len(facts')) BY <1>1, <1>2, <3>1 DEF Grown
    <3>6. busy' # 0 => GoesOn(busy)' BY <3>1, <3>2
    <3> QED BY <1>2, <1>8, <3>1, <3>3, <3>4, <3>5, <3>6
  <2> QED BY <1>9, <2>2, <2>3
<1>10. ASSUME NEW a \in alive, Heard(a) \/ Drained(a), busy' = IF GoesOn(a)' THEN a ELSE 0,
              \A x \in Known \ {a} : Spares(x)
       PROVE  TypeOK' /\ Hearing'
  <2>1. \A x \in Known \ {a} : (x \in alive' <=> x \in alive) /\ (GoesOn(x)' <=> GoesOn(x)) BY <1>5, <1>10 DEF Spares
  <2>2. now' = now /\ left' \subseteq left /\ a \notin left' /\ (busy = 0 \/ busy = a)
    BY <1>2, <1>10 DEF Heard, Drained
  <2>3. left' \subseteq alive' BY <1>2, <2>1, <2>2
  <2>4. now' \in 0 .. Len(facts') /\ (left' # {} => now' \in 1 .. Len(facts')) BY <1>1, <1>2, <2>2 DEF Grown
  <2>5. \A x \in Known \ {a} : ~GoesOn(x)' BY <1>2, <1>3, <2>1, <2>2
  <2>6. \A x \in Known' : GoesOn(x)' => x = busy' BY <1>6, <1>10, <2>5
  <2>7. busy' # 0 => busy' = a /\ GoesOn(a)' /\ a \in alive' BY <1>10 DEF GoesOn
  <2>8. busy' # 0 => GoesOn(busy)' BY <2>7 DEF GoesOn
  <2> QED BY <1>8, <2>2, <2>3, <2>4, <2>6, <2>7, <2>8
<1> QED BY <1>1, <1>9, <1>10 DEF Step

LEMMA TypesInit == Init => TypeOK /\ Recorded /\ Hearing
<1> SUFFICES ASSUME Init PROVE TypeOK /\ Recorded /\ Hearing
  OBVIOUS
<1>1. known = <<>> /\ facts = <<>> /\ Known = {} /\ DOMAIN facts = {} /\ Len(known) = 0 /\ Len(facts) = 0
  BY DEF Init, Known
<1>2. \A a \in Acts : later[a] = <<>> /\ got[a] = {} BY DEF Init
<1>3. later \in [Acts -> Seq(DOMAIN facts)] /\ got \in [Acts -> SUBSET (DOMAIN facts)]
  <2>1. <<>> \in Seq(DOMAIN facts) OBVIOUS
  <2> QED BY <2>1 DEF Init
<1>4. <<>> \in Seq(Forms) /\ <<>> \in Seq(Facts) OBVIOUS
<1>5. TypeOK BY <1>1, <1>3, <1>4, ControlAssumption DEF Init, TypeOK
<1>6. Recorded BY <1>1 DEF Recorded
<1>7. Hearing BY <1>1, <1>2 DEF Init, Hearing, GoesOn
<1> QED BY <1>5, <1>6, <1>7

-----------------------------------------------------------------------------
(* A cancel or a close ends what it is over.                                *)

\* What a fact of the record is to an act stays.
LEMMA FactStays ==
  ASSUME TypeOK, Recorded, Tells, NEW a \in Known, NEW i \in 1 .. Len(facts)
  PROVE  /\ facts'[i] = facts[i]
         /\ Covers(facts[i], a)' <=> Covers(facts[i], a)
         /\ Turns(facts[i], a)' <=> Turns(facts[i], a)
         /\ Missable(i, a)' <=> Missable(i, a)
         /\ Under(facts[i].by, a)' <=> Under(facts[i].by, a)
<1>1. Grown BY TellsTypes
<1>2. PICK f : f = facts[i] OBVIOUS
<1>3. facts'[i] = f BY <1>1, <1>2 DEF Grown
<1>4. Covers(f, a)' <=> Covers(f, a) BY <1>1, CoversStay
<1>5. Covers(facts[i], a)' <=> Covers(facts[i], a) BY <1>2, <1>3, <1>4
<1>6. Heeds(a, facts[i])' <=> Heeds(a, facts[i]) BY HeedsStay
<1>7. Turns(facts[i], a)' <=> Turns(facts[i], a) BY <1>2, <1>3, <1>5 DEF Turns
<1>8. Missable(i, a)' <=> Missable(i, a) BY <1>2, <1>3, <1>5, <1>6 DEF Missable, IsPause
<1>9. Under(facts[i].by, a)' <=> Under(facts[i].by, a)
  <2>1. f.by \in {OPERATOR} \cup Known BY <1>1, <1>2 DEF Recorded, Grown
  <2>2. PICK n \in {OPERATOR} \cup Known : n = f.by BY <2>1
  <2>3. Lineage(n)' = Lineage(n) BY <1>1, ThreadsStay
  <2> QED BY <1>2, <1>3, <2>2, <2>3 DEF Under
<1> QED BY <1>2, <1>3, <1>5, <1>7, <1>8, <1>9

\* How far an ear is after a step.
LEMMA CursorMoves ==
  ASSUME TypeOK, Hearing, NEW x \in Known
  PROVE  /\ Cursor(x) \in Int /\ Cursor(x) <= now /\ now \in Nat /\ now <= Len(facts)
         /\ Taken => Cursor(x) = now /\ Cursor(x)' = IF x \in left' THEN now ELSE now + 1
         /\ bus' = bus => Cursor(x)' = Cursor(x)
         /\ \A a \in alive : Heard(a) => /\ Cursor(a) = now - 1 /\ Cursor(a)' = now
                                         /\ x # a => Cursor(x)' = Cursor(x)
         /\ \A a \in alive : Drained(a) => Cursor(x)' = Cursor(x)
<1>1. now \in Nat /\ now <= Len(facts) BY DEF TypeOK
<1> QED BY <1>1 DEF Cursor, Taken, bus, Heard, Drained

LEMMA NotAfter ==
  ASSUME NEW i \in Int, NEW c, NEW m \in Nat, NEW l \in Nat, i <= c, c = m - 1 \/ c = m, m <= l
  PROVE  i <= l
OBVIOUS

\* The facts of the record up to a cursor, and after the making of its act, were said before the step.
LEMMA HeardBefore ==
  ASSUME TypeOK, Recorded, Hearing, [Next]_vars, NEW a \in Known', NEW i \in 1 .. Len(facts'),
         i <= Cursor(a)', Made(a)' < i
  PROVE  a \in Known /\ i \in 1 .. Len(facts) /\ Made(a)' = Made(a)
<1>1. Tells /\ Step BY StepTells, StepIs
<1>2. Grown /\ now \in Nat /\ now <= Len(facts) BY <1>1, TellsTypes DEF TypeOK
<1>3. now' \in Nat /\ now' <= Len(facts)
  BY <1>1, <1>2 DEF Step, Taken, bus, Heard, Drained
<1>5. i <= Len(facts)
  <2>1. PICK m \in Nat : m = now' BY <1>3
  <2>2. Cursor(a)' = m - 1 \/ Cursor(a)' = m BY <2>1 DEF Cursor
  <2>3. i \in Int /\ m <= Len(facts) /\ Len(facts) \in Nat BY <1>2, <1>3, <2>1 DEF Grown
  <2> QED BY <2>1, <2>2, <2>3, NotAfter
<1>6. i \in 1 .. Len(facts) BY <1>2, <1>5 DEF Grown
<1>7. a \in Known => Made(a)' = Made(a) BY <1>1, MadeStays
<1>8. a \notin Known => Made(a)' = Len(facts) + 1 BY <1>1, MadeStays
<1> QED BY <1>2, <1>6, <1>7, <1>8 DEF Grown

\* The first of a sequence, and the rest of it.
LEMMA RangeOfRest ==
  ASSUME NEW S, NEW s \in Seq(S), s # <<>>, NEW x \in Range(s)
  PROVE  x = s[1] \/ x \in Range(Tail(s))
<1>1. /\ DOMAIN s = 1 .. Len(s) /\ Len(s) \in Nat /\ Len(Tail(s)) = Len(s) - 1 /\ Tail(s) \in Seq(S)
      /\ \A k \in 1 .. Len(Tail(s)) : Tail(s)[k] = s[k + 1]
  BY HeadTailProperties
<1>2. PICK k \in 1 .. Len(s) : x = s[k] BY <1>1 DEF Range
<1>3. CASE k = 1 BY <1>2, <1>3
<1>4. CASE k # 1
  <2>1. k - 1 \in 1 .. Len(Tail(s)) /\ (k - 1) + 1 = k BY <1>1, <1>2, <1>4
  <2>2. Tail(s)[k - 1] = x BY <1>1, <1>2, <2>1
  <2>3. DOMAIN Tail(s) = 1 .. Len(Tail(s)) BY <1>1
  <2> QED BY <2>1, <2>2, <2>3 DEF Range
<1> QED BY <1>3, <1>4

LEMMA RangeOfAppend ==
  ASSUME NEW S, NEW s \in Seq(S), NEW y \in S
  PROVE  Range(Append(s, y)) = Range(s) \cup {y}
<1> DEFINE t == Append(s, y)
<1>1. /\ Len(s) \in Nat /\ DOMAIN s = 1 .. Len(s) /\ DOMAIN t = 1 .. Len(s) + 1
      /\ t[Len(s) + 1] = y /\ \A k \in 1 .. Len(s) : t[k] = s[k]
  OBVIOUS
<1> HIDE DEF t
<1>2. Len(s) + 1 \in 1 .. Len(s) + 1 /\ \A k \in 1 .. Len(s) : k \in 1 .. Len(s) + 1 BY <1>1
<1>3. \A k \in 1 .. Len(s) + 1 : k \in 1 .. Len(s) \/ k = Len(s) + 1 BY <1>1
<1>4. ASSUME NEW x \in Range(t) PROVE x \in Range(s) \cup {y} BY <1>1, <1>3 DEF Range
<1>5. ASSUME NEW x \in Range(s) \cup {y} PROVE x \in Range(t) BY <1>1, <1>2 DEF Range
<1>6. Range(t) = Range(s) \cup {y} BY <1>4, <1>5
<1> QED BY <1>6 DEF t

\* What an ear put off it still puts off after a step, unless its act is over or the fact was the next to go on with.
LEMMA StillPutOff ==
  ASSUME TypeOK, Hearing, NEW a \in alive, NEW i \in Range(later[a]), Heard(a) \/ Drained(a)
  PROVE  \/ a \in over' \/ i \in Range(later'[a])
         \/ Drained(a) /\ i = later[a][1]
<1>1. a \in Known BY DEF TypeOK
<1>2. later[a] \in Seq(DOMAIN facts)
  <2>1. a \in Acts BY <1>1, Names
  <2> QED BY <2>1 DEF TypeOK
<1>3. CASE Heard(a)
  <2>1. now \in DOMAIN facts BY <1>3 DEF Heard, Hearing
  <2>2. Range(Append(later[a], now)) = Range(later[a]) \cup {now} BY <1>2, <2>1, RangeOfAppend
  <2>3. a \in over' \/ later'[a] = later[a] \/ later'[a] = Append(later[a], now) BY <1>3 DEF Heard, Does
  <2> QED BY <2>2, <2>3
<1>4. CASE Drained(a)
  <2>1. later[a] # <<>> BY <1>4 DEF Drained, Hearing, GoesOn
  <2>2. Tail(later[a]) \in Seq(DOMAIN facts) /\ later[a][1] \in DOMAIN facts BY <1>1, <2>1, PutOffIs
  <2>3. PICK q, d : q = Tail(later[a]) /\ d = later[a][1] OBVIOUS
  <2>4. Range(Append(q, d)) = Range(q) \cup {d} BY <2>2, <2>3, RangeOfAppend
  <2>5. a \in over' \/ later'[a] = q \/ later'[a] = Append(q, d) BY <1>4, <2>3 DEF Drained, Does
  <2>6. i = d \/ i \in Range(q) BY <1>2, <2>1, <2>3, RangeOfRest
  <2> QED BY <1>4, <2>3, <2>4, <2>5, <2>6
<1> QED BY <1>3, <1>4

LEMMA EndedStep == TypeOK /\ Recorded /\ Hearing /\ Ended /\ [Next]_vars => Ended'
<1> SUFFICES ASSUME TypeOK, Recorded, Hearing, Ended, [Next]_vars,
                    NEW i \in (DOMAIN facts)', NEW a \in Known',
                    facts'[i].kind \in {"cancel", "close"}, Covers(facts[i], a)', Made(a)' < i, i <= Cursor(a)'
             PROVE  a \in over' \/ (i \in Range(later'[a]) /\ Under(facts[i].by, a)')
  BY DEF Ended
<1>1. Tells /\ Grown /\ Step BY StepTells, TellsTypes, StepIs
<1>2. a \in Known /\ i \in 1 .. Len(facts) /\ Made(a) < i
  <2>1. i \in 1 .. Len(facts') BY <1>1 DEF Grown
  <2> QED BY <2>1, HeardBefore
<1>3. PICK f : f = facts[i] OBVIOUS
<1>4. /\ facts'[i] = f /\ f.kind \in {"cancel", "close"} /\ Covers(f, a)
      /\ (Under(facts[i].by, a)' <=> Under(f.by, a))
  BY <1>1, <1>2, <1>3, FactStays
<1>5. a \in alive \/ a \in over BY <1>2 DEF Hearing
<1>6. ASSUME i <= Cursor(a) PROVE a \in over \/ (i \in Range(later[a]) /\ Under(f.by, a))
  BY <1>1, <1>2, <1>3, <1>4, <1>6 DEF Ended, Grown
<1>7. CASE Spares(a) /\ Cursor(a)' = Cursor(a)
  BY <1>4, <1>6, <1>7 DEF Spares
<1>8. CASE Taken /\ Spares(a)
  <2>1. Cursor(a) = now /\ Cursor(a)' = (IF a \in left' THEN now ELSE now + 1) /\ now \in Nat
    BY <1>2, <1>8, CursorMoves
  <2>2. CASE a \in left' BY <1>7, <1>8, <2>1, <2>2
  <2>3. CASE a \notin left'
    <3>1. CASE i <= now BY <1>4, <1>6, <1>8, <2>1, <3>1 DEF Spares
    <3>2. CASE i = now + 1
      <4>1. a \in alive => a \in left'
        <5>1. Heeds(a, f) /\ f.kind # "act" BY <1>4 DEF Heeds, Controls
        <5> QED BY <1>3, <1>8, <3>2, <5>1 DEF Taken, Ears
      <4> QED BY <1>5, <1>8, <2>3, <4>1 DEF Spares
    <3> QED BY <1>2, <2>1, <2>3, <3>1, <3>2
  <2> QED BY <2>2, <2>3
<1>9. ASSUME a \in alive, Heard(a) \/ Drained(a)
      PROVE  a \in over' \/ (i \in Range(later'[a]) /\ Under(facts[i].by, a)')
  <2>1. a \in over => a \in over' BY <1>9 DEF Heard, Drained, Does
  <2>3. later[a] \in Seq(DOMAIN facts)
    <3>1. a \in Acts BY <1>2, Names
    <3> QED BY <3>1 DEF TypeOK
  <2>4. ~IsPause(f, a) /\ (a \in Held(f, a) <=> a \in halt) BY <1>4 DEF IsPause, Held
  <2>5. CASE Heard(a) /\ i = now
    <3>1. Does(a, i, later[a]) BY <2>5 DEF Heard
    <3>2. Ends(f, a) => a \in over' BY <1>3, <2>4, <3>1 DEF Does
    <3>3. ~Ends(f, a) => PutsOff(f, a) /\ Under(f.by, a)
      BY <1>4, <2>4 DEF Ends, PutsOff
    <3>4. ~Ends(f, a) => a \in over' \/ later'[a] = Append(later[a], i)
      BY <1>3, <2>4, <3>1, <3>3 DEF Does
    <3>5. i \in Range(Append(later[a], i)) BY <1>1, <1>2, <2>3, RangeOfAppend DEF Grown
    <3> QED BY <1>4, <3>2, <3>3, <3>4, <3>5
  <2>6. CASE ~(Heard(a) /\ i = now)
    <3>1. i <= Cursor(a)
      <4>1. Heard(a) => Cursor(a) = now - 1 /\ Cursor(a)' = now BY <1>2, <1>9, CursorMoves
      <4>2. Drained(a) => Cursor(a)' = Cursor(a) BY <1>2, <1>9, CursorMoves
      <4>3. now \in Nat BY <1>2, CursorMoves
      <4> QED BY <1>2, <1>9, <2>6, <4>1, <4>2, <4>3
    <3>2. a \in over \/ (i \in Range(later[a]) /\ Under(f.by, a)) BY <1>6, <3>1
    <3>3. CASE i \in Range(later[a]) /\ Under(f.by, a)
      <4>1. \/ a \in over' \/ i \in Range(later'[a])
            \/ Drained(a) /\ i = later[a][1]
        BY <1>9, <3>3, StillPutOff
      <4>2. CASE Drained(a) /\ i = later[a][1]
        <5>1. a \notin halt BY <4>2 DEF Drained, Hearing, GoesOn
        <5>2. Ends(f, a) BY <1>4, <5>1 DEF Ends
        <5>3. Does(a, i, Tail(later[a])) BY <4>2 DEF Drained
        <5> QED BY <1>3, <2>4, <5>2, <5>3 DEF Does
      <4> QED BY <1>4, <3>3, <4>1, <4>2
    <3> QED BY <2>1, <3>2, <3>3
  <2> QED BY <2>5, <2>6
<1>10. CASE \E x \in alive : (Heard(x) \/ Drained(x)) /\ \A y \in Known \ {x} : Spares(y)
  <2>1. PICK x \in alive : (Heard(x) \/ Drained(x)) /\ \A y \in Known \ {x} : Spares(y) BY <1>10
  <2>2. CASE x = a BY <1>9, <2>1, <2>2
  <2>3. CASE x # a
    <3>1. Spares(a) BY <1>2, <2>1, <2>3
    <3>2. Cursor(a)' = Cursor(a) BY <1>2, <2>1, <2>3, CursorMoves
    <3> QED BY <1>7, <3>1, <3>2
  <2> QED BY <2>2, <2>3
<1>11. CASE (Taken \/ bus' = bus) /\ \A x \in Known : Spares(x)
  <2>1. bus' = bus => Cursor(a)' = Cursor(a) BY <1>2, CursorMoves
  <2> QED BY <1>2, <1>7, <1>8, <1>11, <2>1
<1> QED BY <1>1, <1>10, <1>11 DEF Step

\* What the ears heard up to their cursors, when the bus is still, is what the record holds.
LEMMA EndedIsControlEnds == TypeOK /\ Hearing /\ Ended => ControlEnds
<1> SUFFICES ASSUME TypeOK, Hearing, Ended, Idle, NEW i \in DOMAIN facts, NEW a \in Known,
                    facts[i].kind \in {"cancel", "close"}, Covers(facts[i], a), Made(a) < i
             PROVE  a \in over \/ (a \in halt /\ i \in Range(later[a]) /\ Under(facts[i].by, a))
  BY DEF ControlEnds
<1>1. facts \in Seq(Facts) BY DEF TypeOK
<1>2. i <= Cursor(a)
  <2>1. i \in 1 .. Len(facts) BY <1>1
  <2> QED BY <2>1 DEF Idle, Cursor
<1>3. a \in over \/ (i \in Range(later[a]) /\ Under(facts[i].by, a)) BY <1>2 DEF Ended
<1>4. CASE a \notin over /\ i \in Range(later[a])
  <2>1. a \in alive BY <1>4 DEF Hearing
  <2>2. later[a] # <<>>
    <3>1. DOMAIN <<>> = {} OBVIOUS
    <3> QED BY <1>4, <3>1 DEF Range
  <2>3. a # busy BY DEF Idle, Known
  <2>4. a \in halt BY <2>1, <2>2, <2>3 DEF Hearing, GoesOn
  <2> QED BY <1>3, <1>4, <2>4
<1> QED BY <1>3, <1>4

ControlInv == TypeOK /\ Recorded /\ Hearing /\ Ended

\* A cancel or a close ends each act made before it that it is over, also while a pause is over that
\* act, but for what the words of a paused act say (cancel and close of engine.py).
THEOREM ControlsTheorem == Spec => []ControlEnds
<1>1. Init => ControlInv
  <2>1. Init => Ended BY DEF Init, Ended, Known
  <2> QED BY <2>1, TypesInit DEF ControlInv
<1>2. ControlInv /\ [Next]_vars => ControlInv'
  BY TypesStep, StepTells, RecordedStep, EndedStep DEF ControlInv
<1>3. ControlInv => ControlEnds BY EndedIsControlEnds DEF ControlInv
<1> QED BY <1>1, <1>2, <1>3, PTL DEF Spec

-----------------------------------------------------------------------------
(* An ear misses nothing.                                                   *)

\* A pause or a wake over an act is never put off.
LEMMA TurnsNotPutOff ==
  ASSUME NEW f, NEW a, ~IsPause(f, a), PutsOff(f, a)
  PROVE  ~Turns(f, a) /\ f.kind # "act"
BY DEF Turns, IsPause, PutsOff, Held

\* What an ear heard, put off, and is to hear, in record order.
LEMMA OrderGrows ==
  ASSUME NEW s, NEW g \in SUBSET Int, NEW c \in Int, NEW d \in Int, NEW a, InOrder(s, g, c, a), c <= d,
         \A k \in DOMAIN s : s[k] \in Int
  PROVE  InOrder(s, g, d, a)
BY DEF InOrder

LEMMA OrderOfAppend ==
  ASSUME TypeOK, NEW s \in Seq(DOMAIN facts), NEW g \in SUBSET Int, NEW c \in Int, NEW i \in DOMAIN facts, NEW a,
         InOrder(s, g, c, a), c < i, facts[i].kind # "act", ~Turns(facts[i], a)
  PROVE  InOrder(Append(s, i), g, i, a)
<1>1. DOMAIN facts \subseteq Int BY DEF TypeOK
<1>2. PICK t : t = Append(s, i) OBVIOUS
<1>3. /\ Len(s) \in Nat /\ DOMAIN s = 1 .. Len(s) /\ DOMAIN t = 1 .. Len(s) + 1
      /\ t[Len(s) + 1] = i /\ \A k \in 1 .. Len(s) : t[k] = s[k] /\ s[k] \in Int
  BY <1>1, <1>2, ElementOfSeq
<1>4. \A k \in 1 .. Len(s) + 1 : k \in 1 .. Len(s) \/ k = Len(s) + 1 BY <1>3
<1>5. i \in Int BY <1>1
<1>6. \A k \in 1 .. Len(s) : s[k] < i BY <1>3, <1>5 DEF InOrder
<1>7. \A k, m \in DOMAIN t : k < m => t[k] < t[m]
  <2>1. \A k, m \in DOMAIN t : k < m => k \in 1 .. Len(s) BY <1>3
  <2>2. \A k, m \in 1 .. Len(s) : k < m => s[k] < s[m] BY <1>3 DEF InOrder
  <2> QED BY <1>3, <1>4, <1>6, <2>1, <2>2
<1>8. \A k \in DOMAIN t : t[k] <= i /\ facts[t[k]].kind # "act" /\ ~Turns(facts[t[k]], a)
  <2>1. \A k \in 1 .. Len(s) : s[k] <= i /\ facts[s[k]].kind # "act" /\ ~Turns(facts[s[k]], a)
    BY <1>3, <1>5, <1>6 DEF InOrder
  <2> QED BY <1>3, <1>4, <1>5, <2>1
<1>9. \A n \in g : n <= i /\ \A k \in DOMAIN t : n < t[k]
  <2>1. \A n \in g : n \in Int /\ n <= c /\ \A k \in 1 .. Len(s) : n < s[k] BY <1>3 DEF InOrder
  <2>2. \A n \in g : n < i /\ n <= i BY <1>5, <2>1
  <2>3. ASSUME NEW n \in g, NEW k \in DOMAIN t PROVE n < t[k]
    <3>1. CASE k \in 1 .. Len(s) BY <1>3, <2>1, <3>1
    <3>2. CASE k = Len(s) + 1 BY <1>3, <2>2, <3>2
    <3> QED BY <1>3, <1>4, <3>1, <3>2
  <2> QED BY <2>2, <2>3
<1> QED BY <1>2, <1>7, <1>8, <1>9 DEF InOrder

LEMMA OrderOfHeard ==
  ASSUME NEW g \in SUBSET Int, NEW c \in Int, NEW i \in Int, NEW a, InOrder(<<>>, g, c, a), c < i
  PROVE  InOrder(<<>>, g \cup {i}, i, a)
<1>1. DOMAIN <<>> = {} OBVIOUS
<1>2. \A n \in g : n \in Int /\ n <= i BY DEF InOrder
<1>3. \A n \in g \cup {i} : n <= i BY <1>2
<1> QED BY <1>1, <1>3 DEF InOrder

LEMMA OrderOfRest ==
  ASSUME TypeOK, NEW s \in Seq(DOMAIN facts), s # <<>>, NEW g \in SUBSET Int, NEW c \in Int, NEW a, InOrder(s, g, c, a)
  PROVE  InOrder(Tail(s), g, c, a) /\ InOrder(Tail(s), g \cup {s[1]}, c, a)
<1>1. PICK t : t = Tail(s) OBVIOUS
<1>2. /\ DOMAIN s = 1 .. Len(s) /\ Len(s) \in Nat /\ Len(t) = Len(s) - 1 /\ DOMAIN t = 1 .. Len(s) - 1
      /\ \A k \in 1 .. Len(s) - 1 : t[k] = s[k + 1]
  BY <1>1, HeadTailProperties
<1>3. \A k \in 1 .. Len(s) - 1 : k + 1 \in 1 .. Len(s) /\ 1 < k + 1 /\ 1 \in 1 .. Len(s) BY <1>2
<1>4. \A k, m \in 1 .. Len(s) - 1 : k < m => k + 1 < m + 1 OBVIOUS
<1>5. 1 \in 1 .. Len(s) BY <1>2, EmptySeq
<1>6. /\ \A k, m \in DOMAIN t : k < m => t[k] < t[m]
      /\ \A k \in DOMAIN t : t[k] <= c /\ facts[t[k]].kind # "act" /\ ~Turns(facts[t[k]], a)
      /\ \A k \in DOMAIN t : s[1] < t[k]
  BY <1>2, <1>3, <1>4 DEF InOrder
<1>7. \A n \in g : n <= c /\ \A k \in DOMAIN t : n < t[k] BY <1>2, <1>3 DEF InOrder
<1>8. s[1] <= c BY <1>2, <1>5 DEF InOrder
<1> QED BY <1>1, <1>6, <1>7, <1>8 DEF InOrder

\* The order of what was said before stays.
LEMMA OrderStays ==
  ASSUME TypeOK, Recorded, Tells, NEW a \in Known, NEW s \in Seq(DOMAIN facts), NEW g, NEW c, InOrder(s, g, c, a)
  PROVE  InOrder(s, g, c, a)'
<1>1. /\ \A i \in 1 .. Len(facts) : facts'[i] = facts[i] /\ (Turns(facts[i], a)' <=> Turns(facts[i], a))
      /\ DOMAIN facts = 1 .. Len(facts)
  BY FactStays, TellsTypes DEF Grown
<1>2. ASSUME NEW k \in DOMAIN s
      PROVE  /\ s[k] <= c /\ facts'[s[k]].kind # "act" /\ ~Turns(facts[s[k]], a)'
  <2>1. s[k] \in 1 .. Len(facts) BY <1>1, ElementOfSeq
  <2>2. PICK i \in 1 .. Len(facts) : i = s[k] BY <2>1
  <2>3. i <= c /\ facts[i].kind # "act" /\ ~Turns(facts[i], a) BY <2>2 DEF InOrder
  <2>4. i <= c /\ facts'[i].kind # "act" /\ ~Turns(facts[i], a)' BY <1>1, <2>3
  <2> QED BY <2>2, <2>4
<1>3. /\ \A k, m \in DOMAIN s : k < m => s[k] < s[m]
      /\ \A i \in g : i <= c /\ \A k \in DOMAIN s : i < s[k]
  BY DEF InOrder
<1> QED BY <1>2, <1>3 DEF InOrder

\* What the ear of an act that lives has heard and put off.
LEMMA EarTypes ==
  ASSUME TypeOK, NEW a \in Known
  PROVE  /\ later[a] \in Seq(DOMAIN facts) /\ got[a] \in SUBSET Int /\ got[a] \in SUBSET (DOMAIN facts)
         /\ DOMAIN facts = 1 .. Len(facts)
         /\ Cursor(a) \in Int /\ now \in Nat /\ \A k \in DOMAIN later[a] : later[a][k] \in Int
<1>1. a \in Acts BY Names
<1>2. DOMAIN facts = 1 .. Len(facts) /\ Len(facts) \in Nat /\ now \in Nat BY DEF TypeOK
<1>3. later[a] \in Seq(DOMAIN facts) /\ got[a] \in SUBSET (DOMAIN facts) BY <1>1 DEF TypeOK
<1>4. \A k \in DOMAIN later[a] : later[a][k] \in Int BY <1>2, <1>3, ElementOfSeq
<1>5. got[a] \in SUBSET Int BY <1>2, <1>3
<1> QED BY <1>2, <1>3, <1>4, <1>5 DEF Cursor

LEMMA PutOffStep == TypeOK /\ Recorded /\ Hearing /\ PutOff /\ [Next]_vars => PutOff'
<1> SUFFICES ASSUME TypeOK, Recorded, Hearing, PutOff, [Next]_vars, NEW a \in alive'
             PROVE  InOrder(later[a], got[a], Cursor(a), a)'
  BY DEF PutOff
<1>1. Tells /\ Grown /\ Step BY StepTells, TellsTypes, StepIs
<1>2. a \in Known' /\ Known' \subseteq Acts
  <2>1. a \in Known' BY <1>1 DEF Step, Sets
  <2> QED BY <1>1, <2>1, TellsTypes, ControlAssumption DEF Known, Acts, Grown
<1>3. CASE a \notin Known
  <2>1. later'[a] = <<>> /\ got'[a] = {} BY <1>1, <1>2, <1>3 DEF Step, Begun, Hearing
  <2>2. DOMAIN <<>> = {} OBVIOUS
  <2>3. DOMAIN later'[a] = {} BY <2>1, <2>2
  <2> QED BY <2>1, <2>3 DEF InOrder
<1>4. ASSUME NEW s \in Seq(DOMAIN facts), NEW g, NEW c, a \in Known, InOrder(s, g, c, a),
             later'[a] = s, got'[a] = g, Cursor(a)' = c
      PROVE  InOrder(later[a], got[a], Cursor(a), a)'
  <2>1. InOrder(s, g, c, a)' BY <1>1, <1>4, OrderStays
  <2> QED BY <1>4, <2>1
<1>5. ASSUME a \in Known, Spares(a), Cursor(a)' \in Int, Cursor(a) <= Cursor(a)'
      PROVE  InOrder(later[a], got[a], Cursor(a), a)'
  <2>1. a \in alive /\ later'[a] = later[a] /\ got'[a] = got[a] BY <1>5 DEF Spares
  <2>2. InOrder(later[a], got[a], Cursor(a), a) BY <2>1 DEF PutOff
  <2>3. PICK s, g, c, d : s = later[a] /\ g = got[a] /\ c = Cursor(a) /\ d = Cursor(a)' OBVIOUS
  <2>4. s \in Seq(DOMAIN facts) /\ g \in SUBSET Int /\ c \in Int /\ d \in Int /\ c <= d /\ \A k \in DOMAIN s : s[k] \in Int
    BY <1>5, <2>3, EarTypes
  <2>5. InOrder(s, g, d, a) BY <2>2, <2>3, <2>4, OrderGrows
  <2> QED BY <1>4, <1>5, <2>1, <2>3, <2>4, <2>5
<1>6. CASE a \in Known /\ (Taken \/ bus' = bus) /\ \A x \in Known : Spares(x)
  <2>1. Cursor(a)' \in Int /\ Cursor(a) <= Cursor(a)' BY <1>6, CursorMoves
  <2> QED BY <1>5, <1>6, <2>1
<1>7. ASSUME a \in Known, a \in alive, Heard(a) PROVE InOrder(later[a], got[a], Cursor(a), a)'
  <2>1. PICK s, g, i, f : s = later[a] /\ g = got[a] /\ i = now /\ f = facts[i] OBVIOUS
  <2>2. Cursor(a) = i - 1 /\ Cursor(a)' = i /\ i \in Int BY <1>7, <2>1, CursorMoves
  <2>3. InOrder(s, g, i - 1, a) BY <1>7, <2>1, <2>2 DEF PutOff
  <2>4. s \in Seq(DOMAIN facts) /\ g \in SUBSET Int /\ \A k \in DOMAIN s : s[k] \in Int BY <1>7, <2>1, EarTypes
  <2>5. i \in DOMAIN facts BY <1>7, <2>1 DEF Heard, Hearing
  <2>6. InOrder(s, g, i, a) BY <2>2, <2>3, <2>4, OrderGrows
  <2>7. Does(a, i, s) BY <1>7, <2>1 DEF Heard
  <2>8. CASE later'[a] = s /\ got'[a] = g BY <1>4, <1>7, <2>2, <2>4, <2>6, <2>8
  <2>9. CASE ~IsPause(f, a) /\ PutsOff(f, a) /\ later'[a] = Append(s, i) /\ got'[a] = g
    <3>1. ~Turns(f, a) /\ f.kind # "act" BY <2>9, TurnsNotPutOff
    <3>2. InOrder(Append(s, i), g, i, a) BY <2>1, <2>2, <2>3, <2>4, <2>5, <3>1, OrderOfAppend
    <3>3. Append(s, i) \in Seq(DOMAIN facts) BY <2>4, <2>5
    <3> QED BY <1>4, <1>7, <2>2, <2>9, <3>2, <3>3
  <2>10. CASE ~IsPause(f, a) /\ ~PutsOff(f, a) /\ f.kind \notin {"act", "wake"} /\ later'[a] = s /\ got'[a] = g \cup {i}
    <3>1. a \notin halt BY <2>10 DEF PutsOff, Held
    <3>2. s = <<>>
      <4>1. busy = 0 /\ a # 0 BY <1>7 DEF Heard, Known
      <4> QED BY <1>7, <2>1, <3>1, <4>1 DEF Hearing, GoesOn
    <3>3. InOrder(s, g \cup {i}, i, a) BY <2>2, <2>3, <2>4, <3>2, OrderOfHeard
    <3> QED BY <1>4, <1>7, <2>2, <2>4, <2>10, <3>3
  <2> QED BY <2>1, <2>7, <2>8, <2>9, <2>10 DEF Does
<1>8. ASSUME a \in Known, a \in alive, Drained(a) PROVE InOrder(later[a], got[a], Cursor(a), a)'
  <2>1. PICK s, g, c : s = later[a] /\ g = got[a] /\ c = Cursor(a) OBVIOUS
  <2>2. Cursor(a)' = c /\ c \in Int BY <1>8, <2>1, CursorMoves, EarTypes
  <2>3. InOrder(s, g, c, a) BY <1>8, <2>1 DEF PutOff
  <2>4. s \in Seq(DOMAIN facts) /\ g \in SUBSET Int BY <1>8, <2>1, EarTypes
  <2>5. a \notin halt /\ s # <<>> BY <1>8, <2>1 DEF Drained, Hearing, GoesOn
  <2>6. InOrder(Tail(s), g, c, a) /\ InOrder(Tail(s), g \cup {s[1]}, c, a) BY <2>2, <2>3, <2>4, <2>5, OrderOfRest
  <2>7. Tail(s) \in Seq(DOMAIN facts) BY <2>4, <2>5, HeadTailProperties
  <2>8. Does(a, s[1], Tail(s)) BY <1>8, <2>1 DEF Drained
  <2>9. ~Turns(facts[s[1]], a)
    <3>1. 1 \in DOMAIN s BY <2>4, <2>5, EmptySeq
    <3> QED BY <2>3, <3>1 DEF InOrder
  <2>10. ~PutsOff(facts[s[1]], a) BY <2>5, <2>9 DEF PutsOff, Held, Turns
  <2>11. later'[a] = Tail(s) /\ (got'[a] = g \/ got'[a] = g \cup {s[1]}) BY <2>1, <2>8, <2>10 DEF Does
  <2> QED BY <1>4, <1>8, <2>2, <2>6, <2>7, <2>11
<1>9. CASE a \in Known /\ \E x \in alive : (Heard(x) \/ Drained(x)) /\ \A y \in Known \ {x} : Spares(y)
  <2>1. PICK x \in alive : (Heard(x) \/ Drained(x)) /\ \A y \in Known \ {x} : Spares(y) BY <1>9
  <2>2. CASE x = a BY <1>7, <1>8, <1>9, <2>1, <2>2
  <2>3. CASE x # a
    <3>1. Spares(a) BY <1>9, <2>1, <2>3
    <3>2. Cursor(a)' = Cursor(a) /\ Cursor(a) \in Int BY <1>9, <2>1, <2>3, CursorMoves
    <3>3. Cursor(a) <= Cursor(a)' BY <3>2
    <3> QED BY <1>5, <1>9, <3>1, <3>2, <3>3
  <2> QED BY <2>2, <2>3
<1> QED BY <1>1, <1>3, <1>6, <1>9 DEF Step

LEMMA HeardAllStep == TypeOK /\ Recorded /\ Hearing /\ HeardAll /\ [Next]_vars => HeardAll'
<1> SUFFICES ASSUME TypeOK, Recorded, Hearing, HeardAll, [Next]_vars,
                    NEW a \in alive', a \notin over', NEW i \in (DOMAIN facts)',
                    Made(a)' < i, i <= Cursor(a)', Missable(i, a)'
             PROVE  i \in got'[a] \cup Range(later'[a])
  BY DEF HeardAll
<1>1. Tells /\ Grown /\ Step BY StepTells, TellsTypes, StepIs
<1>2. a \in Known' BY <1>1 DEF Step, Sets
<1>3. a \in Known /\ i \in 1 .. Len(facts) /\ Made(a) < i
  <2>1. i \in 1 .. Len(facts') BY <1>1 DEF Grown
  <2> QED BY <1>2, <2>1, HeardBefore
<1>4. PICK f : f = facts[i] OBVIOUS
<1>5. Missable(i, a) /\ Heeds(a, f) /\ f.kind \notin {"act", "wake"} /\ ~IsPause(f, a)
  <2>1. Missable(i, a) BY <1>1, <1>3, FactStays
  <2> QED BY <1>4, <2>1 DEF Missable
<1>6. ASSUME a \in alive, a \notin over, i <= Cursor(a) PROVE i \in got[a] \/ i \in Range(later[a])
  BY <1>1, <1>3, <1>5, <1>6 DEF HeardAll, Grown
<1>7. CASE Spares(a) /\ Cursor(a)' = Cursor(a)
  BY <1>6, <1>7 DEF Spares
<1>8. CASE Taken /\ Spares(a)
  <2>1. Cursor(a) = now /\ Cursor(a)' = (IF a \in left' THEN now ELSE now + 1) /\ now \in Nat
    BY <1>3, <1>8, CursorMoves
  <2>2. CASE a \in left' BY <1>7, <1>8, <2>1, <2>2
  <2>3. CASE a \notin left'
    <3>1. CASE i <= now BY <1>6, <1>8, <2>1, <3>1 DEF Spares
    <3>2. CASE i = now + 1
      <4>1. a \in alive BY <1>8 DEF Spares
      <4> QED BY <1>4, <1>5, <1>8, <2>3, <3>2, <4>1 DEF Taken, Ears
    <3> QED BY <1>3, <2>1, <2>3, <3>1, <3>2
  <2> QED BY <2>2, <2>3
<1>9. ASSUME a \in alive, Heard(a) \/ Drained(a) PROVE i \in got'[a] \/ i \in Range(later'[a])
  <2>1. a \notin over BY <1>9 DEF Heard, Drained, Does
  <2>2. ASSUME NEW q \in Seq(DOMAIN facts), Does(a, i, q) PROVE i \in got'[a] \/ i \in Range(later'[a])
    <3>1. i \in Range(Append(q, i))
      <4>1. i \in DOMAIN facts BY <1>1, <1>3 DEF Grown
      <4>2. Range(Append(q, i)) = Range(q) \cup {i} BY <4>1, RangeOfAppend
      <4> QED BY <4>2
    <3>2. \/ later'[a] = Append(q, i)
          \/ got'[a] = got[a] \cup {i}
      BY <1>4, <1>5, <2>1, <2>2 DEF Does
    <3> QED BY <3>1, <3>2
  <2>3. got[a] \subseteq got'[a] BY <1>9 DEF Heard, Drained, Does
  <2>4. later[a] \in Seq(DOMAIN facts) BY <1>3, EarTypes
  <2>5. CASE Heard(a) /\ i = now BY <2>2, <2>4, <2>5 DEF Heard
  <2>6. CASE ~(Heard(a) /\ i = now)
    <3>1. i <= Cursor(a)
      <4>1. Heard(a) => Cursor(a) = now - 1 /\ Cursor(a)' = now BY <1>3, <1>9, CursorMoves
      <4>2. Drained(a) => Cursor(a)' = Cursor(a) BY <1>3, <1>9, CursorMoves
      <4>3. now \in Nat BY <1>3, CursorMoves
      <4> QED BY <1>3, <1>9, <2>6, <4>1, <4>2, <4>3
    <3>2. CASE i \in got[a] BY <2>3, <3>2
    <3>3. CASE i \in Range(later[a])
      <4>1. \/ i \in Range(later'[a])
            \/ Drained(a) /\ i = later[a][1]
        BY <1>9, <3>3, StillPutOff
      <4>2. CASE Drained(a) /\ i = later[a][1]
        <5>1. Does(a, i, Tail(later[a])) /\ later[a] # <<>> BY <4>2 DEF Drained, Hearing, GoesOn
        <5>2. Tail(later[a]) \in Seq(DOMAIN facts) BY <1>3, <5>1, PutOffIs
        <5> QED BY <2>2, <5>1, <5>2
      <4> QED BY <4>1, <4>2
    <3> QED BY <1>6, <1>9, <2>1, <3>1, <3>2, <3>3
  <2> QED BY <2>5, <2>6
<1>10. CASE \E x \in alive : (Heard(x) \/ Drained(x)) /\ \A y \in Known \ {x} : Spares(y)
  <2>1. PICK x \in alive : (Heard(x) \/ Drained(x)) /\ \A y \in Known \ {x} : Spares(y) BY <1>10
  <2>2. CASE x = a BY <1>9, <2>1, <2>2
  <2>3. CASE x # a
    <3>1. Spares(a) BY <1>3, <2>1, <2>3
    <3>2. Cursor(a)' = Cursor(a) BY <1>3, <2>1, <2>3, CursorMoves
    <3> QED BY <1>7, <3>1, <3>2
  <2> QED BY <2>2, <2>3
<1>11. CASE (Taken \/ bus' = bus) /\ \A x \in Known : Spares(x)
  <2>1. bus' = bus => Cursor(a)' = Cursor(a) BY <1>3, CursorMoves
  <2> QED BY <1>3, <1>7, <1>8, <1>11, <2>1
<1> QED BY <1>1, <1>10, <1>11 DEF Step

LEMMA NothingMissedIs == TypeOK /\ Recorded /\ Hearing /\ PutOff /\ HeardAll => NothingMissed
<1> SUFFICES ASSUME TypeOK, Recorded, Hearing, PutOff, HeardAll, NEW a \in alive, a \notin over
             PROVE  /\ \A i \in got[a] : \A k \in DOMAIN later[a] : i < later[a][k]
                    /\ \A k, m \in DOMAIN later[a] : k < m => later[a][k] < later[a][m]
                    /\ Idle =>
                         {i \in Made(a) + 1 .. Len(facts) :
                            Heeds(a, facts[i]) /\ facts[i].kind \notin {"act", "wake"} /\ ~IsPause(facts[i], a)}
                           \subseteq got[a] \cup Range(later[a])
                    /\ Idle /\ later[a] # <<>> => a \in halt
  BY DEF NothingMissed
<1>1. InOrder(later[a], got[a], Cursor(a), a) BY DEF PutOff
<1>2. a \in Known BY DEF TypeOK
<1>3. Idle /\ later[a] # <<>> => a \in halt
  BY <1>2 DEF Idle, Hearing, GoesOn, Known
<1>4. ASSUME Idle, NEW i \in Made(a) + 1 .. Len(facts), Missable(i, a) PROVE i \in got[a] \cup Range(later[a])
  <2>1. Cursor(a) = Len(facts) /\ Len(facts) \in Nat BY <1>4 DEF Idle, Cursor, TypeOK
  <2>2. DOMAIN facts = 1 .. Len(facts) /\ Made(a) \in DOMAIN facts BY <1>2, MadeIs DEF TypeOK
  <2>3. i \in DOMAIN facts /\ Made(a) < i /\ i <= Cursor(a) BY <2>1, <2>2
  <2> QED BY <1>4, <2>3 DEF HeardAll
<1> QED BY <1>1, <1>3, <1>4 DEF InOrder, Missable

HearsInv == TypeOK /\ Recorded /\ Hearing /\ PutOff /\ HeardAll

LEMMA HearsInit == Init => HearsInv
<1>1. Init => PutOff /\ HeardAll BY DEF Init, PutOff, HeardAll
<1> QED BY <1>1, TypesInit DEF HearsInv

LEMMA HearsNext == HearsInv /\ [Next]_vars => HearsInv'
BY TypesStep, StepTells, RecordedStep, PutOffStep, HeardAllStep DEF HearsInv

\* An ear hears each fact that it heeds once, in record order, whatever pauses held it in between, and
\* what it put off waits no longer than a pause holds it (controlled of engine.py), however many the chains.
THEOREM HearsTheorem == Spec => []NothingMissed
<1>1. HearsInv => NothingMissed BY NothingMissedIs DEF HearsInv
<1> QED BY <1>1, HearsInit, HearsNext, PTL DEF Spec

-----------------------------------------------------------------------------
(* A pause holds what it is over, on a life of one chain.                    *)

\* A life of one chain. With two, paused looks only for the pauses of the chain of its act, though a
\* pause of an act of another chain may be over it: its ear hears those, and its birth does not.
OneChain == \A c, d \in Chains : c = d

\* A pause or a wake over an act tells whether a pause stands after it; another fact does not.
LEMMA StandsAfter ==
  ASSUME NEW a, NEW n \in Nat \ {0}
  PROVE  PauseStands(a, n + 1) <=> IF Turns(facts[n], a) THEN facts[n].kind = "pause" ELSE PauseStands(a, n)
<1>1. (n + 1) - 1 = n /\ n - 1 \in Nat OBVIOUS
<1>2. \A i \in 1 .. n : i \in 1 .. n - 1 \/ i = n OBVIOUS
<1>3. \A i \in 1 .. n - 1 : i \in 1 .. n /\ n \in i + 1 .. n OBVIOUS
<1>4. \A i \in 1 .. n - 1 : \A j \in i + 1 .. n : j \in i + 1 .. n - 1 \/ j = n OBVIOUS
<1>5. \A i \in 1 .. n - 1 : \A j \in i + 1 .. n - 1 : j \in i + 1 .. n OBVIOUS
<1>6. n + 1 .. n = {} /\ n \in 1 .. n OBVIOUS
<1>7. PauseStands(a, n + 1) <=> \E i \in 1 .. n : /\ facts[i].kind = "pause" /\ Covers(facts[i], a)
                                                  /\ \A j \in i + 1 .. n : ~(facts[j].kind = "wake" /\ Covers(facts[j], a))
  BY <1>1 DEF PauseStands
<1>8. PauseStands(a, n) <=> \E i \in 1 .. n - 1 : /\ facts[i].kind = "pause" /\ Covers(facts[i], a)
                                                  /\ \A j \in i + 1 .. n - 1 : ~(facts[j].kind = "wake" /\ Covers(facts[j], a))
  BY DEF PauseStands
<1>9. CASE facts[n].kind = "pause" /\ Covers(facts[n], a)
  BY <1>6, <1>7, <1>9 DEF Turns
<1>10. CASE facts[n].kind = "wake" /\ Covers(facts[n], a)
  BY <1>2, <1>3, <1>7, <1>10 DEF Turns
<1>11. CASE ~Turns(facts[n], a)
  <2>1. ~(facts[n].kind = "wake" /\ Covers(facts[n], a)) /\ ~(facts[n].kind = "pause" /\ Covers(facts[n], a))
    BY <1>11 DEF Turns
  <2>2. ASSUME PauseStands(a, n + 1) PROVE PauseStands(a, n)
    BY <1>2, <1>5, <1>7, <1>8, <2>1, <2>2
  <2>3. ASSUME PauseStands(a, n) PROVE PauseStands(a, n + 1)
    BY <1>3, <1>4, <1>7, <1>8, <2>1, <2>3
  <2> QED BY <1>11, <2>2, <2>3
<1> QED BY <1>9, <1>10, <1>11 DEF Turns

\* Whether a pause stood at a place of the record stays.
LEMMA StandsStay ==
  ASSUME TypeOK, Recorded, Tells, NEW a \in Known, NEW n \in Nat, n <= Len(facts) + 1
  PROVE  PauseStands(a, n)' <=> PauseStands(a, n)
<1>1. \A i \in 1 .. Len(facts) : facts'[i] = facts[i] /\ (Covers(facts[i], a)' <=> Covers(facts[i], a))
  BY FactStays
<1>2. Len(facts) \in Nat BY TellsTypes DEF Grown
<1>3. \A i \in 1 .. n - 1 : i \in 1 .. Len(facts) /\ \A j \in i + 1 .. n - 1 : j \in 1 .. Len(facts) BY <1>2
<1> QED BY <1>1, <1>3 DEF PauseStands

\* A pause that stood no longer stands after a wake.
LEMMA WakeBetween ==
  ASSUME NEW a, NEW i \in Nat, NEW n \in Nat, i <= n, PauseStands(a, i), ~PauseStands(a, n)
  PROVE  \E j \in i .. n - 1 : facts[j].kind = "wake" /\ Covers(facts[j], a)
<1>1. PICK p \in 1 .. i - 1 : /\ facts[p].kind = "pause" /\ Covers(facts[p], a)
                              /\ \A j \in p + 1 .. i - 1 : ~(facts[j].kind = "wake" /\ Covers(facts[j], a))
  BY DEF PauseStands
<1>2. p \in 1 .. n - 1 BY <1>1
<1>3. PICK j \in p + 1 .. n - 1 : facts[j].kind = "wake" /\ Covers(facts[j], a) BY <1>1, <1>2 DEF PauseStands
<1>4. j \notin p + 1 .. i - 1 BY <1>1, <1>3
<1>5. j \in i .. n - 1 BY <1>1, <1>3, <1>4
<1> QED BY <1>3, <1>5

\* What the ear of a new act takes of the record is whether a pause over it stands there.
LEMMA BornPaused ==
  ASSUME OneChain, TypeOK', Recorded', NEW a \in Known', Made(a)' = Len(facts')
  PROVE  Paused(a)' <=> PauseStands(a, Made(a))'
<1> DEFINE L == Len(facts')
           T(i) == facts'[i].kind \in {"pause", "wake"} /\ Covers(facts[i], a)'
<1>1. (DOMAIN facts)' = 1 .. L /\ L \in Nat BY DEF TypeOK
<1>2. L \in 1 .. L /\ facts'[L].kind = "act"
  <2>1. Made(a)' \in (DOMAIN facts)' /\ facts'[Made(a)'].kind = "act" BY DEF Recorded, Made
  <2> QED BY <1>1, <2>1
<1>3. \A n \in Chains \cup Known' : Scope(n)' \in Chains
  <2>1. ASSUME NEW n \in Known' PROVE Scope(n)' \in Chains
    <3>1. known' \in Seq(Forms) BY DEF TypeOK
    <3>2. known'[n] \in Forms BY <3>1 DEF Known
    <3>3. Scope(n)' = known'[n].scope BY DEF Scope
    <3> QED BY <3>2, <3>3 DEF Forms
  <2>2. ASSUME NEW n \in Chains, n \notin Known' PROVE Scope(n)' = n BY <2>2 DEF Scope
  <2> QED BY <2>1, <2>2
<1>4. \A i \in 1 .. L : Scope(facts[i].about)' = Scope(a)'
  <2>1. ASSUME NEW i \in 1 .. L PROVE Scope(facts[i].about)' = Scope(a)'
    <3>1. facts'[i].about \in Chains \cup Known' BY <1>1 DEF Recorded
    <3>2. PICK n \in Chains \cup Known' : n = facts'[i].about BY <3>1
    <3>3. Scope(n)' \in Chains /\ Scope(a)' \in Chains BY <1>3
    <3>4. Scope(n)' = Scope(a)' BY <3>3 DEF OneChain
    <3> QED BY <3>2, <3>4 DEF Scope
  <2> QED BY <2>1
<1>5. PausesSeen(a)' = {i \in 1 .. L : T(i)}
  <2>1. PausesSeen(a)' = {i \in (DOMAIN facts)' : /\ facts'[i].kind \in {"pause", "wake"}
                                                  /\ Scope(facts[i].about)' = Scope(a)' /\ Covers(facts[i], a)'}
    BY DEF PausesSeen
  <2> QED BY <1>1, <1>4, <2>1
<1>6. Paused(a)' <=> \E i \in 1 .. L : T(i) /\ facts'[i].kind = "pause" /\ \A j \in 1 .. L : T(j) /\ j > i => facts'[j].kind = "pause"
  BY <1>5 DEF Paused
<1>7. PauseStands(a, Made(a))' <=> \E i \in 1 .. L - 1 : /\ facts'[i].kind = "pause" /\ Covers(facts[i], a)'
                                                         /\ \A j \in i + 1 .. L - 1 : ~(facts'[j].kind = "wake" /\ Covers(facts[j], a)')
  BY DEF PauseStands
<1>8. \A i \in 1 .. L : i \in 1 .. L - 1 \/ i = L BY <1>1
<1>9. \A i \in 1 .. L - 1 : i \in 1 .. L /\ \A j \in i + 1 .. L - 1 : j \in 1 .. L /\ j > i BY <1>1
<1>10. \A i \in 1 .. L - 1 : \A j \in 1 .. L : j > i => j = L \/ j \in i + 1 .. L - 1 BY <1>1
<1>11. ASSUME Paused(a)' PROVE PauseStands(a, Made(a))'
  <2>1. PICK i \in 1 .. L : T(i) /\ facts'[i].kind = "pause" /\ \A j \in 1 .. L : T(j) /\ j > i => facts'[j].kind = "pause"
    BY <1>6, <1>11
  <2>2. i \in 1 .. L - 1 BY <1>2, <1>8, <2>1
  <2>3. \A j \in i + 1 .. L - 1 : ~(facts'[j].kind = "wake" /\ Covers(facts[j], a)') BY <1>9, <2>1, <2>2
  <2> QED BY <1>7, <2>1, <2>2, <2>3
<1>12. ASSUME PauseStands(a, Made(a))' PROVE Paused(a)'
  <2>1. PICK i \in 1 .. L - 1 : /\ facts'[i].kind = "pause" /\ Covers(facts[i], a)'
                                /\ \A j \in i + 1 .. L - 1 : ~(facts'[j].kind = "wake" /\ Covers(facts[j], a)')
    BY <1>7, <1>12
  <2>2. \A j \in 1 .. L : T(j) /\ j > i => facts'[j].kind = "pause" BY <1>2, <1>10, <2>1
  <2>3. i \in 1 .. L /\ T(i) BY <1>9, <2>1
  <2> QED BY <1>6, <2>1, <2>2, <2>3
<1> QED BY <1>11, <1>12

LEMMA HaltsStep == OneChain /\ TypeOK /\ Recorded /\ Hearing /\ PutOff /\ Halts /\ [Next]_vars => Halts'
<1> SUFFICES ASSUME OneChain, TypeOK, Recorded, Hearing, PutOff, Halts, [Next]_vars, NEW a \in alive', a \notin over'
             PROVE  \/ a \in halt' <=> PauseStands(a, Cursor(a) + 1)'
                    \/ Cursor(a)' < Made(a)' /\ (a \in halt' <=> PauseStands(a, Made(a))')
  BY DEF Halts
<1>1. Tells /\ Grown /\ Step BY StepTells, TellsTypes, StepIs
<1>2. TypeOK' /\ Recorded' BY <1>1, TypesStep, RecordedStep
<1>3. a \in Known' BY <1>1 DEF Step, Sets
<1>4. now \in Nat /\ now <= Len(facts) /\ Len(facts) \in Nat /\ DOMAIN facts = 1 .. Len(facts) BY <1>1 DEF TypeOK, Grown
<1>5. CASE a \notin Known
  <2>1. Made(a)' = Len(facts) + 1 /\ Len(facts') = Len(facts) + 1 BY <1>1, <1>3, <1>5, MadeStays
  <2>2. Begun(a) BY <1>1, <1>3, <1>5 DEF Step
  <2>3. Paused(a)' <=> PauseStands(a, Made(a))' BY <1>2, <1>3, <2>1, BornPaused
  <2>4. PICK n \in Nat : n = now' /\ n <= Len(facts)
    BY <1>1, <1>4 DEF Step, Taken, bus, Heard, Drained
  <2>5. Cursor(a)' = n \/ Cursor(a)' = n - 1 BY <2>4 DEF Cursor
  <2>6. Cursor(a)' < Made(a)' BY <1>4, <2>1, <2>4, <2>5
  <2> QED BY <2>2, <2>3, <2>6 DEF Begun
<1>6. ASSUME a \in Known
      PROVE  /\ Made(a)' = Made(a) /\ Made(a) \in 1 .. Len(facts) /\ ~Turns(facts[Made(a)], a)
             /\ \A n \in Nat : n <= Len(facts) + 1 => (PauseStands(a, n)' <=> PauseStands(a, n))
             /\ Cursor(a) \in Int /\ Cursor(a) + 1 \in Nat /\ Cursor(a) <= now
  <2>1. Made(a)' = Made(a) BY <1>1, <1>3, <1>6, MadeStays
  <2>2. Made(a) \in 1 .. Len(facts) /\ facts[Made(a)].kind = "act" BY <1>4, <1>6, MadeIs
  <2>3. a \in left => now \in 1 .. Len(facts) BY <1>4 DEF Hearing
  <2>4. Cursor(a) \in Int /\ Cursor(a) + 1 \in Nat /\ Cursor(a) <= now BY <1>4, <2>3 DEF Cursor
  <2>5. \A n \in Nat : n <= Len(facts) + 1 => (PauseStands(a, n)' <=> PauseStands(a, n)) BY <1>1, <1>6, StandsStay
  <2> QED BY <2>1, <2>2, <2>4, <2>5 DEF Turns
<1>7. ASSUME a \in Known, a \in alive, a \notin over
      PROVE  \/ a \in halt <=> PauseStands(a, Cursor(a) + 1)
             \/ Cursor(a) < Made(a) /\ (a \in halt <=> PauseStands(a, Made(a)))
  BY <1>7 DEF Halts
<1>8. ASSUME a \in Known, a \in alive, a \notin over, a \in halt' <=> a \in halt, Cursor(a)' = Cursor(a)
      PROVE  \/ a \in halt' <=> PauseStands(a, Cursor(a) + 1)'
             \/ Cursor(a)' < Made(a)' /\ (a \in halt' <=> PauseStands(a, Made(a))')
  <2>1. PICK c, m : c = Cursor(a) /\ m = Made(a) OBVIOUS
  <2>2. /\ m \in 1 .. Len(facts) /\ c \in Int /\ c + 1 \in Nat /\ c <= now /\ c = Cursor(a)' /\ m = Made(a)'
    BY <1>6, <1>8, <2>1
  <2>3. (PauseStands(a, c + 1)' <=> PauseStands(a, c + 1)) /\ (PauseStands(a, m)' <=> PauseStands(a, m))
    BY <1>4, <1>6, <1>8, <2>2
  <2>4. (a \in halt <=> PauseStands(a, c + 1)) \/ (c < m /\ (a \in halt <=> PauseStands(a, m)))
    BY <1>7, <1>8, <2>1
  <2>5. (a \in halt' <=> PauseStands(a, c + 1)') \/ (c < m /\ (a \in halt' <=> PauseStands(a, m)'))
    BY <1>8, <2>3, <2>4
  <2> QED BY <2>2, <2>5
\* An ear hears the next fact, or none of its own is next.
<1>9. ASSUME a \in Known, a \in alive, a \notin over, NEW n \in 1 .. Len(facts), Cursor(a) = n - 1, Cursor(a)' = n,
             a \in halt' <=> IF Turns(facts[n], a) THEN facts[n].kind = "pause" ELSE a \in halt
      PROVE  \/ a \in halt' <=> PauseStands(a, Cursor(a) + 1)'
             \/ Cursor(a)' < Made(a)' /\ (a \in halt' <=> PauseStands(a, Made(a))')
  <2>1. PICK m : m = Made(a) OBVIOUS
  <2>2. m \in 1 .. Len(facts) /\ m = Made(a)' /\ ~Turns(facts[m], a) BY <1>6, <1>9, <2>1
  <2>3. PauseStands(a, n + 1) <=> IF Turns(facts[n], a) THEN facts[n].kind = "pause" ELSE PauseStands(a, n)
    <3>1. n \in Nat \ {0} OBVIOUS
    <3> QED BY <3>1, StandsAfter
  <2>4. (PauseStands(a, n + 1)' <=> PauseStands(a, n + 1)) /\ (PauseStands(a, m)' <=> PauseStands(a, m))
    BY <1>4, <1>6, <1>9, <2>2
  <2>5. (n - 1) + 1 = n OBVIOUS
  <2>6. (a \in halt <=> PauseStands(a, n)) \/ (n - 1 < m /\ (a \in halt <=> PauseStands(a, m)))
    <3>1. Cursor(a) + 1 = n BY <1>9, <2>5
    <3> QED BY <1>7, <1>9, <2>1, <3>1
  <2>7. Turns(facts[n], a) => (a \in halt' <=> PauseStands(a, n + 1)') BY <1>9, <2>3, <2>4
  <2>8. CASE ~Turns(facts[n], a)
    <3>1. CASE a \in halt <=> PauseStands(a, n) BY <1>9, <2>3, <2>4, <2>8, <3>1
    <3>2. CASE n - 1 < m /\ (a \in halt <=> PauseStands(a, m))
      <4>1. CASE n = m BY <1>9, <2>3, <2>4, <2>8, <3>2, <4>1
      <4>2. CASE n # m
        <5>1. n < m BY <2>2, <3>2, <4>2
        <5> QED BY <1>9, <2>2, <2>4, <2>8, <3>2, <5>1
      <4> QED BY <4>1, <4>2
    <3> QED BY <2>6, <3>1, <3>2
  <2> QED BY <1>9, <2>7, <2>8
<1>10. CASE a \in Known /\ Spares(a) /\ Cursor(a)' = Cursor(a) BY <1>8, <1>10 DEF Spares
<1>11. CASE a \in Known /\ Spares(a) /\ Taken
  <2>1. Cursor(a) = now /\ Cursor(a)' = IF a \in left' THEN now ELSE now + 1 BY <1>11, CursorMoves
  <2>2. CASE a \in left' BY <1>10, <1>11, <2>1, <2>2
  <2>3. CASE a \notin left'
    <3>1. a \in alive /\ a \notin over /\ (a \in halt' <=> a \in halt) BY <1>11 DEF Spares
    <3>2. ~Turns(facts[now + 1], a)
      <4>1. ASSUME Turns(facts[now + 1], a) PROVE a \in left'
        <5>1. Heeds(a, facts[now + 1]) /\ facts[now + 1].kind # "act" BY <4>1 DEF Turns, Heeds, Controls
        <5> QED BY <1>11, <3>1, <5>1 DEF Taken, Ears
      <4> QED BY <2>3, <4>1
    <3>3. PICK n : n = now + 1 OBVIOUS
    <3>4. n \in 1 .. Len(facts) /\ Cursor(a) = n - 1 /\ Cursor(a)' = n BY <1>4, <1>11, <2>1, <2>3, <3>3 DEF Taken
    <3> QED BY <1>9, <1>11, <3>1, <3>2, <3>3, <3>4
  <2> QED BY <2>2, <2>3
<1>12. ASSUME a \in Known, a \in alive, Heard(a)
       PROVE  \/ a \in halt' <=> PauseStands(a, Cursor(a) + 1)'
              \/ Cursor(a)' < Made(a)' /\ (a \in halt' <=> PauseStands(a, Made(a))')
  <2>1. PICK n : n = now OBVIOUS
  <2>2. n \in 1 .. Len(facts) BY <1>4, <1>12, <2>1 DEF Heard, Hearing
  <2>3. Cursor(a) = n - 1 /\ Cursor(a)' = n BY <1>12, <2>1, CursorMoves
  <2>4. Does(a, n, later[a]) BY <1>12, <2>1 DEF Heard
  <2>5. a \notin over BY <2>4 DEF Does
  <2>6. a \in halt' <=> IF Turns(facts[n], a) THEN facts[n].kind = "pause" ELSE a \in halt
    <3>1. CASE IsPause(facts[n], a) /\ a \in halt' BY <3>1 DEF IsPause, Turns
    <3>2. CASE ~IsPause(facts[n], a) /\ PutsOff(facts[n], a) /\ (a \in halt' <=> a \in halt)
      BY <3>2, TurnsNotPutOff
    <3>3. CASE ~IsPause(facts[n], a) /\ (a \in halt' <=> a \in Held(facts[n], a))
      BY <3>3 DEF IsPause, Turns, Held
    <3> QED BY <2>4, <3>1, <3>2, <3>3 DEF Does
  <2> QED BY <1>9, <1>12, <2>2, <2>3, <2>5, <2>6
<1>13. ASSUME a \in Known, a \in alive, Drained(a)
       PROVE  \/ a \in halt' <=> PauseStands(a, Cursor(a) + 1)'
              \/ Cursor(a)' < Made(a)' /\ (a \in halt' <=> PauseStands(a, Made(a))')
  <2>1. PICK s : s = later[a] OBVIOUS
  <2>2. Cursor(a)' = Cursor(a) BY <1>13, CursorMoves
  <2>3. Does(a, s[1], Tail(s)) /\ s # <<>> /\ a \notin halt BY <1>13, <2>1 DEF Drained, Hearing, GoesOn
  <2>4. a \notin over BY <2>3 DEF Does
  <2>5. s \in Seq(DOMAIN facts) BY <1>13, <2>1, EarTypes
  <2>6. 1 \in DOMAIN s BY <2>3, <2>5, EmptySeq
  <2>7. ~Turns(facts[s[1]], a) BY <1>13, <2>1, <2>6 DEF PutOff, InOrder
  <2>8. a \in halt' <=> a \in halt BY <2>3, <2>7 DEF Does, IsPause, Turns, Held
  <2> QED BY <1>8, <1>13, <2>2, <2>4, <2>8
<1>14. CASE a \in Known /\ \E x \in alive : (Heard(x) \/ Drained(x)) /\ \A y \in Known \ {x} : Spares(y)
  <2>1. PICK x \in alive : (Heard(x) \/ Drained(x)) /\ \A y \in Known \ {x} : Spares(y) BY <1>14
  <2>2. CASE x = a BY <1>12, <1>13, <1>14, <2>1, <2>2
  <2>3. CASE x # a
    <3>1. Spares(a) BY <1>14, <2>1, <2>3
    <3>2. Cursor(a)' = Cursor(a) BY <1>14, <2>1, <2>3, CursorMoves
    <3> QED BY <1>10, <1>14, <3>1, <3>2
  <2> QED BY <2>2, <2>3
<1>15. CASE a \in Known /\ (Taken \/ bus' = bus) /\ \A x \in Known : Spares(x)
  <2>1. bus' = bus => Cursor(a)' = Cursor(a) BY <1>15, CursorMoves
  <2> QED BY <1>10, <1>11, <1>15, <2>1
<1> QED BY <1>1, <1>5, <1>14, <1>15 DEF Step

LEMMA PauseHoldsStep == TypeOK /\ Recorded /\ Hearing /\ PutOff /\ Halts /\ PauseHolds /\ [Next]_vars => PauseHolds'
<1> SUFFICES ASSUME TypeOK, Recorded, Hearing, PutOff, Halts, PauseHolds, [Next]_vars,
                    NEW a \in alive', NEW i \in got'[a], PauseStands(a, i)'
             PROVE  \E j \in i + 1 .. Len(facts') : facts'[j].kind = "wake" /\ Covers(facts[j], a)'
  BY DEF PauseHolds
<1>1. Tells /\ Grown /\ Step BY StepTells, TellsTypes, StepIs
<1>2. a \in Known' BY <1>1 DEF Step, Sets
<1>3. Len(facts) \in Nat /\ DOMAIN facts = 1 .. Len(facts) /\ Len(facts) <= Len(facts') /\ Len(facts') \in Nat
  BY <1>1 DEF Grown
<1>4. a \in Known
  <2>1. CASE a \notin Known
    <3>1. a \in Acts BY <1>1, <1>2, TellsTypes, ControlAssumption DEF Known, Acts, Grown
    <3>2. got'[a] = {} BY <1>1, <1>2, <2>1, <3>1 DEF Step, Begun, Hearing
    <3> QED BY <3>2
  <2> QED BY <2>1
\* It is enough that the record of before holds the wake.
<1>5. ASSUME i \in 1 .. Len(facts), \E j \in i + 1 .. Len(facts) : facts[j].kind = "wake" /\ Covers(facts[j], a)
      PROVE  \E j \in i + 1 .. Len(facts') : facts'[j].kind = "wake" /\ Covers(facts[j], a)'
  <2>1. PICK j \in i + 1 .. Len(facts) : facts[j].kind = "wake" /\ Covers(facts[j], a) BY <1>5
  <2>2. j \in 1 .. Len(facts) /\ j \in i + 1 .. Len(facts') BY <1>3, <1>5, <2>1
  <2>3. facts'[j].kind = "wake" /\ Covers(facts[j], a)' BY <1>1, <1>4, <2>1, <2>2, FactStays
  <2> QED BY <2>2, <2>3
<1>6. ASSUME NEW n \in 1 .. Len(facts), i = n PROVE PauseStands(a, n)
  <2>1. PauseStands(a, n)' BY <1>6
  <2> QED BY <1>1, <1>3, <1>4, <2>1, StandsStay
<1>7. CASE a \in alive /\ i \in got[a]
  <2>1. i \in 1 .. Len(facts) BY <1>3, <1>4, <1>7, EarTypes
  <2>2. PauseStands(a, i) BY <1>6, <2>1
  <2> QED BY <1>5, <1>7, <2>1, <2>2 DEF PauseHolds
<1>8. ASSUME a \in alive, a \notin over, a \notin halt, i \in 1 .. Len(facts), i <= Cursor(a) + 1, facts[i].kind # "wake"
      PROVE  \E j \in i + 1 .. Len(facts') : facts'[j].kind = "wake" /\ Covers(facts[j], a)'
  <2>1. PauseStands(a, i) BY <1>6, <1>8
  <2>2. Cursor(a) \in Int /\ Cursor(a) <= Len(facts) BY <1>3, <1>4, CursorMoves
  <2>3. Made(a) \in 1 .. Len(facts) BY <1>3, <1>4, MadeIs
  <2>4. \E n \in Nat : i <= n /\ n <= Len(facts) + 1 /\ ~PauseStands(a, n)
    <3>1. CASE ~PauseStands(a, Cursor(a) + 1)
      <4>1. Cursor(a) + 1 \in Nat /\ Cursor(a) + 1 <= Len(facts) + 1 BY <1>3, <1>8, <2>2
      <4> QED BY <1>8, <3>1, <4>1
    <3>2. CASE Cursor(a) < Made(a) /\ ~PauseStands(a, Made(a))
      <4>1. Made(a) \in Nat /\ i <= Made(a) /\ Made(a) <= Len(facts) + 1 BY <1>3, <1>8, <2>2, <2>3, <3>2
      <4> QED BY <3>2, <4>1
    <3> QED BY <1>8, <3>1, <3>2 DEF Halts
  <2>5. PICK n \in Nat : i <= n /\ n <= Len(facts) + 1 /\ ~PauseStands(a, n) BY <2>4
  <2>6. PICK j \in i .. n - 1 : facts[j].kind = "wake" /\ Covers(facts[j], a)
    <3>1. i \in Nat BY <1>8
    <3> QED BY <2>1, <2>5, <3>1, WakeBetween
  <2>7. j # i BY <1>8, <2>6
  <2>8. j \in i + 1 .. Len(facts) BY <1>3, <1>8, <2>5, <2>6, <2>7
  <2> QED BY <1>5, <1>8, <2>6, <2>8
<1>9. CASE Spares(a) BY <1>7, <1>9 DEF Spares
<1>10. ASSUME a \in alive, NEW k, NEW q, Does(a, k, q), i \notin got[a]
       PROVE  i = k /\ a \notin over /\ a \notin halt /\ facts[i].kind # "wake"
  <2>1. i = k /\ a \notin over /\ ~PutsOff(facts[k], a) /\ facts[k].kind \notin {"act", "wake"} BY <1>10 DEF Does
  <2> QED BY <2>1 DEF PutsOff, Held
<1>11. CASE a \in alive /\ Heard(a) /\ i \notin got[a]
  <2>1. i = now /\ a \notin over /\ a \notin halt /\ facts[i].kind # "wake" BY <1>10, <1>11 DEF Heard
  <2>2. i \in 1 .. Len(facts) /\ Cursor(a) = i - 1 BY <1>3, <1>4, <1>11, <2>1, CursorMoves DEF Heard, Hearing
  <2>3. i <= Cursor(a) + 1 BY <2>2
  <2> QED BY <1>8, <1>11, <2>1, <2>2, <2>3
<1>12. CASE a \in alive /\ Drained(a) /\ i \notin got[a]
  <2>1. i = later[a][1] /\ a \notin over /\ a \notin halt /\ facts[i].kind # "wake" BY <1>10, <1>12 DEF Drained
  <2>2. later[a] # <<>> /\ later[a] \in Seq(DOMAIN facts) BY <1>4, <1>12, EarTypes DEF Drained, Hearing, GoesOn
  <2>3. 1 \in DOMAIN later[a] BY <2>2, EmptySeq
  <2>4. i <= Cursor(a) BY <1>12, <2>1, <2>3 DEF PutOff, InOrder
  <2>5. i \in 1 .. Len(facts) BY <1>3, <2>1, <2>2, <2>3, ElementOfSeq
  <2>6. i <= Cursor(a) + 1 BY <1>4, <2>4, <2>5, EarTypes
  <2> QED BY <1>8, <1>12, <2>1, <2>5, <2>6
<1> QED BY <1>1, <1>4, <1>7, <1>9, <1>11, <1>12 DEF Step

\* When the bus is still each ear heard all, so what holds it is what the record says.
LEMMA HaltsIs == TypeOK /\ Recorded /\ Hearing /\ Halts => HaltIsThePause
<1> SUFFICES ASSUME TypeOK, Recorded, Hearing, Halts, Idle, NEW a \in alive, a \notin over
             PROVE  a \in halt <=> PauseStands(a, Len(facts) + 1)
  BY DEF HaltIsThePause
<1>1. a \in Known BY DEF TypeOK
<1>2. Cursor(a) = Len(facts) /\ Len(facts) \in Nat BY DEF Idle, Cursor, TypeOK
<1>3. Made(a) \in 1 .. Len(facts)
  <2>1. DOMAIN facts = 1 .. Len(facts) BY DEF TypeOK
  <2> QED BY <1>1, <2>1, MadeIs
<1>4. ~(Cursor(a) < Made(a)) BY <1>2, <1>3
<1> QED BY <1>2, <1>4 DEF Halts

PausesInv == HearsInv /\ Halts /\ PauseHolds

\* On a life of one chain a pause holds what it is over, and nothing else, until its wake, and loses
\* none of it (pause, wake and controlled of engine.py).
THEOREM PausesTheorem == OneChain => (Spec => []PausesHold)
<1> SUFFICES ASSUME OneChain PROVE Spec => []PausesHold
  OBVIOUS
<1>1. Init => PausesInv
  <2>1. Init => Halts /\ PauseHolds BY DEF Init, Halts, PauseHolds
  <2> QED BY <2>1, HearsInit DEF PausesInv
<1>2. PausesInv /\ [Next]_vars => PausesInv'
  BY HearsNext, HaltsStep, PauseHoldsStep DEF PausesInv, HearsInv
<1>3. PausesInv => PausesHold
  BY HaltsIs, NothingMissedIs DEF PausesInv, HearsInv, PausesHold
<1> QED BY <1>1, <1>2, <1>3, PTL DEF Spec
=============================================================================
