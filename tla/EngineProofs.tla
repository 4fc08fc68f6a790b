---------------------------- MODULE EngineProofs ----------------------------
(***************************************************************************)
(* Proofs about the parts of the engine beside its controls. Each part has   *)
(* an inductive invariant of its own, for the steps of the others leave its  *)
(* variables as they are.                                                   *)
(***************************************************************************)
EXTENDS MCEngine, TLAPS, SequenceTheorems

-----------------------------------------------------------------------------
(* The bus.                                                                 *)

\* The ears that hear below a frame of the stack, whether a fact is still to dispatch, and whether an
\* ear heard it.
HearersBelow(frames, n) == {frames[k].who : k \in {i \in DOMAIN frames : i < n /\ frames[i].kind = "hear"}}
Logged(f) == \E k \in DOMAIN log : log[k] = f
WasHeard(e, f) == \E k \in DOMAIN heard[e] : heard[e][k] = f

BusTypes ==
  /\ B!TypeOK
  /\ alive \cap B!Acts \subseteq B!Made
  /\ \A f \in 1 .. Len(facts) : facts[f].about \in B!Made \cup B!Outsides
  /\ done \in [B!Acts -> Nat] /\ (\A a \in B!Acts : done[a] <= Len(facts))
  /\ heard \in [B!Ears -> Seq(Nat)] /\ born \in [B!Ears -> Nat]
  /\ left \in [fact : Nat, ears : SUBSET B!Ears]

\* An act that is put to the ears waits in the log, was put to no ear that spoke, and to each of the outside that did
\* not; it has no ear yet, and each of the outside has its turn after.
PutFrame(i) ==
  LET f == stack[i].fact IN
  /\ Logged(f) /\ facts[f].kind = "act" /\ facts[f].about = stack[i].who
  /\ had[f] \cap HearersBelow(stack, i) = {} /\ B!Outsides \ HearersBelow(stack, i) \subseteq had[f]
  /\ stack[i].kind = "put" => stack[i].who \notin alive /\ \A e \in B!Outsides : ~WasHeard(e, f)
  /\ stack[i].kind = "offer" => stack[i].todo \subseteq B!Outsides /\ \A e \in stack[i].todo : ~WasHeard(e, f)

\* An ear that hears lives, and hears in one frame; an act is put in one frame.
Framed ==
  /\ \A i \in DOMAIN stack : stack[i].kind = "hear" => stack[i].who \in alive
  /\ \A i, j \in DOMAIN stack :
       i # j /\ (stack[i].kind = "hear") = (stack[j].kind = "hear") => stack[i].who # stack[j].who
  /\ \A i \in DOMAIN stack : stack[i].kind # "hear" => PutFrame(i)

\* The log is in the order said, after the fact that is dispatched.
LogInOrder ==
  /\ left.ears # {} => left.fact # 0
  /\ \A i, j \in DOMAIN log : i < j => log[i] < log[j]
  /\ \A i \in DOMAIN log : left.fact < log[i]

\* An ear that heard a fact of the log was marked, and one that is still to hear the fact dispatched did not hear it.
HeardSoFar ==
  /\ B!HeardOnce /\ B!HeardInOrder
  /\ \A e \in B!Ears : \A k \in DOMAIN log : WasHeard(e, log[k]) => e \in had[log[k]]
  /\ \A e \in left.ears : ~WasHeard(e, left.fact)
  /\ \A e \in B!Ears : \A i \in DOMAIN heard[e] : facts[heard[e][i]].kind # "act" => heard[e][i] <= left.fact

\* A fact that an ear waits for and did not hear is still to come to it.
Awaited(e, f) ==
  \/ e \notin wide \cup B!Named(facts[f])
  \/ WasHeard(e, f)
  \/ Logged(f) /\ e \notin had[f]
  \/ left.fact = f /\ e \in left.ears
  \/ facts[f].kind = "act" /\ (facts[f].about = e \/ (e \in B!Outsides /\ facts[f].about \in taken))
  \/ /\ e \in B!Outsides
     /\ \E i \in DOMAIN stack : /\ stack[i].kind # "hear" /\ stack[i].fact = f
                                /\ stack[i].kind = "put" \/ e \in stack[i].todo

StillToHear == \A e \in alive : \A f \in 1 .. Len(facts) : f > born[e] => Awaited(e, f)

\* An act that is not taken has its turns to come, or an ear of the outside that it was not put to.
TurnsLeft(f) ==
  \/ B!Outsides \ had[f] # {}
  \/ \E i \in DOMAIN stack : stack[i].kind # "hear" /\ stack[i].fact = f

StillToTake == \A f \in 1 .. Len(facts) : facts[f].kind = "act" /\ facts[f].about \notin taken => TurnsLeft(f)

BusInv == BusTypes /\ Framed /\ LogInOrder /\ HeardSoFar /\ StillToHear /\ StillToTake

LEMMA SeqForms ==
  ASSUME NEW Elems, NEW s \in Seq(Elems)
  PROVE  Len(s) \in Nat /\ DOMAIN s = 1 .. Len(s) /\ \A i \in 1 .. Len(s) : s[i] \in Elems
OBVIOUS

LEMMA Appended ==
  ASSUME NEW Elems, NEW s \in Seq(Elems), NEW x \in Elems, NEW t, t = Append(s, x)
  PROVE  /\ t \in Seq(Elems) /\ Len(t) = Len(s) + 1 /\ t[Len(s) + 1] = x /\ \A i \in 1 .. Len(s) : t[i] = s[i]
         /\ DOMAIN t = 1 .. Len(s) + 1 /\ Len(s) \in Nat
OBVIOUS

LEMMA Popped ==
  ASSUME NEW Elems, NEW s \in Seq(Elems), s # <<>>, NEW t, t = SubSeq(s, 1, Len(s) - 1)
  PROVE  /\ t \in Seq(Elems) /\ Len(t) = Len(s) - 1 /\ (\A i \in 1 .. Len(s) - 1 : t[i] = s[i])
         /\ DOMAIN t = 1 .. Len(s) - 1 /\ Len(s) \in Nat /\ Len(s) >= 1 /\ s[Len(s)] \in Elems
<1>1. Len(s) \in Nat /\ Len(s) >= 1 BY EmptySeq
<1>2. 1 \in Int /\ Len(s) - 1 \in Int /\ \A i \in 1 .. Len(s) - 1 : s[i] \in Elems BY <1>1
<1>3. /\ t \in Seq(Elems) /\ Len(t) = IF 1 <= Len(s) - 1 THEN (Len(s) - 1) - 1 + 1 ELSE 0
      /\ \A i \in 1 .. (Len(s) - 1) - 1 + 1 : t[i] = s[1 + i - 1]
  BY <1>2, SubSeqProperties
<1>4. DOMAIN t = 1 .. Len(t) BY <1>3
<1>5. s[Len(s)] \in Elems BY <1>1
<1>6. Len(t) = Len(s) - 1
  <2> DEFINE m == Len(s) - 1
  <2>1. m \in Nat /\ Len(t) = IF 1 <= m THEN m - 1 + 1 ELSE 0 BY <1>1, <1>3
  <2> HIDE DEF m
  <2>2. Len(t) = m BY <2>1
  <2> QED BY <2>2 DEF m
<1>7. ASSUME NEW i \in 1 .. Len(s) - 1 PROVE t[i] = s[i]
  <2>1. i \in 1 .. (Len(s) - 1) - 1 + 1 /\ 1 + i - 1 = i BY <1>1
  <2> QED BY <1>3, <2>1
<1>8. t \in Seq(Elems) BY <1>3
<1> QED BY <1>1, <1>4, <1>5, <1>6, <1>7, <1>8

\* What the types say, without the sets of records.
LEMMA BusForms ==
  ASSUME BusTypes
  PROVE  /\ made \in Seq(B!MadeActs) /\ facts \in Seq(B!Facts) /\ had \in Seq(SUBSET B!Ears) /\ Len(had) = Len(facts)
         /\ log \in Seq(1 .. Len(facts)) /\ stack \in Seq(B!Frames) /\ Len(made) \in Nat /\ Len(facts) \in Nat
         /\ Len(log) \in Nat /\ Len(stack) \in Nat /\ Len(made) <= MaxActs
         /\ DOMAIN facts = 1 .. Len(facts) /\ DOMAIN had = 1 .. Len(facts) /\ DOMAIN log = 1 .. Len(log)
         /\ DOMAIN stack = 1 .. Len(stack) /\ DOMAIN made = 1 .. Len(made)
<1>1. /\ made \in Seq(B!MadeActs) /\ facts \in Seq(B!Facts) /\ had \in Seq(SUBSET B!Ears) /\ Len(had) = Len(facts)
      /\ log \in Seq(1 .. Len(facts)) /\ stack \in Seq(B!Frames) /\ Len(made) <= MaxActs
  BY DEF BusTypes, B!TypeOK
<1>2. Len(made) \in Nat /\ Len(facts) \in Nat /\ Len(log) \in Nat /\ Len(stack) \in Nat BY <1>1
<1>3. DOMAIN facts = 1 .. Len(facts) /\ DOMAIN log = 1 .. Len(log) /\ DOMAIN stack = 1 .. Len(stack) /\ DOMAIN made = 1 .. Len(made)
  BY <1>1
<1>4. DOMAIN had = 1 .. Len(had) BY <1>1
<1> QED BY <1>1, <1>2, <1>3, <1>4

LEMMA EarNumbers ==
  /\ Outside \in Nat /\ MaxActs \in Nat /\ MaxSaid \in Nat /\ MaxDeaths \in Nat
  /\ \A e : e \in B!Ears <=> e \in B!Acts \/ e \in B!Outsides
  /\ \A e : ~(e \in B!Acts /\ e \in B!Outsides)
  /\ \A e \in B!Ears : e \in Nat /\ e # 0
  /\ \A e \in B!Acts : e \in Nat /\ 0 < e /\ e <= MaxActs
  /\ \A e \in Nat : 0 < e /\ e <= MaxActs => e \in B!Acts
<1>1. Outside \in Nat /\ MaxActs \in Nat /\ MaxSaid \in Nat /\ MaxDeaths \in Nat BY EngineAssumption DEF B!BusAssumption
<1> QED BY <1>1 DEF B!Ears, B!Acts, B!Outsides

LEMMA FrameForms ==
  ASSUME NEW f \in B!Frames
  PROVE  /\ f.kind \in {"hear", "put", "offer"} /\ f.who \in B!Ears /\ f.fact \in Nat /\ f.todo \subseteq B!Ears
         /\ f.kind # "hear" => f.who \in B!Acts
         /\ f = [kind |-> f.kind, who |-> f.who, fact |-> f.fact, todo |-> f.todo]
BY EarNumbers DEF B!Frames

LEMMA HearFrame ==
  ASSUME NEW e \in B!Ears, NEW n \in Nat
  PROVE  [kind |-> "hear", who |-> e, fact |-> n, todo |-> {}] \in B!Frames
BY DEF B!Frames

LEMMA ActFrame ==
  ASSUME NEW a \in B!Acts, NEW n \in Nat, NEW ears \in SUBSET B!Ears, NEW kind \in {"put", "offer"}
  PROVE  [kind |-> kind, who |-> a, fact |-> n, todo |-> ears] \in B!Frames
BY DEF B!Frames

LEMMA FactForms ==
  ASSUME NEW f \in B!Facts
  PROVE  f.kind \in B!Kinds /\ f.about \in B!Ears /\ f.by \in B!Makers
BY DEF B!Facts

LEMMA HearersSame ==
  ASSUME NEW s, NEW t, NEW n, \A i \in DOMAIN s : i < n => i \in DOMAIN t /\ t[i] = s[i],
         \A i \in DOMAIN t : i < n => i \in DOMAIN s
  PROVE  HearersBelow(t, n) = HearersBelow(s, n)
BY DEF HearersBelow

LEMMA BusyBelow ==
  ASSUME BusTypes
  PROVE  B!Busy = HearersBelow(stack, Len(stack) + 1)
<1>1. DOMAIN stack = 1 .. Len(stack) /\ Len(stack) \in Nat BY BusForms
<1>2. \A i \in DOMAIN stack : i < Len(stack) + 1 BY <1>1
<1> QED BY <1>2 DEF B!Busy, HearersBelow

LEMMA BusyBelowTop ==
  ASSUME BusTypes, stack # <<>>, B!Top.kind # "hear"
  PROVE  B!Busy = HearersBelow(stack, Len(stack))
<1>1. DOMAIN stack = 1 .. Len(stack) /\ Len(stack) \in Nat BY BusForms
<1>2. stack[Len(stack)].kind # "hear" BY DEF B!Top
<1>3. \A i \in DOMAIN stack : stack[i].kind = "hear" => i < Len(stack) BY <1>1, <1>2
<1> QED BY <1>3 DEF B!Busy, HearersBelow

LEMMA NamedStays ==
  ASSUME BusTypes, NEW f \in 1 .. Len(facts), facts'[f] = facts[f],
         \/ made' = made
         \/ Len(made) < MaxActs /\ \E x \in B!MadeActs : made' = Append(made, x)
  PROVE  B!Named(facts[f])' = B!Named(facts[f])
<1>1. made \in Seq(B!MadeActs) /\ Len(made) \in Nat BY BusForms
<1>2. facts[f].about \in B!Made \cup B!Outsides BY DEF BusTypes
<1>3. CASE made' = made BY <1>3 DEF B!Named, B!Made
<1>4. CASE Len(made) < MaxActs /\ \E x \in B!MadeActs : made' = Append(made, x)
  <2>1. Len(made') = Len(made) + 1 /\ \A a \in 1 .. Len(made) : made'[a] = made[a] BY <1>1, <1>4, Appended
  <2>2. B!Made' = 1 .. Len(made) + 1 BY <2>1 DEF B!Made
  <2>3. CASE facts[f].about \in B!Made
    <3>1. facts[f].about \in B!Made' /\ made'[facts[f].about] = made[facts[f].about] BY <1>1, <2>1, <2>2, <2>3 DEF B!Made
    <3> QED BY <2>3, <3>1 DEF B!Named
  <2>4. CASE facts[f].about \in B!Outsides
    <3>1. facts[f].about \notin B!Made' /\ facts[f].about \notin B!Made
      BY <1>1, <1>4, <2>2, <2>4, EarNumbers DEF B!Made, B!Outsides
    <3>2. {facts[f].about} \cap B!Made = {} /\ ({facts[f].about} \cap B!Made)' = {} BY <3>1
    <3>3. B!Named(facts[f]) = {facts[f].about} BY <3>2 DEF B!Named
    <3>4. B!Named(facts[f])' = {facts[f].about} BY <3>2 DEF B!Named
    <3> QED BY <3>3, <3>4
  <2> QED BY <1>2, <2>3, <2>4
<1> QED BY <1>3, <1>4

\* What each step does to the facts: none, or one more that is no act.
OneMore ==
  /\ Len(facts') \in Nat /\ Len(facts) <= Len(facts') /\ facts' \in Seq(B!Facts)
  /\ had' \in Seq(SUBSET B!Ears) /\ Len(had') = Len(facts')
  /\ \A f \in 1 .. Len(facts) : facts'[f] = facts[f] /\ had'[f] = had[f]
  /\ \A f \in 1 .. Len(facts') :
       \/ f \in 1 .. Len(facts)
       \/ f = Len(facts) + 1 /\ facts'[f].kind # "act" /\ had'[f] = {} /\ Logged(f)' /\ facts'[f].about \in B!Made \cup B!Outsides
  /\ log' \in Seq(1 .. Len(facts')) /\ Len(log') \in Nat /\ Len(log) <= Len(log')
  /\ \A k \in 1 .. Len(log) : log'[k] = log[k]
  /\ \A k \in 1 .. Len(log') : k \in 1 .. Len(log) \/ (k = Len(log) + 1 /\ log'[k] = Len(facts) + 1)
  /\ taken \subseteq taken' /\ taken' \subseteq B!Made
  /\ done' \in [B!Acts -> Nat]
  /\ \A a \in B!Acts : done'[a] <= Len(facts') /\ (done'[a] # 0 => facts'[done'[a]].kind = "done" /\ facts'[done'[a]].about = a)

LEMMA DoneForms ==
  ASSUME BusTypes
  PROVE  /\ done \in [B!Acts -> Nat] /\ taken \subseteq B!Made /\ B!Made = 1 .. Len(made)
         /\ \A a \in B!Acts : done[a] <= Len(facts) /\ (done[a] # 0 => facts[done[a]].kind = "done" /\ facts[done[a]].about = a)
BY DEF BusTypes, B!TypeOK, B!Made

LEMMA MadeAreActs == ASSUME BusTypes PROVE B!Made \subseteq B!Acts /\ B!Made \subseteq B!Ears
BY BusForms, EarNumbers DEF B!Made

LEMMA NoMore == ASSUME BusTypes, UNCHANGED <<facts, had, log, taken, done>> PROVE OneMore
BY BusForms, DoneForms DEF OneMore

LEMMA SaidOne ==
  ASSUME BusTypes, NEW kind \in {"tell", "started", "done", "dropped"}, NEW about \in B!Made \cup B!Outsides, NEW by \in B!Makers,
         kind \in {"started", "done"} => about \in B!Made, B!Say(kind, about, by)
  PROVE  OneMore
<1> DEFINE new == [kind |-> kind, about |-> about, by |-> by]
<1>1. /\ facts' = Append(facts, new) /\ had' = Append(had, {}) /\ log' = Append(log, Len(facts'))
      /\ taken' = (IF kind \in {"started", "done"} THEN taken \cup {about} ELSE taken)
      /\ done' = IF kind = "done" THEN B!Settles(about, Len(facts')) ELSE done
  BY DEF B!Say
<1>2. new \in B!Facts /\ new.kind = kind /\ new.about = about
  <2>1. about \in B!Ears BY MadeAreActs, EarNumbers
  <2>2. kind \in B!Kinds BY DEF B!Kinds
  <2> QED BY <2>1, <2>2 DEF B!Facts
<1>3. /\ facts' \in Seq(B!Facts) /\ Len(facts') = Len(facts) + 1 /\ Len(facts) \in Nat /\ facts'[Len(facts) + 1] = new
      /\ \A f \in 1 .. Len(facts) : facts'[f] = facts[f]
  BY <1>1, <1>2, BusForms, Appended
<1>4. /\ had' \in Seq(SUBSET B!Ears) /\ Len(had') = Len(facts) + 1 /\ had'[Len(facts) + 1] = {}
      /\ \A f \in 1 .. Len(facts) : had'[f] = had[f]
  <2>1. had \in Seq(SUBSET B!Ears) /\ {} \in SUBSET B!Ears /\ Len(had) = Len(facts) BY BusForms
  <2> QED BY <1>1, <2>1, Appended
<1>5. /\ log' \in Seq(1 .. Len(facts')) /\ Len(log') = Len(log) + 1 /\ Len(log) \in Nat /\ log'[Len(log) + 1] = Len(facts) + 1
      /\ (\A k \in 1 .. Len(log) : log'[k] = log[k]) /\ DOMAIN log' = 1 .. Len(log) + 1
  <2>1. log \in Seq(1 .. Len(facts)) BY BusForms
  <2>2. 1 .. Len(facts) \subseteq 1 .. Len(facts') /\ Len(facts') \in 1 .. Len(facts') BY <1>3
  <2>3. log \in Seq(1 .. Len(facts')) BY <2>1, <2>2, SeqMonotonic
  <2> QED BY <1>1, <1>3, <2>2, <2>3, Appended
<1>6. taken \subseteq taken' /\ taken' \subseteq B!Made BY <1>1, DoneForms
<1>7. /\ done' \in [B!Acts -> Nat]
      /\ \A a \in B!Acts : done'[a] = done[a] \/ (kind = "done" /\ a = about /\ done'[a] = Len(facts) + 1)
  <2>1. done \in [B!Acts -> Nat] /\ Len(facts') = Len(facts) + 1 /\ Len(facts) + 1 \in Nat BY <1>3, DoneForms
  <2>2. CASE kind = "done"
    <3>1. done' = [done EXCEPT ![about] = IF @ = 0 THEN Len(facts) + 1 ELSE @] BY <1>1, <2>1, <2>2 DEF B!Settles
    <3> QED BY <2>1, <2>2, <3>1
  <2>3. CASE kind # "done"
    <3>1. done' = done BY <1>1, <2>3
    <3> QED BY <2>1, <3>1
  <2> QED BY <2>2, <2>3
<1>8. \A a \in B!Acts : done'[a] <= Len(facts') /\ (done'[a] # 0 => facts'[done'[a]].kind = "done" /\ facts'[done'[a]].about = a)
  <2>1. TAKE a \in B!Acts
  <2>2. CASE done'[a] = done[a]
    <3>1. done[a] \in Nat /\ done[a] <= Len(facts) /\ (done[a] # 0 => facts[done[a]].kind = "done" /\ facts[done[a]].about = a)
      BY DoneForms
    <3>2. done[a] # 0 => facts'[done[a]] = facts[done[a]] BY <1>3, <3>1
    <3> QED BY <1>3, <2>2, <3>1, <3>2
  <2>3. CASE kind = "done" /\ a = about /\ done'[a] = Len(facts) + 1
    BY <1>2, <1>3, <2>3
  <2> QED BY <1>7, <2>1, <2>2, <2>3
<1>9. \E k \in DOMAIN log' : log'[k] = Len(facts) + 1
  <2>1. Len(log) + 1 \in DOMAIN log' BY <1>5
  <2> QED BY <1>5, <2>1
<1>10. \A f \in 1 .. Len(facts') :
       \/ f \in 1 .. Len(facts)
       \/ f = Len(facts) + 1 /\ facts'[f].kind # "act" /\ had'[f] = {} /\ Logged(f)' /\ facts'[f].about \in B!Made \cup B!Outsides
  <2>1. TAKE f \in 1 .. Len(facts')
  <2>2. f \in 1 .. Len(facts) \/ f = Len(facts) + 1 BY <1>3
  <2>3. facts'[Len(facts) + 1].kind # "act" /\ facts'[Len(facts) + 1].about \in B!Made \cup B!Outsides BY <1>2, <1>3
  <2>4. CASE f = Len(facts) + 1
    <3>1. Logged(f)' BY <1>9, <2>4 DEF Logged
    <3>2. had'[f] = {} /\ facts'[f].kind # "act" /\ facts'[f].about \in B!Made \cup B!Outsides BY <1>4, <2>3, <2>4
    <3> QED BY <2>4, <3>1, <3>2
  <2> QED BY <2>2, <2>4
<1>11. \A k \in 1 .. Len(log') : k \in 1 .. Len(log) \/ (k = Len(log) + 1 /\ log'[k] = Len(facts) + 1) BY <1>5
<1>12. Len(facts') \in Nat /\ Len(facts) <= Len(facts') /\ Len(had') = Len(facts') BY <1>3, <1>4
<1>13. Len(log') \in Nat /\ Len(log) <= Len(log') BY <1>5
<1> QED BY <1>3, <1>4, <1>5, <1>6, <1>7, <1>8, <1>10, <1>11, <1>12, <1>13 DEF OneMore

LEMMA LoggedStays == ASSUME BusTypes, OneMore, NEW f, Logged(f) PROVE Logged(f)'
<1>1. PICK k \in 1 .. Len(log) : log[k] = f BY BusForms DEF Logged
<1>2. log' \in Seq(1 .. Len(facts')) /\ k \in 1 .. Len(log') /\ log'[k] = f BY <1>1, BusForms DEF OneMore
<1>3. k \in DOMAIN log' BY <1>2
<1> QED BY <1>2, <1>3 DEF Logged

LEMMA LoggedOnes == ASSUME BusTypes, NEW f, Logged(f) PROVE f \in 1 .. Len(facts)
BY BusForms DEF Logged

LEMMA HeardForms ==
  ASSUME BusTypes, NEW e \in B!Ears
  PROVE  /\ heard[e] \in Seq(1 .. Len(facts)) /\ Len(heard[e]) \in Nat /\ DOMAIN heard[e] = 1 .. Len(heard[e])
         /\ \A i \in DOMAIN heard[e] : heard[e][i] \in 1 .. Len(facts)
         /\ born[e] \in Nat /\ born[e] <= Len(facts) /\ heard \in [B!Ears -> Seq(Nat)] /\ born \in [B!Ears -> Nat]
<1>1. heard[e] \in Seq(1 .. Len(facts)) /\ born[e] \in 0 .. Len(facts) /\ heard \in [B!Ears -> Seq(Nat)] /\ born \in [B!Ears -> Nat]
  BY DEF BusTypes, B!TypeOK
<1> QED BY <1>1, BusForms

LEMMA PutFrameKept ==
  ASSUME NEW i \in DOMAIN stack, PutFrame(i), stack'[i] = stack[i], HearersBelow(stack', i) = HearersBelow(stack, i),
         Logged(stack[i].fact)', facts'[stack[i].fact] = facts[stack[i].fact], had'[stack[i].fact] = had[stack[i].fact],
         stack[i].kind = "put" => stack[i].who \notin alive',
         \A e \in B!Outsides \cup stack[i].todo : WasHeard(e, stack[i].fact)' => WasHeard(e, stack[i].fact)
  PROVE  PutFrame(i)'
BY DEF PutFrame

\* A step that says a fact or none, and that leaves the frames as they are but for some on top.
SaysOrLeaves ==
  /\ OneMore /\ UNCHANGED <<made, left, wide, heard, born>> /\ deaths' \in 0 .. MaxDeaths /\ alive' \subseteq alive
  /\ stack' \in Seq(B!Frames) /\ Len(stack') <= Len(stack)
  /\ \A i \in 1 .. Len(stack') : stack'[i] = stack[i] /\ (stack[i].kind = "hear" => stack[i].who \in alive')
  /\ \A i \in 1 .. Len(stack) : i > Len(stack') /\ stack[i].kind # "hear" =>
       /\ stack[i].kind = "offer" /\ stack[i].todo = {}
       /\ stack[i].who \in taken' \/ B!Outsides \ had[stack[i].fact] # {}

LEMMA StackForms ==
  ASSUME BusTypes, SaysOrLeaves
  PROVE  /\ DOMAIN stack = 1 .. Len(stack) /\ DOMAIN stack' = 1 .. Len(stack') /\ Len(stack) \in Nat /\ Len(stack') \in Nat
         /\ \A i \in DOMAIN stack' : i \in DOMAIN stack /\ stack'[i] = stack[i]
<1>1. stack' \in Seq(B!Frames) /\ Len(stack') <= Len(stack) /\ (\A i \in 1 .. Len(stack') : stack'[i] = stack[i])
  BY DEF SaysOrLeaves
<1>2. stack \in Seq(B!Frames) /\ DOMAIN stack = 1 .. Len(stack) /\ Len(stack) \in Nat BY BusForms
<1>3. DOMAIN stack' = 1 .. Len(stack') /\ Len(stack') \in Nat BY <1>1
<1> QED BY <1>1, <1>2, <1>3

LEMMA SaidTypes == ASSUME BusTypes, SaysOrLeaves PROVE BusTypes'
<1>1. OneMore /\ UNCHANGED <<made, left, wide, heard, born>> /\ deaths' \in 0 .. MaxDeaths /\ alive' \subseteq alive
      /\ stack' \in Seq(B!Frames)
  BY DEF SaysOrLeaves
<1>2. /\ Len(facts) \in Nat /\ Len(facts') \in Nat /\ Len(facts) <= Len(facts') /\ facts' \in Seq(B!Facts)
      /\ had' \in Seq(SUBSET B!Ears) /\ Len(had') = Len(facts') /\ log' \in Seq(1 .. Len(facts')) /\ taken' \subseteq B!Made
      /\ done' \in [B!Acts -> Nat] /\ \A a \in B!Acts : done'[a] <= Len(facts') /\ (done'[a] # 0 => facts'[done'[a]].kind = "done" /\ facts'[done'[a]].about = a)
  BY <1>1, BusForms DEF OneMore
<1>3. \A e \in B!Ears : heard[e] \in Seq(1 .. Len(facts')) /\ born[e] \in 0 .. Len(facts')
  <2>1. TAKE e \in B!Ears
  <2>2. heard[e] \in Seq(1 .. Len(facts)) /\ born[e] \in Nat /\ born[e] <= Len(facts) BY HeardForms
  <2>3. 1 .. Len(facts) \subseteq 1 .. Len(facts') BY <1>2
  <2>4. heard[e] \in Seq(1 .. Len(facts')) BY <2>2, <2>3, SeqMonotonic
  <2> QED BY <1>2, <2>2, <2>4
<1>4. \A f \in 1 .. Len(facts') : facts'[f].about \in B!Made \cup B!Outsides
  <2>1. TAKE f \in 1 .. Len(facts')
  <2>2. CASE f \in 1 .. Len(facts)
    <3>1. facts[f].about \in B!Made \cup B!Outsides BY <2>2 DEF BusTypes
    <3>2. facts'[f] = facts[f] BY <1>1, <2>2 DEF OneMore
    <3> QED BY <3>1, <3>2
  <2>3. CASE f \notin 1 .. Len(facts) BY <1>1, <2>1, <2>3 DEF OneMore
  <2> QED BY <2>2, <2>3
<1>5. left.fact \in 0 .. Len(facts') /\ left.ears \subseteq B!Ears /\ left \in [fact : Nat, ears : SUBSET B!Ears]
  <2>1. left.fact \in 0 .. Len(facts) /\ left.ears \subseteq B!Ears /\ left \in [fact : Nat, ears : SUBSET B!Ears]
    BY DEF BusTypes, B!TypeOK
  <2> QED BY <1>2, <2>1
<1>6. /\ made \in Seq(B!MadeActs) /\ Len(made) <= MaxActs /\ alive \subseteq B!Ears /\ wide \subseteq B!Ears /\ alive \cap B!Acts \subseteq B!Made
      /\ heard \in [B!Ears -> Seq(Nat)] /\ born \in [B!Ears -> Nat]
  BY DEF BusTypes, B!TypeOK
<1>7. B!Made' = B!Made BY <1>1 DEF B!Made
<1>8. B!TypeOK' BY <1>1, <1>2, <1>3, <1>5, <1>6, <1>7 DEF B!TypeOK
<1> QED BY <1>1, <1>2, <1>4, <1>5, <1>6, <1>7, <1>8 DEF BusTypes

LEMMA SaidFramed == ASSUME BusInv, SaysOrLeaves PROVE Framed'
<1>0. BusTypes /\ Framed BY DEF BusInv
<1>1. OneMore /\ heard' = heard /\ alive' \subseteq alive
      /\ (\A i \in 1 .. Len(stack') : stack'[i] = stack[i] /\ (stack[i].kind = "hear" => stack[i].who \in alive'))
  BY DEF SaysOrLeaves
<1>2. /\ DOMAIN stack = 1 .. Len(stack) /\ DOMAIN stack' = 1 .. Len(stack') /\ Len(stack) \in Nat /\ Len(stack') \in Nat
      /\ \A i \in DOMAIN stack' : i \in DOMAIN stack /\ stack'[i] = stack[i]
  BY <1>0, StackForms
<1>3. \A i \in DOMAIN stack' : stack'[i].kind = "hear" => stack'[i].who \in alive' BY <1>1, <1>2
<1>4. \A i, j \in DOMAIN stack' :
        i # j /\ (stack'[i].kind = "hear") = (stack'[j].kind = "hear") => stack'[i].who # stack'[j].who
  <2>1. TAKE i, j \in DOMAIN stack'
  <2>2. i \in DOMAIN stack /\ j \in DOMAIN stack /\ stack'[i] = stack[i] /\ stack'[j] = stack[j] BY <1>2
  <2> QED BY <1>0, <2>2 DEF Framed
<1>5. \A i \in DOMAIN stack' : stack'[i].kind # "hear" => PutFrame(i)'
  <2>1. TAKE i \in DOMAIN stack'
  <2>2. HAVE stack'[i].kind # "hear"
  <2>3. i \in DOMAIN stack /\ stack'[i] = stack[i] BY <1>2
  <2>4. PutFrame(i) BY <1>0, <2>2, <2>3 DEF Framed
  <2>5. HearersBelow(stack', i) = HearersBelow(stack, i)
    <3>1. \A k \in DOMAIN stack : k < i => k \in DOMAIN stack' /\ stack'[k] = stack[k] BY <1>2, <2>1
    <3>2. \A k \in DOMAIN stack' : k < i => k \in DOMAIN stack BY <1>2
    <3> QED BY <3>1, <3>2, HearersSame
  <2>6. Logged(stack[i].fact) /\ (stack[i].kind = "put" => stack[i].who \notin alive) BY <2>4 DEF PutFrame
  <2>7. stack[i].fact \in 1 .. Len(facts) BY <1>0, <2>6, LoggedOnes
  <2>8. facts'[stack[i].fact] = facts[stack[i].fact] /\ had'[stack[i].fact] = had[stack[i].fact] BY <1>1, <2>7 DEF OneMore
  <2>9. Logged(stack[i].fact)'
    <3> DEFINE f == stack[i].fact
    <3>1. \A x : x = f => Logged(x)' BY <1>0, <1>1, <2>6, LoggedStays
    <3>2. stack'[i].fact = f BY <2>3
    <3> QED BY <3>1, <3>2 DEF Logged
  <2>10. \A e : WasHeard(e, stack[i].fact)' => WasHeard(e, stack[i].fact) BY <1>1, <2>3 DEF WasHeard
  <2> QED BY <1>1, <2>3, <2>4, <2>5, <2>6, <2>8, <2>9, <2>10, PutFrameKept
<1> QED BY <1>3, <1>4, <1>5 DEF Framed

LEMMA SaidLog == ASSUME BusInv, SaysOrLeaves PROVE LogInOrder'
<1>0. BusTypes /\ LogInOrder BY DEF BusInv
<1>1. OneMore /\ left' = left BY DEF SaysOrLeaves
<1>2. /\ DOMAIN log = 1 .. Len(log) /\ Len(log) \in Nat /\ log \in Seq(1 .. Len(facts)) /\ Len(facts) \in Nat
      /\ log' \in Seq(1 .. Len(facts')) BY <1>0, <1>1, BusForms DEF OneMore
<1>3. DOMAIN log' = 1 .. Len(log') /\ Len(log') \in Nat BY <1>2
<1>4. \A k \in DOMAIN log' : (k \in DOMAIN log /\ log'[k] = log[k]) \/ (k = Len(log) + 1 /\ log'[k] = Len(facts) + 1)
  BY <1>1, <1>2, <1>3 DEF OneMore
<1>5. left.fact \in Nat /\ left.fact <= Len(facts) BY <1>0 DEF BusTypes, B!TypeOK
<1>6. \A k \in DOMAIN log : log[k] \in Nat /\ log[k] <= Len(facts) BY <1>2
<1>7. \A i, j \in DOMAIN log' : i < j => log'[i] < log'[j]
  <2>1. TAKE i, j \in DOMAIN log'
  <2>2. HAVE i < j
  <2>3. i \in DOMAIN log /\ log'[i] = log[i] BY <1>2, <1>3, <1>4, <2>1, <2>2
  <2>4. CASE j \in DOMAIN log /\ log'[j] = log[j] BY <1>0, <2>2, <2>3, <2>4 DEF LogInOrder
  <2>5. CASE j = Len(log) + 1 /\ log'[j] = Len(facts) + 1 BY <1>2, <1>6, <2>3, <2>5
  <2> QED BY <1>4, <2>4, <2>5
<1>8. \A i \in DOMAIN log' : left.fact < log'[i]
  <2>1. TAKE i \in DOMAIN log'
  <2>2. CASE i \in DOMAIN log /\ log'[i] = log[i] BY <1>0, <2>2 DEF LogInOrder
  <2>3. CASE i = Len(log) + 1 /\ log'[i] = Len(facts) + 1 BY <1>2, <1>5, <2>3
  <2> QED BY <1>4, <2>2, <2>3
<1>9. left.ears # {} => left.fact # 0 BY <1>0 DEF LogInOrder
<1> QED BY <1>1, <1>7, <1>8, <1>9 DEF LogInOrder

LEMMA HeardStays ==
  ASSUME BusTypes, OneMore, heard' = heard, NEW e \in B!Ears
  PROVE  \A i \in DOMAIN heard[e] : heard[e][i] \in 1 .. Len(facts) /\ facts'[heard[e][i]] = facts[heard[e][i]]
<1>1. \A i \in DOMAIN heard[e] : heard[e][i] \in 1 .. Len(facts) BY HeardForms
<1> QED BY <1>1 DEF OneMore

LEMMA SaidHeard == ASSUME BusInv, SaysOrLeaves PROVE HeardSoFar'
<1>0. BusTypes /\ HeardSoFar BY DEF BusInv
<1>1. OneMore /\ left' = left /\ heard' = heard BY DEF SaysOrLeaves
<1>2. /\ DOMAIN log = 1 .. Len(log) /\ Len(log) \in Nat /\ log \in Seq(1 .. Len(facts)) /\ Len(facts) \in Nat
      /\ log' \in Seq(1 .. Len(facts'))
  BY <1>0, <1>1, BusForms DEF OneMore
<1>3. DOMAIN log' = 1 .. Len(log') BY <1>2
<1>4. B!HeardOnce' BY <1>0, <1>1 DEF HeardSoFar, B!HeardOnce
<1>5. B!HeardInOrder'
  <2>1. SUFFICES ASSUME NEW e \in B!Ears, NEW i \in DOMAIN heard[e], NEW j \in DOMAIN heard[e],
                        i < j, facts'[heard[e][i]].kind # "act", facts'[heard[e][j]].kind # "act"
                 PROVE  heard[e][i] < heard[e][j]
    BY <1>1 DEF B!HeardInOrder
  <2>2. facts'[heard[e][i]] = facts[heard[e][i]] /\ facts'[heard[e][j]] = facts[heard[e][j]] BY <1>0, <1>1, HeardStays
  <2> QED BY <1>0, <2>1, <2>2 DEF HeardSoFar, B!HeardInOrder
<1>6. \A e \in B!Ears : \A k \in DOMAIN log' : WasHeard(e, log[k])' => e \in had'[log'[k]]
  <2>1. SUFFICES ASSUME NEW e \in B!Ears, NEW k \in DOMAIN log', NEW i \in DOMAIN heard[e], heard[e][i] = log'[k]
                 PROVE  e \in had'[log'[k]]
    BY <1>1 DEF WasHeard
  <2>2. log'[k] \in 1 .. Len(facts) BY <1>0, <2>1, HeardForms
  <2>3. k \in DOMAIN log /\ log'[k] = log[k] BY <1>1, <1>2, <1>3, <2>2 DEF OneMore
  <2>4. e \in had[log[k]] BY <1>0, <2>1, <2>3 DEF HeardSoFar, WasHeard
  <2> QED BY <1>1, <2>2, <2>3, <2>4 DEF OneMore
<1>7. \A e \in left.ears : ~WasHeard(e, left.fact)' BY <1>0, <1>1 DEF HeardSoFar, WasHeard
<1>8. \A e \in B!Ears : \A i \in DOMAIN heard[e] : facts'[heard[e][i]].kind # "act" => heard[e][i] <= left.fact
  BY <1>0, <1>1, HeardStays DEF HeardSoFar
<1> QED BY <1>1, <1>4, <1>5, <1>6, <1>7, <1>8 DEF HeardSoFar

LEMMA SaidToHear == ASSUME BusInv, SaysOrLeaves PROVE StillToHear'
<1>0. BusTypes /\ Framed /\ StillToHear BY DEF BusInv
<1>1. /\ OneMore /\ alive' \subseteq alive /\ UNCHANGED <<made, left, wide, heard, born>>
      /\ \A i \in 1 .. Len(stack) : i > Len(stack') /\ stack[i].kind # "hear" =>
           /\ stack[i].kind = "offer" /\ stack[i].todo = {}
           /\ stack[i].who \in taken' \/ B!Outsides \ had[stack[i].fact] # {}
  BY DEF SaysOrLeaves
<1>2. /\ DOMAIN stack = 1 .. Len(stack) /\ DOMAIN stack' = 1 .. Len(stack') /\ Len(stack) \in Nat /\ Len(stack') \in Nat
      /\ \A i \in DOMAIN stack' : i \in DOMAIN stack /\ stack'[i] = stack[i]
  BY <1>0, StackForms
<1>3. SUFFICES ASSUME NEW e \in alive', NEW f \in 1 .. Len(facts'), f > born[e] PROVE Awaited(e, f)'
  BY <1>1 DEF StillToHear
<1>4. CASE f \notin 1 .. Len(facts)
  <2>1. Logged(f)' /\ e \notin had'[f] BY <1>1, <1>3, <1>4 DEF OneMore
  <2> QED BY <2>1 DEF Awaited
<1>5. CASE f \in 1 .. Len(facts)
  <2>1. Awaited(e, f) /\ e \in B!Ears BY <1>0, <1>1, <1>3, <1>5 DEF StillToHear, BusTypes, B!TypeOK
  <2>2. facts'[f] = facts[f] /\ had'[f] = had[f] /\ taken \subseteq taken' BY <1>1, <1>5 DEF OneMore
  <2>3. CASE e \notin wide \cup B!Named(facts[f])
    <3>1. B!Named(facts[f])' = B!Named(facts[f]) BY <1>0, <1>1, <1>5, <2>2, NamedStays
    <3> QED BY <1>1, <2>3, <3>1 DEF Awaited
  <2>4. CASE WasHeard(e, f)
    <3>1. WasHeard(e, f)' BY <1>1, <2>4 DEF WasHeard
    <3> QED BY <3>1 DEF Awaited
  <2>5. CASE Logged(f) /\ e \notin had[f]
    <3>1. Logged(f)' BY <1>0, <1>1, <2>5, LoggedStays
    <3> QED BY <2>2, <2>5, <3>1 DEF Awaited
  <2>6. CASE left.fact = f /\ e \in left.ears BY <1>1, <2>6 DEF Awaited
  <2>7. CASE facts[f].kind = "act" /\ (facts[f].about = e \/ (e \in B!Outsides /\ facts[f].about \in taken))
    BY <2>2, <2>7 DEF Awaited
  <2>8. ASSUME e \in B!Outsides, NEW i \in DOMAIN stack, stack[i].kind # "hear", stack[i].fact = f,
               stack[i].kind = "put" \/ e \in stack[i].todo
        PROVE  Awaited(e, f)'
    <3>1. i \in DOMAIN stack' /\ stack'[i] = stack[i] BY <1>1, <1>2, <2>8
    <3> QED BY <2>8, <3>1 DEF Awaited
  <2> QED BY <2>1, <2>3, <2>4, <2>5, <2>6, <2>7, <2>8 DEF Awaited
<1> QED BY <1>4, <1>5

LEMMA SaidToTake == ASSUME BusInv, SaysOrLeaves PROVE StillToTake'
<1>0. BusTypes /\ Framed /\ StillToTake BY DEF BusInv
<1>1. /\ OneMore
      /\ \A i \in 1 .. Len(stack) : i > Len(stack') /\ stack[i].kind # "hear" =>
           /\ stack[i].kind = "offer" /\ stack[i].todo = {}
           /\ stack[i].who \in taken' \/ B!Outsides \ had[stack[i].fact] # {}
  BY DEF SaysOrLeaves
<1>2. /\ DOMAIN stack = 1 .. Len(stack) /\ DOMAIN stack' = 1 .. Len(stack') /\ Len(stack) \in Nat /\ Len(stack') \in Nat
      /\ \A i \in DOMAIN stack' : i \in DOMAIN stack /\ stack'[i] = stack[i]
  BY <1>0, StackForms
<1>3. SUFFICES ASSUME NEW f \in 1 .. Len(facts'), facts'[f].kind = "act", facts'[f].about \notin taken' PROVE TurnsLeft(f)'
  BY DEF StillToTake
<1>4. f \in 1 .. Len(facts) /\ facts'[f] = facts[f] /\ had'[f] = had[f] /\ facts[f].about \notin taken BY <1>1, <1>3 DEF OneMore
<1>5. TurnsLeft(f) BY <1>0, <1>3, <1>4 DEF StillToTake
<1>6. CASE B!Outsides \ had[f] # {} BY <1>4, <1>6 DEF TurnsLeft, B!Outsides
<1>7. ASSUME NEW i \in DOMAIN stack, stack[i].kind # "hear", stack[i].fact = f PROVE TurnsLeft(f)'
  <2>1. facts[f].about = stack[i].who BY <1>0, <1>7 DEF Framed, PutFrame
  <2>2. CASE i > Len(stack')
    <3>1. B!Outsides \ had[f] # {} BY <1>1, <1>2, <1>3, <1>4, <1>7, <2>1, <2>2
    <3> QED BY <1>4, <3>1 DEF TurnsLeft, B!Outsides
  <2>3. CASE i \in DOMAIN stack' BY <1>2, <1>7, <2>3 DEF TurnsLeft
  <2> QED BY <1>2, <2>2, <2>3
<1> QED BY <1>5, <1>6, <1>7 DEF TurnsLeft

LEMMA SaidKept == ASSUME BusInv, SaysOrLeaves PROVE BusInv'
<1>1. BusTypes BY DEF BusInv
<1> QED BY <1>1, SaidTypes, SaidFramed, SaidLog, SaidHeard, SaidToHear, SaidToTake DEF BusInv

(* The steps that say a fact or none and make no act. *)

LEMMA SaysKept ==
  ASSUME BusInv, NEW by \in B!Ears, B!Says(by)
  PROVE  BusInv'
<1>0. BusTypes /\ Framed BY DEF BusInv
<1>1. UNCHANGED <<made, left, stack, alive, wide, heard, born, deaths>> BY DEF B!Says
<1>2. PICK kind \in {"tell", "started", "done"}, about \in B!Made : B!Say(kind, about, by) BY DEF B!Says
<1>3. OneMore
  <2>1. by \in B!Makers BY DEF B!Makers
  <2> QED BY <1>0, <1>2, <2>1, SaidOne
<1>4. stack \in Seq(B!Frames) /\ DOMAIN stack = 1 .. Len(stack) /\ Len(stack) \in Nat BY <1>0, BusForms
<1>5. deaths' \in 0 .. MaxDeaths BY <1>0, <1>1 DEF BusTypes, B!TypeOK
<1>6. \A i \in 1 .. Len(stack) : stack[i].kind = "hear" => stack[i].who \in alive BY <1>0, <1>4 DEF Framed
<1>7. SaysOrLeaves BY <1>1, <1>3, <1>4, <1>5, <1>6 DEF SaysOrLeaves
<1> QED BY <1>7, SaidKept

LEMMA PopForms ==
  ASSUME BusTypes, stack # <<>>
  PROVE  /\ B!Below \in Seq(B!Frames) /\ Len(B!Below) = Len(stack) - 1 /\ (\A i \in 1 .. Len(stack) - 1 : B!Below[i] = stack[i])
         /\ DOMAIN B!Below = 1 .. Len(stack) - 1 /\ Len(stack) \in Nat /\ Len(stack) >= 1 /\ DOMAIN stack = 1 .. Len(stack)
         /\ B!Top = stack[Len(stack)] /\ B!Top \in B!Frames /\ Len(stack) \in DOMAIN stack
<1>1. stack \in Seq(B!Frames) BY BusForms
<1>2. /\ B!Below \in Seq(B!Frames) /\ Len(B!Below) = Len(stack) - 1 /\ (\A i \in 1 .. Len(stack) - 1 : B!Below[i] = stack[i])
      /\ DOMAIN B!Below = 1 .. Len(stack) - 1 /\ Len(stack) \in Nat /\ Len(stack) >= 1 /\ stack[Len(stack)] \in B!Frames
  BY <1>1, Popped DEF B!Below
<1>3. DOMAIN stack = 1 .. Len(stack) BY BusForms
<1> QED BY <1>2, <1>3 DEF B!Top

LEMMA PopsTheTop ==
  ASSUME BusTypes, Framed, stack # <<>>, stack' = B!Below, OneMore, UNCHANGED <<made, left, wide, heard, born>>,
         deaths' \in 0 .. MaxDeaths,
         \/ alive' = alive
         \/ B!Top.kind = "hear" /\ alive' = alive \ {B!Top.who},
         \/ B!Top.kind = "hear"
         \/ B!Top.kind = "offer" /\ B!Top.todo = {} /\ (B!Top.who \in taken' \/ B!Outsides \ had[B!Top.fact] # {})
  PROVE  SaysOrLeaves
<1>1. /\ stack' \in Seq(B!Frames) /\ Len(stack') = Len(stack) - 1 /\ (\A i \in 1 .. Len(stack) - 1 : stack'[i] = stack[i])
      /\ Len(stack) \in Nat /\ Len(stack) >= 1 /\ DOMAIN stack = 1 .. Len(stack) /\ B!Top = stack[Len(stack)] /\ Len(stack) \in DOMAIN stack
  BY PopForms
<1>2. \A i \in 1 .. Len(stack') : stack'[i] = stack[i] /\ (stack[i].kind = "hear" => stack[i].who \in alive')
  <2>1. TAKE i \in 1 .. Len(stack')
  <2>2. i \in DOMAIN stack /\ i # Len(stack) /\ stack'[i] = stack[i] BY <1>1
  <2>3. ASSUME stack[i].kind = "hear" PROVE stack[i].who \in alive'
    <3>1. stack[i].who \in alive BY <2>2, <2>3 DEF Framed
    <3>2. B!Top.kind = "hear" => stack[i].who # B!Top.who
      <4>1. stack[Len(stack)].kind = "hear" => stack[i].who # stack[Len(stack)].who BY <1>1, <2>2, <2>3 DEF Framed
      <4> QED BY <1>1, <4>1
    <3> QED BY <3>1, <3>2
  <2> QED BY <2>2, <2>3
<1>3. \A i \in 1 .. Len(stack) : i > Len(stack') => i = Len(stack) BY <1>1
<1>4. alive' \subseteq alive OBVIOUS
<1>5. Len(stack') <= Len(stack) BY <1>1
<1> QED BY <1>1, <1>2, <1>3, <1>4, <1>5 DEF SaysOrLeaves

LEMMA WaitKept == ASSUME BusInv, B!Wait PROVE BusInv'
<1>0. BusTypes /\ Framed BY DEF BusInv
<1>1. stack # <<>> /\ B!Top.kind = "hear" /\ stack' = B!Below
      /\ UNCHANGED <<made, facts, had, log, left, alive, wide, taken, done, heard, born, deaths>>
  BY DEF B!Wait, B!Is
<1>2. OneMore BY <1>0, <1>1, NoMore
<1>3. deaths' \in 0 .. MaxDeaths BY <1>0, <1>1 DEF BusTypes, B!TypeOK
<1>4. SaysOrLeaves BY <1>0, <1>1, <1>2, <1>3, PopsTheTop
<1> QED BY <1>4, SaidKept

LEMMA DiesKept == ASSUME BusInv, B!Dies PROVE BusInv'
<1>0. BusTypes /\ Framed BY DEF BusInv
<1>1. /\ stack # <<>> /\ B!Top.kind = "hear" /\ stack' = B!Below /\ alive' = alive \ {B!Top.who}
      /\ UNCHANGED <<made, left, wide, heard, born>> /\ deaths < MaxDeaths /\ deaths' = deaths + 1
      /\ \/ UNCHANGED <<facts, had, log, taken, done>>
         \/ B!Say(IF B!Top.who \in B!Made /\ done[B!Top.who] = 0 THEN "done" ELSE "dropped", B!Top.who, B!Top.who)
  BY DEF B!Dies, B!Is
<1>2. OneMore
  <2>1. CASE UNCHANGED <<facts, had, log, taken, done>> BY <1>0, <2>1, NoMore
  <2>2. CASE B!Say(IF B!Top.who \in B!Made /\ done[B!Top.who] = 0 THEN "done" ELSE "dropped", B!Top.who, B!Top.who)
    <3>1. B!Top = stack[Len(stack)] /\ Len(stack) \in DOMAIN stack /\ B!Top \in B!Frames BY <1>0, <1>1, PopForms
    <3>2. B!Top.who \in alive BY <1>0, <1>1, <3>1 DEF Framed
    <3>3. B!Top.who \in B!Ears /\ B!Top.who \in B!Makers BY <3>1, FrameForms DEF B!Makers
    <3>4. B!Top.who \in B!Made \cup B!Outsides
      <4>1. alive \cap B!Acts \subseteq B!Made BY <1>0 DEF BusTypes
      <4> QED BY <3>2, <3>3, <4>1, EarNumbers
    <3>5. CASE B!Top.who \in B!Made /\ done[B!Top.who] = 0 BY <1>0, <2>2, <3>3, <3>4, <3>5, SaidOne
    <3>6. CASE ~(B!Top.who \in B!Made /\ done[B!Top.who] = 0)
      <4>1. B!Say("dropped", B!Top.who, B!Top.who) BY <2>2, <3>6
      <4> QED BY <1>0, <3>3, <3>4, <4>1, SaidOne
    <3> QED BY <3>5, <3>6
  <2> QED BY <1>1, <2>1, <2>2
<1>3. deaths' \in 0 .. MaxDeaths
  <2>1. deaths \in 0 .. MaxDeaths BY <1>0 DEF BusTypes, B!TypeOK
  <2> QED BY <1>1, <2>1, EarNumbers
<1>4. SaysOrLeaves BY <1>0, <1>1, <1>2, <1>3, PopsTheTop
<1> QED BY <1>4, SaidKept

LEMMA RefuseKept == ASSUME BusInv, B!Refuse PROVE BusInv'
<1>0. BusTypes /\ Framed BY DEF BusInv
<1>1. /\ stack # <<>> /\ B!Top.kind = "offer" /\ B!Top.todo = {} /\ stack' = B!Below
      /\ UNCHANGED <<made, left, alive, wide, heard, born, deaths>>
      /\ IF B!Top.who \notin taken /\ ~B!Owed THEN B!Say("done", B!Top.who, 0) ELSE UNCHANGED <<facts, had, log, taken, done>>
  BY DEF B!Refuse, B!Is, B!NOBODY
<1>2. B!Top = stack[Len(stack)] /\ Len(stack) \in DOMAIN stack /\ B!Top \in B!Frames BY <1>0, <1>1, PopForms
<1>3. PutFrame(Len(stack)) BY <1>0, <1>1, <1>2 DEF Framed
<1>4. B!Top.who \in B!Made
  <2>1. Logged(B!Top.fact) /\ facts[B!Top.fact].about = B!Top.who BY <1>2, <1>3 DEF PutFrame
  <2>2. facts[B!Top.fact].about \in B!Made \cup B!Outsides BY <1>0, <2>1, LoggedOnes DEF BusTypes
  <2>3. B!Top.who \in B!Acts BY <1>1, <1>2, FrameForms
  <2> QED BY <2>1, <2>2, <2>3, EarNumbers
<1>5. OneMore /\ (B!Top.who \in taken' \/ B!Outsides \ had[B!Top.fact] # {})
  <2>1. CASE B!Top.who \notin taken /\ ~B!Owed
    <3>1. B!Say("done", B!Top.who, 0) BY <1>1, <2>1
    <3>2. 0 \in B!Makers BY DEF B!Makers, B!NOBODY
    <3>3. OneMore BY <1>0, <1>4, <3>1, <3>2, SaidOne
    <3>4. B!Top.who \in taken' BY <3>1 DEF B!Say
    <3> QED BY <3>3, <3>4
  <2>2. CASE B!Top.who \in taken
    <3>1. OneMore BY <1>0, <1>1, <2>2, NoMore
    <3> QED BY <1>1, <2>2, <3>1
  <2>3. CASE B!Top.who \notin taken /\ B!Owed
    <3>1. OneMore BY <1>0, <1>1, <2>3, NoMore
    <3>2. PICK e \in B!Busy \cap B!Outsides : TRUE BY <2>3 DEF B!Owed
    <3>3. e \in HearersBelow(stack, Len(stack)) BY <1>0, <1>1, <3>2, BusyBelowTop
    <3>4. e \notin had[B!Top.fact] BY <1>2, <1>3, <3>3 DEF PutFrame
    <3> QED BY <3>1, <3>2, <3>4
  <2> QED BY <2>1, <2>2, <2>3
<1>6. deaths' \in 0 .. MaxDeaths BY <1>0, <1>1 DEF BusTypes, B!TypeOK
<1>7. SaysOrLeaves BY <1>0, <1>1, <1>5, <1>6, PopsTheTop
<1> QED BY <1>7, SaidKept

(* An act is made. *)

LEMMA MakesForms ==
  ASSUME BusTypes, NEW by \in B!Makers, B!Makes(by)
  PROVE  \E x \in B!MadeActs, t \in SUBSET B!Ears :
           LET a  == Len(made) + 1
               n  == Len(facts) + 1
               fact == [kind |-> "act", about |-> a, by |-> by]
               frame == [kind |-> "put", who |-> a, fact |-> n, todo |-> t]
           IN /\ Len(made) < MaxActs /\ a \in B!Acts /\ made' = Append(made, x) /\ Len(made') = a /\ made' \in Seq(B!MadeActs)
              /\ fact \in B!Facts /\ frame \in B!Frames
              /\ facts' \in Seq(B!Facts) /\ Len(facts') = n /\ facts'[n] = fact /\ (\A f \in 1 .. Len(facts) : facts'[f] = facts[f])
              /\ had' \in Seq(SUBSET B!Ears) /\ Len(had') = n /\ had'[n] = B!Outsides \ B!Busy
              /\ (\A f \in 1 .. Len(facts) : had'[f] = had[f])
              /\ log' \in Seq(1 .. n) /\ Len(log') = Len(log) + 1 /\ log'[Len(log) + 1] = n
              /\ (\A k \in 1 .. Len(log) : log'[k] = log[k]) /\ DOMAIN log' = 1 .. Len(log) + 1
              /\ stack' \in Seq(B!Frames) /\ stack'[Len(stack) + 1] = frame
              /\ (\A i \in 1 .. Len(stack) : stack'[i] = stack[i]) /\ DOMAIN stack' = 1 .. Len(stack) + 1
<1> DEFINE a == Len(made) + 1
           n == Len(facts) + 1
           fact == [kind |-> "act", about |-> a, by |-> by]
<1>1. Len(made) < MaxActs /\ \E owns \in BOOLEAN : made' = Append(made, [by |-> by, owns |-> owns]) BY DEF B!Makes
<1>2. PICK owns \in BOOLEAN : made' = Append(made, [by |-> by, owns |-> owns]) BY <1>1
<1>3. [by |-> by, owns |-> owns] \in B!MadeActs BY DEF B!MadeActs
<1>4. made' \in Seq(B!MadeActs) /\ Len(made') = a /\ a \in B!Acts
  <2>1. made \in Seq(B!MadeActs) /\ Len(made) \in Nat BY BusForms
  <2>2. made' \in Seq(B!MadeActs) /\ Len(made') = a BY <1>2, <1>3, <2>1, Appended
  <2> QED BY <1>1, <2>1, <2>2, EarNumbers
<1>5. facts' = Append(facts, fact) /\ had' = Append(had, B!Outsides \ B!Busy) /\ log' = Append(log, Len(facts'))
  BY <1>4 DEF B!Makes
<1>6. PICK t \in SUBSET B!Ears : stack' = Append(stack, [kind |-> "put", who |-> a, fact |-> Len(facts'), todo |-> t])
  <2> DEFINE t == IF made'[Len(made')].owns THEN {} ELSE B!EarsOf({Len(made'), by})
  <2>1. B!EarsOf({Len(made'), by}) \subseteq B!Ears
    <3>1. alive \subseteq B!Ears BY DEF BusTypes, B!TypeOK
    <3> QED BY <3>1 DEF B!EarsOf
  <2>2. t \in SUBSET B!Ears BY <2>1
  <2>3. stack' = Append(stack, [kind |-> "put", who |-> Len(made'), fact |-> Len(facts'), todo |-> t]) BY DEF B!Makes
  <2> HIDE DEF t
  <2> QED BY <1>4, <2>2, <2>3
<1> DEFINE frame == [kind |-> "put", who |-> a, fact |-> n, todo |-> t]
<1>7. fact \in B!Facts
  <2>1. a \in B!Ears BY <1>4, EarNumbers
  <2>2. "act" \in B!Kinds BY DEF B!Kinds
  <2> QED BY <2>1, <2>2 DEF B!Facts
<1>8. facts' \in Seq(B!Facts) /\ Len(facts') = n /\ facts'[n] = fact /\ (\A f \in 1 .. Len(facts) : facts'[f] = facts[f]) /\ n \in Nat
  <2>1. facts \in Seq(B!Facts) /\ Len(facts) \in Nat BY BusForms
  <2> HIDE DEF fact
  <2> QED BY <1>5, <1>7, <2>1, Appended
<1>9. frame \in B!Frames BY <1>4, <1>8, ActFrame
<1>10. /\ had' \in Seq(SUBSET B!Ears) /\ Len(had') = n /\ had'[n] = B!Outsides \ B!Busy
       /\ (\A f \in 1 .. Len(facts) : had'[f] = had[f])
  <2>1. had \in Seq(SUBSET B!Ears) /\ Len(had) = Len(facts) BY BusForms
  <2>2. B!Outsides \ B!Busy \in SUBSET B!Ears BY EarNumbers
  <2> QED BY <1>5, <2>1, <2>2, Appended
<1>11. /\ log' \in Seq(1 .. n) /\ Len(log') = Len(log) + 1 /\ log'[Len(log) + 1] = n
       /\ (\A k \in 1 .. Len(log) : log'[k] = log[k]) /\ DOMAIN log' = 1 .. Len(log) + 1
  <2>1. log \in Seq(1 .. Len(facts)) /\ 1 .. Len(facts) \subseteq 1 .. n /\ n \in 1 .. n
    <3>1. Len(facts) \in Nat BY BusForms
    <3> QED BY <3>1, BusForms
  <2>2. log \in Seq(1 .. n) BY <2>1, SeqMonotonic
  <2>3. log' = Append(log, n) BY <1>5, <1>8
  <2> HIDE DEF n
  <2> QED BY <2>1, <2>2, <2>3, Appended
<1>12. /\ stack' \in Seq(B!Frames) /\ stack'[Len(stack) + 1] = frame
       /\ (\A i \in 1 .. Len(stack) : stack'[i] = stack[i]) /\ DOMAIN stack' = 1 .. Len(stack) + 1
  <2>1. stack \in Seq(B!Frames) /\ stack' = Append(stack, frame) BY <1>6, <1>8, BusForms
  <2> HIDE DEF frame
  <2> QED BY <1>9, <2>1, Appended
<1> QED BY <1>1, <1>2, <1>3, <1>4, <1>7, <1>8, <1>9, <1>10, <1>11, <1>12

LEMMA MakesKept == ASSUME BusInv, NEW by \in B!Makers, B!Makes(by) PROVE BusInv'
<1>0. BusTypes /\ Framed /\ LogInOrder /\ HeardSoFar /\ StillToHear /\ StillToTake BY DEF BusInv
<1> DEFINE a == Len(made) + 1
           n == Len(facts) + 1
           m == Len(stack) + 1
<1>1. UNCHANGED <<left, alive, wide, taken, done, heard, born, deaths>> BY DEF B!Makes
<1>2. PICK x \in B!MadeActs, t \in SUBSET B!Ears :
         /\ Len(made) < MaxActs /\ a \in B!Acts /\ made' = Append(made, x) /\ Len(made') = a /\ made' \in Seq(B!MadeActs)
         /\ facts' \in Seq(B!Facts) /\ Len(facts') = n /\ facts'[n] = [kind |-> "act", about |-> a, by |-> by]
         /\ (\A f \in 1 .. Len(facts) : facts'[f] = facts[f])
         /\ had' \in Seq(SUBSET B!Ears) /\ Len(had') = n /\ had'[n] = B!Outsides \ B!Busy
         /\ (\A f \in 1 .. Len(facts) : had'[f] = had[f])
         /\ log' \in Seq(1 .. n) /\ Len(log') = Len(log) + 1 /\ log'[Len(log) + 1] = n
         /\ (\A k \in 1 .. Len(log) : log'[k] = log[k]) /\ DOMAIN log' = 1 .. Len(log) + 1
         /\ stack' \in Seq(B!Frames) /\ stack'[m] = [kind |-> "put", who |-> a, fact |-> n, todo |-> t]
         /\ (\A i \in 1 .. Len(stack) : stack'[i] = stack[i]) /\ DOMAIN stack' = 1 .. m
  BY <1>0, MakesForms
<1>3. /\ Len(made) \in Nat /\ Len(facts) \in Nat /\ Len(log) \in Nat /\ Len(stack) \in Nat /\ DOMAIN stack = 1 .. Len(stack)
      /\ DOMAIN log = 1 .. Len(log) /\ log \in Seq(1 .. Len(facts))
  BY <1>0, BusForms
<1>4. facts'[n].kind = "act" /\ facts'[n].about = a /\ stack'[m].kind = "put" /\ stack'[m].who = a /\ stack'[m].fact = n BY <1>2
<1>5. /\ n \in Nat /\ n = Len(facts) + 1 /\ m = Len(stack) + 1 /\ a = Len(made) + 1
      /\ \A f \in 1 .. n : f \in 1 .. Len(facts) \/ f = n
  BY <1>3
<1>6. /\ \A i \in DOMAIN stack' : (i \in DOMAIN stack /\ stack'[i] = stack[i]) \/ i = m
      /\ \A i \in DOMAIN stack : i \in DOMAIN stack' /\ stack'[i] = stack[i] /\ i < m
      /\ m \in DOMAIN stack'
  BY <1>2, <1>3
<1>7. /\ \A k \in DOMAIN log' : (k \in DOMAIN log /\ log'[k] = log[k]) \/ (k = Len(log) + 1 /\ log'[k] = n)
      /\ \A k \in DOMAIN log : k \in DOMAIN log' /\ log'[k] = log[k]
      /\ Len(log) + 1 \in DOMAIN log'
  BY <1>2, <1>3
<1>8. B!Made = 1 .. Len(made) /\ B!Made' = 1 .. a /\ a \notin B!Made /\ B!Made \subseteq B!Made' /\ a \in B!Made'
  BY <1>2, <1>3 DEF B!Made
<1> HIDE DEF a, n, m
<1>9. \A f : Logged(f) => Logged(f)' BY <1>7 DEF Logged
<1>10. \A f : f = n => Logged(f)' BY <1>2, <1>7 DEF Logged
<1>11. \A e, f : WasHeard(e, f)' <=> WasHeard(e, f) BY <1>1 DEF WasHeard
<1>12. \A e \in B!Ears : ~WasHeard(e, n)
  <2>1. TAKE e \in B!Ears
  <2>2. \A i \in DOMAIN heard[e] : heard[e][i] \in 1 .. Len(facts) BY <1>0, HeardForms
  <2> QED BY <1>3, <1>5, <2>2 DEF WasHeard
<1>13. \A e \in alive : e \in B!Ears BY <1>0 DEF BusTypes, B!TypeOK
<1>14. \A i \in DOMAIN stack : stack[i].kind # "hear" => stack[i].who \in B!Made /\ stack[i].fact \in 1 .. Len(facts)
  <2>1. TAKE i \in DOMAIN stack
  <2>2. HAVE stack[i].kind # "hear"
  <2>3. Logged(stack[i].fact) /\ facts[stack[i].fact].about = stack[i].who BY <1>0, <2>2 DEF Framed, PutFrame
  <2>4. stack[i].fact \in 1 .. Len(facts) BY <1>0, <2>3, LoggedOnes
  <2>5. stack[i].who \in B!Made \cup B!Outsides BY <1>0, <2>3, <2>4 DEF BusTypes
  <2>6. stack[i] \in B!Frames BY <1>0, <1>3, BusForms
  <2>7. stack[i].who \in B!Acts BY <2>2, <2>6, FrameForms
  <2> QED BY <2>4, <2>5, <2>7, EarNumbers
<1>15. BusTypes'
  <2>1. \A e \in B!Ears : heard[e] \in Seq(1 .. n) /\ born[e] \in 0 .. n
    <3>1. TAKE e \in B!Ears
    <3>2. heard[e] \in Seq(1 .. Len(facts)) /\ born[e] \in Nat /\ born[e] <= Len(facts) BY <1>0, HeardForms
    <3>3. 1 .. Len(facts) \subseteq 1 .. n BY <1>3, <1>5
    <3>4. heard[e] \in Seq(1 .. n) BY <3>2, <3>3, SeqMonotonic
    <3> QED BY <1>3, <1>5, <3>2, <3>4
  <2>2. \A f \in 1 .. n : facts'[f].about \in B!Made' \cup B!Outsides
    <3>1. \A f \in 1 .. Len(facts) : facts[f].about \in B!Made \cup B!Outsides BY <1>0 DEF BusTypes
    <3> QED BY <1>2, <1>4, <1>5, <1>8, <3>1
  <2>3. /\ left.fact \in 0 .. Len(facts) /\ left.ears \subseteq B!Ears /\ left \in [fact : Nat, ears : SUBSET B!Ears]
        /\ wide \subseteq B!Ears /\ deaths \in 0 .. MaxDeaths /\ heard \in [B!Ears -> Seq(Nat)] /\ born \in [B!Ears -> Nat]
        /\ alive \subseteq B!Ears /\ alive \cap B!Acts \subseteq B!Made
    BY <1>0 DEF BusTypes, B!TypeOK
  <2>4. left.fact \in 0 .. n BY <1>3, <1>5, <2>3
  <2>5. alive \cap B!Acts \subseteq B!Made' BY <1>8, <2>3
  <2>6. taken \subseteq B!Made' BY <1>0, <1>8, DoneForms
  <2>7. /\ done \in [B!Acts -> Nat]
        /\ \A b \in B!Acts : done[b] <= n /\ (done[b] # 0 => facts'[done[b]].kind = "done" /\ facts'[done[b]].about = b)
    <3>1. done \in [B!Acts -> Nat] BY <1>0, DoneForms
    <3>2. ASSUME NEW b \in B!Acts
          PROVE  done[b] <= n /\ (done[b] # 0 => facts'[done[b]].kind = "done" /\ facts'[done[b]].about = b)
      <4>1. done[b] \in Nat /\ done[b] <= Len(facts) /\ (done[b] # 0 => facts[done[b]].kind = "done" /\ facts[done[b]].about = b)
        BY <1>0, DoneForms
      <4>2. done[b] # 0 => facts'[done[b]] = facts[done[b]] BY <1>2, <1>3, <4>1
      <4> QED BY <1>3, <1>5, <4>1, <4>2
    <3> QED BY <3>1, <3>2
  <2>8. Len(made') <= MaxActs BY <1>2, <1>3, <1>5, EarNumbers
  <2>9. B!TypeOK' BY <1>1, <1>2, <2>1, <2>3, <2>4, <2>6, <2>7, <2>8 DEF B!TypeOK
  <2> QED BY <1>1, <1>2, <2>2, <2>3, <2>5, <2>7, <2>9 DEF BusTypes
<1>16. Framed'
  <2>1. \A i \in DOMAIN stack' : stack'[i].kind = "hear" => stack'[i].who \in alive BY <1>0, <1>4, <1>6 DEF Framed
  <2>2. \A i, j \in DOMAIN stack' :
          i # j /\ (stack'[i].kind = "hear") = (stack'[j].kind = "hear") => stack'[i].who # stack'[j].who
    <3>1. TAKE i, j \in DOMAIN stack'
    <3>2. HAVE i # j /\ (stack'[i].kind = "hear") = (stack'[j].kind = "hear")
    <3>3. CASE i = m
      <4>1. j \in DOMAIN stack /\ stack'[j] = stack[j] /\ stack[j].kind # "hear" BY <1>4, <1>6, <3>2, <3>3
      <4>2. stack[j].who \in B!Made BY <1>14, <4>1
      <4> QED BY <1>4, <1>8, <3>3, <4>1, <4>2
    <3>4. CASE j = m
      <4>1. i \in DOMAIN stack /\ stack'[i] = stack[i] /\ stack[i].kind # "hear" BY <1>4, <1>6, <3>2, <3>4
      <4>2. stack[i].who \in B!Made BY <1>14, <4>1
      <4> QED BY <1>4, <1>8, <3>4, <4>1, <4>2
    <3>5. CASE i # m /\ j # m
      <4>1. i \in DOMAIN stack /\ j \in DOMAIN stack /\ stack'[i] = stack[i] /\ stack'[j] = stack[j] BY <1>6, <3>5
      <4> QED BY <1>0, <3>2, <4>1 DEF Framed
    <3> QED BY <3>3, <3>4, <3>5
  <2>3. ASSUME NEW i \in DOMAIN stack', stack'[i].kind # "hear" PROVE PutFrame(i)'
    <3>1. CASE i \in DOMAIN stack /\ stack'[i] = stack[i]
      <4>1. PutFrame(i) BY <1>0, <2>3, <3>1 DEF Framed
      <4>2. HearersBelow(stack', i) = HearersBelow(stack, i)
        <5>1. \A k \in DOMAIN stack' : k < i => k \in DOMAIN stack BY <1>2, <1>3, <1>5, <1>6, <3>1
        <5>2. \A k \in DOMAIN stack : k < i => k \in DOMAIN stack' /\ stack'[k] = stack[k] BY <1>6
        <5> QED BY <5>1, <5>2, HearersSame
      <4>3. facts'[stack[i].fact] = facts[stack[i].fact] /\ had'[stack[i].fact] = had[stack[i].fact]
        BY <1>2, <1>14, <2>3, <3>1
      <4>4. Logged(stack[i].fact) /\ (stack[i].kind = "put" => stack[i].who \notin alive) BY <4>1 DEF PutFrame
      <4>5. Logged(stack[i].fact)'
        <5>1. \A x_ : x_ = stack[i].fact => Logged(x_)' BY <1>9, <4>4
        <5> QED BY <3>1, <5>1
      <4>6. \A e : WasHeard(e, stack[i].fact)' => WasHeard(e, stack[i].fact) BY <1>11, <3>1
      <4> QED BY <1>1, <3>1, <4>1, <4>2, <4>3, <4>4, <4>5, <4>6, PutFrameKept
    <3>2. CASE i = m
      <4>1. HearersBelow(stack', m) = B!Busy
        <5>1. HearersBelow(stack', m) = HearersBelow(stack, m)
          <6>1. \A k \in DOMAIN stack : k < m => k \in DOMAIN stack' /\ stack'[k] = stack[k] BY <1>6
          <6>2. \A k \in DOMAIN stack' : k < m => k \in DOMAIN stack BY <1>2, <1>3, <1>5
          <6> QED BY <6>1, <6>2, HearersSame
        <5>2. B!Busy = HearersBelow(stack, m) BY <1>0, <1>5, BusyBelow
        <5> QED BY <5>1, <5>2
      <4>2. a \notin alive
        <5>1. alive \cap B!Acts \subseteq B!Made BY <1>0 DEF BusTypes
        <5> QED BY <1>2, <1>8, <5>1
      <4>3. had'[n] \cap HearersBelow(stack', m) = {} /\ B!Outsides \ HearersBelow(stack', m) \subseteq had'[n] BY <1>2, <4>1
      <4>4. stack'[i].kind = "put" /\ stack'[i].who = a /\ stack'[i].fact = n /\ i = m BY <1>4, <3>2
      <4>5. \A e \in B!Outsides : ~\E k \in DOMAIN heard'[e] : heard'[e][k] = stack'[i].fact
        <5>1. \A e \in B!Outsides : ~\E k \in DOMAIN heard[e] : heard[e][k] = n BY <1>12, EarNumbers DEF WasHeard
        <5> QED BY <1>1, <4>4, <5>1
      <4>6. \E k \in DOMAIN log' : log'[k] = stack'[i].fact BY <1>2, <1>7, <4>4
      <4>7. stack'[i].who \notin alive' BY <1>1, <4>2, <4>4
      <4>8. /\ facts'[stack'[i].fact].kind = "act" /\ facts'[stack'[i].fact].about = stack'[i].who
            /\ had'[stack'[i].fact] \cap HearersBelow(stack', i) = {} /\ B!Outsides \ HearersBelow(stack', i) \subseteq had'[stack'[i].fact]
        BY <1>4, <4>3, <4>4
      <4>9. stack'[i].kind # "offer" BY <4>4
      <4> QED BY <4>5, <4>6, <4>7, <4>8, <4>9 DEF PutFrame, Logged, WasHeard, B!Outsides
    <3> QED BY <1>6, <3>1, <3>2
  <2> QED BY <1>1, <2>1, <2>2, <2>3 DEF Framed
<1>17. LogInOrder'
  <2>1. \A k \in DOMAIN log : log[k] \in Nat /\ log[k] < n BY <1>3, <1>5
  <2>2. \A i, j \in DOMAIN log' : i < j => log'[i] < log'[j]
    <3>1. TAKE i, j \in DOMAIN log'
    <3>2. HAVE i < j
    <3>3. i \in DOMAIN log /\ log'[i] = log[i] BY <1>2, <1>3, <1>7, <3>2
    <3>4. CASE j \in DOMAIN log /\ log'[j] = log[j] BY <1>0, <3>2, <3>3, <3>4 DEF LogInOrder
    <3>5. CASE log'[j] = n BY <2>1, <3>3, <3>5
    <3> QED BY <1>7, <3>4, <3>5
  <2>3. left.fact < n
    <3>1. left.fact \in 0 .. Len(facts) BY <1>0 DEF BusTypes, B!TypeOK
    <3> QED BY <1>3, <1>5, <3>1
  <2>4. \A i \in DOMAIN log' : left.fact < log'[i] BY <1>0, <1>7, <2>3 DEF LogInOrder
  <2>5. left.ears # {} => left.fact # 0 BY <1>0 DEF LogInOrder
  <2> QED BY <1>1, <2>2, <2>4, <2>5 DEF LogInOrder
<1>18. HeardSoFar'
  <2>1. \A e \in B!Ears : \A i \in DOMAIN heard[e] : heard[e][i] \in 1 .. Len(facts) /\ facts'[heard[e][i]] = facts[heard[e][i]]
    <3>1. \A e \in B!Ears : \A i \in DOMAIN heard[e] : heard[e][i] \in 1 .. Len(facts) BY <1>0, HeardForms
    <3> QED BY <1>2, <3>1
  <2>2. B!HeardOnce' BY <1>0, <1>1 DEF HeardSoFar, B!HeardOnce
  <2>3. B!HeardInOrder'
    <3>1. SUFFICES ASSUME NEW e \in B!Ears, NEW i \in DOMAIN heard[e], NEW j \in DOMAIN heard[e],
                          i < j, facts'[heard[e][i]].kind # "act", facts'[heard[e][j]].kind # "act"
                   PROVE  heard[e][i] < heard[e][j]
      BY <1>1 DEF B!HeardInOrder
    <3>2. facts'[heard[e][i]] = facts[heard[e][i]] /\ facts'[heard[e][j]] = facts[heard[e][j]] BY <2>1
    <3> QED BY <1>0, <3>1, <3>2 DEF HeardSoFar, B!HeardInOrder
  <2>4. \A e \in B!Ears : \A k \in DOMAIN log' : WasHeard(e, log[k])' => e \in had'[log'[k]]
    <3>1. SUFFICES ASSUME NEW e \in B!Ears, NEW k \in DOMAIN log', NEW f, f = log'[k], WasHeard(e, f)
                   PROVE  e \in had'[f]
      BY <1>11
    <3>2. f # n BY <1>12, <3>1
    <3>3. k \in DOMAIN log /\ log[k] = f BY <1>7, <3>1, <3>2
    <3>4. e \in had[f] /\ f \in 1 .. Len(facts) BY <1>0, <1>3, <3>1, <3>3 DEF HeardSoFar
    <3> QED BY <1>2, <3>4
  <2>5. \A e \in left.ears : ~WasHeard(e, left.fact)' BY <1>0, <1>1 DEF HeardSoFar, WasHeard
  <2>6. \A e \in B!Ears : \A i \in DOMAIN heard[e] : facts'[heard[e][i]].kind # "act" => heard[e][i] <= left.fact
    BY <1>0, <2>1 DEF HeardSoFar
  <2> QED BY <1>1, <2>2, <2>3, <2>4, <2>5, <2>6 DEF HeardSoFar
<1>19. StillToHear'
  <2>1. SUFFICES ASSUME NEW e \in alive, NEW f \in 1 .. n, f > born[e] PROVE Awaited(e, f)'
    BY <1>1, <1>2 DEF StillToHear
  <2>2. CASE f = n
    <3>1. CASE e \in B!Outsides \ B!Busy
      <4>1. stack'[m].kind # "hear" /\ stack'[m].fact = f /\ stack'[m].kind = "put" BY <1>4, <2>2
      <4> QED BY <1>6, <3>1, <4>1 DEF Awaited, B!Outsides
    <3>2. CASE e \notin B!Outsides \ B!Busy
      <4>1. Logged(f)' /\ e \notin had'[f] BY <1>2, <1>10, <2>2, <3>2
      <4> QED BY <4>1 DEF Awaited
    <3> QED BY <3>1, <3>2
  <2>3. CASE f \in 1 .. Len(facts)
    <3>1. Awaited(e, f) BY <1>0, <2>1, <2>3 DEF StillToHear
    <3>2. facts'[f] = facts[f] /\ had'[f] = had[f] BY <1>2, <2>3
    <3>3. CASE e \notin wide \cup B!Named(facts[f])
      <4>1. B!Named(facts[f])' = B!Named(facts[f]) BY <1>0, <1>2, <2>3, <3>2, NamedStays
      <4> QED BY <1>1, <3>3, <4>1 DEF Awaited
    <3>4. CASE WasHeard(e, f)
      <4>1. WasHeard(e, f)' BY <1>11, <3>4
      <4> QED BY <4>1 DEF Awaited
    <3>5. CASE Logged(f) /\ e \notin had[f]
      <4>1. Logged(f)' BY <1>9, <3>5
      <4> QED BY <3>2, <3>5, <4>1 DEF Awaited
    <3>6. CASE left.fact = f /\ e \in left.ears BY <1>1, <3>6 DEF Awaited
    <3>7. CASE facts[f].kind = "act" /\ (facts[f].about = e \/ (e \in B!Outsides /\ facts[f].about \in taken))
      BY <1>1, <3>2, <3>7 DEF Awaited, B!Outsides
    <3>8. ASSUME e \in B!Outsides, NEW i \in DOMAIN stack, stack[i].kind # "hear", stack[i].fact = f,
                 stack[i].kind = "put" \/ e \in stack[i].todo
          PROVE  Awaited(e, f)'
      <4>1. i \in DOMAIN stack' /\ stack'[i] = stack[i] BY <1>6, <3>8
      <4> QED BY <3>8, <4>1 DEF Awaited, B!Outsides
    <3> QED BY <3>1, <3>3, <3>4, <3>5, <3>6, <3>7, <3>8 DEF Awaited
  <2> QED BY <1>5, <2>2, <2>3
<1>20. StillToTake'
  <2>1. SUFFICES ASSUME NEW f \in 1 .. n, facts'[f].kind = "act", facts'[f].about \notin taken PROVE TurnsLeft(f)'
    BY <1>1, <1>2 DEF StillToTake
  <2>2. CASE f = n BY <1>4, <1>6, <2>2 DEF TurnsLeft
  <2>3. CASE f \in 1 .. Len(facts)
    <3>1. TurnsLeft(f) /\ had'[f] = had[f] BY <1>0, <1>2, <2>1, <2>3 DEF StillToTake
    <3>2. CASE B!Outsides \ had[f] # {} BY <3>1, <3>2 DEF TurnsLeft, B!Outsides
    <3>3. CASE \E i \in DOMAIN stack : stack[i].kind # "hear" /\ stack[i].fact = f BY <1>6, <3>3 DEF TurnsLeft
    <3> QED BY <3>1, <3>2, <3>3 DEF TurnsLeft
  <2> QED BY <1>5, <2>2, <2>3
<1> QED BY <1>15, <1>16, <1>17, <1>18, <1>19, <1>20 DEF BusInv

(* An act has its turns with the ears: the frame on top becomes the frame g, over it w hears, x hears the act, and    *)
(* the act was put to the ears of h.                                                                                   *)

TakesTurn(g, w, x, h) ==
  /\ UNCHANGED <<made, facts, log, left, wide, taken, done, deaths>>
  /\ g \in B!Frames /\ g.kind # "hear" /\ g.who = B!Top.who /\ g.fact = B!Top.fact
  /\ stack' \in Seq(B!Frames) /\ (\A i \in 1 .. Len(stack) - 1 : stack'[i] = stack[i]) /\ stack'[Len(stack)] = g
  /\ IF w = 0 THEN DOMAIN stack' = 1 .. Len(stack)
     ELSE /\ DOMAIN stack' = 1 .. Len(stack) + 1 /\ stack'[Len(stack) + 1].kind = "hear" /\ stack'[Len(stack) + 1].who = w
          /\ w \in alive' /\ w \notin B!Busy
  /\ h \subseteq B!Ears /\ had[B!Top.fact] \subseteq h /\ h \cap B!Busy = {} /\ had' = [had EXCEPT ![B!Top.fact] = h]
  /\ IF x = 0 THEN heard' = heard
     ELSE x \in h /\ ~WasHeard(x, B!Top.fact) /\ heard' = [heard EXCEPT ![x] = Append(@, B!Top.fact)]
  /\ \/ alive' = alive /\ born' = born
     \/ /\ B!Top.kind = "put" /\ g.kind = "offer" /\ alive' = alive \cup {B!Top.who}
        /\ born' = [born EXCEPT ![B!Top.who] = Len(facts)]
  /\ g.kind = "put" => B!Top.kind = "put" /\ x \notin B!Outsides
  /\ g.kind = "offer" => g.todo \subseteq B!Outsides /\ \A e \in g.todo : ~WasHeard(e, B!Top.fact) /\ e # x
  /\ \A e \in alive \cap B!Outsides : B!Top.kind = "put" \/ e \in B!Top.todo =>
       g.kind = "put" \/ e \in g.todo \/ e = x \/ B!Top.who \in taken \/ e \notin h
  /\ \A e \in alive : e \in h => e \in had[B!Top.fact] \/ e = x

LEMMA TurnForms ==
  ASSUME BusTypes, Framed, stack # <<>>, B!Top.kind # "hear"
  PROVE  /\ B!Top = stack[Len(stack)] /\ Len(stack) \in DOMAIN stack /\ B!Top \in B!Frames /\ PutFrame(Len(stack))
         /\ B!Top.fact \in 1 .. Len(facts) /\ B!Top.who \in B!Made /\ B!Top.who \in B!Acts /\ Logged(B!Top.fact)
         /\ facts[B!Top.fact].kind = "act" /\ facts[B!Top.fact].about = B!Top.who /\ Len(stack) \in Nat
         /\ DOMAIN stack = 1 .. Len(stack) /\ Len(stack) >= 1 /\ B!Busy = HearersBelow(stack, Len(stack))
         /\ \A i \in DOMAIN stack : i # Len(stack) /\ stack[i].kind # "hear" =>
              stack[i].who # B!Top.who /\ stack[i].fact # B!Top.fact
<1>1. /\ B!Top = stack[Len(stack)] /\ Len(stack) \in DOMAIN stack /\ B!Top \in B!Frames /\ Len(stack) \in Nat
      /\ DOMAIN stack = 1 .. Len(stack) /\ Len(stack) >= 1
  BY PopForms
<1>2. PutFrame(Len(stack)) BY <1>1 DEF Framed
<1>3. Logged(B!Top.fact) /\ facts[B!Top.fact].kind = "act" /\ facts[B!Top.fact].about = B!Top.who BY <1>1, <1>2 DEF PutFrame
<1>4. B!Top.fact \in 1 .. Len(facts) BY <1>3, LoggedOnes
<1>5. B!Top.who \in B!Made /\ B!Top.who \in B!Acts
  <2>1. facts[B!Top.fact].about \in B!Made \cup B!Outsides BY <1>4 DEF BusTypes
  <2>2. B!Top.who \in B!Acts BY <1>1, FrameForms
  <2> QED BY <1>3, <2>1, <2>2, EarNumbers
<1>6. B!Busy = HearersBelow(stack, Len(stack)) BY BusyBelowTop
<1>7. ASSUME NEW i \in DOMAIN stack, i # Len(stack), stack[i].kind # "hear"
      PROVE  stack[i].who # B!Top.who /\ stack[i].fact # B!Top.fact
  <2>1. stack[i].who # B!Top.who BY <1>1, <1>7 DEF Framed
  <2>2. facts[stack[i].fact].about = stack[i].who BY <1>7 DEF Framed, PutFrame
  <2> QED BY <1>3, <2>1, <2>2
<1> QED BY <1>1, <1>2, <1>3, <1>4, <1>5, <1>6, <1>7

\* A sequence with one more at its end, under a name that the provers do not expand.
Pushed(s, x) == Append(s, x)

LEMMA PushedForms ==
  ASSUME NEW Elems, NEW s \in Seq(Elems), NEW x \in Elems
  PROVE  /\ Pushed(s, x) \in Seq(Elems) /\ Len(Pushed(s, x)) = Len(s) + 1 /\ Pushed(s, x)[Len(s) + 1] = x
         /\ (\A i \in 1 .. Len(s) : Pushed(s, x)[i] = s[i]) /\ DOMAIN Pushed(s, x) = 1 .. Len(s) + 1 /\ Len(s) \in Nat
BY DEF Pushed

LEMMA PushedFrames ==
  ASSUME NEW s \in Seq(B!Frames), NEW x \in B!Frames
  PROVE  /\ Pushed(s, x) \in Seq(B!Frames) /\ Len(Pushed(s, x)) = Len(s) + 1 /\ Pushed(s, x)[Len(s) + 1] = x
         /\ (\A i \in 1 .. Len(s) : Pushed(s, x)[i] = s[i]) /\ DOMAIN Pushed(s, x) = 1 .. Len(s) + 1 /\ Len(s) \in Nat
BY PushedForms

LEMMA PushedFacts ==
  ASSUME BusTypes, NEW e \in B!Ears, NEW x \in 1 .. Len(facts)
  PROVE  /\ Pushed(heard[e], x) \in Seq(1 .. Len(facts)) /\ Pushed(heard[e], x)[Len(heard[e]) + 1] = x
         /\ (\A i \in 1 .. Len(heard[e]) : Pushed(heard[e], x)[i] = heard[e][i])
         /\ DOMAIN Pushed(heard[e], x) = 1 .. Len(heard[e]) + 1 /\ Len(heard[e]) \in Nat
<1>1. heard[e] \in Seq(1 .. Len(facts)) BY HeardForms
<1>2. PICK n, s : n = Len(facts) /\ s = heard[e] OBVIOUS
<1>3. PICK p : p = Pushed(s, x) OBVIOUS
<1>4. s \in Seq(1 .. n) /\ x \in 1 .. n BY <1>1, <1>2
<1>5. p \in Seq(1 .. n) /\ p[Len(s) + 1] = x /\ (\A i \in 1 .. Len(s) : p[i] = s[i]) /\ DOMAIN p = 1 .. Len(s) + 1 /\ Len(s) \in Nat
  BY <1>3, <1>4 DEF Pushed
<1> QED BY <1>2, <1>3, <1>5

LEMMA HeardOneMore ==
  ASSUME BusTypes, NEW x \in B!Ears, NEW n \in 1 .. Len(facts), heard' = [heard EXCEPT ![x] = Append(@, n)]
  PROVE  /\ \A e \in B!Ears : heard'[e] = heard[e] \/ (e = x /\ heard'[e] = Append(heard[e], n))
         /\ \A e \in B!Ears : \A f : WasHeard(e, f) => WasHeard(e, f)'
         /\ \A e \in B!Ears : \A f : WasHeard(e, f)' => WasHeard(e, f) \/ (e = x /\ f = n)
         /\ \A e \in B!Ears : \A f : e = x /\ f = n => WasHeard(e, f)'
         /\ \A e \in B!Ears : heard'[e] \in Seq(1 .. Len(facts))
         /\ heard' \in [B!Ears -> Seq(Nat)]
<1>2. heard \in [B!Ears -> Seq(Nat)] BY DEF BusTypes
<1>3. \A e \in B!Ears : e # x => heard'[e] = heard[e] BY <1>2
<1>4. heard'[x] = Append(heard[x], n) BY <1>2
<1>5. heard[x] \in Seq(1 .. Len(facts)) BY HeardForms
<1>6. /\ heard'[x] \in Seq(1 .. Len(facts)) /\ heard'[x][Len(heard[x]) + 1] = n
      /\ (\A i \in 1 .. Len(heard[x]) : heard'[x][i] = heard[x][i])
      /\ DOMAIN heard'[x] = 1 .. Len(heard[x]) + 1 /\ Len(heard[x]) \in Nat
  <2>1. heard'[x] = Pushed(heard[x], n) BY <1>4 DEF Pushed
  <2> QED BY <2>1, PushedFacts
<1>7. DOMAIN heard[x] = 1 .. Len(heard[x]) BY <1>5
<1>8. \A f : WasHeard(x, f) => \E k \in DOMAIN heard'[x] : heard'[x][k] = f
  <2>1. ASSUME NEW f, NEW k \in DOMAIN heard[x], heard[x][k] = f PROVE \E l \in DOMAIN heard'[x] : heard'[x][l] = f
    <3>1. k \in DOMAIN heard'[x] /\ heard'[x][k] = f BY <1>6, <1>7, <2>1
    <3> QED BY <3>1
  <2> QED BY <2>1 DEF WasHeard
<1>9. \A f : (\E k \in DOMAIN heard'[x] : heard'[x][k] = f) => WasHeard(x, f) \/ f = n
  <2>1. ASSUME NEW f, NEW k \in DOMAIN heard'[x], heard'[x][k] = f PROVE WasHeard(x, f) \/ f = n
    <3>1. CASE k \in DOMAIN heard[x] BY <1>6, <1>7, <2>1, <3>1 DEF WasHeard
    <3>2. CASE k = Len(heard[x]) + 1 BY <1>6, <2>1, <3>2
    <3> QED BY <1>6, <1>7, <3>1, <3>2
  <2> QED BY <2>1
<1>10. \E k \in DOMAIN heard'[x] : heard'[x][k] = n
  <2>1. Len(heard[x]) + 1 \in DOMAIN heard'[x] BY <1>6
  <2> QED BY <1>6, <2>1
<1>11. \A e \in B!Ears : heard[e] \in Seq(1 .. Len(facts)) BY HeardForms
<1>12. \A e \in B!Ears : heard'[e] \in Seq(1 .. Len(facts)) BY <1>3, <1>6, <1>11
<1>13. heard' \in [B!Ears -> Seq(Nat)]
  <2>1. Append(heard[x], n) \in Seq(Nat)
    <3>1. heard[x] \in Seq(Nat) /\ n \in Nat BY <1>2
    <3> QED BY <3>1
  <2> QED BY <1>2, <2>1
<1>14. \A e \in B!Ears : heard'[e] = heard[e] \/ (e = x /\ heard'[e] = Append(heard[e], n)) BY <1>3, <1>4
<1>15. \A e \in B!Ears : \A f : WasHeard(e, f) => WasHeard(e, f)' BY <1>3, <1>8 DEF WasHeard
<1>16. \A e \in B!Ears : \A f : WasHeard(e, f)' => WasHeard(e, f) \/ (e = x /\ f = n) BY <1>3, <1>9 DEF WasHeard
<1>17. \A e \in B!Ears : \A f : e = x /\ f = n => WasHeard(e, f)' BY <1>10 DEF WasHeard
<1> QED BY <1>12, <1>13, <1>14, <1>15, <1>16, <1>17

\* An ear that hears one fact more, which it did not hear, and which is an act or the one dispatched.
LEMMA HeardMore ==
  ASSUME BusTypes, HeardSoFar, NEW e \in B!Ears, NEW f \in 1 .. Len(facts), ~WasHeard(e, f),
         facts[f].kind # "act" => f = left.fact, NEW s, s = Append(heard[e], f)
  PROVE  /\ B!IsInjective(s)
         /\ \A i, j \in DOMAIN s : i < j /\ facts[s[i]].kind # "act" /\ facts[s[j]].kind # "act" => s[i] < s[j]
         /\ \A i \in DOMAIN s : facts[s[i]].kind # "act" => s[i] <= left.fact
<1>0. heard[e] \in Seq(1 .. Len(facts)) /\ DOMAIN heard[e] = 1 .. Len(heard[e]) BY HeardForms
<1>1. /\ s[Len(heard[e]) + 1] = f /\ (\A i \in 1 .. Len(heard[e]) : s[i] = heard[e][i])
      /\ DOMAIN s = 1 .. Len(heard[e]) + 1 /\ Len(heard[e]) \in Nat
  <2>1. s = Pushed(heard[e], f) BY DEF Pushed
  <2> QED BY <2>1, PushedFacts
<1>2. left.fact \in Nat /\ f \in Nat /\ \A i \in DOMAIN heard[e] : heard[e][i] \in Nat
  <2>1. left.fact \in Nat BY DEF BusTypes
  <2>2. \A i \in DOMAIN heard[e] : heard[e][i] \in 1 .. Len(facts) BY HeardForms
  <2> QED BY <2>1, <2>2
<1>3. \A i \in DOMAIN heard[e] : heard[e][i] # f BY DEF WasHeard
<1>4. /\ B!IsInjective(heard[e])
      /\ \A i, j \in DOMAIN heard[e] : i < j /\ facts[heard[e][i]].kind # "act" /\ facts[heard[e][j]].kind # "act"
                                       => heard[e][i] < heard[e][j]
      /\ \A i \in DOMAIN heard[e] : facts[heard[e][i]].kind # "act" => heard[e][i] <= left.fact
  BY DEF HeardSoFar, B!HeardOnce, B!HeardInOrder
<1>5. \A i \in DOMAIN s : \/ i \in DOMAIN heard[e] /\ s[i] = heard[e][i]
                          \/ i = Len(heard[e]) + 1 /\ s[i] = f
  <2>1. TAKE i \in DOMAIN s
  <2>2. i \in DOMAIN heard[e] \/ i = Len(heard[e]) + 1 BY <1>0, <1>1
  <2>3. CASE i \in DOMAIN heard[e] BY <1>0, <1>1, <2>3
  <2>4. CASE i = Len(heard[e]) + 1 BY <1>1, <2>4
  <2> QED BY <2>2, <2>3, <2>4
<1>6. \A i, j \in DOMAIN heard[e] : heard[e][i] = heard[e][j] => i = j BY <1>4 DEF B!IsInjective
<1>7. \A i, j \in DOMAIN s : s[i] = s[j] => i = j BY <1>3, <1>5, <1>6
<1>8. B!IsInjective(s) BY <1>7 DEF B!IsInjective
<1>9. \A i \in DOMAIN s : facts[s[i]].kind # "act" => s[i] <= left.fact
  <2>1. TAKE i \in DOMAIN s
  <2>2. HAVE facts[s[i]].kind # "act"
  <2>3. CASE i \in DOMAIN heard[e] /\ s[i] = heard[e][i] BY <1>4, <2>2, <2>3
  <2>4. CASE s[i] = f BY <1>2, <2>2, <2>4
  <2> QED BY <1>5, <2>3, <2>4
<1>10. ASSUME NEW i \in DOMAIN s, NEW j \in DOMAIN s, i < j, facts[s[i]].kind # "act", facts[s[j]].kind # "act"
       PROVE  s[i] < s[j]
  <2>1. i \in DOMAIN heard[e] /\ s[i] = heard[e][i]
    <3>1. i # Len(heard[e]) + 1 BY <1>1, <1>10
    <3> QED BY <1>5, <3>1
  <2>2. CASE j \in DOMAIN heard[e] /\ s[j] = heard[e][j] BY <1>4, <1>10, <2>1, <2>2
  <2>3. CASE s[j] = f
    <3>1. heard[e][i] <= left.fact /\ f = left.fact /\ heard[e][i] # f BY <1>3, <1>4, <1>10, <2>1, <2>3
    <3> QED BY <1>2, <2>1, <2>3, <3>1
  <2> QED BY <1>5, <2>2, <2>3
<1> QED BY <1>8, <1>9, <1>10

LEMMA TurnHeard ==
  ASSUME BusTypes, Framed, stack # <<>>, B!Top.kind # "hear", NEW g, NEW w, NEW x, NEW h, TakesTurn(g, w, x, h)
  PROVE  /\ \A e \in B!Ears : heard'[e] = heard[e] \/ (e = x /\ heard'[e] = Append(heard[e], B!Top.fact))
         /\ \A e \in B!Ears : \A f : WasHeard(e, f) => WasHeard(e, f)'
         /\ \A e \in B!Ears : \A f : WasHeard(e, f)' => WasHeard(e, f) \/ (e = x /\ f = B!Top.fact)
         /\ \A e \in B!Ears : \A f : x # 0 /\ e = x /\ f = B!Top.fact => WasHeard(e, f)'
         /\ \A e \in B!Ears : heard'[e] \in Seq(1 .. Len(facts))
         /\ heard' \in [B!Ears -> Seq(Nat)]
<1>1. B!Top.fact \in 1 .. Len(facts) BY TurnForms
<1>2. h \subseteq B!Ears BY DEF TakesTurn
<1>3. CASE x = 0
  <2>1. heard' = heard BY <1>3 DEF TakesTurn
  <2>2. \A e \in B!Ears : heard[e] \in Seq(1 .. Len(facts)) BY HeardForms
  <2>3. heard \in [B!Ears -> Seq(Nat)] BY DEF BusTypes
  <2>4. \A e \in B!Ears : e # x BY <1>3, EarNumbers
  <2> QED BY <1>3, <2>1, <2>2, <2>3, <2>4 DEF WasHeard
<1>4. CASE x # 0
  <2>1. x \in B!Ears /\ heard' = [heard EXCEPT ![x] = Append(@, B!Top.fact)] BY <1>2, <1>4 DEF TakesTurn
  <2>2. \A n \in 1 .. Len(facts) : heard' = [heard EXCEPT ![x] = Append(@, n)] =>
          /\ \A e \in B!Ears : heard'[e] = heard[e] \/ (e = x /\ heard'[e] = Append(heard[e], n))
          /\ \A e \in B!Ears : \A f : WasHeard(e, f) => WasHeard(e, f)'
          /\ \A e \in B!Ears : \A f : WasHeard(e, f)' => WasHeard(e, f) \/ (e = x /\ f = n)
          /\ \A e \in B!Ears : \A f : e = x /\ f = n => WasHeard(e, f)'
          /\ \A e \in B!Ears : heard'[e] \in Seq(1 .. Len(facts))
          /\ heard' \in [B!Ears -> Seq(Nat)]
    BY <2>1, HeardOneMore
  <2> QED BY <1>1, <2>1, <2>2
<1> QED BY <1>3, <1>4

LEMMA TurnFrames ==
  ASSUME BusTypes, Framed, stack # <<>>, B!Top.kind # "hear", NEW g, NEW w, NEW x, NEW h, TakesTurn(g, w, x, h)
  PROVE  /\ \A i \in DOMAIN stack' : \/ i < Len(stack) /\ i \in DOMAIN stack /\ stack'[i] = stack[i]
                                     \/ i = Len(stack) /\ stack'[i] = g
                                     \/ i = Len(stack) + 1 /\ w # 0 /\ stack'[i].kind = "hear" /\ stack'[i].who = w
         /\ \A i \in DOMAIN stack : i # Len(stack) => i \in DOMAIN stack' /\ stack'[i] = stack[i]
         /\ Len(stack) \in DOMAIN stack' /\ stack'[Len(stack)] = g
         /\ \A i \in DOMAIN stack : HearersBelow(stack', i) = HearersBelow(stack, i)
<1>1. DOMAIN stack = 1 .. Len(stack) /\ Len(stack) \in Nat /\ Len(stack) >= 1 BY TurnForms
<1>2. /\ (\A i \in 1 .. Len(stack) - 1 : stack'[i] = stack[i]) /\ stack'[Len(stack)] = g
      /\ IF w = 0 THEN DOMAIN stack' = 1 .. Len(stack)
         ELSE DOMAIN stack' = 1 .. Len(stack) + 1 /\ stack'[Len(stack) + 1].kind = "hear" /\ stack'[Len(stack) + 1].who = w
  BY DEF TakesTurn
<1>3. \A i \in DOMAIN stack : i # Len(stack) => i \in 1 .. Len(stack) - 1 BY <1>1
<1>4. \A i \in 1 .. Len(stack) - 1 : i \in DOMAIN stack /\ i < Len(stack) BY <1>1
<1>5. \A i \in DOMAIN stack' : i \in 1 .. Len(stack) - 1 \/ i = Len(stack) \/ (i = Len(stack) + 1 /\ w # 0) BY <1>1, <1>2
<1>6. \A i \in DOMAIN stack : i \in DOMAIN stack' BY <1>1, <1>2
<1>7. ASSUME NEW i \in DOMAIN stack PROVE HearersBelow(stack', i) = HearersBelow(stack, i)
  <2>1. \A k \in DOMAIN stack : k < i => k \in DOMAIN stack' /\ stack'[k] = stack[k]
    <3>1. TAKE k \in DOMAIN stack
    <3>2. HAVE k < i
    <3>3. k \in 1 .. Len(stack) - 1 BY <1>1, <3>2
    <3> QED BY <1>2, <1>6, <3>3
  <2>2. \A k \in DOMAIN stack' : k < i => k \in DOMAIN stack BY <1>1, <1>5
  <2> QED BY <2>1, <2>2, HearersSame
<1>8. Len(stack) \in DOMAIN stack' BY <1>1, <1>6
<1> QED BY <1>2, <1>3, <1>4, <1>5, <1>6, <1>7, <1>8

LEMMA TurnTypes ==
  ASSUME BusTypes, Framed, stack # <<>>, B!Top.kind # "hear", NEW g, NEW w, NEW x, NEW h, TakesTurn(g, w, x, h)
  PROVE  BusTypes'
<1>a. UNCHANGED <<made, facts, log, left, wide, taken, done, deaths>> /\ stack' \in Seq(B!Frames) BY DEF TakesTurn
<1>b. h \subseteq B!Ears /\ had' = [had EXCEPT ![B!Top.fact] = h] BY DEF TakesTurn
<1>c. \/ alive' = alive /\ born' = born
      \/ alive' = alive \cup {B!Top.who} /\ born' = [born EXCEPT ![B!Top.who] = Len(facts)]
  BY DEF TakesTurn
<1>1. /\ UNCHANGED <<made, facts, log, left, wide, taken, done, deaths>> /\ stack' \in Seq(B!Frames)
      /\ h \subseteq B!Ears /\ had' = [had EXCEPT ![B!Top.fact] = h]
      /\ \/ alive' = alive /\ born' = born
         \/ alive' = alive \cup {B!Top.who} /\ born' = [born EXCEPT ![B!Top.who] = Len(facts)]
  BY <1>a, <1>b, <1>c
<1>2. B!Top.fact \in 1 .. Len(facts) /\ B!Top.who \in B!Made /\ B!Top.who \in B!Acts BY TurnForms
<1>3. B!Top.who \in B!Ears BY <1>2, EarNumbers
<1>4. had' \in Seq(SUBSET B!Ears) /\ Len(had') = Len(facts)
  <2>1. had \in Seq(SUBSET B!Ears) /\ Len(had) = Len(facts) /\ h \in SUBSET B!Ears BY <1>1, BusForms
  <2> QED BY <1>1, <1>2, <2>1, ExceptSeq
<1>5. /\ made \in Seq(B!MadeActs) /\ Len(made) <= MaxActs /\ facts \in Seq(B!Facts) /\ log \in Seq(1 .. Len(facts))
      /\ left.ears \subseteq B!Ears /\ left.fact \in 0 .. Len(facts) /\ alive \subseteq B!Ears /\ wide \subseteq B!Ears
      /\ taken \subseteq B!Made /\ deaths \in 0 .. MaxDeaths
      /\ \A a \in B!Acts : done[a] # 0 => facts[done[a]].kind = "done" /\ facts[done[a]].about = a
  BY DEF BusTypes, B!TypeOK
<1>6. /\ alive \cap B!Acts \subseteq B!Made /\ (\A f \in 1 .. Len(facts) : facts[f].about \in B!Made \cup B!Outsides)
      /\ done \in [B!Acts -> Nat] /\ (\A a \in B!Acts : done[a] <= Len(facts)) /\ left \in [fact : Nat, ears : SUBSET B!Ears]
  BY DEF BusTypes
<1>7. alive' \subseteq B!Ears /\ alive' \cap B!Acts \subseteq B!Made BY <1>1, <1>2, <1>3, <1>5, <1>6
<1>8. (\A e \in B!Ears : born'[e] \in 0 .. Len(facts)) /\ born' \in [B!Ears -> Nat]
  <2>1. born \in [B!Ears -> Nat] BY DEF BusTypes
  <2>2. \A e \in B!Ears : born[e] \in 0 .. Len(facts) BY DEF BusTypes, B!TypeOK
  <2>3. Len(facts) \in Nat /\ Len(facts) \in 0 .. Len(facts)
    <3>1. Len(facts) \in Nat BY BusForms
    <3> QED BY <3>1
  <2> QED BY <1>1, <1>3, <2>1, <2>2, <2>3
<1>9. (\A e \in B!Ears : heard'[e] \in Seq(1 .. Len(facts))) /\ heard' \in [B!Ears -> Seq(Nat)] BY TurnHeard
<1>10. B!Made' = B!Made BY <1>1 DEF B!Made
<1>11. B!TypeOK' BY <1>1, <1>4, <1>5, <1>7, <1>8, <1>9, <1>10 DEF B!TypeOK
<1> QED BY <1>1, <1>6, <1>7, <1>8, <1>9, <1>10, <1>11 DEF BusTypes

LEMMA TurnHad ==
  ASSUME BusTypes, Framed, stack # <<>>, B!Top.kind # "hear", NEW g, NEW w, NEW x, NEW h, TakesTurn(g, w, x, h)
  PROVE  /\ had'[B!Top.fact] = h
         /\ \A f \in 1 .. Len(facts) : f # B!Top.fact => had'[f] = had[f]
         /\ \A f : Logged(f) <=> Logged(f)'
<1>1. had' = [had EXCEPT ![B!Top.fact] = h] /\ log' = log BY DEF TakesTurn
<1>2. B!Top.fact \in 1 .. Len(facts) BY TurnForms
<1>3. DOMAIN had = 1 .. Len(facts) /\ had \in Seq(SUBSET B!Ears) BY BusForms
<1>4. had'[B!Top.fact] = h /\ \A f \in 1 .. Len(facts) : f # B!Top.fact => had'[f] = had[f] BY <1>1, <1>2, <1>3
<1> QED BY <1>1, <1>4 DEF Logged

LEMMA TurnFramed ==
  ASSUME BusTypes, Framed, stack # <<>>, B!Top.kind # "hear", NEW g, NEW w, NEW x, NEW h, TakesTurn(g, w, x, h)
  PROVE  Framed'
<1> DEFINE n == Len(stack)
<1>a. facts' = facts /\ g.kind # "hear" /\ g.who = B!Top.who /\ g.fact = B!Top.fact /\ g \in B!Frames BY DEF TakesTurn
<1>b. w # 0 => w \in alive' /\ w \notin B!Busy BY DEF TakesTurn
<1>c. h \cap B!Busy = {} /\ had[B!Top.fact] \subseteq h BY DEF TakesTurn
<1>d. alive' = alive \/ (B!Top.kind = "put" /\ g.kind = "offer" /\ alive' = alive \cup {B!Top.who}) BY DEF TakesTurn
<1>e. g.kind = "put" => B!Top.kind = "put" /\ x \notin B!Outsides BY DEF TakesTurn
<1>f. g.kind = "offer" => g.todo \subseteq B!Outsides /\ \A e \in g.todo : ~WasHeard(e, B!Top.fact) /\ e # x BY DEF TakesTurn
<1>1. /\ facts' = facts /\ g.kind # "hear" /\ g.who = B!Top.who /\ g.fact = B!Top.fact
      /\ (w # 0 => w \in alive' /\ w \notin B!Busy) /\ h \cap B!Busy = {} /\ had[B!Top.fact] \subseteq h
      /\ alive' = alive \/ (B!Top.kind = "put" /\ g.kind = "offer" /\ alive' = alive \cup {B!Top.who})
      /\ g.kind = "put" => B!Top.kind = "put" /\ x \notin B!Outsides
      /\ g.kind = "offer" => g.todo \subseteq B!Outsides /\ \A e \in g.todo : ~WasHeard(e, B!Top.fact) /\ e # x
      /\ g \in B!Frames
  BY <1>a, <1>b, <1>c, <1>d, <1>e, <1>f
<1>2. /\ B!Top = stack[n] /\ n \in DOMAIN stack /\ PutFrame(n) /\ n \in Nat /\ B!Busy = HearersBelow(stack, n)
      /\ B!Top.fact \in 1 .. Len(facts) /\ facts[B!Top.fact].kind = "act" /\ facts[B!Top.fact].about = B!Top.who /\ Logged(B!Top.fact)
      /\ (\A i \in DOMAIN stack : i # n /\ stack[i].kind # "hear" => stack[i].who # B!Top.who /\ stack[i].fact # B!Top.fact)
      /\ DOMAIN stack = 1 .. n
  BY TurnForms
<1>3. /\ \A i \in DOMAIN stack' : \/ i < n /\ i \in DOMAIN stack /\ stack'[i] = stack[i]
                                  \/ i = n /\ stack'[i] = g
                                  \/ i = n + 1 /\ w # 0 /\ stack'[i].kind = "hear" /\ stack'[i].who = w
      /\ \A i \in DOMAIN stack : HearersBelow(stack', i) = HearersBelow(stack, i)
  BY TurnFrames
<1>4. /\ had'[B!Top.fact] = h /\ (\A f \in 1 .. Len(facts) : f # B!Top.fact => had'[f] = had[f])
      /\ \A f : Logged(f) <=> Logged(f)'
  BY TurnHad
<1>5. \A e \in B!Ears : \A f : WasHeard(e, f)' => WasHeard(e, f) \/ (e = x /\ f = B!Top.fact) BY TurnHeard
<1> HIDE DEF n
<1>6. \A i \in DOMAIN stack : i < n /\ stack[i].kind = "hear" => stack[i].who \in B!Busy
  BY <1>2 DEF HearersBelow
<1>7. \A i \in DOMAIN stack' : stack'[i].kind = "hear" => stack'[i].who \in alive'
  <2>1. TAKE i \in DOMAIN stack'
  <2>2. CASE i < n /\ i \in DOMAIN stack /\ stack'[i] = stack[i] BY <1>1, <2>2 DEF Framed
  <2>3. CASE i = n /\ stack'[i] = g BY <1>1, <2>3
  <2>4. CASE i = n + 1 /\ w # 0 /\ stack'[i].kind = "hear" /\ stack'[i].who = w BY <1>1, <2>4
  <2> QED BY <1>3, <2>2, <2>3, <2>4
<1>8. \A i, j \in DOMAIN stack' :
        i # j /\ (stack'[i].kind = "hear") = (stack'[j].kind = "hear") => stack'[i].who # stack'[j].who
  <2>1. SUFFICES ASSUME NEW i \in DOMAIN stack', NEW j \in DOMAIN stack', i < j,
                        (stack'[i].kind = "hear") = (stack'[j].kind = "hear")
                 PROVE  stack'[i].who # stack'[j].who
    <3>1. \A i \in DOMAIN stack' : i \in Nat BY <1>2, <1>3
    <3> QED BY <3>1
  <2>2. CASE j < n /\ j \in DOMAIN stack /\ stack'[j] = stack[j]
    <3>1. i \in DOMAIN stack /\ stack'[i] = stack[i] BY <1>2, <1>3, <2>1, <2>2
    <3> QED BY <2>1, <2>2, <3>1 DEF Framed
  <2>3. CASE j = n /\ stack'[j] = g
    <3>1. i \in DOMAIN stack /\ stack'[i] = stack[i] /\ i # n BY <1>2, <1>3, <2>1, <2>3
    <3>2. stack[i].kind # "hear" BY <1>1, <2>1, <2>3, <3>1
    <3> QED BY <1>1, <1>2, <2>3, <3>1, <3>2
  <2>4. CASE j = n + 1 /\ w # 0 /\ stack'[j].kind = "hear" /\ stack'[j].who = w
    <3>1. stack'[i].kind = "hear" BY <2>1, <2>4
    <3>2. i < n /\ i \in DOMAIN stack /\ stack'[i] = stack[i] BY <1>1, <1>2, <1>3, <2>1, <2>4, <3>1
    <3>3. stack'[i].who \in B!Busy BY <1>6, <3>1, <3>2
    <3> QED BY <1>1, <2>4, <3>3
  <2> QED BY <1>3, <2>2, <2>3, <2>4
<1>9. ASSUME NEW i \in DOMAIN stack', stack'[i].kind # "hear" PROVE PutFrame(i)'
  <2>1. CASE i < n /\ i \in DOMAIN stack /\ stack'[i] = stack[i]
    <3>1. PutFrame(i) BY <1>9, <2>1 DEF Framed
    <3>2. HearersBelow(stack', i) = HearersBelow(stack, i) BY <1>3, <2>1
    <3>3. stack[i].fact # B!Top.fact /\ stack[i].who # B!Top.who BY <1>2, <1>9, <2>1
    <3>4. Logged(stack[i].fact) BY <3>1 DEF PutFrame
    <3>5. had'[stack[i].fact] = had[stack[i].fact]
      <4>1. stack[i].fact \in 1 .. Len(facts) BY <3>4, LoggedOnes
      <4> QED BY <1>4, <3>3, <4>1
    <3>6. Logged(stack[i].fact)'
      <4>1. \A f : f = stack[i].fact => Logged(f)' BY <1>4, <3>4
      <4> QED BY <2>1, <4>1
    <3>7. stack[i].kind = "put" => stack[i].who \notin alive' BY <1>1, <3>1, <3>3 DEF PutFrame
    <3>8. \A e \in B!Outsides \cup stack[i].todo : WasHeard(e, stack[i].fact)' => WasHeard(e, stack[i].fact)
      <4>1. stack[i] \in B!Frames BY <2>1, BusForms
      <4>2. \A e \in B!Outsides \cup stack[i].todo : e \in B!Ears BY <4>1, FrameForms, EarNumbers
      <4>3. \A e \in B!Outsides \cup stack[i].todo : \A f : f = stack[i].fact /\ WasHeard(e, f)' => WasHeard(e, f) BY <1>5, <3>3, <4>2
      <4> QED BY <2>1, <4>3
    <3> QED BY <1>1, <2>1, <3>1, <3>2, <3>5, <3>6, <3>7, <3>8, PutFrameKept
  <2>2. CASE i = n /\ stack'[i] = g
    <3>1. HearersBelow(stack', i) = B!Busy BY <1>2, <1>3, <2>2
    <3>2. stack'[i].fact = B!Top.fact /\ stack'[i].who = B!Top.who /\ stack'[i] = g BY <1>1, <2>2
    <3>3. B!Outsides \ B!Busy \subseteq h
      <4>1. B!Outsides \ B!Busy \subseteq had[B!Top.fact] BY <1>2 DEF PutFrame
      <4> QED BY <1>1, <4>1
    <3>4. Logged(stack[i].fact)'
      <4>1. \A f : f = B!Top.fact => Logged(f)' BY <1>2, <1>4
      <4> QED BY <3>2, <4>1
    <3>5. g.kind = "put" => g.who \notin alive' /\ \A e \in B!Outsides : \A f : f = B!Top.fact => ~WasHeard(e, f)'
      <4>1. HAVE g.kind = "put"
      <4>2. B!Top.kind = "put" /\ alive' = alive /\ x \notin B!Outsides BY <1>1, <4>1
      <4>3. B!Top.who \notin alive /\ \A e \in B!Outsides : ~WasHeard(e, B!Top.fact) BY <1>2, <4>2 DEF PutFrame
      <4>4. \A e \in B!Outsides : \A f : f = B!Top.fact => ~WasHeard(e, f)' BY <1>5, <4>2, <4>3, EarNumbers
      <4> QED BY <1>1, <4>2, <4>3, <4>4
    <3>6. g.kind = "offer" => g.todo \subseteq B!Outsides /\ \A e \in g.todo : \A f : f = B!Top.fact => ~WasHeard(e, f)'
      <4>1. HAVE g.kind = "offer"
      <4>2. g.todo \subseteq B!Outsides /\ \A e \in g.todo : ~WasHeard(e, B!Top.fact) /\ e # x BY <1>1, <4>1
      <4>3. \A e \in g.todo : \A f : f = B!Top.fact => ~WasHeard(e, f)' BY <1>5, <4>2, EarNumbers
      <4> QED BY <4>2, <4>3
    <3>7. stack'[i].kind = "put" => stack'[i].who \notin alive' /\ \A e \in B!Outsides : ~WasHeard(e, stack[i].fact)' BY <3>2, <3>5
    <3>8. stack'[i].kind = "offer" => stack'[i].todo \subseteq B!Outsides /\ \A e \in stack'[i].todo : ~WasHeard(e, stack[i].fact)'
      BY <3>2, <3>6
    <3>9. /\ facts'[stack'[i].fact].kind = "act" /\ facts'[stack'[i].fact].about = stack'[i].who
          /\ had'[stack'[i].fact] \cap HearersBelow(stack', i) = {} /\ B!Outsides \ HearersBelow(stack', i) \subseteq had'[stack'[i].fact]
      BY <1>1, <1>2, <1>4, <3>1, <3>2, <3>3
    <3> QED BY <3>4, <3>7, <3>8, <3>9 DEF PutFrame, B!Outsides
  <2>3. CASE i = n + 1 /\ w # 0 /\ stack'[i].kind = "hear" /\ stack'[i].who = w BY <1>9, <2>3
  <2> QED BY <1>3, <2>1, <2>2, <2>3
<1> QED BY <1>7, <1>8, <1>9 DEF Framed

LEMMA TurnHeardSoFar ==
  ASSUME BusTypes, Framed, LogInOrder, HeardSoFar, stack # <<>>, B!Top.kind # "hear",
         NEW g, NEW w, NEW x, NEW h, TakesTurn(g, w, x, h)
  PROVE  HeardSoFar'
<1> DEFINE t == B!Top.fact
<1>a. h \subseteq B!Ears BY DEF TakesTurn
<1>b. had[t] \subseteq h BY DEF TakesTurn
<1>c. facts' = facts /\ left' = left /\ log' = log BY DEF TakesTurn
<1>d. x # 0 => x \in h /\ ~WasHeard(x, t) BY DEF TakesTurn
<1>2. t \in 1 .. Len(facts) /\ facts[t].kind = "act" /\ Logged(t) BY TurnForms
<1>3. had'[t] = h /\ (\A f \in 1 .. Len(facts) : f # t => had'[f] = had[f]) BY TurnHad
<1>4. /\ \A e \in B!Ears : heard'[e] = heard[e] \/ (e = x /\ heard'[e] = Append(heard[e], t))
      /\ \A e \in B!Ears : \A f : WasHeard(e, f)' => WasHeard(e, f) \/ (e = x /\ f = t)
  BY TurnHeard
<1>5. \A e \in B!Ears : heard[e] \in Seq(1 .. Len(facts)) BY HeardForms
<1>6. left.fact # t
  <2>1. PICK k \in DOMAIN log : log[k] = t BY <1>2 DEF Logged
  <2>2. left.fact < log[k] /\ left.fact \in Nat BY <2>1 DEF LogInOrder, BusTypes
  <2> QED BY <1>2, <2>1, <2>2
<1> HIDE DEF t
<1>7. ASSUME NEW e \in B!Ears, e = x, heard'[e] = Append(heard[e], t)
      PROVE  /\ B!IsInjective(heard'[e])
             /\ \A i, j \in DOMAIN heard'[e] : i < j /\ facts[heard'[e][i]].kind # "act" /\ facts[heard'[e][j]].kind # "act"
                                              => heard'[e][i] < heard'[e][j]
             /\ \A i \in DOMAIN heard'[e] : facts[heard'[e][i]].kind # "act" => heard'[e][i] <= left.fact
  <2>1. ~WasHeard(e, t) BY <1>d, <1>7, EarNumbers
  <2>2. \A s : s = heard'[e] =>
          /\ B!IsInjective(s)
          /\ \A i, j \in DOMAIN s : i < j /\ facts[s[i]].kind # "act" /\ facts[s[j]].kind # "act" => s[i] < s[j]
          /\ \A i \in DOMAIN s : facts[s[i]].kind # "act" => s[i] <= left.fact
    <3>1. PICK n \in 1 .. Len(facts) : n = t BY <1>2
    <3>2. ~WasHeard(e, n) /\ (facts[n].kind # "act" => n = left.fact) /\ heard'[e] = Append(heard[e], n) BY <1>2, <1>7, <2>1, <3>1
    <3> QED BY <3>2, HeardMore
  <2> QED BY <2>2
<1>8. B!HeardOnce'
  <2>1. \A e \in B!Ears : B!IsInjective(heard[e]) BY DEF HeardSoFar, B!HeardOnce
  <2>2. \A e \in B!Ears : B!IsInjective(heard'[e]) BY <1>4, <1>7, <2>1
  <2> QED BY <2>2 DEF B!HeardOnce, B!IsInjective
<1>9. B!HeardInOrder'
  <2>1. \A e \in B!Ears : \A i, j \in DOMAIN heard[e] :
          i < j /\ facts[heard[e][i]].kind # "act" /\ facts[heard[e][j]].kind # "act" => heard[e][i] < heard[e][j]
    BY DEF HeardSoFar, B!HeardInOrder
  <2>2. \A e \in B!Ears : \A i, j \in DOMAIN heard'[e] :
          i < j /\ facts[heard'[e][i]].kind # "act" /\ facts[heard'[e][j]].kind # "act" => heard'[e][i] < heard'[e][j]
    BY <1>4, <1>7, <2>1
  <2> QED BY <1>c, <2>2 DEF B!HeardInOrder
<1>10. \A e \in B!Ears : \A k \in DOMAIN log : \A f : f = log[k] /\ WasHeard(e, f)' => e \in had'[f]
  <2>1. TAKE e \in B!Ears
  <2>2. TAKE k \in DOMAIN log
  <2>3. TAKE f
  <2>4. HAVE f = log[k] /\ WasHeard(e, f)'
  <2>5. WasHeard(e, f) \/ (e = x /\ f = t) BY <1>4, <2>4
  <2>6. WasHeard(e, f) => e \in had[f] BY <2>4 DEF HeardSoFar
  <2>7. f \in 1 .. Len(facts) BY <2>4, LoggedOnes DEF Logged
  <2>8. f # t => had'[f] = had[f] BY <1>3, <2>7
  <2>9. e = x => x # 0 BY EarNumbers
  <2> QED BY <1>3, <1>b, <1>d, <2>5, <2>6, <2>8, <2>9
<1>11. \A e \in left.ears : \A f : f = left.fact => ~WasHeard(e, f)'
  <2>1. \A e \in left.ears : e \in B!Ears /\ ~WasHeard(e, left.fact) BY DEF HeardSoFar, BusTypes, B!TypeOK
  <2> QED BY <1>4, <1>6, <2>1
<1>12. \A e \in B!Ears : \A i \in DOMAIN heard'[e] : facts[heard'[e][i]].kind # "act" => heard'[e][i] <= left.fact
  <2>1. \A e \in B!Ears : \A i \in DOMAIN heard[e] : facts[heard[e][i]].kind # "act" => heard[e][i] <= left.fact BY DEF HeardSoFar
  <2> QED BY <1>4, <1>7, <2>1
<1>13. \A e \in B!Ears : \A k \in DOMAIN log' : WasHeard(e, log[k])' => e \in had'[log'[k]] BY <1>c, <1>10
<1>14. \A e \in left'.ears : ~WasHeard(e, left.fact)' BY <1>c, <1>11
<1>15. \A e \in B!Ears : \A i \in DOMAIN heard'[e] : facts'[heard'[e][i]].kind # "act" => heard'[e][i] <= left'.fact BY <1>c, <1>12
<1> QED BY <1>8, <1>9, <1>13, <1>14, <1>15 DEF HeardSoFar

LEMMA TurnToHear ==
  ASSUME BusInv, stack # <<>>, B!Top.kind # "hear", NEW g, NEW w, NEW x, NEW h, TakesTurn(g, w, x, h)
  PROVE  StillToHear'
<1> DEFINE t == B!Top.fact
           n == Len(stack)
<1>a. UNCHANGED <<made, facts, log, left, wide, taken, done, deaths>> BY DEF TakesTurn
<1>b. \A e \in alive : e \in h => e \in had[t] \/ e = x BY DEF TakesTurn
<1>c. \A e \in alive \cap B!Outsides : B!Top.kind = "put" \/ e \in B!Top.todo =>
        g.kind = "put" \/ e \in g.todo \/ e = x \/ B!Top.who \in taken \/ e \notin h
  BY DEF TakesTurn
<1>d. g.kind # "hear" /\ g.fact = t BY DEF TakesTurn
<1>e. \/ alive' = alive /\ born' = born
      \/ /\ B!Top.kind = "put" /\ alive' = alive \cup {B!Top.who}
         /\ born' = [born EXCEPT ![B!Top.who] = Len(facts)]
  BY DEF TakesTurn
<1>0. BusTypes /\ Framed BY DEF BusInv
<1>1. /\ t \in 1 .. Len(facts) /\ facts[t].kind = "act" /\ facts[t].about = B!Top.who /\ Logged(t) /\ B!Top.who \in B!Acts
      /\ B!Top = stack[n] /\ n \in DOMAIN stack /\ PutFrame(n)
  BY <1>0, TurnForms
<1>2. had'[t] = h /\ (\A f \in 1 .. Len(facts) : f # t => had'[f] = had[f]) /\ \A f : Logged(f) <=> Logged(f)' BY <1>0, TurnHad
<1>3. /\ \A e \in B!Ears : \A f : WasHeard(e, f) => WasHeard(e, f)'
      /\ \A e \in B!Ears : \A f : x # 0 /\ e = x /\ f = t => WasHeard(e, f)'
  BY <1>0, TurnHeard
<1>4. /\ \A i \in DOMAIN stack : i # n => i \in DOMAIN stack' /\ stack'[i] = stack[i]
      /\ n \in DOMAIN stack' /\ stack'[n] = g
  BY <1>0, TurnFrames
<1>5. born \in [B!Ears -> Nat] /\ Len(facts) \in Nat /\ alive \subseteq B!Ears BY <1>0, BusForms DEF BusTypes, B!TypeOK
<1> HIDE DEF t, n
<1> SUFFICES ASSUME NEW e \in alive', NEW f \in 1 .. Len(facts'), f > born'[e] PROVE Awaited(e, f)'
  BY DEF StillToHear
<1>6. f \in 1 .. Len(facts) /\ f \in Nat /\ f <= Len(facts) BY <1>a, <1>5
<1>7. e \in alive /\ f > born[e] /\ e \in B!Ears
  <2>1. CASE alive' = alive /\ born' = born BY <1>5, <2>1
  <2>2. CASE B!Top.kind = "put" /\ alive' = alive \cup {B!Top.who} /\ born' = [born EXCEPT ![B!Top.who] = Len(facts)]
    <3>1. B!Top.who \in B!Ears BY <1>1, EarNumbers
    <3>2. e # B!Top.who
      <4>1. SUFFICES ASSUME e = B!Top.who PROVE FALSE OBVIOUS
      <4>2. born'[e] = Len(facts) BY <1>5, <2>2, <3>1, <4>1
      <4> QED BY <1>5, <1>6, <4>2
    <3>3. e \in alive BY <2>2, <3>2
    <3>4. born'[e] = born[e] BY <1>5, <2>2, <3>1, <3>2, <3>3
    <3> QED BY <1>5, <3>3, <3>4
  <2> QED BY <1>e, <2>1, <2>2
<1>8. Awaited(e, f) BY <1>6, <1>7 DEF BusInv, StillToHear
<1>9. e = x => x # 0 BY <1>7, EarNumbers
<1>10. CASE e \notin wide \cup B!Named(facts[f])
  <2>1. B!Named(facts[f])' = B!Named(facts[f]) BY <1>0, <1>6, <1>a, NamedStays
  <2> QED BY <1>a, <1>10, <2>1 DEF Awaited
<1>11. CASE WasHeard(e, f)
  <2>1. WasHeard(e, f)' BY <1>3, <1>7, <1>11
  <2> QED BY <2>1 DEF Awaited
<1>12. CASE f = t /\ e = x
  <2>1. WasHeard(e, f)' BY <1>3, <1>7, <1>9, <1>12
  <2> QED BY <2>1 DEF Awaited
<1>13. CASE f = t /\ e \notin h
  <2>1. Logged(f)' /\ e \notin had'[f] BY <1>1, <1>2, <1>13
  <2> QED BY <2>1 DEF Awaited
<1>14. CASE Logged(f) /\ e \notin had[f]
  <2>1. CASE f # t
    <3>1. Logged(f)' /\ e \notin had'[f] BY <1>2, <1>6, <1>14, <2>1
    <3> QED BY <3>1 DEF Awaited
  <2>2. CASE f = t BY <1>b, <1>7, <1>12, <1>13, <1>14, <2>2
  <2> QED BY <2>1, <2>2
<1>15. CASE left.fact = f /\ e \in left.ears
  <2>1. left'.fact = f /\ e \in left'.ears BY <1>a, <1>15
  <2> QED BY <2>1 DEF Awaited
<1>16. CASE facts[f].kind = "act" /\ (facts[f].about = e \/ (e \in B!Outsides /\ facts[f].about \in taken))
  <2>1. facts'[f].kind = "act" /\ (facts'[f].about = e \/ (e \in B!Outsides /\ facts'[f].about \in taken')) BY <1>a, <1>16
  <2> QED BY <2>1 DEF Awaited, B!Outsides
<1>17. ASSUME e \in B!Outsides, NEW i \in DOMAIN stack, stack[i].kind # "hear", stack[i].fact = f, stack[i].kind = "put" \/ e \in stack[i].todo
       PROVE  Awaited(e, f)'
  <2>1. CASE i # n
    <3>1. i \in DOMAIN stack' /\ stack'[i] = stack[i] BY <1>4, <2>1
    <3>2. \E j \in DOMAIN stack' : stack'[j].kind # "hear" /\ stack'[j].fact = f /\ (stack'[j].kind = "put" \/ e \in stack'[j].todo)
      BY <1>17, <3>1
    <3> QED BY <1>17, <3>2 DEF Awaited, B!Outsides
  <2>2. CASE i = n
    <3>1. f = t /\ (B!Top.kind = "put" \/ e \in B!Top.todo) BY <1>1, <1>17, <2>2 DEF t
    <3>2. g.kind = "put" \/ e \in g.todo \/ e = x \/ B!Top.who \in taken \/ e \notin h BY <1>c, <1>7, <1>17, <3>1
    <3>3. CASE g.kind = "put" \/ e \in g.todo
      <4>1. \E j \in DOMAIN stack' : stack'[j].kind # "hear" /\ stack'[j].fact = f /\ (stack'[j].kind = "put" \/ e \in stack'[j].todo)
        BY <1>d, <1>4, <3>1, <3>3
      <4> QED BY <1>17, <4>1 DEF Awaited, B!Outsides
    <3>4. CASE B!Top.who \in taken
      <4>1. facts[f].kind = "act" /\ facts[f].about \in taken BY <1>1, <3>1, <3>4
      <4> QED BY <1>16, <1>17, <4>1
    <3> QED BY <1>12, <1>13, <3>1, <3>2, <3>3, <3>4
  <2> QED BY <2>1, <2>2
<1>18. \/ e \notin wide \cup B!Named(facts[f]) \/ WasHeard(e, f) \/ (Logged(f) /\ e \notin had[f])
       \/ (left.fact = f /\ e \in left.ears)
       \/ facts[f].kind = "act" /\ (facts[f].about = e \/ (e \in B!Outsides /\ facts[f].about \in taken))
       \/ (e \in B!Outsides /\ \E i \in DOMAIN stack : stack[i].kind # "hear" /\ stack[i].fact = f
                                                        /\ (stack[i].kind = "put" \/ e \in stack[i].todo))
  BY <1>8 DEF Awaited
<1> QED BY <1>10, <1>11, <1>14, <1>15, <1>16, <1>17, <1>18

LEMMA TurnToTake ==
  ASSUME BusInv, stack # <<>>, B!Top.kind # "hear", NEW g, NEW w, NEW x, NEW h, TakesTurn(g, w, x, h)
  PROVE  StillToTake'
<1> DEFINE t == B!Top.fact
           n == Len(stack)
<1>a. facts' = facts /\ taken' = taken BY DEF TakesTurn
<1>b. g.kind # "hear" /\ g.fact = t BY DEF TakesTurn
<1>0. BusTypes /\ Framed BY DEF BusInv
<1>1. B!Top = stack[n] BY <1>0, TurnForms
<1>2. \A f \in 1 .. Len(facts) : f # t => had'[f] = had[f] BY <1>0, TurnHad
<1>3. /\ \A i \in DOMAIN stack : i # n => i \in DOMAIN stack' /\ stack'[i] = stack[i]
      /\ n \in DOMAIN stack' /\ stack'[n] = g
  BY <1>0, TurnFrames
<1>4. t = stack[n].fact BY <1>1
<1> HIDE DEF t, n
<1> SUFFICES ASSUME NEW f \in 1 .. Len(facts), facts[f].kind = "act", facts[f].about \notin taken PROVE TurnsLeft(f)'
  BY <1>a DEF StillToTake
<1>5. TurnsLeft(f) BY DEF BusInv, StillToTake
<1>6. CASE f = t
  <2>1. \E i \in DOMAIN stack' : stack'[i].kind # "hear" /\ stack'[i].fact = f BY <1>b, <1>3, <1>6
  <2> QED BY <2>1 DEF TurnsLeft
<1>7. CASE f # t
  <2>1. CASE B!Outsides \ had[f] # {}
    <3>1. B!Outsides \ had'[f] # {} BY <1>2, <1>7, <2>1
    <3> QED BY <3>1 DEF TurnsLeft, B!Outsides
  <2>2. ASSUME NEW i \in DOMAIN stack, stack[i].kind # "hear", stack[i].fact = f PROVE TurnsLeft(f)'
    <3>1. i # n BY <1>4, <1>7, <2>2
    <3>2. i \in DOMAIN stack' /\ stack'[i] = stack[i] BY <1>3, <3>1
    <3>3. \E j \in DOMAIN stack' : stack'[j].kind # "hear" /\ stack'[j].fact = f BY <2>2, <3>2
    <3> QED BY <3>3 DEF TurnsLeft
  <2> QED BY <1>5, <2>1, <2>2 DEF TurnsLeft
<1> QED BY <1>6, <1>7

LEMMA TurnKept ==
  ASSUME BusInv, stack # <<>>, B!Top.kind # "hear", NEW g, NEW w, NEW x, NEW h, TakesTurn(g, w, x, h)
  PROVE  BusInv'
<1>1. BusTypes /\ Framed /\ LogInOrder /\ HeardSoFar BY DEF BusInv
<1>2. BusTypes' BY <1>1, TurnTypes
<1>3. Framed' BY <1>1, TurnFramed
<1>4. LogInOrder'
  <2>1. log' = log /\ left' = left BY DEF TakesTurn
  <2> QED BY <1>1, <2>1 DEF LogInOrder
<1>5. HeardSoFar' BY <1>1, TurnHeardSoFar
<1>6. StillToHear' BY TurnToHear
<1>7. StillToTake' BY TurnToTake
<1> QED BY <1>2, <1>3, <1>4, <1>5, <1>6, <1>7 DEF BusInv

(* What the steps of an act do. *)

LEMMA RestForms ==
  ASSUME BusTypes, stack # <<>>, NEW g \in B!Frames
  PROVE  /\ Pushed(B!Below, g) \in Seq(B!Frames) /\ DOMAIN Pushed(B!Below, g) = 1 .. Len(stack)
         /\ Len(Pushed(B!Below, g)) = Len(stack) /\ Pushed(B!Below, g)[Len(stack)] = g
         /\ \A i \in 1 .. Len(stack) - 1 : Pushed(B!Below, g)[i] = stack[i]
<1>1. /\ B!Below \in Seq(B!Frames) /\ Len(B!Below) = Len(stack) - 1 /\ (\A i \in 1 .. Len(stack) - 1 : B!Below[i] = stack[i])
      /\ Len(stack) \in Nat
  BY PopForms
<1>2. PICK b : b = B!Below OBVIOUS
<1>3. PICK s : s = Pushed(b, g) OBVIOUS
<1>4. s \in Seq(B!Frames) /\ Len(s) = Len(b) + 1 /\ s[Len(b) + 1] = g /\ (\A i \in 1 .. Len(b) : s[i] = b[i]) /\ DOMAIN s = 1 .. Len(b) + 1
  BY <1>1, <1>2, <1>3, PushedFrames
<1>5. Len(b) + 1 = Len(stack) /\ Len(b) = Len(stack) - 1 BY <1>1, <1>2
<1>6. \A i \in 1 .. Len(stack) - 1 : s[i] = stack[i] BY <1>1, <1>2, <1>4, <1>5
<1>7. s \in Seq(B!Frames) /\ DOMAIN s = 1 .. Len(stack) /\ Len(s) = Len(stack) /\ s[Len(stack)] = g BY <1>4, <1>5
<1> QED BY <1>2, <1>3, <1>6, <1>7

LEMMA StackOver ==
  ASSUME BusTypes, stack # <<>>, NEW g \in B!Frames, NEW u \in B!Frames, stack' = Pushed(Pushed(B!Below, g), u)
  PROVE  /\ stack' \in Seq(B!Frames) /\ DOMAIN stack' = 1 .. Len(stack) + 1 /\ stack'[Len(stack)] = g /\ stack'[Len(stack) + 1] = u
         /\ \A i \in 1 .. Len(stack) - 1 : stack'[i] = stack[i]
<1>0. Len(stack) \in Nat /\ Len(stack) >= 1 BY PopForms
<1>1. PICK r : r = Pushed(B!Below, g) OBVIOUS
<1>2. /\ r \in Seq(B!Frames) /\ Len(r) = Len(stack) /\ r[Len(stack)] = g
      /\ \A i \in 1 .. Len(stack) - 1 : r[i] = stack[i]
  BY <1>1, RestForms
<1>3. PICK s : s = Pushed(r, u) OBVIOUS
<1>4. s \in Seq(B!Frames) /\ s[Len(r) + 1] = u /\ (\A i \in 1 .. Len(r) : s[i] = r[i]) /\ DOMAIN s = 1 .. Len(r) + 1
  BY <1>2, <1>3, PushedFrames
<1>5. \A i \in 1 .. Len(stack) - 1 : i \in 1 .. Len(r) BY <1>0, <1>2
<1>6. Len(stack) \in 1 .. Len(r) BY <1>0, <1>2
<1>7. /\ s \in Seq(B!Frames) /\ DOMAIN s = 1 .. Len(stack) + 1 /\ s[Len(stack)] = g /\ s[Len(stack) + 1] = u
      /\ \A i \in 1 .. Len(stack) - 1 : s[i] = stack[i]
  BY <1>2, <1>4, <1>5, <1>6
<1> QED BY <1>1, <1>3, <1>7

\* The frames that are left once the act was put to an ear, or once its own is born.
Turned(kind, ears) == [B!Top EXCEPT !.kind = kind, !.todo = ears]

LEMMA RestFrame ==
  ASSUME BusTypes, stack # <<>>, B!Top.kind # "hear", NEW ears \in SUBSET B!Ears, NEW kind \in {"put", "offer"}
  PROVE  /\ Turned(kind, ears) \in B!Frames /\ Turned(kind, ears).kind = kind /\ Turned(kind, ears).who = B!Top.who
         /\ Turned(kind, ears).fact = B!Top.fact /\ Turned(kind, ears).todo = ears
<1>1. B!Top \in B!Frames BY PopForms
<1>2. PICK p : p = B!Top OBVIOUS
<1>3. /\ p = [kind |-> p.kind, who |-> p.who, fact |-> p.fact, todo |-> p.todo] /\ p.fact \in Nat /\ p.who \in B!Acts
  BY <1>1, <1>2, FrameForms
<1>4. [p EXCEPT !.kind = kind, !.todo = ears] = [kind |-> kind, who |-> p.who, fact |-> p.fact, todo |-> ears]
  <2>1. PICK k, o, n, e : k = p.kind /\ o = p.who /\ n = p.fact /\ e = p.todo OBVIOUS
  <2>2. p = [kind |-> k, who |-> o, fact |-> n, todo |-> e] BY <1>3, <2>1
  <2>3. PICK q : q = [p EXCEPT !.kind = kind, !.todo = ears] OBVIOUS
  <2>4. q = [i \in DOMAIN p |-> IF i = "kind" THEN kind ELSE IF i = "todo" THEN ears ELSE p[i]] BY <2>3
  <2>5. q = [kind |-> kind, who |-> o, fact |-> n, todo |-> ears] BY <2>2, <2>4
  <2> QED BY <2>1, <2>3, <2>5
<1>5. [kind |-> kind, who |-> p.who, fact |-> p.fact, todo |-> ears] \in B!Frames
  <2>1. \A a \in B!Acts, n \in Nat : [kind |-> kind, who |-> a, fact |-> n, todo |-> ears] \in B!Frames BY ActFrame
  <2> QED BY <1>3, <2>1
<1>6. Turned(kind, ears) = [kind |-> kind, who |-> p.who, fact |-> p.fact, todo |-> ears] BY <1>2, <1>4 DEF Turned
<1> QED BY <1>2, <1>5, <1>6

LEMMA HadForms ==
  ASSUME BusTypes, NEW f \in 1 .. Len(facts)
  PROVE  had[f] \subseteq B!Ears /\ had = [had EXCEPT ![f] = had[f]]
<1>1. had \in Seq(SUBSET B!Ears) /\ DOMAIN had = 1 .. Len(facts) BY BusForms
<1>2. had[f] \in SUBSET B!Ears BY <1>1
<1>3. had = [i \in DOMAIN had |-> had[i]] BY <1>1
<1> QED BY <1>1, <1>2, <1>3

LEMMA HeardMarked ==
  ASSUME HeardSoFar, NEW e \in B!Ears, NEW f, Logged(f), WasHeard(e, f)
  PROVE  e \in had[f]
<1>1. PICK k \in DOMAIN log : log[k] = f BY DEF Logged
<1> QED BY <1>1 DEF HeardSoFar

\* What of an act is so before each of its steps.
LEMMA TurnBefore ==
  ASSUME BusInv, stack # <<>>, B!Top.kind # "hear"
  PROVE  /\ BusTypes /\ B!Top \in B!Frames /\ B!Top.fact \in 1 .. Len(facts) /\ B!Top.who \in B!Made /\ B!Top.who \in B!Acts
         /\ had[B!Top.fact] \subseteq B!Ears /\ had = [had EXCEPT ![B!Top.fact] = had[B!Top.fact]]
         /\ had[B!Top.fact] \cap B!Busy = {} /\ B!Outsides \ B!Busy \subseteq had[B!Top.fact] /\ B!Busy \subseteq alive
         /\ B!Top.todo \subseteq B!Ears
         /\ B!Top.kind = "put" => B!Top.who \notin alive /\ \A e \in B!Outsides : ~WasHeard(e, B!Top.fact)
         /\ B!Top.kind = "offer" => B!Top.todo \subseteq B!Outsides /\ \A e \in B!Top.todo : ~WasHeard(e, B!Top.fact)
         /\ \A e \in B!Ears : e \notin had[B!Top.fact] => ~WasHeard(e, B!Top.fact)
<1>0. BusTypes /\ Framed /\ HeardSoFar BY DEF BusInv
<1>1. /\ B!Top = stack[Len(stack)] /\ B!Top \in B!Frames /\ PutFrame(Len(stack)) /\ B!Top.fact \in 1 .. Len(facts)
      /\ B!Top.who \in B!Made /\ B!Top.who \in B!Acts /\ Logged(B!Top.fact) /\ B!Busy = HearersBelow(stack, Len(stack))
  BY <1>0, TurnForms
<1>2. had[B!Top.fact] \subseteq B!Ears /\ had = [had EXCEPT ![B!Top.fact] = had[B!Top.fact]]
  <2>1. \A f \in 1 .. Len(facts) : had[f] \subseteq B!Ears /\ had = [had EXCEPT ![f] = had[f]] BY <1>0, HadForms
  <2> QED BY <1>1, <2>1
<1>3. B!Busy \subseteq alive BY <1>0 DEF Framed, B!Busy
<1>4. \A e \in B!Ears : e \notin had[B!Top.fact] => ~WasHeard(e, B!Top.fact)
  <2>1. \A e \in B!Ears : \A f : Logged(f) /\ WasHeard(e, f) => e \in had[f] BY <1>0, HeardMarked
  <2> QED BY <1>1, <2>1
<1>5. /\ had[B!Top.fact] \cap B!Busy = {} /\ B!Outsides \ B!Busy \subseteq had[B!Top.fact]
      /\ B!Top.kind = "put" => B!Top.who \notin alive /\ \A e \in B!Outsides : ~WasHeard(e, B!Top.fact)
      /\ B!Top.kind = "offer" => B!Top.todo \subseteq B!Outsides /\ \A e \in B!Top.todo : ~WasHeard(e, B!Top.fact)
  BY <1>1 DEF PutFrame
<1>6. B!Top.todo \subseteq B!Ears BY <1>1, FrameForms
<1> QED BY <1>0, <1>1, <1>2, <1>3, <1>4, <1>5, <1>6

LEMMA PutKept == ASSUME BusInv, B!Put PROVE BusInv'
<1>0. stack # <<>> /\ B!Top.kind = "put" BY DEF B!Put, B!Is
<1>1. UNCHANGED <<made, facts, log, left, alive, wide, taken, done, born, deaths>> BY DEF B!Put
<1>2. PICK e \in B!Ears :
        IF B!PutsTo(e) THEN B!Hears(e, B!Top.fact, B!Rest(e)) /\ had' = [had EXCEPT ![B!Top.fact] = @ \cup {e}]
        ELSE stack' = B!Rest(e) /\ UNCHANGED <<heard, had>>
  BY DEF B!Put
<1>3. /\ BusTypes /\ had[B!Top.fact] \subseteq B!Ears /\ had = [had EXCEPT ![B!Top.fact] = had[B!Top.fact]]
      /\ had[B!Top.fact] \cap B!Busy = {} /\ B!Outsides \ B!Busy \subseteq had[B!Top.fact] /\ B!Top.todo \subseteq B!Ears
      /\ B!Top.fact \in 1 .. Len(facts) /\ B!Top \in B!Frames
      /\ \A o \in B!Ears : o \notin had[B!Top.fact] => ~WasHeard(o, B!Top.fact)
  BY <1>0, TurnBefore
<1>4. PICK g : g = [B!Top EXCEPT !.kind = "put", !.todo = B!Top.todo \ {e}] OBVIOUS
<1>5. PICK ears \in SUBSET B!Ears : ears = B!Top.todo \ {e} BY <1>3
<1>6. g \in B!Frames /\ g.kind = "put" /\ g.who = B!Top.who /\ g.fact = B!Top.fact /\ g.todo = ears
  <2>1. B!Top.kind # "hear" /\ g = [B!Top EXCEPT !.kind = "put", !.todo = ears] BY <1>0, <1>4, <1>5
  <2>2. g = Turned("put", ears) BY <2>1 DEF Turned
  <2>3. \A kind \in {"put", "offer"} :
          /\ Turned(kind, ears) \in B!Frames /\ Turned(kind, ears).kind = kind /\ Turned(kind, ears).who = B!Top.who
          /\ Turned(kind, ears).fact = B!Top.fact /\ Turned(kind, ears).todo = ears
    BY <1>0, <1>3, <2>1, RestFrame
  <2> QED BY <2>2, <2>3
<1>7. B!Rest(e) = Pushed(B!Below, g)
  <2>1. PICK p : p = B!Top OBVIOUS
  <2>2. p = [kind |-> p.kind, who |-> p.who, fact |-> p.fact, todo |-> p.todo] BY <1>3, <2>1, FrameForms
  <2>3. [p EXCEPT !.todo = @ \ {e}] = [p EXCEPT !.kind = "put", !.todo = p.todo \ {e}] BY <1>0, <2>1, <2>2
  <2> QED BY <1>4, <2>1, <2>3 DEF B!Rest, Pushed
<1>8. CASE B!PutsTo(e) /\ e \in alive \ B!Busy
  <2>1. /\ stack' = Pushed(B!Rest(e), [kind |-> "hear", who |-> e, fact |-> B!Top.fact, todo |-> {}])
        /\ heard' = [heard EXCEPT ![e] = Append(@, B!Top.fact)] /\ had' = [had EXCEPT ![B!Top.fact] = @ \cup {e}]
    BY <1>2, <1>8 DEF B!Hears, Pushed
  <2>2. e \notin had[B!Top.fact] BY <1>8 DEF B!PutsTo
  <2>3. PICK u : u = [kind |-> "hear", who |-> e, fact |-> B!Top.fact, todo |-> {}] OBVIOUS
  <2>4. u \in B!Frames /\ u.kind = "hear" /\ u.who = e BY <1>3, <2>3, HearFrame
  <2>5. /\ stack' \in Seq(B!Frames) /\ DOMAIN stack' = 1 .. Len(stack) + 1 /\ stack'[Len(stack)] = g /\ stack'[Len(stack) + 1] = u
        /\ \A i \in 1 .. Len(stack) - 1 : stack'[i] = stack[i]
    <3>1. stack' = Pushed(Pushed(B!Below, g), u) BY <1>7, <2>1, <2>3
    <3> QED BY <1>0, <1>3, <1>6, <2>4, <3>1, StackOver
  <2>6. PICK h : h = had[B!Top.fact] \cup {e} OBVIOUS
  <2>7. had' = [had EXCEPT ![B!Top.fact] = h] BY <2>1, <2>6
  <2>8. e \notin B!Outsides BY <1>3, <1>8, <2>2
  <2>9. e # 0 BY EarNumbers
  <2>10. \A o \in alive : o \in h => o \in had[B!Top.fact] \/ o = e BY <2>6
  <2>11. h \subseteq B!Ears /\ had[B!Top.fact] \subseteq h /\ h \cap B!Busy = {} /\ e \in h BY <1>3, <1>8, <2>6
  <2>12. ~WasHeard(e, B!Top.fact) BY <1>3, <2>2
  <2>13. e \in alive' /\ e \notin B!Busy BY <1>1, <1>8
  <2>14. TakesTurn(g, e, e, h)
    BY <1>0, <1>1, <1>6, <2>1, <2>4, <2>5, <2>7, <2>8, <2>9, <2>10, <2>11, <2>12, <2>13 DEF TakesTurn
  <2> QED BY <1>0, <2>14, TurnKept
<1>9. CASE ~(B!PutsTo(e) /\ e \in alive \ B!Busy)
  <2>1. stack' = B!Rest(e) /\ heard' = heard BY <1>2, <1>9 DEF B!Hears, Pushed
  <2>2. /\ stack' \in Seq(B!Frames) /\ DOMAIN stack' = 1 .. Len(stack) /\ stack'[Len(stack)] = g
        /\ \A i \in 1 .. Len(stack) - 1 : stack'[i] = stack[i]
    BY <1>0, <1>3, <1>6, <1>7, <2>1, RestForms
  <2>3. PICK h : h = IF B!PutsTo(e) THEN had[B!Top.fact] \cup {e} ELSE had[B!Top.fact] OBVIOUS
  <2>4. had' = [had EXCEPT ![B!Top.fact] = h]
    <3>1. CASE B!PutsTo(e)
      <4>1. had' = [had EXCEPT ![B!Top.fact] = @ \cup {e}] BY <1>2, <3>1
      <4> QED BY <2>3, <3>1, <4>1
    <3>2. CASE ~B!PutsTo(e)
      <4>1. had' = had /\ h = had[B!Top.fact] BY <1>2, <2>3, <3>2
      <4> QED BY <1>3, <4>1
    <3> QED BY <3>1, <3>2
  <2>5. B!PutsTo(e) => e \notin B!Busy BY DEF B!PutsTo
  <2>6. h \subseteq B!Ears /\ had[B!Top.fact] \subseteq h /\ h \cap B!Busy = {} BY <1>3, <2>3, <2>5
  <2>7. \A o \in alive : o \in h => o \in had[B!Top.fact] BY <1>9, <2>3, <2>5
  <2>8. 0 \notin B!Outsides BY EarNumbers
  <2>9. TakesTurn(g, 0, 0, h) BY <1>0, <1>1, <1>6, <2>1, <2>2, <2>4, <2>6, <2>7, <2>8 DEF TakesTurn
  <2> QED BY <1>0, <2>9, TurnKept
<1> QED BY <1>8, <1>9

LEMMA BirthKept == ASSUME BusInv, B!Birth PROVE BusInv'
<1> DEFINE a == B!Top.who
           offer == Pushed(B!Below, [B!Top EXCEPT !.kind = "offer", !.todo = B!Outsides])
<1>0. stack # <<>> /\ B!Top.kind = "put" BY DEF B!Birth, B!Is
<1>1. UNCHANGED <<made, facts, log, left, wide, taken, done, heard, deaths>> BY DEF B!Birth
<1>2. IF made[a].owns
      THEN /\ had' = [had EXCEPT ![B!Top.fact] = @ \cup {a}]
           /\ alive' = alive \cup {a} /\ born' = [born EXCEPT ![a] = Len(facts)]
           /\ stack' = Pushed(offer, [kind |-> "hear", who |-> a, fact |-> 0, todo |-> {}])
      ELSE stack' = offer /\ UNCHANGED <<had, alive, born>>
  BY DEF B!Birth, Pushed
<1>3. /\ BusTypes /\ had[B!Top.fact] \subseteq B!Ears /\ had = [had EXCEPT ![B!Top.fact] = had[B!Top.fact]]
      /\ had[B!Top.fact] \cap B!Busy = {} /\ B!Busy \subseteq alive /\ B!Top.who \in B!Acts
      /\ B!Top.who \notin alive /\ \A e \in B!Outsides : ~WasHeard(e, B!Top.fact)
  BY <1>0, TurnBefore
<1>4. PICK g : g = [B!Top EXCEPT !.kind = "offer", !.todo = B!Outsides] OBVIOUS
<1>5. PICK ears \in SUBSET B!Ears : ears = B!Outsides BY EarNumbers
<1>6. g \in B!Frames /\ g.kind = "offer" /\ g.who = B!Top.who /\ g.fact = B!Top.fact /\ g.todo = ears
  <2>1. B!Top.kind # "hear" /\ g = [B!Top EXCEPT !.kind = "offer", !.todo = ears] BY <1>0, <1>4, <1>5
  <2>2. g = Turned("offer", ears) BY <2>1 DEF Turned
  <2>3. \A kind \in {"put", "offer"} :
          /\ Turned(kind, ears) \in B!Frames /\ Turned(kind, ears).kind = kind /\ Turned(kind, ears).who = B!Top.who
          /\ Turned(kind, ears).fact = B!Top.fact /\ Turned(kind, ears).todo = ears
    BY <1>0, <1>3, <2>1, RestFrame
  <2> QED BY <2>2, <2>3
<1>7. offer = Pushed(B!Below, g) BY <1>4
<1>8. a \in B!Ears /\ a # 0 BY <1>3, EarNumbers
<1>9. g.todo \subseteq B!Outsides /\ \A e \in g.todo : ~WasHeard(e, B!Top.fact) /\ e # 0 BY <1>3, <1>5, <1>6, EarNumbers
<1>10. \A e \in B!Outsides : e \in g.todo BY <1>5, <1>6
<1> HIDE DEF offer
<1>11. CASE made[a].owns
  <2>1. /\ had' = [had EXCEPT ![B!Top.fact] = @ \cup {a}]
        /\ alive' = alive \cup {a} /\ born' = [born EXCEPT ![a] = Len(facts)]
        /\ stack' = Pushed(offer, [kind |-> "hear", who |-> a, fact |-> 0, todo |-> {}])
    BY <1>2, <1>11
  <2>2. PICK u : u = [kind |-> "hear", who |-> a, fact |-> 0, todo |-> {}] OBVIOUS
  <2>3. u \in B!Frames /\ u.kind = "hear" /\ u.who = a
    <3>1. PICK e \in B!Ears : e = a BY <1>8
    <3>2. [kind |-> "hear", who |-> e, fact |-> 0, todo |-> {}] \in B!Frames BY HearFrame
    <3> QED BY <2>2, <3>1, <3>2
  <2>4. /\ stack' \in Seq(B!Frames) /\ DOMAIN stack' = 1 .. Len(stack) + 1 /\ stack'[Len(stack)] = g /\ stack'[Len(stack) + 1] = u
        /\ \A i \in 1 .. Len(stack) - 1 : stack'[i] = stack[i]
    <3>1. stack' = Pushed(Pushed(B!Below, g), u) BY <1>7, <2>1, <2>2
    <3> QED BY <1>0, <1>3, <1>6, <2>3, <3>1, StackOver
  <2>5. PICK h : h = had[B!Top.fact] \cup {a} OBVIOUS
  <2>6. had' = [had EXCEPT ![B!Top.fact] = h] BY <2>1, <2>5
  <2>7. h \subseteq B!Ears /\ had[B!Top.fact] \subseteq h /\ h \cap B!Busy = {} BY <1>3, <1>8, <2>5
  <2>8. \A e \in alive : e \in h => e \in had[B!Top.fact] \/ e = 0 BY <1>3, <2>5
  <2>9. a \in alive' /\ a \notin B!Busy BY <1>3, <2>1
  <2>10. TakesTurn(g, a, 0, h)
    BY <1>0, <1>1, <1>6, <1>8, <1>9, <1>10, <2>1, <2>3, <2>4, <2>6, <2>7, <2>8, <2>9 DEF TakesTurn
  <2> QED BY <1>0, <2>10, TurnKept
<1>12. CASE ~made[a].owns
  <2>1. stack' = offer /\ UNCHANGED <<had, alive, born>> BY <1>2, <1>12
  <2>2. /\ stack' \in Seq(B!Frames) /\ DOMAIN stack' = 1 .. Len(stack) /\ stack'[Len(stack)] = g
        /\ \A i \in 1 .. Len(stack) - 1 : stack'[i] = stack[i]
    BY <1>0, <1>3, <1>6, <1>7, <2>1, RestForms
  <2>3. PICK h : h = had[B!Top.fact] OBVIOUS
  <2>4. had' = [had EXCEPT ![B!Top.fact] = h] BY <1>3, <2>1, <2>3
  <2>5. h \subseteq B!Ears /\ had[B!Top.fact] \subseteq h /\ h \cap B!Busy = {} BY <1>3, <2>3
  <2>6. TakesTurn(g, 0, 0, h) BY <1>0, <1>1, <1>6, <1>9, <1>10, <2>1, <2>2, <2>3, <2>4, <2>5 DEF TakesTurn
  <2> QED BY <1>0, <2>6, TurnKept
<1> QED BY <1>11, <1>12

LEMMA OfferKept == ASSUME BusInv, B!Offer PROVE BusInv'
<1>0. stack # <<>> /\ B!Top.kind = "offer" BY DEF B!Offer, B!Is
<1>1. UNCHANGED <<made, facts, had, log, left, alive, wide, taken, done, born, deaths>> BY DEF B!Offer
<1>2. PICK e \in B!Ears :
        /\ B!First(e, B!Top.todo)
        /\ IF B!Top.who \in taken THEN stack' = B!Rest(e) /\ UNCHANGED heard ELSE B!Hears(e, B!Top.fact, B!Rest(e))
  BY DEF B!Offer
<1>3. /\ BusTypes /\ had[B!Top.fact] \subseteq B!Ears /\ had = [had EXCEPT ![B!Top.fact] = had[B!Top.fact]]
      /\ had[B!Top.fact] \cap B!Busy = {} /\ B!Outsides \ B!Busy \subseteq had[B!Top.fact] /\ B!Top.todo \subseteq B!Ears
      /\ B!Top.fact \in 1 .. Len(facts) /\ B!Top \in B!Frames
      /\ B!Top.todo \subseteq B!Outsides /\ \A o \in B!Top.todo : ~WasHeard(o, B!Top.fact)
  BY <1>0, TurnBefore
<1>4. PICK g : g = [B!Top EXCEPT !.kind = "offer", !.todo = B!Top.todo \ {e}] OBVIOUS
<1>5. PICK ears \in SUBSET B!Ears : ears = B!Top.todo \ {e} BY <1>3
<1>6. g \in B!Frames /\ g.kind = "offer" /\ g.who = B!Top.who /\ g.fact = B!Top.fact /\ g.todo = ears
  <2>1. B!Top.kind # "hear" /\ g = [B!Top EXCEPT !.kind = "offer", !.todo = ears] BY <1>0, <1>4, <1>5
  <2>2. g = Turned("offer", ears) BY <2>1 DEF Turned
  <2>3. \A kind \in {"put", "offer"} :
          /\ Turned(kind, ears) \in B!Frames /\ Turned(kind, ears).kind = kind /\ Turned(kind, ears).who = B!Top.who
          /\ Turned(kind, ears).fact = B!Top.fact /\ Turned(kind, ears).todo = ears
    BY <1>0, <1>3, <2>1, RestFrame
  <2> QED BY <2>2, <2>3
<1>7. B!Rest(e) = Pushed(B!Below, g)
  <2>1. PICK p : p = B!Top OBVIOUS
  <2>2. p = [kind |-> p.kind, who |-> p.who, fact |-> p.fact, todo |-> p.todo] BY <1>3, <2>1, FrameForms
  <2>3. [p EXCEPT !.todo = @ \ {e}] = [p EXCEPT !.kind = "offer", !.todo = p.todo \ {e}] BY <1>0, <2>1, <2>2
  <2> QED BY <1>4, <2>1, <2>3 DEF B!Rest, Pushed
<1>8. e \in B!Top.todo /\ e \in B!Outsides /\ e # 0 BY <1>2, <1>3, EarNumbers DEF B!First
<1>9. PICK h : h = had[B!Top.fact] OBVIOUS
<1>10. /\ had' = [had EXCEPT ![B!Top.fact] = h] /\ h \subseteq B!Ears /\ had[B!Top.fact] \subseteq h /\ h \cap B!Busy = {}
       /\ \A o \in alive : o \in h => o \in had[B!Top.fact]
  BY <1>1, <1>3, <1>9
<1>11. CASE B!Top.who \notin taken /\ e \in alive \ B!Busy
  <2>1. /\ stack' = Pushed(B!Rest(e), [kind |-> "hear", who |-> e, fact |-> B!Top.fact, todo |-> {}])
        /\ heard' = [heard EXCEPT ![e] = Append(@, B!Top.fact)]
    BY <1>2, <1>11 DEF B!Hears, Pushed
  <2>2. PICK u : u = [kind |-> "hear", who |-> e, fact |-> B!Top.fact, todo |-> {}] OBVIOUS
  <2>3. u \in B!Frames /\ u.kind = "hear" /\ u.who = e BY <1>3, <2>2, HearFrame
  <2>4. /\ stack' \in Seq(B!Frames) /\ DOMAIN stack' = 1 .. Len(stack) + 1 /\ stack'[Len(stack)] = g /\ stack'[Len(stack) + 1] = u
        /\ \A i \in 1 .. Len(stack) - 1 : stack'[i] = stack[i]
    <3>1. stack' = Pushed(Pushed(B!Below, g), u) BY <1>7, <2>1, <2>2
    <3> QED BY <1>0, <1>3, <1>6, <2>3, <3>1, StackOver
  <2>5. e \in h /\ ~WasHeard(e, B!Top.fact) BY <1>3, <1>8, <1>9, <1>11
  <2>6. g.todo \subseteq B!Outsides /\ \A o \in g.todo : ~WasHeard(o, B!Top.fact) /\ o # e BY <1>3, <1>5, <1>6
  <2>7. \A o \in alive \cap B!Outsides : B!Top.kind = "put" \/ o \in B!Top.todo => o \in g.todo \/ o = e BY <1>0, <1>5, <1>6
  <2>8. e \in alive' /\ e \notin B!Busy BY <1>1, <1>11
  <2>9. TakesTurn(g, e, e, h)
    BY <1>0, <1>1, <1>6, <1>8, <1>10, <2>1, <2>3, <2>4, <2>5, <2>6, <2>7, <2>8 DEF TakesTurn
  <2> QED BY <1>0, <2>9, TurnKept
<1>12. CASE ~(B!Top.who \notin taken /\ e \in alive \ B!Busy)
  <2>1. stack' = B!Rest(e) /\ heard' = heard BY <1>2, <1>12 DEF B!Hears, Pushed
  <2>2. /\ stack' \in Seq(B!Frames) /\ DOMAIN stack' = 1 .. Len(stack) /\ stack'[Len(stack)] = g
        /\ \A i \in 1 .. Len(stack) - 1 : stack'[i] = stack[i]
    BY <1>0, <1>3, <1>6, <1>7, <2>1, RestForms
  <2>3. g.todo \subseteq B!Outsides /\ \A o \in g.todo : ~WasHeard(o, B!Top.fact) /\ o # 0 BY <1>3, <1>5, <1>6, EarNumbers
  <2>4. \A o \in alive \cap B!Outsides : B!Top.kind = "put" \/ o \in B!Top.todo =>
          o \in g.todo \/ B!Top.who \in taken \/ o \notin h
    <3>1. TAKE o \in alive \cap B!Outsides
    <3>2. HAVE B!Top.kind = "put" \/ o \in B!Top.todo
    <3>3. CASE o # e BY <1>0, <1>5, <1>6, <3>2, <3>3
    <3>4. CASE o = e
      <4>1. B!Top.who \in taken \/ e \in B!Busy BY <1>12, <3>4
      <4> QED BY <1>10, <3>4, <4>1
    <3> QED BY <3>3, <3>4
  <2>5. TakesTurn(g, 0, 0, h) BY <1>0, <1>1, <1>6, <1>10, <2>1, <2>2, <2>3, <2>4 DEF TakesTurn
  <2> QED BY <1>0, <2>5, TurnKept
<1> QED BY <1>11, <1>12

(* The log is dispatched. *)

LEMMA TakeKept == ASSUME BusInv, B!Take PROVE BusInv'
<1>0. BusTypes /\ Framed /\ LogInOrder /\ HeardSoFar /\ StillToHear /\ StillToTake BY DEF BusInv
<1>1. /\ stack = <<>> /\ left.ears = {} /\ log # <<>> /\ log' = Tail(log)
      /\ UNCHANGED <<made, facts, had, stack, alive, wide, taken, done, heard, born, deaths>>
  BY DEF B!Take
<1>2. PICK n : n = log[1] OBVIOUS
<1>3. left' = [fact |-> n, ears |-> B!EarsOf(B!Named(facts[n])) \ had[n]] BY <1>2 DEF B!Take
<1>4. log \in Seq(1 .. Len(facts)) /\ DOMAIN log = 1 .. Len(log) /\ Len(log) \in Nat /\ Len(facts) \in Nat /\ Len(log) >= 1
  <2>1. log \in Seq(1 .. Len(facts)) /\ DOMAIN log = 1 .. Len(log) /\ Len(log) \in Nat /\ Len(facts) \in Nat BY <1>0, BusForms
  <2>2. Len(log) >= 1 BY <1>1, <2>1, EmptySeq
  <2> QED BY <2>1, <2>2
<1>5. 1 \in DOMAIN log /\ n \in 1 .. Len(facts) BY <1>2, <1>4
<1>6. /\ log' \in Seq(1 .. Len(facts)) /\ DOMAIN log' = 1 .. Len(log) - 1 /\ \A k \in 1 .. Len(log) - 1 : log'[k] = log[k + 1]
  <2>1. PICK m, s : m = Len(facts) /\ s = log OBVIOUS
  <2>2. s \in Seq(1 .. m) /\ s # <<>> BY <1>1, <1>4, <2>1
  <2>3. Tail(s) \in Seq(1 .. m) /\ Len(Tail(s)) = Len(s) - 1 /\ \A k \in 1 .. Len(s) - 1 : Tail(s)[k] = s[k + 1]
    BY <2>2, HeadTailProperties
  <2>4. DOMAIN Tail(s) = 1 .. Len(s) - 1 BY <2>3
  <2> QED BY <1>1, <2>1, <2>3, <2>4
<1>7. \A k \in DOMAIN log' : k + 1 \in DOMAIN log /\ log'[k] = log[k + 1] /\ k \in Nat
  <2>1. TAKE k \in DOMAIN log'
  <2>2. k \in 1 .. Len(log) - 1 BY <1>6
  <2>3. log'[k] = log[k + 1] BY <1>6, <2>2
  <2>4. k + 1 \in DOMAIN log /\ k \in Nat BY <1>4, <2>2
  <2> QED BY <2>3, <2>4
<1>8. \A k \in DOMAIN log : k = 1 \/ (k - 1 \in DOMAIN log' /\ log'[k - 1] = log[k])
  <2>1. TAKE k \in DOMAIN log
  <2>2. CASE k # 1
    <3>1. k - 1 \in 1 .. Len(log) - 1 /\ (k - 1) + 1 = k BY <1>4, <2>2
    <3> QED BY <1>6, <3>1
  <2> QED BY <2>2
<1>9. left'.fact = n /\ left'.ears = B!EarsOf(B!Named(facts[n])) \ had[n] /\ left'.ears \subseteq alive BY <1>3 DEF B!EarsOf
<1>10. alive \subseteq B!Ears BY <1>0 DEF BusTypes, B!TypeOK
<1>11. BusTypes'
  <2>1. /\ made \in Seq(B!MadeActs) /\ Len(made) <= MaxActs /\ facts \in Seq(B!Facts) /\ had \in Seq(SUBSET B!Ears) /\ Len(had) = Len(facts)
        /\ stack \in Seq(B!Frames) /\ alive \subseteq B!Ears /\ wide \subseteq B!Ears /\ taken \subseteq B!Made /\ deaths \in 0 .. MaxDeaths
        /\ \A a \in B!Acts : done[a] # 0 => facts[done[a]].kind = "done" /\ facts[done[a]].about = a
        /\ \A e \in B!Ears : heard[e] \in Seq(1 .. Len(facts)) /\ born[e] \in 0 .. Len(facts)
    BY <1>0 DEF BusTypes, B!TypeOK
  <2>2. left'.ears \subseteq B!Ears /\ left'.fact \in 0 .. Len(facts) BY <1>5, <1>9, <1>10
  <2>3. B!Made' = B!Made BY <1>1 DEF B!Made
  <2>4. B!TypeOK' BY <1>1, <1>6, <2>1, <2>2, <2>3 DEF B!TypeOK
  <2>5. /\ alive \cap B!Acts \subseteq B!Made /\ (\A f \in 1 .. Len(facts) : facts[f].about \in B!Made \cup B!Outsides)
        /\ done \in [B!Acts -> Nat] /\ (\A a \in B!Acts : done[a] <= Len(facts))
        /\ heard \in [B!Ears -> Seq(Nat)] /\ born \in [B!Ears -> Nat]
    BY <1>0 DEF BusTypes
  <2>6. left' \in [fact : Nat, ears : SUBSET B!Ears]
    <3>1. PICK ears \in SUBSET B!Ears : ears = B!EarsOf(B!Named(facts[n])) \ had[n] BY <1>9, <1>10
    <3>2. left' = [fact |-> n, ears |-> ears] /\ n \in Nat BY <1>3, <1>5, <3>1
    <3> QED BY <3>2
  <2> QED BY <1>1, <2>3, <2>4, <2>5, <2>6 DEF BusTypes
<1>12. Framed'
  <2>1. DOMAIN stack' = {} BY <1>1
  <2> QED BY <2>1 DEF Framed
<1>13. LogInOrder'
  <2>1. left'.ears # {} => left'.fact # 0 BY <1>5, <1>9
  <2>2. \A i, j \in DOMAIN log : i < j => log[i] < log[j] BY <1>0 DEF LogInOrder
  <2>3. \A i, j \in DOMAIN log' : i < j => log'[i] < log'[j]
    <3>1. TAKE i, j \in DOMAIN log'
    <3>2. HAVE i < j
    <3>3. i + 1 < j + 1 BY <1>7, <3>2
    <3> QED BY <1>7, <2>2, <3>3
  <2>4. \A i \in DOMAIN log' : left'.fact < log'[i]
    <3>1. TAKE i \in DOMAIN log'
    <3>2. 1 < i + 1 BY <1>6
    <3> QED BY <1>2, <1>5, <1>7, <1>9, <2>2, <3>2
  <2> QED BY <2>1, <2>3, <2>4 DEF LogInOrder
<1>14. HeardSoFar'
  <2>1. B!HeardOnce' /\ B!HeardInOrder' BY <1>0, <1>1 DEF HeardSoFar, B!HeardOnce, B!HeardInOrder, B!IsInjective
  <2>2. \A e \in B!Ears : \A k \in DOMAIN log : \A f : f = log[k] /\ WasHeard(e, f) => e \in had[f] BY <1>0 DEF HeardSoFar
  <2>3. \A e \in B!Ears : \A k \in DOMAIN log' : \A f : f = log'[k] /\ WasHeard(e, f) => e \in had[f] BY <1>7, <2>2
  <2>4. \A e, f : WasHeard(e, f)' <=> WasHeard(e, f) BY <1>1 DEF WasHeard
  <2>5. \A e \in B!Ears : \A k \in DOMAIN log' : WasHeard(e, log[k])' => e \in had'[log'[k]]
    <3>1. \A e \in B!Ears : \A k \in DOMAIN log' : \A f : f = log'[k] /\ WasHeard(e, f)' => e \in had[f] BY <2>3, <2>4
    <3> QED BY <1>1, <3>1
  <2>6. \A e \in left'.ears : \A f : f = n => ~WasHeard(e, f)'
    <3>1. \A e \in left'.ears : e \in B!Ears /\ e \notin had[n] BY <1>9, <1>10
    <3>2. \A e \in B!Ears : WasHeard(e, n) => e \in had[n] BY <1>2, <1>5, <2>2
    <3> QED BY <2>4, <3>1, <3>2
  <2>7. \A e \in left'.ears : ~WasHeard(e, left.fact)' BY <1>9, <2>6
  <2>8. \A e \in B!Ears : \A i \in DOMAIN heard[e] : facts[heard[e][i]].kind # "act" => heard[e][i] <= n
    <3>1. TAKE e \in B!Ears
    <3>2. TAKE i \in DOMAIN heard[e]
    <3>3. HAVE facts[heard[e][i]].kind # "act"
    <3>4. heard[e][i] <= left.fact /\ left.fact < n BY <1>0, <1>2, <1>5, <3>3 DEF HeardSoFar, LogInOrder
    <3>5. heard[e][i] \in Nat /\ left.fact \in Nat /\ n \in Nat
      <4>1. \A j \in DOMAIN heard[e] : heard[e][j] \in 1 .. Len(facts) BY <1>0, HeardForms
      <4>2. left.fact \in Nat BY <1>0 DEF BusTypes
      <4> QED BY <1>5, <4>1, <4>2
    <3> QED BY <3>4, <3>5
  <2>9. \A e \in B!Ears : \A i \in DOMAIN heard'[e] : facts'[heard'[e][i]].kind # "act" => heard'[e][i] <= left'.fact
    BY <1>1, <1>9, <2>8
  <2> QED BY <2>1, <2>5, <2>7, <2>9 DEF HeardSoFar
<1>15. StillToHear'
  <2> SUFFICES ASSUME NEW e \in alive, NEW f \in 1 .. Len(facts), f > born[e] PROVE Awaited(e, f)'
    BY <1>1 DEF StillToHear
  <2>1. Awaited(e, f) BY <1>0 DEF StillToHear
  <2>2. B!Named(facts[f])' = B!Named(facts[f]) BY <1>1 DEF B!Named, B!Made
  <2>3. CASE e \notin wide \cup B!Named(facts[f]) BY <1>1, <2>2, <2>3 DEF Awaited
  <2>4. CASE WasHeard(e, f)
    <3>1. WasHeard(e, f)' BY <1>1, <2>4 DEF WasHeard
    <3> QED BY <3>1 DEF Awaited
  <2>5. CASE Logged(f) /\ e \notin had[f]
    <3>1. PICK k \in DOMAIN log : log[k] = f BY <2>5 DEF Logged
    <3>2. CASE k = 1
      <4>1. f = n BY <1>2, <3>1, <3>2
      <4>2. CASE e \in wide \cup B!Named(facts[f])
        <5>1. e \in left'.ears /\ left'.fact = f BY <1>9, <2>5, <4>1, <4>2 DEF B!EarsOf
        <5> QED BY <5>1 DEF Awaited
      <4> QED BY <2>3, <4>2
    <3>3. CASE k # 1
      <4>1. Logged(f)' BY <1>8, <3>1, <3>3 DEF Logged
      <4>2. e \notin had'[f] BY <1>1, <2>5
      <4> QED BY <4>1, <4>2 DEF Awaited
    <3> QED BY <3>2, <3>3
  <2>6. CASE facts[f].kind = "act" /\ (facts[f].about = e \/ (e \in B!Outsides /\ facts[f].about \in taken))
    <3>1. facts'[f].kind = "act" /\ (facts'[f].about = e \/ (e \in B!Outsides /\ facts'[f].about \in taken')) BY <1>1, <2>6
    <3> QED BY <3>1 DEF Awaited, B!Outsides
  <2>7. DOMAIN stack = {} BY <1>1
  <2> QED BY <1>1, <2>1, <2>3, <2>4, <2>5, <2>6, <2>7 DEF Awaited
<1>16. StillToTake' BY <1>0, <1>1 DEF StillToTake, TurnsLeft, B!Outsides
<1> QED BY <1>11, <1>12, <1>13, <1>14, <1>15, <1>16 DEF BusInv

LEMMA DispatchKept == ASSUME BusInv, B!Dispatch PROVE BusInv'
<1>0. BusTypes /\ Framed /\ LogInOrder /\ HeardSoFar /\ StillToHear /\ StillToTake BY DEF BusInv
<1>1. /\ stack = <<>> /\ UNCHANGED <<made, facts, had, log, alive, wide, taken, done, born, deaths>>
  BY DEF B!Dispatch
<1>2. PICK x \in B!Ears : B!First(x, left.ears) /\ B!Hears(x, left.fact, <<>>) /\ left' = [left EXCEPT !.ears = @ \ {x}]
  BY DEF B!Dispatch
<1>3. PICK n : n = left.fact OBVIOUS
<1>4. x \in left.ears BY <1>2 DEF B!First
<1>5. n \in 1 .. Len(facts) /\ n \in Nat /\ Len(facts) \in Nat
  <2>1. left.fact \in 0 .. Len(facts) BY <1>0 DEF BusTypes, B!TypeOK
  <2>2. left.fact # 0 BY <1>0, <1>4 DEF LogInOrder
  <2>3. Len(facts) \in Nat BY <1>0, BusForms
  <2> QED BY <1>3, <2>1, <2>2, <2>3
<1>6. left'.fact = n /\ left'.ears = left.ears \ {x} /\ left' \in [fact : Nat, ears : SUBSET B!Ears]
  <2>1. left \in [fact : Nat, ears : SUBSET B!Ears] BY <1>0 DEF BusTypes
  <2>2. PICK ears \in SUBSET B!Ears : ears = left.ears \ {x} BY <2>1
  <2>3. left' = [fact |-> n, ears |-> ears] BY <1>2, <1>3, <2>1, <2>2
  <2> QED BY <1>5, <2>2, <2>3
<1>7. B!Busy = {}
  <2>1. DOMAIN stack = {} BY <1>1
  <2> QED BY <2>1 DEF B!Busy
<1>8. ~WasHeard(x, n) BY <1>0, <1>3, <1>4 DEF HeardSoFar
<1>9. /\ heard' = heard \/ heard' = [heard EXCEPT ![x] = Append(@, n)]
      /\ x \in alive => heard' = [heard EXCEPT ![x] = Append(@, n)]
      /\ x \notin alive => heard' = heard /\ stack' = <<>>
  BY <1>2, <1>3, <1>7 DEF B!Hears
<1>10. /\ stack' \in Seq(B!Frames) /\ \A i \in DOMAIN stack' : i = 1 /\ stack'[i].kind = "hear" /\ stack'[i].who = x /\ x \in alive
  <2>1. CASE x \in alive
    <3>1. stack' = Append(<<>>, [kind |-> "hear", who |-> x, fact |-> n, todo |-> {}]) BY <1>2, <1>3, <1>7, <2>1 DEF B!Hears
    <3>2. PICK u : u = [kind |-> "hear", who |-> x, fact |-> n, todo |-> {}] OBVIOUS
    <3>3. u \in B!Frames /\ u.kind = "hear" /\ u.who = x BY <1>5, <3>2, HearFrame
    <3>4. stack' = Append(<<>>, u) BY <3>1, <3>2
    <3>5. stack' = <<u>> BY <3>4
    <3> QED BY <2>1, <3>3, <3>5
  <2>2. CASE x \notin alive
    <3>1. stack' = <<>> BY <1>9, <2>2
    <3> QED BY <3>1
  <2> QED BY <2>1, <2>2
<1>11. /\ \A e \in B!Ears : heard'[e] = heard[e] \/ (e = x /\ heard'[e] = Append(heard[e], n))
       /\ \A e \in B!Ears : \A f : WasHeard(e, f) => WasHeard(e, f)'
       /\ \A e \in B!Ears : \A f : WasHeard(e, f)' => WasHeard(e, f) \/ (e = x /\ f = n)
       /\ \A e \in B!Ears : heard'[e] \in Seq(1 .. Len(facts))
       /\ heard' \in [B!Ears -> Seq(Nat)]
  <2>1. CASE heard' = heard
    <3>1. \A e \in B!Ears : heard[e] \in Seq(1 .. Len(facts)) BY <1>0, HeardForms
    <3>2. heard \in [B!Ears -> Seq(Nat)] BY <1>0 DEF BusTypes
    <3> QED BY <2>1, <3>1, <3>2 DEF WasHeard
  <2>2. CASE heard' = [heard EXCEPT ![x] = Append(@, n)] BY <1>0, <1>5, <2>2, HeardOneMore
  <2> QED BY <1>9, <2>1, <2>2
<1>12. x \in alive => \A f : f = n => WasHeard(x, f)'
  <2>1. ASSUME x \in alive PROVE \A f : f = n => WasHeard(x, f)'
    <3>1. heard' = [heard EXCEPT ![x] = Append(@, n)] BY <1>9, <2>1
    <3> QED BY <1>0, <1>5, <3>1, HeardOneMore
  <2> QED BY <2>1
<1>13. BusTypes'
  <2>1. /\ made \in Seq(B!MadeActs) /\ Len(made) <= MaxActs /\ facts \in Seq(B!Facts) /\ had \in Seq(SUBSET B!Ears) /\ Len(had) = Len(facts)
        /\ log \in Seq(1 .. Len(facts)) /\ left.ears \subseteq B!Ears
        /\ alive \subseteq B!Ears /\ wide \subseteq B!Ears /\ taken \subseteq B!Made /\ deaths \in 0 .. MaxDeaths
        /\ \A a \in B!Acts : done[a] # 0 => facts[done[a]].kind = "done" /\ facts[done[a]].about = a
        /\ \A e \in B!Ears : born[e] \in 0 .. Len(facts)
    BY <1>0 DEF BusTypes, B!TypeOK
  <2>2. left'.ears \subseteq B!Ears /\ left'.fact \in 0 .. Len(facts) BY <1>5, <1>6, <2>1
  <2>3. B!Made' = B!Made BY <1>1 DEF B!Made
  <2>4. B!TypeOK' BY <1>1, <1>10, <1>11, <2>1, <2>2, <2>3 DEF B!TypeOK
  <2>5. /\ alive \cap B!Acts \subseteq B!Made /\ (\A f \in 1 .. Len(facts) : facts[f].about \in B!Made \cup B!Outsides)
        /\ done \in [B!Acts -> Nat] /\ (\A a \in B!Acts : done[a] <= Len(facts)) /\ born \in [B!Ears -> Nat]
    BY <1>0 DEF BusTypes
  <2> QED BY <1>1, <1>6, <1>11, <2>3, <2>4, <2>5 DEF BusTypes
<1>14. Framed'
  <2>1. \A i \in DOMAIN stack' : stack'[i].kind = "hear" => stack'[i].who \in alive' BY <1>1, <1>10
  <2>2. \A i, j \in DOMAIN stack' : i # j /\ (stack'[i].kind = "hear") = (stack'[j].kind = "hear") => stack'[i].who # stack'[j].who
    <3>1. \A i, j \in DOMAIN stack' : i = j BY <1>10
    <3> QED BY <3>1
  <2>3. \A i \in DOMAIN stack' : ~(stack'[i].kind # "hear") BY <1>10
  <2> QED BY <2>1, <2>2, <2>3 DEF Framed
<1>15. LogInOrder'
  <2>1. /\ \A i, j \in DOMAIN log : i < j => log[i] < log[j]
        /\ \A i \in DOMAIN log : left.fact < log[i]
    BY <1>0 DEF LogInOrder
  <2>2. n # 0 BY <1>5
  <2> QED BY <1>1, <1>3, <1>6, <2>1, <2>2 DEF LogInOrder
<1>16. HeardSoFar'
  <2>1. ASSUME NEW e \in B!Ears, e = x, heard'[e] = Append(heard[e], n)
        PROVE  /\ B!IsInjective(heard'[e])
               /\ \A i, j \in DOMAIN heard'[e] : i < j /\ facts[heard'[e][i]].kind # "act" /\ facts[heard'[e][j]].kind # "act"
                                                => heard'[e][i] < heard'[e][j]
               /\ \A i \in DOMAIN heard'[e] : facts[heard'[e][i]].kind # "act" => heard'[e][i] <= left.fact
    <3>1. ~WasHeard(e, n) BY <1>8, <2>1
    <3>2. \A s : s = heard'[e] =>
            /\ B!IsInjective(s)
            /\ \A i, j \in DOMAIN s : i < j /\ facts[s[i]].kind # "act" /\ facts[s[j]].kind # "act" => s[i] < s[j]
            /\ \A i \in DOMAIN s : facts[s[i]].kind # "act" => s[i] <= left.fact
      BY <1>0, <1>3, <1>5, <2>1, <3>1, HeardMore
    <3> QED BY <3>2
  <2>2. B!HeardOnce'
    <3>1. \A e \in B!Ears : B!IsInjective(heard[e]) BY <1>0 DEF HeardSoFar, B!HeardOnce
    <3>2. \A e \in B!Ears : B!IsInjective(heard'[e]) BY <1>11, <2>1, <3>1
    <3> QED BY <3>2 DEF B!HeardOnce, B!IsInjective
  <2>3. B!HeardInOrder'
    <3>1. \A e \in B!Ears : \A i, j \in DOMAIN heard[e] :
            i < j /\ facts[heard[e][i]].kind # "act" /\ facts[heard[e][j]].kind # "act" => heard[e][i] < heard[e][j]
      BY <1>0 DEF HeardSoFar, B!HeardInOrder
    <3>2. \A e \in B!Ears : \A i, j \in DOMAIN heard'[e] :
            i < j /\ facts[heard'[e][i]].kind # "act" /\ facts[heard'[e][j]].kind # "act" => heard'[e][i] < heard'[e][j]
      BY <1>11, <2>1, <3>1
    <3> QED BY <1>1, <3>2 DEF B!HeardInOrder
  <2>4. \A e \in B!Ears : \A k \in DOMAIN log : \A f : f = log[k] /\ WasHeard(e, f)' => e \in had[f]
    <3>1. TAKE e \in B!Ears
    <3>2. TAKE k \in DOMAIN log
    <3>3. TAKE f
    <3>4. HAVE f = log[k] /\ WasHeard(e, f)'
    <3>5. f # n
      <4>1. n < f BY <1>0, <1>3, <3>4 DEF LogInOrder
      <4> QED BY <1>5, <4>1
    <3>6. WasHeard(e, f) BY <1>11, <3>4, <3>5
    <3> QED BY <1>0, <3>4, <3>6 DEF HeardSoFar
  <2>5. \A e \in left'.ears : \A f : f = n => ~WasHeard(e, f)'
    <3>1. \A e \in left.ears : e \in B!Ears /\ ~WasHeard(e, n) BY <1>0, <1>3 DEF HeardSoFar, BusTypes, B!TypeOK
    <3>2. \A e \in left'.ears : e \in left.ears /\ e # x BY <1>6
    <3> QED BY <1>11, <3>1, <3>2
  <2>6. \A e \in B!Ears : \A i \in DOMAIN heard'[e] : facts[heard'[e][i]].kind # "act" => heard'[e][i] <= left.fact
    <3>1. \A e \in B!Ears : \A i \in DOMAIN heard[e] : facts[heard[e][i]].kind # "act" => heard[e][i] <= left.fact
      BY <1>0 DEF HeardSoFar
    <3> QED BY <1>11, <2>1, <3>1
  <2>7. \A e \in B!Ears : \A k \in DOMAIN log' : WasHeard(e, log[k])' => e \in had'[log'[k]] BY <1>1, <2>4
  <2>8. \A e \in left'.ears : ~WasHeard(e, left.fact)' BY <1>6, <2>5
  <2>9. \A e \in B!Ears : \A i \in DOMAIN heard'[e] : facts'[heard'[e][i]].kind # "act" => heard'[e][i] <= left'.fact
    BY <1>1, <1>3, <1>6, <2>6
  <2> QED BY <2>2, <2>3, <2>7, <2>8, <2>9 DEF HeardSoFar
<1>17. StillToHear'
  <2> SUFFICES ASSUME NEW e \in alive, NEW f \in 1 .. Len(facts), f > born[e] PROVE Awaited(e, f)'
    BY <1>1 DEF StillToHear
  <2>0. e \in B!Ears BY <1>0 DEF BusTypes, B!TypeOK
  <2>1. Awaited(e, f) BY <1>0 DEF StillToHear
  <2>2. B!Named(facts[f])' = B!Named(facts[f]) BY <1>1 DEF B!Named, B!Made
  <2>3. CASE e \notin wide \cup B!Named(facts[f]) BY <1>1, <2>2, <2>3 DEF Awaited
  <2>4. CASE WasHeard(e, f)
    <3>1. WasHeard(e, f)' BY <1>11, <2>0, <2>4
    <3> QED BY <3>1 DEF Awaited
  <2>5. CASE Logged(f) /\ e \notin had[f]
    <3>1. Logged(f)' /\ e \notin had'[f] BY <1>1, <2>5 DEF Logged
    <3> QED BY <3>1 DEF Awaited
  <2>6. CASE left.fact = f /\ e \in left.ears
    <3>1. CASE e = x
      <4>1. WasHeard(e, f)' BY <1>3, <1>12, <2>6, <3>1
      <4> QED BY <4>1 DEF Awaited
    <3>2. CASE e # x
      <4>1. left'.fact = f /\ e \in left'.ears BY <1>3, <1>6, <2>6, <3>2
      <4> QED BY <4>1 DEF Awaited
    <3> QED BY <3>1, <3>2
  <2>7. CASE facts[f].kind = "act" /\ (facts[f].about = e \/ (e \in B!Outsides /\ facts[f].about \in taken))
    <3>1. facts'[f].kind = "act" /\ (facts'[f].about = e \/ (e \in B!Outsides /\ facts'[f].about \in taken')) BY <1>1, <2>7
    <3> QED BY <3>1 DEF Awaited, B!Outsides
  <2>8. DOMAIN stack = {} BY <1>1
  <2> QED BY <2>1, <2>3, <2>4, <2>5, <2>6, <2>7, <2>8 DEF Awaited
<1>18. StillToTake'
  <2> SUFFICES ASSUME NEW f \in 1 .. Len(facts), facts[f].kind = "act", facts[f].about \notin taken PROVE TurnsLeft(f)'
    BY <1>1 DEF StillToTake
  <2>1. TurnsLeft(f) BY <1>0 DEF StillToTake
  <2>2. DOMAIN stack = {} BY <1>1
  <2>3. B!Outsides \ had'[f] # {} BY <1>1, <2>1, <2>2 DEF TurnsLeft
  <2> QED BY <2>3 DEF TurnsLeft, B!Outsides
<1> QED BY <1>13, <1>14, <1>15, <1>16, <1>17, <1>18 DEF BusInv

(* The bus as a whole. *)

LEMMA SpeakKept == ASSUME BusInv, B!Speak PROVE BusInv'
<1>0. BusTypes BY DEF BusInv
<1>1. stack # <<>> /\ (B!Says(B!Top.who) \/ B!Makes(B!Top.who)) BY DEF B!Speak, B!Is
<1>2. B!Top.who \in B!Ears
  <2>1. B!Top \in B!Frames BY <1>0, <1>1, PopForms
  <2> QED BY <2>1, FrameForms
<1>3. PICK by \in B!Ears : by = B!Top.who BY <1>2
<1>4. by \in B!Makers BY DEF B!Makers
<1>5. CASE B!Says(B!Top.who)
  <2>1. B!Says(by) BY <1>3, <1>5
  <2> QED BY <2>1, SaysKept
<1>6. CASE B!Makes(B!Top.who)
  <2>1. B!Makes(by) BY <1>3, <1>6
  <2> QED BY <1>4, <2>1, MakesKept
<1> QED BY <1>1, <1>5, <1>6

LEMMA WordKept == ASSUME BusInv, B!Word PROVE BusInv'
<1>0. BusTypes BY DEF BusInv
<1>1. PICK by \in {0} \cup B!Made \cup B!Outsides : B!Makes(by) \/ (by # 0 /\ B!Says(by)) BY DEF B!Word, B!NOBODY
<1>2. by # 0 => by \in B!Ears BY <1>0, <1>1, MadeAreActs, EarNumbers
<1>3. by \in B!Makers BY <1>2 DEF B!Makers, B!NOBODY
<1>4. CASE B!Makes(by) BY <1>3, <1>4, MakesKept
<1>5. CASE by # 0 /\ B!Says(by) BY <1>2, <1>5, SaysKept
<1> QED BY <1>1, <1>4, <1>5

LEMMA BusInit == B!Init => BusInv
<1> SUFFICES ASSUME B!Init PROVE BusInv
  OBVIOUS
<1>1. /\ made = <<>> /\ facts = <<>> /\ had = <<>> /\ log = <<>> /\ stack = <<>>
      /\ left = [fact |-> 0, ears |-> {}]
      /\ alive = B!Outsides /\ wide \in Waits
      /\ taken = {} /\ done = [a \in B!Acts |-> 0]
      /\ heard = [e \in B!Ears |-> <<>>] /\ born = [e \in B!Ears |-> 0] /\ deaths = 0
  BY DEF B!Init
<1>2. wide \subseteq B!Ears
  <2>1. Waits \subseteq SUBSET (1 .. MaxActs + Outside) BY EngineAssumption DEF B!BusAssumption
  <2> QED BY <1>1, <2>1 DEF B!Ears
<1>3. Len(facts) = 0 /\ Len(made) = 0 /\ Len(had) = 0 /\ DOMAIN stack = {} /\ DOMAIN log = {} BY <1>1
<1>4. B!Outsides \subseteq B!Ears /\ B!Outsides \cap B!Acts = {} /\ MaxActs \in Nat /\ MaxDeaths \in Nat BY EarNumbers
<1>5. BusTypes
  <2>1. \A n : <<>> \in Seq(n) OBVIOUS
  <2>2. B!TypeOK BY <1>1, <1>2, <1>3, <1>4, <2>1 DEF B!TypeOK
  <2>3. left \in [fact : Nat, ears : SUBSET B!Ears]
    <3>0. {} \in SUBSET B!Ears OBVIOUS
    <3>1. PICK ears \in SUBSET B!Ears : ears = {} BY <3>0
    <3>2. left = [fact |-> 0, ears |-> ears] BY <1>1, <3>1
    <3> QED BY <3>2
  <2>4. heard \in [B!Ears -> Seq(Nat)] BY <1>1, <2>1
  <2> QED BY <1>1, <1>3, <1>4, <2>2, <2>3, <2>4 DEF BusTypes
<1>6. \A e \in B!Ears : DOMAIN heard[e] = {} BY <1>1
<1>7. Framed BY <1>3 DEF Framed
<1>8. LogInOrder BY <1>1, <1>3 DEF LogInOrder
<1>9. HeardSoFar BY <1>1, <1>3, <1>6 DEF HeardSoFar, B!HeardOnce, B!HeardInOrder, B!IsInjective
<1>10. StillToHear /\ StillToTake BY <1>3 DEF StillToHear, StillToTake
<1> QED BY <1>5, <1>7, <1>8, <1>9, <1>10 DEF BusInv

LEMMA BusStutters == ASSUME BusInv, UNCHANGED ofBus PROVE BusInv'
<1>1. UNCHANGED <<made, facts, had, log, left, stack, alive, wide, taken, done, heard, born, deaths>> BY DEF ofBus
<1>2. BusTypes' BY <1>1 DEF BusInv, BusTypes, B!TypeOK, B!Made
<1>3. Framed' BY <1>1 DEF BusInv, Framed, PutFrame, HearersBelow, Logged, WasHeard, B!Outsides
<1>4. LogInOrder' BY <1>1 DEF BusInv, LogInOrder
<1>5. HeardSoFar' BY <1>1 DEF BusInv, HeardSoFar, B!HeardOnce, B!HeardInOrder, B!IsInjective, WasHeard
<1>6. StillToHear' BY <1>1 DEF BusInv, StillToHear, Awaited, Logged, WasHeard, B!Named, B!Made, B!Outsides
<1>7. StillToTake' BY <1>1 DEF BusInv, StillToTake, TurnsLeft, B!Outsides
<1> QED BY <1>2, <1>3, <1>4, <1>5, <1>6, <1>7 DEF BusInv

LEMMA BusNext == BusInv /\ [B!Next]_ofBus => BusInv'
<1> SUFFICES ASSUME BusInv, [B!Next]_ofBus PROVE BusInv'
  OBVIOUS
<1>1. CASE UNCHANGED ofBus BY <1>1, BusStutters
<1>2. CASE B!Put \/ B!Birth \/ B!Offer BY <1>2, PutKept, BirthKept, OfferKept
<1>3. CASE B!Refuse BY <1>3, RefuseKept
<1>4. CASE B!Speak \/ B!Word BY <1>4, SpeakKept, WordKept
<1>5. CASE B!Wait \/ B!Dies BY <1>5, WaitKept, DiesKept
<1>6. CASE B!Take \/ B!Dispatch BY <1>6, TakeKept, DispatchKept
<1> QED BY <1>1, <1>2, <1>3, <1>4, <1>5, <1>6 DEF B!Next

LEMMA BusHolds == BusInv => BusHears
<1> SUFFICES ASSUME BusInv PROVE B!TypeOK /\ B!BusHears
  BY DEF BusHears
<1>1. B!TypeOK BY DEF BusInv, BusTypes
<1>2. B!NoneResumedTwice BY DEF BusInv, Framed, B!NoneResumedTwice
<1>3. B!HeardOnce /\ B!HeardInOrder BY DEF BusInv, HeardSoFar
<1>4. B!NoneMissed
  <2> SUFFICES ASSUME B!Idle, NEW e \in alive, NEW f \in born[e] + 1 .. Len(facts)
               PROVE  \/ e \notin wide \cup B!Named(facts[f]) \/ f \in B!Range(heard[e])
                      \/ facts[f].kind = "act" /\ (facts[f].about = e \/ (e \in B!Outsides /\ facts[f].about \in taken))
    BY DEF B!NoneMissed
  <2>1. born[e] \in Nat
    <3>1. BusTypes /\ e \in B!Ears BY <1>1 DEF BusInv, B!TypeOK
    <3> QED BY <3>1, HeardForms
  <2>2. f \in 1 .. Len(facts) /\ f > born[e] BY <2>1
  <2>3. Awaited(e, f) BY <2>2 DEF BusInv, StillToHear
  <2>4. DOMAIN stack = {} /\ ~Logged(f) /\ left.ears = {} BY DEF B!Idle, Logged
  <2>5. WasHeard(e, f) => f \in B!Range(heard[e]) BY DEF WasHeard, B!Range
  <2> QED BY <2>3, <2>4, <2>5 DEF Awaited
<1>5. B!NoneForgotten
  <2> SUFFICES ASSUME B!Idle, NEW f \in DOMAIN facts, facts[f].kind = "act", facts[f].about \notin taken
               PROVE  B!Outsides \ had[f] # {}
    BY DEF B!NoneForgotten
  <2>1. f \in 1 .. Len(facts)
    <3>1. BusTypes BY DEF BusInv
    <3> QED BY <3>1, BusForms
  <2>2. TurnsLeft(f) BY <2>1 DEF BusInv, StillToTake
  <2>3. DOMAIN stack = {} BY DEF B!Idle
  <2> QED BY <2>2, <2>3 DEF TurnsLeft
<1> QED BY <1>1, <1>2, <1>3, <1>4, <1>5 DEF B!BusHears

\* Each ear that waits for a fact hears it once, in the order said and never while it speaks, and no act is forgotten, for
\* any number of ears of the outside, acts, facts and deaths (say, act, dispatch).
THEOREM BusTheorem == Spec => []BusHears
<1>1. Init => BusInv
  BY BusInit DEF Init
<1>2. BusInv /\ [Next]_vars => BusInv'
  <2>1. [Next]_vars => [B!Next]_ofBus
    BY DEF Next, Bus, Kernel, Extensions, Turns, vars
  <2> QED BY <2>1, BusNext
<1>3. BusInv => BusHears BY BusHolds
<1> QED BY <1>1, <1>2, <1>3, PTL DEF Spec
=============================================================================
