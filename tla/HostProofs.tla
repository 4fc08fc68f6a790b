----------------------------- MODULE HostProofs -----------------------------
(***************************************************************************)
(* Proofs about the parts of the host: the requests that peers answer, the  *)
(* views of skills, their processes, the journal of changes and the watch   *)
(* of stalls. Each part has an inductive invariant of its own, for the      *)
(* steps of the others leave its variables as they are.                     *)
(***************************************************************************)
EXTENDS MCHost, Listing, TLAPS, FiniteSetTheorems, SequenceTheorems

-----------------------------------------------------------------------------
(* The listing of a set of numbers.                                         *)

\* The rank of a member of a finite set of numbers is its place, and each place has its member.
LEMMA RankPlaces ==
  ASSUME NEW D \in SUBSET Int, IsFiniteSet(D)
  PROVE  /\ Cardinality(D) \in Nat
         /\ \A n \in D : Rank(D, n) \in 1 .. Cardinality(D)
         /\ \A n, m \in D : n < m => Rank(D, n) < Rank(D, m)
         /\ \A k \in 1 .. Cardinality(D) : \E n \in D : Rank(D, n) = k
<1> DEFINE U(n) == {m \in D : m <= n}
           f == [n \in D |-> Rank(D, n)]
<1>1. Cardinality(D) \in Nat
  BY FS_CardinalityType
<1>0. \A n \in D : n \in Int
  OBVIOUS
<1>2. ASSUME NEW n \in D PROVE IsFiniteSet(U(n)) /\ Cardinality(U(n)) \in Nat /\ Rank(D, n) = Cardinality(U(n))
                               /\ Cardinality(U(n)) \in 1 .. Cardinality(D)
  <2>1. IsFiniteSet(U(n)) /\ Cardinality(U(n)) <= Cardinality(D) BY FS_Subset
  <2>2. Cardinality(U(n)) \in Nat BY <2>1, FS_CardinalityType
  <2>3. U(n) # {} BY <1>2
  <2>4. Cardinality(U(n)) # 0
    <3> HIDE DEF U
    <3> QED BY <2>1, <2>3, FS_EmptySet
  <2> QED BY <1>1, <2>1, <2>2, <2>4 DEF Rank
<1>3. ASSUME NEW n \in D, NEW m \in D, n < m PROVE Rank(D, n) < Rank(D, m)
  <2>0. n \in Int /\ m \in Int BY <1>0
  <2>1. U(n) \in SUBSET U(m) /\ m \in U(m) /\ m \notin U(n)
    <3>1. ASSUME NEW x \in U(n) PROVE x \in U(m) BY <1>0, <1>3, <2>0, <3>1
    <3>2. m \in U(m) /\ m \notin U(n) BY <1>3, <2>0
    <3> QED BY <3>1, <3>2
  <2>2. Cardinality(U(n)) <= Cardinality(U(m)) /\ (Cardinality(U(m)) = Cardinality(U(n)) => U(m) = U(n))
    <3> HIDE DEF U
    <3> QED BY <1>2, <2>1, FS_Subset
  <2> HIDE DEF U
  <2> QED BY <1>2, <2>1, <2>2
<1>4. f \in Injection(D, 1 .. Cardinality(D))
  <2>1. f \in [D -> 1 .. Cardinality(D)] BY <1>2
  <2>2. ASSUME NEW n \in D, NEW m \in D, f[n] = f[m] PROVE n = m
    <3>0. f[n] = Rank(D, n) /\ f[m] = Rank(D, m) OBVIOUS
    <3>1. Rank(D, n) = Rank(D, m) /\ Rank(D, n) \in Int
      <4> HIDE DEF f
      <4>1. Rank(D, n) \in 1 .. Cardinality(D) BY <1>2
      <4>2. Rank(D, n) \in Int BY <1>1, <4>1
      <4>3. Rank(D, n) = Rank(D, m) BY <2>2, <3>0
      <4> QED BY <4>2, <4>3
    <3>2. ~(n < m) /\ ~(m < n) BY <1>3, <3>1
    <3> QED BY <1>0, <3>2
  <2> HIDE DEF f
  <2> QED BY <2>1, <2>2 DEF Injection, IsInjective
<1>5. IsFiniteSet(1 .. Cardinality(D)) /\ Cardinality(1 .. Cardinality(D)) = Cardinality(D)
  BY <1>1, FS_Interval
<1>6. f \in Surjection(D, 1 .. Cardinality(D))
  BY <1>4, <1>5, FS_Injection
<1>7. ASSUME NEW k \in 1 .. Cardinality(D) PROVE \E n \in D : Rank(D, n) = k
  BY <1>6 DEF Surjection
<1> QED BY <1>1, <1>2, <1>3, <1>7

\* A set of numbers is listed whole, each member once, from the least.
LEMMA ListedWhole ==
  ASSUME NEW D \in SUBSET Int, IsFiniteSet(D), NEW l, l = Listed(D)
  PROVE  /\ Cardinality(D) \in Nat /\ l \in Seq(D) /\ Len(l) = Cardinality(D)
         /\ \A n \in D : \E k \in 1 .. Len(l) : l[k] = n
         /\ \A k, j \in 1 .. Len(l) : k < j => l[k] < l[j]
<1>1. /\ Cardinality(D) \in Nat
      /\ \A n \in D : Rank(D, n) \in 1 .. Cardinality(D)
      /\ \A n, m \in D : n < m => Rank(D, n) < Rank(D, m)
      /\ \A k \in 1 .. Cardinality(D) : \E n \in D : Rank(D, n) = k
  BY RankPlaces
<1>2. ASSUME NEW k \in 1 .. Cardinality(D) PROVE l[k] \in D /\ Rank(D, l[k]) = k
  <2>1. l[k] = CHOOSE n \in D : Rank(D, n) = k BY DEF Listed
  <2>2. \E n \in D : Rank(D, n) = k BY <1>1
  <2> QED BY <2>1, <2>2
<1>3. l \in Seq(D) /\ Len(l) = Cardinality(D)
  <2>1. l = [k \in 1 .. Cardinality(D) |-> l[k]] BY DEF Listed
  <2> QED BY <1>1, <1>2, <2>1, IsASeq
<1>4. \A n, m \in D : n \in Int /\ m \in Int
  OBVIOUS
<1>5. ASSUME NEW n \in D PROVE l[Rank(D, n)] = n
  <2>1. Rank(D, n) \in 1 .. Cardinality(D) BY <1>1
  <2>2. l[Rank(D, n)] \in D /\ Rank(D, l[Rank(D, n)]) = Rank(D, n) BY <1>2, <2>1
  <2>3. Rank(D, n) \in Int BY <2>1
  <2>4. ASSUME NEW m \in D, Rank(D, m) = Rank(D, n) PROVE m = n
    <3>1. ~(n < m) /\ ~(m < n) BY <1>1, <2>3, <2>4
    <3> QED BY <1>4, <3>1
  <2> QED BY <2>2, <2>4
<1>6. ASSUME NEW k \in 1 .. Cardinality(D), NEW j \in 1 .. Cardinality(D), k < j PROVE l[k] < l[j]
  <2>1. l[k] \in D /\ l[j] \in D /\ Rank(D, l[k]) = k /\ Rank(D, l[j]) = j BY <1>2
  <2>2. k \in Int /\ j \in Int OBVIOUS
  <2>3. ~(l[j] < l[k])
    <3>1. ASSUME l[j] < l[k] PROVE Rank(D, l[j]) < Rank(D, l[k]) BY <1>1, <2>1, <3>1
    <3> QED BY <1>6, <2>1, <2>2, <3>1
  <2>4. l[k] # l[j] BY <1>6, <2>1, <2>2
  <2>5. l[k] \in Int /\ l[j] \in Int BY <1>4, <2>1
  <2> QED BY <2>3, <2>4, <2>5
<1> QED BY <1>1, <1>3, <1>5, <1>6

-----------------------------------------------------------------------------
(* The requests that peers answer.                                          *)

\* An answer is of the owner, and about a request that it took out of the table.
VerbHolds ==
  /\ verb # A!Idle => verb.by = Owner
  /\ verb.is = "answer" => verb.ask \notin asks

AnswersInv == A!TypeOK /\ A!TableIsWhatWaits /\ A!OneTurnOfTheOwner /\ VerbHolds

LEMMA AnswersInit == A!Init => AnswersInv
<1> SUFFICES ASSUME A!Init PROVE AnswersInv
  OBVIOUS
<1>1. A!Asks = {} BY DEF A!Init, A!Asks
<1>2. futures \in [A!Asks -> A!Stage] BY <1>1 DEF A!Init
<1>3. A!TypeOK BY <1>1, <1>2, HostAssumption DEF A!TypeOK, A!Init, A!Idle
<1> QED BY <1>1, <1>3 DEF AnswersInv, A!Init, A!TableIsWhatWaits, A!OneTurnOfTheOwner, VerbHolds, A!Idle

LEMMA AnswersNext == AnswersInv /\ [A!Next]_ofAnswers => AnswersInv'
<1> SUFFICES ASSUME AnswersInv, [A!Next]_ofAnswers PROVE AnswersInv'
  OBVIOUS
<1> USE DEF AnswersInv, A!TypeOK, A!TableIsWhatWaits, A!OneTurnOfTheOwner, VerbHolds, A!Idle, A!Asks, A!Stage, A!HasTurn
<1>1. CASE A!Hosted
  <2>1. next \in Nat /\ next' = next + 1 /\ next' \in 0 .. MaxAsks /\ A!Asks' = A!Asks \cup {next'} /\ next' \notin A!Asks
    BY <1>1, HostAssumption DEF A!Hosted
  <2>2. /\ futures' = [k \in A!Asks' |-> IF k = next' THEN "waits" ELSE futures[k]] /\ asks' = asks \cup {next'}
        /\ UNCHANGED <<sent, open, verb, granted, wrote>>
    BY <1>1 DEF A!Hosted
  <2>3. futures' \in [A!Asks' -> A!Stage] /\ futures'[next'] = "waits" /\ \A k \in A!Asks : futures'[k] = futures[k]
    BY <2>1, <2>2
  <2> HIDE DEF A!Asks, A!Stage
  <2>4. A!TypeOK' BY <2>1, <2>2, <2>3
  <2>5. A!TableIsWhatWaits' BY <2>1, <2>2, <2>3
  <2>6. A!OneTurnOfTheOwner' /\ VerbHolds' BY <2>1, <2>2
  <2> QED BY <2>4, <2>5, <2>6
<1>2. CASE A!Close
  BY <1>2 DEF A!Close
<1>3. CASE A!Reply
  <2>1. verb.is = "answer" /\ verb.by = Owner /\ verb.ask \in A!Asks /\ verb.ask \notin asks /\ Owner \in Callers
    BY <1>3, HostAssumption DEF A!Reply
  <2>2. /\ verb' = [is |-> "none"] /\ granted' = granted \cup {verb.ask}
        /\ sent' = IF futures[verb.ask] = "waits" THEN sent \cup {<<verb.ask, Owner>>} ELSE sent
        /\ UNCHANGED <<next, asks, futures, open, wrote>>
    BY <1>3, <2>1 DEF A!Reply
  <2> HIDE DEF A!Asks, A!Stage
  <2>3. A!Asks' = A!Asks /\ A!Stage' = A!Stage BY <2>2 DEF A!Asks, A!Stage
  <2>4. A!TypeOK' BY <2>1, <2>2, <2>3
  <2>5. A!TableIsWhatWaits' BY <2>1, <2>2, <2>3
  <2>6. A!OneTurnOfTheOwner' /\ VerbHolds' BY <2>1, <2>2, <2>3
  <2> QED BY <2>4, <2>5, <2>6
<1>4. CASE A!Write
  <2>1. verb.is = "write" /\ verb.by = Owner /\ verb.ask \in A!Asks /\ Owner \in Callers
    BY <1>4, HostAssumption DEF A!Write
  <2>2. /\ verb' = [is |-> "none"] /\ wrote' = wrote \cup {<<verb.ask, Owner>>}
        /\ UNCHANGED <<next, asks, futures, sent, open, granted>>
    BY <1>4, <2>1 DEF A!Write
  <2> HIDE DEF A!Asks, A!Stage
  <2>3. A!Asks' = A!Asks /\ A!Stage' = A!Stage BY <2>2 DEF A!Asks, A!Stage
  <2>4. A!TypeOK' BY <2>1, <2>2, <2>3
  <2>5. A!TableIsWhatWaits' BY <2>1, <2>2, <2>3
  <2>6. A!OneTurnOfTheOwner' /\ VerbHolds' BY <2>1, <2>2, <2>3
  <2> QED BY <2>4, <2>5, <2>6
<1>5. ASSUME NEW k \in A!Asks, A!Given(k) PROVE AnswersInv'
  BY <1>5 DEF A!Given
<1>6. ASSUME NEW k \in A!Asks, A!Deafen(k) PROVE AnswersInv'
  BY <1>6 DEF A!Deafen
<1>7. ASSUME NEW k \in A!Asks, A!Leave(k) PROVE AnswersInv'
  BY <1>7 DEF A!Leave, A!Left, A!Leaves
<1>8. ASSUME NEW by \in Callers, NEW k \in asks, A!Answered(by, k) PROVE AnswersInv'
  BY <1>8 DEF A!Answered, A!Owns
<1>9. ASSUME NEW by \in Callers, NEW k \in asks, A!Wrote(by, k) PROVE AnswersInv'
  BY <1>9 DEF A!Wrote, A!Owns
<1>10. CASE UNCHANGED ofAnswers
  BY <1>10 DEF ofAnswers
<1> QED BY <1>1, <1>2, <1>3, <1>4, <1>5, <1>6, <1>7, <1>8, <1>9, <1>10 DEF A!Next

-----------------------------------------------------------------------------
(* The views of skills.                                                     *)

ViewsInv == V!TypeOK /\ V!BothSidesAgree /\ V!ViewsAreHeld /\ V!NoneAstray /\ V!OneOfEachName

\* What ends is ended for both of its sides, so they agree as before.
LEMMA EndAgrees ==
  ASSUME V!TypeOK, V!BothSidesAgree, NEW ends, mounted' = mounted \ ends, opened' = V!BothSided(ends), gone' = gone
  PROVE  opened' \in [V!Peers -> SUBSET V!Views] /\ V!BothSidesAgree' /\ mounted' \subseteq V!Views
BY DEF V!TypeOK, V!BothSidesAgree, V!BothSided, V!Of

LEMMA ViewsInit == V!Init => ViewsInv
BY DEF V!Init, ViewsInv, V!TypeOK, V!BothSidesAgree, V!ViewsAreHeld, V!NoneAstray, V!OneOfEachName, V!Of

LEMMA ViewsNext == ViewsInv /\ [V!Next]_ofViews => ViewsInv'
<1> SUFFICES ASSUME ViewsInv, [V!Next]_ofViews PROVE ViewsInv'
  OBVIOUS
<1> USE DEF ViewsInv
<1>1. ASSUME NEW life \in Records, NEW s \in Servers, V!Attach(life, s) PROVE ViewsInv'
  <2>1. V!TypeOK' /\ V!BothSidesAgree' BY <1>1, EndAgrees DEF V!Attach, V!End, V!EndsOld, V!TypeOK
  <2>2. V!ViewsAreHeld' BY <1>1 DEF V!Attach, V!End, V!EndsOld, V!ViewsAreHeld, V!TypeOK, V!Views
  <2>3. V!NoneAstray' /\ V!OneOfEachName' BY <1>1 DEF V!Attach, V!End, V!NoneAstray, V!OneOfEachName
  <2> QED BY <2>1, <2>2, <2>3
<1>2. ASSUME NEW life \in Records, NEW w \in Windows, V!AttachWindow(life, w) PROVE ViewsInv'
  BY <1>2 DEF V!AttachWindow, V!TypeOK, V!BothSidesAgree, V!ViewsAreHeld, V!NoneAstray, V!OneOfEachName, V!Of
<1>3. ASSUME NEW life \in Records, NEW w \in Windows, NEW viewer \in Viewers, V!Mount(viewer, life, w) PROVE ViewsInv'
  <2>1. PICK s \in Servers : /\ s \notin gone /\ <<life, s>> \in skills
                             /\ LET view == [viewer |-> viewer, life |-> life, window |-> w, skill |-> s]
                                IN  /\ mounted' = mounted \cup {view}
                                    /\ opened' = [p \in V!Peers |-> IF p \in {w, s} THEN opened[p] \cup {view} ELSE opened[p]]
    BY <1>3 DEF V!Mount
  <2> DEFINE view == [viewer |-> viewer, life |-> life, window |-> w, skill |-> s]
  <2>2. /\ view \in V!Views /\ view.window = w /\ view.skill = s /\ view.viewer = viewer /\ view.life = life
        /\ mounted' = mounted \cup {view}
        /\ opened' = [p \in V!Peers |-> IF p \in {w, s} THEN opened[p] \cup {view} ELSE opened[p]]
    BY <2>1 DEF V!Views
  <2> HIDE DEF view
  <2>3. <<life, w>> \in holds /\ (\A v \in mounted : v.viewer # viewer) /\ UNCHANGED <<skills, holds, gone, astray>>
    BY <1>3 DEF V!Mount
  <2>4. V!TypeOK' BY <2>2, <2>3 DEF V!TypeOK
  <2>5. V!BothSidesAgree' BY <2>2, <2>3 DEF V!BothSidesAgree, V!Of
  <2>6. V!ViewsAreHeld' /\ V!NoneAstray' /\ V!OneOfEachName'
    BY <2>1, <2>2, <2>3 DEF V!ViewsAreHeld, V!NoneAstray, V!OneOfEachName
  <2> QED BY <2>4, <2>5, <2>6
<1>4. ASSUME NEW life \in Records, NEW p \in V!Peers, V!Left(life, p) PROVE ViewsInv'
  <2>1. V!TypeOK' /\ V!BothSidesAgree' BY <1>4, EndAgrees DEF V!Left, V!End, V!TypeOK
  <2>2. V!ViewsAreHeld' BY <1>4 DEF V!Left, V!End, V!LeftViews, V!Of, V!ViewsAreHeld
  <2>3. V!NoneAstray' /\ V!OneOfEachName' BY <1>4 DEF V!Left, V!End, V!NoneAstray, V!OneOfEachName
  <2> QED BY <2>1, <2>2, <2>3
<1>5. ASSUME NEW life \in Records, V!Ended(life) PROVE ViewsInv'
  <2>1. V!TypeOK' BY <1>5 DEF V!Ended, V!AllOfIt, V!TypeOK
  <2>2. V!BothSidesAgree' BY <1>5 DEF V!Ended, V!AllOfIt, V!BothSidesAgree, V!Of
  <2>3. V!ViewsAreHeld' /\ V!NoneAstray' /\ V!OneOfEachName'
    BY <1>5 DEF V!Ended, V!AllOfIt, V!ViewsAreHeld, V!NoneAstray, V!OneOfEachName
  <2> QED BY <2>1, <2>2, <2>3
<1>6. ASSUME NEW p \in V!Peers, V!Go(p) PROVE ViewsInv'
  BY <1>6 DEF V!Go, V!TypeOK, V!BothSidesAgree, V!ViewsAreHeld, V!NoneAstray, V!OneOfEachName, V!Of
<1>7. ASSUME NEW view \in mounted, NEW p \in V!Peers, V!DisposeView(p, view) PROVE ViewsInv'
  <2>1. V!TypeOK' /\ V!BothSidesAgree' BY <1>7, EndAgrees DEF V!DisposeView, V!End, V!TypeOK
  <2>2. V!ViewsAreHeld' /\ V!NoneAstray' /\ V!OneOfEachName'
    BY <1>7 DEF V!DisposeView, V!End, V!ViewsAreHeld, V!NoneAstray, V!OneOfEachName
  <2> QED BY <2>1, <2>2
<1>8. ASSUME NEW view \in mounted, NEW p \in V!Peers, V!Push(p, view) PROVE ViewsInv'
  <2> DEFINE to == IF p = view.window THEN view.skill ELSE view.window
  <2>1. view \in V!Views /\ to \in V!Peers \ gone /\ to \in {view.window, view.skill}
    BY <1>8 DEF V!Push, V!TypeOK, V!Views, V!Peers
  <2>2. view \in opened[to] BY <2>1 DEF V!BothSidesAgree, V!Of
  <2>3. astray' = astray /\ UNCHANGED <<skills, holds, mounted, gone, opened>>
    BY <1>8, <2>2 DEF V!Push, V!Acts, V!TypeOK
  <2> QED BY <2>3 DEF V!TypeOK, V!BothSidesAgree, V!ViewsAreHeld, V!NoneAstray, V!OneOfEachName, V!Of
<1>9. CASE UNCHANGED ofViews
  BY <1>9 DEF ofViews, V!TypeOK, V!BothSidesAgree, V!ViewsAreHeld, V!NoneAstray, V!OneOfEachName, V!Of
<1> QED BY <1>1, <1>2, <1>3, <1>4, <1>5, <1>6, <1>7, <1>8, <1>9 DEF V!Next, V!Peers

-----------------------------------------------------------------------------
(* The journal of changes.                                                  *)

LogForms == [is : {"changed", "notice"}, writes : SUBSET Int] \cup [is : {"end"}, lost : SUBSET Int]

\* A window heard of a change.
Hears(l, w) == \E k \in DOMAIN l : l[k].is = "changed" /\ w \in l[k].writes
Heard(w) == Hears(log, w)

\* Each text that landed is with the task, or on the disk, or lost: with the task once, and not both with the task
\* and on the disk.
Landed ==
  /\ \A w \in C!Writes : writes[w] = "landed" => w \in C!Range(lines) \cup C!Range(disk) \cup lost \cup ended.lost
  /\ \A w \in C!Range(lines) : w # C!FLUSH => writes[w] = "landed" /\ w \notin C!Range(disk)
  /\ \A w \in C!Range(disk) : writes[w] = "landed"
  /\ C!IsInjective(lines) /\ C!IsInjective(disk)

\* The ear holds each write that goes on until the life ends; its end flushes what stands before it, and no more comes.
Flushes ==
  /\ ended.at = "no" => before = {w \in C!Writes : writes[w] = "on"} /\ C!FLUSH \notin C!Range(lines)
  /\ ended.at \in {"no", "asked"} => ended.lost = {}
  /\ ended.at = "asked" => lines # <<>> /\ lines[Len(lines)] = C!FLUSH
  /\ ended.at \in {"flushed", "told"} => lines = <<>> /\ lost = {}

\* What is on the disk was told, or is to be told.
Tellings ==
  /\ \A w \in C!Range(disk) : Heard(w) \/ w \in C!Range(reported)
  /\ \A w \in C!Range(reported) : w > 0 => w \in C!Range(disk)
  /\ \A k \in DOMAIN log : log[k].is = "changed" => log[k].writes \subseteq C!Range(disk)
  /\ ended.at = "told" => reported = <<>> /\ log # <<>> /\ log[Len(log)] = [is |-> "end", lost |-> ended.lost]

ChangesInv == C!TypeOK /\ log \in Seq(LogForms) /\ Landed /\ Flushes /\ Tellings

LEMMA SetAt ==
  ASSUME NEW T, NEW s \in Seq(T), NEW i \in 1 .. Len(s), NEW e \in T, NEW r, r = [s EXCEPT ![i] = e]
  PROVE  r \in Seq(T) /\ Len(r) = Len(s) /\ r[i] = e /\ \A j \in 1 .. Len(s) : j # i => r[j] = s[j]
BY ExceptSeq

\* Elements of longer sets make sequences of them.
LEMMA SeqsGrow == ASSUME NEW D, NEW T, D \subseteq T, NEW s \in Seq(D) PROVE s \in Seq(T)
BY ElementOfSeq, IsASeq, SeqEqual

LEMMA AppendRange ==
  ASSUME NEW D, NEW s \in Seq(D), NEW x \in D
  PROVE  /\ Append(s, x) \in Seq(D) /\ C!Range(Append(s, x)) = C!Range(s) \cup {x} /\ Append(s, x) # <<>>
         /\ Append(s, x)[Len(Append(s, x))] = x
         /\ C!IsInjective(s) /\ x \notin C!Range(s) => C!IsInjective(Append(s, x))
<1>1. /\ Append(s, x) \in Seq(D) /\ Len(Append(s, x)) = Len(s) + 1 /\ Append(s, x)[Len(s) + 1] = x
      /\ \A i \in 1 .. Len(s) : Append(s, x)[i] = s[i]
  BY AppendProperties
<1>2. DOMAIN s = 1 .. Len(s) /\ Len(s) \in Nat /\ DOMAIN Append(s, x) = 1 .. Len(s) + 1
  BY <1>1
<1>3. C!Range(Append(s, x)) = C!Range(s) \cup {x}
  BY <1>1, <1>2 DEF C!Range
<1>4. C!IsInjective(s) /\ x \notin C!Range(s) => C!IsInjective(Append(s, x))
  BY <1>1, <1>2 DEF C!Range, C!IsInjective
<1> QED BY <1>1, <1>2, <1>3, <1>4, EmptySeq

LEMMA TailRange ==
  ASSUME NEW D, NEW s \in Seq(D), s # <<>>
  PROVE  /\ Head(s) \in D /\ Tail(s) \in Seq(D) /\ C!Range(s) = {Head(s)} \cup C!Range(Tail(s))
         /\ C!IsInjective(s) => C!IsInjective(Tail(s)) /\ Head(s) \notin C!Range(Tail(s))
         /\ s[Len(s)] = Head(s) \/ (Tail(s) # <<>> /\ Tail(s)[Len(Tail(s))] = s[Len(s)])
         /\ C!IsInjective(s) /\ s[Len(s)] = Head(s) => Tail(s) = <<>>
<1>1. /\ Head(s) = s[1] /\ Head(s) \in D /\ Tail(s) \in Seq(D) /\ Len(Tail(s)) = Len(s) - 1 /\ Len(s) \in Nat \ {0}
      /\ \A i \in 1 .. Len(s) - 1 : Tail(s)[i] = s[i + 1]
  BY HeadTailProperties, EmptySeq
<1>2. DOMAIN s = 1 .. Len(s) /\ DOMAIN Tail(s) = 1 .. Len(s) - 1
  BY <1>1
<1>3. ASSUME NEW i \in 2 .. Len(s) PROVE s[i] = Tail(s)[i - 1] /\ i - 1 \in 1 .. Len(s) - 1
  BY <1>1
<1>4. C!Range(s) = {Head(s)} \cup C!Range(Tail(s))
  <2>1. \A i \in 1 .. Len(s) : i = 1 \/ i \in 2 .. Len(s) BY <1>1
  <2>2. \A i \in 1 .. Len(s) - 1 : i + 1 \in 1 .. Len(s) /\ 1 \in 1 .. Len(s) BY <1>1
  <2>3. ASSUME NEW i \in 1 .. Len(s) PROVE s[i] = s[1] \/ \E j \in 1 .. Len(s) - 1 : s[i] = Tail(s)[j]
    BY <1>3, <2>1
  <2>4. \A i \in 1 .. Len(s) - 1 : Tail(s)[i] = s[i + 1] /\ i + 1 \in 1 .. Len(s) BY <1>1, <2>2
  <2>5. 1 \in 1 .. Len(s) BY <1>1
  <2>6. ASSUME NEW x \in C!Range(s) PROVE x \in {Head(s)} \cup C!Range(Tail(s))
    <3>1. PICK i \in 1 .. Len(s) : x = s[i] BY <1>2, <2>6 DEF C!Range
    <3> QED BY <1>1, <1>2, <2>3, <3>1 DEF C!Range
  <2>7. ASSUME NEW x \in C!Range(Tail(s)) PROVE x \in C!Range(s)
    <3>1. PICK i \in 1 .. Len(s) - 1 : x = Tail(s)[i] BY <1>2, <2>7 DEF C!Range
    <3> QED BY <1>2, <2>4, <3>1 DEF C!Range
  <2>8. Head(s) \in C!Range(s) BY <1>1, <1>2, <2>5 DEF C!Range
  <2> QED BY <2>6, <2>7, <2>8
<1>5. C!IsInjective(s) => C!IsInjective(Tail(s)) /\ Head(s) \notin C!Range(Tail(s))
  <2>1. \A i \in 1 .. Len(s) - 1 : i + 1 \in 1 .. Len(s) /\ i + 1 # 1 /\ 1 \in 1 .. Len(s) BY <1>1
  <2>2. \A i, j \in 1 .. Len(s) - 1 : i + 1 = j + 1 => i = j BY <1>1
  <2> QED BY <1>1, <1>2, <2>1, <2>2 DEF C!Range, C!IsInjective
<1>6. Len(s) = 1 \/ Len(s) - 1 \in 1 .. Len(s) - 1
  BY <1>1
<1>7. Len(s) = 1 => s[Len(s)] = Head(s) /\ Tail(s) = <<>>
  <2>1. Len(s) = 1 => Len(Tail(s)) = 0 BY <1>1
  <2>2. Tail(s) # <<>> => Len(Tail(s)) \in Nat \ {0} BY <1>1, EmptySeq
  <2> QED BY <1>1, <2>1, <2>2
<1>8. ASSUME Len(s) # 1 PROVE Tail(s) # <<>> /\ Tail(s)[Len(Tail(s))] = s[Len(s)]
  <2>1. Len(Tail(s)) = Len(s) - 1 /\ Len(s) - 1 \in 1 .. Len(s) - 1 BY <1>1, <1>6, <1>8
  <2>2. Tail(s)[Len(s) - 1] = s[Len(s) - 1 + 1] BY <1>1, <2>1
  <2>3. Len(s) - 1 + 1 = Len(s) /\ Len(s) - 1 # 0 BY <1>1, <2>1
  <2>4. Tail(s) # <<>> BY <2>1, <2>3, EmptySeq
  <2> QED BY <2>1, <2>2, <2>3, <2>4
<1>9. C!IsInjective(s) /\ s[Len(s)] = s[1] => Len(s) = 1
  BY <1>1, <1>2 DEF C!IsInjective
<1> QED BY <1>1, <1>4, <1>5, <1>7, <1>8, <1>9

\* What the life puts in its log of what it was told.
LEMMA EventsTell ==
  ASSUME ChangesInv
  PROVE  /\ C!Events \in Seq(LogForms)
         /\ \A w : Hears(C!Events, w) <=> w \in C!News
<1> DEFINE at == {n \in DOMAIN reported : reported[n] < 0}
           notes == [k \in DOMAIN C!Noted |-> [is |-> "notice", writes |-> {-C!Noted[k]}]]
           news == IF C!News = {} THEN <<>> ELSE <<[is |-> "changed", writes |-> C!News]>>
<1>1. /\ reported \in Seq(C!Writes \cup {-w : w \in C!Writes}) /\ C!Writes \subseteq Int
      /\ DOMAIN reported = 1 .. Len(reported) /\ Len(reported) \in Nat
  <2>1. writes \in Seq({"on", "landed", "not", "door"}) /\ reported \in Seq(C!Writes \cup {-w : w \in C!Writes})
    BY DEF ChangesInv, C!TypeOK
  <2> QED BY <2>1 DEF C!Writes
<1>2. \A k \in 1 .. Len(reported) : reported[k] \in Int
  <2> SUFFICES ASSUME NEW k \in 1 .. Len(reported) PROVE reported[k] \in Int
    OBVIOUS
  <2>1. reported[k] \in C!Writes \cup {-w : w \in C!Writes} BY <1>1, ElementOfSeq
  <2>2. CASE reported[k] \in C!Writes BY <1>1, <2>2
  <2>3. CASE reported[k] \in {-w : w \in C!Writes}
    <3>1. PICK w \in C!Writes : reported[k] = -w BY <2>3
    <3>2. w \in Int BY <1>1
    <3> QED BY <3>1, <3>2
  <2> QED BY <2>1, <2>2, <2>3
<1>3. at \in SUBSET Int /\ IsFiniteSet(at)
  <2>1. at \in SUBSET (1 .. Len(reported)) /\ 1 .. Len(reported) \subseteq Int BY <1>1
  <2> HIDE DEF at
  <2>2. IsFiniteSet(1 .. Len(reported)) BY <1>1, FS_Interval
  <2>3. IsFiniteSet(at) BY <2>1, <2>2, FS_Subset
  <2> QED BY <2>1, <2>3
<1>4. C!Places \in Seq(at)
  <2>1. C!Places = Listed(at) BY DEF C!Places, C!Listed, Listed, C!Rank, Rank, C!Cardinality, Cardinality
  <2> HIDE DEF at
  <2> QED BY <1>3, <2>1, ListedWhole
<1>5. notes \in Seq(LogForms) /\ \A k \in 1 .. Len(notes) : notes[k].is = "notice"
  <2>1. DOMAIN C!Places = 1 .. Len(C!Places) /\ Len(C!Places) \in Nat BY <1>4
  <2>2. DOMAIN C!Noted = 1 .. Len(C!Places) BY <2>1 DEF C!Noted
  <2>3. ASSUME NEW k \in 1 .. Len(C!Places) PROVE -C!Noted[k] \in Int
    <3>1. C!Places[k] \in at
      <4> HIDE DEF at
      <4> QED BY <1>4, ElementOfSeq
    <3>2. C!Noted[k] = reported[C!Places[k]] BY <2>1 DEF C!Noted
    <3> QED BY <1>1, <1>2, <3>1, <3>2
  <2>4. notes = [k \in 1 .. Len(C!Places) |-> [is |-> "notice", writes |-> {-C!Noted[k]}]]
    BY <2>2
  <2>5. \A k \in 1 .. Len(C!Places) : [is |-> "notice", writes |-> {-C!Noted[k]}] \in LogForms
    BY <2>3 DEF LogForms
  <2> HIDE DEF notes
  <2>6. notes \in Seq(LogForms) /\ Len(notes) = Len(C!Places) BY <2>1, <2>4, <2>5, IsASeq
  <2> QED BY <2>4, <2>6
<1>6. /\ news \in Seq(LogForms)
      /\ \A w : (\E k \in 1 .. Len(news) : news[k].is = "changed" /\ w \in news[k].writes) <=> w \in C!News
  <2>1. C!News \in SUBSET Int BY <1>1, <1>2 DEF C!News, C!Range
  <2>2. CASE C!News = {}
    <3>1. news = <<>> BY <2>2
    <3> HIDE DEF news
    <3>2. news \in Seq(LogForms) /\ Len(news) = 0 BY <3>1, EmptySeq
    <3> QED BY <2>2, <3>2
  <2>3. CASE C!News # {}
    <3> DEFINE e == [is |-> "changed", writes |-> C!News]
    <3>1. e \in LogForms /\ e.is = "changed" /\ e.writes = C!News BY <2>1 DEF LogForms
    <3>2. news = <<e>> BY <2>3
    <3> HIDE DEF e, news
    <3>3. news \in Seq(LogForms) /\ Len(news) = 1 /\ news[1] = e BY <3>1, <3>2
    <3>4. 1 \in 1 .. 1 /\ \A k \in 1 .. 1 : k = 1 OBVIOUS
    <3> QED BY <3>1, <3>3, <3>4
  <2> QED BY <2>2, <2>3
<1>7. C!Events = notes \o news
  BY DEF C!Events
<1> HIDE DEF notes, news
<1>8. /\ notes \o news \in Seq(LogForms) /\ Len(notes \o news) = Len(notes) + Len(news)
      /\ \A k \in 1 .. Len(notes) + Len(news) :
           (notes \o news)[k] = IF k <= Len(notes) THEN notes[k] ELSE news[k - Len(notes)]
      /\ Len(notes) \in Nat /\ Len(news) \in Nat
  BY <1>5, <1>6, ConcatProperties
<1>9. DOMAIN C!Events = 1 .. Len(notes) + Len(news)
  BY <1>7, <1>8
<1>10. ASSUME NEW w
       PROVE  (\E k \in DOMAIN C!Events : C!Events[k].is = "changed" /\ w \in C!Events[k].writes) <=> w \in C!News
  <2>1. ASSUME NEW k \in DOMAIN C!Events, C!Events[k].is = "changed", w \in C!Events[k].writes PROVE w \in C!News
    <3>1. k \in 1 .. Len(notes) + Len(news) BY <1>9
    <3>2. CASE k <= Len(notes)
      <4>1. k \in 1 .. Len(notes) /\ C!Events[k] = notes[k] BY <1>7, <1>8, <3>1, <3>2
      <4>2. C!Events[k].is = "notice" BY <1>5, <4>1
      <4> QED BY <2>1, <4>2
    <3>3. CASE k > Len(notes)
      <4>1. k - Len(notes) \in 1 .. Len(news) /\ C!Events[k] = news[k - Len(notes)] BY <1>7, <1>8, <3>1, <3>3
      <4> QED BY <1>6, <2>1, <4>1
    <3> QED BY <1>8, <3>1, <3>2, <3>3
  <2>2. ASSUME w \in C!News
        PROVE  \E k \in DOMAIN C!Events : C!Events[k].is = "changed" /\ w \in C!Events[k].writes
    <3>1. PICK k \in 1 .. Len(news) : news[k].is = "changed" /\ w \in news[k].writes BY <1>6, <2>2
    <3>2. /\ Len(notes) + k \in 1 .. Len(notes) + Len(news) /\ ~(Len(notes) + k <= Len(notes))
          /\ (Len(notes) + k) - Len(notes) = k
      BY <1>8
    <3>3. C!Events[Len(notes) + k] = news[k] BY <1>7, <1>8, <3>2
    <3> QED BY <1>9, <3>1, <3>2, <3>3
  <2> QED BY <2>1, <2>2
<1> QED BY <1>7, <1>8, <1>10 DEF Hears

\* The bare facts of the journal, of which its steps are made.
LEMMA ChangeTypes ==
  ASSUME ChangesInv
  PROVE  /\ writes \in Seq({"on", "landed", "not", "door"}) /\ C!Writes = 1 .. Len(writes) /\ Len(writes) \in Nat
         /\ before \subseteq C!Writes /\ lines \in Seq(C!Writes \cup {0}) /\ disk \in Seq(C!Writes)
         /\ lost \subseteq C!Writes /\ ended.lost \subseteq C!Writes
         /\ reported \in Seq(C!Writes \cup {-n : n \in C!Writes}) /\ log \in Seq(LogForms)
         /\ ended.at \in {"no", "asked", "flushed", "told"} /\ C!FLUSH = 0
<1>1. writes \in Seq({"on", "landed", "not", "door"}) BY DEF ChangesInv, C!TypeOK
<1> QED BY <1>1 DEF ChangesInv, C!TypeOK, C!Writes, C!FLUSH

\* A longer log keeps what it told.
\* The last of a sequence and one more is that one.
LEMMA OneMore ==
  ASSUME NEW D, NEW l \in Seq(D), NEW e \in Seq(D)
  PROVE  Len(e) = 1 => l \o e # <<>> /\ (l \o e)[Len(l \o e)] = e[1]
<1> DEFINE c == l \o e
<1>1. /\ c \in Seq(D) /\ Len(c) = Len(l) + Len(e) /\ Len(l) \in Nat
      /\ \A k \in 1 .. Len(l) + Len(e) : c[k] = IF k <= Len(l) THEN l[k] ELSE e[k - Len(l)]
  BY ConcatProperties
<1> HIDE DEF c
<1> HAVE Len(e) = 1
<1>2. Len(c) # 0 /\ Len(c) \in 1 .. Len(l) + 1 /\ ~(Len(c) <= Len(l)) /\ Len(c) - Len(l) = 1
  BY <1>1
<1>3. c[Len(c)] = e[1] BY <1>1, <1>2
<1>4. c # <<>> BY <1>1, <1>2, EmptySeq
<1> QED BY <1>3, <1>4 DEF c

LEMMA LogGrows ==
  ASSUME NEW l \in Seq(LogForms), NEW e \in Seq(LogForms)
  PROVE  l \o e \in Seq(LogForms) /\ \A w : Hears(l \o e, w) <=> Hears(l, w) \/ Hears(e, w)
<1> DEFINE c == l \o e
<1>1. /\ c \in Seq(LogForms) /\ Len(c) = Len(l) + Len(e) /\ Len(l) \in Nat /\ Len(e) \in Nat
      /\ \A k \in 1 .. Len(l) + Len(e) : c[k] = IF k <= Len(l) THEN l[k] ELSE e[k - Len(l)]
  BY ConcatProperties
<1>2. DOMAIN c = 1 .. Len(l) + Len(e) /\ DOMAIN l = 1 .. Len(l) /\ DOMAIN e = 1 .. Len(e)
  BY <1>1
<1> HIDE DEF c
<1>3. \A k \in 1 .. Len(l) : k \in 1 .. Len(l) + Len(e) /\ c[k] = l[k]
  BY <1>1
<1>4. \A k \in 1 .. Len(e) : Len(l) + k \in 1 .. Len(l) + Len(e) /\ c[Len(l) + k] = e[k]
  <2> TAKE k \in 1 .. Len(e)
  <2>1. Len(l) + k \in 1 .. Len(l) + Len(e) /\ ~(Len(l) + k <= Len(l)) /\ (Len(l) + k) - Len(l) = k BY <1>1
  <2> QED BY <1>1, <2>1
<1>5. \A k \in 1 .. Len(l) + Len(e) : \/ k \in 1 .. Len(l) /\ c[k] = l[k]
                                      \/ k - Len(l) \in 1 .. Len(e) /\ c[k] = e[k - Len(l)]
  BY <1>1
<1>6. ASSUME NEW w
      PROVE  (\E k \in DOMAIN c : c[k].is = "changed" /\ w \in c[k].writes)
             <=> \/ \E k \in DOMAIN l : l[k].is = "changed" /\ w \in l[k].writes
                 \/ \E k \in DOMAIN e : e[k].is = "changed" /\ w \in e[k].writes
  <2>1. ASSUME NEW k \in DOMAIN c, c[k].is = "changed", w \in c[k].writes
        PROVE  \/ \E j \in DOMAIN l : l[j].is = "changed" /\ w \in l[j].writes
               \/ \E j \in DOMAIN e : e[j].is = "changed" /\ w \in e[j].writes
    BY <1>2, <1>5, <2>1
  <2>2. ASSUME NEW k \in DOMAIN l, l[k].is = "changed", w \in l[k].writes
        PROVE  \E j \in DOMAIN c : c[j].is = "changed" /\ w \in c[j].writes
    BY <1>2, <1>3, <2>2
  <2>3. ASSUME NEW k \in DOMAIN e, e[k].is = "changed", w \in e[k].writes
        PROVE  \E j \in DOMAIN c : c[j].is = "changed" /\ w \in c[j].writes
    BY <1>2, <1>4, <2>3
  <2> QED BY <2>1, <2>2, <2>3
<1> QED BY <1>1, <1>6 DEF c, Hears

LEMMA ChangesInit == C!Init => ChangesInv
<1> SUFFICES ASSUME C!Init PROVE ChangesInv
  OBVIOUS
<1>1. \A D : <<>> \in Seq(D) /\ Len(<<>>) = 0 /\ DOMAIN <<>> = {}
  BY EmptySeq
<1>2. C!TypeOK /\ log \in Seq(LogForms)
  BY <1>1 DEF C!Init, C!TypeOK, C!Writes
<1>3. C!Range(lines) = {} /\ C!Range(disk) = {} /\ C!Range(reported) = {} /\ C!Writes = {} /\ DOMAIN log = {}
  BY <1>1 DEF C!Init, C!Range, C!Writes
<1>4. C!IsInjective(lines) /\ C!IsInjective(disk)
  BY <1>1 DEF C!Init, C!IsInjective
<1>5. Landed BY <1>3, <1>4 DEF Landed
<1>6. Flushes BY <1>3 DEF Flushes, C!Init
<1>7. Tellings BY <1>3 DEF Tellings, C!Init
<1> QED BY <1>2, <1>5, <1>6, <1>7 DEF ChangesInv

\* A write begins.
LEMMA BeginKeeps == ASSUME ChangesInv, NEW door \in BOOLEAN, C!Begin(door) PROVE ChangesInv'
<1> DEFINE n == Len(writes) + 1
           form == IF door THEN "door" ELSE "on"
<1>1. /\ writes \in Seq({"on", "landed", "not", "door"}) /\ C!Writes = 1 .. Len(writes) /\ Len(writes) \in Nat
      /\ before \subseteq C!Writes /\ lines \in Seq(C!Writes \cup {0}) /\ disk \in Seq(C!Writes)
      /\ lost \subseteq C!Writes /\ ended.lost \subseteq C!Writes
      /\ reported \in Seq(C!Writes \cup {-w : w \in C!Writes}) /\ log \in Seq(LogForms)
      /\ ended.at \in {"no", "asked", "flushed", "told"} /\ C!FLUSH = 0
  BY ChangeTypes
<1>2. /\ ended.at = "no" /\ writes' = Append(writes, form) /\ before' = (IF door THEN before ELSE before \cup {n})
      /\ UNCHANGED <<lines, disk, lost, reported, log, ended>>
  <2>1. Len(Append(writes, "on")) = Len(writes) + 1 BY <1>1, AppendProperties
  <2> QED BY <2>1 DEF C!Begin
<1>3. /\ writes' \in Seq({"on", "landed", "not", "door"}) /\ C!Writes' = C!Writes \cup {n} /\ n \notin C!Writes
      /\ writes'[n] = form /\ \A w \in C!Writes : writes'[w] = writes[w]
  <2>1. form \in {"on", "landed", "not", "door"} OBVIOUS
  <2> HIDE DEF form
  <2>2. /\ writes' \in Seq({"on", "landed", "not", "door"}) /\ Len(writes') = n /\ writes'[n] = form
        /\ \A w \in 1 .. Len(writes) : writes'[w] = writes[w]
    BY <1>1, <1>2, <2>1, AppendProperties
  <2>3. DOMAIN writes' = 1 .. n /\ 1 .. n = (1 .. Len(writes)) \cup {n} BY <1>1, <2>2
  <2> QED BY <1>1, <2>2, <2>3 DEF C!Writes
<1>4. n \in Nat BY <1>1
<1> HIDE DEF n
<1>5. C!TypeOK'
  <2>1. lines \in Seq(C!Writes \cup {n} \cup {0}) BY <1>1, SeqsGrow
  <2>2. disk \in Seq(C!Writes \cup {n}) BY <1>1, SeqsGrow
  <2>3. reported \in Seq(C!Writes \cup {n} \cup {-w : w \in C!Writes \cup {n}})
    <3>1. C!Writes \cup {-w : w \in C!Writes} \subseteq C!Writes \cup {n} \cup {-w : w \in C!Writes \cup {n}} OBVIOUS
    <3> QED BY <1>1, <3>1, SeqsGrow
  <2>4. before' \subseteq C!Writes \cup {n} BY <1>1, <1>2
  <2> QED BY <1>1, <1>2, <1>3, <2>1, <2>2, <2>3, <2>4 DEF C!TypeOK, ChangesInv
<1>6. Landed'
  <2>1. C!Range(lines) \subseteq C!Writes \cup {0} /\ C!Range(disk) \subseteq C!Writes
    BY <1>1, ElementOfSeq DEF C!Range
  <2> QED BY <1>1, <1>2, <1>3, <2>1 DEF ChangesInv, Landed
<1>7. Flushes' BY <1>1, <1>2, <1>3 DEF ChangesInv, Flushes
<1>8. Tellings' BY <1>1, <1>2, <1>3 DEF ChangesInv, Tellings, Heard
<1> QED BY <1>1, <1>2, <1>5, <1>6, <1>7, <1>8 DEF ChangesInv

\* A write is done.
LEMMA DoneKeeps ==
  ASSUME ChangesInv, NEW x \in C!Writes, NEW as \in {"landed", "not"}, C!Done(x, as)
  PROVE  ChangesInv'
<1>1. /\ writes \in Seq({"on", "landed", "not", "door"}) /\ C!Writes = 1 .. Len(writes) /\ Len(writes) \in Nat
      /\ before \subseteq C!Writes /\ lines \in Seq(C!Writes \cup {0}) /\ disk \in Seq(C!Writes)
      /\ lost \subseteq C!Writes /\ ended.lost \subseteq C!Writes
      /\ reported \in Seq(C!Writes \cup {-w : w \in C!Writes}) /\ log \in Seq(LogForms)
      /\ ended.at \in {"no", "asked", "flushed", "told"} /\ C!FLUSH = 0
  BY ChangeTypes
<1>2. /\ ended.at = "no" /\ writes[x] = "on" /\ writes' = [writes EXCEPT ![x] = as] /\ before' = before \ {x}
      /\ lines' = IF x \in before /\ as = "landed" THEN Append(lines, x) ELSE lines
      /\ UNCHANGED <<disk, lost, reported, log, ended>>
  BY DEF C!Done
<1>3. /\ writes' \in Seq({"on", "landed", "not", "door"}) /\ C!Writes' = C!Writes
      /\ writes'[x] = as /\ \A w \in C!Writes \ {x} : writes'[w] = writes[w]
  <2>1. as \in {"on", "landed", "not", "door"} OBVIOUS
  <2>2. writes' \in Seq({"on", "landed", "not", "door"}) /\ Len(writes') = Len(writes)
    <3>1. x \in 1 .. Len(writes) BY <1>1
    <3> DEFINE F == {"on", "landed", "not", "door"}
    <3>5. writes \in Seq(F) /\ as \in F /\ writes' = [writes EXCEPT ![x] = as] BY <1>1, <1>2, <2>1
    <3>3. Len(writes) \in Nat BY <1>1
    <3> HIDE DEF F
    <3>6. writes \in [1 .. Len(writes) -> F] BY <3>5
    <3>2. writes' \in [1 .. Len(writes) -> F] BY <3>5, <3>6
    <3>4. writes' \in Seq(F) /\ Len(writes') = Len(writes) BY <3>2, <3>3, IsASeq
    <3> QED BY <3>4 DEF F
  <2> QED BY <1>1, <1>2, <2>2 DEF C!Writes
<1>4. x \in before /\ C!FLUSH \notin C!Range(lines) /\ x # 0
  <2>1. before = {w \in C!Writes : writes[w] = "on"} /\ C!FLUSH \notin C!Range(lines)
    BY <1>2 DEF ChangesInv, Flushes
  <2>2. x # 0 BY <1>1
  <2> QED BY <1>2, <2>1, <2>2
<1>5. x \notin C!Range(lines) /\ x \notin C!Range(disk) /\ C!IsInjective(lines) /\ C!IsInjective(disk)
  BY <1>2, <1>4 DEF ChangesInv, Landed, C!FLUSH
<1>6. /\ lines' \in Seq(C!Writes \cup {0}) /\ C!IsInjective(lines')
      /\ C!Range(lines') = C!Range(lines) \cup (IF as = "landed" THEN {x} ELSE {})
  <2>1. CASE as = "landed"
    <3>1. lines' = Append(lines, x) BY <1>2, <1>4, <2>1
    <3> DEFINE W == C!Writes \cup {0}
    <3>2. x \in W /\ lines \in Seq(W) BY <1>1
    <3> HIDE DEF W
    <3>3. lines' \in Seq(W) /\ C!IsInjective(lines') /\ C!Range(lines') = C!Range(lines) \cup {x}
      BY <1>5, <3>1, <3>2, AppendRange
    <3> QED BY <2>1, <3>3 DEF W
  <2>2. CASE as = "not"
    <3>1. lines' = lines BY <1>2, <2>2
    <3> QED BY <1>1, <1>5, <2>2, <3>1
  <2> QED BY <2>1, <2>2
<1>7. C!TypeOK'
  BY <1>1, <1>2, <1>3, <1>6 DEF C!TypeOK, ChangesInv
<1>8. Landed'
  <2>1. \A w \in C!Writes' : writes'[w] = "landed" => w \in C!Range(lines') \cup C!Range(disk') \cup lost' \cup ended'.lost
    BY <1>2, <1>3, <1>6 DEF ChangesInv, Landed
  <2>2. \A w \in C!Range(lines') : w # C!FLUSH => writes'[w] = "landed" /\ w \notin C!Range(disk')
    <3> SUFFICES ASSUME NEW w \in C!Range(lines'), w # 0 PROVE writes'[w] = "landed" /\ w \notin C!Range(disk')
      BY <1>1
    <3>1. CASE w \in C!Range(lines)
      <4>1. w \in C!Writes BY <1>1, <3>1, ElementOfSeq DEF C!Range
      <4>2. writes[w] = "landed" /\ w \notin C!Range(disk) BY <1>1, <3>1 DEF ChangesInv, Landed
      <4> QED BY <1>2, <1>3, <4>1, <4>2
    <3>2. CASE w = x /\ as = "landed" BY <1>2, <1>3, <1>5, <3>2
    <3> QED BY <1>6, <3>1, <3>2
  <2>3. \A w \in C!Range(disk') : writes'[w] = "landed"
    <3>1. C!Range(disk) \subseteq C!Writes BY <1>1, ElementOfSeq DEF C!Range
    <3>2. \A w \in C!Range(disk) : writes[w] = "landed" /\ w # x BY <1>5 DEF ChangesInv, Landed
    <3>3. disk' = disk BY <1>2
    <3> QED BY <1>3, <3>1, <3>2, <3>3
  <2> QED BY <1>2, <1>5, <1>6, <2>1, <2>2, <2>3 DEF Landed
<1>9. Flushes' BY <1>1, <1>2, <1>3, <1>4, <1>6 DEF ChangesInv, Flushes
<1>10. Tellings' BY <1>1, <1>2, <1>3 DEF ChangesInv, Tellings, Heard
<1> QED BY <1>1, <1>2, <1>7, <1>8, <1>9, <1>10 DEF ChangesInv

\* A birth cuts the writes that go on.
LEMMA RebornKeeps == ASSUME ChangesInv, C!Reborn PROVE ChangesInv'
<1>1. /\ writes \in Seq({"on", "landed", "not", "door"}) /\ C!Writes = 1 .. Len(writes) /\ Len(writes) \in Nat
      /\ before \subseteq C!Writes /\ lines \in Seq(C!Writes \cup {0}) /\ disk \in Seq(C!Writes)
      /\ lost \subseteq C!Writes /\ ended.lost \subseteq C!Writes
      /\ reported \in Seq(C!Writes \cup {-w : w \in C!Writes}) /\ log \in Seq(LogForms)
      /\ ended.at \in {"no", "asked", "flushed", "told"} /\ C!FLUSH = 0
  BY ChangeTypes
<1>2. /\ ended.at = "no" /\ before' = {} /\ writes' = [w \in C!Writes |-> IF writes[w] = "on" THEN "not" ELSE writes[w]]
      /\ UNCHANGED <<lines, disk, lost, reported, log, ended>>
  BY DEF C!Reborn
<1>3. /\ writes' \in Seq({"on", "landed", "not", "door"}) /\ C!Writes' = C!Writes
      /\ \A w \in C!Writes : writes'[w] = IF writes[w] = "on" THEN "not" ELSE writes[w]
  <2>1. \A w \in 1 .. Len(writes) : writes'[w] \in {"on", "landed", "not", "door"}
    <3> TAKE w \in 1 .. Len(writes)
    <3>1. writes[w] \in {"on", "landed", "not", "door"} BY <1>1, ElementOfSeq
    <3> QED BY <1>1, <1>2, <3>1
  <2>2. writes' = [w \in 1 .. Len(writes) |-> writes'[w]] BY <1>1, <1>2
  <2>3. writes' \in Seq({"on", "landed", "not", "door"}) /\ Len(writes') = Len(writes)
    <3> DEFINE u == writes'
    <3>1. u = [w \in 1 .. Len(writes) |-> u[w]] /\ \A w \in 1 .. Len(writes) : u[w] \in {"on", "landed", "not", "door"}
      BY <2>1, <2>2
    <3> HIDE DEF u
    <3>2. u \in Seq({"on", "landed", "not", "door"}) /\ Len(u) = Len(writes) BY <1>1, <3>1, IsASeq
    <3> QED BY <3>2 DEF u
  <2> QED BY <1>1, <1>2, <2>3 DEF C!Writes
<1>4. C!TypeOK'
  BY <1>1, <1>2, <1>3 DEF C!TypeOK, ChangesInv
<1>5. Landed'
  <2>1. C!Range(lines) \subseteq C!Writes \cup {0} /\ C!Range(disk) \subseteq C!Writes
    BY <1>1, ElementOfSeq DEF C!Range
  <2> QED BY <1>1, <1>2, <1>3, <2>1 DEF ChangesInv, Landed, C!FLUSH
<1>6. Flushes' BY <1>1, <1>2, <1>3 DEF ChangesInv, Flushes
<1>7. Tellings' BY <1>1, <1>2, <1>3 DEF ChangesInv, Tellings, Heard
<1> QED BY <1>1, <1>2, <1>4, <1>5, <1>6, <1>7 DEF ChangesInv

\* The first of the lines is a change: a write that landed, which the rest of them and the disk lack.
LEMMA FirstLine ==
  ASSUME ChangesInv, C!Change
  PROVE  /\ Head(lines) \in C!Writes /\ Head(lines) > 0 /\ lines' = Tail(lines) /\ lines' \in Seq(C!Writes \cup {0})
         /\ C!Range(lines) = {Head(lines)} \cup C!Range(lines') /\ Head(lines) \notin C!Range(lines')
         /\ C!IsInjective(lines') /\ Head(lines) \notin C!Range(disk) /\ writes[Head(lines)] = "landed"
         /\ ended.at \in {"no", "asked"} /\ (ended.at = "asked" => lines' # <<>> /\ lines'[Len(lines')] = C!FLUSH)
<1>1. /\ lines \in Seq(C!Writes \cup {0}) /\ C!Writes = 1 .. Len(writes) /\ C!FLUSH = 0
      /\ ended.at \in {"no", "asked", "flushed", "told"}
  BY ChangeTypes
<1>2. lines # <<>> /\ Head(lines) # 0 /\ lines' = Tail(lines) /\ C!IsInjective(lines)
  BY <1>1 DEF C!Change, ChangesInv, Landed
<1> DEFINE W == C!Writes \cup {0}
<1>3. lines \in Seq(W) BY <1>1
<1> HIDE DEF W
<1>4. /\ Head(lines) \in W /\ Tail(lines) \in Seq(W) /\ C!Range(lines) = {Head(lines)} \cup C!Range(Tail(lines))
      /\ C!IsInjective(Tail(lines)) /\ Head(lines) \notin C!Range(Tail(lines))
      /\ lines[Len(lines)] = Head(lines) \/ (Tail(lines) # <<>> /\ Tail(lines)[Len(Tail(lines))] = lines[Len(lines)])
  BY <1>2, <1>3, TailRange
<1>5. Head(lines) \in C!Writes /\ Head(lines) > 0
  BY <1>1, <1>2, <1>4 DEF W
<1>6. Head(lines) \notin C!Range(disk) /\ writes[Head(lines)] = "landed"
  BY <1>1, <1>2, <1>4 DEF ChangesInv, Landed
<1>7. ended.at \in {"no", "asked"} /\ (ended.at = "asked" => lines[Len(lines)] = 0)
  BY <1>1, <1>2 DEF ChangesInv, Flushes
<1> QED BY <1>1, <1>2, <1>4, <1>5, <1>6, <1>7 DEF W

\* The change is on the disk.
LEMMA AppendedKeeps == ASSUME ChangesInv, C!Appended PROVE ChangesInv'
<1> DEFINE h == Head(lines)
<1>1. /\ writes \in Seq({"on", "landed", "not", "door"}) /\ C!Writes = 1 .. Len(writes) /\ Len(writes) \in Nat
      /\ before \subseteq C!Writes /\ disk \in Seq(C!Writes)
      /\ lost \subseteq C!Writes /\ ended.lost \subseteq C!Writes
      /\ reported \in Seq(C!Writes \cup {-w : w \in C!Writes}) /\ log \in Seq(LogForms)
      /\ C!FLUSH = 0
  BY ChangeTypes
<1>2. C!Change /\ disk' = Append(disk, h) /\ reported' = Append(reported, h)
      /\ UNCHANGED <<writes, before, lost, log, ended>> /\ C!Writes' = C!Writes
  BY DEF C!Appended, C!Writes
<1>3. /\ h \in C!Writes /\ h > 0 /\ lines' \in Seq(C!Writes \cup {0})
      /\ C!Range(lines) = {h} \cup C!Range(lines') /\ h \notin C!Range(lines')
      /\ C!IsInjective(lines') /\ h \notin C!Range(disk) /\ writes[h] = "landed"
      /\ ended.at \in {"no", "asked"} /\ (ended.at = "asked" => lines' # <<>> /\ lines'[Len(lines')] = C!FLUSH)
  BY <1>2, FirstLine
<1> HIDE DEF h
<1>4. C!IsInjective(disk) BY DEF ChangesInv, Landed
<1>5. disk' \in Seq(C!Writes) /\ C!Range(disk') = C!Range(disk) \cup {h} /\ C!IsInjective(disk')
  BY <1>1, <1>2, <1>3, <1>4, AppendRange
<1>6. reported' \in Seq(C!Writes \cup {-w : w \in C!Writes}) /\ C!Range(reported') = C!Range(reported) \cup {h}
  <2> DEFINE R == C!Writes \cup {-w : w \in C!Writes}
  <2>1. h \in R /\ reported \in Seq(R) BY <1>1, <1>3
  <2> HIDE DEF R
  <2>2. reported' \in Seq(R) /\ C!Range(reported') = C!Range(reported) \cup {h} BY <1>2, <2>1, AppendRange
  <2> QED BY <2>2 DEF R
<1>7. C!TypeOK'
  BY <1>1, <1>2, <1>3, <1>5, <1>6 DEF C!TypeOK, ChangesInv
<1>8. Landed'
  BY <1>2, <1>3, <1>5 DEF ChangesInv, Landed
<1>9. Flushes'
  BY <1>2, <1>3 DEF ChangesInv, Flushes
<1>10. Tellings'
  BY <1>2, <1>3, <1>5, <1>6 DEF ChangesInv, Tellings, Heard
<1> QED BY <1>1, <1>2, <1>7, <1>8, <1>9, <1>10 DEF ChangesInv

\* The disk takes not the change.
LEMMA LoseKeeps == ASSUME ChangesInv, C!Lose PROVE ChangesInv'
<1> DEFINE h == Head(lines)
<1>1. /\ writes \in Seq({"on", "landed", "not", "door"}) /\ C!Writes = 1 .. Len(writes) /\ Len(writes) \in Nat
      /\ before \subseteq C!Writes /\ disk \in Seq(C!Writes)
      /\ lost \subseteq C!Writes /\ ended.lost \subseteq C!Writes
      /\ reported \in Seq(C!Writes \cup {-w : w \in C!Writes}) /\ log \in Seq(LogForms)
      /\ C!FLUSH = 0
  BY ChangeTypes
<1>2. C!Change /\ lost' = lost \cup {h} /\ reported' = Append(reported, -h)
      /\ UNCHANGED <<writes, before, disk, log, ended>> /\ C!Writes' = C!Writes
  BY DEF C!Lose, C!EachLost, C!Writes
<1>3. /\ h \in C!Writes /\ h > 0 /\ lines' \in Seq(C!Writes \cup {0})
      /\ C!Range(lines) = {h} \cup C!Range(lines') /\ h \notin C!Range(lines')
      /\ C!IsInjective(lines') /\ h \notin C!Range(disk) /\ writes[h] = "landed"
      /\ ended.at \in {"no", "asked"} /\ (ended.at = "asked" => lines' # <<>> /\ lines'[Len(lines')] = C!FLUSH)
  BY <1>2, FirstLine
<1> HIDE DEF h
<1>4. ~(-h > 0) BY <1>1, <1>3
<1>5. reported' \in Seq(C!Writes \cup {-w : w \in C!Writes}) /\ C!Range(reported') = C!Range(reported) \cup {-h}
  <2> DEFINE R == C!Writes \cup {-w : w \in C!Writes}
  <2>1. -h \in R /\ reported \in Seq(R) BY <1>1, <1>3
  <2> HIDE DEF R
  <2>2. reported' \in Seq(R) /\ C!Range(reported') = C!Range(reported) \cup {-h} BY <1>2, <2>1, AppendRange
  <2> QED BY <2>2 DEF R
<1>6. C!TypeOK'
  BY <1>1, <1>2, <1>3, <1>5 DEF C!TypeOK, ChangesInv
<1>7. Landed'
  BY <1>2, <1>3 DEF ChangesInv, Landed
<1>8. Flushes'
  BY <1>2, <1>3 DEF ChangesInv, Flushes
<1>9. Tellings'
  BY <1>2, <1>3, <1>4, <1>5 DEF ChangesInv, Tellings, Heard
<1> QED BY <1>1, <1>2, <1>6, <1>7, <1>8, <1>9 DEF ChangesInv

\* The task comes to the flush.
LEMMA FlushKeeps == ASSUME ChangesInv, C!Flush PROVE ChangesInv'
<1>1. /\ writes \in Seq({"on", "landed", "not", "door"}) /\ C!Writes = 1 .. Len(writes) /\ Len(writes) \in Nat
      /\ before \subseteq C!Writes /\ lines \in Seq(C!Writes \cup {0}) /\ disk \in Seq(C!Writes)
      /\ lost \subseteq C!Writes /\ ended.lost \subseteq C!Writes
      /\ reported \in Seq(C!Writes \cup {-w : w \in C!Writes}) /\ log \in Seq(LogForms)
      /\ ended.at \in {"no", "asked", "flushed", "told"} /\ C!FLUSH = 0
  BY ChangeTypes
<1>2. /\ lines # <<>> /\ Head(lines) = 0 /\ lines' = Tail(lines) /\ lost' = {}
      /\ ended' = [at |-> "flushed", lost |-> lost]
      /\ UNCHANGED <<writes, before, disk, reported, log>> /\ C!Writes' = C!Writes
  BY <1>1 DEF C!Flush, C!Writes
<1>3. C!IsInjective(lines) /\ C!IsInjective(disk) BY DEF ChangesInv, Landed
<1>4. lines' = <<>> /\ C!Range(lines) = {0} /\ ended.at = "asked"
  <2> DEFINE W == C!Writes \cup {0}
  <2>1. lines \in Seq(W) BY <1>1
  <2> HIDE DEF W
  <2>2. /\ C!Range(lines) = {0} \cup C!Range(Tail(lines))
        /\ C!IsInjective(lines) /\ lines[Len(lines)] = Head(lines) => Tail(lines) = <<>>
    BY <1>2, <2>1, TailRange
  <2>3. ended.at = "asked" BY <1>1, <1>2, <2>2 DEF ChangesInv, Flushes
  <2>4. lines[Len(lines)] = 0 BY <1>1, <2>3 DEF ChangesInv, Flushes
  <2>5. Tail(lines) = <<>> BY <1>2, <1>3, <2>2, <2>4
  <2>6. C!Range(<<>>) = {} BY DEF C!Range
  <2> QED BY <1>2, <2>2, <2>3, <2>5, <2>6
<1>5. C!Range(lines') = {} /\ C!IsInjective(lines') /\ lines' \in Seq(C!Writes \cup {0})
  BY <1>4, EmptySeq DEF C!Range, C!IsInjective
<1>6. ended'.at = "flushed" /\ ended'.lost = lost /\ ended.lost = {}
  BY <1>2, <1>4 DEF ChangesInv, Flushes
<1>7. C!TypeOK'
  BY <1>1, <1>2, <1>5, <1>6 DEF C!TypeOK, ChangesInv
<1>8. Landed'
  <2>1. 0 \notin C!Writes BY <1>1
  <2> QED BY <1>2, <1>3, <1>4, <1>5, <1>6, <2>1 DEF ChangesInv, Landed
<1>9. Flushes' BY <1>2, <1>4, <1>6 DEF ChangesInv, Flushes
<1>10. Tellings' BY <1>2, <1>6 DEF ChangesInv, Tellings, Heard
<1> QED BY <1>1, <1>2, <1>7, <1>8, <1>9, <1>10 DEF ChangesInv

\* The end of the life comes, and asks for a flush.
LEMMA EndLifeKeeps == ASSUME ChangesInv, C!EndLife PROVE ChangesInv'
<1>1. /\ writes \in Seq({"on", "landed", "not", "door"}) /\ C!Writes = 1 .. Len(writes) /\ Len(writes) \in Nat
      /\ before \subseteq C!Writes /\ lines \in Seq(C!Writes \cup {0}) /\ disk \in Seq(C!Writes)
      /\ lost \subseteq C!Writes /\ ended.lost \subseteq C!Writes
      /\ reported \in Seq(C!Writes \cup {-w : w \in C!Writes}) /\ log \in Seq(LogForms)
      /\ ended.at \in {"no", "asked", "flushed", "told"} /\ C!FLUSH = 0
  BY ChangeTypes
<1>2. /\ ended.at = "no" /\ lines' = Append(lines, 0) /\ ended' = [ended EXCEPT !.at = "asked"] /\ before' = {}
      /\ UNCHANGED <<writes, disk, lost, reported, log>> /\ C!Writes' = C!Writes
  BY <1>1 DEF C!EndLife, C!EndFlushes, C!Writes
<1>3. 0 \notin C!Range(lines) /\ C!IsInjective(lines) /\ ended.lost = {}
  BY <1>1, <1>2 DEF ChangesInv, Flushes, Landed
<1>4. /\ lines' \in Seq(C!Writes \cup {0}) /\ C!Range(lines') = C!Range(lines) \cup {0} /\ C!IsInjective(lines')
      /\ lines' # <<>> /\ lines'[Len(lines')] = 0
  <2> DEFINE W == C!Writes \cup {0}
  <2>1. lines \in Seq(W) /\ 0 \in W BY <1>1
  <2> HIDE DEF W
  <2>2. /\ lines' \in Seq(W) /\ C!Range(lines') = C!Range(lines) \cup {0} /\ C!IsInjective(lines')
        /\ lines' # <<>> /\ lines'[Len(lines')] = 0
    BY <1>2, <1>3, <2>1, AppendRange
  <2> QED BY <2>2 DEF W
<1>5. C!TypeOK /\ Landed /\ Flushes /\ Tellings BY DEF ChangesInv
<1>6. ended'.at = "asked" /\ ended'.lost = {}
  BY <1>2, <1>3, <1>5 DEF C!TypeOK
<1>7. C!TypeOK'
  BY <1>1, <1>2, <1>4, <1>5, <1>6 DEF C!TypeOK
<1>8. Landed' BY <1>1, <1>2, <1>3, <1>4, <1>5, <1>6 DEF Landed, C!FLUSH
<1>9. Flushes' BY <1>1, <1>2, <1>4, <1>6 DEF Flushes
<1>10. Tellings' BY <1>2, <1>5, <1>6 DEF Tellings, Heard, Hears
<1> QED BY <1>1, <1>2, <1>7, <1>8, <1>9, <1>10 DEF ChangesInv

\* The life puts what it was told in its log, before its end too.
LEMMA ToldKeeps ==
  ASSUME ChangesInv, NEW e \in Seq(LogForms), log' = log \o C!Events \o e, reported' = <<>>,
         \A k \in DOMAIN e : e[k].is # "changed",
         UNCHANGED <<writes, before, lines, disk, lost>>
  PROVE  /\ log' \in Seq(LogForms)
         /\ \A w \in C!Range(disk) : Heard(w)'
         /\ \A k \in DOMAIN log' : log'[k].is = "changed" => log'[k].writes \subseteq C!Range(disk)
<1>1. C!Events \in Seq(LogForms) /\ log \in Seq(LogForms) /\ \A w : Hears(C!Events, w) <=> w \in C!News
  BY EventsTell, ChangeTypes
<1>2. log \o C!Events \in Seq(LogForms) /\ \A w : Hears(log \o C!Events, w) <=> Heard(w) \/ w \in C!News
  BY <1>1, LogGrows DEF Heard
<1>3. log' \in Seq(LogForms) /\ \A w : Heard(w)' <=> Heard(w) \/ w \in C!News
  <2> DEFINE l == log \o C!Events
  <2>1. l \in Seq(LogForms) /\ log' = l \o e /\ \A w : Hears(l, w) <=> Heard(w) \/ w \in C!News
    BY <1>2
  <2> HIDE DEF l
  <2>2. e \in Seq(LogForms) /\ \A w : ~Hears(e, w)
    BY DEF Hears
  <2>3. log' \in Seq(LogForms) /\ \A w : Hears(log', w) <=> Hears(l, w) \/ Hears(e, w)
    BY <2>1, <2>2, LogGrows
  <2>4. \A w : Heard(w)' <=> Hears(log', w)
    BY DEF Heard, Hears
  <2> QED BY <2>1, <2>2, <2>3, <2>4
<1>4. \A w \in C!News : w \in C!Range(disk)
  <2>1. \A w \in C!Range(reported) : w > 0 => w \in C!Range(disk) BY DEF ChangesInv, Tellings
  <2> QED BY <2>1 DEF C!News
<1>5. \A w : Heard(w) => w \in C!Range(disk)
  BY DEF ChangesInv, Tellings, Heard, Hears
<1>6. ASSUME NEW w \in C!Range(disk) PROVE Heard(w)'
  <2>1. Heard(w) \/ w \in C!Range(reported) BY DEF ChangesInv, Tellings
  <2>2. w > 0
    <3>1. disk \in Seq(C!Writes) /\ C!Writes = 1 .. Len(writes) /\ Len(writes) \in Nat BY ChangeTypes
    <3>2. w \in 1 .. Len(writes) BY <3>1, ElementOfSeq DEF C!Range
    <3> QED BY <3>1, <3>2
  <2> QED BY <1>3, <2>1, <2>2 DEF C!News
<1>7. \A w : Heard(w)' => w \in C!Range(disk)
  BY <1>3, <1>4, <1>5
<1>8. ASSUME NEW k \in DOMAIN log', log'[k].is = "changed" PROVE log'[k].writes \subseteq C!Range(disk)
  BY <1>7, <1>8 DEF Heard, Hears
<1> QED BY <1>3, <1>6, <1>8

LEMMA ChangesNext == ChangesInv /\ [C!Next]_ofChanges => ChangesInv'
<1> SUFFICES ASSUME ChangesInv, [C!Next]_ofChanges PROVE ChangesInv'
  OBVIOUS
<1>1. CASE C!Told
  <2>1. /\ log' = log \o C!Events /\ ended.at = "no" /\ reported' = <<>>
        /\ UNCHANGED <<writes, before, lines, disk, lost, ended>> /\ C!Writes' = C!Writes
    BY <1>1 DEF C!Told, C!Writes
  <2>2. <<>> \in Seq(LogForms) /\ DOMAIN <<>> = {} /\ log \o C!Events \o <<>> = log \o C!Events
    <3>1. log \in Seq(LogForms) /\ C!Events \in Seq(LogForms) BY ChangeTypes, EventsTell
    <3>2. log \o C!Events \in Seq(LogForms) BY <3>1, ConcatProperties
    <3> QED BY <3>2, ConcatEmptySeq, EmptySeq
  <2>3. /\ log' \in Seq(LogForms)
        /\ \A w \in C!Range(disk) : Heard(w)'
        /\ \A k \in DOMAIN log' : log'[k].is = "changed" => log'[k].writes \subseteq C!Range(disk)
    BY <2>1, <2>2, ToldKeeps
  <2>4. reported' \in Seq(C!Writes \cup {-w : w \in C!Writes}) /\ C!Range(reported') = {}
    BY <2>1, EmptySeq DEF C!Range
  <2>5. C!TypeOK'
    <3>1. \A k \in DOMAIN log' : log'[k].is \in {"changed", "notice", C!END}
      BY <2>3, ElementOfSeq DEF LogForms, C!END
    <3> QED BY <2>1, <2>4, <3>1 DEF ChangesInv, C!TypeOK
  <2>6. Landed' /\ Flushes' BY <2>1 DEF ChangesInv, Landed, Flushes
  <2>7. Tellings' BY <2>1, <2>3, <2>4 DEF Tellings
  <2> QED BY <2>3, <2>5, <2>6, <2>7 DEF ChangesInv
<1>2. CASE C!EndTold
  <2> DEFINE t == [is |-> "end", lost |-> ended.lost]
             e == <<t>>
  <2>1. /\ log' = log \o C!Events \o e /\ ended.at = "flushed" /\ ended' = [ended EXCEPT !.at = "told"] /\ reported' = <<>>
        /\ UNCHANGED <<writes, before, lines, disk, lost>> /\ C!Writes' = C!Writes
    BY <1>2 DEF C!EndTold, C!Writes, C!END
  <2>2. e \in Seq(LogForms) /\ Len(e) = 1 /\ e[1] = t /\ DOMAIN e = {1} /\ t.is = "end"
    <3>1. ended.lost \subseteq C!Writes /\ C!Writes = 1 .. Len(writes) BY ChangeTypes
    <3>2. t \in LogForms /\ t.is = "end" BY <3>1 DEF LogForms
    <3> QED BY <3>2
  <2> HIDE DEF t, e
  <2>3. /\ log' \in Seq(LogForms)
        /\ \A w \in C!Range(disk) : Heard(w)'
        /\ \A k \in DOMAIN log' : log'[k].is = "changed" => log'[k].writes \subseteq C!Range(disk)
    BY <2>1, <2>2, ToldKeeps
  <2>4. log' # <<>> /\ log'[Len(log')] = t
    <3> DEFINE l == log \o C!Events
    <3>1. log \in Seq(LogForms) /\ C!Events \in Seq(LogForms) BY ChangeTypes, EventsTell
    <3>2. l \in Seq(LogForms) BY <3>1, ConcatProperties
    <3> HIDE DEF l
    <3>3. l \o e # <<>> /\ (l \o e)[Len(l \o e)] = e[1]
      <4>1. l \in Seq(LogForms) /\ e \in Seq(LogForms) /\ Len(e) = 1 BY <2>2, <3>2
      <4> QED BY <4>1, OneMore, Zenon
    <3> QED BY <2>1, <2>2, <3>3 DEF l
  <2>5. reported' \in Seq(C!Writes \cup {-w : w \in C!Writes}) /\ C!Range(reported') = {}
    BY <2>1, EmptySeq DEF C!Range
  <2>6. C!TypeOK /\ Landed /\ Flushes /\ Tellings BY DEF ChangesInv
  <2>7. ended'.at = "told" /\ ended'.lost = ended.lost /\ ended' \in [at : {"no", "asked", "flushed", "told"}, lost : SUBSET C!Writes]
    BY <2>1, <2>6 DEF C!TypeOK
  <2>8. C!TypeOK'
    <3>1. \A k \in DOMAIN log' : log'[k].is \in {"changed", "notice", C!END}
      BY <2>3, ElementOfSeq DEF LogForms, C!END
    <3> QED BY <2>1, <2>5, <2>6, <2>7, <3>1 DEF C!TypeOK
  <2>9. Landed' /\ Flushes' BY <2>1, <2>6, <2>7 DEF Landed, Flushes
  <2>10. Tellings' BY <2>1, <2>3, <2>4, <2>5, <2>7 DEF Tellings, t
  <2> QED BY <2>3, <2>8, <2>9, <2>10 DEF ChangesInv
<1>3. CASE UNCHANGED ofChanges
  BY <1>3 DEF ofChanges, ChangesInv, C!TypeOK, C!Writes, Landed, Flushes, Tellings, Heard, Hears
<1> QED BY <1>1, <1>2, <1>3, BeginKeeps, DoneKeeps, RebornKeeps, AppendedKeeps, LoseKeeps, FlushKeeps, EndLifeKeeps
        DEF C!Next

\* What the client and the windows find follows.
LEMMA ChangesFound == ChangesInv => ChangesAreKept
<1> SUFFICES ASSUME ChangesInv PROVE C!EndFindsTheJournal /\ C!ChangedIsOnDisk
  BY DEF ChangesInv, ChangesAreKept
<1>1. C!TypeOK /\ Landed /\ Flushes /\ Tellings BY DEF ChangesInv
<1>2. ended.at = "told" => C!Last(log) = [is |-> "end", lost |-> ended.lost] /\ lines = <<>> /\ lost = {} /\ reported = <<>>
  BY <1>1 DEF Tellings, Flushes, C!Last
<1>3. C!EndFindsTheJournal
  <2>1. ended.at = "told" => C!Range(lines) = {} BY <1>2 DEF C!Range
  <2> QED BY <1>1, <1>2, <2>1 DEF C!EndFindsTheJournal, Landed
<1>4. ASSUME NEW w PROVE w \in UNION {log[k].writes : k \in {n \in DOMAIN log : log[n].is = "changed"}} <=> Heard(w)
  BY DEF Heard, Hears
<1>5. C!ChangedIsOnDisk
  <2>1. ended.at = "told" => C!Range(reported) = {} BY <1>2 DEF C!Range
  <2>2. \A w : Heard(w) => w \in C!Range(disk) BY <1>1 DEF Tellings, Heard, Hears
  <2>3. ended.at = "told" => \A w \in C!Range(disk) : Heard(w) BY <1>1, <2>1 DEF Tellings
  <2> QED BY <1>2, <1>4, <2>2, <2>3 DEF C!ChangedIsOnDisk, C!END
<1> QED BY <1>3, <1>5


\* At its end a life's journal holds each change that landed, each on the disk once or told as lost, and a window
\* hears of a change only once it is on the disk and of each before it hears the end (changes.rs, driven; life.rs).
THEOREM ChangesTheorem == Spec => []ChangesAreKept
<1>1. Init => ChangesInv
  BY ChangesInit DEF Init
<1>2. ChangesInv /\ [Next]_vars => ChangesInv'
  <2>1. [Next]_vars => [C!Next]_ofChanges
    BY DEF Next, Stall, Answers, Views, Processes, Changes, vars
  <2> QED BY <2>1, ChangesNext
<1>3. ChangesInv => ChangesAreKept
  BY ChangesFound
<1> QED BY <1>1, <1>2, <1>3, PTL DEF Spec

-----------------------------------------------------------------------------
(* The processes of skills.                                                 *)

\* The last fact of its skill among those that the task took up.
LastAt(n) == n \in 1 .. P!Taken /\ \A m \in n + 1 .. P!Taken : said[m].skill # said[n].skill

\* A fact of the skill is still to start its process.
Awaited(s) == \E k \in DOMAIN player.todo : player.todo[k].skill = s

\* Each fact that the task took up started one process at most, or is to start one; those to start are the last of
\* their skill, and so is each that runs, but while a later one is to start.
TaskInv ==
  /\ P!Taken <= Len(said) /\ Len(procs) + Len(player.todo) <= P!Taken
  /\ player.at \in {"opens", "ends", "gone"} => player.todo = <<>>
  /\ player.at = "opens" => P!Taken = 0
  /\ player.at = "gone" => \A s \in Skills : running[s] = 0
  /\ \A k \in DOMAIN player.todo : \E n \in 1 .. P!Taken : LastAt(n) /\ player.todo[k] = said[n]
  /\ \A s \in Skills : running[s] # 0 =>
       /\ procs[running[s]].fact.skill = s
       /\ Awaited(s) \/ \E n \in 1 .. P!Taken : LastAt(n) /\ procs[running[s]].fact = said[n]

\* A process that stands, or that anything it started stands of, is watched, and is the one that its skill runs.
WatchInv ==
  /\ \A n \in P!Procs : P!Alive(n) => procs[n].watch = "watches" /\ running[procs[n].fact.skill] = n
  /\ \A n \in P!Range(reports) : procs[n].watch = "over"
  /\ P!ToldOnce

ProcessesInv == P!TypeOK /\ TaskInv /\ WatchInv

\* A finite set of numbers has a greatest member.
LEMMA Greatest == ASSUME NEW D \in SUBSET Int, IsFiniteSet(D), D # {} PROVE \E n \in D : \A m \in D : m <= n
<1> DEFINE l == Listed(D)
<1>1. /\ l \in Seq(D) /\ \A n \in D : \E k \in 1 .. Len(l) : l[k] = n
      /\ \A k, j \in 1 .. Len(l) : k < j => l[k] < l[j]
  BY ListedWhole
<1> HIDE DEF l
<1>2. Len(l) \in Nat /\ Len(l) # 0
  <2>1. PICK n \in D : TRUE OBVIOUS
  <2>2. PICK k \in 1 .. Len(l) : l[k] = n BY <1>1
  <2>3. Len(l) \in Nat BY <1>1
  <2> QED BY <2>2, <2>3
<1>3. Len(l) \in 1 .. Len(l) /\ l[Len(l)] \in D BY <1>1, <1>2, ElementOfSeq
<1>4. ASSUME NEW m \in D PROVE m <= l[Len(l)]
  <2>1. PICK k \in 1 .. Len(l) : l[k] = m BY <1>1
  <2>2. CASE k = Len(l)
    <3>1. l[Len(l)] \in Int BY <1>3
    <3> QED BY <2>1, <2>2, <3>1
  <2>3. CASE k < Len(l)
    <3>1. l[k] < l[Len(l)] BY <1>1, <1>3, <2>1, <2>3
    <3>2. m \in Int /\ l[Len(l)] \in Int BY <1>3
    <3> QED BY <2>1, <3>1, <3>2
  <2> QED BY <1>2, <2>1, <2>2, <2>3
<1> QED BY <1>3, <1>4

\* The last fact of each skill is a fact of the tip, and there are no more of them than facts.
LEMMA NamedAreLast ==
  ASSUME NEW facts \in Seq(P!Facts), NEW named, named = P!Named(facts)
  PROVE  /\ named \in Seq(P!Facts) /\ Len(named) <= Len(facts)
         /\ \A k \in 1 .. Len(named) : \E n \in 1 .. Len(facts) :
              named[k] = facts[n] /\ \A m \in n + 1 .. Len(facts) : facts[m].skill # facts[n].skill
<1> DEFINE at == {n \in DOMAIN facts : \A m \in 1 .. n - 1 : facts[m].skill # facts[n].skill}
           LastOf(n, s) == facts[n].skill = s /\ \A m \in n + 1 .. Len(facts) : facts[m].skill # s
           firsts == Listed(at)
<1>1. DOMAIN facts = 1 .. Len(facts) /\ Len(facts) \in Nat OBVIOUS
<1>2. at \in SUBSET (1 .. Len(facts)) BY <1>1
<1>3. named = [k \in DOMAIN firsts |-> facts[P!LastOf(facts, facts[firsts[k]].skill)]]
  <2>1. P!Firsts(facts) = firsts
    <3>1. P!Firsts(facts) = P!Listed(at) BY DEF P!Firsts
    <3> HIDE DEF at
    <3> QED BY <3>1 DEF P!Listed, Listed, P!Rank, Rank, P!Cardinality, Cardinality
  <2> HIDE DEF at, firsts
  <2> QED BY <2>1 DEF P!Named
<1> HIDE DEF at
<1>4. at \in SUBSET Int /\ IsFiniteSet(at) /\ Cardinality(at) <= Len(facts)
  <2>1. /\ IsFiniteSet(1 .. Len(facts)) /\ Cardinality(1 .. Len(facts)) = Len(facts) BY <1>1, FS_Interval
  <2>2. IsFiniteSet(at) /\ Cardinality(at) <= Cardinality(1 .. Len(facts)) BY <1>2, <2>1, FS_Subset
  <2> QED BY <1>2, <2>1, <2>2
<1>5. firsts \in Seq(at) /\ Len(firsts) = Cardinality(at)
  BY <1>4, ListedWhole
<1> HIDE DEF firsts
<1>6. ASSUME NEW n \in 1 .. Len(facts) PROVE \E m \in 1 .. Len(facts) : LastOf(m, facts[n].skill)
  <2> DEFINE D == {m \in 1 .. Len(facts) : facts[m].skill = facts[n].skill}
  <2>1. D \in SUBSET (1 .. Len(facts)) /\ n \in D OBVIOUS
  <2>2. IsFiniteSet(1 .. Len(facts)) /\ 1 .. Len(facts) \subseteq Int BY <1>1, FS_Interval
  <2> HIDE DEF D
  <2>3. IsFiniteSet(D) /\ D \in SUBSET Int BY <2>1, <2>2, FS_Subset
  <2>4. PICK m \in D : \A k \in D : k <= m BY <2>1, <2>3, Greatest
  <2> USE DEF D
  <2>5. ASSUME NEW k \in m + 1 .. Len(facts) PROVE facts[k].skill # facts[n].skill
    <3>1. k \in 1 .. Len(facts) /\ ~(k <= m) BY <1>1, <2>4, <2>5
    <3> QED BY <2>4, <3>1
  <2> QED BY <2>4, <2>5
<1>7. ASSUME NEW k \in DOMAIN firsts
      PROVE  /\ named[k] \in P!Facts
             /\ \E n \in 1 .. Len(facts) : named[k] = facts[n] /\ \A m \in n + 1 .. Len(facts) : facts[m].skill # facts[n].skill
  <2>1. DOMAIN firsts = 1 .. Len(firsts) BY <1>5
  <2>2. firsts[k] \in 1 .. Len(facts) BY <1>2, <1>5, <2>1, ElementOfSeq
  <2> DEFINE s == facts[firsts[k]].skill
             n == P!LastOf(facts, s)
  <2>3. \E m \in DOMAIN facts : LastOf(m, s) BY <1>1, <1>6, <2>2
  <2>4. named[k] = facts[n] BY <1>3
  <2> HIDE DEF s
  <2>5. n \in DOMAIN facts /\ LastOf(n, s) BY <2>3 DEF P!LastOf
  <2> HIDE DEF n
  <2>6. facts[n] \in P!Facts BY <1>1, <2>5, ElementOfSeq
  <2> QED BY <1>1, <2>4, <2>5, <2>6
<1>8. DOMAIN firsts = 1 .. Len(firsts) /\ Len(firsts) \in Nat BY <1>5
<1>9. named = [k \in 1 .. Len(firsts) |-> named[k]] BY <1>3, <1>8
<1>10. named \in Seq(P!Facts) /\ Len(named) = Len(firsts) BY <1>7, <1>8, <1>9, IsASeq
<1> QED BY <1>4, <1>5, <1>7, <1>8, <1>10

\* The bare facts of the processes.
LEMMA ProcessTypes ==
  ASSUME ProcessesInv
  PROVE  /\ said \in Seq(P!Facts) /\ over \in BOOLEAN /\ procs \in Seq(P!Forms) /\ running \in [Skills -> 0 .. Len(procs)]
         /\ reports \in Seq(P!Procs) /\ Len(said) \in Nat /\ Len(procs) \in Nat /\ P!Procs = 1 .. Len(procs)
         /\ player.at \in P!Phases /\ player.todo \in Seq(P!Facts) /\ Len(player.todo) \in Nat
         /\ player.replayed \in 0 .. Len(said) /\ player.read \in 0 .. Len(said) /\ P!Taken \in Nat
         /\ player = [at |-> player.at, todo |-> player.todo, replayed |-> player.replayed, read |-> player.read]
<1>1. /\ said \in Seq(P!Facts) /\ over \in BOOLEAN /\ procs \in Seq(P!Forms) /\ running \in [Skills -> 0 .. Len(procs)]
      /\ reports \in Seq(P!Procs) /\ P!Procs = 1 .. Len(procs)
      /\ player \in [at : P!Phases, todo : Seq(P!Facts), replayed : 0 .. Len(said), read : 0 .. Len(said)]
  BY DEF ProcessesInv, P!TypeOK, P!Procs
<1>2. Len(said) \in Nat /\ Len(procs) \in Nat BY <1>1
<1>3. /\ player.at \in P!Phases /\ player.todo \in Seq(P!Facts)
      /\ player.replayed \in 0 .. Len(said) /\ player.read \in 0 .. Len(said)
      /\ player = [at |-> player.at, todo |-> player.todo, replayed |-> player.replayed, read |-> player.read]
  BY <1>1
<1>4. Len(player.todo) \in Nat BY <1>3
<1>5. P!Taken \in Nat BY <1>2, <1>3 DEF P!Taken
<1> QED BY <1>1, <1>2, <1>3, <1>4, <1>5

LEMMA ProcessesInit == P!Init => ProcessesInv
<1> SUFFICES ASSUME P!Init PROVE ProcessesInv
  OBVIOUS
<1>1. /\ said = <<>> /\ over = FALSE /\ procs = <<>> /\ reports = <<>> /\ running = [s \in Skills |-> 0]
      /\ player = [at |-> "opens", todo |-> <<>>, replayed |-> 0, read |-> 0]
  BY DEF P!Init
<1>2. P!Taken = 0 /\ Len(said) = 0 /\ Len(procs) = 0 /\ Len(player.todo) = 0 /\ P!Procs = {}
  BY <1>1 DEF P!Taken, P!Procs
<1>3. P!TypeOK
  <2>1. said \in Seq(P!Facts) /\ procs \in Seq(P!Forms) /\ reports \in Seq(P!Procs) /\ player.todo \in Seq(P!Facts)
    BY <1>1, EmptySeq
  <2>2. 0 \in 0 .. Len(said) /\ 0 \in 0 .. Len(procs) BY <1>2
  <2> QED BY <1>1, <2>1, <2>2 DEF P!TypeOK, P!Phases
<1>4. TaskInv BY <1>1, <1>2 DEF TaskInv
<1>5. WatchInv BY <1>1, <1>2 DEF WatchInv, P!ToldOnce, P!Range, P!IsInjective
<1> QED BY <1>3, <1>4, <1>5 DEF ProcessesInv

\* A process that changes, but for its fact, leaves the task as it is.
LEMMA ProcessChanges ==
  ASSUME ProcessesInv, NEW n \in P!Procs, NEW p \in P!Forms, p.fact = procs[n].fact,
         procs' = [procs EXCEPT ![n] = p], UNCHANGED <<said, player, running>>
  PROVE  /\ procs' \in Seq(P!Forms) /\ P!Procs' = P!Procs /\ Len(procs') = Len(procs)
         /\ procs'[n] = p /\ \A m \in P!Procs : m # n => procs'[m] = procs[m]
         /\ \A m \in P!Procs : procs'[m].fact = procs[m].fact
         /\ TaskInv'
<1>1. /\ procs \in Seq(P!Forms) /\ P!Procs = 1 .. Len(procs) /\ running \in [Skills -> 0 .. Len(procs)] /\ Len(procs) \in Nat
  BY ProcessTypes
<1>2. procs' \in Seq(P!Forms) /\ Len(procs') = Len(procs) /\ \A m \in P!Procs : procs'[m] = IF m = n THEN p ELSE procs[m]
  BY <1>1, ExceptSeq
<1>3. P!Procs' = P!Procs BY <1>1, <1>2 DEF P!Procs
<1>4. \A m \in P!Procs : procs'[m].fact = procs[m].fact BY <1>2
<1>5. /\ P!Taken' = P!Taken /\ said' = said /\ player' = player /\ running' = running
      /\ (\A k : LastAt(k)' <=> LastAt(k)) /\ (\A s : Awaited(s)' <=> Awaited(s))
  BY DEF P!Taken, LastAt, Awaited
<1>6. TaskInv BY DEF ProcessesInv
<1>7. TaskInv'
  <2>1. ASSUME NEW s \in Skills, running[s] # 0
        PROVE  /\ procs'[running[s]].fact.skill = s
               /\ Awaited(s) \/ \E k \in 1 .. P!Taken : LastAt(k) /\ procs'[running[s]].fact = said[k]
    <3>1. running[s] \in P!Procs BY <1>1, <2>1
    <3>2. procs'[running[s]].fact = procs[running[s]].fact BY <1>4, <3>1
    <3>3. /\ procs[running[s]].fact.skill = s
          /\ Awaited(s) \/ \E k \in 1 .. P!Taken : LastAt(k) /\ procs[running[s]].fact = said[k]
      BY <1>6, <2>1 DEF TaskInv
    <3> QED BY <3>2, <3>3
  <2>2. ASSUME NEW k \in DOMAIN player'.todo PROVE \E m \in 1 .. P!Taken' : LastAt(m)' /\ player'.todo[k] = said'[m]
    <3>1. \E m \in 1 .. P!Taken : LastAt(m) /\ player.todo[k] = said[m] BY <1>5, <1>6, <2>2 DEF TaskInv
    <3> QED BY <1>5, <3>1
  <2>3. ASSUME NEW s \in Skills, running'[s] # 0
        PROVE  /\ procs'[running'[s]].fact.skill = s
               /\ Awaited(s)' \/ \E k \in 1 .. P!Taken' : LastAt(k)' /\ procs'[running'[s]].fact = said'[k]
    BY <1>5, <2>1, <2>3
  <2>4. /\ P!Taken' <= Len(said') /\ Len(procs') + Len(player'.todo) <= P!Taken'
        /\ player'.at \in {"opens", "ends", "gone"} => player'.todo = <<>>
        /\ player'.at = "opens" => P!Taken' = 0
        /\ player'.at = "gone" => \A s \in Skills : running'[s] = 0
    BY <1>2, <1>5, <1>6 DEF TaskInv
  <2> QED BY <2>2, <2>3, <2>4 DEF TaskInv
<1> QED BY <1>2, <1>3, <1>4, <1>7

\* The step of one process and its watch.
LEMMA ProcessKeeps == ASSUME ProcessesInv, P!Process PROVE ProcessesInv'
<1>1. PICK n \in P!Procs : P!Exit(n) \/ P!WatchAsked(n) \/ P!WatchExit(n) \/ P!TellEnd(n)
  BY DEF P!Process
<1>2. /\ procs \in Seq(P!Forms) /\ P!Procs = 1 .. Len(procs) /\ running \in [Skills -> 0 .. Len(procs)] /\ Len(procs) \in Nat
      /\ reports \in Seq(P!Procs) /\ over \in BOOLEAN
  BY ProcessTypes
<1>3. procs[n] \in P!Forms BY <1>2, ElementOfSeq
<1>4. P!TypeOK /\ WatchInv BY DEF ProcessesInv
<1>5. CASE P!Exit(n)
  <2> DEFINE p == [procs[n] EXCEPT !.child = FALSE]
  <2>1. /\ p \in P!Forms /\ p.fact = procs[n].fact /\ p.watch = procs[n].watch /\ p.asked = procs[n].asked
        /\ p.group = procs[n].group /\ p.child = FALSE
    BY <1>3 DEF P!Forms
  <2>2. procs' = [procs EXCEPT ![n] = p] /\ UNCHANGED <<said, over, player, running, reports>>
    BY <1>5 DEF P!Exit
  <2> HIDE DEF p
  <2>3. /\ procs' \in Seq(P!Forms) /\ P!Procs' = P!Procs /\ Len(procs') = Len(procs)
        /\ procs'[n] = p /\ (\A m \in P!Procs : m # n => procs'[m] = procs[m]) /\ TaskInv'
        /\ \A m \in P!Procs : procs'[m].fact = procs[m].fact
    BY <2>1, <2>2, ProcessChanges
  <2>4. P!TypeOK' BY <1>4, <2>2, <2>3 DEF P!TypeOK
  <2>5. /\ \A m \in P!Procs : procs'[m].watch = procs[m].watch /\ procs'[m].asked = procs[m].asked
        /\ \A m \in P!Procs : P!Alive(m)' => P!Alive(m)
    BY <2>1, <2>3 DEF P!Alive
  <2>6. \A m \in P!Range(reports) : m \in P!Procs BY <1>2, ElementOfSeq DEF P!Range
  <2>7. WatchInv' BY <1>4, <2>2, <2>3, <2>5, <2>6 DEF WatchInv, P!ToldOnce
  <2> QED BY <2>3, <2>4, <2>7 DEF ProcessesInv
<1>6. CASE P!WatchAsked(n)
  <2> DEFINE p == [procs[n] EXCEPT !.child = FALSE, !.group = FALSE, !.watch = "over"]
  <2>1. /\ p \in P!Forms /\ p.fact = procs[n].fact /\ p.watch = "over" /\ p.asked = procs[n].asked
        /\ p.group = FALSE /\ p.child = FALSE
    BY <1>3 DEF P!Forms, P!Watch
  <2>2. procs' = [procs EXCEPT ![n] = p] /\ UNCHANGED <<said, over, player, running, reports>> /\ procs[n].asked
    BY <1>6 DEF P!WatchAsked
  <2> HIDE DEF p
  <2>3. /\ procs' \in Seq(P!Forms) /\ P!Procs' = P!Procs /\ Len(procs') = Len(procs)
        /\ procs'[n] = p /\ (\A m \in P!Procs : m # n => procs'[m] = procs[m]) /\ TaskInv'
        /\ \A m \in P!Procs : procs'[m].fact = procs[m].fact
    BY <2>1, <2>2, ProcessChanges
  <2>4. P!TypeOK' BY <1>4, <2>2, <2>3 DEF P!TypeOK
  <2>5. /\ \A m \in P!Procs : procs'[m].asked = procs[m].asked /\ (m # n => procs'[m].watch = procs[m].watch)
        /\ procs'[n].watch = "over" /\ \A m \in P!Procs : P!Alive(m)' => P!Alive(m) /\ m # n
    BY <2>1, <2>3 DEF P!Alive
  <2>6. \A m \in P!Range(reports) : m \in P!Procs BY <1>2, ElementOfSeq DEF P!Range
  <2>7. WatchInv' BY <1>4, <2>2, <2>3, <2>5, <2>6 DEF WatchInv, P!ToldOnce
  <2> QED BY <2>3, <2>4, <2>7 DEF ProcessesInv
<1>7. CASE P!WatchExit(n)
  <2> DEFINE p == [procs[n] EXCEPT !.watch = "tells", !.group = FALSE]
  <2>1. /\ p \in P!Forms /\ p.fact = procs[n].fact /\ p.watch = "tells" /\ p.asked = procs[n].asked
        /\ p.group = FALSE /\ p.child = procs[n].child
    BY <1>3 DEF P!Forms, P!Watch
  <2>2. /\ procs' = [procs EXCEPT ![n] = p] /\ UNCHANGED <<said, over, player, running, reports>>
        /\ ~procs[n].child /\ procs[n].watch = "watches"
    BY <1>7 DEF P!WatchExit, P!KillGroup
  <2> HIDE DEF p
  <2>3. /\ procs' \in Seq(P!Forms) /\ P!Procs' = P!Procs /\ Len(procs') = Len(procs)
        /\ procs'[n] = p /\ (\A m \in P!Procs : m # n => procs'[m] = procs[m]) /\ TaskInv'
        /\ \A m \in P!Procs : procs'[m].fact = procs[m].fact
    BY <2>1, <2>2, ProcessChanges
  <2>4. P!TypeOK' BY <1>4, <2>2, <2>3 DEF P!TypeOK
  <2>5. /\ \A m \in P!Procs : procs'[m].asked = procs[m].asked /\ (m # n => procs'[m].watch = procs[m].watch)
        /\ procs'[n].watch = "tells" /\ \A m \in P!Procs : P!Alive(m)' => P!Alive(m) /\ m # n
    BY <2>1, <2>2, <2>3 DEF P!Alive
  <2>6. \A m \in P!Range(reports) : m \in P!Procs /\ m # n
    BY <1>2, <1>4, <2>2, ElementOfSeq DEF P!Range, WatchInv
  <2>7. WatchInv' BY <1>4, <2>2, <2>3, <2>5, <2>6 DEF WatchInv, P!ToldOnce
  <2> QED BY <2>3, <2>4, <2>7 DEF ProcessesInv
<1>8. CASE P!TellEnd(n)
  <2> DEFINE p == [procs[n] EXCEPT !.watch = "over"]
  <2>1. /\ p \in P!Forms /\ p.fact = procs[n].fact /\ p.watch = "over" /\ p.asked = procs[n].asked
        /\ p.group = procs[n].group /\ p.child = procs[n].child
    BY <1>3 DEF P!Forms, P!Watch
  <2>2. /\ procs' = [procs EXCEPT ![n] = p] /\ UNCHANGED <<said, over, player, running>>
        /\ reports' = (IF over THEN reports ELSE Append(reports, n)) /\ procs[n].watch = "tells"
    BY <1>8 DEF P!TellEnd
  <2> HIDE DEF p
  <2>3. /\ procs' \in Seq(P!Forms) /\ P!Procs' = P!Procs /\ Len(procs') = Len(procs)
        /\ procs'[n] = p /\ (\A m \in P!Procs : m # n => procs'[m] = procs[m]) /\ TaskInv'
        /\ \A m \in P!Procs : procs'[m].fact = procs[m].fact
    BY <2>1, <2>2, ProcessChanges
  <2>4. /\ \A m \in P!Procs : procs'[m].asked = procs[m].asked /\ (m # n => procs'[m].watch = procs[m].watch)
        /\ procs'[n].watch = "over" /\ \A m \in P!Procs : P!Alive(m)' => P!Alive(m) /\ m # n
    BY <1>4, <2>1, <2>2, <2>3 DEF P!Alive, WatchInv
  <2>5. \A m \in P!Range(reports) : m \in P!Procs /\ m # n
    BY <1>2, <1>4, <2>2, ElementOfSeq DEF P!Range, WatchInv
  <2>6. /\ reports' \in Seq(P!Procs) /\ P!IsInjective(reports') /\ P!Range(reports) \subseteq P!Range(reports')
        /\ P!Range(reports') \subseteq P!Range(reports) \cup {n} /\ (~over => n \in P!Range(reports'))
    <3>1. CASE over
      BY <1>2, <1>4, <2>2, <3>1 DEF WatchInv, P!ToldOnce
    <3>2. CASE ~over
      <4> DEFINE D == P!Procs
      <4>1. reports \in Seq(D) /\ n \in D /\ reports' = Append(reports, n) BY <1>2, <2>2, <3>2
      <4> HIDE DEF D
      <4>2. /\ Append(reports, n) \in Seq(D) /\ C!Range(Append(reports, n)) = C!Range(reports) \cup {n}
            /\ (C!IsInjective(reports) /\ n \notin C!Range(reports) => C!IsInjective(Append(reports, n)))
        BY <4>1, AppendRange
      <4>3. /\ C!Range(reports) = P!Range(reports) /\ C!Range(reports') = P!Range(reports')
            /\ C!IsInjective(reports) = P!IsInjective(reports) /\ C!IsInjective(reports') = P!IsInjective(reports')
        BY DEF C!Range, P!Range, C!IsInjective, P!IsInjective
      <4>4. P!IsInjective(reports) /\ n \notin P!Range(reports) BY <1>4, <2>5 DEF WatchInv, P!ToldOnce
      <4>5. reports' \in Seq(P!Procs) BY <4>1, <4>2 DEF D
      <4>6. P!Range(reports') = P!Range(reports) \cup {n} BY <4>1, <4>2, <4>3
      <4>7. P!IsInjective(reports') BY <4>1, <4>2, <4>3, <4>4
      <4> QED BY <4>5, <4>6, <4>7
    <3> QED BY <3>1, <3>2
  <2>7. P!TypeOK' BY <1>4, <2>2, <2>3, <2>6 DEF P!TypeOK
  <2>8. WatchInv'
    <3>1. \A m \in P!Procs' : P!Alive(m)' => procs'[m].watch = "watches" /\ running'[procs'[m].fact.skill] = m
      BY <1>4, <2>2, <2>3, <2>4 DEF WatchInv
    <3>2. \A m \in P!Range(reports') : procs'[m].watch = "over"
      BY <1>4, <2>4, <2>5, <2>6 DEF WatchInv
    <3>3. \A m \in P!Procs' : procs'[m].watch = "over" /\ ~procs'[m].asked /\ ~over' => m \in P!Range(reports')
      BY <1>4, <2>2, <2>3, <2>4, <2>6 DEF WatchInv, P!ToldOnce
    <3> QED BY <2>6, <3>1, <3>2, <3>3 DEF WatchInv, P!ToldOnce
  <2> QED BY <2>3, <2>7, <2>8 DEF ProcessesInv
<1> QED BY <1>1, <1>5, <1>6, <1>7, <1>8

\* The life enables a skill: what the task took up stands.
LEMMA EnableKeeps == ASSUME ProcessesInv, NEW fact \in P!Facts, P!Enable(fact) PROVE ProcessesInv'
<1>1. /\ said \in Seq(P!Facts) /\ Len(said) \in Nat /\ P!Taken \in Nat
      /\ player.replayed \in 0 .. Len(said) /\ player.read \in 0 .. Len(said) /\ player.at \in P!Phases
      /\ player.todo \in Seq(P!Facts)
      /\ player = [at |-> player.at, todo |-> player.todo, replayed |-> player.replayed, read |-> player.read]
  BY ProcessTypes
<1>2. said' = Append(said, fact) /\ UNCHANGED <<over, player, running, procs, reports>>
  BY DEF P!Enable
<1>3. P!TypeOK /\ TaskInv /\ WatchInv BY DEF ProcessesInv
<1>4. said' \in Seq(P!Facts) /\ Len(said') = Len(said) + 1 /\ \A n \in 1 .. Len(said) : said'[n] = said[n]
  BY <1>1, <1>2, AppendProperties
<1>5. P!Taken' = P!Taken /\ P!Taken <= Len(said) BY <1>2, <1>3 DEF P!Taken, TaskInv
<1>6. P!Procs' = P!Procs BY <1>2 DEF P!Procs
<1>7. P!TypeOK'
  <2>1. player' \in [at : P!Phases, todo : Seq(P!Facts), replayed : 0 .. Len(said'), read : 0 .. Len(said')]
    BY <1>1, <1>2, <1>4
  <2> QED BY <1>2, <1>3, <1>4, <1>6, <2>1 DEF P!TypeOK
<1>8. \A n \in 1 .. P!Taken : said'[n] = said[n] /\ (LastAt(n) => LastAt(n)')
  <2>1. \A n \in 1 .. P!Taken : n \in 1 .. Len(said) /\ n + 1 .. P!Taken \subseteq 1 .. Len(said) BY <1>1, <1>5
  <2> QED BY <1>4, <1>5, <2>1 DEF LastAt
<1>9. TaskInv'
  <2>1. \A s : Awaited(s)' <=> Awaited(s) BY <1>2 DEF Awaited
  <2>2. \A k \in DOMAIN player'.todo : \E n \in 1 .. P!Taken' : LastAt(n)' /\ player'.todo[k] = said'[n]
    <3> TAKE k \in DOMAIN player'.todo
    <3>1. PICK n \in 1 .. P!Taken : LastAt(n) /\ player.todo[k] = said[n] BY <1>2, <1>3 DEF TaskInv
    <3> QED BY <1>2, <1>5, <1>8, <3>1
  <2>3. ASSUME NEW s \in Skills, running'[s] # 0
        PROVE  /\ procs'[running'[s]].fact.skill = s
               /\ Awaited(s)' \/ \E n \in 1 .. P!Taken' : LastAt(n)' /\ procs'[running'[s]].fact = said'[n]
    <3>1. /\ procs[running[s]].fact.skill = s
          /\ Awaited(s) \/ \E n \in 1 .. P!Taken : LastAt(n) /\ procs[running[s]].fact = said[n]
      BY <1>2, <1>3, <2>3 DEF TaskInv
    <3>2. ASSUME NEW n \in 1 .. P!Taken, LastAt(n), procs[running[s]].fact = said[n]
          PROVE  \E m \in 1 .. P!Taken' : LastAt(m)' /\ procs'[running'[s]].fact = said'[m]
      BY <1>2, <1>5, <1>8, <3>2
    <3> QED BY <1>2, <2>1, <3>1, <3>2
  <2>4. P!Taken' <= Len(said') BY <1>1, <1>4, <1>5
  <2> QED BY <1>2, <1>3, <1>5, <2>2, <2>3, <2>4 DEF TaskInv
<1>10. WatchInv' BY <1>2, <1>3, <1>6 DEF WatchInv, P!Alive, P!ToldOnce
<1> QED BY <1>7, <1>9, <1>10 DEF ProcessesInv

\* The task takes up the facts at the tip.
LEMMA TipKeeps == ASSUME ProcessesInv, P!Tip PROVE ProcessesInv'
<1>1. /\ said \in Seq(P!Facts) /\ Len(said) \in Nat /\ Len(procs) \in Nat /\ P!Taken \in Nat
      /\ player.replayed \in 0 .. Len(said) /\ player.read \in 0 .. Len(said)
      /\ player = [at |-> player.at, todo |-> player.todo, replayed |-> player.replayed, read |-> player.read]
  BY ProcessTypes
<1>2. P!TypeOK /\ TaskInv /\ WatchInv BY DEF ProcessesInv
<1>3. player.at = "opens" /\ UNCHANGED <<said, over, running, procs, reports>> BY DEF P!Tip
<1>4. player.todo = <<>> /\ P!Taken = 0 /\ Len(procs) = 0
  <2>1. player.todo = <<>> /\ P!Taken = 0 BY <1>2, <1>3 DEF TaskInv
  <2>2. Len(player.todo) = 0 BY <2>1
  <2>3. Len(procs) + Len(player.todo) <= 0 BY <1>2, <2>1 DEF TaskInv
  <2> QED BY <1>1, <2>1, <2>2, <2>3
<1>5. player.read = 0 /\ player.replayed = 0 BY <1>1, <1>4 DEF P!Taken
<1>6. \A s \in Skills : running[s] = 0
  <2>1. running \in [Skills -> 0 .. Len(procs)] BY ProcessTypes
  <2> QED BY <1>4, <2>1
<1>7. WatchInv' BY <1>2, <1>3 DEF WatchInv, P!Alive, P!ToldOnce, P!Procs
<1>8. CASE over
  <2>1. player' = [player EXCEPT !.at = "gone"] BY <1>8 DEF P!Tip
  <2>2. player' = [at |-> "gone", todo |-> <<>>, replayed |-> 0, read |-> 0] BY <1>1, <1>4, <1>5, <2>1
  <2>3. P!Taken' = 0 BY <2>2 DEF P!Taken
  <2>4. TaskInv' BY <1>1, <1>3, <1>4, <1>6, <2>2, <2>3 DEF TaskInv
  <2>5. P!TypeOK'
    <3>1. player' \in [at : P!Phases, todo : Seq(P!Facts), replayed : 0 .. Len(said'), read : 0 .. Len(said')]
      <4>1. <<>> \in Seq(P!Facts) /\ 0 \in 0 .. Len(said') BY <1>1, <1>3, EmptySeq
      <4> QED BY <2>2, <4>1 DEF P!Phases
    <3> QED BY <1>2, <1>3, <3>1 DEF P!TypeOK, P!Procs
  <2> QED BY <1>7, <2>4, <2>5 DEF ProcessesInv
<1>9. CASE ~over
  <2> DEFINE named == P!Named(said)
  <2>1. /\ named \in Seq(P!Facts) /\ Len(named) <= Len(said)
        /\ \A k \in 1 .. Len(named) : \E n \in 1 .. Len(said) :
             named[k] = said[n] /\ \A m \in n + 1 .. Len(said) : said[m].skill # said[n].skill
    BY <1>1, NamedAreLast
  <2>2. player' = [player EXCEPT !.at = "tip", !.todo = named, !.replayed = Len(said)]
    BY <1>3, <1>9 DEF P!Tip, P!ReplayedOf
  <2> HIDE DEF named
  <2>3. player' = [at |-> "tip", todo |-> named, replayed |-> Len(said), read |-> 0] BY <1>1, <1>5, <2>2
  <2>4. P!Taken' = Len(said) BY <1>1, <2>3 DEF P!Taken
  <2>5. DOMAIN named = 1 .. Len(named) /\ Len(named) \in Nat BY <2>1
  <2>6. \A k \in DOMAIN named : \E n \in 1 .. P!Taken' : LastAt(n)' /\ named[k] = said'[n]
    <3> TAKE k \in DOMAIN named
    <3>1. PICK n \in 1 .. Len(said) : named[k] = said[n] /\ \A m \in n + 1 .. Len(said) : said[m].skill # said[n].skill
      BY <2>1, <2>5
    <3> QED BY <1>3, <2>4, <3>1 DEF LastAt
  <2>7. TaskInv' BY <1>1, <1>3, <1>4, <1>6, <2>1, <2>3, <2>4, <2>5, <2>6 DEF TaskInv
  <2>8. P!TypeOK'
    <3>1. player' \in [at : P!Phases, todo : Seq(P!Facts), replayed : 0 .. Len(said'), read : 0 .. Len(said')]
      <4>1. Len(said) \in 0 .. Len(said') /\ 0 \in 0 .. Len(said') BY <1>1, <1>3
      <4> QED BY <2>1, <2>3, <4>1 DEF P!Phases
    <3> QED BY <1>2, <1>3, <3>1 DEF P!TypeOK, P!Procs
  <2> QED BY <1>7, <2>7, <2>8 DEF ProcessesInv
<1> QED BY <1>8, <1>9

\* A process that is asked to end, before another one of its skill starts.
LEMMA StopKeeps == ASSUME ProcessesInv, P!Stop PROVE ProcessesInv'
<1>1. /\ procs \in Seq(P!Forms) /\ P!Procs = 1 .. Len(procs) /\ running \in [Skills -> 0 .. Len(procs)] /\ Len(procs) \in Nat
      /\ reports \in Seq(P!Procs) /\ player.todo \in Seq(P!Facts)
  BY ProcessTypes
<1>2. P!TypeOK /\ WatchInv BY DEF ProcessesInv
<1> DEFINE n == running[player.todo[1].skill]
           p == [procs[n] EXCEPT !.asked = TRUE]
<1>3. player.todo # <<>> /\ n # 0 /\ procs' = [procs EXCEPT ![n].asked = TRUE] /\ UNCHANGED <<said, over, player, running, reports>>
  BY DEF P!Stop, P!AskEnd
<1>4. player.todo[1] \in P!Facts BY <1>1, <1>3
<1>5. n \in P!Procs
  <2>1. player.todo[1].skill \in Skills BY <1>4 DEF P!Facts
  <2> QED BY <1>1, <1>3, <2>1
<1>6. procs[n] \in P!Forms BY <1>1, <1>5, ElementOfSeq
<1> HIDE DEF n
<1>7. /\ p \in P!Forms /\ p.fact = procs[n].fact /\ p.watch = procs[n].watch /\ p.asked = TRUE
      /\ p.group = procs[n].group /\ p.child = procs[n].child
  BY <1>6 DEF P!Forms
<1>8. procs' = [procs EXCEPT ![n] = p] BY <1>3
<1> HIDE DEF p
<1>9. /\ procs' \in Seq(P!Forms) /\ P!Procs' = P!Procs /\ Len(procs') = Len(procs)
      /\ procs'[n] = p /\ (\A m \in P!Procs : m # n => procs'[m] = procs[m]) /\ TaskInv'
      /\ \A m \in P!Procs : procs'[m].fact = procs[m].fact
  BY <1>3, <1>5, <1>7, <1>8, ProcessChanges
<1>10. P!TypeOK' BY <1>2, <1>3, <1>9 DEF P!TypeOK
<1>11. \A m \in P!Procs : /\ procs'[m].watch = procs[m].watch /\ P!Alive(m)' = P!Alive(m)
                          /\ (~procs'[m].asked => ~procs[m].asked)
  BY <1>7, <1>9 DEF P!Alive
<1>12. \A m \in P!Range(reports) : m \in P!Procs BY <1>1, ElementOfSeq DEF P!Range
<1>13. WatchInv' BY <1>2, <1>3, <1>9, <1>11, <1>12 DEF WatchInv, P!ToldOnce
<1> QED BY <1>9, <1>10, <1>13 DEF ProcessesInv

\* The task goes on, and its process is no more, once its watch is over.
LEMMA StoppedKeeps == ASSUME ProcessesInv, P!Stopped PROVE ProcessesInv'
<1>1. /\ procs \in Seq(P!Forms) /\ P!Procs = 1 .. Len(procs) /\ running \in [Skills -> 0 .. Len(procs)] /\ Len(procs) \in Nat
      /\ player.todo \in Seq(P!Facts)
  BY ProcessTypes
<1>2. P!TypeOK /\ TaskInv /\ WatchInv BY DEF ProcessesInv
<1> DEFINE s == player.todo[1].skill
           n == running[s]
<1>3. /\ player.todo # <<>> /\ n # 0 /\ procs[n].watch = "over" /\ running' = [running EXCEPT ![s] = 0]
      /\ UNCHANGED <<said, over, player, procs, reports>>
  BY DEF P!Stopped
<1> HIDE DEF s
<1>4. /\ running' \in [Skills -> 0 .. Len(procs)] /\ (\A t \in Skills : running'[t] # 0 => running'[t] = running[t])
      /\ \A t \in Skills : t # s => running'[t] = running[t]
  <2>1. 0 \in 0 .. Len(procs) /\ running' = [running EXCEPT ![s] = 0] /\ running \in [Skills -> 0 .. Len(procs)]
    BY <1>1, <1>3
  <2>2. running' \in [Skills -> 0 .. Len(procs)] BY <2>1
  <2>3. \A t \in Skills : running'[t] = IF t = s THEN 0 ELSE running[t] BY <2>1
  <2> QED BY <2>2, <2>3
<1>5. P!Procs' = P!Procs /\ P!Taken' = P!Taken /\ (\A k : LastAt(k)' <=> LastAt(k)) /\ (\A t : Awaited(t)' <=> Awaited(t))
  BY <1>3 DEF P!Procs, P!Taken, LastAt, Awaited
<1>6. P!TypeOK' BY <1>2, <1>3, <1>4, <1>5 DEF P!TypeOK
<1>7. TaskInv'
  <2>1. \A k \in DOMAIN player'.todo : \E m \in 1 .. P!Taken' : LastAt(m)' /\ player'.todo[k] = said'[m]
    BY <1>2, <1>3, <1>5 DEF TaskInv
  <2>2. ASSUME NEW t \in Skills, running'[t] # 0
        PROVE  /\ procs'[running'[t]].fact.skill = t
               /\ Awaited(t)' \/ \E k \in 1 .. P!Taken' : LastAt(k)' /\ procs'[running'[t]].fact = said'[k]
    <3>1. running'[t] = running[t] /\ running[t] # 0 BY <1>4, <2>2
    <3>2. /\ procs[running[t]].fact.skill = t
          /\ Awaited(t) \/ \E k \in 1 .. P!Taken : LastAt(k) /\ procs[running[t]].fact = said[k]
      BY <1>2, <3>1 DEF TaskInv
    <3> QED BY <1>3, <1>5, <3>1, <3>2
  <2>3. player'.at = "gone" => \A t \in Skills : running'[t] = 0
    BY <1>2, <1>3, <1>4 DEF TaskInv
  <2> QED BY <1>2, <1>3, <1>5, <2>1, <2>2, <2>3 DEF TaskInv
<1>8. WatchInv'
  <2>1. ASSUME NEW m \in P!Procs, P!Alive(m) PROVE procs[m].watch = "watches" /\ running'[procs[m].fact.skill] = m
    <3>1. procs[m].watch = "watches" /\ running[procs[m].fact.skill] = m BY <1>2, <2>1 DEF WatchInv
    <3>2. procs[m] \in P!Forms BY <1>1, ElementOfSeq
    <3>3. procs[m].fact.skill \in Skills BY <3>2 DEF P!Forms, P!Facts
    <3>4. procs[m].fact.skill # s BY <1>3, <3>1
    <3> QED BY <1>4, <3>1, <3>3, <3>4
  <2> QED BY <1>2, <1>3, <1>5, <2>1 DEF WatchInv, P!Alive, P!ToldOnce
<1> QED BY <1>6, <1>7, <1>8 DEF ProcessesInv

\* The facts that are still to start after the first of them.
LEMMA RestOf ==
  ASSUME NEW D, NEW s \in Seq(D), s # <<>>
  PROVE  /\ Len(s) \in Nat \ {0} /\ s[1] \in D /\ Tail(s) \in Seq(D) /\ Len(Tail(s)) = Len(s) - 1
         /\ DOMAIN Tail(s) = 1 .. Len(s) - 1
         /\ \A k \in 1 .. Len(s) - 1 : k + 1 \in 1 .. Len(s) /\ Tail(s)[k] = s[k + 1]
         /\ \A k \in 1 .. Len(s) : k = 1 \/ (k - 1 \in 1 .. Len(s) - 1 /\ s[k] = Tail(s)[k - 1])
<1>1. Len(s) \in Nat \ {0} BY EmptySeq
<1>2. /\ Tail(s) \in Seq(D) /\ Len(Tail(s)) = Len(s) - 1 /\ \A k \in 1 .. Len(s) - 1 : Tail(s)[k] = s[k + 1]
  BY HeadTailProperties
<1>3. DOMAIN Tail(s) = 1 .. Len(s) - 1 BY <1>1, <1>2
<1>4. \A k \in 1 .. Len(s) - 1 : k + 1 \in 1 .. Len(s) BY <1>1
<1>5. s[1] \in D BY <1>1, ElementOfSeq
<1>6. ASSUME NEW k \in 1 .. Len(s), k # 1 PROVE k - 1 \in 1 .. Len(s) - 1 /\ s[k] = Tail(s)[k - 1]
  <2>1. k - 1 \in 1 .. Len(s) - 1 /\ (k - 1) + 1 = k BY <1>1, <1>6
  <2> QED BY <1>2, <2>1
<1> QED BY <1>1, <1>2, <1>3, <1>4, <1>5, <1>6

\* The task starts the process of a fact, or has none to start.
LEMMA StartKeeps == ASSUME ProcessesInv, P!Start PROVE ProcessesInv'
<1>1. /\ procs \in Seq(P!Forms) /\ P!Procs = 1 .. Len(procs) /\ running \in [Skills -> 0 .. Len(procs)] /\ Len(procs) \in Nat
      /\ reports \in Seq(P!Procs) /\ player.todo \in Seq(P!Facts) /\ player.at \in P!Phases /\ P!Taken \in Nat
      /\ Len(said) \in Nat /\ player.replayed \in 0 .. Len(said) /\ player.read \in 0 .. Len(said)
      /\ player = [at |-> player.at, todo |-> player.todo, replayed |-> player.replayed, read |-> player.read]
  BY ProcessTypes
<1>2. P!TypeOK /\ TaskInv /\ WatchInv BY DEF ProcessesInv
<1> DEFINE fact == player.todo[1]
<1>3. /\ player.todo # <<>> /\ running[fact.skill] = 0 /\ player' = [player EXCEPT !.todo = Tail(player.todo)]
      /\ P!Spawn(fact) \/ UNCHANGED <<running, procs>>
      /\ UNCHANGED <<said, over, reports>>
  BY DEF P!Start, P!MayStart
<1>4. /\ Len(player.todo) \in Nat \ {0} /\ fact \in P!Facts /\ Tail(player.todo) \in Seq(P!Facts)
      /\ Len(Tail(player.todo)) = Len(player.todo) - 1 /\ DOMAIN Tail(player.todo) = 1 .. Len(player.todo) - 1
      /\ \A k \in 1 .. Len(player.todo) - 1 : k + 1 \in 1 .. Len(player.todo) /\ Tail(player.todo)[k] = player.todo[k + 1]
      /\ \A k \in 1 .. Len(player.todo) :
           k = 1 \/ (k - 1 \in 1 .. Len(player.todo) - 1 /\ player.todo[k] = Tail(player.todo)[k - 1])
  BY <1>1, <1>3, RestOf
<1>5. DOMAIN player.todo = 1 .. Len(player.todo) BY <1>1
<1>6. player' = [at |-> player.at, todo |-> Tail(player.todo), replayed |-> player.replayed, read |-> player.read]
  BY <1>1, <1>3
<1>7. P!Taken' = P!Taken /\ (\A k : LastAt(k)' <=> LastAt(k)) BY <1>3, <1>6 DEF P!Taken, LastAt
<1>8. \A s : Awaited(s) => s = fact.skill \/ Awaited(s)'
  <2> SUFFICES ASSUME NEW s, NEW k \in DOMAIN player.todo, player.todo[k].skill = s, s # fact.skill PROVE Awaited(s)'
    BY DEF Awaited
  <2>1. k - 1 \in 1 .. Len(player.todo) - 1 /\ player.todo[k] = Tail(player.todo)[k - 1] BY <1>4, <1>5
  <2> QED BY <1>4, <1>6, <2>1 DEF Awaited
<1>9. \A k \in DOMAIN player'.todo : \E n \in 1 .. P!Taken' : LastAt(n)' /\ player'.todo[k] = said'[n]
  <2> TAKE k \in DOMAIN player'.todo
  <2>1. k + 1 \in DOMAIN player.todo /\ player'.todo[k] = player.todo[k + 1] BY <1>4, <1>5, <1>6
  <2>2. PICK n \in 1 .. P!Taken : LastAt(n) /\ player.todo[k + 1] = said[n] BY <1>2, <2>1 DEF TaskInv
  <2> QED BY <1>3, <1>7, <2>1, <2>2
<1>10. player' \in [at : P!Phases, todo : Seq(P!Facts), replayed : 0 .. Len(said'), read : 0 .. Len(said')]
  BY <1>1, <1>3, <1>4, <1>6
<1>11. /\ P!Taken' <= Len(said') /\ player'.at = player.at /\ player'.at \notin {"opens", "ends", "gone"}
       /\ Len(procs) + 1 + Len(player'.todo) <= P!Taken'
  <2>1. player.at \notin {"opens", "ends", "gone"} BY <1>2, <1>3 DEF TaskInv
  <2>2. P!Taken <= Len(said) /\ Len(procs) + Len(player.todo) <= P!Taken BY <1>2 DEF TaskInv
  <2>3. player'.at = player.at /\ player'.todo = Tail(player.todo) BY <1>6
  <2>4. Len(procs) + 1 + (Len(player.todo) - 1) <= P!Taken BY <1>1, <1>4, <2>2
  <2> QED BY <1>3, <1>4, <1>7, <2>1, <2>2, <2>3, <2>4
<1>12. ASSUME NEW s \in Skills, running[s] # 0, s # fact.skill
       PROVE  /\ running[s] \in P!Procs /\ procs[running[s]].fact.skill = s
              /\ Awaited(s)' \/ \E n \in 1 .. P!Taken' : LastAt(n)' /\ procs[running[s]].fact = said'[n]
  <2>1. /\ procs[running[s]].fact.skill = s
        /\ Awaited(s) \/ \E n \in 1 .. P!Taken : LastAt(n) /\ procs[running[s]].fact = said[n]
    BY <1>2, <1>12 DEF TaskInv
  <2>2. running[s] \in P!Procs BY <1>1, <1>12
  <2>3. ASSUME NEW n \in 1 .. P!Taken, LastAt(n), procs[running[s]].fact = said[n]
        PROVE  \E m \in 1 .. P!Taken' : LastAt(m)' /\ procs[running[s]].fact = said'[m]
    BY <1>3, <1>7, <2>3
  <2> QED BY <1>8, <1>12, <2>1, <2>2, <2>3
<1>13. PICK newest \in 1 .. P!Taken : LastAt(newest) /\ fact = said[newest]
  <2>1. 1 \in DOMAIN player.todo BY <1>4, <1>5
  <2> QED BY <1>2, <2>1 DEF TaskInv
<1> HIDE DEF fact
<1>14. CASE UNCHANGED <<running, procs>>
  <2>1. P!Procs' = P!Procs BY <1>14 DEF P!Procs
  <2>2. P!TypeOK' BY <1>2, <1>3, <1>10, <1>14, <2>1 DEF P!TypeOK
  <2>3. \A s \in Skills : running[s] # 0 => s # fact.skill BY <1>3
  <2>4. ASSUME NEW s \in Skills, running'[s] # 0
        PROVE  /\ procs'[running'[s]].fact.skill = s
               /\ Awaited(s)' \/ \E n \in 1 .. P!Taken' : LastAt(n)' /\ procs'[running'[s]].fact = said'[n]
    BY <1>12, <1>14, <2>3, <2>4
  <2>5. Len(procs') + Len(player'.todo) <= P!Taken'
    <3>1. Len(player'.todo) \in Nat /\ P!Taken' \in Nat BY <1>1, <1>4, <1>6, <1>7
    <3> DEFINE a == Len(procs)
               b == Len(player'.todo)
               t == P!Taken'
    <3>2. a \in Nat /\ b \in Nat /\ t \in Nat /\ a + 1 + b <= t BY <1>1, <1>11, <3>1
    <3>3. Len(procs') = a BY <1>14
    <3> HIDE DEF a, b, t
    <3>4. a + b <= t BY <3>2
    <3> QED BY <3>3, <3>4 DEF b, t
  <2>6. TaskInv' BY <1>9, <1>11, <2>4, <2>5 DEF TaskInv
  <2>7. WatchInv' BY <1>2, <1>3, <1>14, <2>1 DEF WatchInv, P!Alive, P!ToldOnce
  <2> QED BY <2>2, <2>6, <2>7 DEF ProcessesInv
<1>15. CASE P!Spawn(fact)
  <2> DEFINE one == [fact |-> fact, child |-> TRUE, group |-> TRUE, asked |-> FALSE, watch |-> "watches"]
             new == Len(procs) + 1
  <2>1. one \in P!Forms /\ one.fact = fact /\ one.watch = "watches" BY <1>4 DEF P!Forms, P!Watch
  <2>2. procs' = Append(procs, one) /\ running' = [running EXCEPT ![fact.skill] = Len(procs')]
    BY <1>15 DEF P!Spawn
  <2> HIDE DEF one
  <2>3. /\ procs' \in Seq(P!Forms) /\ Len(procs') = new /\ procs'[new] = one
        /\ \A m \in P!Procs : procs'[m] = procs[m]
    BY <1>1, <2>1, <2>2, AppendProperties
  <2>4. P!Procs' = P!Procs \cup {new} /\ new \notin P!Procs /\ new # 0
    <3>1. P!Procs' = 1 .. new BY <2>3 DEF P!Procs
    <3> QED BY <1>1, <3>1
  <2>5. /\ running' \in [Skills -> 0 .. new] /\ \A s \in Skills : running'[s] = IF s = fact.skill THEN new ELSE running[s]
    <3>1. fact.skill \in Skills BY <1>4 DEF P!Facts
    <3>2. 0 .. Len(procs) \subseteq 0 .. new /\ new \in 0 .. new BY <1>1
    <3>3. running \in [Skills -> 0 .. Len(procs)] /\ running' = [running EXCEPT ![fact.skill] = new] BY <1>1, <2>2, <2>3
    <3> HIDE DEF new
    <3> QED BY <3>1, <3>2, <3>3
  <2>6. reports' \in Seq(P!Procs')
    <3> DEFINE D == P!Procs
               T == P!Procs \cup {new}
    <3>1. reports \in Seq(D) /\ D \subseteq T BY <1>1
    <3> HIDE DEF D, T
    <3>2. reports \in Seq(T) BY <3>1, SeqsGrow
    <3> QED BY <1>3, <2>4, <3>2 DEF T
  <2>7. P!TypeOK' BY <1>2, <1>3, <1>10, <2>3, <2>5, <2>6 DEF P!TypeOK
  <2>8. ASSUME NEW s \in Skills, running'[s] # 0
        PROVE  /\ procs'[running'[s]].fact.skill = s
               /\ Awaited(s)' \/ \E n \in 1 .. P!Taken' : LastAt(n)' /\ procs'[running'[s]].fact = said'[n]
    <3>1. CASE s = fact.skill
      <4>1. procs'[running'[s]] = one BY <2>3, <2>5, <3>1
      <4>2. newest \in 1 .. P!Taken' /\ LastAt(newest)' /\ one.fact = said'[newest] BY <1>3, <1>7, <1>13, <2>1
      <4> QED BY <2>1, <3>1, <4>1, <4>2
    <3>2. CASE s # fact.skill
      <4>1. running'[s] = running[s] /\ running[s] # 0 BY <2>5, <2>8, <3>2
      <4>2. /\ running[s] \in P!Procs /\ procs[running[s]].fact.skill = s
            /\ Awaited(s)' \/ \E n \in 1 .. P!Taken' : LastAt(n)' /\ procs[running[s]].fact = said'[n]
        BY <1>12, <3>2, <4>1
      <4>3. procs'[running'[s]] = procs[running[s]] BY <2>3, <4>1, <4>2
      <4> QED BY <4>2, <4>3
    <3> QED BY <3>1, <3>2
  <2>9. TaskInv' BY <1>9, <1>11, <2>3, <2>8 DEF TaskInv
  <2>10. WatchInv'
    <3>1. ASSUME NEW m \in P!Procs', P!Alive(m)' PROVE procs'[m].watch = "watches" /\ running'[procs'[m].fact.skill] = m
      <4>1. CASE m = new
        <5>1. procs'[m].fact.skill \in Skills /\ procs'[m].fact = fact BY <1>4, <2>1, <2>3, <4>1 DEF P!Facts
        <5> QED BY <2>1, <2>3, <2>5, <4>1, <5>1
      <4>2. CASE m # new
        <5>1. m \in P!Procs /\ procs'[m] = procs[m] BY <2>3, <2>4, <4>2
        <5>2. P!Alive(m) BY <3>1, <5>1 DEF P!Alive
        <5>3. procs[m].watch = "watches" /\ running[procs[m].fact.skill] = m BY <1>2, <5>1, <5>2 DEF WatchInv
        <5>4. procs[m] \in P!Forms BY <1>1, <5>1, ElementOfSeq
        <5>5. procs[m].fact.skill \in Skills BY <5>4 DEF P!Forms, P!Facts
        <5>6. procs[m].fact.skill # fact.skill BY <1>1, <1>3, <5>1, <5>3
        <5> QED BY <2>5, <5>1, <5>3, <5>5, <5>6
      <4> QED BY <4>1, <4>2
    <3>2. \A m \in P!Range(reports) : m \in P!Procs BY <1>1, ElementOfSeq DEF P!Range
    <3>3. \A m \in P!Range(reports') : procs'[m].watch = "over" BY <1>2, <1>3, <2>3, <3>2 DEF WatchInv
    <3>4. \A m \in P!Procs' : procs'[m].watch = "over" /\ ~procs'[m].asked /\ ~over' => m \in P!Range(reports')
      <4> TAKE m \in P!Procs'
      <4>1. CASE m = new BY <2>1, <2>3, <4>1
      <4>2. CASE m # new BY <1>2, <1>3, <2>3, <2>4, <4>2 DEF WatchInv, P!ToldOnce
      <4> QED BY <4>1, <4>2
    <3>5. P!IsInjective(reports') BY <1>2, <1>3 DEF WatchInv, P!ToldOnce
    <3> QED BY <3>1, <3>3, <3>4, <3>5 DEF WatchInv, P!ToldOnce
  <2> QED BY <2>7, <2>9, <2>10 DEF ProcessesInv
<1> QED BY <1>3, <1>14, <1>15

\* The task reads a fact of the log: one of the tip again, or one after it, which is the last of its skill.
LEMMA ReadKeeps == ASSUME ProcessesInv, P!Read PROVE ProcessesInv'
<1>1. /\ procs \in Seq(P!Forms) /\ running \in [Skills -> 0 .. Len(procs)] /\ Len(procs) \in Nat
      /\ said \in Seq(P!Facts) /\ Len(said) \in Nat /\ player.replayed \in 0 .. Len(said) /\ player.read \in 0 .. Len(said)
      /\ player = [at |-> player.at, todo |-> player.todo, replayed |-> player.replayed, read |-> player.read]
  BY ProcessTypes
<1>2. P!TypeOK /\ TaskInv /\ WatchInv BY DEF ProcessesInv
<1>3. /\ player.at = "log" /\ player.todo = <<>> /\ player.read < Len(said)
      /\ UNCHANGED <<said, over, running, procs, reports>>
  BY DEF P!Read
<1>4. P!Procs' = P!Procs BY <1>3 DEF P!Procs
<1>5. WatchInv' BY <1>2, <1>3, <1>4 DEF WatchInv, P!Alive, P!ToldOnce
<1>6. P!Taken = player.read + player.replayed BY DEF P!Taken
<1>7. Len(procs) <= P!Taken /\ P!Taken <= Len(said)
  <2>1. Len(player.todo) = 0 BY <1>3
  <2> QED BY <1>1, <1>2, <2>1 DEF TaskInv
<1>8. \A s : ~Awaited(s) BY <1>3 DEF Awaited
<1>9. ASSUME NEW s \in Skills, running[s] # 0
      PROVE  /\ procs[running[s]].fact.skill = s
             /\ \E n \in 1 .. P!Taken : LastAt(n) /\ procs[running[s]].fact = said[n]
  BY <1>2, <1>8, <1>9 DEF TaskInv
<1>10. CASE player.replayed > 0
  <2>1. player' = [player EXCEPT !.read = player.read + 1, !.replayed = player.replayed - 1]
    BY <1>10 DEF P!Read
  <2>2. player' = [at |-> "log", todo |-> <<>>, replayed |-> player.replayed - 1, read |-> player.read + 1]
    BY <1>1, <1>3, <2>1
  <2>3. P!Taken' = P!Taken BY <1>1, <1>6, <2>2 DEF P!Taken
  <2>4. \A k : LastAt(k)' <=> LastAt(k) BY <1>3, <2>3 DEF LastAt
  <2>5. P!TypeOK'
    <3>1. player' \in [at : P!Phases, todo : Seq(P!Facts), replayed : 0 .. Len(said'), read : 0 .. Len(said')]
      <4>1. <<>> \in Seq(P!Facts) BY EmptySeq
      <4>2. player.replayed - 1 \in 0 .. Len(said) /\ player.read + 1 \in 0 .. Len(said) BY <1>1, <1>3, <1>10
      <4> QED BY <1>3, <2>2, <4>1, <4>2 DEF P!Phases
    <3> QED BY <1>2, <1>3, <1>4, <3>1 DEF P!TypeOK
  <2>6. ASSUME NEW s \in Skills, running'[s] # 0
        PROVE  /\ procs'[running'[s]].fact.skill = s
               /\ Awaited(s)' \/ \E n \in 1 .. P!Taken' : LastAt(n)' /\ procs'[running'[s]].fact = said'[n]
    <3>1. /\ procs[running[s]].fact.skill = s
          /\ \E n \in 1 .. P!Taken : LastAt(n) /\ procs[running[s]].fact = said[n]
      BY <1>3, <1>9, <2>6
    <3> QED BY <1>3, <2>3, <2>4, <3>1
  <2>7. Len(player'.todo) = 0 /\ player'.todo = <<>> /\ player'.at = "log" BY <2>2
  <2>8. TaskInv'
    <3>1. P!Taken' <= Len(said') /\ Len(procs') + Len(player'.todo) <= P!Taken' BY <1>1, <1>3, <1>7, <2>3, <2>7
    <3> QED BY <2>6, <2>7, <3>1 DEF TaskInv
  <2> QED BY <1>5, <2>5, <2>8 DEF ProcessesInv
<1>11. CASE ~(player.replayed > 0)
  <2>0. player.replayed = 0 BY <1>1, <1>11
  <2> PICK new \in Nat : new = player.read + 1 BY <1>1
  <2> PICK fact : fact = said[new] OBVIOUS
  <2>1. player' = [player EXCEPT !.read = new, !.todo = <<fact>>]
    <3>1. player.read \in Int BY <1>1
    <3> QED BY <1>11, <2>0 DEF P!Read
  <2>2. player' = [at |-> "log", todo |-> <<fact>>, replayed |-> 0, read |-> new]
    BY <1>1, <1>3, <2>0, <2>1
  <2>3. P!Taken' = new /\ P!Taken = player.read BY <1>1, <1>6, <2>0, <2>2 DEF P!Taken
  <2>4. new \in 1 .. Len(said) /\ fact \in P!Facts
    <3>1. new \in 1 .. Len(said) BY <1>1, <1>3
    <3> QED BY <1>1, <3>1, ElementOfSeq
  <2>5. P!TypeOK'
    <3>1. player' \in [at : P!Phases, todo : Seq(P!Facts), replayed : 0 .. Len(said'), read : 0 .. Len(said')]
      <4>1. <<fact>> \in Seq(P!Facts) BY <2>4
      <4>2. 0 \in 0 .. Len(said) /\ new \in 0 .. Len(said) BY <1>1, <2>4
      <4> QED BY <1>3, <2>2, <4>1, <4>2 DEF P!Phases
    <3> QED BY <1>2, <1>3, <1>4, <3>1 DEF P!TypeOK
  <2>6. player'.at = "log" /\ Len(player'.todo) = 1 /\ DOMAIN player'.todo = {1} /\ player'.todo[1] = fact
    BY <2>2
  <2>7. LastAt(new)'
    <3>1. new + 1 .. P!Taken' = {} /\ new \in 1 .. P!Taken' BY <1>1, <2>3, <2>4
    <3> QED BY <3>1 DEF LastAt
  <2>8. \A k \in DOMAIN player'.todo : \E n \in 1 .. P!Taken' : LastAt(n)' /\ player'.todo[k] = said'[n]
    <3>1. new \in 1 .. P!Taken' BY <2>3, <2>4
    <3> QED BY <1>3, <2>6, <2>7, <3>1
  <2>9. ASSUME NEW s \in Skills, running'[s] # 0
        PROVE  /\ procs'[running'[s]].fact.skill = s
               /\ Awaited(s)' \/ \E n \in 1 .. P!Taken' : LastAt(n)' /\ procs'[running'[s]].fact = said'[n]
    <3>1. PICK n \in 1 .. P!Taken : LastAt(n) /\ procs[running[s]].fact = said[n] BY <1>3, <1>9, <2>9
    <3>2. procs[running[s]].fact.skill = s BY <1>3, <1>9, <2>9
    <3>3. CASE fact.skill = s BY <1>3, <2>6, <3>2, <3>3 DEF Awaited
    <3>4. CASE fact.skill # s
      <4>1. n \in 1 .. P!Taken' BY <1>1, <2>3
      <4>2. \A m \in n + 1 .. P!Taken' : said[m].skill # s
        <5> TAKE m \in n + 1 .. P!Taken'
        <5>1. m = new \/ m \in n + 1 .. P!Taken BY <1>1, <2>3
        <5> QED BY <3>1, <3>2, <3>4, <5>1 DEF LastAt
      <4>3. LastAt(n)' BY <1>3, <3>1, <3>2, <4>1, <4>2 DEF LastAt
      <4> QED BY <1>3, <3>1, <3>2, <4>1, <4>3
    <3> QED BY <3>3, <3>4
  <2>10. P!Taken' <= Len(said') /\ Len(procs') + Len(player'.todo) <= P!Taken'
    BY <1>1, <1>3, <1>7, <2>3, <2>4, <2>6
  <2>11. TaskInv' BY <2>6, <2>8, <2>9, <2>10 DEF TaskInv
  <2> QED BY <1>5, <2>5, <2>11 DEF ProcessesInv
<1> QED BY <1>10, <1>11

\* The life ended: each process that runs is asked to end.
LEMMA ReadEndKeeps == ASSUME ProcessesInv, P!ReadEnd PROVE ProcessesInv'
<1>1. /\ procs \in Seq(P!Forms) /\ P!Procs = 1 .. Len(procs) /\ running \in [Skills -> 0 .. Len(procs)] /\ Len(procs) \in Nat
      /\ reports \in Seq(P!Procs)
      /\ Len(said) \in Nat /\ player.replayed \in 0 .. Len(said) /\ player.read \in 0 .. Len(said)
      /\ player = [at |-> player.at, todo |-> player.todo, replayed |-> player.replayed, read |-> player.read]
  BY ProcessTypes
<1>2. P!TypeOK /\ TaskInv /\ WatchInv BY DEF ProcessesInv
<1> DEFINE P1(n) == [procs[n] EXCEPT !.asked = procs[n].asked \/ n \in P!Range(running)]
<1>3. /\ player.at = "log" /\ player.todo = <<>> /\ player' = [player EXCEPT !.at = "ends"]
      /\ procs' = [n \in P!Procs |-> P1(n)] /\ UNCHANGED <<said, over, running, reports>> /\ over
  BY DEF P!ReadEnd
<1>4. ASSUME NEW n \in P!Procs
      PROVE  /\ P1(n) \in P!Forms /\ P1(n).fact = procs[n].fact /\ P1(n).watch = procs[n].watch
             /\ P1(n).child = procs[n].child /\ P1(n).group = procs[n].group
  <2>1. procs[n] \in P!Forms BY <1>1, <1>4, ElementOfSeq
  <2> QED BY <2>1 DEF P!Forms
<1> HIDE DEF P1
<1>5. procs' \in Seq(P!Forms) /\ Len(procs') = Len(procs) /\ \A n \in P!Procs : procs'[n] = P1(n)
  <2>1. procs' = [n \in 1 .. Len(procs) |-> P1(n)] BY <1>1, <1>3
  <2>2. \A n \in 1 .. Len(procs) : P1(n) \in P!Forms BY <1>1, <1>4
  <2> QED BY <1>1, <2>1, <2>2, IsASeq
<1>6. P!Procs' = P!Procs BY <1>1, <1>5 DEF P!Procs
<1>7. player' = [at |-> "ends", todo |-> <<>>, replayed |-> player.replayed, read |-> player.read] BY <1>1, <1>3
<1>8. P!Taken' = P!Taken /\ (\A k : LastAt(k)' <=> LastAt(k)) /\ \A s : ~Awaited(s)
  BY <1>3, <1>7 DEF P!Taken, LastAt, Awaited
<1>9. P!TypeOK'
  <2>1. player' \in [at : P!Phases, todo : Seq(P!Facts), replayed : 0 .. Len(said'), read : 0 .. Len(said')]
    <3>1. <<>> \in Seq(P!Facts) BY EmptySeq
    <3> QED BY <1>1, <1>3, <1>7, <3>1 DEF P!Phases
  <2> QED BY <1>2, <1>3, <1>5, <1>6, <2>1 DEF P!TypeOK
<1>10. TaskInv'
  <2>1. ASSUME NEW s \in Skills, running'[s] # 0
        PROVE  /\ procs'[running'[s]].fact.skill = s
               /\ Awaited(s)' \/ \E n \in 1 .. P!Taken' : LastAt(n)' /\ procs'[running'[s]].fact = said'[n]
    <3>1. running[s] \in P!Procs BY <1>1, <1>3, <2>1
    <3>2. procs'[running[s]].fact = procs[running[s]].fact BY <1>4, <1>5, <3>1
    <3>3. /\ procs[running[s]].fact.skill = s
          /\ \E n \in 1 .. P!Taken : LastAt(n) /\ procs[running[s]].fact = said[n]
      BY <1>2, <1>3, <1>8, <2>1 DEF TaskInv
    <3> QED BY <1>3, <1>8, <3>2, <3>3
  <2>2. Len(player'.todo) = Len(player.todo) /\ player'.todo = <<>> /\ player'.at = "ends" BY <1>3, <1>7
  <2>3. P!Taken' <= Len(said') /\ Len(procs') + Len(player'.todo) <= P!Taken'
    BY <1>2, <1>3, <1>5, <1>8, <2>2 DEF TaskInv
  <2> QED BY <2>1, <2>2, <2>3 DEF TaskInv
<1>11. WatchInv'
  <2>1. \A m \in P!Procs : procs'[m].watch = procs[m].watch /\ procs'[m].fact = procs[m].fact /\ (P!Alive(m)' <=> P!Alive(m))
    BY <1>4, <1>5 DEF P!Alive
  <2>2. \A m \in P!Range(reports) : m \in P!Procs BY <1>1, ElementOfSeq DEF P!Range
  <2> QED BY <1>2, <1>3, <1>6, <2>1, <2>2 DEF WatchInv, P!ToldOnce
<1> QED BY <1>9, <1>10, <1>11 DEF ProcessesInv

\* The task is gone once each process that ran is over.
LEMMA EndedKeeps == ASSUME ProcessesInv, P!Ended PROVE ProcessesInv'
<1>1. /\ procs \in Seq(P!Forms) /\ P!Procs = 1 .. Len(procs) /\ running \in [Skills -> 0 .. Len(procs)] /\ Len(procs) \in Nat
      /\ Len(said) \in Nat /\ player.replayed \in 0 .. Len(said) /\ player.read \in 0 .. Len(said)
      /\ player = [at |-> player.at, todo |-> player.todo, replayed |-> player.replayed, read |-> player.read]
  BY ProcessTypes
<1>2. P!TypeOK /\ TaskInv /\ WatchInv BY DEF ProcessesInv
<1>3. /\ player.at = "ends" /\ player' = [player EXCEPT !.at = "gone"] /\ running' = [s \in Skills |-> 0]
      /\ (\A n \in P!Range(running) \ {0} : procs[n].watch = "over") /\ UNCHANGED <<said, over, procs, reports>>
  BY DEF P!Ended
<1>4. player.todo = <<>> BY <1>2, <1>3 DEF TaskInv
<1>5. player' = [at |-> "gone", todo |-> <<>>, replayed |-> player.replayed, read |-> player.read] BY <1>1, <1>3, <1>4
<1>6. P!Taken' = P!Taken /\ P!Procs' = P!Procs BY <1>3, <1>5 DEF P!Taken, P!Procs
<1>7. running' \in [Skills -> 0 .. Len(procs)] /\ \A s \in Skills : running'[s] = 0 BY <1>1, <1>3
<1>8. P!TypeOK'
  <2>1. player' \in [at : P!Phases, todo : Seq(P!Facts), replayed : 0 .. Len(said'), read : 0 .. Len(said')]
    <3>1. <<>> \in Seq(P!Facts) /\ "gone" \in P!Phases BY EmptySeq DEF P!Phases
    <3>2. player.replayed \in 0 .. Len(said') /\ player.read \in 0 .. Len(said') BY <1>1, <1>3
    <3> QED BY <1>5, <3>1, <3>2
  <2> QED BY <1>2, <1>3, <1>6, <1>7, <2>1 DEF P!TypeOK
<1>9. TaskInv'
  <2>1. Len(player'.todo) = Len(player.todo) /\ player'.todo = <<>> /\ player'.at = "gone" BY <1>4, <1>5
  <2> QED BY <1>2, <1>3, <1>6, <1>7, <2>1 DEF TaskInv
<1>10. \A m \in P!Procs : ~P!Alive(m)
  <2> SUFFICES ASSUME NEW m \in P!Procs, P!Alive(m) PROVE FALSE
    OBVIOUS
  <2>1. procs[m].watch = "watches" /\ running[procs[m].fact.skill] = m BY <1>2 DEF WatchInv
  <2>2. procs[m] \in P!Forms BY <1>1, ElementOfSeq
  <2>3. procs[m].fact.skill \in Skills BY <2>2 DEF P!Forms, P!Facts
  <2>4. m \in P!Range(running) \ {0} BY <1>1, <2>1, <2>3 DEF P!Range
  <2> QED BY <1>3, <2>1, <2>4
<1>11. WatchInv' BY <1>2, <1>3, <1>6, <1>10 DEF WatchInv, P!Alive, P!ToldOnce
<1> QED BY <1>8, <1>9, <1>11 DEF ProcessesInv

LEMMA ProcessesNext == ProcessesInv /\ [P!Next]_ofProcesses => ProcessesInv'
<1> SUFFICES ASSUME ProcessesInv, [P!Next]_ofProcesses PROVE ProcessesInv'
  OBVIOUS
<1>1. P!TypeOK /\ TaskInv /\ WatchInv BY DEF ProcessesInv
<1>2. CASE P!EndLife
  BY <1>1, <1>2 DEF P!EndLife, ProcessesInv, P!TypeOK, P!Procs, TaskInv, P!Taken, LastAt, Awaited, WatchInv, P!Alive, P!ToldOnce
<1>3. CASE P!TipDone
  <2>1. /\ Len(said) \in Nat /\ player.replayed \in 0 .. Len(said) /\ player.read \in 0 .. Len(said)
        /\ player = [at |-> player.at, todo |-> player.todo, replayed |-> player.replayed, read |-> player.read]
        /\ player.todo \in Seq(P!Facts)
    BY ProcessTypes
  <2>2. player' = [player EXCEPT !.at = "log"] /\ UNCHANGED <<said, over, running, procs, reports>> BY <1>3 DEF P!TipDone
  <2>3. player' = [at |-> "log", todo |-> player.todo, replayed |-> player.replayed, read |-> player.read] BY <2>1, <2>2
  <2>4. /\ P!Taken' = P!Taken /\ P!Procs' = P!Procs /\ player'.todo = player.todo /\ player'.at = "log"
        /\ (\A k : LastAt(k)' <=> LastAt(k)) /\ (\A s : Awaited(s)' <=> Awaited(s))
    BY <2>2, <2>3 DEF P!Taken, P!Procs, LastAt, Awaited
  <2>5. P!TypeOK'
    <3>1. player' \in [at : P!Phases, todo : Seq(P!Facts), replayed : 0 .. Len(said'), read : 0 .. Len(said')]
      BY <2>1, <2>2, <2>3 DEF P!Phases
    <3> QED BY <1>1, <2>2, <2>4, <3>1 DEF P!TypeOK
  <2>6. TaskInv' BY <1>1, <2>2, <2>4 DEF TaskInv
  <2>7. WatchInv' BY <1>1, <2>2, <2>4 DEF WatchInv, P!Alive, P!ToldOnce
  <2> QED BY <2>5, <2>6, <2>7 DEF ProcessesInv
<1>4. CASE UNCHANGED ofProcesses
  BY <1>1, <1>4 DEF ofProcesses, ProcessesInv, P!TypeOK, P!Procs, TaskInv, P!Taken, LastAt, Awaited, WatchInv, P!Alive, P!ToldOnce
<1> QED BY <1>2, <1>3, <1>4, EnableKeeps, TipKeeps, StopKeeps, StoppedKeeps, StartKeeps, ReadKeeps, ReadEndKeeps,
           EndedKeeps, ProcessKeeps DEF P!Next, P!Task

\* What the lives and the operator see of the processes follows.
LEMMA ProcessesFound == ProcessesInv => OneProcessEach
<1> SUFFICES ASSUME ProcessesInv PROVE OneProcessEach
  OBVIOUS
<1>1. P!TypeOK /\ TaskInv /\ WatchInv BY DEF ProcessesInv
<1>2. /\ procs \in Seq(P!Forms) /\ P!Procs = 1 .. Len(procs) /\ running \in [Skills -> 0 .. Len(procs)] /\ Len(procs) \in Nat
      /\ player.todo \in Seq(P!Facts) /\ Len(player.todo) \in Nat /\ P!Taken \in Nat
  BY ProcessTypes
<1>3. P!OneProcess
  <2>1. ASSUME NEW n \in P!Procs, NEW m \in P!Procs, n # m, procs[n].fact.skill = procs[m].fact.skill
        PROVE  ~(P!Alive(n) /\ P!Alive(m))
    BY <1>1, <2>1 DEF WatchInv
  <2>2. ASSUME player.at = "gone", NEW n \in P!Procs PROVE ~P!Alive(n)
    <3>1. procs[n] \in P!Forms BY <1>2, ElementOfSeq
    <3>2. procs[n].fact.skill \in Skills BY <3>1 DEF P!Forms, P!Facts
    <3>3. running[procs[n].fact.skill] = 0 BY <1>1, <2>2, <3>2 DEF TaskInv
    <3> QED BY <1>1, <1>2, <3>3 DEF WatchInv
  <2> QED BY <2>1, <2>2 DEF P!OneProcess
<1>4. P!LastProgram
  <2>1. ASSUME NEW s \in Skills, running[s] # 0, player.todo = <<>>
        PROVE  \E n \in 1 .. P!Taken : /\ said[n].skill = s /\ procs[running[s]].fact = said[n]
                                       /\ \A m \in n + 1 .. P!Taken : said[m].skill # s
    <3>1. ~Awaited(s) BY <2>1 DEF Awaited
    <3>2. procs[running[s]].fact.skill = s BY <1>1, <2>1 DEF TaskInv
    <3>3. PICK n \in 1 .. P!Taken : LastAt(n) /\ procs[running[s]].fact = said[n]
      BY <1>1, <2>1, <3>1 DEF TaskInv
    <3> QED BY <3>2, <3>3 DEF LastAt
  <2>2. Len(procs) <= P!Taken BY <1>1, <1>2 DEF TaskInv
  <2> QED BY <2>1, <2>2 DEF P!LastProgram
<1> QED BY <1>1, <1>3, <1>4 DEF OneProcessEach, WatchInv

\* Each request of a model that waits is with the peer that it went to, which answers it once (answers.rs); both sides
\* of a view agree on it (views.rs); a skill runs one process, of the program it was newest enabled with, and each end of
\* it that the life did not ask is told once (processes.rs).
THEOREM SkillsTheorem == Spec => []SkillsHold
<1>1. Init => AnswersInv /\ ViewsInv /\ ProcessesInv
  BY AnswersInit, ViewsInit, ProcessesInit DEF Init
<1>2. AnswersInv /\ ViewsInv /\ ProcessesInv /\ [Next]_vars => (AnswersInv /\ ViewsInv /\ ProcessesInv)'
  <2>1. [Next]_vars => [A!Next]_ofAnswers /\ [V!Next]_ofViews /\ [P!Next]_ofProcesses
    BY DEF Next, Stall, Answers, Views, Processes, Changes, vars
  <2> QED BY <2>1, AnswersNext, ViewsNext, ProcessesNext
<1>3. AnswersInv /\ ViewsInv /\ ProcessesInv => SkillsHold
  BY ProcessesFound DEF AnswersInv, ViewsInv, SkillsHold, RequestsEnd, ViewsAgree
<1> QED BY <1>1, <1>2, <1>3, PTL DEF Spec

-----------------------------------------------------------------------------
(* The watch of stalls: what it told of a life that stalled waits for       *)
(* something that can still come, and it knows the acts that live. The      *)
(* invariant says, of each act, that the last of what the watch did not     *)
(* hear of it yet tells whether it lives, that the life says the end of     *)
(* each prompt, and which chain a message is for.                           *)

Asked == {"prompt", "asked"}

\* What the life said is about an act, or of a rebirth, which cuts each act.
Concerns(k, i) == events[k].is = "reborn" \/ events[k].id = i

MadeForms  == [kind : S!AllKinds, chain : Chains, by : Nat, open : BOOLEAN, paused : BOOLEAN,
               text : [of : S!Scopes, acts : SUBSET Nat]]
EventForms == [is : {"act"}, id : Nat, asks : BOOLEAN, done : BOOLEAN, paused : BOOLEAN] \cup [is : {"reborn"}]
ToldForms  == {S!No, [is |-> "said"]} \cup [is : {"sent"}, text : [of : S!Scopes, acts : SUBSET Nat]]
                \cup [is : {"asking"}, prompt : Nat, chain : Chains]

StallTypes ==
  /\ S!TypeOK
  /\ made \in Seq(MadeForms) /\ events \in Seq(EventForms)
  /\ \A k \in DOMAIN events : events[k].is = "act" => events[k].id \in S!Ids
  /\ told \in [S!Scopes -> ToldForms] /\ last \in [S!Scopes -> Nat]

\* The last of what the watch did not hear of an act yet says whether it lives, or what it heard does.
Known ==
  \A i \in S!Ids :
    /\ \A k \in DOMAIN events :
         Concerns(k, i) /\ (\A m \in DOMAIN events : Concerns(m, i) => m <= k)
           => (made[i].open <=> events[k].is = "act" /\ ~events[k].done)
    /\ (\A k \in DOMAIN events : ~Concerns(k, i)) => (made[i].open <=> \E one \in acts : one.id = i)

\* The life says the end of each prompt that it said lives.
EndsSaid ==
  \A k \in DOMAIN events :
    events[k].is = "act" /\ ~events[k].done /\ made[events[k].id].kind \in Asked /\ ~made[events[k].id].open
      => \E m \in DOMAIN events : m > k /\ events[m].is = "act" /\ events[m].id = events[k].id /\ events[m].done

\* A message of the watch is a prompt on the chain that it is for, and tells some act.
Messages ==
  /\ \A i \in S!Ids : made[i].text # S!NoText =>
       made[i].kind = "prompt" /\ made[i].chain = IF made[i].text.of = S!LIFE THEN Root ELSE made[i].text.of
  /\ \A s \in S!Scopes :
       /\ told[s].is = "sent" => told[s].text.of = s /\ told[s].text.acts # {}
       /\ told[s].is = "asking" =>
            made[told[s].prompt].kind = "prompt" /\ s \in {S!LIFE, made[told[s].prompt].chain}

StallInv == StallTypes /\ Known /\ EndsSaid /\ Messages /\ S!TellsAgain

\* The bare facts of the watch.
LEMMA StallBare ==
  ASSUME StallInv
  PROVE  /\ made \in Seq(MadeForms) /\ Len(made) \in Nat /\ S!Ids = 1 .. Len(made)
         /\ events \in Seq(EventForms) /\ Len(events) \in Nat /\ DOMAIN events = 1 .. Len(events)
         /\ \A k \in DOMAIN events : events[k] \in EventForms /\ (events[k].is = "act" => events[k].id \in S!Ids)
         /\ inbox \in Seq(S!Texts) /\ refused \subseteq S!Texts /\ acts \subseteq S!Acts /\ ours \subseteq S!Ids
         /\ \A one, other \in acts : one.id = other.id => one = other
         /\ told \in [S!Scopes -> ToldForms] /\ last \in [S!Scopes -> Nat]
         /\ \A i \in S!Ids : made[i] \in MadeForms
<1>1. /\ made \in Seq(MadeForms) /\ S!Ids = 1 .. Len(made)
      /\ events \in Seq(EventForms)
      /\ \A k \in DOMAIN events : events[k].is = "act" => events[k].id \in S!Ids
      /\ inbox \in Seq(S!Texts) /\ refused \subseteq S!Texts /\ acts \subseteq S!Acts /\ ours \subseteq S!Ids
      /\ \A one, other \in acts : one.id = other.id => one = other
      /\ told \in [S!Scopes -> ToldForms] /\ last \in [S!Scopes -> Nat]
  BY DEF StallInv, StallTypes, S!TypeOK, S!Ids
<1>2. Len(made) \in Nat /\ Len(events) \in Nat /\ DOMAIN events = 1 .. Len(events)
  BY <1>1
<1>3. \A i \in S!Ids : made[i] \in MadeForms BY <1>1, ElementOfSeq
<1>4. \A k \in DOMAIN events : events[k] \in EventForms BY <1>1, <1>2, ElementOfSeq
<1> QED BY <1>1, <1>2, <1>3, <1>4

\* The life says one more fact of an act, as it stands.
LEMMA SaysAct ==
  ASSUME StallInv, NEW e \in EventForms, e.is = "act", e.done <=> ~made'[e.id].open,
         e.id \in S!Ids', S!Ids \subseteq S!Ids', S!Ids' \subseteq S!Ids \cup {e.id},
         \A j \in S!Ids : j # e.id => made'[j] = made[j],
         e.id \in S!Ids => made'[e.id].kind = made[e.id].kind /\ (made'[e.id].open => made[e.id].open),
         events' = Append(events, e), acts' = acts
  PROVE  /\ events' \in Seq(EventForms) /\ \A k \in DOMAIN events' : events'[k].is = "act" => events'[k].id \in S!Ids'
         /\ Len(events) + 1 \in DOMAIN events' /\ events'[Len(events) + 1] = e
         /\ \A k \in DOMAIN events : k \in DOMAIN events' /\ events'[k] = events[k]
         /\ Known' /\ EndsSaid'
<1> PICK i : i = e.id OBVIOUS
<1>0. Len(events) \in Nat BY StallBare
<1> PICK n \in Nat : n = Len(events) + 1 BY <1>0
<1>1. /\ events \in Seq(EventForms) /\ Len(events) \in Nat /\ DOMAIN events = 1 .. Len(events)
      /\ \A k \in DOMAIN events : events[k].is = "act" => events[k].id \in S!Ids
  BY StallBare
<1>2. /\ events' \in Seq(EventForms) /\ Len(events') = n /\ events'[n] = e
      /\ \A k \in 1 .. Len(events) : events'[k] = events[k]
  BY <1>1, AppendProperties
<1>3. DOMAIN events' = 1 .. n BY <1>1, <1>2
<1>4. n \in DOMAIN events' /\ \A k \in DOMAIN events' : k = n \/ k \in DOMAIN events BY <1>1, <1>3
<1>5. \A k \in DOMAIN events : k \in DOMAIN events' /\ events'[k] = events[k] /\ k < n /\ k \in Nat
  BY <1>1, <1>2, <1>3
<1>6. \A k \in DOMAIN events' : events'[k].is = "act" => events'[k].id \in S!Ids'
  BY <1>1, <1>2, <1>4, <1>5
<1>8. Known'
  <2>1. ASSUME NEW j \in S!Ids', j # i
        PROVE  /\ j \in S!Ids /\ made'[j] = made[j]
               /\ \A k \in DOMAIN events' : Concerns(k, j)' <=> k \in DOMAIN events /\ Concerns(k, j)
    <3>1. j \in S!Ids /\ made'[j] = made[j] BY <2>1
    <3>2. ASSUME NEW k \in DOMAIN events' PROVE Concerns(k, j)' <=> k \in DOMAIN events /\ Concerns(k, j)
      <4>1. CASE k = n
        <5>1. events'[k] = e /\ e.is # "reborn" /\ e.id # j BY <1>2, <2>1, <4>1
        <5>2. n \notin DOMAIN events BY <1>5
        <5> QED BY <4>1, <5>1, <5>2 DEF Concerns
      <4>2. CASE k \in DOMAIN events BY <1>5, <4>2 DEF Concerns
      <4> QED BY <1>4, <4>1, <4>2
    <3> QED BY <3>1, <3>2
  <2>2. ASSUME NEW j \in S!Ids', NEW k \in DOMAIN events', Concerns(k, j)',
               \A m \in DOMAIN events' : Concerns(m, j)' => m <= k
        PROVE  made'[j].open <=> events'[k].is = "act" /\ ~events'[k].done
    <3>1. CASE j = i
      <4>1. Concerns(n, j)' BY <1>2, <3>1 DEF Concerns
      <4>2. n <= k BY <1>4, <2>2, <4>1
      <4>3. k = n BY <1>4, <1>5, <4>2
      <4> QED BY <1>2, <3>1, <4>3
    <3>2. CASE j # i
      <4>1. /\ j \in S!Ids /\ made'[j] = made[j]
            /\ \A m \in DOMAIN events' : Concerns(m, j)' <=> m \in DOMAIN events /\ Concerns(m, j)
        BY <2>1, <3>2
      <4>2. k \in DOMAIN events /\ Concerns(k, j) /\ \A m \in DOMAIN events : Concerns(m, j) => m <= k
        BY <1>5, <2>2, <4>1
      <4>3. made[j].open <=> events[k].is = "act" /\ ~events[k].done BY <4>1, <4>2 DEF StallInv, Known
      <4> QED BY <1>5, <4>1, <4>2, <4>3
    <3> QED BY <3>1, <3>2
  <2>3. ASSUME NEW j \in S!Ids', \A k \in DOMAIN events' : ~Concerns(k, j)'
        PROVE  made'[j].open <=> \E one \in acts' : one.id = j
    <3>1. j # i BY <1>2, <1>4, <2>3 DEF Concerns
    <3>2. /\ j \in S!Ids /\ made'[j] = made[j]
          /\ \A m \in DOMAIN events' : Concerns(m, j)' <=> m \in DOMAIN events /\ Concerns(m, j)
      BY <2>1, <3>1
    <3>3. \A k \in DOMAIN events : ~Concerns(k, j) BY <1>5, <2>3, <3>2
    <3> QED BY <3>2, <3>3 DEF StallInv, Known
  <2> QED BY <2>2, <2>3 DEF Known
<1>9. EndsSaid'
  <2> SUFFICES ASSUME NEW k \in DOMAIN events', events'[k].is = "act", ~events'[k].done,
                      made'[events'[k].id].kind \in Asked, ~made'[events'[k].id].open
               PROVE  \E m \in DOMAIN events' : m > k /\ events'[m].is = "act" /\ events'[m].id = events'[k].id /\ events'[m].done
    BY DEF EndsSaid
  <2>1. k # n BY <1>2
  <2>2. k \in DOMAIN events /\ events'[k] = events[k] /\ events[k].id \in S!Ids /\ k < n BY <1>1, <1>4, <1>5, <2>1
  <2>3. CASE events[k].id = i BY <1>2, <1>4, <2>2, <2>3
  <2>4. CASE events[k].id # i
    <3>1. made'[events[k].id] = made[events[k].id] BY <2>2, <2>4
    <3>2. PICK m \in DOMAIN events : m > k /\ events[m].is = "act" /\ events[m].id = events[k].id /\ events[m].done
      BY <2>2, <3>1 DEF StallInv, EndsSaid
    <3> QED BY <1>5, <2>2, <3>2
  <2> QED BY <2>3, <2>4
<1> QED BY <1>2, <1>4, <1>5, <1>6, <1>8, <1>9

\* What the watch told, the messages and the acts it knows stand when there are more acts.
LEMMA MoreIds ==
  ASSUME StallInv, S!Ids \subseteq S!Ids'
  PROVE  /\ S!Texts \subseteq S!Texts' /\ S!Acts \subseteq S!Acts'
         /\ refused \subseteq S!Texts' /\ acts \subseteq S!Acts' /\ ours \subseteq S!Ids'
         /\ \A s \in S!Scopes : \/ told[s] \in {S!No, [is |-> "said"]}
                                \/ told[s].is = "sent" /\ told[s].text \in S!Texts'
                                \/ told[s].is = "asking" /\ told[s].prompt \in S!Ids'
<1>1. S!Texts \subseteq S!Texts' /\ S!Acts \subseteq S!Acts' BY DEF S!Texts, S!Acts
<1>2. refused \subseteq S!Texts /\ acts \subseteq S!Acts /\ ours \subseteq S!Ids BY StallBare
<1>3. \A s \in S!Scopes : \/ told[s] \in {S!No, [is |-> "said"]}
                          \/ told[s].is = "sent" /\ told[s].text \in S!Texts
                          \/ told[s].is = "asking" /\ told[s].prompt \in S!Ids
  BY DEF StallInv, StallTypes, S!TypeOK
<1> QED BY <1>1, <1>2, <1>3

\* The life makes an act.
LEMMA MakesKeeps ==
  ASSUME StallInv, NEW kind \in S!AllKinds, NEW chain \in Chains, NEW by \in 0 .. Len(made), NEW text \in S!Texts,
         S!Makes(kind, chain, by, text)
  PROVE  /\ made' \in Seq(MadeForms) /\ events' \in Seq(EventForms)
         /\ \A k \in DOMAIN events' : events'[k].is = "act" => events'[k].id \in S!Ids'
         /\ S!Ids \subseteq S!Ids' /\ \A i \in S!Ids : made'[i] = made[i]
         /\ \A i \in S!Ids' : /\ made'[i].kind \in S!AllKinds /\ made'[i].chain \in Chains /\ made'[i].by \in 0 .. i - 1
                              /\ made'[i].open \in BOOLEAN /\ made'[i].paused \in BOOLEAN /\ made'[i].text \in S!Texts'
         /\ \A i \in S!Ids' \ S!Ids : made'[i].kind = kind /\ made'[i].chain = chain /\ made'[i].text = text
         /\ \E k \in DOMAIN events' : /\ events'[k].is = "act" /\ events'[k].asks
                                      /\ made'[events'[k].id].text = text
         /\ \A k \in DOMAIN events : k \in DOMAIN events' /\ events'[k] = events[k]
         /\ acts' = acts => Known' /\ EndsSaid'
<1>1. /\ made \in Seq(MadeForms) /\ Len(made) \in Nat /\ S!Ids = 1 .. Len(made)
      /\ events \in Seq(EventForms) /\ \A i \in S!Ids : made[i] \in MadeForms
  BY StallBare
<1> PICK i \in Nat : i = Len(made) + 1 BY <1>1
<1> PICK one : one = [kind |-> kind, chain |-> chain, by |-> by, open |-> TRUE, paused |-> FALSE, text |-> text] OBVIOUS
<1> PICK e : e = [is |-> "act", id |-> i, asks |-> TRUE, done |-> FALSE, paused |-> FALSE] OBVIOUS
<1>2. made' = Append(made, one) /\ events' = Append(events, S!Event(Len(made'), TRUE))
  BY DEF S!Makes
<1>3. one \in MadeForms
  <2>1. text \in [of : S!Scopes, acts : SUBSET Nat] BY <1>1 DEF S!Texts
  <2>2. by \in Nat BY <1>1
  <2> QED BY <2>1, <2>2 DEF MadeForms
<1>4. /\ made' \in Seq(MadeForms) /\ Len(made') = i /\ made'[i] = one /\ \A j \in 1 .. Len(made) : made'[j] = made[j]
  BY <1>1, <1>2, <1>3, AppendProperties
<1>5. S!Ids' = S!Ids \cup {i} /\ i \notin S!Ids /\ \A j \in S!Ids : j # i
  <2>1. S!Ids' = 1 .. i BY <1>4 DEF S!Ids
  <2> QED BY <1>1, <2>1
<1>14. /\ one.open = TRUE /\ one.paused = FALSE /\ one.kind = kind /\ one.chain = chain /\ one.by = by /\ one.text = text
  OBVIOUS
<1>6. S!Event(Len(made'), TRUE) = e
  <2>1. made'[i].open = TRUE /\ made'[i].paused = FALSE BY <1>4, <1>14
  <2> QED BY <1>4, <2>1 DEF S!Event
<1>7. e \in EventForms /\ e.is = "act" /\ e.id = i /\ e.asks /\ (e.done <=> ~made'[i].open)
  <2>1. e.done = FALSE /\ e.is = "act" /\ e.id = i /\ e.asks = TRUE OBVIOUS
  <2>2. e \in EventForms BY DEF EventForms
  <2> QED BY <1>4, <1>14, <2>1, <2>2
<1>8. \A j \in S!Ids : made'[j] = made[j] BY <1>1, <1>4
<1>9. ASSUME acts' = acts PROVE Known' /\ EndsSaid'
  BY <1>2, <1>5, <1>6, <1>7, <1>8, <1>9, SaysAct
<1>10. /\ events' \in Seq(EventForms) /\ Len(events) + 1 \in DOMAIN events' /\ events'[Len(events) + 1] = e
       /\ \A k \in DOMAIN events : k \in DOMAIN events' /\ events'[k] = events[k]
       /\ \A k \in DOMAIN events' : k = Len(events) + 1 \/ k \in DOMAIN events
  <2>1. /\ Append(events, e) \in Seq(EventForms) /\ Len(Append(events, e)) = Len(events) + 1
        /\ Append(events, e)[Len(events) + 1] = e
        /\ \A k \in 1 .. Len(events) : Append(events, e)[k] = events[k]
    BY <1>1, <1>7, AppendProperties
  <2>2. Len(events) \in Nat /\ DOMAIN events = 1 .. Len(events) BY StallBare
  <2> PICK l : l = Append(events, e) OBVIOUS
  <2>3. events' = l BY <1>2, <1>6
  <2>4. /\ l \in Seq(EventForms) /\ Len(l) = Len(events) + 1 /\ l[Len(events) + 1] = e
        /\ \A k \in 1 .. Len(events) : l[k] = events[k]
    BY <2>1
  <2>5. DOMAIN l = 1 .. Len(events) + 1 BY <2>2, <2>4
  <2> QED BY <2>2, <2>3, <2>4, <2>5
<1>11. \A k \in DOMAIN events' : events'[k].is = "act" => events'[k].id \in S!Ids'
  BY <1>5, <1>7, <1>10, StallBare
<1>12. ASSUME NEW j \in S!Ids'
       PROVE  /\ made'[j].kind \in S!AllKinds /\ made'[j].chain \in Chains /\ made'[j].by \in 0 .. j - 1
              /\ made'[j].open \in BOOLEAN /\ made'[j].paused \in BOOLEAN /\ made'[j].text \in S!Texts'
  <2>1. S!Texts \subseteq S!Texts' BY <1>5, MoreIds
  <2>2. CASE j = i
    <3>1. by \in 0 .. i - 1 BY <1>1
    <3> QED BY <1>4, <1>14, <2>1, <2>2, <3>1
  <2>3. CASE j \in S!Ids
    BY <1>8, <2>1, <2>3 DEF StallInv, StallTypes, S!TypeOK
  <2> QED BY <1>5, <2>2, <2>3
<1>13. made'[events'[Len(events) + 1].id].text = text BY <1>4, <1>7, <1>10, <1>14
<1>15. \A j \in S!Ids' \ S!Ids : made'[j].kind = kind /\ made'[j].chain = chain /\ made'[j].text = text
  BY <1>4, <1>5, <1>14
<1>16. \E k \in DOMAIN events' : events'[k].is = "act" /\ events'[k].asks /\ made'[events'[k].id].text = text
  BY <1>7, <1>10, <1>13
<1> QED BY <1>4, <1>5, <1>8, <1>9, <1>10, <1>11, <1>12, <1>15, <1>16

\* What a stall that was told waits for, as the messages and the events grow, and no act that was made is another.
LEMMA TellingsWait ==
  ASSUME StallInv, told' = told, S!Ids \subseteq S!Ids',
         \A i \in S!Ids :
           /\ made'[i].text = made[i].text
           /\ \/ made[i].kind = "prompt" /\ made[i].open => made'[i].open
              \/ \E k \in DOMAIN events' : events'[k].is = "act" /\ events'[k].id = i /\ events'[k].done,
         \A k \in DOMAIN events : k \in DOMAIN events' /\ events'[k] = events[k],
         \A t \in S!Range(inbox) \cup refused :
           \/ t \in S!Range(inbox') \cup refused'
           \/ \E k \in DOMAIN events' : events'[k].is = "act" /\ events'[k].asks /\ made'[events'[k].id].text = t
  PROVE  S!TellsAgain'
<1>1. S!TellsAgain BY DEF StallInv
<1>2. \A k \in DOMAIN events : events[k].is = "act" => events[k].id \in S!Ids BY StallBare
<1>3. ASSUME NEW s \in S!Scopes, told[s].is = "sent"
      PROVE  \/ told[s].text \in S!Range(inbox') \cup refused'
             \/ \E k \in DOMAIN events' : events'[k].is = "act" /\ events'[k].asks /\ made'[events'[k].id].text = told[s].text
  <2>1. CASE told[s].text \in S!Range(inbox) \cup refused BY <2>1
  <2>2. CASE \E k \in DOMAIN events : events[k].is = "act" /\ events[k].asks /\ made[events[k].id].text = told[s].text
    <3>1. PICK k \in DOMAIN events : events[k].is = "act" /\ events[k].asks /\ made[events[k].id].text = told[s].text BY <2>2
    <3>2. k \in DOMAIN events' /\ events'[k] = events[k] /\ made'[events[k].id].text = told[s].text BY <1>2, <3>1
    <3> QED BY <3>1, <3>2
  <2> QED BY <1>1, <1>3, <2>1, <2>2 DEF S!TellsAgain
<1>4. ASSUME NEW s \in S!Scopes, told[s].is = "asking"
      PROVE  \/ made'[told[s].prompt].open
             \/ \E k \in DOMAIN events' : events'[k].is = "act" /\ events'[k].id = told[s].prompt /\ events'[k].done
  <2>1. told[s].prompt \in S!Ids /\ made[told[s].prompt].kind = "prompt"
    BY <1>4 DEF StallInv, StallTypes, S!TypeOK, S!No, Messages
  <2>2. CASE made[told[s].prompt].open BY <2>1, <2>2
  <2>3. CASE \E k \in DOMAIN events : events[k].is = "act" /\ events[k].id = told[s].prompt /\ events[k].done
    <3>1. PICK k \in DOMAIN events : events[k].is = "act" /\ events[k].id = told[s].prompt /\ events[k].done BY <2>3
    <3>2. k \in DOMAIN events' /\ events'[k] = events[k] BY <3>1
    <3> QED BY <3>1, <3>2
  <2> QED BY <1>1, <1>4, <2>2, <2>3 DEF S!TellsAgain
<1> QED BY <1>3, <1>4 DEF S!TellsAgain

\* A sequence without one of its places holds what the others hold.
LEMMA WithoutOne ==
  ASSUME NEW T, NEW s \in Seq(T), NEW n \in 1 .. Len(s), NEW r, r = S!RemoveAt(s, n)
  PROVE  r \in Seq(T) /\ \A x \in S!Range(s) : x = s[n] \/ x \in S!Range(r)
<1>1. Len(s) \in Nat /\ DOMAIN s = 1 .. Len(s) /\ n \in Nat /\ n >= 1 /\ n <= Len(s) OBVIOUS
<1> DEFINE a == SubSeq(s, 1, n - 1)
           b == SubSeq(s, n + 1, Len(s))
<1>2. /\ a \in Seq(T) /\ Len(a) = n - 1 /\ \A k \in 1 .. n - 1 : a[k] = s[k]
  <2>1. \A k \in 1 .. n - 1 : s[k] \in T
    <3> TAKE k \in 1 .. n - 1
    <3>1. k \in 1 .. Len(s) BY <1>1
    <3> QED BY <3>1, ElementOfSeq
  <2>2. /\ a \in Seq(T) /\ Len(a) = IF 1 <= n - 1 THEN (n - 1) - 1 + 1 ELSE 0
        /\ \A k \in 1 .. (n - 1) - 1 + 1 : a[k] = s[1 + k - 1]
    <3> DEFINE m == n - 1
    <3>1. m \in Int BY <1>1
    <3>2. \A k \in 1 .. m : s[k] \in T BY <2>1
    <3> HIDE DEF m
    <3>3. /\ SubSeq(s, 1, m) \in Seq(T) /\ Len(SubSeq(s, 1, m)) = IF 1 <= m THEN m - 1 + 1 ELSE 0
          /\ \A k \in 1 .. m - 1 + 1 : SubSeq(s, 1, m)[k] = s[1 + k - 1]
      BY <3>1, <3>2, SubSeqProperties
    <3> QED BY <3>3 DEF m
  <2> HIDE DEF a
  <2>3. Len(a) = n - 1 BY <1>1, <2>2
  <2>4. ASSUME NEW k \in 1 .. n - 1 PROVE a[k] = s[k]
    <3>1. k \in 1 .. (n - 1) - 1 + 1 /\ 1 + k - 1 = k BY <1>1, <2>4
    <3> QED BY <2>2, <3>1
  <2> QED BY <2>2, <2>3, <2>4
<1>3. /\ b \in Seq(T) /\ Len(b) = Len(s) - n /\ \A k \in n + 1 .. Len(s) : k - n \in 1 .. Len(s) - n /\ b[k - n] = s[k]
  <2>1. \A k \in n + 1 .. Len(s) : s[k] \in T
    <3> TAKE k \in n + 1 .. Len(s)
    <3>1. k \in 1 .. Len(s) BY <1>1
    <3> QED BY <3>1, ElementOfSeq
  <2>2. /\ b \in Seq(T) /\ Len(b) = IF n + 1 <= Len(s) THEN Len(s) - (n + 1) + 1 ELSE 0
        /\ \A k \in 1 .. Len(s) - (n + 1) + 1 : b[k] = s[(n + 1) + k - 1]
    <3> DEFINE m == n + 1
    <3>1. m \in Int /\ Len(s) \in Int BY <1>1
    <3>2. \A k \in m .. Len(s) : s[k] \in T BY <2>1
    <3> HIDE DEF m
    <3>3. /\ SubSeq(s, m, Len(s)) \in Seq(T) /\ Len(SubSeq(s, m, Len(s))) = IF m <= Len(s) THEN Len(s) - m + 1 ELSE 0
          /\ \A k \in 1 .. Len(s) - m + 1 : SubSeq(s, m, Len(s))[k] = s[m + k - 1]
      BY <3>1, <3>2, SubSeqProperties
    <3> QED BY <3>3 DEF m
  <2> HIDE DEF b
  <2>3. Len(b) = Len(s) - n
    <3>1. CASE n + 1 <= Len(s)
      <4>1. Len(b) = Len(s) - (n + 1) + 1 BY <2>2, <3>1
      <4>2. Len(s) - (n + 1) + 1 = Len(s) - n BY <1>1
      <4> QED BY <4>1, <4>2
    <3>2. CASE ~(n + 1 <= Len(s))
      <4>1. Len(b) = 0 BY <2>2, <3>2
      <4>2. n = Len(s)
        <5> DEFINE l == Len(s)
        <5>1. l \in Nat /\ n \in Nat /\ n <= l /\ ~(n + 1 <= l) BY <1>1, <3>2
        <5> HIDE DEF l
        <5>2. n = l BY <5>1
        <5> QED BY <5>2 DEF l
      <4> QED BY <1>1, <4>1, <4>2
    <3> QED BY <3>1, <3>2
  <2>4. ASSUME NEW k \in n + 1 .. Len(s) PROVE k - n \in 1 .. Len(s) - n /\ b[k - n] = s[k]
    <3>1. k - n \in 1 .. Len(s) - (n + 1) + 1 /\ (n + 1) + (k - n) - 1 = k /\ k - n \in 1 .. Len(s) - n BY <1>1, <2>4
    <3> QED BY <2>2, <3>1
  <2> QED BY <2>2, <2>3, <2>4
<1>4. r = a \o b BY DEF S!RemoveAt
<1> HIDE DEF a, b
<1>5. /\ r \in Seq(T) /\ Len(r) = Len(a) + Len(b)
      /\ \A k \in 1 .. Len(a) + Len(b) : r[k] = IF k <= Len(a) THEN a[k] ELSE b[k - Len(a)]
  <2>1. a \in Seq(T) /\ b \in Seq(T) BY <1>2, <1>3
  <2> QED BY <1>4, <2>1, ConcatProperties
<1>6. DOMAIN r = 1 .. Len(s) - 1 BY <1>1, <1>2, <1>3, <1>5
<1>7. ASSUME NEW k \in 1 .. Len(s), k # n PROVE \E m \in DOMAIN r : r[m] = s[k]
  <2>1. CASE k < n
    <3>1. k \in 1 .. n - 1 /\ k \in 1 .. Len(s) - 1 /\ k <= Len(a) /\ k \in 1 .. Len(a) + Len(b) BY <1>1, <1>2, <1>3, <2>1
    <3>2. r[k] = s[k] BY <1>2, <1>5, <3>1
    <3> QED BY <1>6, <3>1, <3>2
  <2>2. CASE k > n
    <3>1. /\ k \in n + 1 .. Len(s) /\ k - 1 \in 1 .. Len(s) - 1 /\ ~(k - 1 <= Len(a)) /\ k - 1 \in 1 .. Len(a) + Len(b)
          /\ (k - 1) - Len(a) = k - n
      BY <1>1, <1>2, <1>3, <2>2
    <3>2. r[k - 1] = s[k] BY <1>3, <1>5, <3>1
    <3> QED BY <1>6, <3>1, <3>2
  <2> QED BY <1>1, <1>7, <2>1, <2>2
<1> QED BY <1>1, <1>5, <1>7 DEF S!Range

\* A step of the life leaves what the watch keeps.
LEMMA TypesKeep ==
  ASSUME StallInv, S!Ids \subseteq S!Ids', UNCHANGED <<acts, ours, last, told>>,
         made' \in Seq(MadeForms), events' \in Seq(EventForms),
         \A k \in DOMAIN events' : events'[k].is = "act" => events'[k].id \in S!Ids',
         \A i \in S!Ids' : /\ made'[i].kind \in S!AllKinds /\ made'[i].chain \in Chains /\ made'[i].by \in 0 .. i - 1
                           /\ made'[i].open \in BOOLEAN /\ made'[i].paused \in BOOLEAN /\ made'[i].text \in S!Texts',
         inbox' \in Seq(S!Texts'), refused' \subseteq S!Texts'
  PROVE  StallTypes'
<1>1. /\ acts \subseteq S!Acts' /\ ours \subseteq S!Ids'
      /\ \A s \in S!Scopes : \/ told[s] \in {S!No, [is |-> "said"]}
                             \/ told[s].is = "sent" /\ told[s].text \in S!Texts'
                             \/ told[s].is = "asking" /\ told[s].prompt \in S!Ids'
  BY MoreIds
<1>2. StallTypes BY DEF StallInv
<1>3. S!TypeOK' BY <1>1, <1>2 DEF StallTypes, S!TypeOK, S!Bound
<1> QED BY <1>2, <1>3 DEF StallTypes

\* A message stays of its chain, and a stall that was told of its message.
LEMMA MessagesKeep ==
  ASSUME StallInv, told' = told, S!Ids \subseteq S!Ids',
         \A i \in S!Ids : made'[i].text = made[i].text /\ made'[i].kind = made[i].kind /\ made'[i].chain = made[i].chain,
         \A i \in S!Ids' \ S!Ids : made'[i].text # S!NoText =>
           made'[i].kind = "prompt" /\ made'[i].chain = IF made'[i].text.of = S!LIFE THEN Root ELSE made'[i].text.of
  PROVE  Messages'
<1>1. Messages BY DEF StallInv
<1>2. ASSUME NEW i \in S!Ids', made'[i].text # S!NoText
      PROVE  made'[i].kind = "prompt" /\ made'[i].chain = IF made'[i].text.of = S!LIFE THEN Root ELSE made'[i].text.of
  <2>1. CASE i \in S!Ids
    <3>1. made'[i].text = made[i].text /\ made'[i].kind = made[i].kind /\ made'[i].chain = made[i].chain BY <2>1
    <3> QED BY <1>1, <1>2, <2>1, <3>1 DEF Messages
  <2>2. CASE i \notin S!Ids BY <1>2, <2>2
  <2> QED BY <2>1, <2>2
<1>3. ASSUME NEW s \in S!Scopes
      PROVE  /\ told'[s].is = "sent" => told'[s].text.of = s /\ told'[s].text.acts # {}
             /\ told'[s].is = "asking" =>
                  made'[told'[s].prompt].kind = "prompt" /\ s \in {S!LIFE, made'[told'[s].prompt].chain}
  <2>1. told[s].is = "asking" => told[s].prompt \in S!Ids BY DEF StallInv, StallTypes, S!TypeOK, S!No
  <2> QED BY <1>1, <2>1 DEF Messages
<1> QED BY <1>2, <1>3 DEF Messages

LEMMA MakeKeeps ==
  ASSUME StallInv, NEW kind \in Kinds, NEW chain \in Chains, NEW by \in 0 .. Len(made), S!Make(kind, chain, by)
  PROVE  StallInv'
<1>1. kind \in S!AllKinds /\ S!NoText \in S!Texts
  BY HostAssumption DEF S!AllKinds, S!NoText, S!Texts, S!Scopes
<1>2. S!Makes(kind, chain, by, S!NoText) /\ UNCHANGED <<inbox, refused, acts, ours, last, told>>
  BY DEF S!Make, S!heardVars
<1>3. /\ made' \in Seq(MadeForms) /\ events' \in Seq(EventForms)
      /\ \A k \in DOMAIN events' : events'[k].is = "act" => events'[k].id \in S!Ids'
      /\ S!Ids \subseteq S!Ids' /\ \A i \in S!Ids : made'[i] = made[i]
      /\ \A i \in S!Ids' : /\ made'[i].kind \in S!AllKinds /\ made'[i].chain \in Chains /\ made'[i].by \in 0 .. i - 1
                           /\ made'[i].open \in BOOLEAN /\ made'[i].paused \in BOOLEAN /\ made'[i].text \in S!Texts'
      /\ \A i \in S!Ids' \ S!Ids : made'[i].kind = kind /\ made'[i].chain = chain /\ made'[i].text = S!NoText
      /\ \A k \in DOMAIN events : k \in DOMAIN events' /\ events'[k] = events[k]
      /\ Known' /\ EndsSaid'
  BY <1>1, <1>2, MakesKeeps
<1>4. inbox' \in Seq(S!Texts') /\ refused' \subseteq S!Texts'
  <2>1. S!Texts \subseteq S!Texts' /\ refused \subseteq S!Texts' BY <1>3, MoreIds
  <2>2. inbox \in Seq(S!Texts) BY StallBare
  <2>3. inbox \in Seq(S!Texts')
    <3> DEFINE T == S!Texts
               U == S!Texts'
    <3>1. T \subseteq U /\ inbox \in Seq(T) BY <2>1, <2>2
    <3> HIDE DEF T, U
    <3>2. inbox \in Seq(U) BY <3>1, SeqsGrow
    <3> QED BY <3>2 DEF U
  <2> QED BY <1>2, <2>1, <2>3
<1>5. StallTypes' BY <1>2, <1>3, <1>4, TypesKeep
<1>6. Messages' BY <1>2, <1>3, MessagesKeep
<1>7. S!TellsAgain' BY <1>2, <1>3, TellingsWait
<1> QED BY <1>3, <1>5, <1>6, <1>7 DEF StallInv

\* The thread of the life takes a message of the watch.
LEMMA TakeKeeps == ASSUME StallInv, NEW n \in DOMAIN inbox, S!Take(n) PROVE StallInv'
<1>1. inbox \in Seq(S!Texts) /\ DOMAIN inbox = 1 .. Len(inbox) BY StallBare
<1> PICK text : text = inbox[n] OBVIOUS
<1> PICK chain : chain = IF text.of = S!LIFE THEN Root ELSE text.of OBVIOUS
<1>2. text \in S!Texts BY <1>1, ElementOfSeq
<1>3. chain \in Chains /\ "prompt" \in S!AllKinds /\ 0 \in 0 .. Len(made)
  <2>1. text.of \in S!Scopes BY <1>2 DEF S!Texts
  <2>2. Len(made) \in Nat BY StallBare
  <2> QED BY <2>1, <2>2, HostAssumption DEF S!Scopes, S!AllKinds, S!LIFE
<1>4. S!Makes("prompt", chain, 0, text) /\ inbox' = S!RemoveAt(inbox, n) /\ UNCHANGED <<refused, acts, ours, last, told>>
  BY DEF S!Take, S!heardVars
<1>5. /\ made' \in Seq(MadeForms) /\ events' \in Seq(EventForms)
      /\ \A k \in DOMAIN events' : events'[k].is = "act" => events'[k].id \in S!Ids'
      /\ S!Ids \subseteq S!Ids' /\ \A i \in S!Ids : made'[i] = made[i]
      /\ \A i \in S!Ids' : /\ made'[i].kind \in S!AllKinds /\ made'[i].chain \in Chains /\ made'[i].by \in 0 .. i - 1
                           /\ made'[i].open \in BOOLEAN /\ made'[i].paused \in BOOLEAN /\ made'[i].text \in S!Texts'
      /\ \A i \in S!Ids' \ S!Ids : made'[i].kind = "prompt" /\ made'[i].chain = chain /\ made'[i].text = text
      /\ \E k \in DOMAIN events' : events'[k].is = "act" /\ events'[k].asks /\ made'[events'[k].id].text = text
      /\ \A k \in DOMAIN events : k \in DOMAIN events' /\ events'[k] = events[k]
      /\ Known' /\ EndsSaid'
  BY <1>2, <1>3, <1>4, MakesKeeps
<1>6. inbox' \in Seq(S!Texts) /\ \A t \in S!Range(inbox) : t = text \/ t \in S!Range(inbox')
  <2> DEFINE T == S!Texts
  <2>1. inbox \in Seq(T) /\ n \in 1 .. Len(inbox) BY <1>1
  <2> HIDE DEF T
  <2>2. inbox' \in Seq(T) /\ \A t \in S!Range(inbox) : t = inbox[n] \/ t \in S!Range(inbox') BY <1>4, <2>1, WithoutOne
  <2> QED BY <2>2 DEF T
<1>7. inbox' \in Seq(S!Texts') /\ refused' \subseteq S!Texts'
  <2>1. S!Texts \subseteq S!Texts' /\ refused \subseteq S!Texts' BY <1>5, MoreIds
  <2>2. inbox' \in Seq(S!Texts')
    <3> DEFINE T == S!Texts
               U == S!Texts'
               x == inbox'
    <3>1. T \subseteq U /\ x \in Seq(T) BY <1>6, <2>1
    <3> HIDE DEF T, U, x
    <3>2. x \in Seq(U) BY <3>1, SeqsGrow
    <3> QED BY <3>2 DEF U, x
  <2> QED BY <1>4, <2>1, <2>2
<1>8. StallTypes' BY <1>4, <1>5, <1>7, TypesKeep
<1>9. Messages' BY <1>4, <1>5, MessagesKeep
<1>10. S!TellsAgain' BY <1>4, <1>5, <1>6, TellingsWait
<1> QED BY <1>5, <1>8, <1>9, <1>10 DEF StallInv

\* The life refuses a message.
LEMMA RefuseKeeps == ASSUME StallInv, NEW n \in DOMAIN inbox, S!Refuse(n) PROVE StallInv'
<1>1. inbox \in Seq(S!Texts) /\ DOMAIN inbox = 1 .. Len(inbox) BY StallBare
<1>2. inbox[n] \in S!Texts BY <1>1, ElementOfSeq
<1>3. /\ inbox' = S!RemoveAt(inbox, n) /\ refused' = refused \cup {inbox[n]}
      /\ UNCHANGED <<made, events, acts, ours, last, told>>
  BY DEF S!Refuse, S!heardVars
<1>4. S!Ids' = S!Ids /\ S!Texts' = S!Texts BY <1>3 DEF S!Ids, S!Texts
<1>5. inbox' \in Seq(S!Texts) /\ \A t \in S!Range(inbox) : t = inbox[n] \/ t \in S!Range(inbox')
  <2> DEFINE T == S!Texts
  <2>1. inbox \in Seq(T) /\ n \in 1 .. Len(inbox) BY <1>1
  <2> HIDE DEF T
  <2>2. inbox' \in Seq(T) /\ \A t \in S!Range(inbox) : t = inbox[n] \/ t \in S!Range(inbox') BY <1>3, <2>1, WithoutOne
  <2> QED BY <2>2 DEF T
<1>6. refused' \subseteq S!Texts
  <2>1. refused \subseteq S!Texts BY StallBare
  <2> QED BY <1>2, <1>3, <2>1
<1>7. StallTypes'
  <2>1. made \in Seq(MadeForms) /\ events \in Seq(EventForms)
        /\ \A k \in DOMAIN events : events[k].is = "act" => events[k].id \in S!Ids
    BY StallBare
  <2>2. \A i \in S!Ids : /\ made[i].kind \in S!AllKinds /\ made[i].chain \in Chains /\ made[i].by \in 0 .. i - 1
                         /\ made[i].open \in BOOLEAN /\ made[i].paused \in BOOLEAN /\ made[i].text \in S!Texts
    BY DEF StallInv, StallTypes, S!TypeOK
  <2> QED BY <1>3, <1>4, <1>5, <1>6, <2>1, <2>2, TypesKeep
<1>8. Messages' BY <1>3, <1>4, MessagesKeep
<1>9. S!TellsAgain' BY <1>3, <1>4, <1>5, TellingsWait
<1>10. Known' /\ EndsSaid' BY <1>3, <1>4 DEF StallInv, Known, EndsSaid, Concerns
<1> QED BY <1>7, <1>8, <1>9, <1>10 DEF StallInv

\* An act of the life is as it was, but for what the life says of it.
LEMMA ActKeeps ==
  ASSUME StallInv, NEW i \in S!Ids, NEW one \in MadeForms,
         one.kind = made[i].kind, one.chain = made[i].chain, one.by = made[i].by, one.text = made[i].text,
         one.open => made[i].open, made' \in Seq(MadeForms), Len(made') = Len(made), made'[i] = one,
         \A j \in S!Ids : j # i => made'[j] = made[j], events' = Append(events, S!Event(i, FALSE)),
         UNCHANGED <<inbox, refused, acts, ours, last, told>>
  PROVE  StallInv'
<1>1. /\ made \in Seq(MadeForms) /\ Len(made) \in Nat /\ S!Ids = 1 .. Len(made) BY StallBare
<1>2. made' \in Seq(MadeForms) /\ Len(made') = Len(made) /\ \A j \in S!Ids : made'[j] = IF j = i THEN one ELSE made[j]
  OBVIOUS
<1>3. S!Ids' = S!Ids /\ S!Texts' = S!Texts
  <2>1. S!Ids' = S!Ids BY <1>1, <1>2 DEF S!Ids
  <2> QED BY <2>1 DEF S!Texts
<1>13. PICK e : e = [is |-> "act", id |-> i, asks |-> FALSE, done |-> ~one.open, paused |-> one.paused] OBVIOUS
<1>4. events' = Append(events, e) BY <1>2, <1>13 DEF S!Event
<1>5. e.is = "act" /\ e.id = i /\ (e.done <=> ~one.open) BY <1>13
<1>6. e \in EventForms
  <2>1. i \in Nat /\ (~one.open) \in BOOLEAN /\ one.paused \in BOOLEAN BY <1>1 DEF MadeForms
  <2> QED BY <1>13, <2>1 DEF EventForms
<1>7. \A j \in S!Ids : /\ made'[j].kind = made[j].kind /\ made'[j].chain = made[j].chain /\ made'[j].by = made[j].by
                       /\ made'[j].text = made[j].text /\ (made'[j].open => made[j].open)
  BY <1>2
<1>8. /\ events' \in Seq(EventForms) /\ (\A k \in DOMAIN events' : events'[k].is = "act" => events'[k].id \in S!Ids')
      /\ Len(events) + 1 \in DOMAIN events' /\ events'[Len(events) + 1] = e
      /\ (\A k \in DOMAIN events : k \in DOMAIN events' /\ events'[k] = events[k])
      /\ Known' /\ EndsSaid'
  <2>1. /\ (e.done <=> ~made'[i].open) /\ i \in S!Ids' /\ S!Ids \subseteq S!Ids' /\ S!Ids' \subseteq S!Ids \cup {i}
        /\ \A j \in S!Ids : j # i => made'[j] = made[j]
    BY <1>2, <1>3, <1>5
  <2>2. acts' = acts /\ (i \in S!Ids => made'[i].kind = made[i].kind /\ (made'[i].open => made[i].open)) BY <1>7
  <2> QED BY <1>4, <1>5, <1>6, <2>1, <2>2, SaysAct
<1>9. StallTypes'
  <2>1. \A j \in S!Ids : made[j].kind \in S!AllKinds /\ made[j].chain \in Chains /\ made[j].by \in 0 .. j - 1
                         /\ made[j].text \in S!Texts
    BY DEF StallInv, StallTypes, S!TypeOK
  <2>2. \A j \in S!Ids : made'[j].open \in BOOLEAN /\ made'[j].paused \in BOOLEAN
    <3>1. \A j \in S!Ids : made'[j] \in MadeForms BY <1>2, StallBare
    <3> QED BY <3>1 DEF MadeForms
  <2>3. inbox' \in Seq(S!Texts') /\ refused' \subseteq S!Texts' BY <1>3, StallBare
  <2>4. \A j \in S!Ids' : /\ made'[j].kind \in S!AllKinds /\ made'[j].chain \in Chains /\ made'[j].by \in 0 .. j - 1
                          /\ made'[j].open \in BOOLEAN /\ made'[j].paused \in BOOLEAN /\ made'[j].text \in S!Texts'
    BY <1>3, <1>7, <2>1, <2>2
  <2> QED BY <1>2, <1>3, <1>8, <2>3, <2>4, TypesKeep
<1>10. Messages' BY <1>3, <1>7, MessagesKeep
<1>11. \A j \in S!Ids :
         /\ made'[j].text = made[j].text
         /\ \/ made[j].open => made'[j].open
            \/ \E k \in DOMAIN events' : events'[k].is = "act" /\ events'[k].id = j /\ events'[k].done
  <2> TAKE j \in S!Ids
  <2>1. CASE j = i /\ ~one.open
    <3>1. e.is = "act" /\ e.id = j /\ e.done BY <1>5, <2>1
    <3>2. PICK k \in DOMAIN events' : events'[k] = e BY <1>8
    <3>3. made'[j].text = made[j].text BY <1>7
    <3> QED BY <3>1, <3>2, <3>3
  <2>2. CASE j = i /\ one.open
    <3>1. made'[j].open BY <1>2, <2>2
    <3> QED BY <1>7, <3>1
  <2>3. CASE j # i BY <1>2, <1>7, <2>3
  <2> QED BY <2>1, <2>2, <2>3
<1>12. S!TellsAgain' BY <1>3, <1>8, <1>11, TellingsWait
<1> QED BY <1>8, <1>9, <1>10, <1>12 DEF StallInv

LEMMA ChangeKeeps == ASSUME StallInv, NEW i \in S!Ids, S!Change(i) \/ S!End(i) PROVE StallInv'
<1>1. made[i] \in MadeForms /\ made \in Seq(MadeForms) /\ S!Ids = 1 .. Len(made) BY StallBare
<1>2. UNCHANGED <<inbox, refused, acts, ours, last, told>> /\ events' = Append(events, S!Event(i, FALSE))
  BY DEF S!Change, S!End, S!heardVars
<1>5. ASSUME NEW one \in MadeForms, made' = [made EXCEPT ![i] = one]
      PROVE  /\ made' \in Seq(MadeForms) /\ Len(made') = Len(made) /\ made'[i] = one
             /\ \A j \in S!Ids : j # i => made'[j] = made[j]
  BY <1>1, <1>5, SetAt
<1>3. CASE S!Change(i)
  <2>1. PICK one : one = [made[i] EXCEPT !.paused = ~made[i].paused] OBVIOUS
  <2>2. /\ one \in MadeForms /\ one.kind = made[i].kind /\ one.chain = made[i].chain /\ one.by = made[i].by
        /\ one.text = made[i].text /\ one.open = made[i].open
    BY <1>1, <2>1 DEF MadeForms
  <2>3. made' = [made EXCEPT ![i] = one] BY <1>3, <2>1 DEF S!Change
  <2>4. /\ made' \in Seq(MadeForms) /\ Len(made') = Len(made) /\ made'[i] = one
        /\ \A j \in S!Ids : j # i => made'[j] = made[j]
    BY <1>5, <2>2, <2>3
  <2> QED BY <1>2, <2>2, <2>4, ActKeeps
<1>4. CASE S!End(i)
  <2>1. PICK one : one = [made[i] EXCEPT !.open = FALSE] OBVIOUS
  <2>2. /\ one \in MadeForms /\ one.kind = made[i].kind /\ one.chain = made[i].chain /\ one.by = made[i].by
        /\ one.text = made[i].text /\ one.open = FALSE
    BY <1>1, <2>1 DEF MadeForms
  <2>3. made' = [made EXCEPT ![i] = one] BY <1>4, <2>1 DEF S!End
  <2>4. /\ made' \in Seq(MadeForms) /\ Len(made') = Len(made) /\ made'[i] = one
        /\ \A j \in S!Ids : j # i => made'[j] = made[j]
    BY <1>5, <2>2, <2>3
  <2> QED BY <1>2, <2>2, <2>4, ActKeeps
<1> QED BY <1>3, <1>4

\* A finite set is listed whole.
LEMMA SetListed ==
  ASSUME NEW X, IsFiniteSet(X), NEW l, l = S!SetToSeq(X)
  PROVE  l \in Seq(X) /\ Len(l) \in Nat /\ DOMAIN l = 1 .. Len(l) /\ \A x \in X : \E k \in DOMAIN l : l[k] = x
<1> PICK n \in Nat : n = Cardinality(X) BY FS_CardinalityType
<1>1. PICK f \in Bijection(1 .. n, X) : TRUE BY FS_CardinalityType DEF ExistsBijection
<1>2. f \in [1 .. n -> X] /\ S!IsInjective(f)
  BY <1>1 DEF Bijection, Injection, IsInjective, S!IsInjective
<1>3. l = CHOOSE g \in [1 .. n -> X] : S!IsInjective(g)
  BY DEF S!SetToSeq, S!Cardinality, Cardinality
<1>4. l \in [1 .. n -> X] /\ S!IsInjective(l) BY <1>2, <1>3
<1>5. l \in Injection(1 .. n, X) BY <1>4 DEF S!IsInjective, Injection, IsInjective
<1>6. Cardinality(1 .. n) = n /\ IsFiniteSet(1 .. n) BY FS_Interval
<1>7. l \in Surjection(1 .. n, X) BY <1>5, <1>6, FS_Injection
<1>8. l \in Seq(X) /\ Len(l) = n /\ DOMAIN l = 1 .. n BY <1>4, IsASeq
<1> QED BY <1>7, <1>8 DEF Surjection

\* The watch tells each stall that is due.
LEMMA TellKeeps == ASSUME StallInv, S!Tell PROVE StallInv'
<1>1. /\ inbox \in Seq(S!Texts) /\ refused \subseteq S!Texts /\ acts \subseteq S!Acts
      /\ told \in [S!Scopes -> ToldForms] /\ Len(inbox) \in Nat /\ S!Ids = 1 .. Len(made) /\ Len(made) \in Nat
  BY StallBare
<1>2. /\ events = <<>> /\ UNCHANGED <<made, events, refused, acts, ours, last>>
      /\ told' = [s \in S!Scopes |-> IF S!Due(s) THEN [is |-> "sent", text |-> S!Text(s)] ELSE told[s]]
      /\ inbox' = inbox \o S!SetToSeq({S!Text(s) : s \in {x \in S!Scopes : S!Due(x)}})
  BY DEF S!Tell
<1>3. S!Ids' = S!Ids /\ S!Texts' = S!Texts /\ S!Acts' = S!Acts BY <1>2 DEF S!Ids, S!Texts, S!Acts
<1>4. ASSUME NEW s \in S!Scopes, S!Due(s)
      PROVE  /\ S!Text(s) \in S!Texts /\ S!Text(s).of = s /\ S!Text(s).acts # {} /\ S!Text(s).acts \subseteq Nat
             /\ S!Text(s) \in [of : S!Scopes, acts : SUBSET Nat]
  <2>1. S!Stalling(s) \subseteq acts /\ S!Stalling(s) # {}
    BY <1>4 DEF S!Due, S!Stalling, S!Lasting, S!Hung, S!On
  <2>2. \A one \in acts : one.id \in S!Ids BY <1>1 DEF S!Acts
  <2> DEFINE d == {one.id : one \in S!Stalling(s)}
  <2>3. d \subseteq S!Ids /\ d # {} /\ d \subseteq Nat BY <1>1, <2>1, <2>2
  <2>4. S!Text(s) = [of |-> s, acts |-> d] BY DEF S!Text
  <2> HIDE DEF d
  <2> QED BY <2>3, <2>4 DEF S!Texts
<1> DEFINE X == {S!Text(s) : s \in {x \in S!Scopes : S!Due(x)}}
<1> PICK more : more = S!SetToSeq(X) OBVIOUS
<1>5. X \subseteq S!Texts BY <1>4
<1>6. IsFiniteSet(X)
  <2> DEFINE D == {x \in S!Scopes : S!Due(x)}
             f == [s \in D |-> S!Text(s)]
  <2>1. IsFiniteSet(S!Scopes)
    <3>1. IsFiniteSet(Chains) BY HostAssumption
    <3> QED BY <3>1, FS_AddElement DEF S!Scopes
  <2>2. IsFiniteSet(D) BY <2>1, FS_Subset
  <2>3. f \in Surjection(D, X) BY DEF Surjection
  <2> HIDE DEF D, f, X
  <2> QED BY <2>2, <2>3, FS_Surjection
<1>7. \A s \in S!Scopes : S!Due(s) => S!Text(s) \in X OBVIOUS
<1>8. inbox' = inbox \o more BY <1>2
<1> HIDE DEF X
<1>9. more \in Seq(X) /\ Len(more) \in Nat /\ DOMAIN more = 1 .. Len(more) /\ \A x \in X : \E k \in DOMAIN more : more[k] = x
  BY <1>6, SetListed
<1>10. /\ inbox' \in Seq(S!Texts) /\ \A t \in S!Range(inbox) : t \in S!Range(inbox')
       /\ \A t \in X : t \in S!Range(inbox')
  <2> DEFINE T == S!Texts
  <2>1. inbox \in Seq(T) /\ more \in Seq(T)
    <3>1. X \subseteq T /\ more \in Seq(X) /\ inbox \in Seq(T) BY <1>1, <1>5, <1>9
    <3> HIDE DEF T
    <3> QED BY <3>1, SeqsGrow
  <2> HIDE DEF T
  <2>2. /\ inbox' \in Seq(T) /\ Len(inbox') = Len(inbox) + Len(more)
        /\ \A k \in 1 .. Len(inbox) + Len(more) :
             inbox'[k] = IF k <= Len(inbox) THEN inbox[k] ELSE more[k - Len(inbox)]
    BY <1>8, <2>1, ConcatProperties
  <2>3. DOMAIN inbox' = 1 .. Len(inbox) + Len(more) /\ DOMAIN inbox = 1 .. Len(inbox) BY <1>1, <1>9, <2>1, <2>2
  <2>4. ASSUME NEW k \in 1 .. Len(inbox) PROVE k \in DOMAIN inbox' /\ inbox'[k] = inbox[k]
    <3>1. k \in 1 .. Len(inbox) + Len(more) /\ k <= Len(inbox) BY <1>1, <1>9
    <3> QED BY <2>2, <2>3, <3>1
  <2>5. ASSUME NEW k \in 1 .. Len(more) PROVE k + Len(inbox) \in DOMAIN inbox' /\ inbox'[k + Len(inbox)] = more[k]
    <3>1. /\ k + Len(inbox) \in 1 .. Len(inbox) + Len(more) /\ ~(k + Len(inbox) <= Len(inbox))
          /\ (k + Len(inbox)) - Len(inbox) = k
      BY <1>1, <1>9
    <3> QED BY <2>2, <2>3, <3>1
  <2>6. \A t \in S!Range(inbox) : t \in S!Range(inbox') BY <2>3, <2>4 DEF S!Range
  <2>7. \A t \in X : t \in S!Range(inbox') BY <1>9, <2>5 DEF S!Range
  <2> QED BY <2>2, <2>6, <2>7 DEF T
<1>11. ASSUME NEW s \in S!Scopes
       PROVE  /\ S!Due(s) => told'[s] = [is |-> "sent", text |-> S!Text(s)] /\ told'[s].is = "sent" /\ told'[s].text = S!Text(s)
              /\ ~S!Due(s) => told'[s] = told[s]
  BY <1>2
<1>12. StallTypes'
  <2>1. told' \in [S!Scopes -> ToldForms]
    <3>1. ASSUME NEW s \in S!Scopes PROVE told'[s] \in ToldForms
      <4>1. CASE S!Due(s)
        <5> DEFINE U == [of : S!Scopes, acts : SUBSET Nat]
        <5> PICK t : t = S!Text(s) OBVIOUS
        <5>1. t \in U /\ told'[s] = [is |-> "sent", text |-> t] BY <1>4, <1>11, <4>1
        <5>2. [is : {"sent"}, text : U] \subseteq ToldForms BY DEF ToldForms
        <5> HIDE DEF U
        <5>3. told'[s] \in [is : {"sent"}, text : U] BY <5>1
        <5> QED BY <5>2, <5>3
      <4>2. CASE ~S!Due(s) BY <1>1, <1>11, <4>2
      <4> QED BY <4>1, <4>2
    <3>2. \E f : told' = [s \in S!Scopes |-> f[s]]
      <4> WITNESS [s \in S!Scopes |-> IF S!Due(s) THEN [is |-> "sent", text |-> S!Text(s)] ELSE told[s]]
      <4> QED BY <1>2
    <3> QED BY <3>1, <3>2
  <2>2. \A s \in S!Scopes : \/ told'[s] \in {S!No, [is |-> "said"]}
                            \/ told'[s].is = "sent" /\ told'[s].text \in S!Texts
                            \/ told'[s].is = "asking" /\ told'[s].prompt \in S!Ids
    <3> TAKE s \in S!Scopes
    <3>1. CASE S!Due(s) BY <1>4, <1>11, <3>1
    <3>2. CASE ~S!Due(s)
      <4>1. \/ told[s] \in {S!No, [is |-> "said"]}
            \/ told[s].is = "sent" /\ told[s].text \in S!Texts
            \/ told[s].is = "asking" /\ told[s].prompt \in S!Ids
        BY DEF StallInv, StallTypes, S!TypeOK
      <4> QED BY <1>11, <3>2, <4>1
    <3> QED BY <3>1, <3>2
  <2>3. S!TypeOK'
    <3>1. S!TypeOK BY DEF StallInv, StallTypes
    <3> QED BY <1>2, <1>3, <1>10, <2>2, <3>1 DEF S!TypeOK, S!Bound
  <2>4. StallTypes BY DEF StallInv
  <2> QED BY <1>2, <1>3, <2>1, <2>3, <2>4 DEF StallTypes
<1>13. Known' /\ EndsSaid' BY <1>2, <1>3 DEF StallInv, Known, EndsSaid, Concerns
<1>14. Messages'
  <2>1. Messages BY DEF StallInv
  <2>2. ASSUME NEW s \in S!Scopes
        PROVE  /\ told'[s].is = "sent" => told'[s].text.of = s /\ told'[s].text.acts # {}
               /\ told'[s].is = "asking" => made[told'[s].prompt].kind = "prompt" /\ s \in {S!LIFE, made[told'[s].prompt].chain}
    <3>1. CASE S!Due(s) BY <1>4, <1>11, <3>1
    <3>2. CASE ~S!Due(s)
      <4>1. /\ told[s].is = "sent" => told[s].text.of = s /\ told[s].text.acts # {}
            /\ told[s].is = "asking" => made[told[s].prompt].kind = "prompt" /\ s \in {S!LIFE, made[told[s].prompt].chain}
        BY <2>1 DEF Messages
      <4>2. told'[s] = told[s] BY <1>11, <3>2
      <4> QED BY <4>1, <4>2
    <3> QED BY <3>1, <3>2
  <2> QED BY <1>2, <1>3, <2>1, <2>2 DEF Messages
<1>15. S!TellsAgain'
  <2>1. S!TellsAgain BY DEF StallInv
  <2>2. ASSUME NEW s \in S!Scopes, told'[s].is = "sent" PROVE told'[s].text \in S!Range(inbox') \cup refused'
    <3>1. CASE S!Due(s) BY <1>7, <1>10, <1>11, <3>1
    <3>2. CASE ~S!Due(s)
      <4>1. told[s] = told'[s] /\ told[s].is = "sent" BY <1>11, <2>2, <3>2
      <4>2. DOMAIN events = {} BY <1>2
      <4>3. told[s].text \in S!Range(inbox) \cup refused BY <2>1, <4>1, <4>2 DEF S!TellsAgain
      <4> PICK t : t = told[s].text OBVIOUS
      <4>4. told'[s].text = t /\ t \in S!Range(inbox) \cup refused /\ refused' = refused BY <1>2, <4>1, <4>3
      <4>5. t \in S!Range(inbox') \cup refused' BY <1>10, <4>4
      <4> QED BY <4>4, <4>5
    <3> QED BY <3>1, <3>2
  <2>3. ASSUME NEW s \in S!Scopes, told'[s].is = "asking" PROVE made[told'[s].prompt].open
    <3>1. ~S!Due(s) BY <1>11, <2>3
    <3>2. told[s] = told'[s] /\ DOMAIN events = {} BY <1>2, <1>11, <3>1
    <3> QED BY <2>1, <2>3, <3>2 DEF S!TellsAgain
  <2> QED BY <1>2, <2>2, <2>3 DEF S!TellsAgain
<1> QED BY <1>12, <1>13, <1>14, <1>15 DEF StallInv

\* Time passes for the watch.
LEMMA TickKeeps == ASSUME StallInv, S!Tick PROVE StallInv'
<1>1. last \in [S!Scopes -> Nat] BY StallBare
<1>2. /\ UNCHANGED <<made, events, inbox, refused, acts, ours, told>>
      /\ last' = [s \in S!Scopes |-> IF last[s] < S!Bound(s) THEN last[s] + 1 ELSE last[s]]
  BY DEF S!Tick
<1>3. S!Ids' = S!Ids /\ S!Texts' = S!Texts /\ S!Acts' = S!Acts BY <1>2 DEF S!Ids, S!Texts, S!Acts
<1>4. \A s \in S!Scopes : last[s] \in 0 .. S!Bound(s) BY DEF StallInv, StallTypes, S!TypeOK
<1>5. last' \in [S!Scopes -> Nat] /\ \A s \in S!Scopes : last'[s] \in 0 .. S!Bound(s)
  <2>1. \A s \in S!Scopes : S!Bound(s) \in Nat BY DEF S!Bound
  <2> QED BY <1>1, <1>2, <1>4, <2>1
<1>6. StallTypes'
  <2>1. StallTypes BY DEF StallInv
  <2>2. \A s \in S!Scopes : S!Bound(s)' = S!Bound(s) BY DEF S!Bound
  <2>3. S!TypeOK' BY <1>2, <1>3, <1>5, <2>1, <2>2 DEF StallTypes, S!TypeOK
  <2> QED BY <1>2, <1>3, <1>5, <2>1, <2>3 DEF StallTypes
<1>7. Known' /\ EndsSaid' /\ Messages' /\ S!TellsAgain'
  <2>1. Known' /\ EndsSaid' BY <1>2, <1>3 DEF StallInv, Known, EndsSaid, Concerns
  <2>2. Messages' BY <1>2, <1>3 DEF StallInv, Messages
  <2>3. S!TellsAgain' BY <1>2 DEF StallInv, S!TellsAgain
  <2> QED BY <2>1, <2>2, <2>3
<1> QED BY <1>6, <1>7 DEF StallInv

\* Two sequences joined.
LEMMA JoinOf ==
  ASSUME NEW T, NEW a \in Seq(T), NEW b \in Seq(T), NEW c, c = a \o b
  PROVE  /\ c \in Seq(T) /\ Len(a) \in Nat /\ Len(b) \in Nat /\ Len(c) = Len(a) + Len(b) /\ DOMAIN c = 1 .. Len(a) + Len(b)
         /\ \A k \in 1 .. Len(a) : k \in DOMAIN c /\ c[k] = a[k]
         /\ \A k \in 1 .. Len(b) : Len(a) + k \in DOMAIN c /\ c[Len(a) + k] = b[k]
         /\ \A k \in DOMAIN c : k \in 1 .. Len(a) \/ (k - Len(a) \in 1 .. Len(b) /\ c[k] = b[k - Len(a)])
<1>1. Len(a) \in Nat /\ Len(b) \in Nat OBVIOUS
<1>2. /\ c \in Seq(T) /\ Len(c) = Len(a) + Len(b)
      /\ \A k \in 1 .. Len(a) + Len(b) : c[k] = IF k <= Len(a) THEN a[k] ELSE b[k - Len(a)]
  BY ConcatProperties
<1>3. DOMAIN c = 1 .. Len(a) + Len(b) BY <1>1, <1>2
<1>4. ASSUME NEW k \in 1 .. Len(a) PROVE k \in DOMAIN c /\ c[k] = a[k]
  <2>1. k \in 1 .. Len(a) + Len(b) /\ k <= Len(a) BY <1>1
  <2> QED BY <1>2, <1>3, <2>1
<1>5. ASSUME NEW k \in 1 .. Len(b) PROVE Len(a) + k \in DOMAIN c /\ c[Len(a) + k] = b[k]
  <2>1. Len(a) + k \in 1 .. Len(a) + Len(b) /\ ~(Len(a) + k <= Len(a)) /\ (Len(a) + k) - Len(a) = k BY <1>1
  <2> QED BY <1>2, <1>3, <2>1
<1>6. ASSUME NEW k \in DOMAIN c PROVE k \in 1 .. Len(a) \/ (k - Len(a) \in 1 .. Len(b) /\ c[k] = b[k - Len(a)])
  <2>1. k \in 1 .. Len(a) \/ (k - Len(a) \in 1 .. Len(b) /\ ~(k <= Len(a))) BY <1>1, <1>3
  <2> QED BY <1>2, <1>3, <2>1
<1> QED BY <1>1, <1>2, <1>3, <1>4, <1>5, <1>6

\* The life is born again, and says again the prompts that live.
LEMMA RebirthKeeps == ASSUME StallInv, S!Rebirth PROVE StallInv'
<1>1. /\ made \in Seq(MadeForms) /\ Len(made) \in Nat /\ S!Ids = 1 .. Len(made) /\ DOMAIN made = 1 .. Len(made)
      /\ events \in Seq(EventForms) /\ Len(events) \in Nat /\ DOMAIN events = 1 .. Len(events)
      /\ \A i \in S!Ids : made[i] \in MadeForms
  BY StallBare
<1>2. \A k \in DOMAIN events : events[k].is = "act" => events[k].id \in S!Ids BY StallBare
<1>51. PICK L : L = {i \in S!Ids : made[i].open /\ made[i].kind \in Asked} OBVIOUS
<1>52. PICK l : l = Listed(L) OBVIOUS
<1>53. PICK again : again = [n \in DOMAIN l |-> S!Event(l[n], FALSE)] OBVIOUS
<1>3. /\ made' = [i \in S!Ids |-> [made[i] EXCEPT !.open = made[i].open /\ made[i].kind \in Asked]]
      /\ events' = events \o <<[is |-> "reborn"]>> \o again
      /\ UNCHANGED <<inbox, refused, acts, ours, last, told>>
  <2>1. l = S!Listed({i \in S!Ids : made[i].open /\ made[i].kind \in {"prompt", "asked"}})
    BY <1>51, <1>52 DEF Asked, S!Listed, Listed, S!Rank, Rank, S!Cardinality, Cardinality
  <2> QED BY <1>53, <2>1 DEF S!Rebirth, S!heardVars, Asked
<1>4. ASSUME NEW i \in S!Ids
      PROVE  /\ made'[i] \in MadeForms /\ made'[i].kind = made[i].kind /\ made'[i].chain = made[i].chain
             /\ made'[i].by = made[i].by /\ made'[i].text = made[i].text /\ made'[i].paused = made[i].paused
             /\ made'[i].open <=> i \in L
  <2>1. made'[i] = [made[i] EXCEPT !.open = made[i].open /\ made[i].kind \in Asked] /\ made[i] \in MadeForms BY <1>1, <1>3
  <2>2. (made[i].open /\ made[i].kind \in Asked) \in BOOLEAN OBVIOUS
  <2>3. made[i].open /\ made[i].kind \in Asked <=> i \in L BY <1>51
  <2> PICK o \in BOOLEAN : o = (made[i].open /\ made[i].kind \in Asked) BY <2>2
  <2>4. made'[i] = [made[i] EXCEPT !.open = o] BY <2>1
  <2>5. [made[i] EXCEPT !.open = o] \in MadeForms BY <2>1 DEF MadeForms
  <2>6. made'[i].open = o BY <2>1, <2>4 DEF MadeForms
  <2>7. /\ made'[i].kind = made[i].kind /\ made'[i].chain = made[i].chain
        /\ made'[i].by = made[i].by /\ made'[i].text = made[i].text /\ made'[i].paused = made[i].paused
    BY <2>1, <2>4 DEF MadeForms
  <2> QED BY <2>3, <2>4, <2>5, <2>6, <2>7
<1>5. made' \in Seq(MadeForms) /\ Len(made') = Len(made) /\ S!Ids' = S!Ids /\ S!Texts' = S!Texts
  <2>1. DOMAIN made' = 1 .. Len(made) BY <1>1, <1>3
  <2>2. made' \in [1 .. Len(made) -> MadeForms]
    <3>1. made' = [i \in 1 .. Len(made) |-> made'[i]] BY <1>1, <1>3
    <3> QED BY <1>1, <1>4, <3>1
  <2>3. made' \in Seq(MadeForms) /\ Len(made') = Len(made) BY <1>1, <2>2, IsASeq
  <2>4. S!Ids' = S!Ids BY <1>1, <2>3 DEF S!Ids
  <2> QED BY <2>3, <2>4 DEF S!Texts
<1>6. /\ l \in Seq(L) /\ Len(l) \in Nat /\ DOMAIN l = 1 .. Len(l)
      /\ \A i \in L : \E n \in DOMAIN l : l[n] = i
  <2>1. L \in SUBSET Int /\ IsFiniteSet(L)
    <3>1. L \subseteq 1 .. Len(made) BY <1>1, <1>51
    <3>2. IsFiniteSet(1 .. Len(made)) BY <1>1, FS_Interval
    <3>3. IsFiniteSet(L) BY <3>1, <3>2, FS_Subset
    <3> QED BY <1>1, <3>1, <3>3
  <2>2. /\ Cardinality(L) \in Nat /\ l \in Seq(L) /\ Len(l) = Cardinality(L)
        /\ \A n \in L : \E k \in 1 .. Len(l) : l[k] = n
    BY <1>52, <2>1, ListedWhole
  <2>3. Len(l) \in Nat /\ DOMAIN l = 1 .. Len(l) BY <2>2
  <2> QED BY <2>2, <2>3
<1>7. \A n \in DOMAIN l : l[n] \in L /\ l[n] \in S!Ids
  <2>1. \A n \in DOMAIN l : l[n] \in L BY <1>6, ElementOfSeq
  <2>2. L \subseteq S!Ids BY <1>51
  <2> QED BY <2>1, <2>2
<1>8. \A i \in L : /\ S!Event(i, FALSE) \in EventForms /\ S!Event(i, FALSE).is = "act" /\ S!Event(i, FALSE).id = i
                   /\ S!Event(i, FALSE).done = FALSE
  <2> TAKE i \in L
  <2>1. made'[i].open = TRUE /\ made'[i].paused \in BOOLEAN /\ i \in Nat
    <3>1. made'[i] \in MadeForms /\ made'[i].open /\ i \in S!Ids BY <1>4, <1>51
    <3> QED BY <1>1, <3>1 DEF MadeForms
  <2>2. S!Event(i, FALSE) = [is |-> "act", id |-> i, asks |-> FALSE, done |-> FALSE, paused |-> made'[i].paused]
    BY <2>1 DEF S!Event
  <2> PICK p \in BOOLEAN : p = made'[i].paused BY <2>1
  <2> PICK e : e = [is |-> "act", id |-> i, asks |-> FALSE, done |-> FALSE, paused |-> p] OBVIOUS
  <2>3. e \in EventForms /\ e.is = "act" /\ e.id = i /\ e.done = FALSE BY <2>1 DEF EventForms
  <2> QED BY <2>2, <2>3
<1>9. /\ again \in Seq(EventForms) /\ Len(again) = Len(l) /\ DOMAIN again = 1 .. Len(l)
      /\ \A n \in 1 .. Len(l) : again[n] = S!Event(l[n], FALSE)
  <2>1. \A n \in 1 .. Len(l) : S!Event(l[n], FALSE) \in EventForms BY <1>6, <1>7, <1>8
  <2>2. again \in [1 .. Len(l) -> EventForms] BY <1>6, <1>53, <2>1
  <2>3. Len(l) \in Nat BY <1>6
  <2>4. again \in Seq(EventForms) /\ Len(again) = Len(l) BY <2>2, <2>3, IsASeq
  <2>5. \A n \in 1 .. Len(l) : again[n] = S!Event(l[n], FALSE) BY <1>6, <1>53
  <2>6. DOMAIN again = 1 .. Len(l) BY <2>2
  <2> QED BY <2>4, <2>5, <2>6
<1>54. PICK born : born = [is |-> "reborn"] OBVIOUS
<1>10. born \in EventForms /\ born.is = "reborn" BY <1>54 DEF EventForms
<1>57. PICK m0 \in Nat : m0 = Len(events) + 1 BY <1>1
<1>55. PICK b : b = <<born>> OBVIOUS
<1>56. PICK upto : upto = events \o b OBVIOUS
<1>11. /\ upto \in Seq(EventForms) /\ Len(upto) = m0 /\ upto[m0] = born
       /\ \A k \in 1 .. Len(events) : upto[k] = events[k]
  <2>1. b \in Seq(EventForms) /\ Len(b) = 1 /\ b[1] = born BY <1>10, <1>55
  <2>2. events \in Seq(EventForms) BY <1>1
  <2>3. /\ upto \in Seq(EventForms) /\ Len(upto) = Len(events) + Len(b)
        /\ \A k \in 1 .. Len(events) : upto[k] = events[k]
        /\ \A k \in 1 .. Len(b) : upto[Len(events) + k] = b[k]
    <3>1. b \in Seq(EventForms) BY <2>1
    <3>2. upto = events \o b BY <1>56
    <3> QED BY <2>2, <3>1, <3>2, JoinOf
  <2>4. 1 \in 1 .. Len(b) BY <2>1
  <2> QED BY <1>57, <2>1, <2>3, <2>4
<1>12. /\ events' \in Seq(EventForms) /\ DOMAIN events' = 1 .. m0 + Len(l)
       /\ \A k \in 1 .. m0 : k \in DOMAIN events' /\ events'[k] = upto[k]
       /\ \A n \in 1 .. Len(l) : m0 + n \in DOMAIN events' /\ events'[m0 + n] = S!Event(l[n], FALSE)
       /\ \A k \in DOMAIN events' : k \in 1 .. m0 \/ (k - m0 \in 1 .. Len(l) /\ events'[k] = S!Event(l[k - m0], FALSE))
  <2>1. upto \in Seq(EventForms) /\ again \in Seq(EventForms) BY <1>9, <1>11
  <2>2. events' = upto \o again BY <1>3, <1>54, <1>55, <1>56
  <2>3. /\ events' \in Seq(EventForms) /\ DOMAIN events' = 1 .. Len(upto) + Len(again)
        /\ \A k \in 1 .. Len(upto) : k \in DOMAIN events' /\ events'[k] = upto[k]
        /\ \A n \in 1 .. Len(again) : Len(upto) + n \in DOMAIN events' /\ events'[Len(upto) + n] = again[n]
        /\ \A k \in DOMAIN events' :
             k \in 1 .. Len(upto) \/ (k - Len(upto) \in 1 .. Len(again) /\ events'[k] = again[k - Len(upto)])
    BY <2>1, <2>2, JoinOf
  <2>4. Len(upto) = m0 /\ Len(again) = Len(l) BY <1>9, <1>11
  <2>5. /\ \A n \in 1 .. Len(l) : m0 + n \in DOMAIN events' /\ events'[m0 + n] = again[n]
        /\ \A k \in DOMAIN events' : k \in 1 .. m0 \/ (k - m0 \in 1 .. Len(l) /\ events'[k] = again[k - m0])
    BY <2>3, <2>4
  <2> QED BY <1>9, <2>3, <2>4, <2>5
<1>13. m0 \in DOMAIN events' /\ \A k \in DOMAIN events' : k \in Nat
  <2>1. m0 \in 1 .. m0 BY <1>1, <1>57
  <2> QED BY <1>6, <1>12, <2>1
<1>14. ASSUME NEW k \in DOMAIN events PROVE k \in DOMAIN events' /\ events'[k] = events[k] /\ k < m0
  <2>1. k \in 1 .. m0 /\ k < m0 /\ k \in 1 .. Len(events) BY <1>1, <1>57
  <2> QED BY <1>11, <1>12, <2>1
<1>15. events'[m0] = born
  <2>1. m0 \in 1 .. m0 BY <1>1, <1>57
  <2> QED BY <1>11, <1>12, <2>1
<1>16. ASSUME NEW i \in L
       PROVE  \E k \in DOMAIN events' : k > m0 /\ events'[k].is = "act" /\ events'[k].id = i /\ events'[k].done = FALSE
  <2>1. PICK n \in 1 .. Len(l) : l[n] = i BY <1>6
  <2>2. m0 + n > m0 BY <1>6
  <2>3. m0 + n \in DOMAIN events' /\ events'[m0 + n] = S!Event(i, FALSE) BY <1>12, <2>1
  <2> QED BY <1>8, <2>2, <2>3
<1>17. ASSUME NEW k \in DOMAIN events'
       PROVE  \/ k \in DOMAIN events
              \/ k = m0
              \/ k > m0 /\ events'[k].is = "act" /\ events'[k].id \in L /\ events'[k].done = FALSE
  <2>1. CASE k \in 1 .. m0 BY <1>1, <1>57, <2>1
  <2>2. CASE k - m0 \in 1 .. Len(l) /\ events'[k] = S!Event(l[k - m0], FALSE)
    <3>1. k > m0 BY <1>6, <1>13, <2>2
    <3> PICK j : j = l[k - m0] OBVIOUS
    <3>2. j \in L BY <1>6, <1>7, <2>2
    <3>3. events'[k] = S!Event(j, FALSE) BY <2>2
    <3> QED BY <1>8, <3>1, <3>2, <3>3
  <2> QED BY <1>12, <2>1, <2>2
<1>18. \A k \in DOMAIN events' : events'[k].is = "act" => events'[k].id \in S!Ids'
  <2> TAKE k \in DOMAIN events'
  <2>1. CASE k \in DOMAIN events BY <1>2, <1>5, <1>14, <2>1
  <2>2. CASE k = m0 BY <1>10, <1>15, <2>2
  <2>3. CASE events'[k].id \in L BY <1>5, <1>51, <2>3
  <2> QED BY <1>17, <2>1, <2>2, <2>3
<1>19. StallTypes'
  <2>1. \A i \in S!Ids : made[i].kind \in S!AllKinds /\ made[i].chain \in Chains /\ made[i].by \in 0 .. i - 1
                         /\ made[i].text \in S!Texts
    BY DEF StallInv, StallTypes, S!TypeOK
  <2>2. \A i \in S!Ids : made'[i].open \in BOOLEAN /\ made'[i].paused \in BOOLEAN
    <3>1. \A i \in S!Ids : made'[i] \in MadeForms BY <1>4
    <3> QED BY <3>1 DEF MadeForms
  <2>3. inbox' \in Seq(S!Texts') /\ refused' \subseteq S!Texts' BY <1>3, <1>5, StallBare
  <2>4. \A i \in S!Ids' : /\ made'[i].kind \in S!AllKinds /\ made'[i].chain \in Chains /\ made'[i].by \in 0 .. i - 1
                          /\ made'[i].open \in BOOLEAN /\ made'[i].paused \in BOOLEAN /\ made'[i].text \in S!Texts'
    BY <1>4, <1>5, <2>1, <2>2
  <2> QED BY <1>3, <1>5, <1>12, <1>18, <2>3, <2>4, TypesKeep
<1>20. Known'
  <2>1. ASSUME NEW i \in S!Ids', NEW k \in DOMAIN events', Concerns(k, i)',
               \A m \in DOMAIN events' : Concerns(m, i)' => m <= k
        PROVE  made'[i].open <=> events'[k].is = "act" /\ ~events'[k].done
    <3>1. Concerns(m0, i)' BY <1>10, <1>15 DEF Concerns
    <3>2. m0 <= k BY <1>13, <2>1, <3>1
    <3>3. ASSUME i \in L PROVE k > m0
      <4>1. PICK m \in DOMAIN events' : m > m0 /\ events'[m].id = i BY <1>16, <3>3
      <4>2. m <= k BY <2>1, <4>1 DEF Concerns
      <4> QED BY <1>13, <4>1, <4>2
    <3>4. CASE k = m0
      <4>1. i \notin L BY <3>3, <3>4
      <4>2. ~made'[i].open BY <1>4, <1>5, <4>1
      <4> QED BY <1>10, <1>15, <3>4, <4>2
    <3>5. CASE k # m0
      <4>1. k \notin DOMAIN events BY <1>13, <1>14, <3>2
      <4>2. events'[k].is = "act" /\ events'[k].id \in L /\ events'[k].done = FALSE BY <1>17, <3>5, <4>1
      <4>3. events'[k].id = i BY <2>1, <4>2 DEF Concerns
      <4> QED BY <1>4, <1>5, <4>2, <4>3
    <3> QED BY <3>4, <3>5
  <2>2. ASSUME NEW i \in S!Ids' PROVE Concerns(m0, i)' BY <1>10, <1>15 DEF Concerns
  <2> QED BY <1>13, <2>1, <2>2 DEF Known
<1>21. EndsSaid'
  <2> SUFFICES ASSUME NEW k \in DOMAIN events', events'[k].is = "act", ~events'[k].done,
                      made'[events'[k].id].kind \in Asked, ~made'[events'[k].id].open
               PROVE  \E m \in DOMAIN events' : m > k /\ events'[m].is = "act" /\ events'[m].id = events'[k].id /\ events'[m].done
    BY DEF EndsSaid
  <2>1. CASE k \in DOMAIN events
    <3>1. events'[k] = events[k] /\ events[k].id \in S!Ids BY <1>2, <1>14, <2>1
    <3>2. events[k].id \notin L /\ made[events[k].id].kind \in Asked BY <1>4, <3>1
    <3>3. ~made[events[k].id].open BY <1>51, <3>1, <3>2
    <3>4. PICK m \in DOMAIN events : m > k /\ events[m].is = "act" /\ events[m].id = events[k].id /\ events[m].done
      BY <2>1, <3>1, <3>2, <3>3 DEF StallInv, EndsSaid
    <3> QED BY <1>14, <3>1, <3>4
  <2>2. CASE k = m0 BY <1>10, <1>15, <2>2
  <2>3. CASE events'[k].id \in L BY <1>4, <1>51, <2>3
  <2> QED BY <1>17, <2>1, <2>2, <2>3
<1>22. Messages' BY <1>3, <1>4, <1>5, MessagesKeep
<1>23. S!TellsAgain'
  <2>1. \A i \in S!Ids : made'[i].text = made[i].text /\ (made[i].kind = "prompt" /\ made[i].open => made'[i].open)
    BY <1>4, <1>51 DEF Asked
  <2> QED BY <1>3, <1>5, <1>14, <2>1, TellingsWait
<1> QED BY <1>19, <1>20, <1>21, <1>22, <1>23 DEF StallInv

\* What an act that the watch hears makes of what it told.
LEMMA HearTold ==
  ASSUME StallInv, events # <<>>, events[1].is = "act", NEW after,
         after = [s \in S!Scopes |->
                    IF s \in {S!LIFE, made[events[1].id].chain}
                    THEN S!After(s, S!Fact(events[1]).told[s], events[1], events[1].id \in S!Fact(events[1]).ours)
                    ELSE S!Fact(events[1]).told[s]]
  PROVE  /\ S!Fact(events[1]).ours \subseteq S!Ids
         /\ after \in [S!Scopes -> ToldForms]
         /\ \A s \in S!Scopes :
              \/ after[s] \in {S!No, [is |-> "said"]}
              \/ /\ after[s] = told[s]
                 /\ told[s].is = "sent" => ~events[1].asks \/ made[events[1].id].text # told[s].text
                 /\ told[s].is = "asking" => ~(events[1].id = told[s].prompt /\ events[1].done)
              \/ /\ after[s].is = "asking" /\ after[s].prompt = events[1].id
                 /\ made[events[1].id].kind = "prompt" /\ s \in {S!LIFE, made[events[1].id].chain} /\ ~events[1].done
<1>1. /\ events \in Seq(EventForms) /\ told \in [S!Scopes -> ToldForms] /\ ours \subseteq S!Ids
      /\ S!Ids = 1 .. Len(made) /\ Len(made) \in Nat
  BY StallBare
<1>2. PICK e : e = events[1] OBVIOUS
<1>3. e \in EventForms /\ e.is = "act" /\ e.id \in S!Ids /\ made[e.id] \in MadeForms /\ e.id \in Nat
  <2>1. 1 \in DOMAIN events /\ e \in EventForms BY <1>1, <1>2, RestOf
  <2>2. e.id \in S!Ids BY <1>2, <2>1, StallBare
  <2> QED BY <1>1, <1>2, <2>1, <2>2, StallBare
<1>4. PICK a : a = made[e.id] OBVIOUS
<1>5. a.chain \in Chains /\ e.done \in BOOLEAN /\ e.asks \in BOOLEAN /\ e.id \in Nat
  <2>1. e \in [is : {"act"}, id : Nat, asks : BOOLEAN, done : BOOLEAN, paused : BOOLEAN]
    BY <1>3 DEF EventForms
  <2> QED BY <1>3, <1>4, <2>1 DEF MadeForms
<1>6. PICK mine : mine = (e.id \in S!Fact(e).ours) OBVIOUS
<1>7. after = [s \in S!Scopes |-> IF s \in {S!LIFE, a.chain} THEN S!After(s, S!Fact(e).told[s], e, mine) ELSE S!Fact(e).told[s]]
  BY <1>2, <1>4, <1>6
<1>8. S!Fact(e).ours \subseteq S!Ids
  <2>1. S!Fact(e).ours \subseteq ours \cup {e.id} BY DEF S!Fact
  <2> QED BY <1>1, <1>3, <2>1
<1>9. PICK new : new = [is |-> "asking", prompt |-> e.id, chain |-> a.chain] OBVIOUS
<1>10. new \in ToldForms /\ new.is = "asking" /\ new.prompt = e.id
  <2>1. new \in [is : {"asking"}, prompt : Nat, chain : Chains] BY <1>5, <1>9
  <2> QED BY <1>9, <2>1 DEF ToldForms
<1>11. ASSUME NEW s \in S!Scopes
       PROVE  \/ S!Fact(e).told[s] = told[s] /\ (told[s].is = "sent" => ~e.asks \/ a.text # told[s].text)
              \/ S!Fact(e).told[s] = new /\ a.kind = "prompt" /\ s \in {S!LIFE, a.chain}
  <2>1. CASE ~e.asks
    <3>1. S!Fact(e).told = told BY <2>1 DEF S!Fact
    <3> QED BY <2>1, <3>1
  <2>2. CASE e.asks /\ S!SentTo(a.text) = {}
    <3>1. S!Fact(e).told = told BY <1>4, <2>2 DEF S!Fact
    <3>2. ASSUME told[s].is = "sent", a.text = told[s].text PROVE FALSE
      <4>1. told[s].text.acts # {} BY <3>2 DEF StallInv, Messages
      <4>2. told[s].text # S!NoText BY <4>1 DEF S!NoText
      <4>3. s \in S!SentTo(a.text) BY <3>2, <4>2 DEF S!SentTo, S!Sent
      <4> QED BY <2>2, <4>3
    <3> QED BY <3>1, <3>2
  <2>3. CASE e.asks /\ S!SentTo(a.text) # {}
    <3>1. S!Fact(e).told = [x \in S!Scopes |-> IF x \in S!SentTo(a.text) THEN new ELSE told[x]]
      BY <1>4, <1>9, <2>3 DEF S!Fact
    <3>2. CASE s \in S!SentTo(a.text)
      <4>1. a.text # S!NoText /\ told[s].is = "sent" /\ told[s].text = a.text BY <3>2 DEF S!SentTo, S!Sent
      <4>2. a.text.of = s BY <4>1 DEF StallInv, Messages
      <4>3. a.kind = "prompt" /\ a.chain = IF a.text.of = S!LIFE THEN Root ELSE a.text.of
        BY <1>3, <1>4, <4>1 DEF StallInv, Messages
      <4>4. S!Fact(e).told[s] = new BY <3>1, <3>2
      <4> QED BY <4>2, <4>3, <4>4
    <3>3. CASE s \notin S!SentTo(a.text)
      <4>1. S!Fact(e).told[s] = told[s] BY <3>1, <3>3
      <4>2. ASSUME told[s].is = "sent", a.text = told[s].text PROVE FALSE
        <5>1. told[s].text.acts # {} BY <4>2 DEF StallInv, Messages
        <5>2. told[s].text # S!NoText BY <5>1 DEF S!NoText
        <5> QED BY <3>3, <4>2, <5>2 DEF S!SentTo, S!Sent
      <4> QED BY <4>1, <4>2
    <3> QED BY <3>2, <3>3
  <2> QED BY <2>1, <2>2, <2>3
<1>12. ASSUME NEW s \in S!Scopes
       PROVE  /\ after[s] \in ToldForms
              /\ \/ after[s] \in {S!No, [is |-> "said"]}
                 \/ /\ after[s] = told[s]
                    /\ told[s].is = "sent" => ~e.asks \/ a.text # told[s].text
                    /\ told[s].is = "asking" => ~(e.id = told[s].prompt /\ e.done)
                 \/ /\ after[s].is = "asking" /\ after[s].prompt = e.id
                    /\ a.kind = "prompt" /\ s \in {S!LIFE, a.chain} /\ ~e.done
  <2>1. PICK now : now = S!Fact(e).told[s] OBVIOUS
  <2>2. told[s] \in ToldForms /\ S!No \in ToldForms /\ [is |-> "said"] \in ToldForms BY <1>1 DEF ToldForms
  <2>3. \/ after[s] \in {S!No, [is |-> "said"]}
        \/ after[s] = now /\ (s \in {S!LIFE, a.chain} => ~(now.is = "asking" /\ now.prompt = e.id /\ e.done))
    <3>1. after[s] = IF s \in {S!LIFE, a.chain} THEN S!After(s, now, e, mine) ELSE now BY <1>7, <2>1
    <3>2. S!After(s, now, e, mine) = IF now.is = "asking" /\ now.prompt = e.id /\ e.done THEN [is |-> "said"]
                                     ELSE IF mine \/ (s = S!LIFE /\ now.is = "asking" /\ now.chain = made[e.id].chain) THEN now
                                     ELSE S!No
      BY DEF S!After
    <3> QED BY <3>1, <3>2
  <2>4. CASE after[s] \in {S!No, [is |-> "said"]} BY <2>2, <2>4
  <2>5. CASE after[s] = now /\ (s \in {S!LIFE, a.chain} => ~(now.is = "asking" /\ now.prompt = e.id /\ e.done))
    <3>1. CASE now = new /\ a.kind = "prompt" /\ s \in {S!LIFE, a.chain}
      BY <1>10, <2>5, <3>1
    <3>2. CASE now = told[s] /\ (told[s].is = "sent" => ~e.asks \/ a.text # told[s].text)
      <4>1. ASSUME told[s].is = "asking", e.id = told[s].prompt, e.done PROVE FALSE
        <5>1. s \in {S!LIFE, a.chain} BY <1>4, <4>1 DEF StallInv, Messages
        <5> QED BY <2>5, <3>2, <4>1, <5>1
      <4> QED BY <2>2, <2>5, <3>2, <4>1
    <3> QED BY <1>11, <2>1, <3>1, <3>2
  <2> QED BY <2>3, <2>4, <2>5
<1>13. after \in [S!Scopes -> ToldForms]
  <2>1. after = [s \in S!Scopes |-> after[s]] BY <1>7
  <2> QED BY <1>12, <2>1
<1> QED BY <1>2, <1>4, <1>8, <1>12, <1>13

\* The watch hears an event of the life.
LEMMA HearKeeps == ASSUME StallInv, S!Hear PROVE StallInv'
<1>1. /\ made \in Seq(MadeForms) /\ Len(made) \in Nat /\ S!Ids = 1 .. Len(made)
      /\ events \in Seq(EventForms) /\ Len(events) \in Nat /\ DOMAIN events = 1 .. Len(events)
      /\ \A k \in DOMAIN events : events[k].is = "act" => events[k].id \in S!Ids
      /\ inbox \in Seq(S!Texts) /\ refused \subseteq S!Texts /\ acts \subseteq S!Acts /\ ours \subseteq S!Ids
      /\ \A one, other \in acts : one.id = other.id => one = other
      /\ told \in [S!Scopes -> ToldForms] /\ last \in [S!Scopes -> Nat]
  BY StallBare
<1>2. events # <<>> /\ events' = Tail(events) /\ UNCHANGED <<made, inbox, refused>> BY DEF S!Hear
<1>3. S!Ids' = S!Ids /\ S!Texts' = S!Texts /\ S!Acts' = S!Acts BY <1>2 DEF S!Ids, S!Texts, S!Acts
<1>4. /\ Len(events) \in Nat \ {0} /\ events[1] \in EventForms /\ events' \in Seq(EventForms)
      /\ DOMAIN events' = 1 .. Len(events) - 1
      /\ \A k \in DOMAIN events' : k + 1 \in DOMAIN events /\ events'[k] = events[k + 1]
      /\ \A k \in DOMAIN events : k = 1 \/ (k - 1 \in DOMAIN events' /\ events[k] = events'[k - 1])
  <2>1. events \in Seq(EventForms) /\ events # <<>> BY <1>1, <1>2
  <2>2. /\ Len(events) \in Nat \ {0} /\ events[1] \in EventForms /\ Tail(events) \in Seq(EventForms)
        /\ DOMAIN Tail(events) = 1 .. Len(events) - 1
        /\ \A k \in 1 .. Len(events) - 1 : k + 1 \in 1 .. Len(events) /\ Tail(events)[k] = events[k + 1]
        /\ \A k \in 1 .. Len(events) : k = 1 \/ (k - 1 \in 1 .. Len(events) - 1 /\ events[k] = Tail(events)[k - 1])
    BY <2>1, RestOf
  <2> QED BY <1>1, <1>2, <2>2
<1>5. 1 \in DOMAIN events /\ \A k \in DOMAIN events' : k \in Nat /\ k + 1 \in Nat BY <1>1, <1>4
<1>6. \A k \in DOMAIN events' : events'[k].is = "act" => events'[k].id \in S!Ids' BY <1>1, <1>3, <1>4
<1>7. Head(events) = events[1] BY <1>1, <1>2
<1>8. \A i : \A k \in DOMAIN events' : Concerns(k, i)' <=> Concerns(k + 1, i) BY <1>4 DEF Concerns
<1>9. EndsSaid'
  <2> SUFFICES ASSUME NEW k \in DOMAIN events', events'[k].is = "act", ~events'[k].done,
                      made[events'[k].id].kind \in Asked, ~made[events'[k].id].open
               PROVE  \E m \in DOMAIN events' : m > k /\ events'[m].is = "act" /\ events'[m].id = events'[k].id /\ events'[m].done
    BY <1>2 DEF EndsSaid
  <2>1. PICK m \in DOMAIN events : m > k + 1 /\ events[m].is = "act" /\ events[m].id = events[k + 1].id /\ events[m].done
    BY <1>4 DEF StallInv, EndsSaid
  <2>2. m # 1 /\ m - 1 > k BY <1>1, <1>5, <2>1
  <2>3. m - 1 \in DOMAIN events' /\ events'[m - 1] = events[m] /\ events'[k] = events[k + 1] BY <1>4, <2>2
  <2> QED BY <2>1, <2>2, <2>3
<1>10. ASSUME NEW i \in S!Ids, NEW k \in DOMAIN events', Concerns(k, i)', \A m \in DOMAIN events' : Concerns(m, i)' => m <= k
       PROVE  made[i].open <=> events'[k].is = "act" /\ ~events'[k].done
  <2>1. k + 1 \in DOMAIN events /\ events'[k] = events[k + 1] /\ Concerns(k + 1, i) BY <1>4, <1>8, <1>10
  <2>2. ASSUME NEW m \in DOMAIN events, Concerns(m, i) PROVE m <= k + 1
    <3>1. CASE m = 1 BY <1>4, <1>10, <3>1
    <3>2. CASE m # 1
      <4>1. m - 1 \in DOMAIN events' /\ (m - 1) + 1 = m BY <1>1, <1>4, <3>2
      <4>2. Concerns(m - 1, i)' BY <1>8, <2>2, <4>1
      <4>3. m - 1 <= k BY <1>10, <4>1, <4>2
      <4> QED BY <1>1, <1>5, <4>3
    <3> QED BY <3>1, <3>2
  <2> QED BY <2>1, <2>2 DEF StallInv, Known
<1>11. ASSUME NEW i \in S!Ids, \A k \in DOMAIN events' : ~Concerns(k, i)'
       PROVE  /\ Concerns(1, i) => (made[i].open <=> events[1].is = "act" /\ ~events[1].done)
              /\ ~Concerns(1, i) => (made[i].open <=> \E one \in acts : one.id = i)
  <2>1. \A m \in DOMAIN events : Concerns(m, i) => m = 1
    <3> TAKE m \in DOMAIN events
    <3>1. CASE m # 1
      <4>1. m - 1 \in DOMAIN events' /\ (m - 1) + 1 = m BY <1>1, <1>4, <3>1
      <4> QED BY <1>8, <1>11, <4>1
    <3> QED BY <3>1
  <2>2. ASSUME Concerns(1, i) PROVE made[i].open <=> events[1].is = "act" /\ ~events[1].done
    <3>1. \A m \in DOMAIN events : Concerns(m, i) => m <= 1 BY <2>1
    <3> QED BY <1>5, <2>2, <3>1 DEF StallInv, Known
  <2>3. ASSUME ~Concerns(1, i) PROVE made[i].open <=> \E one \in acts : one.id = i
    <3>1. \A m \in DOMAIN events : ~Concerns(m, i) BY <2>1, <2>3
    <3> QED BY <3>1 DEF StallInv, Known
  <2> QED BY <2>2, <2>3
<1>12. inbox' \in Seq(S!Texts') /\ refused' \subseteq S!Texts'
       /\ \A i \in S!Ids' : /\ made'[i].kind \in S!AllKinds /\ made'[i].chain \in Chains /\ made'[i].by \in 0 .. i - 1
                            /\ made'[i].open \in BOOLEAN /\ made'[i].paused \in BOOLEAN /\ made'[i].text \in S!Texts'
  BY <1>1, <1>2, <1>3 DEF StallInv, StallTypes, S!TypeOK
<1>13. CASE events[1].is = "reborn"
  <2>1. acts' = {} /\ UNCHANGED <<ours, last, told>> BY <1>7, <1>13 DEF S!Hear
  <2>2. StallTypes'
    <3>1. StallTypes BY DEF StallInv
    <3>2. S!TypeOK' BY <1>2, <1>3, <1>12, <2>1, <3>1 DEF StallTypes, S!TypeOK, S!Bound
    <3> QED BY <1>1, <1>2, <1>4, <1>6, <2>1, <3>2 DEF StallTypes
  <2>3. Known'
    <3>1. ASSUME NEW i \in S!Ids, \A k \in DOMAIN events' : ~Concerns(k, i)'
          PROVE  made[i].open <=> \E one \in acts' : one.id = i
      <4>1. Concerns(1, i) BY <1>13 DEF Concerns
      <4>2. ~made[i].open BY <1>11, <1>13, <3>1, <4>1
      <4> QED BY <2>1, <4>2
    <3> QED BY <1>2, <1>3, <1>10, <3>1 DEF Known
  <2>4. Messages' BY <1>2, <1>3, <2>1 DEF StallInv, Messages
  <2>5. S!TellsAgain'
    <3>1. S!TellsAgain BY DEF StallInv
    <3>2. \A k \in DOMAIN events : events[k].is = "act" => k - 1 \in DOMAIN events' /\ events'[k - 1] = events[k]
      BY <1>4, <1>13
    <3>3. ASSUME NEW s \in S!Scopes, told[s].is = "sent"
          PROVE  \/ told[s].text \in S!Range(inbox) \cup refused
                 \/ \E k \in DOMAIN events' : events'[k].is = "act" /\ events'[k].asks /\ made[events'[k].id].text = told[s].text
      <4>1. CASE \E k \in DOMAIN events : events[k].is = "act" /\ events[k].asks /\ made[events[k].id].text = told[s].text
        <5>1. PICK k \in DOMAIN events : events[k].is = "act" /\ events[k].asks /\ made[events[k].id].text = told[s].text BY <4>1
        <5>2. k - 1 \in DOMAIN events' /\ events'[k - 1] = events[k] BY <3>2, <5>1
        <5> QED BY <5>1, <5>2
      <4> QED BY <3>1, <3>3, <4>1 DEF S!TellsAgain
    <3>4. ASSUME NEW s \in S!Scopes, told[s].is = "asking"
          PROVE  \/ made[told[s].prompt].open
                 \/ \E k \in DOMAIN events' : events'[k].is = "act" /\ events'[k].id = told[s].prompt /\ events'[k].done
      <4>1. CASE \E k \in DOMAIN events : events[k].is = "act" /\ events[k].id = told[s].prompt /\ events[k].done
        <5>1. PICK k \in DOMAIN events : events[k].is = "act" /\ events[k].id = told[s].prompt /\ events[k].done BY <4>1
        <5>2. k - 1 \in DOMAIN events' /\ events'[k - 1] = events[k] BY <3>2, <5>1
        <5> QED BY <5>1, <5>2
      <4> QED BY <3>1, <3>4, <4>1 DEF S!TellsAgain
    <3> QED BY <1>2, <2>1, <3>3, <3>4 DEF S!TellsAgain
  <2> QED BY <1>9, <2>2, <2>3, <2>4, <2>5 DEF StallInv
<1>14. CASE events[1].is = "act"
  <2>1. PICK e : e = events[1] OBVIOUS
  <2>2. e.is = "act" /\ e.id \in S!Ids /\ made[e.id] \in MadeForms /\ e \in EventForms
    BY <1>1, <1>4, <1>5, <1>14, <2>1, StallBare
  <2>3. e.done \in BOOLEAN /\ e.asks \in BOOLEAN /\ e.paused \in BOOLEAN /\ e.id \in Nat
    <3>1. e \in [is : {"act"}, id : Nat, asks : BOOLEAN, done : BOOLEAN, paused : BOOLEAN] BY <2>2 DEF EventForms
    <3> QED BY <3>1
  <2>4. S!HearAct(e) BY <1>7, <1>14, <2>1 DEF S!Hear
  <2>5. acts' = S!Others(e) \cup S!Lives(e) BY <2>4 DEF S!HearAct
  <2>6. PICK held : held = [id |-> e.id, kind |-> made[e.id].kind, chain |-> made[e.id].chain, paused |-> e.paused] OBVIOUS
  <2>7. held \in S!Acts /\ held.id = e.id
    <3>1. made[e.id].kind \in S!AllKinds /\ made[e.id].chain \in Chains BY <2>2 DEF MadeForms
    <3> QED BY <2>2, <2>3, <2>6, <3>1 DEF S!Acts
  <2>8. acts' = {one \in acts : one.id # e.id} \cup (IF e.done THEN {} ELSE {held})
    BY <2>5, <2>6 DEF S!Others, S!Lives, S!Held
  <2>9. /\ acts' \subseteq S!Acts /\ \A one, other \in acts' : one.id = other.id => one = other
        /\ (\E one \in acts' : one.id = e.id) <=> ~e.done
        /\ \A i : i # e.id => ((\E one \in acts' : one.id = i) <=> \E one \in acts : one.id = i)
    <3>1. acts' \subseteq S!Acts BY <1>1, <2>7, <2>8
    <3>2. \A one, other \in acts' : one.id = other.id => one = other BY <1>1, <2>7, <2>8
    <3>3. (\E one \in acts' : one.id = e.id) <=> ~e.done BY <2>7, <2>8
    <3>4. \A i : i # e.id => ((\E one \in acts' : one.id = i) <=> \E one \in acts : one.id = i) BY <2>7, <2>8
    <3> QED BY <3>1, <3>2, <3>3, <3>4
  <2>10. Known'
    <3>1. ASSUME NEW i \in S!Ids, \A k \in DOMAIN events' : ~Concerns(k, i)'
          PROVE  made[i].open <=> \E one \in acts' : one.id = i
      <4>1. CASE i = e.id
        <5>1. Concerns(1, i) BY <2>1, <4>1 DEF Concerns
        <5>2. made[i].open <=> ~e.done BY <1>11, <1>14, <2>1, <3>1, <5>1
        <5> QED BY <2>9, <4>1, <5>2
      <4>2. CASE i # e.id
        <5>1. ~Concerns(1, i) BY <1>14, <2>1, <4>2 DEF Concerns
        <5>2. made[i].open <=> \E one \in acts : one.id = i BY <1>11, <3>1, <5>1
        <5> QED BY <2>9, <4>2, <5>2
      <4> QED BY <4>1, <4>2
    <3> QED BY <1>2, <1>3, <1>10, <3>1 DEF Known
  <2>11. /\ ours' = S!Fact(e).ours
         /\ told' = [s \in S!Scopes |->
                       IF s \in {S!LIFE, made[e.id].chain}
                       THEN S!After(s, S!Fact(e).told[s], e, e.id \in S!Fact(e).ours)
                       ELSE S!Fact(e).told[s]]
    BY <2>4 DEF S!HearAct
  <2>12. last' = [last EXCEPT ![S!LIFE] = 0,
                              ![made[e.id].chain] =
                                IF \/ e.id \in S!Fact(e).ours
                                   \/ /\ S!Fact(e).told[made[e.id].chain].is = "asking"
                                      /\ S!Fact(e).told[made[e.id].chain].prompt = e.id /\ e.done
                                THEN @ ELSE 0]
    BY <2>4 DEF S!HearAct
  <2>13. /\ ours' \subseteq S!Ids /\ told' \in [S!Scopes -> ToldForms]
         /\ \A s \in S!Scopes :
              \/ told'[s] \in {S!No, [is |-> "said"]}
              \/ /\ told'[s] = told[s]
                 /\ told[s].is = "sent" => ~e.asks \/ made[e.id].text # told[s].text
                 /\ told[s].is = "asking" => ~(e.id = told[s].prompt /\ e.done)
              \/ /\ told'[s].is = "asking" /\ told'[s].prompt = e.id
                 /\ made[e.id].kind = "prompt" /\ s \in {S!LIFE, made[e.id].chain} /\ ~e.done
    BY <1>2, <1>14, <2>1, <2>11, HearTold
  <2>14. last' \in [S!Scopes -> Nat] /\ \A s \in S!Scopes : last'[s] \in 0 .. S!Bound(s)
    <3>1. \A s \in S!Scopes : last[s] \in 0 .. S!Bound(s) /\ S!Bound(s) \in Nat
      BY DEF StallInv, StallTypes, S!TypeOK, S!Bound
    <3>2. \A s \in S!Scopes : last'[s] = 0 \/ last'[s] = last[s] BY <1>1, <2>12
    <3>3. last' = [s \in S!Scopes |-> last'[s]] BY <1>1, <2>12
    <3>4. \A s \in S!Scopes : last[s] \in Nat BY <1>1
    <3>5. \A s \in S!Scopes : last'[s] \in Nat /\ last'[s] \in 0 .. S!Bound(s) BY <3>1, <3>2, <3>4
    <3>6. last' \in [S!Scopes -> Nat] BY <3>3, <3>5
    <3> QED BY <3>5, <3>6
  <2>15. StallTypes'
    <3>1. \A s \in S!Scopes : \/ told'[s] \in {S!No, [is |-> "said"]}
                              \/ told'[s].is = "sent" /\ told'[s].text \in S!Texts
                              \/ told'[s].is = "asking" /\ told'[s].prompt \in S!Ids
      <4> TAKE s \in S!Scopes
      <4>1. \/ told[s] \in {S!No, [is |-> "said"]}
            \/ told[s].is = "sent" /\ told[s].text \in S!Texts
            \/ told[s].is = "asking" /\ told[s].prompt \in S!Ids
        BY DEF StallInv, StallTypes, S!TypeOK
      <4>2. \/ told'[s] \in {S!No, [is |-> "said"]} \/ told'[s] = told[s]
            \/ told'[s].is = "asking" /\ told'[s].prompt = e.id
        BY <2>13
      <4> QED BY <2>2, <4>1, <4>2
    <3>2. \A s \in S!Scopes : S!Bound(s)' = S!Bound(s) BY DEF S!Bound
    <3>3. S!TypeOK' BY <1>2, <1>3, <1>12, <2>9, <2>13, <2>14, <3>1, <3>2 DEF S!TypeOK
    <3> QED BY <1>1, <1>2, <1>4, <1>6, <2>13, <2>14, <3>3 DEF StallTypes
  <2>16. Messages'
    <3>1. Messages BY DEF StallInv
    <3>2. ASSUME NEW s \in S!Scopes
          PROVE  /\ told'[s].is = "sent" => told'[s].text.of = s /\ told'[s].text.acts # {}
                 /\ told'[s].is = "asking" => made[told'[s].prompt].kind = "prompt" /\ s \in {S!LIFE, made[told'[s].prompt].chain}
      <4>1. /\ told[s].is = "sent" => told[s].text.of = s /\ told[s].text.acts # {}
            /\ told[s].is = "asking" => made[told[s].prompt].kind = "prompt" /\ s \in {S!LIFE, made[told[s].prompt].chain}
        BY <3>1 DEF Messages
      <4>2. CASE told'[s] \in {S!No, [is |-> "said"]} BY <4>2 DEF S!No
      <4>3. CASE told'[s] = told[s] BY <4>1, <4>3
      <4>4. CASE told'[s].is = "asking" /\ told'[s].prompt = e.id
                   /\ made[e.id].kind = "prompt" /\ s \in {S!LIFE, made[e.id].chain}
        BY <4>4
      <4> QED BY <2>13, <4>2, <4>3, <4>4
    <3> QED BY <1>2, <1>3, <3>1, <3>2 DEF Messages
  <2>17. S!TellsAgain'
    <3>1. S!TellsAgain BY DEF StallInv
    <3>2. \A k \in DOMAIN events : events[k] = e \/ (k - 1 \in DOMAIN events' /\ events'[k - 1] = events[k])
      BY <1>4, <2>1
    <3>3. ASSUME NEW s \in S!Scopes, told'[s].is = "sent"
          PROVE  \/ told'[s].text \in S!Range(inbox) \cup refused
                 \/ \E k \in DOMAIN events' : events'[k].is = "act" /\ events'[k].asks /\ made[events'[k].id].text = told'[s].text
      <4>1. told'[s] = told[s] /\ told[s].is = "sent" /\ (~e.asks \/ made[e.id].text # told[s].text)
        BY <2>13, <3>3 DEF S!No
      <4>2. CASE \E k \in DOMAIN events : events[k].is = "act" /\ events[k].asks /\ made[events[k].id].text = told[s].text
        <5>1. PICK k \in DOMAIN events : events[k].is = "act" /\ events[k].asks /\ made[events[k].id].text = told[s].text BY <4>2
        <5>2. k - 1 \in DOMAIN events' /\ events'[k - 1] = events[k] BY <3>2, <4>1, <5>1
        <5> QED BY <4>1, <5>1, <5>2
      <4> QED BY <3>1, <4>1, <4>2 DEF S!TellsAgain
    <3>4. ASSUME NEW s \in S!Scopes, told'[s].is = "asking"
          PROVE  \/ made[told'[s].prompt].open
                 \/ \E k \in DOMAIN events' : events'[k].is = "act" /\ events'[k].id = told'[s].prompt /\ events'[k].done
      <4>1. CASE told'[s] = told[s] /\ ~(e.id = told[s].prompt /\ e.done)
        <5>1. told[s].is = "asking" BY <3>4, <4>1
        <5>2. CASE \E k \in DOMAIN events : events[k].is = "act" /\ events[k].id = told[s].prompt /\ events[k].done
          <6>1. PICK k \in DOMAIN events : events[k].is = "act" /\ events[k].id = told[s].prompt /\ events[k].done BY <5>2
          <6>2. k - 1 \in DOMAIN events' /\ events'[k - 1] = events[k] BY <3>2, <4>1, <6>1
          <6> QED BY <4>1, <6>1, <6>2
        <5> QED BY <3>1, <4>1, <5>1, <5>2 DEF S!TellsAgain
      <4>2. CASE told'[s].prompt = e.id /\ made[e.id].kind = "prompt" /\ ~e.done
        <5>1. CASE ~made[e.id].open
          <6>1. PICK m \in DOMAIN events : m > 1 /\ events[m].is = "act" /\ events[m].id = e.id /\ events[m].done
            BY <1>5, <1>14, <2>1, <4>2, <5>1 DEF StallInv, EndsSaid, Asked
          <6>2. m # 1 BY <6>1
          <6>3. m - 1 \in DOMAIN events' /\ events'[m - 1] = events[m] BY <1>4, <6>2
          <6> QED BY <4>2, <6>1, <6>3
        <5> QED BY <4>2, <5>1
      <4> QED BY <2>13, <3>4, <4>1, <4>2 DEF S!No
    <3> QED BY <1>2, <3>3, <3>4 DEF S!TellsAgain
  <2> QED BY <1>9, <2>10, <2>15, <2>16, <2>17 DEF StallInv
<1> QED BY <1>4, <1>13, <1>14 DEF EventForms

LEMMA StallInit == S!Init => StallInv
<1> SUFFICES ASSUME S!Init PROVE StallInv
  OBVIOUS
<1>1. /\ made = <<>> /\ events = <<>> /\ inbox = <<>> /\ refused = {} /\ acts = {} /\ ours = {}
      /\ last = [s \in S!Scopes |-> 0] /\ told = [s \in S!Scopes |-> S!No]
  BY DEF S!Init
<1>2. S!Ids = {} BY <1>1 DEF S!Ids
<1>3. <<>> \in Seq(MadeForms) /\ <<>> \in Seq(EventForms) /\ <<>> \in Seq(S!Texts) /\ DOMAIN events = {}
  BY <1>1
<1>4. told \in [S!Scopes -> ToldForms] /\ \A s \in S!Scopes : told[s] = S!No BY <1>1 DEF ToldForms
<1>5. last \in [S!Scopes -> Nat] /\ \A s \in S!Scopes : last[s] \in 0 .. S!Bound(s) BY <1>1 DEF S!Bound
<1>6. StallTypes
  <2>1. S!TypeOK BY <1>1, <1>2, <1>3, <1>4, <1>5 DEF S!TypeOK
  <2> QED BY <1>1, <1>3, <1>4, <1>5, <2>1 DEF StallTypes
<1>7. Known /\ EndsSaid BY <1>2, <1>3 DEF Known, EndsSaid
<1>8. Messages /\ S!TellsAgain BY <1>2, <1>4 DEF Messages, S!TellsAgain, S!No
<1> QED BY <1>6, <1>7, <1>8 DEF StallInv

LEMMA StallNext == StallInv /\ [S!Next]_ofStall => StallInv'
<1> SUFFICES ASSUME StallInv, [S!Next]_ofStall PROVE StallInv'
  OBVIOUS
<1>1. CASE UNCHANGED ofStall
  <2>1. UNCHANGED <<made, events, inbox, refused, acts, ours, last, told>> BY <1>1 DEF ofStall
  <2>2. S!Ids' = S!Ids /\ S!Texts' = S!Texts /\ S!Acts' = S!Acts BY <2>1 DEF S!Ids, S!Texts, S!Acts
  <2>3. StallTypes'
    <3>1. StallTypes BY DEF StallInv
    <3>2. S!TypeOK' BY <2>1, <2>2, <3>1 DEF StallTypes, S!TypeOK, S!Bound
    <3> QED BY <2>1, <2>2, <3>1, <3>2 DEF StallTypes
  <2>4. Known' /\ EndsSaid' BY <2>1, <2>2 DEF StallInv, Known, EndsSaid, Concerns
  <2>5. Messages' BY <2>1, <2>2 DEF StallInv, Messages
  <2>6. S!TellsAgain' BY <2>1 DEF StallInv, S!TellsAgain
  <2> QED BY <2>3, <2>4, <2>5, <2>6 DEF StallInv
<1>2. CASE S!Watch BY <1>2, HearKeeps, TellKeeps, TickKeeps DEF S!Watch
<1>3. CASE \E kind \in Kinds, chain \in Chains, by \in 0 .. Len(made) : S!Make(kind, chain, by)
  BY <1>3, MakeKeeps
<1>4. CASE \E i \in S!Ids : S!Change(i) \/ S!End(i) BY <1>4, ChangeKeeps
<1>5. CASE \E n \in DOMAIN inbox : S!Take(n) \/ S!Refuse(n) BY <1>5, TakeKeeps, RefuseKeeps
<1>6. CASE S!Rebirth BY <1>6, RebirthKeeps
<1> QED BY <1>1, <1>2, <1>3, <1>4, <1>5, <1>6 DEF S!Next, S!Life

\* A stall that the watch told waits for something that can still come, so that it never silences itself for ever,
\* and once it heard all it knows the acts that live, through each rebirth (Quiet and Watch, stall.rs).
THEOREM StallsTheorem == Spec => []StallsAreTrue
<1>1. Init => StallInv
  BY StallInit DEF Init
<1>2. StallInv /\ [Next]_vars => StallInv'
  <2>1. [Next]_vars => [S!Next]_ofStall
    BY DEF Next, Stall, Answers, Views, Processes, Changes, vars
  <2> QED BY <2>1, StallNext
<1>3. StallInv => StallsAreTrue
  <2> SUFFICES ASSUME StallInv PROVE S!TypeOK /\ S!TellsAgain /\ S!KnowsWhatLives
    BY DEF StallsAreTrue
  <2>1. S!TypeOK /\ S!TellsAgain /\ Known /\ acts \subseteq S!Acts BY StallBare DEF StallInv, StallTypes
  <2>2. ASSUME events = <<>> PROVE {one.id : one \in acts} = {i \in S!Ids : made[i].open}
    <3>1. DOMAIN events = {} BY <2>2
    <3>2. \A i \in S!Ids : made[i].open <=> \E one \in acts : one.id = i BY <2>1, <3>1 DEF Known
    <3>3. \A one \in acts : one.id \in S!Ids BY <2>1 DEF S!Acts
    <3> QED BY <3>2, <3>3
  <2> QED BY <2>1, <2>2 DEF S!KnowsWhatLives
<1> QED BY <1>1, <1>2, <1>3, PTL DEF Spec
=============================================================================
