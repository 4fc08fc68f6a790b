---------------------------- MODULE OutsideProofs ----------------------------
(***************************************************************************)
(* Proofs about the parts beside the engine that promise an end: the work that *)
(* an earlier life left, the wires to the servers of tools, and the servers.   *)
(***************************************************************************)
EXTENDS MCOutside, TLAPS, FiniteSetTheorems, FunctionTheorems, SequenceTheorems, WellFoundedInduction

-----------------------------------------------------------------------------
(* The work that a life left.                                               *)

Numbers == W!Prompts
FactsOfWork ==
  {W!Fact("prompt", n) : n \in Numbers} \cup {W!Fact("word", n) : n \in Numbers} \cup {W!Fact("key", k) : k \in Keys}
Records ==
  [facts : Seq(FactsOfWork), above : [Numbers -> SUBSET Numbers], started : [Numbers -> Nat],
   over : SUBSET Numbers, paused : SUBSET Numbers]

WorkTypes ==
  /\ W!TypeOK
  /\ deaths \in Nat /\ tries \in Nat /\ record \in Records /\ starts \in [Numbers -> Nat] /\ given \in [Keys -> Seq(Numbers)]

\* The prompts are numbered in their order, so the number of the next one is new.
Numbered == \E m \in 0 .. MaxPrompts : W!Made = 1 .. m

\* What made a prompt came before it, and what made that made the prompt too.
Lined ==
  /\ \A n \in Numbers : n \notin W!Made => W!Above(n) = {}
  /\ \A n \in Numbers : \A m \in W!Above(n) : m < n /\ W!Above(m) \subseteq W!Above(n)

\* A reply that a life took was started once in it, and one of no prompt never.
Counted ==
  /\ \A n \in Numbers : starts[n] = IF n \in runs THEN 1 ELSE 0
  /\ \A n \in Numbers : n \notin W!Made => W!Starts(n) = 0

\* A reply is in the journal, held by the park, or taken, and in one of them alone; the host and its park know the same.
Apart == park = parked /\ held \subseteq park /\ again \cap held = {} /\ runs \cap (again \cup held) = {}

\* A reply to take that ended CRASHES lives is held by the park, or was asked for; and a parked one that is not over is
\* somewhere to be let go from.
Guarded ==
  /\ \A n \in again \cup held : W!Starts(n) >= CRASHES /\ ~W!Over(n) => n \in park \cup retried
  /\ \A n \in parked : ~W!Over(n) => n \in again \cup held \cup runs
  /\ \A n \in runs : W!Starts(n) > CRASHES => n \in retried

\* Before a life resumes, its journal holds all that was left; after it, what was left is taken, parked or paused.
Awaiting ==
  /\ up /\ ~resumed => W!Left \subseteq again /\ asking = W!None
  /\ W!NothingLeft

\* A key was given the one act that it finds; one that asks finds none, is in the record, and there is a prompt to make.
Keyed ==
  /\ \A k \in Keys : \A i \in 1 .. Len(given[k]) : given[k][i] = W!Found(k) /\ W!Found(k) # 0
  /\ \A k \in Keys : asking = k => W!Found(k) = 0 /\ \E i \in 1 .. Len(record.facts) : record.facts[i] = W!Fact("key", k)
  /\ asking \in Keys => W!Prompting \in Numbers

WorkInv == WorkTypes /\ Numbered /\ Lined /\ Counted /\ Apart /\ Guarded /\ Awaiting /\ Keyed

\* A set of numbers that is not empty has a least one.
LEMMA MinOf ==
  ASSUME NEW Z \in SUBSET Nat, Z # {} PROVE W!Min(Z) \in Z /\ \A y \in Z : W!Min(Z) <= y
<1>1. OpToRel(<, Nat) = {ss \in Nat \X Nat : ss[1] < ss[2]} BY Zenon DEF OpToRel
<1>2. PICK r : r = {ss \in Nat \X Nat : ss[1] < ss[2]} OBVIOUS
<1>3. IsWellFoundedOn(r, Nat) BY <1>1, <1>2, NatLessThanWellFounded, Zenon
<1>4. PICK x \in Z : \A y \in Z : ~(<<y, x>> \in r) BY <1>3, WFMin
<1>5. \A y \in Z : x <= y
  <2> TAKE y \in Z
  <2>1. x \in Nat /\ y \in Nat OBVIOUS
  <2>2. ~(<<y, x>> \in Nat \X Nat /\ y < x) BY <1>2, <1>4
  <2> QED BY <2>1, <2>2
<1> QED BY <1>5 DEF W!Min

(* What a sequence of facts holds: its prompts, and the act that a key finds. *)
PromptsIn(s) == {n \in Numbers : \E i \in 1 .. Len(s) : s[i] = W!Fact("prompt", n) \/ s[i] = W!Fact("word", n)}
KeyIn(s, k) == \E i \in 1 .. Len(s) : s[i] = W!Fact("key", k)
ActsAfter(s, k) == {j \in 1 .. Len(s) : s[j][1] = "prompt" /\ \E i \in 1 .. j : s[i] = W!Fact("key", k)}
FoundIn(s, k) == IF ActsAfter(s, k) = {} THEN 0 ELSE s[W!Min(ActsAfter(s, k))][2]

\* What is not the fact of a key is the prompt that it names.
LEMMA PromptsOf ==
  ASSUME NEW s \in Seq(FactsOfWork)
  PROVE  {s[i][2] : i \in {j \in 1 .. Len(s) : s[j][1] # "key"}} = PromptsIn(s)
<1>1. ASSUME NEW i \in 1 .. Len(s), s[i][1] # "key" PROVE s[i][2] \in PromptsIn(s)
  <2> PICK f : f = s[i] OBVIOUS
  <2>1. f \in FactsOfWork /\ f[1] # "key" BY <1>1
  <2>2. \A k \in Keys : W!Fact("key", k)[1] = "key" BY DEF W!Fact
  <2>3. (\E n \in Numbers : f = W!Fact("prompt", n)) \/ \E n \in Numbers : f = W!Fact("word", n) BY <2>1, <2>2 DEF FactsOfWork
  <2>4. \A n \in Numbers : W!Fact("prompt", n)[2] = n /\ W!Fact("word", n)[2] = n BY DEF W!Fact
  <2>5. f[2] \in Numbers /\ (f = W!Fact("prompt", f[2]) \/ f = W!Fact("word", f[2])) BY <2>3, <2>4
  <2> QED BY <1>1, <2>5 DEF PromptsIn
<1>2. ASSUME NEW n \in PromptsIn(s) PROVE \E i \in 1 .. Len(s) : s[i][1] # "key" /\ s[i][2] = n
  <2>1. PICK i \in 1 .. Len(s) : s[i] = W!Fact("prompt", n) \/ s[i] = W!Fact("word", n) BY <1>2 DEF PromptsIn
  <2> QED BY <2>1 DEF W!Fact
<1> QED BY <1>1, <1>2

LEMMA MadeIs == ASSUME record.facts \in Seq(FactsOfWork) PROVE W!Made = PromptsIn(record.facts)
BY PromptsOf DEF W!Made

LEMMA FoundIs == \A k : W!Found(k) = FoundIn(record.facts, k)
BY DEF W!Found, FoundIn, ActsAfter

\* A fact is of a prompt or of a key.
LEMMA FactIs ==
  /\ \A f \in FactsOfWork : f[1] = "prompt" => f[2] \in Numbers /\ f = W!Fact("prompt", f[2])
  /\ \A n \in Numbers : W!Fact("prompt", n) \in FactsOfWork /\ W!Fact("prompt", n)[1] = "prompt" /\ W!Fact("prompt", n)[2] = n
  /\ \A k \in Keys : W!Fact("key", k) \in FactsOfWork /\ W!Fact("key", k)[1] # "prompt"
  /\ \A n \in Numbers : W!Fact("word", n) \in FactsOfWork /\ W!Fact("word", n)[1] # "prompt"
  /\ \A n, k : W!Fact("prompt", n) # W!Fact("key", k) /\ W!Fact("word", n) # W!Fact("key", k)
  /\ \A n, m : W!Fact("prompt", n) = W!Fact("prompt", m) \/ W!Fact("word", n) = W!Fact("word", m) => n = m
  /\ \A n, m : W!Fact("prompt", n) # W!Fact("word", m)
  /\ Numbers \subseteq Nat /\ 0 \notin Numbers
BY OutsideAssumption DEF FactsOfWork, W!Fact, Numbers, W!Prompts, W!WorkAssumption

\* A key that finds an act finds one, and it finds the first.
LEMMA FoundWhere ==
  ASSUME NEW s \in Seq(FactsOfWork), NEW k
  PROVE  /\ FoundIn(s, k) = 0 <=> ActsAfter(s, k) = {}
         /\ ActsAfter(s, k) # {} => /\ W!Min(ActsAfter(s, k)) \in ActsAfter(s, k)
                                    /\ \A j \in ActsAfter(s, k) : W!Min(ActsAfter(s, k)) <= j
<1>1. ActsAfter(s, k) \in SUBSET Nat BY DEF ActsAfter
<1>2. ActsAfter(s, k) # {} => /\ W!Min(ActsAfter(s, k)) \in ActsAfter(s, k)
                              /\ \A j \in ActsAfter(s, k) : W!Min(ActsAfter(s, k)) <= j
  BY <1>1, MinOf
<1>3. \A j \in ActsAfter(s, k) : s[j] \in FactsOfWork /\ s[j][1] = "prompt" BY DEF ActsAfter
<1>4. ActsAfter(s, k) # {} => FoundIn(s, k) # 0 BY <1>2, <1>3, FactIs DEF FoundIn
<1> QED BY <1>2, <1>4 DEF FoundIn

\* What a key finds stays what it finds; what it does not is the first prompt after its fact.
LEMMA FoundStays ==
  ASSUME NEW s \in Seq(FactsOfWork), NEW f \in FactsOfWork, NEW k
  PROVE  /\ FoundIn(s, k) # 0 => FoundIn(Append(s, f), k) = FoundIn(s, k)
         /\ FoundIn(s, k) = 0 /\ f[1] # "prompt" => FoundIn(Append(s, f), k) = 0
         /\ FoundIn(s, k) = 0 /\ f[1] = "prompt" /\ KeyIn(s, k) => FoundIn(Append(s, f), k) = f[2]
         /\ KeyIn(s, k) => KeyIn(Append(s, f), k)
<1> PICK t : t = Append(s, f) OBVIOUS
<1>1. t \in Seq(FactsOfWork) /\ Len(t) = Len(s) + 1 /\ Len(s) \in Nat /\ t[Len(s) + 1] = f /\ \A i \in 1 .. Len(s) : t[i] = s[i] OBVIOUS
<1>2. ActsAfter(t, k) \subseteq ActsAfter(s, k) \cup {Len(s) + 1} /\ ActsAfter(s, k) \subseteq ActsAfter(t, k)
  <2>1. ASSUME NEW j \in ActsAfter(t, k), j # Len(s) + 1 PROVE j \in ActsAfter(s, k)
    <3>1. j \in 1 .. Len(s) BY <1>1, <2>1 DEF ActsAfter
    <3>2. PICK i \in 1 .. j : t[i] = W!Fact("key", k) BY <2>1 DEF ActsAfter
    <3>3. i \in 1 .. Len(s) /\ s[i] = W!Fact("key", k) /\ s[j][1] = "prompt" BY <1>1, <2>1, <3>1, <3>2 DEF ActsAfter
    <3> QED BY <3>1, <3>2, <3>3 DEF ActsAfter
  <2>2. ASSUME NEW j \in ActsAfter(s, k) PROVE j \in ActsAfter(t, k)
    <3>1. j \in 1 .. Len(s) /\ s[j][1] = "prompt" BY <2>2 DEF ActsAfter
    <3>2. PICK i \in 1 .. j : s[i] = W!Fact("key", k) BY <2>2 DEF ActsAfter
    <3>3. i \in 1 .. Len(s) /\ t[i] = W!Fact("key", k) /\ t[j][1] = "prompt" /\ j \in 1 .. Len(t) BY <1>1, <3>1, <3>2
    <3> QED BY <3>2, <3>3 DEF ActsAfter
  <2> QED BY <2>1, <2>2
<1>3. ActsAfter(s, k) \subseteq 1 .. Len(s) BY DEF ActsAfter
<1>4. ASSUME FoundIn(s, k) # 0 PROVE FoundIn(t, k) = FoundIn(s, k)
  <2>1. ActsAfter(s, k) # {} /\ ActsAfter(t, k) # {} BY <1>2, <1>4, FoundWhere
  <2> PICK a : a = W!Min(ActsAfter(s, k)) OBVIOUS
  <2> PICK b : b = W!Min(ActsAfter(t, k)) OBVIOUS
  <2>2. a \in ActsAfter(s, k) /\ \A j \in ActsAfter(s, k) : a <= j BY <2>1, FoundWhere
  <2>3. b \in ActsAfter(t, k) /\ \A j \in ActsAfter(t, k) : b <= j BY <1>1, <2>1, FoundWhere
  <2>4. a = b BY <1>1, <1>2, <1>3, <2>2, <2>3
  <2>5. t[a] = s[a] BY <1>1, <1>3, <2>2
  <2> QED BY <2>1, <2>4, <2>5 DEF FoundIn
<1>5. ASSUME FoundIn(s, k) = 0, f[1] # "prompt" PROVE FoundIn(t, k) = 0
  <2>1. ActsAfter(s, k) = {} BY <1>5, FoundWhere
  <2>2. Len(s) + 1 \notin ActsAfter(t, k) BY <1>1, <1>5 DEF ActsAfter
  <2> QED BY <1>2, <2>1, <2>2 DEF FoundIn
<1>6. ASSUME FoundIn(s, k) = 0, f[1] = "prompt", KeyIn(s, k) PROVE FoundIn(t, k) = f[2]
  <2>1. ActsAfter(s, k) = {} BY <1>6, FoundWhere
  <2>2. PICK i \in 1 .. Len(s) : s[i] = W!Fact("key", k) BY <1>6 DEF KeyIn
  <2>3. i \in 1 .. Len(s) + 1 /\ t[i] = W!Fact("key", k) BY <1>1, <2>2
  <2>4. Len(s) + 1 \in ActsAfter(t, k) BY <1>1, <1>6, <2>3 DEF ActsAfter
  <2>5. W!Min(ActsAfter(t, k)) \in ActsAfter(t, k) BY <1>1, <2>4, FoundWhere
  <2>6. W!Min(ActsAfter(t, k)) = Len(s) + 1 BY <1>2, <2>1, <2>5
  <2> QED BY <1>1, <2>4, <2>6 DEF FoundIn
<1>7. KeyIn(s, k) => KeyIn(t, k) BY <1>1 DEF KeyIn
<1> QED BY <1>4, <1>5, <1>6, <1>7

\* An appended fact of a prompt makes it, and one of a key makes none.
LEMMA PromptsAppend ==
  ASSUME NEW s \in Seq(FactsOfWork)
  PROVE  /\ \A kind \in {"prompt", "word"}, n \in Numbers : PromptsIn(Append(s, W!Fact(kind, n))) = PromptsIn(s) \cup {n}
         /\ \A k \in Keys : PromptsIn(Append(s, W!Fact("key", k))) = PromptsIn(s)
<1>1. ASSUME NEW f \in FactsOfWork
      PROVE  \A n \in Numbers : n \in PromptsIn(Append(s, f)) <=>
               n \in PromptsIn(s) \/ f = W!Fact("prompt", n) \/ f = W!Fact("word", n)
  <2> PICK t : t = Append(s, f) OBVIOUS
  <2>1. Len(t) = Len(s) + 1 /\ Len(s) \in Nat /\ t[Len(s) + 1] = f /\ \A i \in 1 .. Len(s) : t[i] = s[i] OBVIOUS
  <2>2. \A n \in Numbers : n \in PromptsIn(t) <=> n \in PromptsIn(s) \/ f = W!Fact("prompt", n) \/ f = W!Fact("word", n)
    BY <2>1 DEF PromptsIn
  <2> QED BY <2>2
<1>2. \A t : PromptsIn(t) \subseteq Numbers BY DEF PromptsIn
<1>3. ASSUME NEW kind \in {"prompt", "word"}, NEW n \in Numbers PROVE PromptsIn(Append(s, W!Fact(kind, n))) = PromptsIn(s) \cup {n}
  <2> PICK f : f = W!Fact(kind, n) OBVIOUS
  <2>1. f \in FactsOfWork BY FactIs
  <2>2. \A m \in Numbers : f = W!Fact("prompt", m) \/ f = W!Fact("word", m) => m = n BY FactIs
  <2>3. \A m \in Numbers : m \in PromptsIn(Append(s, f)) <=> m \in PromptsIn(s) \/ m = n BY <1>1, <2>1, <2>2
  <2>4. PromptsIn(s) \subseteq Numbers /\ PromptsIn(Append(s, f)) \subseteq Numbers BY <1>2
  <2> QED BY <2>3, <2>4
<1>4. ASSUME NEW k \in Keys PROVE PromptsIn(Append(s, W!Fact("key", k))) = PromptsIn(s)
  <2> PICK f : f = W!Fact("key", k) OBVIOUS
  <2>1. f \in FactsOfWork BY FactIs
  <2>2. \A m \in Numbers : f # W!Fact("prompt", m) /\ f # W!Fact("word", m) BY FactIs
  <2>3. \A m \in Numbers : m \in PromptsIn(Append(s, f)) <=> m \in PromptsIn(s) BY <1>1, <2>1, <2>2
  <2>4. PromptsIn(s) \subseteq Numbers /\ PromptsIn(Append(s, f)) \subseteq Numbers BY <1>2
  <2> QED BY <2>3, <2>4
<1> QED BY <1>3, <1>4

LEMMA Assumed ==
  CRASHES \in Nat /\ CRASHES # 0 /\ MaxPrompts \in Nat /\ MaxDeaths \in Nat /\ MaxRetries \in Nat /\ W!None \notin Keys
BY OutsideAssumption DEF W!WorkAssumption

LEMMA WorkInit == W!Init => WorkInv
<1> SUFFICES ASSUME W!Init PROVE WorkInv OBVIOUS
<1>1. /\ record.facts = <<>> /\ record.over = {} /\ record.paused = {} /\ record.started = [n \in Numbers |-> 0]
      /\ record.above = [n \in Numbers |-> {}]
  BY DEF W!Init, Numbers
<1>2. W!Made = {} BY <1>1 DEF W!Made
<1>3. <<>> \in Seq(FactsOfWork) OBVIOUS
<1>4. record \in Records BY <1>3 DEF W!Init, Records, Numbers
<1>5. starts \in [Numbers -> Nat] /\ \A n \in Numbers : starts[n] = 0 BY DEF W!Init, Numbers
<1>6. given \in [Keys -> Seq(Numbers)] /\ \A k \in Keys : given[k] = <<>>
  <2>1. <<>> \in Seq(Numbers) OBVIOUS
  <2> QED BY <2>1 DEF W!Init
<1>7. deaths = 0 /\ tries = 0 /\ again = {} /\ runs = {} /\ parked = {} /\ park = {} /\ held = {} /\ retried = {} /\ asking = W!None /\ resumed
  BY DEF W!Init
<1>8. WorkTypes BY <1>2, <1>4, <1>5, <1>6, <1>7, Assumed DEF WorkTypes, W!TypeOK
<1>9. Numbered
  <2>1. W!Made = 1 .. 0 /\ 0 \in 0 .. MaxPrompts BY <1>2, Assumed
  <2> QED BY <2>1 DEF Numbered
<1>10. Counted /\ Lined BY <1>1, <1>5, <1>7 DEF Counted, Lined, W!Starts, W!Above
<1>11. Apart /\ Guarded BY <1>7 DEF Apart, Guarded
<1>12. Awaiting
  <2>1. W!Left = {} BY <1>2 DEF W!Left
  <2> QED BY <2>1, <1>7 DEF Awaiting, W!NothingLeft
<1>13. Keyed
  <2>1. ASSUME NEW k \in Keys PROVE 1 .. Len(given[k]) = {}
    <3>1. given[k] = <<>> BY <1>6
    <3>2. Len(given[k]) = 0 BY <3>1
    <3> QED BY <3>2
  <2>2. asking \notin Keys BY <1>7, Assumed
  <2> QED BY <2>1, <2>2 DEF Keyed
<1> QED BY <1>8, <1>9, <1>10, <1>11, <1>12, <1>13 DEF WorkInv

(* A step that leaves the facts of the record leaves what is made and what the keys find. *)
LEMMA FactsStay ==
  ASSUME record'.facts = record.facts
  PROVE  W!Made' = W!Made /\ \A k : W!Found(k)' = W!Found(k)
<1>1. W!Made' = W!Made BY DEF W!Made
<1>2. \A k : W!Found(k)' = FoundIn(record'.facts, k) BY DEF W!Found, FoundIn, ActsAfter
<1> QED BY <1>1, <1>2, FoundIs

LEMMA RecordParts ==
  ASSUME record \in Records
  PROVE  /\ record.facts \in Seq(FactsOfWork) /\ record.started \in [Numbers -> Nat]
         /\ record.over \in SUBSET Numbers /\ record.paused \in SUBSET Numbers
         /\ record.above \in [Numbers -> SUBSET Numbers]
         /\ \A n \in Numbers : W!Starts(n) \in Nat /\ W!Above(n) \subseteq Numbers
         /\ W!Made \subseteq Numbers /\ W!Left \subseteq W!Made /\ \A ns : W!Under(ns) \subseteq Numbers
<1>1. record.facts \in Seq(FactsOfWork) /\ record.started \in [Numbers -> Nat]
      /\ record.over \in SUBSET Numbers /\ record.paused \in SUBSET Numbers /\ record.above \in [Numbers -> SUBSET Numbers]
  BY DEF Records
<1>2. \A n \in Numbers : W!Starts(n) \in Nat /\ W!Above(n) \subseteq Numbers BY <1>1 DEF W!Starts, W!Above
<1>3. W!Made \subseteq Numbers BY <1>1, MadeIs DEF PromptsIn
<1> QED BY <1>1, <1>2, <1>3 DEF W!Left, W!Under

LEMMA KeyedStays ==
  ASSUME Keyed, record'.facts = record.facts, given' = given, asking' = asking PROVE Keyed'
<1>1. \A k : W!Found(k)' = W!Found(k) BY FactsStay
<1>2. ASSUME NEW k \in Keys, NEW i \in 1 .. Len(given'[k]) PROVE given'[k][i] = W!Found(k)' /\ W!Found(k)' # 0
  BY <1>1, <1>2 DEF Keyed
<1>3. ASSUME NEW k \in Keys, asking' = k
      PROVE  W!Found(k)' = 0 /\ \E i \in 1 .. Len(record'.facts) : record'.facts[i] = W!Fact("key", k)
  BY <1>1, <1>3 DEF Keyed
<1>4. asking' \in Keys => W!Prompting' \in Numbers
  <2>1. W!Prompting' = W!Prompting BY FactsStay DEF W!Prompting
  <2> QED BY <2>1 DEF Keyed
<1> QED BY <1>2, <1>3, <1>4 DEF Keyed

\* A step that leaves what is above each prompt, and what is made, leaves the lineage.
LEMMA LinedStays ==
  ASSUME Lined, W!Made' = W!Made, record'.above = record.above PROVE Lined'
<1>1. \A n : W!Above(n)' = W!Above(n) BY DEF W!Above
<1> QED BY <1>1 DEF Lined

\* A step that leaves the record, and what is taken or held, leaves all.
LEMMA StillKept ==
  ASSUME WorkInv, deaths' \in Nat, tries' \in Nat, deaths' <= MaxDeaths, tries' <= MaxRetries, UNCHANGED record,
         UNCHANGED <<again, runs, parked, park, held, retried>>, UNCHANGED <<starts, given, asking>>,
         UNCHANGED resumed, up' => up
  PROVE  WorkInv'
<1>1. W!Made' = W!Made /\ \A k : W!Found(k)' = W!Found(k) BY FactsStay
<1>2. (\A n : W!Over(n)' = W!Over(n)) /\ (\A n : W!Starts(n)' = W!Starts(n)) /\ \A n : W!Paused(n)' = W!Paused(n)
  BY DEF W!Over, W!Starts, W!Paused
<1>3. W!Left' = W!Left BY <1>1 DEF W!Left, W!Starts, W!Over
<1>4. WorkTypes' BY <1>1 DEF WorkInv, WorkTypes, W!TypeOK
<1>5. Numbered' /\ Lined' BY <1>1, LinedStays DEF WorkInv, Numbered
<1>6. Counted' BY <1>1, <1>2 DEF WorkInv, Counted
<1>7. Apart' BY DEF WorkInv, Apart
<1>8. Guarded' BY <1>2 DEF WorkInv, Guarded
<1>9. Awaiting' BY <1>2, <1>3 DEF WorkInv, Awaiting, W!NothingLeft
<1>10. Keyed' BY KeyedStays DEF WorkInv
<1> QED BY <1>4, <1>5, <1>6, <1>7, <1>8, <1>9, <1>10 DEF WorkInv

LEMMA DiesKept == ASSUME WorkInv, W!Dies PROVE WorkInv'
<1>1. UNCHANGED record /\ UNCHANGED <<again, runs, parked, park, held, retried>> /\ UNCHANGED <<starts, given, asking>>
  /\ UNCHANGED resumed /\ tries' = tries /\ ~up' BY DEF W!Dies
<1>2. deaths \in Nat /\ deaths <= MaxDeaths /\ tries \in Nat /\ tries <= MaxRetries BY DEF WorkInv, WorkTypes, W!TypeOK
<1>3. deaths' = deaths \/ (deaths < MaxDeaths /\ deaths' = deaths + 1) BY DEF W!Dies
<1>4. deaths' \in Nat /\ deaths' <= MaxDeaths BY <1>2, <1>3, Assumed
<1> QED BY <1>1, <1>2, <1>4, StillKept

LEMMA BootKept == ASSUME WorkInv, W!Boot PROVE WorkInv'
<1>1. record' = record /\ deaths' = deaths /\ tries' = tries /\ given' = given /\ up' /\ ~resumed' BY DEF W!Boot
<1>2. again' = W!Left /\ parked' = W!Looping /\ park' = W!Looping /\ held' = {} /\ runs' = {} /\ retried' = {} /\ asking' = W!None
  BY DEF W!Boot
<1>3. starts' = [n \in Numbers |-> 0] BY DEF W!Boot, Numbers
<1>4. W!Made' = W!Made /\ \A k : W!Found(k)' = W!Found(k) BY <1>1, FactsStay
<1>5. (\A n : W!Over(n)' = W!Over(n)) /\ (\A n : W!Starts(n)' = W!Starts(n)) /\ \A n : W!Paused(n)' = W!Paused(n)
  BY <1>1 DEF W!Over, W!Starts, W!Paused
<1>6. W!Left' = W!Left BY <1>1, <1>4 DEF W!Left, W!Starts, W!Over
<1>7. record \in Records /\ W!Left \subseteq W!Made BY RecordParts DEF WorkInv, WorkTypes
<1>8. W!Looping \subseteq W!Left BY DEF W!Looping
<1>9. WorkTypes'
  <2>1. W!TypeOK' BY <1>1, <1>2, <1>4, <1>7, <1>8 DEF WorkInv, WorkTypes, W!TypeOK
  <2> QED BY <1>1, <1>3, <2>1 DEF WorkInv, WorkTypes
<1>10. Numbered' /\ Lined' BY <1>1, <1>4, LinedStays DEF WorkInv, Numbered
<1>11. Counted' BY <1>2, <1>3, <1>4, <1>5 DEF WorkInv, Counted
<1>12. Apart' BY <1>2 DEF Apart
<1>13. Guarded'
  <2>1. \A n \in W!Left : W!Starts(n) >= CRASHES => n \in W!Looping BY DEF W!Looping
  <2> QED BY <1>2, <1>5, <1>8, <2>1 DEF Guarded
<1>14. Awaiting' BY <1>1, <1>2, <1>6 DEF Awaiting, W!NothingLeft
<1>15. Keyed'
  <2>1. ASSUME NEW k \in Keys, NEW i \in 1 .. Len(given'[k]) PROVE given'[k][i] = W!Found(k)' /\ W!Found(k)' # 0
    BY <1>1, <1>4, <2>1 DEF WorkInv, Keyed
  <2>2. asking' \notin Keys BY <1>2, Assumed
  <2> QED BY <2>1, <2>2 DEF Keyed
<1> QED BY <1>9, <1>10, <1>11, <1>12, <1>13, <1>14, <1>15 DEF WorkInv

(* Wakes: what they put to the outside, and what the park lets go. *)
Takes(ns, parks) == (W!Put(ns) \ parks) \cup W!Freed(parks)

\* The parts of the record after a wake.
LEMMA WakesRecord ==
  ASSUME record \in Records, NEW ns \in SUBSET Numbers, NEW parks, W!Wakes(ns, parks)
  PROVE  /\ record' \in Records /\ record'.facts = record.facts /\ record'.above = record.above
         /\ \A n : W!Over(n)' = W!Over(n)
         /\ \A n : W!Paused(n)' = (W!Paused(n) /\ n \notin ns)
         /\ \A n \in Numbers : W!Starts(n)' = IF n \in Takes(ns, parks) /\ W!Starts(n) <= CRASHES THEN W!Starts(n) + 1 ELSE W!Starts(n)
<1> PICK r : r = record OBVIOUS
<1> PICK b : b = W!Begun(Takes(ns, parks)) OBVIOUS
<1>1. record' = [r EXCEPT !.paused = @ \ ns, !.started = b] BY DEF W!Wakes, Takes
<1>2. r \in Records OBVIOUS
<1>3. b \in [Numbers -> Nat] /\ \A n \in Numbers : b[n] = IF n \in Takes(ns, parks) /\ W!Starts(n) <= CRASHES THEN W!Starts(n) + 1 ELSE W!Starts(n)
  <2>1. \A n \in Numbers : W!Starts(n) \in Nat BY RecordParts
  <2>2. b = [n \in Numbers |-> IF n \in Takes(ns, parks) /\ W!Starts(n) <= CRASHES THEN W!Starts(n) + 1 ELSE W!Starts(n)]
    BY DEF W!Begun, Numbers
  <2> QED BY <2>1, <2>2
<1>4. record'.facts = r.facts /\ record'.above = r.above /\ record'.over = r.over /\ record'.paused = r.paused \ ns /\ record'.started = b /\ record' \in Records
  BY <1>1, <1>2, <1>3 DEF Records
<1>5. \A n : W!Over(n)' = W!Over(n) BY <1>4 DEF W!Over
<1>6. \A n : W!Paused(n)' = (W!Paused(n) /\ n \notin ns) BY <1>4 DEF W!Paused
<1>7. \A n \in Numbers : W!Starts(n)' = b[n] BY <1>4 DEF W!Starts
<1> QED BY <1>3, <1>4, <1>5, <1>6, <1>7

\* What is taken was not, and is not parked more often than it may be, but for what is asked for.
LEMMA TakesAre ==
  ASSUME WorkInv, NEW ns \in SUBSET Numbers, NEW parks
  PROVE  /\ Takes(ns, parks) \subseteq again \cup held /\ Takes(ns, parks) \cap (runs \cup parks) = {}
         /\ \A n \in Takes(ns, parks) : ~W!Over(n)
         /\ Takes(ns, parks) \subseteq W!Made /\ Takes(ns, parks) \subseteq Numbers
<1>1. W!Put(ns) \subseteq again /\ (\A n \in W!Put(ns) : ~W!Over(n)) BY DEF W!Put
<1>2. W!Freed(parks) \subseteq held /\ W!Freed(parks) \cap (runs \cup parks) = {} /\ (\A n \in W!Freed(parks) : ~W!Over(n)) BY DEF W!Freed
<1>3. runs \cap again = {} BY DEF WorkInv, Apart
<1>4. again \cup held \subseteq W!Made /\ W!Made \subseteq Numbers BY RecordParts DEF WorkInv, WorkTypes, W!TypeOK
<1> QED BY <1>1, <1>2, <1>3, <1>4 DEF Takes

LEMMA WakesKept ==
  ASSUME WorkInv, up, up', resumed', NEW ns \in SUBSET Numbers, NEW parks \in SUBSET park, W!Wakes(ns, parks),
         park' = parks, parked' = parks, retried \subseteq retried', retried' \subseteq W!Made,
         park \ parks \subseteq ns \cap retried', UNCHANGED <<given, asking>>, deaths' = deaths, tries' \in Nat, tries' <= MaxRetries,
         \A n \in W!Left : n \in runs \/ n \in parked \/ (n \in again /\ (W!Paused(n) \/ n \in ns))
  PROVE  WorkInv'
<1> PICK t : t = Takes(ns, parks) OBVIOUS
<1>1. record \in Records BY DEF WorkInv, WorkTypes
<1>2. /\ record' \in Records /\ record'.facts = record.facts /\ record'.above = record.above
      /\ \A n : W!Over(n)' = W!Over(n)
      /\ \A n : W!Paused(n)' = (W!Paused(n) /\ n \notin ns)
      /\ \A n \in Numbers : W!Starts(n)' = IF n \in t /\ W!Starts(n) <= CRASHES THEN W!Starts(n) + 1 ELSE W!Starts(n)
  BY <1>1, WakesRecord
<1>3. t \subseteq again \cup held /\ t \cap (runs \cup parks) = {} /\ (\A n \in t : ~W!Over(n)) /\ t \subseteq W!Made /\ t \subseteq Numbers
  BY TakesAre
<1>4. W!Made' = W!Made /\ \A k : W!Found(k)' = W!Found(k) BY <1>2, FactsStay
<1>5. again' = again \ W!Put(ns) /\ held' = (held \cap parks) \cup (W!Put(ns) \cap parks) /\ runs' = runs \cup t
  BY DEF W!Wakes, W!Take, Takes
<1>6. starts' = [n \in Numbers |-> IF n \in t THEN starts[n] + 1 ELSE starts[n]] BY DEF W!Wakes, W!Take, Takes, Numbers
<1>7. W!Put(ns) \subseteq again /\ \A n \in again \cap ns : ~W!Over(n) => n \in W!Put(ns) BY DEF W!Put
<1>8. \A n : n \in t <=> (n \in W!Put(ns) /\ n \notin parks) \/ n \in W!Freed(parks) BY DEF Takes
<1>9. \A n : n \in W!Freed(parks) <=> n \in held /\ n \notin parks /\ ~W!Over(n) /\ n \notin runs BY DEF W!Freed
<1>10. park = parked /\ held \subseteq park /\ again \cap held = {} /\ runs \cap (again \cup held) = {} BY DEF WorkInv, Apart
<1>11. W!Made \subseteq Numbers /\ (\A n \in Numbers : W!Starts(n) \in Nat) BY <1>1, RecordParts
<1>12. again \cup runs \cup parked \cup park \cup held \cup retried \subseteq W!Made BY DEF WorkInv, WorkTypes, W!TypeOK
<1>13. WorkTypes'
  <2>1. starts' \in [Numbers -> Nat]
    <3>1. starts \in [Numbers -> Nat] BY DEF WorkInv, WorkTypes
    <3> QED BY <1>6, <3>1
  <2>2. again' \cup runs' \cup parked' \cup park' \cup held' \cup retried' \subseteq W!Made BY <1>3, <1>5, <1>7, <1>12
  <2>3. W!TypeOK' BY <1>4, <2>2 DEF WorkInv, WorkTypes, W!TypeOK
  <2> QED BY <1>2, <2>1, <2>3 DEF WorkInv, WorkTypes
<1>14. Numbered' /\ Lined' BY <1>2, <1>4, LinedStays DEF WorkInv, Numbered
<1>15. Counted'
  <2>1. \A n \in Numbers : starts[n] = IF n \in runs THEN 1 ELSE 0 BY DEF WorkInv, Counted
  <2>2. \A n \in Numbers : starts'[n] = IF n \in runs' THEN 1 ELSE 0 BY <1>3, <1>5, <1>6, <2>1
  <2>3. \A n \in Numbers : n \notin W!Made => W!Starts(n) = 0 BY DEF WorkInv, Counted
  <2>4. \A n \in Numbers : n \notin W!Made' => W!Starts(n)' = 0 BY <1>2, <1>3, <1>4, <2>3
  <2> QED BY <2>2, <2>4 DEF Counted
<1>16. Apart' BY <1>3, <1>5, <1>7, <1>8, <1>9, <1>10 DEF Apart
<1>17. Guarded'
  <2>1. \A n \in again \cup held : W!Starts(n) >= CRASHES /\ ~W!Over(n) => n \in park \cup retried BY DEF WorkInv, Guarded
  <2>2. \A n \in parked : ~W!Over(n) => n \in again \cup held \cup runs BY DEF WorkInv, Guarded
  <2>3. \A n \in runs : W!Starts(n) > CRASHES => n \in retried BY DEF WorkInv, Guarded
  <2>4. ASSUME NEW n \in again' \cup held', W!Starts(n)' >= CRASHES, ~W!Over(n)' PROVE n \in park' \cup retried'
    <3>1. n \in again \cup held /\ n \notin t /\ n \in Numbers
      <4>1. CASE n \in again /\ n \notin W!Put(ns)
        <5>1. n \notin held BY <1>10, <4>1
        <5>2. n \notin t BY <1>8, <1>9, <4>1, <5>1
        <5> QED BY <1>11, <1>12, <4>1, <5>2
      <4>2. CASE n \in held \cup W!Put(ns) /\ n \in parks
        <5>1. n \notin t BY <1>3, <4>2
        <5> QED BY <1>7, <1>11, <1>12, <4>2, <5>1
      <4> QED BY <1>5, <2>4, <4>1, <4>2
    <3>2. W!Starts(n) >= CRASHES /\ ~W!Over(n) BY <1>2, <2>4, <3>1
    <3>3. n \in park \cup retried BY <2>1, <3>1, <3>2
    <3> QED BY <3>3
  <2>5. ASSUME NEW n \in parked', ~W!Over(n)' PROVE n \in again' \cup held' \cup runs'
    <3>1. n \in parks /\ n \in parked /\ ~W!Over(n) BY <1>2, <1>10, <2>5
    <3>2. n \in again \cup held \cup runs BY <2>2, <3>1
    <3> QED BY <1>5, <3>1, <3>2
  <2>6. ASSUME NEW n \in runs', W!Starts(n)' > CRASHES PROVE n \in retried'
    <3>1. CASE n \in t
      <4>1. W!Starts(n) >= CRASHES
        <5>1. n \in Numbers /\ W!Starts(n) \in Nat /\ CRASHES \in Nat BY <1>3, <1>11, <3>1, Assumed
        <5>2. W!Starts(n)' = IF W!Starts(n) <= CRASHES THEN W!Starts(n) + 1 ELSE W!Starts(n) BY <1>2, <3>1, <5>1
        <5> QED BY <2>6, <5>1, <5>2
      <4>2. n \in again \cup held /\ ~W!Over(n) /\ n \notin parks BY <1>3, <3>1
      <4>3. n \in park \cup retried BY <2>1, <4>1, <4>2
      <4> QED BY <4>2, <4>3
    <3>2. CASE n \notin t
      <4>1. n \in runs /\ n \in Numbers BY <1>5, <1>11, <1>12, <3>2
      <4>2. W!Starts(n)' = W!Starts(n) BY <1>2, <3>2, <4>1
      <4> QED BY <2>3, <2>6, <4>1, <4>2
    <3> QED BY <3>1, <3>2
  <2> QED BY <2>4, <2>5, <2>6 DEF Guarded
<1>18. Awaiting'
  <2>1. ASSUME NEW n \in W!Left' PROVE n \in runs' \/ n \in parked' \/ (n \in again' /\ W!Paused(n)')
    <3>0. n \in W!Made' /\ W!Starts(n)' > 0 /\ ~W!Over(n)' BY <2>1 DEF W!Left
    <3>1. n \in Numbers /\ n \in W!Made /\ W!Starts(n)' > 0 /\ ~W!Over(n) BY <1>2, <1>4, <1>11, <3>0
    <3>2. CASE n \in t BY <1>5, <3>2
    <3>3. CASE n \notin t
      <4>1. W!Starts(n)' = W!Starts(n) BY <1>2, <3>1, <3>3
      <4>2. n \in W!Left BY <3>1, <4>1 DEF W!Left
      <4>3. CASE n \in runs BY <1>5, <4>3
      <4>4. CASE n \in parks BY <4>4
      <4>5. CASE n \in parked /\ n \notin parks /\ n \notin runs
        <5>1. n \in again \cup held /\ n \in ns BY <1>10, <3>1, <4>5 DEF WorkInv, Guarded
        <5> QED BY <1>7, <1>8, <1>9, <3>1, <3>3, <4>5, <5>1
      <4>6. CASE n \in again /\ n \notin parks /\ (W!Paused(n) \/ n \in ns)
        <5>1. n \notin ns BY <1>7, <1>8, <3>1, <3>3, <4>6
        <5>2. n \notin W!Put(ns) BY <5>1 DEF W!Put
        <5> QED BY <1>2, <1>5, <4>6, <5>1, <5>2
      <4> QED BY <4>2, <4>3, <4>4, <4>5, <4>6
    <3> QED BY <3>2, <3>3
  <2> QED BY <2>1 DEF Awaiting, W!NothingLeft
<1>19. Keyed' BY <1>2, KeyedStays DEF WorkInv
<1> QED BY <1>13, <1>14, <1>15, <1>16, <1>17, <1>18, <1>19 DEF WorkInv

\* Each pending act is under one that no other of them made: the first of the pending acts above it, or itself.
LEMMA PendingIsUnder == ASSUME WorkInv PROVE W!Pending \subseteq W!Under(W!Tops)
<1> SUFFICES ASSUME NEW p \in W!Pending PROVE p \in W!Under(W!Tops) OBVIOUS
<1> PICK z : z = {q \in W!Pending : q = p \/ q \in W!Above(p)} OBVIOUS
<1>1. W!Pending \subseteq W!Made /\ W!Made \subseteq Numbers /\ Numbers \subseteq Nat
  BY RecordParts, FactIs DEF WorkInv, WorkTypes, W!Pending
<1>2. z \in SUBSET Nat /\ p \in z BY <1>1
<1>3. PICK q : q \in z /\ \A k \in z : q <= k BY <1>2, MinOf
<1>4. ASSUME NEW k \in W!Above(q) \cap W!Pending PROVE FALSE
  <2>1. q \in Numbers /\ k \in Numbers /\ k < q BY <1>1, <1>3, <1>4 DEF WorkInv, Lined
  <2>2. k \in W!Above(p) BY <1>1, <1>3, <1>4 DEF WorkInv, Lined
  <2>3. k \in z BY <1>4, <2>2
  <2> QED BY <1>1, <1>3, <2>1, <2>3
<1>5. q \in W!Tops BY <1>3, <1>4 DEF W!Tops
<1> QED BY <1>1, <1>3, <1>5 DEF W!Under

LEMMA ResumeKept == ASSUME WorkInv, W!Resume PROVE WorkInv'
<1> PICK ns : ns = W!Under(W!Tops) OBVIOUS
<1>1. up /\ ~resumed /\ W!Wakes(ns, park) /\ up' /\ resumed' BY DEF W!Resume
<1>2. deaths' = deaths /\ tries' = tries /\ parked' = parked /\ park' = park /\ retried' = retried /\ given' = given /\ asking' = asking
  BY DEF W!Resume
<1>3. park = parked /\ W!Left \subseteq again BY <1>1 DEF WorkInv, Apart, Awaiting
<1>4. retried \subseteq W!Made BY DEF WorkInv, WorkTypes, W!TypeOK
<1>5. ns \in SUBSET Numbers BY RecordParts DEF WorkInv, WorkTypes
<1>6. ASSUME NEW n \in W!Left PROVE n \in runs \/ n \in parked \/ (n \in again /\ (W!Paused(n) \/ n \in ns))
  <2>1. n \in again /\ n \in W!Made /\ ~W!Over(n) BY <1>3, <1>6 DEF W!Left
  <2>2. n \notin parked /\ ~W!Paused(n) => n \in W!Pending BY <2>1 DEF W!Pending, W!Holding, W!Waits
  <2> QED BY <2>1, <2>2, PendingIsUnder
<1>7. tries \in Nat /\ tries <= MaxRetries BY DEF WorkInv, WorkTypes, W!TypeOK
<1>8. park \in SUBSET park /\ park \ park \subseteq ns \cap retried' OBVIOUS
<1> QED BY <1>1, <1>2, <1>3, <1>4, <1>5, <1>6, <1>7, <1>8, WakesKept

LEMMA RetryKept == ASSUME WorkInv, NEW p \in Numbers, W!Retry(p) PROVE WorkInv'
<1> PICK ns : ns = W!Under({p}) OBVIOUS
<1>1. up /\ resumed /\ p \in parked /\ tries < MaxRetries /\ tries' = tries + 1 /\ W!Wakes(ns, park \ {p}) BY DEF W!Retry
<1>2. parked' = parked \ {p} /\ park' = park \ {p} /\ retried' = retried \cup {p} /\ UNCHANGED <<deaths, up, resumed, given, asking>>
  BY DEF W!Retry
<1>3. park = parked BY DEF WorkInv, Apart
<1>4. parked \cup retried \subseteq W!Made BY DEF WorkInv, WorkTypes, W!TypeOK
<1>5. \A n \in W!Left : n \in runs \/ n \in parked \/ (n \in again /\ (W!Paused(n) \/ n \in ns))
  BY <1>1 DEF WorkInv, Awaiting, W!NothingLeft
<1>6. tries' \in Nat /\ tries' <= MaxRetries BY <1>1, Assumed DEF WorkInv, WorkTypes
<1>7. park \ {p} \in SUBSET park /\ park \ (park \ {p}) \subseteq ns \cap retried' BY <1>1, <1>2, <1>4 DEF W!Under
<1>8. ns \in SUBSET Numbers /\ retried' \subseteq W!Made /\ retried \subseteq retried'
  BY <1>1, <1>2, <1>4, RecordParts DEF WorkInv, WorkTypes
<1> QED BY <1>1, <1>2, <1>3, <1>5, <1>6, <1>7, <1>8, WakesKept

LEMMA WakeKept == ASSUME WorkInv, NEW p \in Numbers, W!Wake(p) PROVE WorkInv'
<1> PICK ns : ns = W!Under({p}) OBVIOUS
<1>1. up /\ resumed /\ W!Wakes(ns, park) BY DEF W!Wake
<1>2. UNCHANGED <<deaths, tries, up, resumed, parked, park>> /\ UNCHANGED <<retried, given, asking>> BY DEF W!Wake
<1>3. park = parked BY DEF WorkInv, Apart
<1>4. retried \subseteq W!Made /\ tries \in Nat /\ tries <= MaxRetries BY DEF WorkInv, WorkTypes, W!TypeOK
<1>5. \A n \in W!Left : n \in runs \/ n \in parked \/ (n \in again /\ (W!Paused(n) \/ n \in ns))
  BY <1>1 DEF WorkInv, Awaiting, W!NothingLeft
<1>6. park \in SUBSET park /\ park \ park \subseteq ns \cap retried' /\ ns \in SUBSET Numbers
  BY RecordParts DEF WorkInv, WorkTypes
<1> QED BY <1>1, <1>2, <1>3, <1>4, <1>5, <1>6, WakesKept

\* A step that marks a reply in the record, as over or as held by a pause, leaves what is taken and held.
LEMMA MarksKept ==
  ASSUME WorkInv, record' \in Records, record'.facts = record.facts, record'.above = record.above, record'.started = record.started,
         record.over \subseteq record'.over, record.paused \subseteq record'.paused,
         UNCHANGED <<deaths, tries, up, resumed>>, UNCHANGED <<again, runs, parked, park, held, retried>>, UNCHANGED <<starts, given, asking>>
  PROVE  WorkInv'
<1>1. W!Made' = W!Made BY FactsStay
<1>2. (\A n : W!Over(n) => W!Over(n)') /\ (\A n : W!Starts(n)' = W!Starts(n)) /\ (\A n : W!Paused(n) => W!Paused(n)')
  BY DEF W!Over, W!Starts, W!Paused
<1>3. W!Left' \subseteq W!Left
  <2>1. ASSUME NEW n \in W!Left' PROVE n \in W!Left
    <3>1. n \in W!Made' /\ W!Starts(n)' > 0 /\ ~W!Over(n)' BY <2>1 DEF W!Left
    <3> QED BY <1>1, <1>2, <3>1 DEF W!Left
  <2> QED BY <2>1
<1>4. WorkTypes' BY <1>1 DEF WorkInv, WorkTypes, W!TypeOK
<1>5. Numbered' /\ Lined' BY <1>1, LinedStays DEF WorkInv, Numbered
<1>6. Counted' BY <1>1, <1>2 DEF WorkInv, Counted
<1>7. Apart' BY DEF WorkInv, Apart
<1>8. Guarded' BY <1>2 DEF WorkInv, Guarded
<1>9. Awaiting' BY <1>2, <1>3 DEF WorkInv, Awaiting, W!NothingLeft
<1>10. Keyed' BY KeyedStays DEF WorkInv
<1> QED BY <1>4, <1>5, <1>6, <1>7, <1>8, <1>9, <1>10 DEF WorkInv

LEMMA PauseKept == ASSUME WorkInv, NEW p \in Numbers, W!Pause(p) PROVE WorkInv'
<1> PICK r : r = record OBVIOUS
<1>1. record' = [r EXCEPT !.paused = @ \cup W!Under({p})] /\ W!Under({p}) \subseteq Numbers /\ r \in Records
  BY RecordParts DEF W!Pause, WorkInv, WorkTypes
<1>2. record' \in Records /\ record'.facts = r.facts /\ record'.above = r.above /\ record'.started = r.started /\ r.over \subseteq record'.over
      /\ r.paused \subseteq record'.paused BY <1>1 DEF Records
<1>3. UNCHANGED <<deaths, tries, up, resumed>> /\ UNCHANGED <<again, runs, parked, park, held, retried>> /\ UNCHANGED <<starts, given, asking>>
  BY DEF W!Pause
<1> QED BY <1>2, <1>3, MarksKept

LEMMA EndsKept == ASSUME WorkInv, NEW p \in Numbers, W!Ends(p) PROVE WorkInv'
<1> PICK r : r = record OBVIOUS
<1>1. record' = [r EXCEPT !.over = @ \cup {p}] /\ r \in Records BY DEF W!Ends, WorkInv, WorkTypes
<1>2. record' \in Records /\ record'.facts = r.facts /\ record'.above = r.above /\ record'.started = r.started /\ r.over \subseteq record'.over
      /\ r.paused \subseteq record'.paused BY <1>1 DEF Records
<1>3. UNCHANGED <<deaths, tries, up, resumed>> /\ UNCHANGED <<again, runs, parked, park, held, retried>> /\ UNCHANGED <<starts, given, asking>>
  BY DEF W!Ends
<1> QED BY <1>2, <1>3, MarksKept

(* A prompt of the operator. *)
LEMMA SameCardinality == \A Z : W!Cardinality(Z) = Cardinality(Z)
BY DEF W!Cardinality, Cardinality

LEMMA OneOfNone ==
  ASSUME NEW p \in Numbers, NEW st \in [Numbers -> Nat], st[p] = 0,
         NEW b, b = [n \in Numbers |-> IF n \in {p} /\ st[n] <= CRASHES THEN st[n] + 1 ELSE st[n]]
  PROVE  b \in [Numbers -> Nat] /\ b[p] = 1 /\ \A n \in Numbers : n # p => b[n] = st[n]
<1>1. CRASHES \in Nat BY Assumed
<1>2. b[p] = 1 BY <1>1
<1>3. b \in [Numbers -> Nat] BY <1>1
<1>4. \A n \in Numbers : n # p => b[n] = st[n] OBVIOUS
<1> QED BY <1>2, <1>3, <1>4

LEMMA PromptingIsNew ==
  ASSUME WorkInv, W!Prompting \in Numbers
  PROVE  W!Prompting \notin W!Made /\ \E m \in 0 .. MaxPrompts : W!Made \cup {W!Prompting} = 1 .. m
<1>1. PICK m \in 0 .. MaxPrompts : W!Made = 1 .. m BY DEF WorkInv, Numbered
<1>2. Cardinality(1 .. m) = m
  <2>1. m \in Nat /\ 1 \in Int /\ m \in Int BY <1>1, Assumed
  <2> QED BY <2>1, FS_Interval
<1>3. W!Prompting = m + 1 BY <1>1, <1>2, SameCardinality DEF W!Prompting
<1>4. m + 1 \in 0 .. MaxPrompts /\ m \in Nat BY <1>1, <1>3, Assumed DEF Numbers, W!Prompts
<1>5. (1 .. m) \cup {m + 1} = 1 .. (m + 1) BY <1>4
<1> QED BY <1>1, <1>3, <1>4, <1>5

\* The parts of the record once a prompt is made.
LEMMA MakingFacts ==
  ASSUME WorkInv, NEW p \in Numbers, p = W!Prompting, NEW kind \in {"prompt", "word"}, NEW above \in SUBSET Numbers, W!Making(kind, above)
  PROVE  /\ record' \in Records /\ record'.facts = Append(record.facts, W!Fact(kind, p))
         /\ record'.over = record.over /\ record'.paused = record.paused
         /\ \A n : n # p => W!Above(n)' = W!Above(n)
         /\ W!Above(p)' = above
         /\ W!Starts(p)' = 1 /\ \A n \in Numbers : n # p => W!Starts(n)' = W!Starts(n)
<1> PICK r : r = record OBVIOUS
<1> PICK b : b = W!Begun({p}) OBVIOUS
<1> PICK f : f = Append(r.facts, W!Fact(kind, p)) OBVIOUS
<1> PICK u : u = [r.above EXCEPT ![p] = above] OBVIOUS
<1>1. record' = [r EXCEPT !.facts = f, !.started = b, !.above = u] /\ r \in Records
  BY DEF W!Making, WorkInv, WorkTypes
<1>2. r.facts \in Seq(FactsOfWork) /\ r.above \in [Numbers -> SUBSET Numbers] /\ \A n \in Numbers : W!Starts(n) \in Nat
  BY RecordParts, <1>1
<1>3. f \in Seq(FactsOfWork)
  <2>1. W!Fact(kind, p) \in FactsOfWork BY FactIs
  <2> QED BY <1>2, <2>1
<1>4. b \in [Numbers -> Nat] /\ b[p] = 1 /\ \A n \in Numbers : n # p => b[n] = W!Starts(n)
  <2>1. W!Starts(p) = 0 BY PromptingIsNew DEF WorkInv, Counted
  <2> PICK st : st = r.started OBVIOUS
  <2>2. \A n : W!Starts(n) = st[n] BY DEF W!Starts
  <2>3. b = [n \in Numbers |-> IF n \in {p} /\ st[n] <= CRASHES THEN st[n] + 1 ELSE st[n]] BY <2>2 DEF W!Begun, Numbers
  <2>4. st \in [Numbers -> Nat] /\ p \in Numbers /\ st[p] = 0 BY <1>1, <2>1, <2>2, RecordParts
  <2>5. b \in [Numbers -> Nat] /\ b[p] = 1 /\ \A n \in Numbers : n # p => b[n] = st[n] BY <2>3, <2>4, OneOfNone
  <2> QED BY <2>2, <2>5
<1>5. u \in [Numbers -> SUBSET Numbers] /\ u[p] = above /\ \A n : n # p => u[n] = r.above[n] BY <1>2
<1>6. record' \in Records /\ record'.facts = f /\ record'.started = b /\ record'.above = u /\ record'.over = r.over /\ record'.paused = r.paused
  BY <1>1, <1>3, <1>4, <1>5 DEF Records
<1>7. (\A n : n # p => W!Above(n)' = W!Above(n)) /\ W!Above(p)' = above BY <1>5, <1>6 DEF W!Above
<1>8. \A n : W!Starts(n)' = b[n] BY <1>6 DEF W!Starts
<1> QED BY <1>4, <1>6, <1>7, <1>8

\* What is above a new prompt: nothing, or a prompt that runs and what is above it.
MayBeAbove(above) == above = {} \/ \E n \in runs : above = {n} \cup W!Above(n)

LEMMA MakingKept ==
  ASSUME WorkInv, up, W!Prompting \in Numbers, NEW kind \in {"prompt", "word"}, NEW above \in SUBSET Numbers, MayBeAbove(above),
         W!Making(kind, above), UNCHANGED <<deaths, tries, up, resumed>>, resumed,
         UNCHANGED <<again, parked, park, held, retried>>, Keyed'
         , given' \in [Keys -> Seq(Numbers)], asking' \in Keys \cup {W!None}
  PROVE  WorkInv'
<1> PICK p : p = W!Prompting OBVIOUS
<1>1. /\ record' \in Records /\ record'.facts = Append(record.facts, W!Fact(kind, p))
      /\ record'.over = record.over /\ record'.paused = record.paused
      /\ (\A n : n # p => W!Above(n)' = W!Above(n)) /\ W!Above(p)' = above
      /\ W!Starts(p)' = 1 /\ \A n \in Numbers : n # p => W!Starts(n)' = W!Starts(n)
  BY MakingFacts
<1>2. record.facts \in Seq(FactsOfWork) /\ W!Made \subseteq Numbers /\ \A n \in Numbers : W!Starts(n) \in Nat
  BY RecordParts DEF WorkInv, WorkTypes
<1>6. W!Made' = W!Made \cup {p}
  <2>1. record'.facts \in Seq(FactsOfWork) /\ W!Made' = PromptsIn(record'.facts)
    <3>1. record'.facts \in Seq(FactsOfWork) BY <1>1 DEF Records
    <3> QED BY <3>1, PromptsOf DEF W!Made
  <2>2. PromptsIn(Append(record.facts, W!Fact(kind, p))) = PromptsIn(record.facts) \cup {p} BY <1>2, PromptsAppend
  <2> QED BY <1>1, <1>2, <2>1, <2>2, MadeIs
<1>7. (\A n : W!Over(n)' = W!Over(n)) /\ (\A n : W!Paused(n)' = W!Paused(n)) BY <1>1 DEF W!Over, W!Paused
<1>9. runs' = runs \cup {p} /\ starts' = [n \in Numbers |-> IF n \in {p} THEN starts[n] + 1 ELSE starts[n]]
  BY DEF W!Making, W!Take, Numbers
<1>10. p \notin W!Made BY PromptingIsNew
<1>11. again \cup runs \cup parked \cup park \cup held \cup retried \subseteq W!Made BY DEF WorkInv, WorkTypes, W!TypeOK
<1>12. WorkTypes'
  <2>1. starts' \in [Numbers -> Nat] BY <1>9 DEF WorkInv, WorkTypes
  <2>2. W!TypeOK' BY <1>6, <1>9, <1>11 DEF WorkInv, WorkTypes, W!TypeOK
  <2> QED BY <1>1, <2>1, <2>2 DEF WorkInv, WorkTypes
<1>13. Numbered' BY <1>6, PromptingIsNew DEF Numbered
<1>18. Lined'
  <2>1. PICK m \in 0 .. MaxPrompts : W!Made = 1 .. m BY DEF WorkInv, Numbered
  <2>2. \A n \in W!Made : n < p
    <3>1. m \in Nat /\ p \notin 1 .. m /\ p \in Nat /\ p # 0 BY <1>10, <2>1, Assumed, FactIs
    <3> QED BY <2>1, <3>1
  <2>3. \A n \in Numbers : W!Above(n) \subseteq W!Made
    <3>1. ASSUME NEW n \in W!Made, NEW k \in W!Above(n) PROVE k \in W!Made
      <4>1. n \in Numbers /\ k \in Numbers /\ k < n BY <1>2, <3>1, RecordParts DEF WorkInv, WorkTypes, Lined
      <4>2. k \in Nat /\ k # 0 /\ n \in Nat /\ m \in Nat BY <2>1, <4>1, FactIs, Assumed
      <4> QED BY <2>1, <3>1, <4>1, <4>2
    <3> QED BY <3>1 DEF WorkInv, Lined
  <2>4. above \subseteq W!Made /\ \A k \in above : W!Above(k) \subseteq above
    <3>1. ASSUME NEW n \in runs, above = {n} \cup W!Above(n) PROVE above \subseteq W!Made /\ \A k \in above : W!Above(k) \subseteq above
      <4>1. n \in W!Made /\ n \in Numbers BY <1>2, <1>11, <3>1
      <4>2. \A k \in W!Above(n) : W!Above(k) \subseteq W!Above(n) BY <4>1 DEF WorkInv, Lined
      <4> QED BY <2>3, <3>1, <4>1, <4>2
    <3> QED BY <3>1 DEF MayBeAbove
  <2>5. ASSUME NEW n \in Numbers, n \notin W!Made' PROVE W!Above(n)' = {}
    BY <1>1, <1>6, <2>5 DEF WorkInv, Lined
  <2>6. ASSUME NEW n \in Numbers, NEW k \in W!Above(n)' PROVE k < n /\ W!Above(k)' \subseteq W!Above(n)'
    <3>1. CASE n = p
      <4>1. k \in above /\ k \in W!Made /\ k # p BY <1>1, <1>10, <2>4, <2>6, <3>1
      <4> QED BY <1>1, <2>2, <2>4, <3>1, <4>1
    <3>2. CASE n # p
      <4>1. k \in W!Above(n) /\ k # p BY <1>1, <1>10, <2>3, <2>6, <3>2
      <4>2. k < n /\ W!Above(k) \subseteq W!Above(n) BY <4>1 DEF WorkInv, Lined
      <4> QED BY <1>1, <3>2, <4>1, <4>2
    <3> QED BY <3>1, <3>2
  <2> QED BY <2>5, <2>6 DEF Lined
<1>14. Counted'
  <2>1. \A n \in Numbers : starts[n] = IF n \in runs THEN 1 ELSE 0 BY DEF WorkInv, Counted
  <2>2. \A n \in Numbers : starts'[n] = IF n \in runs' THEN 1 ELSE 0 BY <1>9, <1>10, <1>11, <2>1
  <2>3. \A n \in Numbers : n \notin W!Made' => W!Starts(n)' = 0 BY <1>1, <1>6 DEF WorkInv, Counted
  <2> QED BY <2>2, <2>3 DEF Counted
<1>15. Apart' BY <1>9, <1>10, <1>11 DEF WorkInv, Apart
<1>16. Guarded'
  <2>1. \A n \in W!Made : W!Starts(n)' = W!Starts(n) BY <1>1, <1>2, <1>10
  <2>2. \A n \in again' \cup held' : W!Starts(n)' >= CRASHES /\ ~W!Over(n)' => n \in park' \cup retried'
    BY <1>7, <1>11, <2>1 DEF WorkInv, Guarded
  <2>3. \A n \in parked' : ~W!Over(n)' => n \in again' \cup held' \cup runs' BY <1>7, <1>9 DEF WorkInv, Guarded
  <2>4. \A n \in runs' : W!Starts(n)' > CRASHES => n \in retried'
    <3>0. ~(1 > CRASHES) BY Assumed
    <3>1. ~(W!Starts(p)' > CRASHES) BY <1>1, <3>0
    <3>2. \A n \in runs : W!Starts(n)' > CRASHES => n \in retried BY <1>11, <2>1 DEF WorkInv, Guarded
    <3> QED BY <1>9, <3>1, <3>2
  <2> QED BY <2>2, <2>3, <2>4 DEF Guarded
<1>17. Awaiting'
  <2>1. ASSUME NEW n \in W!Left', n # p PROVE n \in W!Left
    <3>1. n \in W!Made' /\ W!Starts(n)' > 0 /\ ~W!Over(n)' BY <2>1 DEF W!Left
    <3>2. n \in W!Made /\ W!Starts(n) > 0 /\ ~W!Over(n) BY <1>1, <1>2, <1>6, <1>7, <2>1, <3>1
    <3> QED BY <3>2 DEF W!Left
  <2>2. \A n \in W!Left : n \in runs \/ n \in parked \/ (n \in again /\ W!Paused(n)) BY DEF WorkInv, Awaiting, W!NothingLeft
  <2> QED BY <1>7, <1>9, <2>1, <2>2 DEF Awaiting, W!NothingLeft
<1> QED BY <1>12, <1>13, <1>14, <1>15, <1>16, <1>17, <1>18 DEF WorkInv

\* A prompt that is not of a key leaves what each key found, and no key asks.
LEMMA MadeKept ==
  ASSUME WorkInv, up, resumed, asking = W!None, W!Prompting \in Numbers, NEW kind \in {"prompt", "word"},
         NEW above \in SUBSET Numbers, MayBeAbove(above), W!Making(kind, above),
         UNCHANGED <<deaths, tries, up, resumed>>, UNCHANGED <<again, parked, park, held, retried>>, UNCHANGED <<given, asking>>
  PROVE  WorkInv'
<1> PICK s : s = record.facts OBVIOUS
<1> PICK f : f = W!Fact(kind, W!Prompting) OBVIOUS
<1>1. s \in Seq(FactsOfWork) /\ f \in FactsOfWork BY RecordParts, FactIs DEF WorkInv, WorkTypes
<1>2. record'.facts = Append(s, f) BY MakingFacts
<1>3. \A k : W!Found(k)' = FoundIn(Append(s, f), k) BY <1>2 DEF W!Found, FoundIn, ActsAfter
<1>4. Keyed'
  <2>1. ASSUME NEW k \in Keys, NEW i \in 1 .. Len(given'[k]) PROVE given'[k][i] = W!Found(k)' /\ W!Found(k)' # 0
    <3>1. given[k][i] = W!Found(k) /\ W!Found(k) # 0 BY <2>1 DEF WorkInv, Keyed
    <3>2. W!Found(k) = FoundIn(s, k) BY FoundIs
    <3>3. FoundIn(Append(s, f), k) = FoundIn(s, k) BY <1>1, <3>1, <3>2, FoundStays
    <3> QED BY <1>3, <3>1, <3>2, <3>3
  <2>2. asking' \notin Keys BY Assumed
  <2> QED BY <2>1, <2>2 DEF Keyed
<1>5. given' \in [Keys -> Seq(Numbers)] /\ asking' \in Keys \cup {W!None} BY DEF WorkInv, WorkTypes, W!TypeOK
<1> QED BY <1>4, <1>5, MakingKept

LEMMA PromptKept == ASSUME WorkInv, W!Prompt PROVE WorkInv'
<1>1. up /\ resumed /\ asking = W!None /\ W!Prompting \in Numbers /\ W!Making("prompt", {}) BY DEF W!Prompt, Numbers
<1>2. UNCHANGED <<deaths, tries, up, resumed>> /\ UNCHANGED <<again, parked, park, held, retried>> /\ UNCHANGED <<given, asking>>
  BY DEF W!Prompt
<1>3. {} \in SUBSET Numbers /\ MayBeAbove({}) BY DEF MayBeAbove
<1> QED BY <1>1, <1>2, <1>3, MadeKept

LEMMA AsksKept == ASSUME WorkInv, NEW n \in Numbers, W!Asks(n) PROVE WorkInv'
<1> PICK u : u = {n} \cup W!Above(n) OBVIOUS
<1>1. up /\ resumed /\ asking = W!None /\ W!Prompting \in Numbers /\ n \in runs /\ W!Making("word", u) BY DEF W!Asks, Numbers
<1>2. UNCHANGED <<deaths, tries, up, resumed>> /\ UNCHANGED <<again, parked, park, held, retried>> /\ UNCHANGED <<given, asking>>
  BY DEF W!Asks
<1>3. u \in SUBSET Numbers /\ MayBeAbove(u) BY <1>1, RecordParts DEF WorkInv, WorkTypes, MayBeAbove
<1> QED BY <1>1, <1>2, <1>3, MadeKept

LEMMA AnswersKept == ASSUME WorkInv, NEW k \in Keys, W!Answers(k) PROVE WorkInv'
<1>1. up /\ asking = k /\ asking' = W!None BY DEF W!Answers
<1>2. UNCHANGED <<deaths, tries, up, resumed>> /\ UNCHANGED <<again, parked, park, held, retried>> BY DEF W!Answers
<1>3. resumed BY <1>1, Assumed DEF WorkInv, Awaiting
<1>4. asking' \notin Keys BY <1>1, Assumed
<1>5. given \in [Keys -> Seq(Numbers)] /\ tries \in Nat /\ tries <= MaxRetries /\ deaths \in Nat /\ deaths <= MaxDeaths
  BY DEF WorkInv, WorkTypes, W!TypeOK
<1>6. CASE W!Making("prompt", {}) /\ given' = [given EXCEPT ![k] = Append(@, W!Prompting)] /\ W!Prompting \in Numbers
  <2> PICK s : s = record.facts OBVIOUS
  <2> PICK f : f = W!Fact("prompt", W!Prompting) OBVIOUS
  <2>1. s \in Seq(FactsOfWork) /\ f \in FactsOfWork /\ f[1] = "prompt" /\ f[2] = W!Prompting /\ record \in Records
    BY <1>6, RecordParts, FactIs DEF WorkInv, WorkTypes
  <2>11. {} \in SUBSET Numbers /\ MayBeAbove({}) /\ "prompt" \in {"prompt", "word"} BY DEF MayBeAbove
  <2>2. record'.facts = Append(s, f) BY <1>6, <2>1, <2>11, MakingFacts
  <2>3. \A x : W!Found(x)' = FoundIn(Append(s, f), x) BY <2>2 DEF W!Found, FoundIn, ActsAfter
  <2>4. FoundIn(s, k) = 0 /\ KeyIn(s, k) BY <1>1, FoundIs DEF WorkInv, Keyed, KeyIn
  <2>5. W!Found(k)' = W!Prompting /\ W!Prompting # 0 BY <1>6, <2>1, <2>3, <2>4, FoundStays, FactIs
  <2>6. given[k] \in Seq(Numbers) /\ \A i \in 1 .. Len(given[k]) : FALSE
    <3>1. \A i \in 1 .. Len(given[k]) : W!Found(k) # 0 BY DEF WorkInv, Keyed
    <3> QED BY <1>5, <2>4, <3>1, FoundIs
  <2>7. given'[k] = Append(given[k], W!Prompting) /\ \A x \in Keys : x # k => given'[x] = given[x] BY <1>5, <1>6
  <2>8. given' \in [Keys -> Seq(Numbers)] BY <1>5, <1>6
  <2>9. ASSUME NEW x \in Keys, NEW i \in 1 .. Len(given'[x]) PROVE given'[x][i] = W!Found(x)' /\ W!Found(x)' # 0
    <3>1. CASE x = k
      <4>1. Len(given[k]) = 0 BY <2>6
      <4>2. i = 1 /\ given'[k][1] = W!Prompting BY <2>6, <2>7, <2>9, <3>1, <4>1
      <4> QED BY <2>5, <3>1, <4>2
    <3>2. CASE x # k
      <4>1. given[x][i] = W!Found(x) /\ W!Found(x) # 0 /\ given'[x] = given[x] BY <2>7, <2>9, <3>2 DEF WorkInv, Keyed
      <4>2. FoundIn(Append(s, f), x) = FoundIn(s, x) BY <2>1, <4>1, FoundStays, FoundIs
      <4> QED BY <2>3, <4>1, <4>2, FoundIs
    <3> QED BY <3>1, <3>2
  <2>10. Keyed' BY <1>4, <2>9 DEF Keyed
  <2> QED BY <1>1, <1>2, <1>3, <1>6, <2>8, <2>10, <2>11, MakingKept
<1>7. CASE UNCHANGED <<record, runs, starts, given>>
  <2>1. \A x : W!Found(x)' = W!Found(x) BY <1>7, FactsStay
  <2>2. Keyed' BY <1>4, <1>7, <2>1 DEF WorkInv, Keyed
  <2>3. W!Made' = W!Made BY <1>7, FactsStay
  <2>4. (\A n : W!Over(n)' = W!Over(n)) /\ (\A n : W!Starts(n)' = W!Starts(n)) /\ \A n : W!Paused(n)' = W!Paused(n)
    BY <1>7 DEF W!Over, W!Starts, W!Paused
  <2>5. W!Left' = W!Left BY <1>7, <2>3 DEF W!Left, W!Starts, W!Over
  <2>6. WorkTypes' BY <1>1, <1>2, <1>7, <2>3 DEF WorkInv, WorkTypes, W!TypeOK
  <2>7. Numbered' /\ Lined' BY <1>7, <2>3, LinedStays DEF WorkInv, Numbered
  <2>8. Counted' BY <1>7, <2>3, <2>4 DEF WorkInv, Counted
  <2>9. Apart' BY <1>2, <1>7 DEF WorkInv, Apart
  <2>10. Guarded' BY <1>2, <1>7, <2>4 DEF WorkInv, Guarded
  <2>11. Awaiting' BY <1>1, <1>2, <1>7, <2>4, <2>5 DEF WorkInv, Awaiting, W!NothingLeft
  <2> QED BY <2>2, <2>6, <2>7, <2>8, <2>9, <2>10, <2>11 DEF WorkInv
<1>8. W!Prompting \in Numbers BY <1>1 DEF WorkInv, Keyed
<1> QED BY <1>6, <1>7, <1>8 DEF W!Answers

LEMMA CallsKept == ASSUME WorkInv, NEW k \in Keys, W!Calls(k) PROVE WorkInv'
<1>1. up /\ resumed /\ asking = W!None /\ W!Prompting \in Numbers BY DEF W!Calls, Numbers
<1>2. UNCHANGED <<deaths, tries, up, resumed>> /\ UNCHANGED <<again, runs, parked, park, held, retried>> /\ starts' = starts
  BY DEF W!Calls
<1>3. given \in [Keys -> Seq(Numbers)] /\ tries \in Nat /\ tries <= MaxRetries /\ deaths \in Nat /\ deaths <= MaxDeaths
      /\ record \in Records /\ starts \in [Numbers -> Nat]
  BY DEF WorkInv, WorkTypes, W!TypeOK
<1> PICK s : s = record.facts OBVIOUS
<1>4. s \in Seq(FactsOfWork) BY <1>3, RecordParts
<1>5. CASE W!Found(k) # 0 /\ given' = [given EXCEPT ![k] = Append(@, W!Found(k))] /\ UNCHANGED <<record, asking>>
  <2>0. \A x : W!Found(x)' = W!Found(x) BY <1>5, FactsStay
  <2>1. W!Found(k) \in Numbers
    <3>1. FoundIn(s, k) # 0 BY <1>5, FoundIs
    <3>2. ActsAfter(s, k) # {} BY <1>4, <3>1, FoundWhere
    <3>3. W!Min(ActsAfter(s, k)) \in ActsAfter(s, k) BY <1>4, <3>2, FoundWhere
    <3> PICK a : a = W!Min(ActsAfter(s, k)) OBVIOUS
    <3>4. a \in 1 .. Len(s) /\ s[a][1] = "prompt" BY <3>3 DEF ActsAfter
    <3>5. s[a] \in FactsOfWork BY <1>4, <3>4
    <3>6. s[a][2] \in Numbers BY <3>4, <3>5, FactIs
    <3> QED BY <3>2, <3>6, FoundIs DEF FoundIn
  <2> PICK v : v = W!Found(k) OBVIOUS
  <2>2. given'[k] = Append(given[k], v) /\ given[k] \in Seq(Numbers) /\ \A x \in Keys : x # k => given'[x] = given[x] BY <1>3, <1>5
  <2>3. given' \in [Keys -> Seq(Numbers)] BY <1>3, <1>5, <2>1
  <2>4. ASSUME NEW x \in Keys, NEW i \in 1 .. Len(given'[x]) PROVE given'[x][i] = W!Found(x) /\ W!Found(x) # 0
    <3>1. CASE x = k
      <4> PICK q : q = given[k] OBVIOUS
      <4>1. \A j \in 1 .. Len(q) : q[j] = v BY DEF WorkInv, Keyed
      <4>2. given'[k] = Append(q, v) /\ q \in Seq(Numbers) BY <2>2
      <4>3. i \in 1 .. Len(q) + 1 BY <2>4, <3>1, <4>2
      <4>4. Append(q, v)[i] = v BY <4>1, <4>2, <4>3
      <4> QED BY <1>5, <3>1, <4>2, <4>4
    <3>2. CASE x # k BY <2>2, <2>4, <3>2 DEF WorkInv, Keyed
    <3> QED BY <3>1, <3>2
  <2>5. Keyed'
    <3>1. \A x \in Keys : asking' = x => W!Found(x)' = 0 /\ \E i \in 1 .. Len(record'.facts) : record'.facts[i] = W!Fact("key", x)
      BY <1>1, <1>5, Assumed
    <3>2. asking' \notin Keys BY <1>1, <1>5, Assumed
    <3> QED BY <2>0, <2>4, <3>1, <3>2 DEF Keyed
  <2>6. W!Made' = W!Made BY <1>5, FactsStay
  <2>7. (\A n : W!Over(n)' = W!Over(n)) /\ (\A n : W!Starts(n)' = W!Starts(n)) /\ \A n : W!Paused(n)' = W!Paused(n)
    BY <1>5 DEF W!Over, W!Starts, W!Paused
  <2>8. W!Left' = W!Left BY <1>5, <2>6 DEF W!Left, W!Starts, W!Over
  <2>9. WorkTypes' BY <1>2, <1>3, <1>5, <2>3, <2>6 DEF WorkInv, WorkTypes, W!TypeOK
  <2>10. Numbered' /\ Lined' BY <1>5, <2>6, LinedStays DEF WorkInv, Numbered
  <2>11. Counted' BY <1>2, <2>6, <2>7 DEF WorkInv, Counted
  <2>12. Apart' BY <1>2 DEF WorkInv, Apart
  <2>13. Guarded' BY <1>2, <2>7 DEF WorkInv, Guarded
  <2>14. Awaiting' BY <1>1, <1>2, <2>7, <2>8 DEF WorkInv, Awaiting, W!NothingLeft
  <2> QED BY <2>5, <2>9, <2>10, <2>11, <2>12, <2>13, <2>14 DEF WorkInv
<1>6. CASE W!Found(k) = 0 /\ record' = [record EXCEPT !.facts = Append(@, W!Fact("key", k))] /\ asking' = k /\ given' = given
  <2> PICK f : f = W!Fact("key", k) OBVIOUS
  <2> PICK r : r = record OBVIOUS
  <2>1. f \in FactsOfWork /\ f[1] # "prompt" BY FactIs
  <2> PICK t : t = Append(s, f) OBVIOUS
  <2>2. t \in Seq(FactsOfWork) BY <1>4, <2>1
  <2>3. record' = [r EXCEPT !.facts = t] /\ r \in Records BY <1>3, <1>6
  <2>4. record' \in Records /\ record'.facts = t /\ record'.above = r.above /\ record'.started = r.started /\ record'.over = r.over /\ record'.paused = r.paused
    BY <2>2, <2>3 DEF Records
  <2>5. W!Made' = W!Made
    <3>1. W!Made' = PromptsIn(record'.facts) BY <2>2, <2>4, PromptsOf DEF W!Made
    <3>2. PromptsIn(t) = PromptsIn(s) BY <1>4, PromptsAppend
    <3> QED BY <1>4, <2>4, <3>1, <3>2, MadeIs
  <2>6. \A x : W!Found(x)' = FoundIn(t, x) BY <2>4 DEF W!Found, FoundIn, ActsAfter
  <2>7. \A x : W!Found(x) = FoundIn(s, x) BY FoundIs
  <2>8. \A x : (W!Found(x) # 0 => W!Found(x)' = W!Found(x)) /\ (W!Found(x) = 0 => W!Found(x)' = 0)
    BY <1>4, <2>1, <2>6, <2>7, FoundStays
  <2>9. Keyed'
    <3>1. ASSUME NEW x \in Keys, NEW i \in 1 .. Len(given'[x]) PROVE given'[x][i] = W!Found(x)' /\ W!Found(x)' # 0
      <4>1. given[x][i] = W!Found(x) /\ W!Found(x) # 0 BY <1>6, <3>1 DEF WorkInv, Keyed
      <4> QED BY <1>6, <2>8, <4>1
    <3>2. W!Found(k)' = 0 BY <1>6, <2>8
    <3>3. \E i \in 1 .. Len(t) : t[i] = f
      <4>1. Len(s) + 1 \in 1 .. Len(t) /\ t[Len(s) + 1] = f BY <1>4
      <4> QED BY <4>1
    <3>4. W!Prompting' = W!Prompting BY <2>5 DEF W!Prompting
    <3>5. \A x \in Keys : asking' = x => W!Found(x)' = 0 /\ \E i \in 1 .. Len(record'.facts) : record'.facts[i] = W!Fact("key", x)
      BY <1>6, <2>4, <3>2, <3>3
    <3>6. W!Prompting' \in Numbers BY <1>1, <3>4
    <3> QED BY <3>1, <3>5, <3>6 DEF Keyed
  <2>10. (\A n : W!Over(n)' = W!Over(n)) /\ (\A n : W!Starts(n)' = W!Starts(n)) /\ \A n : W!Paused(n)' = W!Paused(n)
    BY <2>4 DEF W!Over, W!Starts, W!Paused
  <2>11. W!Left' = W!Left BY <2>4, <2>5 DEF W!Left, W!Starts, W!Over
  <2>12. WorkTypes' BY <1>2, <1>3, <1>6, <2>4, <2>5 DEF WorkInv, WorkTypes, W!TypeOK
  <2>13. Numbered' /\ Lined' BY <2>4, <2>5, LinedStays DEF WorkInv, Numbered
  <2>14. Counted' BY <1>2, <2>5, <2>10 DEF WorkInv, Counted
  <2>15. Apart' BY <1>2 DEF WorkInv, Apart
  <2>16. Guarded' BY <1>2, <2>10 DEF WorkInv, Guarded
  <2>17. Awaiting' BY <1>1, <1>2, <2>10, <2>11 DEF WorkInv, Awaiting, W!NothingLeft
  <2> QED BY <2>9, <2>12, <2>13, <2>14, <2>15, <2>16, <2>17 DEF WorkInv
<1> QED BY <1>5, <1>6 DEF W!Calls

LEMMA WorkNext == ASSUME WorkInv, [W!Next]_ofWork PROVE WorkInv'
<1>1. CASE UNCHANGED ofWork
  <2>1. UNCHANGED record /\ UNCHANGED <<again, runs, parked, park, held, retried>> /\ UNCHANGED <<starts, given, asking>>
    /\ UNCHANGED resumed /\ up' = up /\ deaths' = deaths /\ tries' = tries BY <1>1 DEF ofWork
  <2>2. tries \in Nat /\ tries <= MaxRetries /\ deaths \in Nat /\ deaths <= MaxDeaths BY DEF WorkInv, WorkTypes, W!TypeOK
  <2> QED BY <2>1, <2>2, StillKept
<1>2. CASE W!Boot \/ W!Dies BY <1>2, BootKept, DiesKept
<1>3. CASE W!Resume \/ W!Prompt BY <1>3, ResumeKept, PromptKept
<1>4. ASSUME NEW n \in Numbers, W!Retry(n) \/ W!Pause(n) \/ W!Wake(n) \/ W!Asks(n) \/ W!Ends(n) PROVE WorkInv'
  BY <1>4, RetryKept, PauseKept, WakeKept, AsksKept, EndsKept
<1>5. ASSUME NEW k \in Keys, W!Calls(k) \/ W!Answers(k) PROVE WorkInv'
  BY <1>5, CallsKept, AnswersKept
<1> QED BY <1>1, <1>2, <1>3, <1>4, <1>5 DEF W!Next, Numbers

\* A key that was given one act was given a set of one at most.
LEMMA OneGiven == ASSUME WorkInv, NEW k \in Keys PROVE W!Cardinality(W!Range(given[k])) <= 1
<1> PICK q : q = given[k] OBVIOUS
<1> PICK v : v = W!Found(k) OBVIOUS
<1>1. q \in Seq(Numbers) /\ \A i \in 1 .. Len(q) : q[i] = v BY DEF WorkInv, WorkTypes, Keyed
<1>2. W!Range(q) \subseteq {v} BY <1>1 DEF W!Range
<1>3. IsFiniteSet({v}) /\ Cardinality({v}) = 1 BY FS_Singleton
<1>4. Cardinality(W!Range(q)) <= 1 BY <1>2, <1>3, FS_Subset
<1> QED BY <1>4, SameCardinality

\* A later life takes each act that an earlier one left, once, but for one that is parked after CRASHES lives or that a
\* pause holds, and a key makes one act, for any number of prompts, keys, deaths, retries and pauses (Engine::resume,
\* parked, keyed).
THEOREM WorkTheorem == Spec => []WorkHolds
<1>1. Init => WorkInv
  BY WorkInit DEF Init
<1>2. WorkInv /\ [Next]_vars => WorkInv'
  <2>1. [Next]_vars => [W!Next]_ofWork
    BY DEF Next, Work, Ears, Hub, Wires, vars
  <2> QED BY <2>1, WorkNext
<1>3. WorkInv => WorkHolds
  <2> SUFFICES ASSUME WorkInv PROVE W!TypeOK /\ W!WorkHolds
    BY DEF WorkHolds
  <2>1. W!TypeOK /\ W!NothingLeft BY DEF WorkInv, WorkTypes, Awaiting
  <2>2. W!ParkHolds BY DEF WorkInv, Guarded, W!ParkHolds
  <2>3. W!OncePerLife BY DEF WorkInv, Counted, W!OncePerLife, Numbers
  <2>4. W!KeyOnce BY OneGiven DEF W!KeyOnce
  <2> QED BY <2>1, <2>2, <2>3, <2>4 DEF W!WorkHolds
<1> QED BY <1>1, <1>2, <1>3, PTL DEF Spec

\* A resume ends no pause of an act, for any lineage of acts and any pauses, but for one under an act that waits, which
\* a wake covers (Engine::resume, pending): of what it wakes, the first of its pending acts waits.
THEOREM PauseTheorem == Spec => W!PauseHolds
<1>1. Init => WorkInv
  BY WorkInit DEF Init
<1>2. [Next]_vars => [W!Next]_ofWork
  BY DEF Next, Work, Ears, Hub, Wires, vars
<1>3. WorkInv /\ [Next]_vars => WorkInv'
  BY <1>2, WorkNext
<1>4. ASSUME WorkInv, W!Resume, NEW n \in W!Made, W!Paused(n), \A m \in W!Above(n) : ~W!Waits(m) PROVE W!Paused(n)'
  <2> PICK ns : ns = W!Under(W!Tops) OBVIOUS
  <2>1. record \in Records /\ W!Wakes(ns, park) BY <1>4 DEF WorkInv, WorkTypes, W!Resume
  <2>2. ns \in SUBSET Numbers BY <2>1, RecordParts
  <2>3. W!Paused(n)' = (W!Paused(n) /\ n \notin ns) BY <2>1, <2>2, WakesRecord
  <2>4. \A m \in W!Tops : W!Waits(m) BY DEF W!Tops, W!Pending
  <2>5. n \notin W!Tops BY <1>4, <2>4 DEF W!Waits
  <2>6. n \notin ns BY <1>4, <2>4, <2>5 DEF W!Under
  <2> QED BY <1>4, <2>3, <2>6
<1>5. WorkInv /\ [Next]_vars =>
        [W!Resume => \A n \in W!Made : W!Paused(n) /\ (\A m \in W!Above(n) : ~W!Waits(m)) => W!Paused(n)']_(W!vars)
  BY <1>4
<1> QED BY <1>1, <1>3, <1>5, PTL DEF Spec, W!PauseHolds

-----------------------------------------------------------------------------
(* A connection to a server of tools.                                       *)

Told0(kind) == N!Told(kind, 0)
Messages == {Told0(kind) : kind \in {"note", "ask", "closed"}} \cup {N!Told("answer", r) : r \in Requests}
AReq(q) == q = [at |-> q.at, got |-> q.got, after |-> q.after]
Asked(r) == N!Told("request", r) \in server
Answered(r) == N!Told("answered", r) \in server

\* The answer of a request is on its way, before any end.
Coming(r) == \E i \in 1 .. Len(inbox) : inbox[i] = N!Told("answer", r) /\ \A j \in 1 .. i - 1 : inbox[j][1] # "closed"

WireTypes ==
  /\ N!TypeOK /\ reqs = [r \in Requests |-> reqs[r]] /\ (\A r \in Requests : AReq(reqs[r]))
  /\ inbox \in Seq(Messages) /\ heard \in Seq(Messages)

\* The requests that wait are those that were made and came to nothing yet.
Waiting ==
  /\ \A r \in Requests : r \in pending <=> reqs[r].at \in {"sending", "waiting"} /\ reqs[r].got = N!Nothing
  /\ \A r \in Requests : reqs[r].at = "new" => reqs[r].got = N!Nothing
  /\ \A r \in Requests : reqs[r].at = "done" => reqs[r].got # N!Nothing

\* The end of the connection reached each that waited, and is told last.
Ending ==
  /\ over => \A r \in pending : reqs[r].after
  /\ N!EndIsLast /\ (~over => \A i \in 1 .. Len(heard) : heard[i][1] # "closed")

\* The server answers what it took; an answer that came is one that it gave.
Answering ==
  /\ \A r \in Requests : Asked(r) => reqs[r].at # "new"
  /\ \A r \in Requests : Answered(r) => Asked(r)
  /\ \A r \in Requests : (\E i \in 1 .. Len(inbox) : inbox[i] = N!Told("answer", r)) => Answered(r)
  /\ \A r \in Requests : reqs[r].got[1] = "answer" => reqs[r].got = N!Told("answer", r) /\ Answered(r)

\* On one stream, nothing comes after its end, and the answer of each request that waits comes before it.
OneStream ==
  /\ stream => wireUp
  /\ wire # "streamable" =>
       /\ stream => ~over /\ \A i \in 1 .. Len(inbox) : inbox[i][1] # "closed"
       /\ \A r \in pending : Answered(r) => Coming(r)
       /\ \A r \in Requests : reqs[r].got = N!Broken => ~stream /\ ~Answered(r)

WireInv == WireTypes /\ Waiting /\ Ending /\ Answering /\ OneStream

LEMMA MessageIs ==
  /\ \A m \in Messages : m[1] \in {"note", "ask", "closed", "answer"} /\ (m[1] = "answer" => m[2] \in Requests /\ m = N!Told("answer", m[2]))
  /\ \A kind \in {"note", "ask", "closed"} : N!Told(kind, 0) \in Messages
  /\ \A r \in Requests : N!Told("answer", r) \in Messages
BY DEF Messages, Told0, N!Told

LEMMA ToldIs ==
  /\ \A kind, other, a, b : N!Told(kind, a) = N!Told(other, b) <=> kind = other /\ a = b
  /\ \A kind, a : N!Told(kind, a)[1] = kind /\ N!Told(kind, a)[2] = a
  /\ N!Nothing = N!Told("none", 0) /\ N!Broken = N!Told("broken", 0) /\ N!Unauthorized = N!Told("unauthorized", 0) /\ N!Delayed = N!Told("late", 0)
  /\ N!Refused = N!Told("refused", 0)
BY DEF N!Told, N!Nothing, N!Broken, N!Refused, N!Unauthorized, N!Delayed

LEMMA OutcomesDiffer ==
  /\ N!Broken # N!Nothing /\ N!Unauthorized # N!Nothing /\ N!Delayed # N!Nothing
  /\ N!Unauthorized # N!Broken /\ N!Delayed # N!Broken /\ N!Refused # N!Broken /\ N!Refused # N!Nothing /\ N!Refused[1] # "answer"
  /\ N!Nothing[1] # "answer" /\ N!Broken[1] # "answer" /\ N!Unauthorized[1] # "answer" /\ N!Delayed[1] # "answer"
  /\ \A r : N!Told("answer", r) # N!Nothing /\ N!Told("answer", r) # N!Broken /\ N!Told("answer", r)[1] = "answer"
BY DEF N!Told, N!Nothing, N!Broken, N!Refused, N!Unauthorized, N!Delayed

\* What a change of a request leaves.
LEMMA ReqSet ==
  ASSUME reqs = [r \in Requests |-> reqs[r]], \A r \in Requests : AReq(reqs[r]), NEW p \in Requests, NEW at, NEW got, N!Set(p, at, got)
  PROVE  /\ reqs' = [r \in Requests |-> reqs'[r]] /\ \A r \in Requests : AReq(reqs'[r])
         /\ reqs'[p].at = at /\ reqs'[p].got = got /\ reqs'[p].after = reqs[p].after
         /\ \A r \in Requests : r # p => reqs'[r] = reqs[r]
<1> PICK q : q = reqs OBVIOUS
<1> PICK old : old = q[p] OBVIOUS
<1> PICK new : new = [at |-> at, got |-> got, after |-> old.after] OBVIOUS
<1>1. q = [r \in Requests |-> q[r]] /\ old = [at |-> old.at, got |-> old.got, after |-> old.after] BY DEF AReq
<1>2. reqs' = [q EXCEPT ![p].at = at, ![p].got = got] BY DEF N!Set
<1>3. reqs' = [r \in Requests |-> IF r = p THEN new ELSE q[r]]
  <2>1. DOMAIN q = Requests BY <1>1
  <2>2. DOMAIN reqs' = Requests BY <1>2, <2>1
  <2>3. [old EXCEPT !.at = at] = [at |-> at, got |-> old.got, after |-> old.after] BY <1>1
  <2> PICK mid : mid = [q EXCEPT ![p] = [old EXCEPT !.at = at]] OBVIOUS
  <2>4. DOMAIN mid = Requests /\ mid[p] = [at |-> at, got |-> old.got, after |-> old.after] /\ \A r \in Requests : r # p => mid[r] = q[r]
    BY <2>1, <2>3
  <2> PICK half : half = [at |-> at, got |-> old.got, after |-> old.after] OBVIOUS
  <2>5. [half EXCEPT !.got = got] = new OBVIOUS
  <2>6. mid[p] = half BY <2>4
  <2>7. [mid[p] EXCEPT !.got = got] = new BY <2>5, <2>6
  <2>8. reqs' = [mid EXCEPT ![p] = [mid[p] EXCEPT !.got = got]] BY <1>2
  <2>9. reqs'[p] = new /\ \A r \in Requests : r # p => reqs'[r] = q[r] BY <2>4, <2>7, <2>8
  <2>10. reqs' = [r \in DOMAIN reqs' |-> reqs'[r]] BY <1>2
  <2> QED BY <2>2, <2>9, <2>10
<1>4. reqs'[p] = new /\ \A r \in Requests : r # p => reqs'[r] = q[r] BY <1>3
<1>5. AReq(new) BY DEF AReq
<1>6. \A r \in Requests : AReq(reqs'[r]) BY <1>4, <1>5 DEF AReq
<1> QED BY <1>3, <1>4, <1>6

\* An answer on its way stays so when more comes, and as what comes before it is handed on.
LEMMA ComingStays ==
  ASSUME inbox \in Seq(Messages), NEW m \in Messages, inbox' = Append(inbox, m)
  PROVE  /\ \A r : Coming(r) => Coming(r)'
         /\ inbox' \in Seq(Messages) /\ \A i \in 1 .. Len(inbox') : inbox'[i] = m \/ \E j \in 1 .. Len(inbox) : inbox'[i] = inbox[j]
<1> PICK b : b = inbox OBVIOUS
<1> PICK c : c = inbox' OBVIOUS
<1>1. b \in Seq(Messages) /\ c = Append(b, m) OBVIOUS
<1>2. c \in Seq(Messages) /\ Len(c) = Len(b) + 1 /\ Len(b) \in Nat /\ c[Len(b) + 1] = m /\ \A i \in 1 .. Len(b) : c[i] = b[i] BY <1>1
<1>3. ASSUME NEW r, Coming(r) PROVE Coming(r)'
  <2>1. PICK i \in 1 .. Len(b) : b[i] = N!Told("answer", r) /\ \A j \in 1 .. i - 1 : b[j][1] # "closed" BY <1>3 DEF Coming
  <2>2. i \in 1 .. Len(c) /\ c[i] = N!Told("answer", r) /\ \A j \in 1 .. i - 1 : c[j][1] # "closed" BY <1>2, <2>1
  <2> QED BY <2>2 DEF Coming
<1>4. \A i \in 1 .. Len(c) : c[i] = m \/ \E j \in 1 .. Len(b) : c[i] = b[j] BY <1>2
<1> QED BY <1>2, <1>3, <1>4

LEMMA ComingNearer ==
  ASSUME inbox \in Seq(Messages), inbox # <<>>, inbox' = Tail(inbox)
  PROVE  /\ Head(inbox) \in Messages /\ inbox' \in Seq(Messages) /\ 1 \in 1 .. Len(inbox) /\ Head(inbox) = inbox[1]
         /\ \A r : Coming(r) /\ Head(inbox) # N!Told("answer", r) => Coming(r)' /\ Head(inbox)[1] # "closed"
         /\ \A i \in 1 .. Len(inbox') : \E j \in 1 .. Len(inbox) : inbox'[i] = inbox[j]
<1> PICK b : b = inbox OBVIOUS
<1> PICK c : c = inbox' OBVIOUS
<1>1. b \in Seq(Messages) /\ b # <<>> /\ c = Tail(b) OBVIOUS
<1>2. Len(b) \in Nat /\ Len(b) >= 1 /\ Head(b) = b[1] /\ b[1] \in Messages BY <1>1
<1>3. c \in Seq(Messages) /\ Len(c) = Len(b) - 1 /\ \A i \in 1 .. Len(c) : c[i] = b[i + 1] BY <1>1
<1>4. ASSUME NEW r, Coming(r), Head(b) # N!Told("answer", r) PROVE Coming(r)' /\ Head(b)[1] # "closed"
  <2>1. PICK i \in 1 .. Len(b) : b[i] = N!Told("answer", r) /\ \A j \in 1 .. i - 1 : b[j][1] # "closed" BY <1>4 DEF Coming
  <2>2. i # 1 BY <1>2, <1>4, <2>1
  <2>3. b[1][1] # "closed" BY <1>2, <2>1, <2>2
  <2>4. i - 1 \in 1 .. Len(c) /\ c[i - 1] = N!Told("answer", r) BY <1>2, <1>3, <2>1, <2>2
  <2>5. ASSUME NEW j \in 1 .. (i - 1) - 1 PROVE c[j][1] # "closed"
    <3>1. j + 1 \in 1 .. i - 1 /\ j \in 1 .. Len(c) BY <1>2, <1>3, <2>4, <2>5
    <3> QED BY <1>3, <2>1, <3>1
  <2> QED BY <1>2, <2>3, <2>4, <2>5 DEF Coming
<1>5. \A i \in 1 .. Len(c) : \E j \in 1 .. Len(b) : c[i] = b[j]
  <2> TAKE i \in 1 .. Len(c)
  <2>1. i + 1 \in 1 .. Len(b) BY <1>2, <1>3
  <2> QED BY <1>3, <2>1
<1> QED BY <1>1, <1>2, <1>3, <1>4, <1>5

LEMMA WireInit == N!Init => WireInv
<1> SUFFICES ASSUME N!Init PROVE WireInv OBVIOUS
<1>1. reqs = [r \in Requests |-> [at |-> "new", got |-> N!Nothing, after |-> FALSE]] BY DEF N!Init
<1>2. pending = {} /\ inbox = <<>> /\ over = FALSE /\ heard = <<>> /\ server = {} /\ wireUp = TRUE /\ stream = TRUE BY DEF N!Init
<1>3. \A r \in Requests : reqs[r].at = "new" /\ reqs[r].got = N!Nothing BY <1>1
<1>4. WireTypes
  <2>1. \A r \in Requests : AReq(reqs[r]) BY <1>1 DEF AReq
  <2>2. <<>> \in Seq(Messages) OBVIOUS
  <2>3. N!TypeOK BY <1>2, <1>3 DEF N!TypeOK
  <2> QED BY <1>1, <1>2, <2>1, <2>2, <2>3 DEF WireTypes
<1>5. Waiting BY <1>2, <1>3 DEF Waiting
<1>6. Len(heard) = 0 /\ Len(inbox) = 0 BY <1>2
<1>7. 1 .. Len(heard) = {} /\ 1 .. Len(inbox) = {} BY <1>6
<1>8. Ending BY <1>2, <1>7 DEF Ending, N!EndIsLast
<1>9. Answering BY <1>2, <1>3, <1>7, OutcomesDiffer DEF Answering, Asked, Answered
<1>10. OneStream BY <1>2, <1>3, <1>7, OutcomesDiffer DEF OneStream, Answered
<1> QED BY <1>4, <1>5, <1>8, <1>9, <1>10 DEF WireInv

\* A step of one request: where it stands, what it came to, and whether it still waits. What the server took may grow by
\* its request, once it was made, and by a cancel. No such step comes to the end of the connection.
LEMMA RequestKept ==
  ASSUME WireInv, NEW p \in Requests, NEW at \in {"sending", "waiting", "done"}, NEW got, reqs[p].at # "done",
         reqs' = [r \in Requests |-> reqs'[r]], \A r \in Requests : AReq(reqs'[r]),
         reqs'[p].at = at, reqs'[p].got = got, \A r \in Requests : r # p => reqs'[r] = reqs[r],
         pending' \in SUBSET (pending \cup {p}), \A r \in Requests : r # p /\ r \in pending => r \in pending',
         p \in pending' <=> at \in {"sending", "waiting"} /\ got = N!Nothing,
         at = "done" => got # N!Nothing,
         p \in pending' => p \in pending \/ (reqs'[p].after = over /\ ~Asked(p)),
         p \in pending' /\ p \in pending => reqs'[p].after = reqs[p].after,
         got = reqs[p].got \/ (got[1] # "answer" /\ got # N!Broken),
         NEW more, server' = server \cup more, \A x \in more : x[1] = "cancel" \/ x = N!Told("request", p),
         UNCHANGED <<inbox, over, heard, stream, wireUp, wire>>
  PROVE  WireInv'
<1>1. \A r \in Requests : Asked(r)' => Asked(r) \/ r = p
  <2> TAKE r \in Requests
  <2>1. N!Told("request", r)[1] = "request" /\ (N!Told("request", r) = N!Told("request", p) => r = p) BY ToldIs
  <2> QED BY <2>1 DEF Asked
<1>2. \A r : Answered(r)' <=> Answered(r)
  <2> TAKE r
  <2>1. N!Told("answered", r)[1] = "answered" /\ N!Told("answered", r) # N!Told("request", p) BY ToldIs
  <2> QED BY <2>1 DEF Answered
<1>3. \A r : Asked(r) => Asked(r)' BY DEF Asked
<1>4. WireTypes'
  <2>1. N!TypeOK' BY DEF WireInv, WireTypes, N!TypeOK
  <2> QED BY <2>1 DEF WireInv, WireTypes
<1>5. Waiting'
  <2>1. ASSUME NEW r \in Requests PROVE r \in pending' <=> reqs'[r].at \in {"sending", "waiting"} /\ reqs'[r].got = N!Nothing
    BY DEF WireInv, Waiting
  <2>2. ASSUME NEW r \in Requests
        PROVE  (reqs'[r].at = "new" => reqs'[r].got = N!Nothing) /\ (reqs'[r].at = "done" => reqs'[r].got # N!Nothing)
    BY DEF WireInv, Waiting
  <2> QED BY <2>1, <2>2 DEF Waiting
<1>6. Ending'
  <2>1. over' => \A r \in pending' : reqs'[r].after
    <3> SUFFICES ASSUME over', NEW r \in pending' PROVE reqs'[r].after OBVIOUS
    <3>1. CASE r = p BY <3>1 DEF WireInv, Ending
    <3>2. CASE r # p
      <4>1. r \in pending /\ r \in Requests BY <3>2 DEF WireInv, WireTypes, N!TypeOK
      <4> QED BY <3>2, <4>1 DEF WireInv, Ending
    <3> QED BY <3>1, <3>2
  <2>2. N!EndIsLast' BY DEF WireInv, Ending, N!EndIsLast
  <2> QED BY <2>1, <2>2 DEF WireInv, Ending
<1>7. Answering'
  <2>1. \A r \in Requests : Asked(r)' => reqs'[r].at # "new" BY <1>1 DEF WireInv, Answering
  <2>2. \A r \in Requests : Answered(r)' => Asked(r)' BY <1>2, <1>3 DEF WireInv, Answering
  <2>3. \A r \in Requests : (\E i \in 1 .. Len(inbox') : inbox'[i] = N!Told("answer", r)) => Answered(r)' BY <1>2 DEF WireInv, Answering
  <2>4. \A r \in Requests : reqs'[r].got[1] = "answer" => reqs'[r].got = N!Told("answer", r) /\ Answered(r)'
    BY <1>2 DEF WireInv, Answering
  <2> QED BY <2>1, <2>2, <2>3, <2>4 DEF Answering
<1>8. OneStream'
  <2>1. stream => wireUp BY DEF WireInv, OneStream
  <2>2. ASSUME wire # "streamable" PROVE stream' => ~over' /\ \A i \in 1 .. Len(inbox') : inbox'[i][1] # "closed"
    BY <2>2 DEF WireInv, OneStream
  <2>3. ASSUME wire # "streamable", NEW r \in pending', Answered(r)' PROVE Coming(r)'
    <3>1. Answered(r) BY <1>2, <2>3
    <3>2. r \in pending
      <4>1. p \in pending' /\ p \notin pending => ~Answered(p) BY DEF WireInv, Answering
      <4> QED BY <2>3, <3>1, <4>1
    <3>3. Coming(r) BY <2>3, <3>1, <3>2 DEF WireInv, OneStream
    <3> QED BY <3>3 DEF Coming
  <2>4. ASSUME wire # "streamable", NEW r \in Requests, reqs'[r].got = N!Broken PROVE ~stream /\ ~Answered(r)
    <3>1. CASE reqs[r].got = N!Broken BY <2>4, <3>1 DEF WireInv, OneStream
    <3>2. CASE reqs[r].got # N!Broken BY <2>4, <3>2
    <3> QED BY <3>1, <3>2
  <2> QED BY <1>2, <2>1, <2>2, <2>3, <2>4 DEF OneStream
<1> QED BY <1>4, <1>5, <1>6, <1>7, <1>8 DEF WireInv

LEMMA AskKept == ASSUME WireInv, NEW p \in Requests, N!Ask(p) PROVE WireInv'
<1> PICK q : q = reqs OBVIOUS
<1>1. q = [r \in Requests |-> q[r]] /\ \A r \in Requests : AReq(q[r]) BY DEF WireInv, WireTypes
<1>2. q[p].at = "new" /\ reqs' = [q EXCEPT ![p].at = "sending", ![p].after = over] BY DEF N!Ask
<1> PICK old : old = q[p] OBVIOUS
<1> PICK new : new = [at |-> "sending", got |-> old.got, after |-> over] OBVIOUS
<1>3. old = [at |-> old.at, got |-> old.got, after |-> old.after] BY <1>1 DEF AReq
<1>4. reqs' = [r \in Requests |-> IF r = p THEN new ELSE q[r]]
  <2>1. DOMAIN q = Requests BY <1>1
  <2>2. DOMAIN reqs' = Requests BY <1>2, <2>1
  <2> PICK half : half = [at |-> "sending", got |-> old.got, after |-> old.after] OBVIOUS
  <2>3. [old EXCEPT !.at = "sending"] = half BY <1>3
  <2> PICK mid : mid = [q EXCEPT ![p] = [old EXCEPT !.at = "sending"]] OBVIOUS
  <2>4. DOMAIN mid = Requests /\ mid[p] = half /\ \A r \in Requests : r # p => mid[r] = q[r] BY <2>1, <2>3
  <2>5. [half EXCEPT !.after = over] = new OBVIOUS
  <2>6. [mid[p] EXCEPT !.after = over] = new BY <2>4, <2>5
  <2>7. reqs' = [mid EXCEPT ![p] = [mid[p] EXCEPT !.after = over]] BY <1>2
  <2>8. reqs'[p] = new /\ \A r \in Requests : r # p => reqs'[r] = q[r] BY <2>4, <2>6, <2>7
  <2>9. reqs' = [r \in DOMAIN reqs' |-> reqs'[r]] BY <1>2
  <2> QED BY <2>2, <2>8, <2>9
<1>5. reqs'[p] = new /\ \A r \in Requests : r # p => reqs'[r] = q[r] BY <1>4
<1>6. reqs' = [r \in Requests |-> reqs'[r]] BY <1>4
<1>7. AReq(new) BY DEF AReq
<1>8. \A r \in Requests : AReq(reqs'[r]) BY <1>1, <1>5, <1>7
<1>9. q[p].got = N!Nothing /\ p \notin pending BY <1>2 DEF WireInv, Waiting
<1>10. ~Asked(p) BY <1>2 DEF WireInv, Answering
<1> PICK more : more = {} OBVIOUS
<1> PICK got : got = old.got OBVIOUS
<1>11. pending' = pending \cup {p} /\ server' = server \cup more /\ UNCHANGED <<inbox, over, heard, stream, wireUp, wire>> BY DEF N!Ask
<1>12. reqs'[p].at = "sending" /\ reqs'[p].got = got /\ reqs'[p].after = over BY <1>5
<1>13. /\ pending' \in SUBSET (pending \cup {p}) /\ (\A r \in Requests : r # p /\ r \in pending => r \in pending')
       /\ p \in pending' /\ got = N!Nothing /\ got = reqs[p].got /\ (\A x \in more : x[1] = "cancel")
  BY <1>9, <1>11
<1>14. reqs[p].at # "done" /\ \A r \in Requests : r # p => reqs'[r] = reqs[r] BY <1>2, <1>5
<1> QED BY <1>6, <1>8, <1>9, <1>10, <1>11, <1>12, <1>13, <1>14, RequestKept

LEMMA TakesKept == ASSUME WireInv, NEW p \in Requests, N!Takes(p) PROVE WireInv'
<1>1. reqs[p].at \in {"sending", "waiting"} /\ UNCHANGED <<reqs, pending, inbox, over, heard, stream, wireUp, wire>>
      /\ server' = server \cup {N!Told("request", p)}
  BY DEF N!Takes
<1> PICK more : more = {N!Told("request", p)} OBVIOUS
<1> PICK got : got = reqs[p].got OBVIOUS
<1> PICK at : at = reqs[p].at OBVIOUS
<1>2. /\ reqs' = [r \in Requests |-> reqs'[r]] /\ \A r \in Requests : AReq(reqs'[r])
      /\ reqs'[p].at = at /\ reqs'[p].got = got /\ reqs'[p].after = reqs[p].after
      /\ \A r \in Requests : r # p => reqs'[r] = reqs[r]
  BY <1>1 DEF WireInv, WireTypes
<1>3. at \in {"sending", "waiting"} /\ reqs[p].at # "done" /\ (p \in pending <=> got = N!Nothing) BY <1>1 DEF WireInv, Waiting
<1>4. \A x \in more : x = N!Told("request", p) OBVIOUS
<1>5. server' = server \cup more /\ pending' \in SUBSET (pending \cup {p}) /\ (\A r \in Requests : r # p /\ r \in pending => r \in pending')
  BY <1>1
<1> QED BY <1>1, <1>2, <1>3, <1>4, <1>5, RequestKept

LEMMA SentKept == ASSUME WireInv, NEW p \in Requests, N!Sent(p) PROVE WireInv'
<1>1. reqs[p].at = "sending" /\ N!Set(p, "waiting", reqs[p].got) BY DEF N!Sent
<1> PICK more : more = {} OBVIOUS
<1>2. pending' = pending /\ UNCHANGED <<inbox, over, heard, stream, wireUp, wire>> /\ server' = server \cup more BY DEF N!Sent
<1> PICK got : got = reqs[p].got OBVIOUS
<1>3. /\ reqs' = [r \in Requests |-> reqs'[r]] /\ \A r \in Requests : AReq(reqs'[r])
      /\ reqs'[p].at = "waiting" /\ reqs'[p].got = got /\ reqs'[p].after = reqs[p].after
      /\ \A r \in Requests : r # p => reqs'[r] = reqs[r]
  BY <1>1, ReqSet DEF WireInv, WireTypes
<1>4. p \in pending <=> got = N!Nothing BY <1>1 DEF WireInv, Waiting
<1>5. \A x \in more : x[1] = "cancel" OBVIOUS
<1>6. pending' \in SUBSET (pending \cup {p}) /\ (\A r \in Requests : r # p /\ r \in pending => r \in pending') BY <1>2
<1> QED BY <1>1, <1>2, <1>3, <1>4, <1>5, <1>6, RequestKept

LEMMA DoneKept == ASSUME WireInv, NEW p \in Requests, N!Done(p) PROVE WireInv'
<1>1. reqs[p].at = "waiting" /\ reqs[p].got # N!Nothing /\ N!Set(p, "done", reqs[p].got) /\ pending' = pending \ {p} BY DEF N!Done, N!Forgot
<1> PICK more : more = {} OBVIOUS
<1>2. UNCHANGED <<inbox, over, heard, stream, wireUp, wire>> /\ server' = server \cup more BY DEF N!Done
<1> PICK got : got = reqs[p].got OBVIOUS
<1>3. /\ reqs' = [r \in Requests |-> reqs'[r]] /\ \A r \in Requests : AReq(reqs'[r])
      /\ reqs'[p].at = "done" /\ reqs'[p].got = got /\ reqs'[p].after = reqs[p].after
      /\ \A r \in Requests : r # p => reqs'[r] = reqs[r]
  BY <1>1, ReqSet DEF WireInv, WireTypes
<1>4. /\ pending' \in SUBSET (pending \cup {p}) /\ (\A r \in Requests : r # p /\ r \in pending => r \in pending')
      /\ p \notin pending' /\ (\A x \in more : x[1] = "cancel") /\ got # N!Nothing /\ got = reqs[p].got
  BY <1>1
<1> QED BY <1>1, <1>2, <1>3, <1>4, RequestKept

LEMMA LateKept == ASSUME WireInv, NEW p \in Requests, N!Late(p) PROVE WireInv'
<1>1. reqs[p].at \in {"sending", "waiting"} /\ N!Set(p, "done", N!Delayed) /\ pending' = pending \ {p} BY DEF N!Late, N!Forgot
<1>2. UNCHANGED <<inbox, over, heard, stream, wireUp, wire>> BY DEF N!Late
<1> PICK more : more = IF wireUp THEN {N!Told("cancel", p)} ELSE {} OBVIOUS
<1>3. server' = server \cup more BY DEF N!Late
<1>4. \A x \in more : x[1] = "cancel" BY ToldIs
<1> PICK got : got = N!Delayed OBVIOUS
<1>5. /\ reqs' = [r \in Requests |-> reqs'[r]] /\ \A r \in Requests : AReq(reqs'[r])
      /\ reqs'[p].at = "done" /\ reqs'[p].got = got /\ reqs'[p].after = reqs[p].after
      /\ \A r \in Requests : r # p => reqs'[r] = reqs[r]
  BY <1>1, ReqSet DEF WireInv, WireTypes
<1>6. got # N!Nothing /\ got # N!Broken /\ got[1] # "answer" BY OutcomesDiffer
<1> QED BY <1>1, <1>2, <1>3, <1>4, <1>5, <1>6, RequestKept

\* A message of the server comes: an answer that it gave, or, while its stream stands or as it ends, a note or the end.
LEMMA ComesKept ==
  ASSUME WireInv, NEW m \in Messages, inbox' = Append(inbox, m), UNCHANGED <<reqs, pending, over, heard, wire>>,
         stream' => stream, stream' => wireUp',
         NEW more, server' = server \cup more,
         m[1] = "closed" => wire = "streamable" \/ ~stream',
         (m[1] # "answer" /\ more = {}) \/ \E r \in Requests :
            /\ m = N!Told("answer", r) /\ more = {N!Told("answered", r)} /\ Asked(r) /\ (stream \/ wire = "streamable")
  PROVE  WireInv'
<1>0. inbox \in Seq(Messages) BY DEF WireInv, WireTypes
<1>1. /\ \A r : Coming(r) => Coming(r)'
      /\ inbox' \in Seq(Messages) /\ \A i \in 1 .. Len(inbox') : inbox'[i] = m \/ \E j \in 1 .. Len(inbox) : inbox'[i] = inbox[j]
  BY <1>0, ComingStays
<1>2. \A r : Asked(r)' <=> Asked(r)
  <2> TAKE r
  <2>1. \A s : N!Told("request", r) # N!Told("answered", s) BY ToldIs
  <2> QED BY <2>1 DEF Asked
<1>3. \A r : Answered(r) => Answered(r)' BY DEF Answered
<1>4. \A r : Answered(r)' => Answered(r) \/ (m = N!Told("answer", r) /\ Asked(r) /\ (stream \/ wire = "streamable"))
  <2> TAKE r
  <2>1. \A s : N!Told("answered", r) = N!Told("answered", s) => r = s BY ToldIs
  <2> QED BY <2>1 DEF Answered
<1>5. \A r \in Requests : m = N!Told("answer", r) => Answered(r)'
  <2> TAKE r \in Requests
  <2>1. \A s : N!Told("answer", r) = N!Told("answer", s) => r = s BY ToldIs
  <2>2. N!Told("answer", r)[1] = "answer" BY ToldIs
  <2> QED BY <2>1, <2>2 DEF Answered
<1>6. WireTypes' BY <1>1 DEF WireInv, WireTypes, N!TypeOK
<1>7. Waiting' BY DEF WireInv, Waiting
<1>8. Ending' BY DEF WireInv, Ending, N!EndIsLast
<1>9. Answering'
  <2>1. \A r \in Requests : Asked(r)' => reqs'[r].at # "new" BY <1>2 DEF WireInv, Answering
  <2>2. \A r \in Requests : Answered(r)' => Asked(r)' BY <1>2, <1>4 DEF WireInv, Answering
  <2>3. ASSUME NEW r \in Requests, NEW i \in 1 .. Len(inbox'), inbox'[i] = N!Told("answer", r) PROVE Answered(r)'
    <3>1. CASE inbox'[i] = m BY <1>5, <2>3, <3>1
    <3>2. CASE \E j \in 1 .. Len(inbox) : inbox'[i] = inbox[j] BY <1>3, <2>3, <3>2 DEF WireInv, Answering
    <3> QED BY <1>1, <3>1, <3>2
  <2>4. \A r \in Requests : reqs'[r].got[1] = "answer" => reqs'[r].got = N!Told("answer", r) /\ Answered(r)'
    BY <1>3 DEF WireInv, Answering
  <2> QED BY <2>1, <2>2, <2>3, <2>4 DEF Answering
<1>10. OneStream'
  <2>1. ASSUME wire # "streamable", stream' PROVE ~over' /\ \A i \in 1 .. Len(inbox') : inbox'[i][1] # "closed"
    <3>1. stream /\ m[1] # "closed" BY <2>1
    <3>2. ~over /\ \A i \in 1 .. Len(inbox) : inbox[i][1] # "closed" BY <2>1, <3>1 DEF WireInv, OneStream
    <3> QED BY <1>1, <3>1, <3>2
  <2>2. ASSUME wire # "streamable", NEW r \in pending', Answered(r)' PROVE Coming(r)'
    <3>1. CASE Answered(r)
      <4>1. Coming(r) BY <2>2, <3>1 DEF WireInv, OneStream
      <4> QED BY <1>1, <4>1
    <3>2. CASE ~Answered(r)
      <4>1. m = N!Told("answer", r) /\ stream BY <1>4, <2>2, <3>2
      <4>2. \A i \in 1 .. Len(inbox) : inbox[i][1] # "closed" BY <2>2, <4>1 DEF WireInv, OneStream
      <4> PICK b : b = inbox OBVIOUS
      <4> PICK c : c = inbox' OBVIOUS
      <4>3. Len(c) = Len(b) + 1 /\ Len(b) \in Nat /\ c[Len(b) + 1] = m /\ \A i \in 1 .. Len(b) : c[i] = b[i] BY <1>0
      <4>4. Len(b) + 1 \in 1 .. Len(c) /\ c[Len(b) + 1] = N!Told("answer", r) /\ \A j \in 1 .. (Len(b) + 1) - 1 : c[j][1] # "closed"
        BY <4>1, <4>2, <4>3
      <4> QED BY <4>4 DEF Coming
    <3> QED BY <3>1, <3>2
  <2>3. ASSUME wire # "streamable", NEW r \in Requests, reqs'[r].got = N!Broken PROVE ~stream' /\ ~Answered(r)'
    BY <1>4, <2>3 DEF WireInv, OneStream
  <2> QED BY <2>1, <2>2, <2>3 DEF OneStream
<1> QED BY <1>6, <1>7, <1>8, <1>9, <1>10 DEF WireInv

LEMMA AnswersComes == ASSUME WireInv, NEW p \in Requests, N!Answers(p) PROVE WireInv'
<1> PICK m : m = N!Told("answer", p) OBVIOUS
<1> PICK more : more = {N!Told("answered", p)} OBVIOUS
<1>1. inbox' = Append(inbox, m) /\ server' = server \cup more /\ Asked(p) /\ (stream \/ wire = "streamable") BY DEF N!Answers, N!Taken, Asked
<1>2. UNCHANGED <<reqs, pending, over, heard, wire>> /\ stream' = stream /\ wireUp' = wireUp BY DEF N!Answers
<1>3. m \in Messages /\ m[1] # "closed" BY MessageIs, ToldIs
<1>4. stream' => wireUp' BY <1>2 DEF WireInv, OneStream
<1> QED BY <1>1, <1>2, <1>3, <1>4, ComesKept

LEMMA TellsComes == ASSUME WireInv, NEW kind \in {"note", "ask"}, NEW most, N!Tells(kind, most) PROVE WireInv'
<1> PICK m : m = N!Told(kind, 0) OBVIOUS
<1> PICK more : more = {} OBVIOUS
<1>1. inbox' = Append(inbox, m) /\ server' = server \cup more BY DEF N!Tells
<1>2. UNCHANGED <<reqs, pending, over, heard, wire>> /\ stream' = stream /\ wireUp' = wireUp BY DEF N!Tells
<1>3. m \in Messages /\ m[1] \notin {"closed", "answer"} BY MessageIs, ToldIs
<1>4. stream' => wireUp' BY <1>2 DEF WireInv, OneStream
<1> QED BY <1>1, <1>2, <1>3, <1>4, ComesKept

\* A stream that ends with nothing leaves all else.
LEMMA MutedKept ==
  ASSUME WireInv, UNCHANGED <<inbox, reqs, pending, over, heard, wire, server>>, stream' => stream, stream' => wireUp' PROVE WireInv'
<1>1. (\A r : Asked(r)' <=> Asked(r)) /\ (\A r : Answered(r)' <=> Answered(r)) /\ (\A r : Coming(r)' <=> Coming(r))
  BY DEF Asked, Answered, Coming
<1>2. WireTypes' BY DEF WireInv, WireTypes, N!TypeOK
<1>3. Waiting' BY DEF WireInv, Waiting
<1>4. Ending' BY DEF WireInv, Ending, N!EndIsLast
<1>5. Answering' BY <1>1 DEF WireInv, Answering
<1>6. OneStream' BY <1>1 DEF WireInv, OneStream
<1> QED BY <1>2, <1>3, <1>4, <1>5, <1>6 DEF WireInv

LEMMA EndComes == ASSUME WireInv, N!End PROVE WireInv'
<1>1. UNCHANGED <<reqs, pending, over, heard, wire, server>> /\ stream' = FALSE BY DEF N!End, N!Ends
<1>2. CASE wire = "streamable"
  <2>1. inbox' = inbox BY <1>2 DEF N!End, N!Ends
  <2> QED BY <1>1, <2>1, MutedKept
<1>3. CASE wire # "streamable"
  <2> PICK m : m = N!Told("closed", 0) OBVIOUS
  <2> PICK more : more = {} OBVIOUS
  <2>1. inbox' = Append(inbox, m) BY <1>3 DEF N!End, N!Ends
  <2>2. server' = server \cup more BY <1>1
  <2>3. m \in Messages /\ m[1] # "answer" BY MessageIs, ToldIs
  <2> QED BY <1>1, <2>1, <2>2, <2>3, ComesKept
<1> QED BY <1>2, <1>3

LEMMA MuteComes == ASSUME WireInv, N!Mute PROVE WireInv'
<1>1. UNCHANGED <<reqs, pending, over, heard, wire, server>> /\ stream' = FALSE BY DEF N!Mute
<1>2. CASE wire # "legacy"
  <2>1. inbox' = inbox BY <1>2 DEF N!Mute
  <2> QED BY <1>1, <2>1, MutedKept
<1>3. CASE wire = "legacy"
  <2> PICK m : m = N!Told("closed", 0) OBVIOUS
  <2> PICK more : more = {} OBVIOUS
  <2>1. inbox' = Append(inbox, m) BY <1>3 DEF N!Mute
  <2>2. server' = server \cup more BY <1>1
  <2>3. m \in Messages /\ m[1] # "answer" BY MessageIs, ToldIs
  <2> QED BY <1>1, <2>1, <2>2, <2>3, ComesKept
<1> QED BY <1>2, <1>3

LEMMA UnsentKept == ASSUME WireInv, NEW p \in Requests, N!Unsent(p) PROVE WireInv'
<1>1. reqs[p].at = "sending" /\ pending' = pending \ {p} BY DEF N!Unsent, N!Forgot
<1>2. UNCHANGED <<wire, stream, over, heard, server>> /\ wireUp' = wireUp BY DEF N!Unsent
<1> PICK more : more = {} OBVIOUS
<1>3. /\ server' = server \cup more /\ pending' \in SUBSET (pending \cup {p}) /\ (\A r \in Requests : r # p /\ r \in pending => r \in pending')
      /\ p \notin pending' /\ (\A x \in more : x[1] = "cancel")
  BY <1>1, <1>2
<1>4. ASSUME NEW got, N!Set(p, "done", got)
      PROVE  /\ reqs' = [r \in Requests |-> reqs'[r]] /\ \A r \in Requests : AReq(reqs'[r])
             /\ reqs'[p].at = "done" /\ reqs'[p].got = got /\ reqs'[p].after = reqs[p].after
             /\ \A r \in Requests : r # p => reqs'[r] = reqs[r]
  BY <1>4, ReqSet DEF WireInv, WireTypes
<1>5. CASE N!Set(p, "done", N!Refused) /\ UNCHANGED inbox
  <2> PICK got : got = N!Refused OBVIOUS
  <2>1. got # N!Nothing /\ got[1] # "answer" /\ got # N!Broken BY OutcomesDiffer
  <2>2. N!Set(p, "done", got) /\ inbox' = inbox BY <1>5
  <2>3. /\ reqs' = [r \in Requests |-> reqs'[r]] /\ (\A r \in Requests : AReq(reqs'[r]))
        /\ reqs'[p].at = "done" /\ reqs'[p].got = got /\ reqs'[p].after = reqs[p].after
        /\ (\A r \in Requests : r # p => reqs'[r] = reqs[r])
    BY <1>4, <2>2
  <2>4. reqs[p].at # "done" /\ UNCHANGED <<inbox, over, heard, stream, wireUp, wire>> BY <1>1, <1>2, <2>2
  <2> QED BY <1>3, <1>5, <2>1, <2>3, <2>4, RequestKept
<1>6. CASE N!Set(p, "done", N!Unauthorized) /\ UNCHANGED inbox
  <2> PICK got : got = N!Unauthorized OBVIOUS
  <2>1. got # N!Nothing /\ got[1] # "answer" /\ got # N!Broken BY OutcomesDiffer
  <2>2. N!Set(p, "done", got) /\ inbox' = inbox BY <1>6
  <2>3. /\ reqs' = [r \in Requests |-> reqs'[r]] /\ (\A r \in Requests : AReq(reqs'[r]))
        /\ reqs'[p].at = "done" /\ reqs'[p].got = got /\ reqs'[p].after = reqs[p].after
        /\ (\A r \in Requests : r # p => reqs'[r] = reqs[r])
    BY <1>4, <2>2
  <2>4. reqs[p].at # "done" /\ UNCHANGED <<inbox, over, heard, stream, wireUp, wire>> BY <1>1, <1>2, <2>2
  <2> QED BY <1>3, <2>1, <2>3, <2>4, RequestKept
<1>7. CASE wire = "streamable" /\ N!Set(p, "done", N!Refused) /\ inbox' = Append(inbox, N!Told("closed", 0))
  <2> PICK m : m = N!Told("closed", 0) OBVIOUS
  <2>1. m \in Messages /\ m[1] # "answer" BY MessageIs, ToldIs
  <2>2. inbox \in Seq(Messages) BY DEF WireInv, WireTypes
  <2>3. inbox' \in Seq(Messages) /\ \A i \in 1 .. Len(inbox') : inbox'[i] = m \/ \E j \in 1 .. Len(inbox) : inbox'[i] = inbox[j]
    BY <1>7, <2>1, <2>2, ComingStays
  <2>4. (\A r : Asked(r)' <=> Asked(r)) /\ (\A r : Answered(r)' <=> Answered(r)) BY <1>2 DEF Asked, Answered
  <2>5. /\ reqs' = [r \in Requests |-> reqs'[r]] /\ \A r \in Requests : AReq(reqs'[r])
        /\ reqs'[p].at = "done" /\ reqs'[p].got = N!Refused /\ reqs'[p].after = reqs[p].after
        /\ \A r \in Requests : r # p => reqs'[r] = reqs[r]
    BY <1>4, <1>7
  <2>6. WireTypes' BY <1>1, <1>2, <2>3, <2>5 DEF WireInv, WireTypes, N!TypeOK
  <2>7. Waiting' BY <1>1, <2>5, OutcomesDiffer DEF WireInv, Waiting
  <2>8. Ending'
    <3>1. \A r \in pending' : reqs'[r].after = reqs[r].after BY <1>1, <2>5 DEF WireInv, WireTypes, N!TypeOK
    <3> QED BY <1>1, <1>2, <3>1 DEF WireInv, Ending, N!EndIsLast
  <2>9. Answering'
    <3>1. \A r \in Requests : Asked(r)' => reqs'[r].at # "new" BY <2>4, <2>5 DEF WireInv, Answering
    <3>2. ASSUME NEW r \in Requests, NEW i \in 1 .. Len(inbox'), inbox'[i] = N!Told("answer", r) PROVE Answered(r)'
      <4>1. inbox'[i] # m BY <2>1, <3>2, ToldIs
      <4>2. \E j \in 1 .. Len(inbox) : inbox[j] = N!Told("answer", r) BY <2>3, <3>2, <4>1
      <4> QED BY <2>4, <4>2 DEF WireInv, Answering
    <3>3. \A r \in Requests : reqs'[r].got[1] = "answer" => reqs'[r].got = N!Told("answer", r) /\ Answered(r)'
      BY <2>4, <2>5, OutcomesDiffer DEF WireInv, Answering
    <3> QED BY <2>4, <3>1, <3>2, <3>3 DEF WireInv, Answering
  <2>10. OneStream' BY <1>2, <1>7 DEF WireInv, OneStream
  <2> QED BY <2>6, <2>7, <2>8, <2>9, <2>10 DEF WireInv
<1> QED BY <1>5, <1>6, <1>7 DEF N!Unsent

LEMMA GivesAre ==
  ASSUME reqs = [r \in Requests |-> reqs[r]], \A r \in Requests : AReq(reqs[r]), NEW rs, NEW got, N!Gives(rs, got)
  PROVE  /\ reqs' = [r \in Requests |-> reqs'[r]] /\ \A r \in Requests : AReq(reqs'[r])
         /\ \A r \in Requests : reqs'[r].at = reqs[r].at /\ reqs'[r].after = reqs[r].after
         /\ \A r \in Requests : reqs'[r].got = IF r \in rs THEN got ELSE reqs[r].got
<1> PICK q : q = reqs OBVIOUS
<1>1. reqs' = [r \in Requests |-> IF r \in rs THEN [q[r] EXCEPT !.got = got] ELSE q[r]] BY DEF N!Gives
<1>2. ASSUME NEW r \in Requests
      PROVE  AReq(reqs'[r]) /\ reqs'[r].at = q[r].at /\ reqs'[r].after = q[r].after /\ reqs'[r].got = IF r \in rs THEN got ELSE q[r].got
  <2> PICK one : one = q[r] OBVIOUS
  <2> PICK new : new = [at |-> one.at, got |-> got, after |-> one.after] OBVIOUS
  <2>1. one = [at |-> one.at, got |-> one.got, after |-> one.after] BY DEF AReq
  <2>2. [one EXCEPT !.got = got] = new BY <2>1
  <2>3. CASE r \in rs
    <3>1. reqs'[r] = new BY <1>1, <2>2, <2>3
    <3>2. AReq(new) BY DEF AReq
    <3>3. new.at = one.at /\ new.after = one.after /\ new.got = got OBVIOUS
    <3> QED BY <2>3, <3>1, <3>2, <3>3
  <2>4. CASE r \notin rs
    <3>1. reqs'[r] = one BY <1>1, <2>4
    <3>2. AReq(one) BY <2>1 DEF AReq
    <3> QED BY <2>4, <3>1, <3>2
  <2> QED BY <2>3, <2>4
<1>3. reqs' = [r \in Requests |-> reqs'[r]] BY <1>1
<1> QED BY <1>2, <1>3

\* The facts of a dispatch of any message.
LEMMA DispatchFacts ==
  ASSUME WireInv, N!Dispatch
  PROVE  /\ ~over /\ inbox # <<>> /\ inbox' = Tail(inbox) /\ UNCHANGED <<wire, wireUp, stream>>
         /\ Head(inbox) \in Messages /\ inbox' \in Seq(Messages) /\ 1 \in 1 .. Len(inbox) /\ Head(inbox) = inbox[1]
         /\ \A r : Coming(r) /\ Head(inbox) # N!Told("answer", r) => Coming(r)' /\ Head(inbox)[1] # "closed"
         /\ \A i \in 1 .. Len(inbox') : \E j \in 1 .. Len(inbox) : inbox'[i] = inbox[j]
<1>1. ~over /\ inbox # <<>> /\ inbox' = Tail(inbox) /\ UNCHANGED <<wire, wireUp, stream>> BY DEF N!Dispatch
<1>2. inbox \in Seq(Messages) BY DEF WireInv, WireTypes
<1> QED BY <1>1, <1>2, ComingNearer

LEMMA DispatchAnswer == ASSUME WireInv, N!Dispatch, Head(inbox)[1] = "answer" PROVE WireInv'
<1> PICK m : m = Head(inbox) OBVIOUS
<1>1. /\ ~over /\ inbox' = Tail(inbox) /\ UNCHANGED <<wire, wireUp, stream>>
      /\ m \in Messages /\ inbox' \in Seq(Messages) /\ 1 \in 1 .. Len(inbox) /\ m = inbox[1]
      /\ \A r : Coming(r) /\ m # N!Told("answer", r) => Coming(r)'
      /\ \A i \in 1 .. Len(inbox') : \E j \in 1 .. Len(inbox) : inbox'[i] = inbox[j]
  BY DispatchFacts
<1> PICK p : p = m[2] OBVIOUS
<1>2. p \in Requests /\ m = N!Told("answer", p) BY <1>1, MessageIs
<1>3. N!Gives(pending \cap {p}, m) /\ pending' = pending \ {p} /\ UNCHANGED <<over, heard, server>>
  <2>1. N!Gives(N!Given(p), m) /\ pending' = pending \ N!Given(p) /\ UNCHANGED <<over, heard, server>> BY DEF N!Dispatch
  <2>2. N!Given(p) = pending \cap {p} BY DEF N!Given
  <2>3. pending \ (pending \cap {p}) = pending \ {p} OBVIOUS
  <2> QED BY <2>1, <2>2, <2>3
<1> PICK rs : rs = pending \cap {p} OBVIOUS
<1>4. /\ reqs' = [r \in Requests |-> reqs'[r]] /\ \A r \in Requests : AReq(reqs'[r])
      /\ \A r \in Requests : reqs'[r].at = reqs[r].at /\ reqs'[r].after = reqs[r].after
      /\ \A r \in Requests : reqs'[r].got = IF r \in rs THEN m ELSE reqs[r].got
  <2>1. N!Gives(rs, m) BY <1>3
  <2> QED BY <2>1, GivesAre DEF WireInv, WireTypes
<1>5. (\A r : Asked(r)' <=> Asked(r)) /\ (\A r : Answered(r)' <=> Answered(r)) BY <1>3 DEF Asked, Answered
<1>6. Answered(p) BY <1>1, <1>2 DEF WireInv, Answering
<1>7. m # N!Nothing /\ m # N!Broken BY <1>2, OutcomesDiffer
<1>8. pending \subseteq Requests BY DEF WireInv, WireTypes, N!TypeOK
<1>9. WireTypes'
  <2>1. N!TypeOK' BY <1>3, <1>4, <1>8 DEF WireInv, WireTypes, N!TypeOK
  <2> QED BY <1>1, <1>3, <1>4, <2>1 DEF WireInv, WireTypes
<1>10. Waiting'
  <2>1. ASSUME NEW r \in Requests PROVE r \in pending' <=> reqs'[r].at \in {"sending", "waiting"} /\ reqs'[r].got = N!Nothing
    <3>1. CASE r \in rs BY <1>3, <1>4, <1>7, <3>1
    <3>2. CASE r \notin rs BY <1>3, <1>4, <3>2 DEF WireInv, Waiting
    <3> QED BY <3>1, <3>2
  <2>2. ASSUME NEW r \in Requests
        PROVE  (reqs'[r].at = "new" => reqs'[r].got = N!Nothing) /\ (reqs'[r].at = "done" => reqs'[r].got # N!Nothing)
    <3>1. CASE r \in rs
      <4>1. reqs[r].at # "new" /\ reqs'[r].got # N!Nothing BY <1>4, <1>7, <3>1 DEF WireInv, Waiting
      <4> QED BY <1>4, <4>1
    <3>2. CASE r \notin rs BY <1>4, <3>2 DEF WireInv, Waiting
    <3> QED BY <3>1, <3>2
  <2> QED BY <2>1, <2>2 DEF Waiting
<1>11. Ending' BY <1>1, <1>3 DEF WireInv, Ending, N!EndIsLast
<1>12. Answering'
  <2>1. \A r \in Requests : Asked(r)' => reqs'[r].at # "new" BY <1>4, <1>5 DEF WireInv, Answering
  <2>2. \A r \in Requests : (\E i \in 1 .. Len(inbox') : inbox'[i] = N!Told("answer", r)) => Answered(r)'
    BY <1>1, <1>5 DEF WireInv, Answering
  <2>3. ASSUME NEW r \in Requests, reqs'[r].got[1] = "answer" PROVE reqs'[r].got = N!Told("answer", r) /\ Answered(r)'
    <3>1. CASE r \in rs BY <1>2, <1>4, <1>5, <1>6, <3>1
    <3>2. CASE r \notin rs BY <1>4, <1>5, <2>3, <3>2 DEF WireInv, Answering
    <3> QED BY <3>1, <3>2
  <2> QED BY <1>5, <2>1, <2>2, <2>3 DEF WireInv, Answering
<1>13. OneStream'
  <2>1. ASSUME wire # "streamable", stream PROVE ~over' /\ \A i \in 1 .. Len(inbox') : inbox'[i][1] # "closed"
    BY <1>1, <1>3, <2>1 DEF WireInv, OneStream
  <2>2. ASSUME wire # "streamable", NEW r \in pending', Answered(r) PROVE Coming(r)'
    <3>1. r \in pending /\ r # p BY <1>3, <2>2
    <3>2. m # N!Told("answer", r) BY <1>2, <3>1, ToldIs
    <3>3. Coming(r) BY <2>2, <3>1 DEF WireInv, OneStream
    <3> QED BY <1>1, <3>2, <3>3
  <2>3. ASSUME wire # "streamable", NEW r \in Requests, reqs'[r].got = N!Broken PROVE ~stream /\ ~Answered(r)
    <3>1. reqs[r].got = N!Broken BY <1>4, <1>7, <2>3
    <3> QED BY <2>3, <3>1 DEF WireInv, OneStream
  <2>4. stream => wireUp BY DEF WireInv, OneStream
  <2> QED BY <1>1, <1>5, <2>1, <2>2, <2>3, <2>4 DEF OneStream
<1> QED BY <1>9, <1>10, <1>11, <1>12, <1>13 DEF WireInv

LEMMA DispatchTold == ASSUME WireInv, N!Dispatch, Head(inbox)[1] \in {"ask", "note"} PROVE WireInv'
<1> PICK m : m = Head(inbox) OBVIOUS
<1>1. /\ ~over /\ inbox' = Tail(inbox) /\ UNCHANGED <<wire, wireUp, stream>>
      /\ m \in Messages /\ inbox' \in Seq(Messages)
      /\ \A r : Coming(r) /\ m # N!Told("answer", r) => Coming(r)'
      /\ \A i \in 1 .. Len(inbox') : \E j \in 1 .. Len(inbox) : inbox'[i] = inbox[j]
  BY DispatchFacts
<1>2. UNCHANGED <<reqs, pending, over>>
  <2>1. CASE m[1] = "ask" BY <2>1 DEF N!Dispatch
  <2>2. CASE m[1] = "note" BY <2>2 DEF N!Dispatch
  <2> QED BY <2>1, <2>2
<1>3. heard' = heard \/ heard' = Append(heard, m)
  <2>1. CASE m[1] = "ask" BY <2>1 DEF N!Dispatch
  <2>2. CASE m[1] = "note" BY <2>2 DEF N!Dispatch
  <2> QED BY <2>1, <2>2
<1> PICK n : n = N!Cardinality(server) OBVIOUS
<1>4. server' = server \/ server' = server \cup {N!Told("reply", n)}
  <2>1. CASE m[1] = "ask" BY <2>1 DEF N!Dispatch
  <2>2. CASE m[1] = "note" BY <2>2 DEF N!Dispatch
  <2> QED BY <2>1, <2>2
<1>5. (\A r : Asked(r)' <=> Asked(r)) /\ (\A r : Answered(r)' <=> Answered(r))
  <2>1. \A r : N!Told("request", r) # N!Told("reply", n) /\ N!Told("answered", r) # N!Told("reply", n) BY ToldIs
  <2> QED BY <1>4, <2>1 DEF Asked, Answered
<1>6. heard \in Seq(Messages) /\ ~over /\ \A i \in 1 .. Len(heard) : heard[i][1] # "closed" BY <1>1 DEF WireInv, WireTypes, Ending
<1>7. heard' \in Seq(Messages) /\ \A i \in 1 .. Len(heard') : heard'[i][1] # "closed"
  <2> PICK b : b = heard OBVIOUS
  <2>1. b \in Seq(Messages) /\ \A i \in 1 .. Len(b) : b[i][1] # "closed" BY <1>6
  <2>2. CASE heard' = b BY <2>1, <2>2
  <2>3. CASE heard' = Append(b, m)
    <3> PICK c : c = heard' OBVIOUS
    <3>1. c \in Seq(Messages) /\ Len(c) = Len(b) + 1 /\ Len(b) \in Nat /\ c[Len(b) + 1] = m /\ \A i \in 1 .. Len(b) : c[i] = b[i]
      BY <1>1, <2>1, <2>3
    <3> QED BY <2>1, <3>1
  <2> QED BY <1>3, <2>2, <2>3
<1>8. WireTypes' BY <1>1, <1>2, <1>7 DEF WireInv, WireTypes, N!TypeOK
<1>9. Waiting' BY <1>2 DEF WireInv, Waiting
<1>10. Ending' BY <1>1, <1>2, <1>7 DEF Ending, N!EndIsLast
<1>11. Answering'
  <2>1. \A r \in Requests : (\E i \in 1 .. Len(inbox') : inbox'[i] = N!Told("answer", r)) => Answered(r)'
    BY <1>1, <1>5 DEF WireInv, Answering
  <2> QED BY <1>2, <1>5, <2>1 DEF WireInv, Answering
<1>12. OneStream'
  <2>1. ASSUME wire # "streamable", stream PROVE ~over' /\ \A i \in 1 .. Len(inbox') : inbox'[i][1] # "closed"
    BY <1>1, <1>2, <2>1 DEF WireInv, OneStream
  <2>2. ASSUME wire # "streamable", NEW r \in pending, Answered(r) PROVE Coming(r)'
    <3>1. m # N!Told("answer", r) BY ToldIs
    <3>2. Coming(r) BY <2>2 DEF WireInv, OneStream
    <3> QED BY <1>1, <3>1, <3>2
  <2>3. ASSUME wire # "streamable", NEW r \in Requests, reqs'[r].got = N!Broken PROVE ~stream /\ ~Answered(r)
    BY <1>2, <2>3 DEF WireInv, OneStream
  <2>4. stream => wireUp BY DEF WireInv, OneStream
  <2> QED BY <1>1, <1>2, <1>5, <2>1, <2>2, <2>3, <2>4 DEF OneStream
<1> QED BY <1>8, <1>9, <1>10, <1>11, <1>12 DEF WireInv

LEMMA DispatchEnd == ASSUME WireInv, N!Dispatch, Head(inbox)[1] = "closed" PROVE WireInv'
<1> PICK m : m = Head(inbox) OBVIOUS
<1>1. /\ ~over /\ inbox' = Tail(inbox) /\ UNCHANGED <<wire, wireUp, stream>>
      /\ m \in Messages /\ inbox' \in Seq(Messages) /\ 1 \in 1 .. Len(inbox) /\ m = inbox[1]
      /\ \A r : ~(Coming(r) /\ m # N!Told("answer", r))
      /\ \A i \in 1 .. Len(inbox') : \E j \in 1 .. Len(inbox) : inbox'[i] = inbox[j]
  BY DispatchFacts
<1>2. N!Gives(pending, N!Broken) /\ pending' = {} /\ over' = TRUE /\ heard' = Append(heard, m) /\ server' = server
  <2>1. N!Gives(N!Drained, N!Broken) /\ pending' = pending \ N!Drained /\ over' = TRUE /\ heard' = Append(heard, m) /\ UNCHANGED server
    BY DEF N!Dispatch
  <2> QED BY <2>1 DEF N!Drained
<1>3. /\ reqs' = [r \in Requests |-> reqs'[r]] /\ \A r \in Requests : AReq(reqs'[r])
      /\ \A r \in Requests : reqs'[r].at = reqs[r].at /\ reqs'[r].after = reqs[r].after
      /\ \A r \in Requests : reqs'[r].got = IF r \in pending THEN N!Broken ELSE reqs[r].got
  BY <1>2, GivesAre DEF WireInv, WireTypes
<1>4. (\A r : Asked(r)' <=> Asked(r)) /\ (\A r : Answered(r)' <=> Answered(r)) BY <1>2 DEF Asked, Answered
<1>5. \A r : ~Coming(r)
  <2>1. \A r : m # N!Told("answer", r) BY ToldIs
  <2> QED BY <1>1, <2>1
<1>6. WireTypes'
  <2>1. heard' \in Seq(Messages)
    <3>1. heard \in Seq(Messages) BY DEF WireInv, WireTypes
    <3> QED BY <1>1, <1>2, <3>1
  <2>2. N!TypeOK' BY <1>2, <1>3 DEF WireInv, WireTypes, N!TypeOK
  <2> QED BY <1>1, <1>3, <2>1, <2>2 DEF WireTypes
<1>7. Waiting'
  <2>1. ASSUME NEW r \in Requests PROVE ~(reqs'[r].at \in {"sending", "waiting"} /\ reqs'[r].got = N!Nothing)
    <3>1. CASE r \in pending BY <1>3, <3>1, OutcomesDiffer
    <3>2. CASE r \notin pending BY <1>3, <3>2 DEF WireInv, Waiting
    <3> QED BY <3>1, <3>2
  <2>2. ASSUME NEW r \in Requests
        PROVE  (reqs'[r].at = "new" => reqs'[r].got = N!Nothing) /\ (reqs'[r].at = "done" => reqs'[r].got # N!Nothing)
    <3>1. CASE r \in pending
      <4>1. reqs[r].at # "new" /\ reqs'[r].got # N!Nothing BY <1>3, <3>1, OutcomesDiffer DEF WireInv, Waiting
      <4> QED BY <1>3, <4>1
    <3>2. CASE r \notin pending BY <1>3, <3>2 DEF WireInv, Waiting
    <3> QED BY <3>1, <3>2
  <2> QED BY <1>2, <2>1, <2>2 DEF Waiting
<1>8. Ending'
  <2> PICK b : b = heard OBVIOUS
  <2>1. b \in Seq(Messages) /\ \A i \in 1 .. Len(b) : b[i][1] # "closed" BY <1>1 DEF WireInv, WireTypes, Ending
  <2> PICK c : c = heard' OBVIOUS
  <2>2. Len(c) = Len(b) + 1 /\ Len(b) \in Nat /\ \A i \in 1 .. Len(b) : c[i] = b[i] BY <1>2, <2>1
  <2>3. \A i \in 1 .. Len(c) : c[i][1] = "closed" => i = Len(c) BY <2>1, <2>2
  <2> QED BY <1>2, <2>3 DEF Ending, N!EndIsLast
<1>9. Answering'
  <2>1. \A r \in Requests : Asked(r)' => reqs'[r].at # "new" BY <1>3, <1>4 DEF WireInv, Answering
  <2>2. \A r \in Requests : (\E i \in 1 .. Len(inbox') : inbox'[i] = N!Told("answer", r)) => Answered(r)'
    BY <1>1, <1>4 DEF WireInv, Answering
  <2>3. ASSUME NEW r \in Requests, reqs'[r].got[1] = "answer" PROVE reqs'[r].got = N!Told("answer", r) /\ Answered(r)'
    <3>1. r \notin pending BY <1>3, <2>3, OutcomesDiffer
    <3> QED BY <1>3, <1>4, <2>3, <3>1 DEF WireInv, Answering
  <2> QED BY <1>4, <2>1, <2>2, <2>3 DEF WireInv, Answering
<1>10. OneStream'
  <2>1. ASSUME wire # "streamable" PROVE ~stream BY <1>1, <2>1 DEF WireInv, OneStream
  <2>2. ASSUME wire # "streamable", NEW r \in Requests, reqs'[r].got = N!Broken PROVE ~Answered(r)
    <3>1. CASE r \in pending BY <1>5, <2>2, <3>1 DEF WireInv, OneStream
    <3>2. CASE r \notin pending BY <1>3, <2>2, <3>2 DEF WireInv, OneStream
    <3> QED BY <3>1, <3>2
  <2>3. stream => wireUp BY DEF WireInv, OneStream
  <2> QED BY <1>1, <1>2, <1>4, <2>1, <2>2, <2>3 DEF OneStream
<1> QED BY <1>6, <1>7, <1>8, <1>9, <1>10 DEF WireInv

LEMMA WireNext == ASSUME WireInv, [N!Next]_ofWires PROVE WireInv'
<1>1. CASE UNCHANGED ofWires
  <2>1. UNCHANGED <<inbox, reqs, pending, over, heard, wire, server>> /\ stream' = stream /\ wireUp' = wireUp BY <1>1 DEF ofWires
  <2>2. stream' => wireUp' BY <2>1 DEF WireInv, OneStream
  <2> QED BY <2>1, <2>2, MutedKept
<1>2. ASSUME NEW r \in Requests, N!Ask(r) \/ N!Takes(r) \/ N!Sent(r) \/ N!Unsent(r) \/ N!Answers(r) \/ N!Done(r) \/ N!Late(r) PROVE WireInv'
  BY <1>2, AskKept, TakesKept, SentKept, UnsentKept, AnswersComes, DoneKept, LateKept
<1>3. CASE N!Tells("note", MaxNotes) \/ N!Tells("ask", MaxAsks) BY <1>3, TellsComes
<1>4. CASE N!End \/ N!Mute BY <1>4, EndComes, MuteComes
<1>5. CASE N!Dispatch
  <2>1. Head(inbox)[1] \in {"note", "ask", "closed", "answer"} BY <1>5, DispatchFacts, MessageIs
  <2> QED BY <1>5, <2>1, DispatchAnswer, DispatchTold, DispatchEnd
<1> QED BY <1>1, <1>2, <1>3, <1>4, <1>5 DEF N!Next

LEMMA WiresAreRight == WireInv => N!TypeOK /\ N!WiresHold
<1> SUFFICES ASSUME WireInv PROVE N!TypeOK /\ N!WiresHold OBVIOUS
<1>1. N!TypeOK /\ N!EndIsLast BY DEF WireInv, WireTypes, Ending
<1>2. N!OwnAnswer
  <2>1. ASSUME NEW r \in Requests, reqs[r].got[1] = "answer"
        PROVE  reqs[r].got = N!Told("answer", r) /\ N!Told("answered", r) \in server
    BY <2>1 DEF WireInv, Answering, Answered
  <2>2. ASSUME NEW r \in Requests, r \in pending PROVE reqs[r].at # "done" /\ reqs[r].got = N!Nothing
    BY <2>2 DEF WireInv, Waiting
  <2> QED BY <2>1, <2>2 DEF N!OwnAnswer
<1>3. N!EndReachesAll
  <2>1. ASSUME over, NEW r \in Requests, reqs[r].at # "new", ~reqs[r].after PROVE reqs[r].got # N!Nothing
    <3>1. r \notin pending BY <2>1 DEF WireInv, Ending
    <3>2. reqs[r].at \in {"new", "sending", "waiting", "done"} BY DEF WireInv, WireTypes, N!TypeOK
    <3> QED BY <2>1, <3>1, <3>2 DEF WireInv, Waiting
  <2> QED BY <2>1 DEF N!EndReachesAll
<1>4. N!AnswerBeforeEnd BY DEF WireInv, OneStream, N!AnswerBeforeEnd, Answered
<1> QED BY <1>1, <1>2, <1>3, <1>4 DEF N!WiresHold

-----------------------------------------------------------------------------
(* The servers of tools.                                                    *)

AnEntry(e) == e = [def |-> e.def, link |-> e.link, gen |-> e.gen, offered |-> e.offered]
AKeeper(k) ==
  k = [name |-> k.name, run |-> k.run, at |-> k.at, failures |-> k.failures, quiet |-> k.quiet, held |-> k.held,
       token |-> k.token, notice |-> k.notice, missed |-> k.missed, aborted |-> k.aborted]
AnAct(c) ==
  c = [at |-> c.at, kind |-> c.kind, name |-> c.name, seen |-> c.seen, run |-> c.run, session |-> c.session,
       token |-> c.token, tried |-> c.tried, held |-> c.held]
ALogin(v) == v = [login |-> v.login, ended |-> v.ended]
Links == {"none", "pending", "connected", "failed", "again", "needs-auth", "disabled", "unapproved"}
Places == {"token", "refresh", "store", "connect", "heed", "wait"}
Idle == {"new", "done"}

EntryTypes ==
  /\ gens \in Nat /\ entries = [s \in Servers |-> entries[s]] /\ \A s \in Servers : AnEntry(entries[s])
  /\ \A s \in Servers : entries[s].gen \in 0 .. gens /\ entries[s].link \in Links

KeeperTypes ==
  /\ keepers = [g \in DOMAIN keepers |-> keepers[g]] /\ DOMAIN keepers \subseteq 1 .. gens /\ open \subseteq 1 .. gens
  /\ \A g \in DOMAIN keepers : AKeeper(keepers[g]) /\ keepers[g].name \in Servers /\ keepers[g].at \in Places

ActTypes ==
  /\ acts = [a \in Acts |-> acts[a]]
  /\ \A a \in Acts : AnAct(acts[a]) /\ (acts[a].at \notin Idle => acts[a].name \in Servers)

\* No token that is held is newer than the last login of its server.
Tokened ==
  /\ valid = [s \in Servers |-> valid[s]] /\ (\A s \in Servers : ALogin(valid[s]) /\ valid[s].login \in Nat)
  /\ vault = [s \in Servers |-> vault[s]] /\ (\A s \in Servers : vault[s] \in 0 .. valid[s].login)
  /\ \A g \in DOMAIN keepers : keepers[g].token \in 0 .. valid[keepers[g].name].login
  /\ \A a \in Acts : acts[a].at = "keep" => acts[a].held \in 0 .. valid[acts[a].name].login

\* The keeper of the generation of an entry is of its server; it goes on, and no other does.
Owned ==
  /\ \A s \in Servers : entries[s].gen \in DOMAIN keepers => keepers[entries[s].gen].name = s
  /\ \A g \in DOMAIN keepers : keepers[g].aborted \/ entries[keepers[g].name].gen = g
  /\ \A g \in DOMAIN keepers : keepers[g].aborted => entries[keepers[g].name].gen # g
  /\ \A g \in S!Live : S!Runs(entries[keepers[g].name].def)

\* A keeper has its connection while it heeds it, and one that heeds it and owes no read offers what there is.
Heeding ==
  /\ lists = [s \in Servers |-> lists[s]]
  /\ \A g \in DOMAIN keepers : keepers[g].at # "heed" => g \notin open
  /\ \A g \in S!Live : keepers[g].at = "heed" /\ g \in open /\ ~keepers[g].notice /\ ~keepers[g].missed /\ S!Takes(keepers[g]) =>
       entries[keepers[g].name].offered = lists[keepers[g].name]

HubInv == EntryTypes /\ KeeperTypes /\ ActTypes /\ Tokened /\ Owned /\ S!LinkIsTrue /\ Heeding

\* What serves of a login goes with the next, or as its token ends: no token that is held serves again.
Ages ==
  /\ valid' = [s \in Servers |-> valid'[s]] /\ (\A s \in Servers : ALogin(valid'[s]) /\ valid'[s].login \in Nat)
  /\ \A s \in Servers : valid[s].login <= valid'[s].login
  /\ \A s \in Servers : \A t \in 0 .. valid[s].login :
       t = valid'[s].login /\ ~valid'[s].ended => t = valid[s].login /\ ~valid[s].ended

LEMMA AgesAlike == ASSUME HubInv, valid' = valid PROVE Ages
BY DEF HubInv, Tokened, Ages, ALogin

LEMMA AgesRefreshed == ASSUME HubInv, NEW s \in Servers, NEW had, S!Refresh(s, had) PROVE Ages
<1>1. CASE UNCHANGED valid BY <1>1, AgesAlike
<1>2. CASE had = valid[s].login
  <2>1. valid[s] = [login |-> valid[s].login, ended |-> valid[s].ended] /\ valid[s].login \in Nat BY DEF HubInv, Tokened, ALogin
  <2>2. valid' = [valid EXCEPT ![s] = [login |-> valid[s].login + 1, ended |-> FALSE]] BY <1>2 DEF S!Refresh
  <2>3. DOMAIN valid = Servers BY DEF HubInv, Tokened
  <2>4. valid'[s] = [login |-> valid[s].login + 1, ended |-> FALSE] /\ \A t \in Servers : t # s => valid'[t] = valid[t] BY <2>2, <2>3
  <2>5. valid'[s].login = valid[s].login + 1 BY <2>4
  <2>6. valid' = [t \in Servers |-> valid'[t]] BY <2>2, <2>3
  <2>7. \A t \in Servers : ALogin(valid'[t]) /\ valid'[t].login \in Nat BY <2>1, <2>4, <2>5 DEF HubInv, Tokened, ALogin
  <2>8. ASSUME NEW x \in Servers
        PROVE  /\ valid[x].login <= valid'[x].login
               /\ \A t \in 0 .. valid[x].login : t = valid'[x].login /\ ~valid'[x].ended => t = valid[x].login /\ ~valid[x].ended
    <3>1. valid[x].login \in Nat BY DEF HubInv, Tokened
    <3>2. CASE x = s BY <2>1, <2>5, <3>2
    <3>3. CASE x # s BY <2>4, <3>1, <3>3
    <3> QED BY <3>2, <3>3
  <2> QED BY <2>6, <2>7, <2>8 DEF Ages
<1> QED BY <1>1, <1>2 DEF S!Refresh

LEMMA AgesEnded == ASSUME HubInv, NEW s \in Servers, valid' = [valid EXCEPT ![s].ended = TRUE] PROVE Ages
<1>1. valid[s] = [login |-> valid[s].login, ended |-> valid[s].ended] /\ valid[s].login \in Nat BY DEF HubInv, Tokened, ALogin
<1>2. DOMAIN valid = Servers BY DEF HubInv, Tokened
<1>3. valid'[s] = [login |-> valid[s].login, ended |-> TRUE] BY <1>1, <1>2
<1>4. \A t \in Servers : t # s => valid'[t] = valid[t] BY <1>2
<1>5. valid' = [t \in Servers |-> valid'[t]] BY <1>2
<1>6. valid'[s].login = valid[s].login /\ valid'[s].ended BY <1>3
<1>7. \A t \in Servers : ALogin(valid'[t]) /\ valid'[t].login \in Nat BY <1>1, <1>3, <1>4, <1>6 DEF HubInv, Tokened, ALogin
<1>8. ASSUME NEW x \in Servers
      PROVE  /\ valid[x].login <= valid'[x].login
             /\ \A t \in 0 .. valid[x].login : t = valid'[x].login /\ ~valid'[x].ended => t = valid[x].login /\ ~valid[x].ended
  <2>1. valid[x].login \in Nat BY DEF HubInv, Tokened
  <2>2. CASE x = s BY <1>1, <1>6, <2>2
  <2>3. CASE x # s BY <1>4, <2>1, <2>3
  <2> QED BY <2>2, <2>3
<1> QED BY <1>5, <1>7, <1>8 DEF Ages

\* A keeper that served no more serves no more.
LEMMA TakesNoMore == ASSUME Ages, NEW k, k.name \in Servers, k.token \in 0 .. valid[k.name].login,
                            k.run # "remote" \/ (k.token = valid'[k.name].login /\ ~valid'[k.name].ended)
                     PROVE  S!Takes(k)
BY DEF Ages, S!Takes

\* What the acts and the store hold goes with the login.
ActsHold ==
  /\ \A a \in Acts : acts[a].at = "keep" => acts[a].held \in 0 .. valid[acts[a].name].login
  /\ vault = [s \in Servers |-> vault[s]] /\ (\A s \in Servers : vault[s] \in 0 .. valid[s].login)

LEMMA HoldsOn == ASSUME HubInv, Ages, UNCHANGED acts, UNCHANGED vault PROVE ActTypes' /\ ActsHold'
<1>1. ActTypes' BY DEF HubInv, ActTypes
<1>2. ASSUME NEW a \in Acts, acts'[a].at = "keep" PROVE acts'[a].held \in 0 .. valid'[acts'[a].name].login
  <2>1. acts[a].at = "keep" /\ acts[a].name \in Servers BY <1>2 DEF HubInv, ActTypes, Idle
  <2>2. acts[a].held \in 0 .. valid[acts[a].name].login BY <2>1 DEF HubInv, Tokened
  <2>3. valid[acts[a].name].login \in Nat /\ valid'[acts[a].name].login \in Nat /\ valid[acts[a].name].login <= valid'[acts[a].name].login
    BY <2>1 DEF HubInv, Tokened, Ages
  <2> QED BY <2>2, <2>3
<1>3. \A s \in Servers : vault'[s] \in 0 .. valid'[s].login
  <2> SUFFICES ASSUME NEW s \in Servers PROVE vault[s] \in 0 .. valid'[s].login OBVIOUS
  <2>1. valid[s].login \in Nat /\ valid'[s].login \in Nat /\ valid[s].login <= valid'[s].login /\ vault[s] \in 0 .. valid[s].login
    BY DEF HubInv, Tokened, Ages
  <2> QED BY <2>1
<1> QED BY <1>1, <1>2, <1>3 DEF ActsHold, HubInv, Tokened

\* A step that leaves the entries and their keepers.
LEMMA HubKept == ASSUME HubInv, Ages, ActTypes', ActsHold', UNCHANGED <<entries, gens, keepers, lists>>, open' \subseteq open
                 PROVE  HubInv'
<1>1. EntryTypes' BY DEF HubInv, EntryTypes, AnEntry
<1>2. KeeperTypes' BY DEF HubInv, KeeperTypes, AKeeper
<1>3. Tokened'
  <2>1. ASSUME NEW g \in DOMAIN keepers PROVE keepers[g].token \in 0 .. valid'[keepers[g].name].login
    <3>1. keepers[g].name \in Servers BY DEF HubInv, KeeperTypes
    <3>2. valid[keepers[g].name].login \in Nat /\ valid'[keepers[g].name].login \in Nat
          /\ valid[keepers[g].name].login <= valid'[keepers[g].name].login /\ keepers[g].token \in 0 .. valid[keepers[g].name].login
      BY <3>1 DEF HubInv, Tokened, Ages
    <3> QED BY <3>2
  <2> QED BY <2>1 DEF Tokened, Ages, ActsHold
<1>4. Owned' BY DEF HubInv, Owned, S!Live, S!Runs, S!Defined
<1>5. S!LinkIsTrue' BY DEF HubInv, S!LinkIsTrue, S!Live
<1>6. Heeding'
  <2>1. ASSUME NEW g \in DOMAIN keepers, ~keepers[g].aborted, keepers[g].at = "heed", g \in open', ~keepers[g].notice, ~keepers[g].missed,
               S!Takes(keepers[g])'
        PROVE  entries[keepers[g].name].offered = lists[keepers[g].name]
    <3>1. keepers'[g] = keepers[g] /\ keepers[g].name \in Servers BY DEF HubInv, KeeperTypes
    <3>2. keepers[g].token \in 0 .. valid[keepers[g].name].login BY DEF HubInv, Tokened
    <3>3. keepers[g].run # "remote" \/ (keepers[g].token = valid'[keepers[g].name].login /\ ~valid'[keepers[g].name].ended)
      BY <2>1, <3>1 DEF S!Takes
    <3>4. S!Takes(keepers[g]) BY <3>1, <3>2, <3>3, TakesNoMore
    <3> QED BY <2>1, <3>4 DEF HubInv, Heeding, S!Live
  <2> QED BY <2>1 DEF HubInv, Heeding, S!Live
<1> QED BY <1>1, <1>2, <1>3, <1>4, <1>5, <1>6 DEF HubInv

\* What a live keeper is: of the generation of its entry.
LEMMA LiveOwns == ASSUME HubInv, NEW g \in DOMAIN keepers, ~keepers[g].aborted
                  PROVE  /\ S!Own(g) /\ keepers[g].name \in Servers /\ entries[keepers[g].name].gen = g
                         /\ S!Runs(entries[keepers[g].name].def)
<1>1. keepers[g].name \in Servers BY DEF HubInv, KeeperTypes
<1>2. entries[keepers[g].name].gen = g BY DEF HubInv, Owned
<1>3. g # 0 BY DEF HubInv, KeeperTypes, EntryTypes
<1>4. entries[keepers[g].name] # S!NoEntry BY <1>2, <1>3 DEF S!NoEntry
<1>5. g \in S!Live BY DEF S!Live
<1> QED BY <1>1, <1>2, <1>4, <1>5 DEF S!Own, HubInv, Owned

LEMMA DeadOwnsNot == ASSUME HubInv, NEW g \in DOMAIN keepers, keepers[g].aborted PROVE ~S!Own(g)
BY DEF HubInv, Owned, S!Own

\* A keeper that was ended is gone.
LEMMA KeeperDropped ==
  ASSUME HubInv, Ages, ActTypes', ActsHold', UNCHANGED <<entries, gens, lists>>, NEW g \in DOMAIN keepers, keepers[g].aborted,
         keepers' = [x \in DOMAIN keepers \ {g} |-> keepers[x]], open' \subseteq open
  PROVE  HubInv'
<1>0. \A x \in DOMAIN keepers' : x \in DOMAIN keepers /\ x # g /\ keepers'[x] = keepers[x] OBVIOUS
<1>00. \A x \in DOMAIN keepers \ {g} : x \in DOMAIN keepers' OBVIOUS
<1>1. EntryTypes' BY DEF HubInv, EntryTypes, AnEntry
<1>2. KeeperTypes' BY <1>0 DEF HubInv, KeeperTypes, AKeeper
<1>3. Tokened'
  <2>1. ASSUME NEW x \in DOMAIN keepers' PROVE keepers'[x].token \in 0 .. valid'[keepers'[x].name].login
    <3>1. keepers[x].name \in Servers BY <1>0 DEF HubInv, KeeperTypes
    <3>2. valid[keepers[x].name].login \in Nat /\ valid'[keepers[x].name].login \in Nat
          /\ valid[keepers[x].name].login <= valid'[keepers[x].name].login /\ keepers[x].token \in 0 .. valid[keepers[x].name].login
      BY <1>0, <3>1 DEF HubInv, Tokened, Ages
    <3> QED BY <1>0, <3>2
  <2> QED BY <2>1 DEF Tokened, Ages, ActsHold
<1>4. Owned' BY <1>0 DEF HubInv, Owned, S!Live, S!Runs, S!Defined
<1>5. S!LinkIsTrue'
  <2>1. \A s \in Servers : entries[s].gen \in S!Live => entries[s].gen # g BY DEF S!Live
  <2>2. \A x \in S!Live : x # g => x \in S!Live' /\ keepers'[x] = keepers[x] BY <1>0, <1>00 DEF S!Live
  <2> QED BY <2>1, <2>2 DEF HubInv, S!LinkIsTrue
<1>6. Heeding'
  <2>1. ASSUME NEW x \in DOMAIN keepers', ~keepers'[x].aborted, keepers'[x].at = "heed", x \in open', ~keepers'[x].notice, ~keepers'[x].missed,
               S!Takes(keepers[x])'
        PROVE  entries[keepers'[x].name].offered = lists[keepers'[x].name]
    <3>1. keepers'[x] = keepers[x] /\ keepers[x].name \in Servers /\ x \in DOMAIN keepers BY <1>0 DEF HubInv, KeeperTypes
    <3>2. keepers[x].token \in 0 .. valid[keepers[x].name].login BY <3>1 DEF HubInv, Tokened
    <3>3. keepers[x].run # "remote" \/ (keepers[x].token = valid'[keepers[x].name].login /\ ~valid'[keepers[x].name].ended)
      BY <2>1, <3>1 DEF S!Takes
    <3>4. S!Takes(keepers[x]) BY <3>1, <3>2, <3>3, TakesNoMore
    <3> QED BY <2>1, <3>1, <3>4 DEF HubInv, Heeding, S!Live
  <2>2. \A x \in DOMAIN keepers' : keepers'[x].at # "heed" => x \notin open' BY <1>0 DEF HubInv, Heeding
  <2> QED BY <2>1, <2>2 DEF HubInv, Heeding, S!Live
<1> QED BY <1>1, <1>2, <1>3, <1>4, <1>5, <1>6 DEF HubInv

\* What a keeper that is of no server of the step holds still goes.
LEMMA OthersHold ==
  ASSUME HubInv, Ages, NEW x \in DOMAIN keepers
  PROVE  /\ keepers[x].name \in Servers /\ keepers[x].token \in 0 .. valid'[keepers[x].name].login
         /\ S!Takes(keepers[x])' /\ keepers'[x] = keepers[x] => S!Takes(keepers[x])
<1>1. keepers[x].name \in Servers BY DEF HubInv, KeeperTypes
<1>2. valid[keepers[x].name].login \in Nat /\ valid'[keepers[x].name].login \in Nat
      /\ valid[keepers[x].name].login <= valid'[keepers[x].name].login /\ keepers[x].token \in 0 .. valid[keepers[x].name].login
  BY <1>1 DEF HubInv, Tokened, Ages
<1>3. ASSUME S!Takes(keepers[x])', keepers'[x] = keepers[x] PROVE S!Takes(keepers[x])
  <2>1. keepers[x].run # "remote" \/ (keepers[x].token = valid'[keepers[x].name].login /\ ~valid'[keepers[x].name].ended)
    BY <1>3 DEF S!Takes
  <2> QED BY <1>1, <1>2, <2>1, TakesNoMore
<1> QED BY <1>1, <1>2, <1>3

\* A live keeper goes on, and its entry with it.
LEMMA KeeperGoesOn ==
  ASSUME HubInv, Ages, ActTypes', ActsHold', UNCHANGED <<gens, lists>>, NEW g \in DOMAIN keepers, ~keepers[g].aborted,
         NEW k, NEW e, AKeeper(k), k.name = keepers[g].name, k.aborted = keepers[g].aborted, k.at \in Places, k.token \in 0 .. valid'[k.name].login,
         AnEntry(e), e.def = entries[k.name].def, e.gen = g, e.link \in Links,
         keepers' = [keepers EXCEPT ![g] = k], entries' = [entries EXCEPT ![k.name] = e],
         e.link = "pending" => k.at \in {"token", "refresh", "store", "connect"},
         e.link = "again" => k.at # "heed", e.link = "connected" => k.at = "heed",
         open' \subseteq open \cup {g}, k.at # "heed" => g \notin open',
         k.at = "heed" /\ g \in open' /\ ~k.notice /\ ~k.missed /\ (k.run # "remote" \/ (k.token = valid'[k.name].login /\ ~valid'[k.name].ended)) =>
           e.offered = lists[k.name]
  PROVE  HubInv'
<1>1. k.name \in Servers /\ entries[k.name].gen = g /\ S!Runs(entries[k.name].def) BY LiveOwns
<1>2. DOMAIN keepers' = DOMAIN keepers /\ keepers'[g] = k /\ \A x \in DOMAIN keepers : x # g => keepers'[x] = keepers[x]
  BY DEF HubInv, KeeperTypes
<1>3. entries' = [s \in Servers |-> entries'[s]] /\ entries'[k.name] = e /\ \A s \in Servers : s # k.name => entries'[s] = entries[s]
  BY <1>1 DEF HubInv, EntryTypes
<1>4. \A s \in Servers : entries'[s].gen = entries[s].gen /\ entries'[s].def = entries[s].def BY <1>1, <1>3
<1>5. \A x \in DOMAIN keepers : keepers'[x].name = keepers[x].name /\ keepers'[x].aborted = keepers[x].aborted BY <1>2
<1>6. S!Live' = S!Live BY <1>2, <1>5 DEF S!Live
<1>7. EntryTypes'
  <2>1. \A s \in Servers : AnEntry(entries[s])' BY <1>3 DEF HubInv, EntryTypes, AnEntry
  <2>2. \A s \in Servers : entries'[s].gen \in 0 .. gens' /\ entries'[s].link \in Links BY <1>3, <1>4 DEF HubInv, EntryTypes
  <2> QED BY <1>3, <2>1, <2>2 DEF HubInv, EntryTypes
<1>8. KeeperTypes'
  <2>1. keepers' = [x \in DOMAIN keepers' |-> keepers'[x]] /\ DOMAIN keepers' \subseteq 1 .. gens' BY <1>2 DEF HubInv, KeeperTypes
  <2>2. \A x \in DOMAIN keepers : AKeeper(keepers[x])' BY <1>2 DEF HubInv, KeeperTypes, AKeeper
  <2>3. \A x \in DOMAIN keepers : keepers'[x].name \in Servers /\ keepers'[x].at \in Places BY <1>1, <1>2 DEF HubInv, KeeperTypes
  <2>4. open' \subseteq 1 .. gens' BY DEF HubInv, KeeperTypes
  <2> QED BY <1>2, <2>1, <2>2, <2>3, <2>4 DEF KeeperTypes
<1>9. Tokened'
  <2>1. \A x \in DOMAIN keepers : keepers'[x].token \in 0 .. valid'[keepers'[x].name].login BY <1>2, <1>5, OthersHold
  <2> QED BY <1>2, <2>1 DEF Tokened, Ages, ActsHold
<1>10. Owned'
  <2>1. \A s \in Servers : entries'[s].gen \in DOMAIN keepers' => keepers'[entries'[s].gen].name = s BY <1>2, <1>4, <1>5 DEF HubInv, Owned
  <2>2. \A x \in DOMAIN keepers' : keepers'[x].aborted \/ entries'[keepers'[x].name].gen = x
    BY <1>1, <1>2, <1>4, <1>5 DEF HubInv, Owned, KeeperTypes
  <2>3. \A x \in DOMAIN keepers' : keepers'[x].aborted => entries'[keepers'[x].name].gen # x
    BY <1>1, <1>2, <1>4, <1>5 DEF HubInv, Owned, KeeperTypes
  <2>4. \A x \in S!Live' : S!Runs(entries'[keepers'[x].name].def)
    <3> SUFFICES ASSUME NEW x \in S!Live PROVE S!Runs(entries'[keepers'[x].name].def) BY <1>6
    <3>1. x \in DOMAIN keepers BY DEF S!Live
    <3>2. keepers'[x].name = keepers[x].name /\ keepers[x].name \in Servers BY <1>5, <3>1 DEF HubInv, KeeperTypes
    <3>3. entries'[keepers'[x].name].def = entries[keepers[x].name].def BY <1>4, <3>2
    <3>4. S!Runs(entries[keepers[x].name].def) BY DEF HubInv, Owned
    <3> QED BY <3>3, <3>4
  <2>5. \A x \in S!Live' : S!Runs(entries[keepers[x].name].def)' BY <2>4 DEF S!Runs, S!Defined
  <2> QED BY <2>1, <2>2, <2>3, <2>5 DEF Owned
<1>11. S!LinkIsTrue'
  <2>1. g \in S!Live BY DEF S!Live
  <2>2. ASSUME NEW s \in Servers
        PROVE  /\ entries'[s].link \in {"pending", "again", "connected"} => entries'[s].gen \in S!Live
               /\ entries'[s].link = "pending"   => keepers'[entries'[s].gen].at \in {"token", "refresh", "store", "connect"}
               /\ entries'[s].link = "again"     => keepers'[entries'[s].gen].at \notin {"heed", "over"}
               /\ entries'[s].link = "connected" => keepers'[entries'[s].gen].at = "heed"
    <3>1. CASE s = k.name BY <1>2, <1>3, <2>1, <3>1 DEF Places
    <3>2. CASE s # k.name
      <4>1. entries'[s] = entries[s] BY <1>3, <3>2
      <4>2. entries[s].gen \in S!Live => entries[s].gen # g
        BY <3>2 DEF HubInv, Owned
      <4>3. \A x \in S!Live : x # g => keepers'[x] = keepers[x] BY <1>2 DEF S!Live
      <4> QED BY <4>1, <4>2, <4>3 DEF HubInv, S!LinkIsTrue
    <3> QED BY <3>1, <3>2
  <2> QED BY <1>6, <2>2 DEF S!LinkIsTrue
<1>12. Heeding'
  <2>1. ASSUME NEW x \in DOMAIN keepers, ~keepers'[x].aborted, keepers'[x].at = "heed", x \in open', ~keepers'[x].notice, ~keepers'[x].missed,
               S!Takes(keepers[x])'
        PROVE  entries'[keepers'[x].name].offered = lists[keepers'[x].name]
    <3>1. CASE x = g
      <4>1. k.run # "remote" \/ (k.token = valid'[k.name].login /\ ~valid'[k.name].ended) BY <1>2, <2>1, <3>1 DEF S!Takes
      <4> QED BY <1>2, <1>3, <2>1, <3>1, <4>1
    <3>2. CASE x # g
      <4>1. keepers'[x] = keepers[x] /\ x \in open BY <1>2, <2>1, <3>2
      <4>2. S!Takes(keepers[x]) BY <2>1, <4>1, OthersHold
      <4>3. x \in S!Live /\ entries[keepers[x].name].gen = x /\ keepers[x].name \in Servers BY <2>1, <4>1, LiveOwns DEF S!Live
      <4>4. keepers[x].name # k.name BY <1>1, <3>2, <4>3
      <4>5. entries'[keepers[x].name] = entries[keepers[x].name] BY <1>3, <4>3, <4>4
      <4> QED BY <2>1, <4>1, <4>2, <4>3, <4>5 DEF HubInv, Heeding
    <3> QED BY <3>1, <3>2
  <2>2. \A x \in DOMAIN keepers : keepers'[x].at # "heed" => x \notin open'
    <3> SUFFICES ASSUME NEW x \in DOMAIN keepers, keepers'[x].at # "heed" PROVE x \notin open' OBVIOUS
    <3>1. CASE x = g BY <1>2, <3>1
    <3>2. CASE x # g BY <1>2, <3>2 DEF HubInv, Heeding
    <3> QED BY <3>1, <3>2
  <2>3. lists' = [s \in Servers |-> lists'[s]] BY DEF HubInv, Heeding
  <2> QED BY <1>2, <2>1, <2>2, <2>3 DEF Heeding, S!Live
<1> QED BY <1>7, <1>8, <1>9, <1>10, <1>11, <1>12 DEF HubInv

\* A live keeper gives up, and its entry says so.
LEMMA KeeperOver ==
  ASSUME HubInv, Ages, ActTypes', ActsHold', UNCHANGED <<gens, lists>>, NEW g \in DOMAIN keepers, ~keepers[g].aborted,
         NEW n, n = keepers[g].name, NEW e, AnEntry(e), e.def = entries[n].def, e.gen = g, e.link \in {"failed", "needs-auth"},
         keepers' = [x \in DOMAIN keepers \ {g} |-> keepers[x]], entries' = [entries EXCEPT ![n] = e],
         open' \subseteq open, g \notin open'
  PROVE  HubInv'
<1>1. n \in Servers /\ entries[n].gen = g BY LiveOwns
<1>2. \A x \in DOMAIN keepers' : x \in DOMAIN keepers /\ x # g /\ keepers'[x] = keepers[x] OBVIOUS
<1>22. \A x \in DOMAIN keepers \ {g} : x \in DOMAIN keepers' OBVIOUS
<1>3. entries' = [s \in Servers |-> entries'[s]] /\ entries'[n] = e /\ \A s \in Servers : s # n => entries'[s] = entries[s]
  BY <1>1 DEF HubInv, EntryTypes
<1>4. \A s \in Servers : entries'[s].gen = entries[s].gen /\ entries'[s].def = entries[s].def BY <1>1, <1>3
<1>7. EntryTypes'
  <2>1. \A s \in Servers : AnEntry(entries[s])' BY <1>3 DEF HubInv, EntryTypes, AnEntry
  <2>2. \A s \in Servers : entries'[s].gen \in 0 .. gens' /\ entries'[s].link \in Links BY <1>3, <1>4 DEF HubInv, EntryTypes, Links
  <2> QED BY <1>3, <2>1, <2>2 DEF HubInv, EntryTypes
<1>8. KeeperTypes' BY <1>2 DEF HubInv, KeeperTypes, AKeeper
<1>9. Tokened'
  <2>1. \A x \in DOMAIN keepers' : keepers'[x].token \in 0 .. valid'[keepers'[x].name].login BY <1>2, OthersHold
  <2> QED BY <2>1 DEF Tokened, Ages, ActsHold
<1>10. Owned'
  <2>1. \A s \in Servers : entries'[s].gen \in DOMAIN keepers' => keepers'[entries'[s].gen].name = s BY <1>2, <1>4 DEF HubInv, Owned
  <2>2. \A x \in DOMAIN keepers' : keepers'[x].aborted \/ entries'[keepers'[x].name].gen = x
    BY <1>2, <1>4 DEF HubInv, Owned, KeeperTypes
  <2>3. \A x \in DOMAIN keepers' : keepers'[x].aborted => entries'[keepers'[x].name].gen # x
    BY <1>2, <1>4 DEF HubInv, Owned, KeeperTypes
  <2>4. \A x \in S!Live' : S!Runs(entries'[keepers'[x].name].def)
    <3> SUFFICES ASSUME NEW x \in S!Live' PROVE S!Runs(entries'[keepers'[x].name].def) OBVIOUS
    <3>1. x \in DOMAIN keepers /\ x \in S!Live /\ keepers'[x] = keepers[x] BY <1>2 DEF S!Live
    <3>2. keepers[x].name \in Servers BY <3>1 DEF HubInv, KeeperTypes
    <3>3. entries'[keepers'[x].name].def = entries[keepers[x].name].def BY <1>4, <3>1, <3>2
    <3>4. S!Runs(entries[keepers[x].name].def) BY <3>1 DEF HubInv, Owned
    <3> QED BY <3>3, <3>4
  <2>5. \A x \in S!Live' : S!Runs(entries[keepers[x].name].def)' BY <2>4 DEF S!Runs, S!Defined
  <2> QED BY <2>1, <2>2, <2>3, <2>5 DEF Owned
<1>11. S!LinkIsTrue'
  <2>1. \A x \in S!Live : x # g => x \in S!Live' /\ keepers'[x] = keepers[x] BY <1>2, <1>22 DEF S!Live
  <2>2. ASSUME NEW s \in Servers
        PROVE  /\ entries'[s].link \in {"pending", "again", "connected"} => entries'[s].gen \in S!Live'
               /\ entries'[s].link = "pending"   => keepers'[entries'[s].gen].at \in {"token", "refresh", "store", "connect"}
               /\ entries'[s].link = "again"     => keepers'[entries'[s].gen].at \notin {"heed", "over"}
               /\ entries'[s].link = "connected" => keepers'[entries'[s].gen].at = "heed"
    <3>1. CASE s = n BY <1>3, <3>1
    <3>2. CASE s # n
      <4>1. entries'[s] = entries[s] BY <1>3, <3>2
      <4>2. entries[s].gen \in S!Live => entries[s].gen # g
        BY <3>2 DEF HubInv, Owned
      <4> QED BY <4>1, <4>2, <2>1 DEF HubInv, S!LinkIsTrue
    <3> QED BY <3>1, <3>2
  <2> QED BY <2>2 DEF S!LinkIsTrue
<1>12. Heeding'
  <2>1. ASSUME NEW x \in DOMAIN keepers', ~keepers'[x].aborted, keepers'[x].at = "heed", x \in open', ~keepers'[x].notice, ~keepers'[x].missed,
               S!Takes(keepers[x])'
        PROVE  entries'[keepers'[x].name].offered = lists[keepers'[x].name]
    <3>1. keepers'[x] = keepers[x] /\ x \in open /\ x \in DOMAIN keepers /\ x # g BY <1>2, <2>1
    <3>2. S!Takes(keepers[x]) BY <2>1, <3>1, OthersHold
    <3>3. x \in S!Live /\ entries[keepers[x].name].gen = x /\ keepers[x].name \in Servers BY <2>1, <3>1, LiveOwns DEF S!Live
    <3>4. keepers[x].name # n BY <1>1, <3>1, <3>3
    <3>5. entries'[keepers[x].name] = entries[keepers[x].name] BY <1>3, <3>3, <3>4
    <3> QED BY <2>1, <3>1, <3>2, <3>3, <3>5 DEF HubInv, Heeding
  <2>2. \A x \in DOMAIN keepers' : keepers'[x].at # "heed" => x \notin open' BY <1>2 DEF HubInv, Heeding
  <2>3. lists' = [s \in Servers |-> lists'[s]] BY DEF HubInv, Heeding
  <2> QED BY <2>1, <2>2, <2>3 DEF Heeding, S!Live
<1> QED BY <1>7, <1>8, <1>9, <1>10, <1>11, <1>12 DEF HubInv

\* The change of an entry by its keeper.
LEMMA EntrySet ==
  ASSUME HubInv, NEW n \in Servers, NEW link, NEW off
  PROVE  /\ [entries EXCEPT ![n].link = link, ![n].offered = off] =
              [entries EXCEPT ![n] = [def |-> entries[n].def, link |-> link, gen |-> entries[n].gen, offered |-> off]]
         /\ entries = [entries EXCEPT ![n] = [def |-> entries[n].def, link |-> entries[n].link, gen |-> entries[n].gen, offered |-> entries[n].offered]]
<1>1. DOMAIN entries = Servers /\ entries = [s \in Servers |-> entries[s]] BY DEF HubInv, EntryTypes
<1>2. entries[n] = [def |-> entries[n].def, link |-> entries[n].link, gen |-> entries[n].gen, offered |-> entries[n].offered]
  BY DEF HubInv, EntryTypes, AnEntry
<1>3. PICK half : half = [entries EXCEPT ![n].link = link] OBVIOUS
<1>4. half[n] = [def |-> entries[n].def, link |-> link, gen |-> entries[n].gen, offered |-> entries[n].offered] BY <1>1, <1>2, <1>3
<1>5. DOMAIN half = Servers /\ \A s \in Servers : s # n => half[s] = entries[s] BY <1>1, <1>3
<1>6. PICK new : new = [half EXCEPT ![n].offered = off] OBVIOUS
<1>7. new[n] = [def |-> entries[n].def, link |-> link, gen |-> entries[n].gen, offered |-> off] BY <1>4, <1>5, <1>6
<1>8. \A s \in Servers : s # n => new[s] = entries[s] BY <1>5, <1>6
<1>9. [entries EXCEPT ![n].link = link, ![n].offered = off] = new BY <1>3, <1>6
<1>10. new = [s \in Servers |-> new[s]] BY <1>5, <1>6
<1>11. new = [entries EXCEPT ![n] = [def |-> entries[n].def, link |-> link, gen |-> entries[n].gen, offered |-> off]]
  BY <1>1, <1>7, <1>8, <1>10
<1> QED BY <1>1, <1>2, <1>9, <1>11

\* A place at which a live keeper may leave the link of its entry.
Fits(link, at) ==
  /\ link \in Links /\ (at = "over" => link \in {"failed", "needs-auth"})
  /\ link = "pending" => at \in {"token", "refresh", "store", "connect"}
  /\ link = "again" => at # "heed"
  /\ link = "connected" => at = "heed"

\* A step of a keeper: it is gone when it was ended, and otherwise goes on or gives up, with its entry.
LEMMA KeeperMoves ==
  ASSUME HubInv, Ages, ActTypes', ActsHold', UNCHANGED <<gens, lists>>, NEW g \in DOMAIN keepers,
         NEW k, NEW link, NEW off,
         AKeeper(k), k.name = keepers[g].name, k.aborted = keepers[g].aborted, k.at \in Places \cup {"over"},
         k.token \in 0 .. valid'[k.name].login, S!Goes(g, k),
         S!Set(g, link, off) \/ (UNCHANGED entries /\ link = entries[k.name].link /\ off = entries[k.name].offered),
         ~keepers[g].aborted => Fits(link, k.at),
         open' \subseteq open \cup {g}, keepers[g].aborted => open' \subseteq open, k.at # "heed" => g \notin open',
         k.at = "heed" /\ g \in open' /\ ~k.notice /\ ~k.missed /\ (k.run # "remote" \/ (k.token = valid'[k.name].login /\ ~valid'[k.name].ended)) =>
           off = lists[k.name]
  PROVE  HubInv'
<1>1. CASE keepers[g].aborted
  <2>1. ~S!Own(g) BY <1>1, DeadOwnsNot
  <2>2. UNCHANGED entries BY <2>1 DEF S!Set
  <2>3. keepers' = [x \in DOMAIN keepers \ {g} |-> keepers[x]] BY <1>1 DEF S!Goes
  <2>4. open' \subseteq open BY <1>1
  <2> QED BY <1>1, <2>2, <2>3, <2>4, KeeperDropped
<1>2. CASE ~keepers[g].aborted
  <2>1. S!Own(g) /\ k.name \in Servers /\ entries[k.name].gen = g BY <1>2, LiveOwns
  <2>2. PICK e : e = [def |-> entries[k.name].def, link |-> link, gen |-> entries[k.name].gen, offered |-> off] OBVIOUS
  <2>3. entries' = [entries EXCEPT ![k.name] = e]
    <3>1. CASE S!Set(g, link, off)
      <4>1. entries' = [entries EXCEPT ![k.name].link = link, ![k.name].offered = off]
        BY <2>1, <3>1 DEF S!Set
      <4>2. PICK n : n = k.name OBVIOUS
      <4>3. entries' = [entries EXCEPT ![n].link = link, ![n].offered = off] /\ n \in Servers BY <2>1, <4>1, <4>2
      <4>4. [entries EXCEPT ![n].link = link, ![n].offered = off] =
              [entries EXCEPT ![n] = [def |-> entries[n].def, link |-> link, gen |-> entries[n].gen, offered |-> off]]
        BY <4>3, EntrySet
      <4>5. entries' = [entries EXCEPT ![n] = e] BY <2>2, <4>2, <4>3, <4>4
      <4> QED BY <4>2, <4>5
    <3>2. CASE UNCHANGED entries /\ link = entries[k.name].link /\ off = entries[k.name].offered BY <2>1, <2>2, <3>2, EntrySet
    <3> QED BY <3>1, <3>2
  <2>4. AnEntry(e) /\ e.def = entries[k.name].def /\ e.gen = g /\ e.link = link /\ e.offered = off BY <2>1, <2>2 DEF AnEntry
  <2>5. CASE k.at = "over"
    <3>1. keepers' = [x \in DOMAIN keepers \ {g} |-> keepers[x]] BY <2>5 DEF S!Goes
    <3>2. g \notin open' /\ open' \subseteq open BY <2>5
    <3>3. e.link \in {"failed", "needs-auth"} BY <1>2, <2>4, <2>5 DEF Fits
    <3>4. PICK n : n = keepers[g].name OBVIOUS
    <3>5. entries' = [entries EXCEPT ![n] = e] /\ e.def = entries[n].def BY <2>3, <2>4, <3>4
    <3> QED BY <1>2, <2>4, <3>1, <3>2, <3>3, <3>4, <3>5, KeeperOver
  <2>6. CASE k.at # "over"
    <3>1. keepers' = [keepers EXCEPT ![g] = k] BY <1>2, <2>1, <2>6 DEF S!Goes
    <3>2. k.at \in Places BY <2>6
    <3>3. e.link \in Links BY <1>2, <2>4 DEF Fits
    <3>4. /\ e.link = "pending" => k.at \in {"token", "refresh", "store", "connect"}
          /\ e.link = "again" => k.at # "heed"
          /\ e.link = "connected" => k.at = "heed"
      BY <1>2, <2>4 DEF Fits
    <3>5. k.at = "heed" /\ g \in open' /\ ~k.notice /\ ~k.missed
            /\ (k.run # "remote" \/ (k.token = valid'[k.name].login /\ ~valid'[k.name].ended)) => e.offered = lists[k.name]
      BY <2>4
    <3> QED BY <1>2, <2>3, <2>4, <3>1, <3>2, <3>3, <3>4, <3>5, KeeperGoesOn
  <2> QED BY <2>5, <2>6
<1> QED BY <1>1, <1>2

\* What a step of a keeper reads of it.
LEMMA KeeperFacts ==
  ASSUME HubInv, NEW g \in DOMAIN keepers
  PROVE  /\ AKeeper(keepers[g]) /\ keepers[g].name \in Servers /\ keepers[g].at \in Places
         /\ keepers[g].token \in 0 .. valid[keepers[g].name].login /\ keepers[g].token \in Nat
         /\ valid[keepers[g].name].login \in Nat
         /\ vault[keepers[g].name] \in 0 .. valid[keepers[g].name].login
         /\ entries[keepers[g].name].link \in Links
<1>1. keepers[g].name \in Servers BY DEF HubInv, KeeperTypes
<1> QED BY <1>1 DEF HubInv, KeeperTypes, Tokened, EntryTypes

\* The link of the entry of a live keeper fits its place.
LEMMA LinkFits == ASSUME HubInv, NEW g \in DOMAIN keepers, ~keepers[g].aborted
                  PROVE  Fits(entries[keepers[g].name].link, keepers[g].at)
<1>1. keepers[g].name \in Servers /\ entries[keepers[g].name].gen = g BY LiveOwns
<1>2. keepers[g].at # "over" BY DEF HubInv, KeeperTypes, Places
<1>3. entries[keepers[g].name].link \in Links BY <1>1 DEF HubInv, EntryTypes
<1> QED BY <1>1, <1>2, <1>3 DEF HubInv, S!LinkIsTrue, Fits

LEMMA TokensKept == ASSUME HubInv, NEW g \in DOMAIN keepers, S!Tokens(g) PROVE HubInv'
<1>1. UNCHANGED <<entries, gens, lists, acts, vault, valid, open>> BY DEF S!Tokens, S!world
<1>2. PICK near \in BOOLEAN :
        S!Goes(g, [keepers[g] EXCEPT !.held = IF near THEN vault[keepers[g].name] ELSE 0, !.token = vault[keepers[g].name],
                                     !.at = IF near THEN "refresh" ELSE "connect"])
  BY DEF S!Tokens
<1>3. PICK q, a, v, p : q = keepers[g] /\ a = (IF near THEN vault[keepers[g].name] ELSE 0) /\ v = vault[keepers[g].name]
                        /\ p = (IF near THEN "refresh" ELSE "connect") OBVIOUS
<1>4. PICK k : k = [q EXCEPT !.held = a, !.token = v, !.at = p] OBVIOUS
<1>45. AKeeper(q) BY <1>3, KeeperFacts
<1>5. AKeeper(k) /\ k.name = q.name /\ k.run = q.run /\ k.aborted = q.aborted /\ k.at = p /\ k.token = v
  BY <1>4, <1>45 DEF AKeeper
<1>6. S!Goes(g, k) BY <1>2, <1>3, <1>4
<1>7. Ages BY <1>1, AgesAlike
<1>8. ActTypes' /\ ActsHold' BY <1>1, <1>7, HoldsOn
<1>9. keepers[g].at = "token" BY DEF S!Tokens, S!At
<1>10. k.at \in Places \cup {"over"} /\ k.at \in {"refresh", "connect"} /\ k.token \in 0 .. valid'[k.name].login
  BY <1>1, <1>3, <1>5, KeeperFacts DEF Places
<1>11. PICK link, off : link = entries[k.name].link /\ off = entries[k.name].offered OBVIOUS
<1>12. ~keepers[g].aborted => Fits(link, k.at)
  BY <1>3, <1>5, <1>9, <1>10, <1>11, LinkFits DEF Fits
<1>13. k.at # "heed" => g \notin open' BY <1>1, <1>9 DEF HubInv, Heeding
<1>14. k.name = keepers[g].name /\ k.aborted = keepers[g].aborted BY <1>3, <1>5
<1>15. UNCHANGED entries /\ link = entries[k.name].link /\ off = entries[k.name].offered BY <1>1, <1>11
<1>16. open' \subseteq open \cup {g} /\ (keepers[g].aborted => open' \subseteq open) BY <1>1
<1>17. k.at # "heed" BY <1>10
<1>18. UNCHANGED <<gens, lists>> BY <1>1
<1> QED BY <1>5, <1>6, <1>7, <1>8, <1>10, <1>12, <1>13, <1>14, <1>15, <1>16, <1>17, <1>18, KeeperMoves

LEMMA RefreshesKept == ASSUME HubInv, NEW g \in DOMAIN keepers, S!Refreshes(g) PROVE HubInv'
<1>1. UNCHANGED <<entries, gens, lists, acts, vault, open>> BY DEF S!Refreshes
<1>2. PICK q, s, ok, v, p : q = keepers[g] /\ s = keepers[g].name /\ ok = (keepers[g].held = valid[s].login)
                            /\ v = (IF ok THEN keepers[g].held + 1 ELSE 0) /\ p = (IF ok THEN "store" ELSE "connect") OBVIOUS
<1>3. PICK k : k = [q EXCEPT !.token = v, !.at = p] OBVIOUS
<1>4. s \in Servers /\ AKeeper(q) /\ valid[s].login \in Nat /\ keepers[g].at = "refresh"
  BY <1>2, KeeperFacts DEF S!Refreshes, S!At
<1>5. AKeeper(k) /\ k.name = q.name /\ k.run = q.run /\ k.aborted = q.aborted /\ k.at = p /\ k.token = v
  BY <1>3, <1>4 DEF AKeeper
<1>6. S!Goes(g, k) BY <1>2, <1>3 DEF S!Refreshes
<1>7. S!Refresh(s, keepers[g].held) BY <1>2 DEF S!Refreshes
<1>8. PICK had : had = keepers[g].held OBVIOUS
<1>9. Ages BY <1>4, <1>7, <1>8, AgesRefreshed
<1>10. ActTypes' /\ ActsHold' BY <1>1, <1>9, HoldsOn
<1>11. v \in 0 .. valid'[s].login
  <2>1. valid'[s].login \in Nat BY <1>4, <1>9 DEF Ages
  <2>2. CASE ~ok BY <1>2, <2>1, <2>2
  <2>3. CASE ok
    <3>1. valid' = [valid EXCEPT ![s] = [login |-> valid[s].login + 1, ended |-> FALSE]] BY <1>2, <1>7, <2>3 DEF S!Refresh
    <3>2. s \in DOMAIN valid BY <1>4 DEF HubInv, Tokened
    <3>3. valid'[s].login = valid[s].login + 1 BY <3>1, <3>2
    <3>4. keepers[g].held = valid[s].login /\ v = keepers[g].held + 1 BY <1>2, <2>3
    <3>5. v = valid'[s].login BY <3>3, <3>4
    <3> QED BY <2>1, <3>5
  <2> QED BY <2>2, <2>3
<1>12. k.at \in {"store", "connect"} BY <1>2, <1>5
<1>13. k.at \in Places \cup {"over"} /\ k.token \in 0 .. valid'[k.name].login BY <1>2, <1>5, <1>11, <1>12 DEF Places
<1>14. PICK link, off : link = entries[k.name].link /\ off = entries[k.name].offered OBVIOUS
<1>15. k.name = keepers[g].name /\ k.aborted = keepers[g].aborted BY <1>2, <1>5
<1>16. ~keepers[g].aborted => Fits(link, k.at) BY <1>4, <1>12, <1>14, <1>15, LinkFits DEF Fits
<1>17. k.at # "heed" => g \notin open' BY <1>1, <1>4 DEF HubInv, Heeding
<1>18. UNCHANGED entries /\ link = entries[k.name].link /\ off = entries[k.name].offered BY <1>1, <1>14
<1>19. open' \subseteq open \cup {g} /\ (keepers[g].aborted => open' \subseteq open) BY <1>1
<1>20. k.at # "heed" /\ UNCHANGED <<gens, lists>> BY <1>1, <1>12
<1> QED BY <1>5, <1>6, <1>9, <1>10, <1>13, <1>15, <1>16, <1>17, <1>18, <1>19, <1>20, KeeperMoves

LEMMA StoresKept == ASSUME HubInv, NEW g \in DOMAIN keepers, S!Stores(g) PROVE HubInv'
<1>1. UNCHANGED <<entries, gens, lists, acts, valid, open>> BY DEF S!Stores, S!world
<1>2. PICK q, n : q = keepers[g] /\ n = 0 OBVIOUS
<1>3. PICK k : k = [q EXCEPT !.held = n, !.at = "connect"] OBVIOUS
<1>4. AKeeper(q) /\ keepers[g].at = "store" BY <1>2, KeeperFacts DEF S!Stores, S!At
<1>5. AKeeper(k) /\ k.name = q.name /\ k.run = q.run /\ k.aborted = q.aborted /\ k.at = "connect" /\ k.token = q.token
  BY <1>3, <1>4 DEF AKeeper
<1>6. S!Goes(g, k) BY <1>2, <1>3 DEF S!Stores
<1>7. Ages BY <1>1, AgesAlike
<1>8. ActTypes' BY <1>1 DEF HubInv, ActTypes
<1>9. ActsHold'
  <2>1. CASE UNCHANGED vault BY <1>1, <1>7, <2>1, HoldsOn
  <2>2. CASE vault' = [vault EXCEPT ![keepers[g].name] = keepers[g].token]
    <3>1. \A s \in Servers : vault'[s] \in 0 .. valid[s].login BY <2>2, KeeperFacts DEF HubInv, Tokened
    <3>2. vault' = [s \in Servers |-> vault'[s]] BY <2>2 DEF HubInv, Tokened
    <3> QED BY <1>1, <3>1, <3>2 DEF HubInv, Tokened, ActsHold
  <2> QED BY <2>1, <2>2 DEF S!Stores
<1>10. k.at \in Places \cup {"over"} /\ k.token \in 0 .. valid'[k.name].login BY <1>1, <1>2, <1>5, KeeperFacts DEF Places
<1>11. PICK link, off : link = entries[k.name].link /\ off = entries[k.name].offered OBVIOUS
<1>12. k.name = keepers[g].name /\ k.aborted = keepers[g].aborted BY <1>2, <1>5
<1>13. ~keepers[g].aborted => Fits(link, k.at) BY <1>4, <1>5, <1>11, <1>12, LinkFits DEF Fits
<1>14. k.at # "heed" => g \notin open' BY <1>1, <1>4 DEF HubInv, Heeding
<1>15. UNCHANGED entries /\ link = entries[k.name].link /\ off = entries[k.name].offered BY <1>1, <1>11
<1>16. open' \subseteq open \cup {g} /\ (keepers[g].aborted => open' \subseteq open) BY <1>1
<1>17. k.at # "heed" /\ UNCHANGED <<gens, lists>> BY <1>1, <1>5
<1> QED BY <1>5, <1>6, <1>7, <1>8, <1>9, <1>10, <1>12, <1>13, <1>14, <1>15, <1>16, <1>17, KeeperMoves

LEMMA ConnectsKept == ASSUME HubInv, NEW g \in DOMAIN keepers, S!Connects(g) PROVE HubInv'
<1>1. UNCHANGED <<gens, lists, acts, valid, vault>> BY DEF S!Connects
<1>2. PICK q, n, f, link, off : q = keepers[g] /\ n = 0 /\ f = FALSE /\ link = "connected" /\ off = lists[keepers[g].name] OBVIOUS
<1>3. PICK k : k = [q EXCEPT !.at = "heed", !.failures = n, !.missed = f] OBVIOUS
<1>4. AKeeper(q) /\ keepers[g].at = "connect" BY <1>2, KeeperFacts DEF S!Connects, S!At
<1>5. AKeeper(k) /\ k.name = q.name /\ k.run = q.run /\ k.aborted = q.aborted /\ k.at = "heed" /\ k.token = q.token
  BY <1>3, <1>4 DEF AKeeper
<1>6. S!Goes(g, k) BY <1>2, <1>3 DEF S!Connects
<1>7. Ages BY <1>1, AgesAlike
<1>8. ActTypes' /\ ActsHold' BY <1>1, <1>7, HoldsOn
<1>9. k.at \in Places \cup {"over"} /\ k.token \in 0 .. valid'[k.name].login BY <1>1, <1>2, <1>5, KeeperFacts DEF Places
<1>10. ~keepers[g].aborted => Fits(link, k.at) BY <1>2, <1>5 DEF Fits, Links
<1>11. S!Set(g, link, off) BY <1>2 DEF S!Connects
<1>12. k.name = keepers[g].name /\ k.aborted = keepers[g].aborted BY <1>2, <1>5
<1>13. open' \subseteq open \cup {g} /\ (keepers[g].aborted => open' \subseteq open) BY DEF S!Connects
<1>14. off = lists[k.name] BY <1>2, <1>5
<1>15. UNCHANGED <<gens, lists>> BY <1>1
<1> QED BY <1>5, <1>6, <1>7, <1>8, <1>9, <1>10, <1>11, <1>12, <1>13, <1>14, <1>15, KeeperMoves

LEMMA AsksLoginKept == ASSUME HubInv, NEW g \in DOMAIN keepers, S!AsksLogin(g) PROVE HubInv'
<1>1. UNCHANGED <<gens, lists, acts, valid, vault, open>> BY DEF S!AsksLogin, S!world
<1>2. PICK q, link, off : q = keepers[g] /\ link = "needs-auth" /\ off = S!Offered(g) OBVIOUS
<1>3. PICK k : k = [q EXCEPT !.at = "over"] OBVIOUS
<1>4. AKeeper(q) /\ keepers[g].at = "connect" BY <1>2, KeeperFacts DEF S!AsksLogin, S!At
<1>5. AKeeper(k) /\ k.name = q.name /\ k.run = q.run /\ k.aborted = q.aborted /\ k.at = "over" /\ k.token = q.token
  BY <1>3, <1>4 DEF AKeeper
<1>6. S!Goes(g, k) BY <1>2, <1>3 DEF S!AsksLogin
<1>7. Ages BY <1>1, AgesAlike
<1>8. ActTypes' /\ ActsHold' BY <1>1, <1>7, HoldsOn
<1>9. k.at \in Places \cup {"over"} /\ k.token \in 0 .. valid'[k.name].login BY <1>1, <1>2, <1>5, KeeperFacts DEF Places
<1>10. ~keepers[g].aborted => Fits(link, k.at) BY <1>2, <1>5 DEF Fits, Links
<1>11. S!Set(g, link, off) BY <1>2 DEF S!AsksLogin
<1>12. k.name = keepers[g].name /\ k.aborted = keepers[g].aborted BY <1>2, <1>5
<1>13. open' \subseteq open \cup {g} /\ (keepers[g].aborted => open' \subseteq open) BY <1>1
<1>14. k.at # "heed" /\ (k.at # "heed" => g \notin open') BY <1>1, <1>4, <1>5 DEF HubInv, Heeding
<1>15. UNCHANGED <<gens, lists>> BY <1>1
<1> QED BY <1>5, <1>6, <1>7, <1>8, <1>9, <1>10, <1>11, <1>12, <1>13, <1>14, <1>15, KeeperMoves

LEMMA FailsKept == ASSUME HubInv, NEW g \in DOMAIN keepers, S!Fails(g) PROVE HubInv'
<1>1. UNCHANGED <<gens, lists, acts, valid, vault, open>> BY DEF S!Fails, S!world
<1>2. PICK q, off, n : q = keepers[g] /\ off = S!Offered(g) /\ n = q.failures + 1 OBVIOUS
<1>3. AKeeper(q) /\ keepers[g].at = "connect" BY <1>2, KeeperFacts DEF S!Fails, S!At
<1>4. Ages BY <1>1, AgesAlike
<1>5. ActTypes' /\ ActsHold' BY <1>1, <1>4, HoldsOn
<1>6. PICK link, k : /\ AKeeper(k) /\ k.name = q.name /\ k.aborted = q.aborted /\ k.token = q.token
                     /\ Fits(link, k.at) /\ k.at \in {"over", "wait"} /\ S!Goes(g, k) /\ S!Set(g, link, off)
  <2>1. CASE S!Set(g, "failed", S!Offered(g)) /\ S!Goes(g, [keepers[g] EXCEPT !.at = "over"])
    <3>1. PICK k : k = [q EXCEPT !.at = "over"] OBVIOUS
    <3>2. AKeeper(k) /\ k.name = q.name /\ k.aborted = q.aborted /\ k.token = q.token /\ k.at = "over" BY <1>3, <3>1 DEF AKeeper
    <3>3. S!Goes(g, k) /\ S!Set(g, "failed", off) BY <1>2, <2>1, <3>1
    <3>4. Fits("failed", k.at) BY <3>2 DEF Fits, Links
    <3> QED BY <3>2, <3>3, <3>4
  <2>2. CASE S!Set(g, "again", S!Offered(g)) /\ S!Goes(g, [keepers[g] EXCEPT !.at = "wait", !.failures = @ + 1])
    <3>1. PICK k : k = [q EXCEPT !.at = "wait", !.failures = n] OBVIOUS
    <3>2. AKeeper(k) /\ k.name = q.name /\ k.aborted = q.aborted /\ k.token = q.token /\ k.at = "wait" BY <1>3, <3>1 DEF AKeeper
    <3>3. S!Goes(g, k) /\ S!Set(g, "again", off) BY <1>2, <2>2, <3>1
    <3>4. Fits("again", k.at) BY <3>2 DEF Fits, Links
    <3> QED BY <3>2, <3>3, <3>4
  <2> QED BY <2>1, <2>2 DEF S!Fails, S!Failed
<1>7. k.name = keepers[g].name /\ k.aborted = keepers[g].aborted BY <1>2, <1>6
<1>8. k.at \in Places \cup {"over"} /\ k.token \in 0 .. valid'[k.name].login BY <1>1, <1>2, <1>6, KeeperFacts DEF Places
<1>9. open' \subseteq open \cup {g} /\ (keepers[g].aborted => open' \subseteq open) BY <1>1
<1>10. k.at # "heed" /\ (k.at # "heed" => g \notin open') BY <1>1, <1>3, <1>6 DEF HubInv, Heeding
<1>11. UNCHANGED <<gens, lists>> BY <1>1
<1> QED BY <1>4, <1>5, <1>6, <1>7, <1>8, <1>9, <1>10, <1>11, KeeperMoves

LEMMA WaitedKept == ASSUME HubInv, NEW g \in DOMAIN keepers, S!Waited(g) PROVE HubInv'
<1>1. UNCHANGED <<entries, gens, lists, acts, valid, vault, open>> BY DEF S!Waited, S!world
<1>2. PICK q : q = keepers[g] OBVIOUS
<1>3. PICK k : k = [q EXCEPT !.at = "token"] OBVIOUS
<1>4. AKeeper(q) /\ keepers[g].at = "wait" BY <1>2, KeeperFacts DEF S!Waited, S!At
<1>5. AKeeper(k) /\ k.name = q.name /\ k.run = q.run /\ k.aborted = q.aborted /\ k.at = "token" /\ k.token = q.token
  BY <1>3, <1>4 DEF AKeeper
<1>6. S!Goes(g, k) BY <1>2, <1>3 DEF S!Waited
<1>7. Ages BY <1>1, AgesAlike
<1>8. ActTypes' /\ ActsHold' BY <1>1, <1>7, HoldsOn
<1>9. k.at \in Places \cup {"over"} /\ k.token \in 0 .. valid'[k.name].login BY <1>1, <1>2, <1>5, KeeperFacts DEF Places
<1>10. PICK link, off : link = entries[k.name].link /\ off = entries[k.name].offered OBVIOUS
<1>11. k.name = keepers[g].name /\ k.aborted = keepers[g].aborted BY <1>2, <1>5
<1>12. ~keepers[g].aborted => Fits(link, k.at) BY <1>4, <1>5, <1>10, <1>11, LinkFits DEF Fits
<1>13. UNCHANGED entries /\ link = entries[k.name].link /\ off = entries[k.name].offered BY <1>1, <1>10
<1>14. open' \subseteq open \cup {g} /\ (keepers[g].aborted => open' \subseteq open) BY <1>1
<1>15. k.at # "heed" /\ (k.at # "heed" => g \notin open') BY <1>1, <1>4, <1>5 DEF HubInv, Heeding
<1>16. UNCHANGED <<gens, lists>> BY <1>1
<1> QED BY <1>5, <1>6, <1>7, <1>8, <1>9, <1>11, <1>12, <1>13, <1>14, <1>15, <1>16, KeeperMoves

LEMMA RelistsKept == ASSUME HubInv, NEW g \in DOMAIN keepers, S!Relists(g) PROVE HubInv'
<1>1. UNCHANGED <<gens, lists, acts, valid, vault, open>> BY DEF S!Relists, S!world
<1>2. PICK q, n, t : q = keepers[g] /\ n = FALSE /\ t = TRUE OBVIOUS
<1>3. AKeeper(q) /\ keepers[g].at = "heed" BY <1>2, KeeperFacts DEF S!Relists, S!At
<1>4. Ages BY <1>1, AgesAlike
<1>5. ActTypes' /\ ActsHold' BY <1>1, <1>4, HoldsOn
<1>6. PICK link : link = entries[q.name].link OBVIOUS
<1>7. open' \subseteq open \cup {g} /\ (keepers[g].aborted => open' \subseteq open) BY <1>1
<1>8. UNCHANGED <<gens, lists>> BY <1>1
<1>9. ASSUME NEW k, AKeeper(k), k.name = q.name, k.aborted = q.aborted, k.at = "heed", k.token = q.token
      PROVE  /\ k.at \in Places \cup {"over"} /\ k.token \in 0 .. valid'[k.name].login
             /\ k.name = keepers[g].name /\ k.aborted = keepers[g].aborted /\ (~keepers[g].aborted => Fits(link, k.at))
  <2>1. k.at \in Places \cup {"over"} /\ k.token \in 0 .. valid'[k.name].login BY <1>1, <1>2, <1>9, KeeperFacts DEF Places
  <2>2. ~keepers[g].aborted => Fits(link, k.at) BY <1>2, <1>3, <1>6, <1>9, LinkFits
  <2> QED BY <1>2, <1>9, <2>1, <2>2
<1>10. CASE S!Set(g, entries[keepers[g].name].link, lists[keepers[g].name]) /\ S!Goes(g, [q EXCEPT !.notice = n, !.missed = n])
  <2>1. PICK k : k = [q EXCEPT !.notice = n, !.missed = n] OBVIOUS
  <2>2. AKeeper(k) /\ k.name = q.name /\ k.aborted = q.aborted /\ k.at = "heed" /\ k.token = q.token
    BY <1>2, <1>3, <2>1 DEF AKeeper
  <2>3. PICK off : off = lists[keepers[g].name] OBVIOUS
  <2>4. S!Set(g, link, off) /\ off = lists[k.name] /\ S!Goes(g, k) BY <1>2, <1>6, <1>10, <2>1, <2>2, <2>3
  <2>5. k.at \in Places \cup {"over"} /\ k.token \in 0 .. valid'[k.name].login
        /\ k.name = keepers[g].name /\ k.aborted = keepers[g].aborted /\ (~keepers[g].aborted => Fits(link, k.at))
    BY <1>9, <2>2
  <2> QED BY <1>4, <1>5, <1>7, <1>8, <2>2, <2>4, <2>5, KeeperMoves
<1>11. CASE UNCHANGED entries /\ S!Goes(g, [q EXCEPT !.notice = n, !.missed = t])
  <2>1. PICK k : k = [q EXCEPT !.notice = n, !.missed = t] OBVIOUS
  <2>2. AKeeper(k) /\ k.name = q.name /\ k.aborted = q.aborted /\ k.at = "heed" /\ k.token = q.token /\ k.missed
    BY <1>2, <1>3, <2>1 DEF AKeeper
  <2>3. PICK off : off = entries[k.name].offered OBVIOUS
  <2>4. UNCHANGED entries /\ link = entries[k.name].link /\ off = entries[k.name].offered /\ S!Goes(g, k)
    BY <1>6, <1>11, <2>1, <2>2, <2>3
  <2>5. k.at \in Places \cup {"over"} /\ k.token \in 0 .. valid'[k.name].login
        /\ k.name = keepers[g].name /\ k.aborted = keepers[g].aborted /\ (~keepers[g].aborted => Fits(link, k.at))
    BY <1>9, <2>2
  <2> QED BY <1>4, <1>5, <1>7, <1>8, <2>2, <2>4, <2>5, KeeperMoves
<1> QED BY <1>2, <1>10, <1>11 DEF S!Relists

LEMMA EndedKept == ASSUME HubInv, NEW g \in DOMAIN keepers, S!Ended(g) PROVE HubInv'
<1>1. UNCHANGED <<gens, lists, acts, valid, vault, open>> BY DEF S!Ended, S!world
<1>2. PICK q, n, link, off : q = keepers[g] /\ n = FALSE /\ link = "again" /\ off = S!Offered(g) OBVIOUS
<1>3. PICK k : k = [q EXCEPT !.at = "wait", !.quiet = n] OBVIOUS
<1>4. AKeeper(q) /\ g \notin open BY <1>2, KeeperFacts DEF S!Ended
<1>5. AKeeper(k) /\ k.name = q.name /\ k.run = q.run /\ k.aborted = q.aborted /\ k.at = "wait" /\ k.token = q.token
  BY <1>3, <1>4 DEF AKeeper
<1>6. S!Goes(g, k) BY <1>2, <1>3 DEF S!Ended
<1>7. Ages BY <1>1, AgesAlike
<1>8. ActTypes' /\ ActsHold' BY <1>1, <1>7, HoldsOn
<1>9. k.at \in Places \cup {"over"} /\ k.token \in 0 .. valid'[k.name].login BY <1>1, <1>2, <1>5, KeeperFacts DEF Places
<1>10. ~keepers[g].aborted => Fits(link, k.at) BY <1>2, <1>5 DEF Fits, Links
<1>11. S!Set(g, link, off) BY <1>2 DEF S!Ended
<1>12. k.name = keepers[g].name /\ k.aborted = keepers[g].aborted BY <1>2, <1>5
<1>13. open' \subseteq open \cup {g} /\ (keepers[g].aborted => open' \subseteq open) BY <1>1
<1>14. k.at # "heed" /\ (k.at # "heed" => g \notin open') BY <1>1, <1>4, <1>5
<1>15. UNCHANGED <<gens, lists>> BY <1>1
<1> QED BY <1>5, <1>6, <1>7, <1>8, <1>9, <1>10, <1>11, <1>12, <1>13, <1>14, <1>15, KeeperMoves

LEMMA GoneKept == ASSUME HubInv, NEW g \in DOMAIN keepers, S!Gone(g) PROVE HubInv'
<1>1. UNCHANGED <<entries, gens, lists, acts, valid, vault>> /\ open' \subseteq open BY DEF S!Gone
<1>2. keepers[g].aborted /\ keepers' = [x \in DOMAIN keepers \ {g} |-> keepers[x]] BY DEF S!Gone
<1>3. Ages BY <1>1, AgesAlike
<1>4. ActTypes' /\ ActsHold' BY <1>1, <1>3, HoldsOn
<1> QED BY <1>1, <1>2, <1>3, <1>4, KeeperDropped

LEMMA KeeperKept == ASSUME HubInv, NEW g \in 1 .. gens, S!KeeperSteps(g) \/ S!Fails(g) PROVE HubInv'
<1>1. g \in DOMAIN keepers
  BY DEF S!KeeperSteps, S!Tokens, S!Refreshes, S!Stores, S!Connects, S!AsksLogin, S!Fails, S!Waited, S!Relists, S!Ended, S!Gone, S!At
<1> QED BY <1>1, TokensKept, RefreshesKept, StoresKept, ConnectsKept, AsksLoginKept, FailsKept, WaitedKept, RelistsKept, EndedKept,
          GoneKept DEF S!KeeperSteps

-----------------------------------------------------------------------------
(* Servers launched again.                                                  *)

LEMMA SameSize == \A Z : S!Cardinality(Z) = Cardinality(Z)
BY DEF S!Cardinality, Cardinality

LEMMA ServersAreFinite == IsFiniteSet(Servers)
BY OutsideAssumption DEF S!ServersAssumption, S!IsFiniteSet, IsFiniteSet

\* An order of servers gives each a place of its own.
LEMMA OrderIs ==
  ASSUME NEW ss, IsFiniteSet(ss)
  PROVE  /\ S!Cardinality(ss) \in Nat /\ S!Order(ss) \in [ss -> 1 .. S!Cardinality(ss)]
         /\ \A s, t \in ss : S!Order(ss)[s] = S!Order(ss)[t] => s = t
<1>1. PICK c : c = Cardinality(ss) OBVIOUS
<1>2. c \in Nat /\ ExistsBijection(1 .. c, ss) BY <1>1, FS_CardinalityType
<1>3. ExistsBijection(ss, 1 .. c) BY <1>2, Fun_ExistsBijSymmetric
<1>4. PICK f \in [ss -> 1 .. c] : \A s, t \in ss : f[s] = f[t] => s = t
  BY <1>3 DEF ExistsBijection, Bijection, Injection, IsInjective
<1>5. S!Cardinality(ss) = c BY <1>1, SameSize
<1>6. \E h \in [ss -> 1 .. S!Cardinality(ss)] : \A s, t \in ss : h[s] = h[t] => s = t BY <1>4, <1>5
<1>7. S!Order(ss) \in [ss -> 1 .. S!Cardinality(ss)] /\ \A s, t \in ss : S!Order(ss)[s] = S!Order(ss)[t] => s = t
  BY <1>6 DEF S!Order
<1> QED BY <1>2, <1>5, <1>7

\* The keepers once some started.
LEMMA StartedAre ==
  ASSUME NEW ks, NEW ended, NEW es, NEW ss, \A s, t \in ss : es[s].gen = es[t].gen => s = t, NEW new, new = S!Started(ks, ended, es, ss)
  PROVE  /\ DOMAIN new = DOMAIN ks \cup {es[s].gen : s \in ss} /\ new = [g \in DOMAIN new |-> new[g]]
         /\ \A s \in ss : new[es[s].gen] = S!Keeper(s, es[s].def)
         /\ \A g \in DOMAIN ks : g \notin {es[s].gen : s \in ss} =>
              new[g] = IF g \in ended THEN [ks[g] EXCEPT !.aborted = TRUE] ELSE ks[g]
<1> DEFINE started == {es[s].gen : s \in ss}
           of(g) == CHOOSE s \in ss : es[s].gen = g
<1>1. new = [g \in DOMAIN ks \cup started |-> IF g \in started THEN S!Keeper(of(g), es[of(g)].def) ELSE S!Aborted(ks, ended)[g]]
  BY DEF S!Started
<1>2. \A s \in ss : of(es[s].gen) = s OBVIOUS
<1>3. DOMAIN new = DOMAIN ks \cup started BY <1>1
<1>4. ASSUME NEW s \in ss PROVE new[es[s].gen] = S!Keeper(s, es[s].def)
  <2>1. es[s].gen \in started OBVIOUS
  <2>2. new[es[s].gen] = S!Keeper(of(es[s].gen), es[of(es[s].gen)].def) BY <1>1, <2>1
  <2> QED BY <1>2, <2>2
<1>5. \A g \in DOMAIN ks : g \notin started => new[g] = S!Aborted(ks, ended)[g] BY <1>1
<1>6. \A g \in DOMAIN ks : S!Aborted(ks, ended)[g] = IF g \in ended THEN [ks[g] EXCEPT !.aborted = TRUE] ELSE ks[g]
  BY DEF S!Aborted
<1> QED BY <1>1, <1>3, <1>4, <1>5, <1>6

\* Entries that change, some of them launched again, and the keepers that they had, ended.
Relaunch(ch, ru, put) ==
  /\ ch \subseteq Servers /\ ru \subseteq ch
  /\ put = [s \in Servers |-> put[s]] /\ \A s \in Servers : AnEntry(put[s])
  /\ \A s \in Servers \ ch : put[s] = entries[s]
  /\ \A s \in ch \ ru : put[s].gen = 0 /\ put[s].link \in Links \ {"pending", "again", "connected"}
  /\ \A s \in ru : S!Runs(put[s].def)
  /\ entries' = S!Launching(put, gens, ru) /\ gens' = gens + S!Cardinality(ru)
  /\ keepers' = S!Started(keepers, {entries[s].gen : s \in ch}, S!Launching(put, gens, ru), ru)

\* What launched entries are.
LEMMA RelaunchEntries ==
  ASSUME HubInv, NEW ch, NEW ru, NEW put, Relaunch(ch, ru, put)
  PROVE  /\ gens' \in Nat /\ gens <= gens' /\ entries' = [s \in Servers |-> entries'[s]]
         /\ \A s \in Servers : AnEntry(entries'[s]) /\ entries'[s].def = put[s].def
         /\ \A s \in Servers \ ru : entries'[s] = put[s]
         /\ \A s \in ru : entries'[s].link = "pending" /\ entries'[s].gen \in gens + 1 .. gens'
         /\ \A s, t \in ru : entries'[s].gen = entries'[t].gen => s = t
<1>1. ru \subseteq Servers /\ IsFiniteSet(ru) BY ServersAreFinite, FS_Subset DEF Relaunch
<1>2. PICK c, ord : c = S!Cardinality(ru) /\ ord = S!Order(ru) OBVIOUS
<1>3. c \in Nat /\ ord \in [ru -> 1 .. c] /\ \A s, t \in ru : ord[s] = ord[t] => s = t BY <1>1, <1>2, OrderIs
<1>4. gens \in Nat /\ gens' = gens + c BY <1>2 DEF HubInv, EntryTypes, Relaunch
<1>5. entries' = [s \in Servers |-> IF s \in ru THEN [put[s] EXCEPT !.link = "pending", !.gen = gens + ord[s]] ELSE put[s]]
  BY <1>2 DEF Relaunch, S!Launching
<1>6. \A s \in Servers \ ru : entries'[s] = put[s] BY <1>5
<1>7. ASSUME NEW s \in ru
      PROVE  AnEntry(entries'[s]) /\ entries'[s].def = put[s].def /\ entries'[s].link = "pending" /\ entries'[s].gen = gens + ord[s]
  <2>1. PICK q, n : q = put[s] /\ n = gens + ord[s] OBVIOUS
  <2>2. entries'[s] = [q EXCEPT !.link = "pending", !.gen = n] BY <1>1, <1>5, <2>1
  <2>3. AnEntry(q) BY <1>1, <2>1 DEF Relaunch
  <2>4. PICK e : e = [q EXCEPT !.link = "pending", !.gen = n] OBVIOUS
  <2>5. AnEntry(e) /\ e.def = q.def /\ e.link = "pending" /\ e.gen = n BY <2>3, <2>4 DEF AnEntry
  <2> QED BY <2>1, <2>2, <2>4, <2>5
<1>8. \A s \in Servers : AnEntry(entries'[s]) /\ entries'[s].def = put[s].def
  <2> SUFFICES ASSUME NEW s \in Servers PROVE AnEntry(entries'[s]) /\ entries'[s].def = put[s].def OBVIOUS
  <2>1. CASE s \in ru BY <1>7, <2>1
  <2>2. CASE s \notin ru
    <3>1. entries'[s] = put[s] BY <1>6, <2>2
    <3>2. AnEntry(put[s]) BY DEF Relaunch
    <3> QED BY <3>1, <3>2
  <2> QED BY <2>1, <2>2
<1>9. \A s \in ru : entries'[s].gen \in gens + 1 .. gens'
  <2> SUFFICES ASSUME NEW s \in ru PROVE entries'[s].gen \in gens + 1 .. gens' OBVIOUS
  <2>1. ord[s] \in 1 .. c /\ entries'[s].gen = gens + ord[s] BY <1>3, <1>7
  <2> QED BY <1>3, <1>4, <2>1
<1>10. \A s, t \in ru : entries'[s].gen = entries'[t].gen => s = t
  <2> SUFFICES ASSUME NEW s \in ru, NEW t \in ru, entries'[s].gen = entries'[t].gen PROVE s = t OBVIOUS
  <2>1. ord[s] \in Nat /\ ord[t] \in Nat /\ gens + ord[s] = gens + ord[t] BY <1>3, <1>7
  <2>2. ord[s] = ord[t] BY <1>4, <2>1
  <2> QED BY <1>3, <2>2
<1>11. entries' = [s \in Servers |-> entries'[s]] BY <1>5
<1> QED BY <1>3, <1>4, <1>6, <1>7, <1>8, <1>9, <1>10, <1>11

\* What the keepers are: those that the step started, and those that there were, ended when their entry changed.
LEMMA RelaunchKeepers ==
  ASSUME HubInv, NEW ch, NEW ru, NEW put, Relaunch(ch, ru, put)
  PROVE  /\ DOMAIN keepers' = DOMAIN keepers \cup {entries'[s].gen : s \in ru} /\ keepers' = [g \in DOMAIN keepers' |-> keepers'[g]]
         /\ \A s \in ru : keepers'[entries'[s].gen] = S!Keeper(s, entries'[s].def)
         /\ \A g \in DOMAIN keepers :
              keepers'[g] = IF \E s \in ch : entries[s].gen = g THEN [keepers[g] EXCEPT !.aborted = TRUE] ELSE keepers[g]
         /\ \A g \in DOMAIN keepers : g \in 1 .. gens
<1>1. PICK es, ended : es = S!Launching(put, gens, ru) /\ ended = {entries[s].gen : s \in ch} OBVIOUS
<1>2. entries' = es /\ keepers' = S!Started(keepers, ended, es, ru) BY <1>1 DEF Relaunch
<1>3. \A s, t \in ru : es[s].gen = es[t].gen => s = t BY <1>2, RelaunchEntries
<1>4. PICK new : new = S!Started(keepers, ended, es, ru) OBVIOUS
<1>5. PICK ks : ks = keepers OBVIOUS
<1>6. /\ DOMAIN new = DOMAIN ks \cup {es[s].gen : s \in ru} /\ new = [g \in DOMAIN new |-> new[g]]
      /\ \A s \in ru : new[es[s].gen] = S!Keeper(s, es[s].def)
      /\ \A g \in DOMAIN ks : g \notin {es[s].gen : s \in ru} =>
           new[g] = IF g \in ended THEN [ks[g] EXCEPT !.aborted = TRUE] ELSE ks[g]
  BY <1>3, <1>4, <1>5, StartedAre
<1>7. gens \in Nat /\ DOMAIN keepers \subseteq 1 .. gens BY DEF HubInv, EntryTypes, KeeperTypes
<1>8. \A s \in ru : es[s].gen \in gens + 1 .. gens' BY <1>2, RelaunchEntries
<1>9. gens' \in Nat BY RelaunchEntries
<1>10. \A g \in DOMAIN ks : g \notin {es[s].gen : s \in ru}
  <2> SUFFICES ASSUME NEW g \in DOMAIN ks, NEW s \in ru, g = es[s].gen PROVE FALSE OBVIOUS
  <2>1. g \in 1 .. gens /\ g \in gens + 1 .. gens' BY <1>5, <1>7, <1>8
  <2> QED BY <1>7, <1>9, <2>1
<1>11. \A g : g \in ended <=> \E s \in ch : entries[s].gen = g BY <1>1
<1>12. keepers' = new BY <1>2, <1>4
<1>13. \A g \in DOMAIN keepers :
         keepers'[g] = IF \E s \in ch : entries[s].gen = g THEN [keepers[g] EXCEPT !.aborted = TRUE] ELSE keepers[g]
  BY <1>5, <1>6, <1>10, <1>11, <1>12
<1> QED BY <1>2, <1>5, <1>6, <1>7, <1>12, <1>13

\* What the step leaves of a keeper that there was: it was ended, or its entry is the same.
LEMMA RelaunchOld ==
  ASSUME HubInv, NEW ch, NEW ru, NEW put, Relaunch(ch, ru, put), NEW g \in DOMAIN keepers
  PROVE  /\ AKeeper(keepers'[g]) /\ keepers'[g].name = keepers[g].name /\ keepers'[g].at = keepers[g].at
         /\ keepers'[g].token = keepers[g].token /\ keepers[g].name \in Servers /\ g \in DOMAIN keepers'
         /\ ~keepers'[g].aborted => /\ keepers'[g] = keepers[g] /\ keepers[g].name \notin ch
                                    /\ entries'[keepers[g].name] = entries[keepers[g].name] /\ entries[keepers[g].name].gen = g
         /\ keepers'[g].aborted => entries'[keepers[g].name].gen # g
<1>1. keepers'[g] = IF \E s \in ch : entries[s].gen = g THEN [keepers[g] EXCEPT !.aborted = TRUE] ELSE keepers[g]
  BY RelaunchKeepers
<1>2. keepers[g].name \in Servers /\ AKeeper(keepers[g]) BY KeeperFacts
<1>3. g \in 1 .. gens /\ g \in DOMAIN keepers' BY RelaunchKeepers
<1>4. PICK n, q : n = keepers[g].name /\ q = keepers[g] OBVIOUS
<1>5. ch \subseteq Servers /\ ru \subseteq ch BY DEF Relaunch
<1>6. n \notin ch => entries'[n] = entries[n]
  <2> SUFFICES ASSUME n \notin ch PROVE entries'[n] = entries[n] OBVIOUS
  <2>1. n \in Servers \ ru BY <1>2, <1>4, <1>5
  <2>2. entries'[n] = put[n] BY <2>1, RelaunchEntries
  <2>3. put[n] = entries[n] BY <1>2, <1>4 DEF Relaunch
  <2> QED BY <2>2, <2>3
<1>7. n \in ch => entries'[n].gen # g
  <2> SUFFICES ASSUME n \in ch PROVE entries'[n].gen # g OBVIOUS
  <2>1. CASE n \in ru
    <3>1. entries'[n].gen \in gens + 1 .. gens' /\ gens' \in Nat /\ gens \in Nat BY <2>1, RelaunchEntries DEF HubInv, EntryTypes
    <3> QED BY <1>3, <3>1
  <2>2. CASE n \notin ru
    <3>1. entries'[n] = put[n] BY <1>2, <1>4, <2>2, RelaunchEntries
    <3>2. put[n].gen = 0 BY <2>2 DEF Relaunch
    <3>3. gens \in Nat BY DEF HubInv, EntryTypes
    <3> QED BY <1>3, <3>1, <3>2, <3>3
  <2> QED BY <2>1, <2>2
<1>8. CASE \E s \in ch : entries[s].gen = g
  <2>1. PICK s \in ch : entries[s].gen = g BY <1>8
  <2>2. s = n BY <1>4, <1>5, <2>1 DEF HubInv, Owned
  <2>3. keepers'[g] = [q EXCEPT !.aborted = TRUE] BY <1>1, <1>4, <1>8
  <2>4. PICK k : k = [q EXCEPT !.aborted = TRUE] OBVIOUS
  <2>5. AKeeper(k) /\ k.name = q.name /\ k.at = q.at /\ k.token = q.token /\ k.aborted BY <1>2, <1>4, <2>4 DEF AKeeper
  <2>6. AKeeper(keepers'[g]) BY <2>3, <2>4, <2>5
  <2>7. keepers'[g].aborted /\ keepers'[g].name = keepers[g].name /\ keepers'[g].at = keepers[g].at /\ keepers'[g].token = keepers[g].token
    BY <1>4, <2>3, <2>4, <2>5
  <2>8. entries'[keepers[g].name].gen # g BY <1>4, <1>7, <2>1, <2>2
  <2> QED BY <1>2, <1>3, <2>6, <2>7, <2>8
<1>9. CASE ~\E s \in ch : entries[s].gen = g
  <2>1. keepers'[g] = keepers[g] BY <1>1, <1>9
  <2>2. AKeeper(keepers'[g]) BY <1>2, <2>1
  <2>3. ASSUME ~keepers[g].aborted
        PROVE  n \notin ch /\ entries'[n] = entries[n] /\ entries[n].gen = g
    <3>1. entries[n].gen = g BY <1>4, <2>3 DEF HubInv, Owned
    <3>2. n \notin ch BY <1>9, <3>1
    <3> QED BY <1>6, <3>1, <3>2
  <2>4. ASSUME keepers[g].aborted PROVE entries'[n].gen # g
    <3>1. entries[n].gen # g BY <1>4, <2>4 DEF HubInv, Owned
    <3> QED BY <1>6, <1>7, <3>1
  <2> QED BY <1>2, <1>3, <1>4, <2>1, <2>2, <2>3, <2>4
<1> QED BY <1>8, <1>9

LEMMA RelaunchKept ==
  ASSUME HubInv, Ages, ActTypes', ActsHold', UNCHANGED <<lists, open>>, NEW ch, NEW ru, NEW put, Relaunch(ch, ru, put)
  PROVE  HubInv'
<1>1. /\ gens \in Nat /\ gens' \in Nat /\ gens <= gens' /\ entries' = [s \in Servers |-> entries'[s]]
      /\ \A s \in Servers : AnEntry(entries'[s]) /\ entries'[s].def = put[s].def
      /\ \A s \in Servers \ ru : entries'[s] = put[s]
      /\ \A s \in ru : entries'[s].link = "pending" /\ entries'[s].gen \in gens + 1 .. gens'
      /\ \A s, t \in ru : entries'[s].gen = entries'[t].gen => s = t
  BY RelaunchEntries DEF HubInv, EntryTypes
<1>2. /\ DOMAIN keepers' = DOMAIN keepers \cup {entries'[s].gen : s \in ru} /\ keepers' = [g \in DOMAIN keepers' |-> keepers'[g]]
      /\ \A s \in ru : keepers'[entries'[s].gen] = S!Keeper(s, entries'[s].def)
      /\ \A g \in DOMAIN keepers : g \in 1 .. gens
  BY RelaunchKeepers
<1>3. ch \subseteq Servers /\ ru \subseteq ch BY DEF Relaunch
<1>4. \A s \in ru : /\ AKeeper(keepers'[entries'[s].gen]) /\ keepers'[entries'[s].gen].name = s
                    /\ keepers'[entries'[s].gen].at = "token" /\ keepers'[entries'[s].gen].token = 0
                    /\ keepers'[entries'[s].gen].aborted = FALSE
  <2> SUFFICES ASSUME NEW s \in ru
               PROVE  /\ AKeeper(keepers'[entries'[s].gen]) /\ keepers'[entries'[s].gen].name = s
                      /\ keepers'[entries'[s].gen].at = "token" /\ keepers'[entries'[s].gen].token = 0
                      /\ keepers'[entries'[s].gen].aborted = FALSE
    OBVIOUS
  <2>1. PICK d, k : d = entries'[s].def /\ k = S!Keeper(s, d) OBVIOUS
  <2>2. keepers'[entries'[s].gen] = k BY <1>2, <2>1
  <2>3. AKeeper(k) /\ k.name = s /\ k.at = "token" /\ k.token = 0 /\ k.aborted = FALSE BY <2>1 DEF S!Keeper, AKeeper
  <2> QED BY <2>2, <2>3
<1>5. \A s \in ru : entries'[s].gen \in 1 .. gens' /\ entries'[s].gen \notin 1 .. gens
  <2> SUFFICES ASSUME NEW s \in ru PROVE entries'[s].gen \in 1 .. gens' /\ entries'[s].gen \notin 1 .. gens OBVIOUS
  <2>1. entries'[s].gen \in gens + 1 .. gens' BY <1>1
  <2> QED BY <1>1, <2>1
<1>6. \A s \in ch \ ru : entries'[s].gen = 0 /\ entries'[s].link \in Links \ {"pending", "again", "connected"} BY <1>1, <1>3 DEF Relaunch
<1>7. \A s \in Servers \ ch : entries'[s] = entries[s] BY <1>1, <1>3 DEF Relaunch
<1>8. EntryTypes'
  <2>1. \A s \in Servers : AnEntry(entries[s])' BY <1>1 DEF AnEntry
  <2>2. ASSUME NEW s \in Servers PROVE entries'[s].gen \in 0 .. gens' /\ entries'[s].link \in Links
    <3>1. CASE s \in ru BY <1>1, <1>5, <3>1 DEF Links
    <3>2. CASE s \in ch \ ru BY <1>1, <1>6, <3>2
    <3>3. CASE s \notin ch
      <4>1. entries[s].gen \in 0 .. gens /\ entries[s].link \in Links BY DEF HubInv, EntryTypes
      <4> QED BY <1>1, <1>7, <3>3, <4>1
    <3> QED BY <3>1, <3>2, <3>3
  <2> QED BY <1>1, <2>1, <2>2 DEF EntryTypes
<1>9. KeeperTypes'
  <2>1. DOMAIN keepers' \subseteq 1 .. gens' BY <1>1, <1>2, <1>5
  <2>2. open' \subseteq 1 .. gens' BY <1>1 DEF HubInv, KeeperTypes
  <2>3. ASSUME NEW g \in DOMAIN keepers' PROVE AKeeper(keepers'[g]) /\ keepers'[g].name \in Servers /\ keepers'[g].at \in Places
    <3>1. CASE g \in DOMAIN keepers
      <4>1. keepers[g].at \in Places BY <3>1, KeeperFacts
      <4> QED BY <3>1, <4>1, RelaunchOld
    <3>2. CASE g \notin DOMAIN keepers
      <4>1. PICK s \in ru : g = entries'[s].gen BY <1>2, <3>2
      <4> QED BY <1>3, <1>4, <4>1 DEF Places
    <3> QED BY <3>1, <3>2
  <2>4. \A g \in DOMAIN keepers' : AKeeper(keepers[g])' BY <2>3 DEF AKeeper
  <2> QED BY <1>2, <2>1, <2>2, <2>3, <2>4 DEF KeeperTypes
<1>10. Tokened'
  <2>1. ASSUME NEW g \in DOMAIN keepers' PROVE keepers'[g].token \in 0 .. valid'[keepers'[g].name].login
    <3>1. CASE g \in DOMAIN keepers BY <3>1, OthersHold, RelaunchOld
    <3>2. CASE g \notin DOMAIN keepers
      <4>1. PICK s \in ru : g = entries'[s].gen BY <1>2, <3>2
      <4>2. valid'[s].login \in Nat BY <1>3 DEF Ages
      <4> QED BY <1>4, <4>1, <4>2
    <3> QED BY <3>1, <3>2
  <2> QED BY <2>1 DEF Tokened, Ages, ActsHold
<1>11. Owned'
  <2>1. ASSUME NEW s \in Servers, entries'[s].gen \in DOMAIN keepers' PROVE keepers'[entries'[s].gen].name = s
    <3>1. CASE s \in ru BY <1>4, <3>1
    <3>2. CASE s \in ch \ ru
      <4>1. 0 \notin DOMAIN keepers' BY <1>1, <1>2, <1>5
      <4> QED BY <1>6, <2>1, <3>2, <4>1
    <3>3. CASE s \notin ch
      <4>1. entries'[s] = entries[s] /\ entries[s].gen \in 0 .. gens BY <1>7, <3>3 DEF HubInv, EntryTypes
      <4>2. entries[s].gen \in DOMAIN keepers
        <5>1. \A t \in ru : entries'[t].gen # entries[s].gen
          <6> SUFFICES ASSUME NEW t \in ru, entries'[t].gen = entries[s].gen PROVE FALSE OBVIOUS
          <6>1. entries'[t].gen \in gens + 1 .. gens' BY <1>1
          <6> QED BY <1>1, <4>1, <6>1
        <5> QED BY <1>2, <2>1, <4>1, <5>1
      <4>3. keepers[entries[s].gen].name = s BY <4>2 DEF HubInv, Owned
      <4> QED BY <4>1, <4>2, <4>3, RelaunchOld
    <3> QED BY <3>1, <3>2, <3>3
  <2>2. ASSUME NEW g \in DOMAIN keepers'
        PROVE  /\ keepers'[g].aborted \/ entries'[keepers'[g].name].gen = g
               /\ keepers'[g].aborted => entries'[keepers'[g].name].gen # g
    <3>1. CASE g \in DOMAIN keepers
      <4>1. keepers'[g].name = keepers[g].name BY <3>1, RelaunchOld
      <4>2. ~keepers'[g].aborted => entries'[keepers[g].name].gen = g
        <5> SUFFICES ASSUME ~keepers'[g].aborted PROVE entries'[keepers[g].name].gen = g OBVIOUS
        <5>1. entries'[keepers[g].name] = entries[keepers[g].name] /\ entries[keepers[g].name].gen = g BY <3>1, RelaunchOld
        <5> QED BY <5>1
      <4>3. keepers'[g].aborted => entries'[keepers[g].name].gen # g BY <3>1, RelaunchOld
      <4> QED BY <4>1, <4>2, <4>3
    <3>2. CASE g \notin DOMAIN keepers
      <4>1. PICK s \in ru : g = entries'[s].gen BY <1>2, <3>2
      <4> QED BY <1>4, <4>1
    <3> QED BY <3>1, <3>2
  <2>3. ASSUME NEW g \in DOMAIN keepers', ~keepers'[g].aborted PROVE S!Runs(entries'[keepers'[g].name].def)
    <3>1. CASE g \in DOMAIN keepers
      <4>1. keepers'[g] = keepers[g] /\ entries'[keepers[g].name] = entries[keepers[g].name] BY <2>3, <3>1, RelaunchOld
      <4>2. S!Runs(entries[keepers[g].name].def) BY <2>3, <3>1, <4>1, LiveOwns
      <4> QED BY <4>1, <4>2
    <3>2. CASE g \notin DOMAIN keepers
      <4>1. PICK s \in ru : g = entries'[s].gen BY <1>2, <3>2
      <4>2. entries'[s].def = put[s].def BY <1>1, <1>3
      <4>3. S!Runs(put[s].def) BY DEF Relaunch
      <4> QED BY <1>4, <4>1, <4>2, <4>3
    <3> QED BY <3>1, <3>2
  <2>4. \A g \in S!Live' : S!Runs(entries[keepers[g].name].def)' BY <2>3 DEF S!Live, S!Runs, S!Defined
  <2> QED BY <2>1, <2>2, <2>4 DEF Owned
<1>12. S!LinkIsTrue'
  <2>1. ASSUME NEW s \in Servers
        PROVE  /\ entries'[s].link \in {"pending", "again", "connected"} => entries'[s].gen \in S!Live'
               /\ entries'[s].link = "pending"   => keepers'[entries'[s].gen].at \in {"token", "refresh", "store", "connect"}
               /\ entries'[s].link = "again"     => keepers'[entries'[s].gen].at \notin {"heed", "over"}
               /\ entries'[s].link = "connected" => keepers'[entries'[s].gen].at = "heed"
    <3>1. CASE s \in ru
      <4>1. entries'[s].gen \in S!Live' BY <1>2, <1>4, <3>1 DEF S!Live
      <4> QED BY <1>1, <1>4, <3>1, <4>1
    <3>2. CASE s \in ch \ ru BY <1>6, <3>2
    <3>3. CASE s \notin ch
      <4>1. entries'[s] = entries[s] BY <1>7, <3>3
      <4>2. ASSUME entries[s].gen \in S!Live PROVE entries[s].gen \in S!Live' /\ keepers'[entries[s].gen] = keepers[entries[s].gen]
        <5>1. entries[s].gen \in DOMAIN keepers /\ ~keepers[entries[s].gen].aborted BY <4>2 DEF S!Live
        <5>2. keepers[entries[s].gen].name = s BY <5>1 DEF HubInv, Owned
        <5>3. PICK g : g = entries[s].gen OBVIOUS
        <5>4. g \in DOMAIN keepers /\ keepers[g].name = s /\ entries'[s].gen = g BY <4>1, <5>1, <5>2, <5>3
        <5>5. g \in DOMAIN keepers' /\ ~keepers'[g].aborted /\ keepers'[g] = keepers[g]
          <6>1. g \in DOMAIN keepers' /\ (keepers'[g].aborted => entries'[keepers[g].name].gen # g)
                /\ (~keepers'[g].aborted => keepers'[g] = keepers[g])
            BY <5>4, RelaunchOld
          <6> QED BY <5>4, <6>1
        <5> QED BY <5>3, <5>5 DEF S!Live
      <4> QED BY <4>1, <4>2 DEF HubInv, S!LinkIsTrue
    <3> QED BY <3>1, <3>2, <3>3
  <2> QED BY <2>1 DEF S!LinkIsTrue
<1>13. Heeding'
  <2>1. ASSUME NEW g \in DOMAIN keepers', keepers'[g].at # "heed" PROVE g \notin open'
    <3>1. CASE g \in DOMAIN keepers BY <2>1, <3>1, RelaunchOld DEF HubInv, Heeding
    <3>2. CASE g \notin DOMAIN keepers
      <4>1. g \notin 1 .. gens BY <1>2, <1>5, <3>2
      <4> QED BY <4>1 DEF HubInv, KeeperTypes
    <3> QED BY <3>1, <3>2
  <2>2. ASSUME NEW g \in DOMAIN keepers', ~keepers'[g].aborted, keepers'[g].at = "heed", g \in open', ~keepers'[g].notice, ~keepers'[g].missed,
               S!Takes(keepers[g])'
        PROVE  entries'[keepers'[g].name].offered = lists[keepers'[g].name]
    <3>1. g \in DOMAIN keepers
      <4>1. g \in 1 .. gens BY <2>2 DEF HubInv, KeeperTypes
      <4> QED BY <1>2, <1>5, <4>1
    <3>2. keepers'[g] = keepers[g] /\ entries'[keepers[g].name] = entries[keepers[g].name] BY <2>2, <3>1, RelaunchOld
    <3>3. S!Takes(keepers[g]) BY <2>2, <3>1, <3>2, OthersHold
    <3>4. g \in S!Live BY <2>2, <3>1, <3>2 DEF S!Live
    <3> QED BY <2>2, <3>2, <3>3, <3>4 DEF HubInv, Heeding
  <2>3. lists' = [s \in Servers |-> lists'[s]] BY DEF HubInv, Heeding
  <2> QED BY <2>1, <2>2, <2>3 DEF Heeding, S!Live
<1> QED BY <1>8, <1>9, <1>10, <1>11, <1>12, <1>13 DEF HubInv

LEMMA LaunchIs ==
  ASSUME HubInv, NEW s \in Servers, S!Runs(entries[s].def), S!Becomes(S!Launch(S!Hub, s))
  PROVE  Relaunch({s}, {s}, entries)
<1>1. S!Hub.entries = entries /\ S!Hub.gens = gens /\ S!Hub.keepers = keepers BY DEF S!Hub
<1>2. S!Cardinality({s}) = 1 BY FS_Singleton, SameSize
<1>3. PICK es : es = S!Launching(entries, gens, {s}) OBVIOUS
<1>4. S!Launch(S!Hub, s) = [entries |-> es, gens |-> gens + 1, keepers |-> S!Started(keepers, {entries[s].gen}, es, {s})]
  BY <1>1, <1>3 DEF S!Launch
<1>5. entries' = es /\ gens' = gens + 1 /\ keepers' = S!Started(keepers, {entries[s].gen}, es, {s}) BY <1>4 DEF S!Becomes
<1>6. {entries[s].gen} = {entries[t].gen : t \in {s}} OBVIOUS
<1>7. entries = [t \in Servers |-> entries[t]] /\ \A t \in Servers : AnEntry(entries[t]) BY DEF HubInv, EntryTypes
<1>8. keepers' = S!Started(keepers, {entries[t].gen : t \in {s}}, S!Launching(entries, gens, {s}), {s}) BY <1>3, <1>5, <1>6
<1>9. gens' = gens + S!Cardinality({s}) BY <1>2, <1>5
<1> QED BY <1>3, <1>5, <1>7, <1>8, <1>9 DEF Relaunch

LEMMA ReloadIs ==
  ASSUME HubInv, NEW read, S!Becomes(S!Reloaded(S!Hub, read))
  PROVE  \E ch, ru, put : Relaunch(ch, ru, put)
<1>1. S!Hub.entries = entries /\ S!Hub.gens = gens /\ S!Hub.keepers = keepers BY DEF S!Hub
<1> DEFINE new(s) == IF read[s] = S!None THEN S!NoEntry ELSE [S!NoEntry EXCEPT !.def = read[s], !.link = S!Defined(read[s])]
<1>2. PICK ch, ru, put : /\ ch = {s \in Servers : entries[s].def # read[s]}
                         /\ ru = {s \in Servers : entries[s].def # read[s] /\ S!Runs(read[s])}
                         /\ put = [s \in Servers |-> IF entries[s].def = read[s] THEN entries[s] ELSE new(s)]
  OBVIOUS
<1>3. PICK es, ended : es = S!Launching(put, gens, ru) /\ ended = {entries[s].gen : s \in ch} OBVIOUS
<1>4. S!Reloaded(S!Hub, read) = [entries |-> es, gens |-> gens + S!Cardinality(ru), keepers |-> S!Started(keepers, ended, es, ru)]
  BY <1>1, <1>2, <1>3 DEF S!Reloaded, S!Replaced
<1>5. entries' = es /\ gens' = gens + S!Cardinality(ru) /\ keepers' = S!Started(keepers, ended, es, ru) BY <1>4 DEF S!Becomes
<1>6. ch \subseteq Servers /\ ru \subseteq ch BY <1>2
<1>7. ASSUME NEW s \in Servers
      PROVE  AnEntry(new(s)) /\ new(s).gen = 0 /\ (read[s] = S!None => new(s).link = "none")
             /\ (read[s] # S!None => new(s).link = S!Defined(read[s]) /\ new(s).def = read[s])
  <2>1. PICK e, d, l : e = S!NoEntry /\ d = read[s] /\ l = S!Defined(read[s]) OBVIOUS
  <2>2. AnEntry(e) /\ e.gen = 0 /\ e.link = "none" BY <2>1 DEF S!NoEntry, AnEntry
  <2>3. PICK x : x = [e EXCEPT !.def = d, !.link = l] OBVIOUS
  <2>4. AnEntry(x) /\ x.gen = 0 /\ x.link = l /\ x.def = d BY <2>2, <2>3 DEF AnEntry
  <2>5. CASE read[s] = S!None BY <2>1, <2>2, <2>5
  <2>6. CASE read[s] # S!None
    <3>1. new(s) = x BY <2>1, <2>3, <2>6
    <3> QED BY <2>1, <2>4, <2>6, <3>1
  <2> QED BY <2>5, <2>6
<1> HIDE DEF new
<1>8. \A s \in Servers : AnEntry(put[s])
  <2> SUFFICES ASSUME NEW s \in Servers PROVE AnEntry(put[s]) OBVIOUS
  <2>1. AnEntry(entries[s]) BY DEF HubInv, EntryTypes
  <2>2. put[s] = entries[s] \/ put[s] = new(s) BY <1>2
  <2> QED BY <1>7, <2>1, <2>2
<1>9. \A s \in Servers \ ch : put[s] = entries[s] BY <1>2
<1>10. \A s \in ch : put[s] = new(s) BY <1>2
<1>11. \A s \in ch \ ru : put[s].gen = 0 /\ put[s].link \in Links \ {"pending", "again", "connected"}
  <2> SUFFICES ASSUME NEW s \in ch, s \notin ru PROVE put[s].gen = 0 /\ put[s].link \in Links \ {"pending", "again", "connected"} OBVIOUS
  <2>1. ~S!Runs(read[s]) /\ s \in Servers BY <1>2
  <2>2. CASE read[s] = S!None BY <1>7, <1>10, <2>1, <2>2 DEF Links
  <2>3. CASE read[s] # S!None
    <3>1. S!Defined(read[s]) # "pending" BY <2>1, <2>3 DEF S!Runs
    <3>2. S!Defined(read[s]) \in {"failed", "disabled", "unapproved", "pending"} BY DEF S!Defined
    <3> QED BY <1>7, <1>10, <2>1, <2>3, <3>1, <3>2 DEF Links
  <2> QED BY <2>2, <2>3
<1>12. \A s \in ru : S!Runs(put[s].def)
  <2> SUFFICES ASSUME NEW s \in ru PROVE S!Runs(put[s].def) OBVIOUS
  <2>1. S!Runs(read[s]) /\ s \in ch /\ s \in Servers BY <1>2
  <2>2. read[s] # S!None BY <2>1 DEF S!Runs
  <2>3. put[s].def = read[s] BY <1>7, <1>10, <2>1, <2>2
  <2> QED BY <2>1, <2>3
<1>13. put = [s \in Servers |-> put[s]] BY <1>2
<1> QED BY <1>3, <1>5, <1>6, <1>8, <1>9, <1>11, <1>12, <1>13 DEF Relaunch

\* A link that changes whatever the generation of its keeper.
LEMMA RelinkedKept ==
  ASSUME HubInv, Ages, ActTypes', ActsHold', UNCHANGED <<gens, keepers, lists, open>>, NEW n \in Servers, NEW link \in {"failed", "needs-auth"},
         entries' = [entries EXCEPT ![n].link = IF @ = "none" THEN @ ELSE link]
  PROVE  HubInv'
<1>1. PICK e, l : e = entries[n] /\ l = (IF e.link = "none" THEN e.link ELSE link) OBVIOUS
<1>2. DOMAIN entries = Servers /\ AnEntry(e) BY <1>1 DEF HubInv, EntryTypes
<1>3. PICK new : new = [e EXCEPT !.link = l] OBVIOUS
<1>4. entries'[n] = new /\ entries' = [s \in Servers |-> entries'[s]] /\ \A s \in Servers : s # n => entries'[s] = entries[s]
  BY <1>1, <1>2, <1>3
<1>5. AnEntry(new) /\ new.def = e.def /\ new.gen = e.gen /\ new.offered = e.offered /\ new.link = l BY <1>2, <1>3 DEF AnEntry
<1>6. l \in {"none", "failed", "needs-auth"} BY <1>1
<1>7. \A s \in Servers : /\ entries'[s].def = entries[s].def /\ entries'[s].gen = entries[s].gen
                         /\ entries'[s].offered = entries[s].offered
  BY <1>1, <1>4, <1>5
<1>8. EntryTypes'
  <2>1. \A s \in Servers : AnEntry(entries'[s]) BY <1>4, <1>5 DEF HubInv, EntryTypes
  <2>2. \A s \in Servers : entries'[s].link \in Links BY <1>4, <1>5, <1>6 DEF HubInv, EntryTypes, Links
  <2>3. \A s \in Servers : AnEntry(entries[s])' BY <2>1 DEF AnEntry
  <2> QED BY <1>4, <1>7, <2>2, <2>3 DEF HubInv, EntryTypes
<1>9. KeeperTypes' BY DEF HubInv, KeeperTypes, AKeeper
<1>10. Tokened'
  <2>1. \A g \in DOMAIN keepers : keepers[g].token \in 0 .. valid'[keepers[g].name].login BY OthersHold
  <2> QED BY <2>1 DEF Tokened, Ages, ActsHold
<1>11. \A g \in DOMAIN keepers : keepers[g].name \in Servers BY DEF HubInv, KeeperTypes
<1>12. Owned'
  <2>1. \A g \in S!Live : S!Runs(entries'[keepers[g].name].def) BY <1>7, <1>11 DEF HubInv, Owned, S!Live
  <2>2. \A g \in S!Live' : S!Runs(entries[keepers[g].name].def)' BY <2>1 DEF S!Live, S!Runs, S!Defined
  <2> QED BY <1>7, <1>11, <2>2 DEF HubInv, Owned
<1>13. S!LinkIsTrue'
  <2>1. ASSUME NEW s \in Servers
        PROVE  /\ entries'[s].link \in {"pending", "again", "connected"} => entries'[s].gen \in S!Live
               /\ entries'[s].link = "pending"   => keepers[entries'[s].gen].at \in {"token", "refresh", "store", "connect"}
               /\ entries'[s].link = "again"     => keepers[entries'[s].gen].at \notin {"heed", "over"}
               /\ entries'[s].link = "connected" => keepers[entries'[s].gen].at = "heed"
    <3>1. CASE s = n BY <1>4, <1>5, <1>6, <3>1
    <3>2. CASE s # n BY <1>4, <3>2 DEF HubInv, S!LinkIsTrue
    <3> QED BY <3>1, <3>2
  <2> QED BY <2>1 DEF S!LinkIsTrue, S!Live
<1>14. Heeding'
  <2>1. ASSUME NEW g \in DOMAIN keepers, ~keepers[g].aborted, keepers[g].at = "heed", g \in open, ~keepers[g].notice, ~keepers[g].missed,
               S!Takes(keepers[g])'
        PROVE  entries'[keepers[g].name].offered = lists[keepers[g].name]
    <3>1. S!Takes(keepers[g]) /\ g \in S!Live BY <2>1, OthersHold DEF S!Live
    <3>2. entries[keepers[g].name].offered = lists[keepers[g].name] BY <2>1, <3>1 DEF HubInv, Heeding
    <3> QED BY <1>7, <1>11, <3>2
  <2> QED BY <2>1 DEF HubInv, Heeding, S!Live
<1> QED BY <1>8, <1>9, <1>10, <1>12, <1>13, <1>14 DEF HubInv

-----------------------------------------------------------------------------
(* The acts of the ear.                                                     *)

StoreHolds == vault = [s \in Servers |-> vault[s]] /\ \A s \in Servers : vault[s] \in 0 .. valid[s].login

LEMMA StoreOn == ASSUME HubInv, Ages, UNCHANGED vault PROVE StoreHolds'
<1>1. ASSUME NEW s \in Servers PROVE vault[s] \in 0 .. valid'[s].login
  <2>1. valid[s].login \in Nat /\ valid'[s].login \in Nat /\ valid[s].login <= valid'[s].login /\ vault[s] \in 0 .. valid[s].login
    BY DEF HubInv, Tokened, Ages
  <2> QED BY <2>1
<1> QED BY <1>1 DEF HubInv, Tokened, StoreHolds

\* An act that may go on: it is of a server, and what it holds is no newer than the last login.
AnActOn(r) == AnAct(r) /\ (r.at \notin Idle => r.name \in Servers) /\ (r.at = "keep" => r.held \in 0 .. valid[r.name].login)

LEMMA ActsAre == ASSUME HubInv, NEW a \in Acts
                 PROVE  AnAct(acts[a]) /\ (acts[a].at \notin Idle => acts[a].name \in Servers)
                        /\ (acts[a].at = "keep" => acts[a].held \in 0 .. valid[acts[a].name].login)
BY DEF HubInv, ActTypes, Tokened

LEMMA ActGoes ==
  ASSUME HubInv, Ages, StoreHolds', NEW a \in Acts, NEW r, S!To(a, r), AnAct(r), r.at \notin Idle => r.name \in Servers,
         r.at = "keep" => r.held \in 0 .. valid'[r.name].login
  PROVE  ActTypes' /\ ActsHold'
<1>1. acts' = [acts EXCEPT ![a] = r] BY DEF S!To
<1>2. acts' = [b \in Acts |-> acts'[b]] /\ acts'[a] = r /\ \A b \in Acts : b # a => acts'[b] = acts[b] BY <1>1 DEF HubInv, ActTypes
<1>3. \A b \in Acts : AnAct(acts'[b]) /\ (acts'[b].at \notin Idle => acts'[b].name \in Servers) BY <1>2 DEF HubInv, ActTypes
<1>4. ActTypes'
  <2>1. \A b \in Acts : AnAct(acts[b])' BY <1>3 DEF AnAct
  <2> QED BY <1>2, <1>3, <2>1 DEF ActTypes
<1>5. ASSUME NEW b \in Acts, acts'[b].at = "keep" PROVE acts'[b].held \in 0 .. valid'[acts'[b].name].login
  <2>1. CASE b = a BY <1>2, <1>5, <2>1
  <2>2. CASE b # a
    <3>1. acts[b].at = "keep" /\ acts'[b] = acts[b] BY <1>2, <1>5, <2>2
    <3>2. acts[b].name \in Servers BY <3>1, ActsAre DEF Idle
    <3>3. acts[b].held \in 0 .. valid[acts[b].name].login BY <3>1, ActsAre
    <3>4. valid[acts[b].name].login \in Nat /\ valid'[acts[b].name].login \in Nat
          /\ valid[acts[b].name].login <= valid'[acts[b].name].login
      BY <3>2 DEF HubInv, Tokened, Ages
    <3> QED BY <3>1, <3>3, <3>4
  <2> QED BY <2>1, <2>2
<1> QED BY <1>4, <1>5 DEF ActsHold, StoreHolds

LEMMA SaysIs == ASSUME HubInv, Ages, StoreHolds', NEW a \in Acts, S!Says(a) PROVE ActTypes' /\ ActsHold'
<1>1. PICK r : r = [S!Fresh EXCEPT !.at = "done"] OBVIOUS
<1>2. AnAct(r) /\ r.at = "done" BY <1>1 DEF S!Fresh, AnAct
<1>3. S!To(a, r) BY <1>1 DEF S!Says
<1>4. r.at \in Idle /\ r.at # "keep" BY <1>2 DEF Idle
<1> QED BY <1>2, <1>3, <1>4, ActGoes

LEMMA TakeKept == ASSUME HubInv, NEW a \in Acts, NEW kind, NEW s \in Servers, S!Take(a, kind, s) PROVE HubInv'
<1>1. UNCHANGED <<entries, gens, keepers, open, valid, lists, vault>> BY DEF S!Take, S!hub, S!world
<1>2. PICK f, p : f = S!Fresh /\ p = IF kind = "servers" \/ ~loaded THEN "read" ELSE IF kind = "call" THEN "settle" ELSE "control" OBVIOUS
<1>3. PICK r : r = [f EXCEPT !.kind = kind, !.name = s, !.at = p] OBVIOUS
<1>4. AnAct(f) BY <1>2 DEF S!Fresh, AnAct
<1>5. AnAct(r) /\ r.name = s /\ r.at = p BY <1>3, <1>4 DEF AnAct
<1>6. S!To(a, r) BY <1>2, <1>3 DEF S!Take
<1>7. Ages BY <1>1, AgesAlike
<1>8. StoreHolds' BY <1>1, <1>7, StoreOn
<1>9. r.at # "keep" BY <1>2, <1>5
<1>10. ActTypes' /\ ActsHold' BY <1>5, <1>6, <1>7, <1>8, <1>9, ActGoes
<1>11. open' \subseteq open /\ UNCHANGED <<entries, gens, keepers, lists>> BY <1>1
<1> QED BY <1>7, <1>10, <1>11, HubKept

LEMMA ReadKept == ASSUME HubInv, NEW a \in Acts, S!Read(a) PROVE HubInv'
<1>1. UNCHANGED <<entries, gens, keepers, open, valid, lists, vault>> BY DEF S!Read, S!hub, S!world
<1>2. PICK c, d : c = acts[a] /\ d = defs OBVIOUS
<1>3. PICK r : r = [c EXCEPT !.seen = d, !.at = "apply"] OBVIOUS
<1>4. AnAct(c) /\ c.name \in Servers BY <1>2, ActsAre DEF S!Read, S!Task, Idle
<1>5. AnAct(r) /\ r.name = c.name /\ r.at = "apply" BY <1>3, <1>4 DEF AnAct
<1>6. S!To(a, r) BY <1>2, <1>3 DEF S!Read
<1>7. Ages BY <1>1, AgesAlike
<1>8. StoreHolds' BY <1>1, <1>7, StoreOn
<1>9. r.at # "keep" /\ r.name \in Servers BY <1>4, <1>5
<1>10. ActTypes' /\ ActsHold' BY <1>5, <1>6, <1>7, <1>8, <1>9, ActGoes
<1>11. open' \subseteq open /\ UNCHANGED <<entries, gens, keepers, lists>> BY <1>1
<1> QED BY <1>7, <1>10, <1>11, HubKept

LEMMA ApplyKept == ASSUME HubInv, NEW a \in Acts, S!Apply(a) PROVE HubInv'
<1>1. UNCHANGED <<open, valid, lists, vault>> BY DEF S!Apply, S!world
<1>2. PICK c, d, p, t : /\ c = acts[a] /\ d = "none" /\ t = (c.tried \/ c.kind = "servers")
                        /\ p = CASE c.kind = "call" \/ c.tried -> "settle"
                                 [] c.kind = "servers" /\ ~c.tried -> IF S!Pending(Servers)' THEN "read" ELSE "settle"
                                 [] OTHER -> "control"
  OBVIOUS
<1>3. PICK r : r = [c EXCEPT !.seen = d, !.at = p, !.tried = t] OBVIOUS
<1>4. AnAct(c) /\ c.name \in Servers BY <1>2, ActsAre DEF S!Apply, S!Task, Idle
<1>5. AnAct(r) /\ r.name = c.name /\ r.at = p BY <1>3, <1>4 DEF AnAct
<1>6. S!To(a, r) BY <1>2, <1>3 DEF S!Apply
<1>7. Ages BY <1>1, AgesAlike
<1>8. StoreHolds' BY <1>1, <1>7, StoreOn
<1>9. p \in {"settle", "read", "control"}
  <2>1. CASE c.kind = "call" \/ c.tried BY <1>2, <2>1
  <2>2. CASE ~(c.kind = "call" \/ c.tried) /\ c.kind = "servers" BY <1>2, <2>2
  <2>3. CASE ~(c.kind = "call" \/ c.tried) /\ c.kind # "servers" BY <1>2, <2>3
  <2> QED BY <2>1, <2>2, <2>3
<1>10. r.at # "keep" /\ r.name \in Servers BY <1>4, <1>5, <1>9
<1>11. ActTypes' /\ ActsHold' BY <1>5, <1>6, <1>7, <1>8, <1>10, ActGoes
<1>12. UNCHANGED <<lists, open>> BY <1>1
<1>13. PICK read : read = acts[a].seen OBVIOUS
<1>14. S!Becomes(S!Reloaded(S!Hub, read)) BY <1>13 DEF S!Apply
<1>15. PICK ch, ru, put : Relaunch(ch, ru, put) BY <1>14, ReloadIs
<1> QED BY <1>7, <1>11, <1>12, <1>15, RelaunchKept

LEMMA SettleKept == ASSUME HubInv, NEW a \in Acts, S!Settle(a) PROVE HubInv'
<1>1. UNCHANGED <<entries, gens, keepers, open, valid, lists, vault>> BY DEF S!Settle, S!hub, S!world
<1>2. PICK c, e : c = acts[a] /\ e = entries[acts[a].name] OBVIOUS
<1>3. PICK g, u, k : g = e.gen /\ u = e.def.run /\ k = keepers[e.gen].token OBVIOUS
<1>4. PICK r : r = [c EXCEPT !.at = "ask", !.session = g, !.run = u, !.token = k] OBVIOUS
<1>5. AnAct(c) /\ c.name \in Servers BY <1>2, ActsAre DEF S!Settle, S!Task, Idle
<1>6. AnAct(r) /\ r.name = c.name /\ r.at = "ask" BY <1>4, <1>5 DEF AnAct
<1>7. S!Says(a) \/ S!To(a, r) BY <1>2, <1>3, <1>4 DEF S!Settle
<1>8. Ages BY <1>1, AgesAlike
<1>9. StoreHolds' BY <1>1, <1>8, StoreOn
<1>10. r.at # "keep" /\ r.name \in Servers BY <1>5, <1>6
<1>11. CASE S!Says(a)
  <2>1. ActTypes' /\ ActsHold' BY <1>8, <1>9, <1>11, SaysIs
  <2> QED BY <1>1, <1>8, <2>1, HubKept
<1>12. CASE S!To(a, r)
  <2>1. ActTypes' /\ ActsHold' BY <1>6, <1>8, <1>9, <1>10, <1>12, ActGoes
  <2> QED BY <1>1, <1>8, <2>1, HubKept
<1> QED BY <1>7, <1>11, <1>12

LEMMA AnswerKept == ASSUME HubInv, NEW a \in Acts, S!Answer(a) PROVE HubInv'
<1>1. UNCHANGED <<entries, gens, keepers, open, valid, lists, vault>> BY DEF S!Answer, S!hub, S!world
<1>2. PICK c, t, h, n : c = acts[a] /\ t = TRUE /\ h = vault[acts[a].name] /\ n = 0 OBVIOUS
<1>3. PICK r : r = [c EXCEPT !.tried = t, !.held = h, !.session = n, !.token = n, !.at = "renew"] OBVIOUS
<1>4. AnAct(c) /\ c.name \in Servers BY <1>2, ActsAre DEF S!Answer, S!Task, Idle
<1>5. AnAct(r) /\ r.name = c.name /\ r.at = "renew" BY <1>3, <1>4 DEF AnAct
<1>6. S!Says(a) \/ S!To(a, r) BY <1>2, <1>3 DEF S!Answer
<1>7. Ages BY <1>1, AgesAlike
<1>8. StoreHolds' BY <1>1, <1>7, StoreOn
<1>9. r.at # "keep" /\ r.name \in Servers BY <1>4, <1>5
<1>10. CASE S!Says(a)
  <2>1. ActTypes' /\ ActsHold' BY <1>7, <1>8, <1>10, SaysIs
  <2> QED BY <1>1, <1>7, <2>1, HubKept
<1>11. CASE S!To(a, r)
  <2>1. ActTypes' /\ ActsHold' BY <1>5, <1>7, <1>8, <1>9, <1>11, ActGoes
  <2> QED BY <1>1, <1>7, <2>1, HubKept
<1> QED BY <1>6, <1>10, <1>11

LEMMA RenewKept == ASSUME HubInv, NEW a \in Acts, S!Renew(a) PROVE HubInv'
<1>1. UNCHANGED <<gens, keepers, open, lists, vault>> BY DEF S!Renew
<1>2. PICK c, h, s : c = acts[a] /\ s = c.name /\ h = c.held + 1 OBVIOUS
<1>3. PICK r : r = [c EXCEPT !.held = h, !.at = "keep"] OBVIOUS
<1>4. AnAct(c) /\ s \in Servers BY <1>2, ActsAre DEF S!Renew, S!Task, Idle
<1>5. AnAct(r) /\ r.name = s /\ r.at = "keep" /\ r.held = h BY <1>2, <1>3, <1>4 DEF AnAct
<1>6. S!Refresh(s, c.held) BY <1>2 DEF S!Renew
<1>7. PICK had : had = c.held OBVIOUS
<1>8. Ages BY <1>4, <1>6, <1>7, AgesRefreshed
<1>9. StoreHolds' BY <1>1, <1>8, StoreOn
<1>10. CASE c.held = valid[s].login
  <2>1. S!To(a, r) /\ UNCHANGED entries BY <1>2, <1>3, <1>10 DEF S!Renew
  <2>2. valid' = [valid EXCEPT ![s] = [login |-> valid[s].login + 1, ended |-> FALSE]] BY <1>6, <1>10 DEF S!Refresh
  <2>3. s \in DOMAIN valid /\ valid[s].login \in Nat BY <1>4 DEF HubInv, Tokened
  <2>4. valid'[s].login = valid[s].login + 1 BY <2>2, <2>3
  <2>5. r.held \in 0 .. valid'[r.name].login BY <1>2, <1>5, <1>10, <2>3, <2>4
  <2>6. r.name \in Servers BY <1>4, <1>5
  <2>7. ActTypes' /\ ActsHold' BY <1>5, <1>8, <1>9, <2>1, <2>5, <2>6, ActGoes
  <2>8. open' \subseteq open BY <1>1
  <2> QED BY <1>1, <1>8, <2>1, <2>7, <2>8, HubKept
<1>11. CASE c.held # valid[s].login
  <2>1. S!Relinked(a, "needs-auth") BY <1>2, <1>11 DEF S!Renew
  <2>2. S!Says(a) /\ entries' = [entries EXCEPT ![s].link = IF @ = "none" THEN @ ELSE "needs-auth"] BY <1>2, <2>1 DEF S!Relinked
  <2>3. ActTypes' /\ ActsHold' BY <1>8, <1>9, <2>2, SaysIs
  <2>4. PICK link \in {"failed", "needs-auth"} : link = "needs-auth" OBVIOUS
  <2>5. entries' = [entries EXCEPT ![s].link = IF @ = "none" THEN @ ELSE link] BY <2>2, <2>4
  <2> QED BY <1>1, <1>4, <1>8, <2>3, <2>4, <2>5, RelinkedKept
<1> QED BY <1>10, <1>11

\* A server connects again when it may run, and the act that asked for it waits for it or ends.
LEMMA LaunchedKept ==
  ASSUME HubInv, Ages, StoreHolds', UNCHANGED <<open, lists>>, NEW a \in Acts, NEW s \in Servers, NEW r,
         AnAct(r), r.name = s, r.at = "settle",
         IF S!Runs(entries[s].def) THEN S!Becomes(S!Launch(S!Hub, s)) /\ S!To(a, r) ELSE S!Says(a) /\ UNCHANGED S!hub
  PROVE  HubInv'
<1>1. CASE S!Runs(entries[s].def)
  <2>1. S!Becomes(S!Launch(S!Hub, s)) /\ S!To(a, r) BY <1>1
  <2>2. r.name \in Servers /\ r.at # "keep" OBVIOUS
  <2>3. ActTypes' /\ ActsHold' BY <2>1, <2>2, ActGoes
  <2>4. Relaunch({s}, {s}, entries) BY <1>1, <2>1, LaunchIs
  <2>5. PICK ch, put : ch = {s} /\ put = entries OBVIOUS
  <2>6. Relaunch(ch, ch, put) BY <2>4, <2>5
  <2> QED BY <2>3, <2>6, RelaunchKept
<1>2. CASE ~S!Runs(entries[s].def)
  <2>1. S!Says(a) /\ UNCHANGED <<entries, gens, keepers>> BY <1>2 DEF S!hub
  <2>2. ActTypes' /\ ActsHold' BY <2>1, SaysIs
  <2>3. open' \subseteq open /\ UNCHANGED <<entries, gens, keepers, lists>> BY <2>1
  <2> QED BY <2>2, <2>3, HubKept
<1> QED BY <1>1, <1>2

LEMMA KeepKept == ASSUME HubInv, NEW a \in Acts, S!Keep(a) PROVE HubInv'
<1>1. UNCHANGED <<open, lists, valid>> BY DEF S!Keep, S!world
<1>2. PICK c, s : c = acts[a] /\ s = c.name OBVIOUS
<1>3. AnAct(c) /\ s \in Servers /\ c.held \in 0 .. valid[s].login BY <1>2, ActsAre DEF S!Keep, S!Task, Idle
<1>4. Ages BY <1>1, AgesAlike
<1>5. CASE /\ vault' = [vault EXCEPT ![s] = c.held]
           /\ IF S!Runs(entries[s].def) THEN S!Becomes(S!Launch(S!Hub, s)) /\ S!To(a, [c EXCEPT !.held = 0, !.at = "settle"])
              ELSE S!Says(a) /\ UNCHANGED S!hub
  <2>1. StoreHolds'
    <3>1. vault' = [t \in Servers |-> vault'[t]] BY <1>5 DEF HubInv, Tokened
    <3>2. \A t \in Servers : vault'[t] \in 0 .. valid[t].login BY <1>3, <1>5 DEF HubInv, Tokened
    <3> QED BY <1>1, <3>1, <3>2 DEF StoreHolds
  <2>2. PICK n : n = 0 OBVIOUS
  <2>3. PICK r : r = [c EXCEPT !.held = n, !.at = "settle"] OBVIOUS
  <2>4. AnAct(r) /\ r.name = s /\ r.at = "settle" BY <1>2, <1>3, <2>3 DEF AnAct
  <2>5. IF S!Runs(entries[s].def) THEN S!Becomes(S!Launch(S!Hub, s)) /\ S!To(a, r) ELSE S!Says(a) /\ UNCHANGED S!hub
    BY <1>5, <2>2, <2>3
  <2>6. UNCHANGED <<open, lists>> BY <1>1
  <2> QED BY <1>3, <1>4, <2>1, <2>4, <2>5, <2>6, LaunchedKept
<1>6. CASE S!Relinked(a, "failed") /\ UNCHANGED <<vault, gens, keepers>>
  <2>1. StoreHolds' BY <1>4, <1>6, StoreOn
  <2>2. S!Says(a) /\ entries' = [entries EXCEPT ![s].link = IF @ = "none" THEN @ ELSE "failed"] BY <1>2, <1>6 DEF S!Relinked
  <2>3. ActTypes' /\ ActsHold' BY <1>4, <2>1, <2>2, SaysIs
  <2>4. PICK link \in {"failed", "needs-auth"} : link = "failed" OBVIOUS
  <2>5. entries' = [entries EXCEPT ![s].link = IF @ = "none" THEN @ ELSE link] BY <2>2, <2>4
  <2>6. UNCHANGED <<gens, keepers, lists, open>> BY <1>1, <1>6
  <2> QED BY <1>3, <1>4, <2>3, <2>4, <2>5, <2>6, RelinkedKept
<1> QED BY <1>2, <1>5, <1>6 DEF S!Keep

LEMMA ControlKept == ASSUME HubInv, NEW a \in Acts, S!Control(a) PROVE HubInv'
<1>1. UNCHANGED <<open, lists>> BY DEF S!Control
<1>2. PICK c, s, e, t : c = acts[a] /\ s = c.name /\ e = entries[s] /\ t = TRUE OBVIOUS
<1>3. AnAct(c) /\ s \in Servers BY <1>2, ActsAre DEF S!Control, S!Task, Idle
<1>4. CASE S!Says(a) /\ UNCHANGED <<S!hub, vault, valid>>
  <2>1. UNCHANGED <<entries, gens, keepers, lists>> /\ open' \subseteq open BY <1>1, <1>4 DEF S!hub
  <2>2. Ages BY <1>4, AgesAlike
  <2>3. StoreHolds' BY <1>4, <2>2, StoreOn
  <2>4. ActTypes' /\ ActsHold' BY <1>4, <2>2, <2>3, SaysIs
  <2> QED BY <2>1, <2>2, <2>4, HubKept
<1>5. CASE S!To(a, [c EXCEPT !.tried = TRUE, !.at = "read"]) /\ UNCHANGED <<S!hub, vault, valid>>
  <2>1. UNCHANGED <<entries, gens, keepers, lists>> /\ open' \subseteq open BY <1>1, <1>5 DEF S!hub
  <2>2. Ages BY <1>5, AgesAlike
  <2>3. StoreHolds' BY <1>5, <2>2, StoreOn
  <2>4. PICK r : r = [c EXCEPT !.tried = t, !.at = "read"] OBVIOUS
  <2>5. AnAct(r) /\ r.name = s /\ r.at = "read" BY <1>2, <1>3, <2>4 DEF AnAct
  <2>6. S!To(a, r) BY <1>2, <1>5, <2>4
  <2>7. r.name \in Servers /\ r.at # "keep" BY <1>3, <2>5
  <2>8. ActTypes' /\ ActsHold' BY <2>2, <2>3, <2>5, <2>6, <2>7, ActGoes
  <2> QED BY <2>1, <2>2, <2>8, HubKept
<1>6. CASE /\ \/ S!Refresh(s, valid[s].login) /\ vault' = [vault EXCEPT ![s] = valid[s].login + 1]
              \/ vault' = [vault EXCEPT ![s] = 0] /\ UNCHANGED valid
              \/ UNCHANGED <<vault, valid>>
           /\ IF S!Runs(e.def) THEN S!Becomes(S!Launch(S!Hub, s)) /\ S!To(a, [c EXCEPT !.at = "settle", !.tried = TRUE])
              ELSE S!Says(a) /\ UNCHANGED S!hub
  <2>1. Ages
    <3>1. CASE S!Refresh(s, valid[s].login)
      <4>1. PICK had : had = valid[s].login OBVIOUS
      <4> QED BY <1>3, <3>1, <4>1, AgesRefreshed
    <3>2. CASE UNCHANGED valid BY <3>2, AgesAlike
    <3> QED BY <1>6, <3>1, <3>2
  <2>2. StoreHolds'
    <3>1. CASE UNCHANGED vault BY <2>1, <3>1, StoreOn
    <3>2. CASE vault' = [vault EXCEPT ![s] = 0] /\ UNCHANGED valid
      <4>1. \A u \in Servers : valid[u].login \in Nat BY DEF HubInv, Tokened
      <4>2. vault'[s] = 0 /\ \A u \in Servers : u # s => vault'[u] = vault[u] BY <1>3, <3>2 DEF HubInv, Tokened
      <4>3. 0 \in 0 .. valid[s].login BY <1>3, <4>1
      <4>4. \A u \in Servers : vault'[u] \in 0 .. valid[u].login BY <4>2, <4>3 DEF HubInv, Tokened
      <4>5. vault' = [u \in Servers |-> vault'[u]] BY <3>2 DEF HubInv, Tokened
      <4> QED BY <3>2, <4>4, <4>5 DEF StoreHolds
    <3>3. CASE S!Refresh(s, valid[s].login) /\ vault' = [vault EXCEPT ![s] = valid[s].login + 1]
      <4>1. valid' = [valid EXCEPT ![s] = [login |-> valid[s].login + 1, ended |-> FALSE]] BY <3>3 DEF S!Refresh
      <4>2. DOMAIN valid = Servers /\ \A u \in Servers : valid[u].login \in Nat BY DEF HubInv, Tokened
      <4>3. valid'[s].login = valid[s].login + 1 /\ \A u \in Servers : u # s => valid'[u] = valid[u] BY <1>3, <4>1, <4>2
      <4>4. vault' = [u \in Servers |-> vault'[u]] /\ vault'[s] = valid[s].login + 1 /\ \A u \in Servers : u # s => vault'[u] = vault[u]
        BY <1>3, <3>3 DEF HubInv, Tokened
      <4>5. \A u \in Servers : vault[u] \in 0 .. valid[u].login BY DEF HubInv, Tokened
      <4>6. vault'[s] \in 0 .. valid'[s].login BY <1>3, <4>2, <4>3, <4>4
      <4>7. \A u \in Servers : vault'[u] \in 0 .. valid'[u].login BY <4>3, <4>4, <4>5, <4>6
      <4> QED BY <4>4, <4>7 DEF StoreHolds
    <3> QED BY <1>6, <3>1, <3>2, <3>3
  <2>3. PICK r : r = [c EXCEPT !.at = "settle", !.tried = t] OBVIOUS
  <2>4. AnAct(r) /\ r.name = s /\ r.at = "settle" BY <1>2, <1>3, <2>3 DEF AnAct
  <2>5. IF S!Runs(entries[s].def) THEN S!Becomes(S!Launch(S!Hub, s)) /\ S!To(a, r) ELSE S!Says(a) /\ UNCHANGED S!hub
    BY <1>2, <1>6, <2>3
  <2> QED BY <1>1, <1>3, <2>1, <2>2, <2>4, <2>5, LaunchedKept
<1>7. \/ S!Says(a) /\ UNCHANGED <<S!hub, vault, valid>>
      \/ S!To(a, [c EXCEPT !.tried = TRUE, !.at = "read"]) /\ UNCHANGED <<S!hub, vault, valid>>
      \/ /\ \/ S!Refresh(s, valid[s].login) /\ vault' = [vault EXCEPT ![s] = valid[s].login + 1]
            \/ vault' = [vault EXCEPT ![s] = 0] /\ UNCHANGED valid
            \/ UNCHANGED <<vault, valid>>
         /\ IF S!Runs(e.def) THEN S!Becomes(S!Launch(S!Hub, s)) /\ S!To(a, [c EXCEPT !.at = "settle", !.tried = TRUE])
            ELSE S!Says(a) /\ UNCHANGED S!hub
  <2>1. CASE e = S!NoEntry BY <1>2, <2>1 DEF S!Control
  <2>2. CASE e # S!NoEntry /\ c.kind \in {"enable", "disable", "approve"} BY <1>2, <2>2 DEF S!Control
  <2>3. CASE e # S!NoEntry /\ c.kind \in {"login", "logout"} /\ e.def.run # "remote" BY <1>2, <2>3 DEF S!Control
  <2>4. CASE /\ e # S!NoEntry /\ c.kind \notin {"enable", "disable", "approve"}
             /\ ~(c.kind \in {"login", "logout"} /\ e.def.run # "remote")
    <3>1. /\ CASE c.kind = "login"  -> S!Refresh(s, valid[s].login) /\ vault' = [vault EXCEPT ![s] = valid[s].login + 1]
               [] c.kind = "logout" -> vault' = [vault EXCEPT ![s] = 0] /\ UNCHANGED valid
               [] OTHER             -> UNCHANGED <<vault, valid>>
          /\ IF S!Runs(e.def) THEN S!Becomes(S!Launch(S!Hub, s)) /\ S!To(a, [c EXCEPT !.at = "settle", !.tried = TRUE])
             ELSE S!Says(a) /\ UNCHANGED S!hub
      BY <1>2, <2>4 DEF S!Control
    <3>2. CASE c.kind = "login" BY <3>1, <3>2
    <3>3. CASE c.kind = "logout" BY <3>1, <3>3
    <3>4. CASE c.kind \notin {"login", "logout"} BY <3>1, <3>4
    <3> QED BY <3>2, <3>3, <3>4
  <2> QED BY <2>1, <2>2, <2>3, <2>4
<1> QED BY <1>4, <1>5, <1>6, <1>7

LEMMA CancelKept == ASSUME HubInv, NEW a \in Acts, S!Cancel(a) PROVE HubInv'
<1>1. UNCHANGED <<entries, gens, keepers, open, valid, lists, vault>> /\ S!Says(a) BY DEF S!Cancel, S!hub, S!world
<1>2. Ages BY <1>1, AgesAlike
<1>3. StoreHolds' BY <1>1, <1>2, StoreOn
<1>4. ActTypes' /\ ActsHold' BY <1>1, <1>2, <1>3, SaysIs
<1> QED BY <1>1, <1>2, <1>4, HubKept

-----------------------------------------------------------------------------
(* The outside of the servers.                                              *)

LEMMA CloseKept == ASSUME HubInv, NEW g \in open, S!Close(g) PROVE HubInv'
<1>1. UNCHANGED <<entries, gens, keepers, lists, valid, vault>> /\ open' \subseteq open BY DEF S!Close, S!hub
<1>2. Ages BY <1>1, AgesAlike
<1>3. acts' = [a \in Acts |-> IF acts[a].session = g THEN [acts[a] EXCEPT !.session = 0] ELSE acts[a]] BY DEF S!Close
<1>4. \A a \in Acts : AnAct(acts'[a]) /\ acts'[a].at = acts[a].at /\ acts'[a].name = acts[a].name /\ acts'[a].held = acts[a].held
  <2> SUFFICES ASSUME NEW a \in Acts
               PROVE  AnAct(acts'[a]) /\ acts'[a].at = acts[a].at /\ acts'[a].name = acts[a].name /\ acts'[a].held = acts[a].held
    OBVIOUS
  <2>1. PICK c, n : c = acts[a] /\ n = 0 OBVIOUS
  <2>2. PICK r : r = [c EXCEPT !.session = n] OBVIOUS
  <2>3. AnAct(c) BY <2>1, ActsAre
  <2>4. AnAct(r) /\ r.at = c.at /\ r.name = c.name /\ r.held = c.held BY <2>2, <2>3 DEF AnAct
  <2>5. acts'[a] = r \/ acts'[a] = c BY <1>3, <2>1, <2>2
  <2> QED BY <2>1, <2>3, <2>4, <2>5
<1>5. ActTypes'
  <2>1. \A a \in Acts : AnAct(acts[a])' BY <1>4 DEF AnAct
  <2>2. \A a \in Acts : acts'[a].at \notin Idle => acts'[a].name \in Servers BY <1>4, ActsAre
  <2>3. acts' = [a \in Acts |-> acts'[a]] BY <1>3
  <2> QED BY <2>1, <2>2, <2>3 DEF ActTypes
<1>6. ActsHold'
  <2>1. \A a \in Acts : acts'[a].at = "keep" => acts'[a].held \in 0 .. valid'[acts'[a].name].login BY <1>1, <1>4, ActsAre
  <2>2. StoreHolds' BY <1>1, <1>2, StoreOn
  <2> QED BY <2>1, <2>2 DEF ActsHold, StoreHolds
<1> QED BY <1>1, <1>2, <1>5, <1>6, HubKept

LEMMA EndKept == ASSUME HubInv, NEW s \in Servers, S!End(s) PROVE HubInv'
<1>1. UNCHANGED <<entries, gens, keepers, lists, vault, acts>> /\ open' \subseteq open BY DEF S!End, S!hub
<1>2. valid' = [valid EXCEPT ![s].ended = TRUE] BY DEF S!End
<1>3. Ages BY <1>2, AgesEnded
<1>4. ActTypes' /\ ActsHold' BY <1>1, <1>3, HoldsOn
<1> QED BY <1>1, <1>3, <1>4, HubKept

LEMMA EditKept == ASSUME HubInv, NEW s, NEW d, S!Edit(s, d) PROVE HubInv'
<1>1. UNCHANGED <<entries, gens, keepers, lists, valid, vault, acts>> /\ open' \subseteq open BY DEF S!Edit, S!hub
<1>2. Ages BY <1>1, AgesAlike
<1>3. ActTypes' /\ ActsHold' BY <1>1, <1>2, HoldsOn
<1> QED BY <1>1, <1>2, <1>3, HubKept

\* A list that changed is told to the keepers that are connected to its server.
LEMMA ListsKept == ASSUME HubInv, NEW s \in Servers, S!Lists(s) PROVE HubInv'
<1>1. UNCHANGED <<entries, gens, valid, vault, acts, open>> BY DEF S!Lists
<1>2. lists' = [lists EXCEPT ![s] = @ + 1] BY DEF S!Lists
<1>3. keepers' = [g \in DOMAIN keepers |-> IF g \in open /\ keepers[g].name = s THEN [keepers[g] EXCEPT !.notice = TRUE] ELSE keepers[g]]
  BY DEF S!Lists
<1>4. Ages BY <1>1, AgesAlike
<1>5. ActTypes' /\ ActsHold' BY <1>1, <1>4, HoldsOn
<1>6. ASSUME NEW g \in DOMAIN keepers
      PROVE  /\ AKeeper(keepers'[g]) /\ keepers'[g].name = keepers[g].name /\ keepers'[g].at = keepers[g].at
             /\ keepers'[g].aborted = keepers[g].aborted /\ keepers'[g].token = keepers[g].token
             /\ (g \in open /\ keepers[g].name = s => keepers'[g].notice = TRUE)
             /\ (~(g \in open /\ keepers[g].name = s) => keepers'[g] = keepers[g])
  <2>1. PICK q, t : q = keepers[g] /\ t = TRUE OBVIOUS
  <2>2. PICK k : k = [q EXCEPT !.notice = t] OBVIOUS
  <2>3. AKeeper(q) BY <2>1, KeeperFacts
  <2>4. AKeeper(k) /\ k.name = q.name /\ k.at = q.at /\ k.aborted = q.aborted /\ k.token = q.token /\ k.notice = t
    BY <2>2, <2>3 DEF AKeeper
  <2>5. keepers'[g] = IF g \in open /\ keepers[g].name = s THEN k ELSE q BY <1>3, <2>1, <2>2
  <2> QED BY <2>1, <2>3, <2>4, <2>5
<1>7. DOMAIN keepers' = DOMAIN keepers /\ keepers' = [g \in DOMAIN keepers' |-> keepers'[g]] BY <1>3
<1>8. \A g \in DOMAIN keepers : keepers[g].name \in Servers /\ keepers[g].at \in Places BY KeeperFacts
<1>9. EntryTypes' BY <1>1 DEF HubInv, EntryTypes, AnEntry
<1>10. KeeperTypes'
  <2>1. \A g \in DOMAIN keepers' : AKeeper(keepers[g])' BY <1>6, <1>7 DEF AKeeper
  <2>2. \A g \in DOMAIN keepers' : keepers'[g].name \in Servers /\ keepers'[g].at \in Places BY <1>6, <1>7, <1>8
  <2>3. DOMAIN keepers' \subseteq 1 .. gens' /\ open' \subseteq 1 .. gens' BY <1>1, <1>7 DEF HubInv, KeeperTypes
  <2> QED BY <1>7, <2>1, <2>2, <2>3 DEF KeeperTypes
<1>11. Tokened'
  <2>1. ASSUME NEW g \in DOMAIN keepers PROVE keepers'[g].token \in 0 .. valid'[keepers'[g].name].login
    <3>1. keepers[g].token \in 0 .. valid'[keepers[g].name].login BY <1>4, OthersHold
    <3>2. keepers'[g].token = keepers[g].token /\ keepers'[g].name = keepers[g].name BY <1>6
    <3> QED BY <3>1, <3>2
  <2> QED BY <2>1, <1>4, <1>5, <1>7 DEF Tokened, Ages, ActsHold
<1>12. S!Live' = S!Live BY <1>6, <1>7 DEF S!Live
<1>13. Owned'
  <2>1. \A t \in Servers : entries'[t].gen \in DOMAIN keepers' => keepers'[entries'[t].gen].name = t
    BY <1>1, <1>6, <1>7 DEF HubInv, Owned
  <2>2. \A g \in DOMAIN keepers' : keepers'[g].aborted \/ entries'[keepers'[g].name].gen = g BY <1>1, <1>6, <1>7 DEF HubInv, Owned
  <2>3. ASSUME NEW g \in DOMAIN keepers', keepers'[g].aborted PROVE entries'[keepers'[g].name].gen # g
    <3>1. keepers[g].aborted /\ keepers'[g].name = keepers[g].name BY <1>6, <1>7, <2>3
    <3>2. entries[keepers[g].name].gen # g BY <1>7, <3>1 DEF HubInv, Owned
    <3> QED BY <1>1, <3>1, <3>2
  <2>4. \A g \in S!Live : keepers'[g].name = keepers[g].name BY <1>6 DEF S!Live
  <2>5. \A g \in S!Live' : S!Runs(entries'[keepers'[g].name].def) BY <1>1, <1>12, <2>4 DEF HubInv, Owned
  <2>6. \A g \in S!Live' : S!Runs(entries[keepers[g].name].def)' BY <2>5 DEF S!Runs, S!Defined
  <2> QED BY <2>1, <2>2, <2>3, <2>6 DEF Owned
<1>14. S!LinkIsTrue'
  <2>1. \A g \in S!Live : keepers'[g].at = keepers[g].at BY <1>6 DEF S!Live
  <2> QED BY <1>1, <1>12, <2>1 DEF HubInv, S!LinkIsTrue
<1>15. Heeding'
  <2>1. DOMAIN lists = Servers BY DEF HubInv, Heeding
  <2>2. lists' = [t \in Servers |-> lists'[t]] /\ \A t \in Servers : t # s => lists'[t] = lists[t] BY <1>2, <2>1
  <2>3. ASSUME NEW g \in DOMAIN keepers', ~keepers'[g].aborted, keepers'[g].at = "heed", g \in open', ~keepers'[g].notice, ~keepers'[g].missed,
               S!Takes(keepers[g])'
        PROVE  entries'[keepers'[g].name].offered = lists'[keepers'[g].name]
    <3>1. keepers[g].name # s /\ keepers'[g] = keepers[g] BY <1>1, <1>6, <1>7, <2>3
    <3>2. S!Takes(keepers[g]) /\ keepers[g].name \in Servers BY <1>4, <1>7, <2>3, <3>1, OthersHold
    <3>3. g \in S!Live BY <1>7, <2>3, <3>1 DEF S!Live
    <3>4. entries[keepers[g].name].offered = lists[keepers[g].name] BY <1>1, <2>3, <3>1, <3>2, <3>3 DEF HubInv, Heeding
    <3> QED BY <1>1, <2>2, <3>1, <3>2, <3>4
  <2>4. \A g \in DOMAIN keepers' : keepers'[g].at # "heed" => g \notin open' BY <1>1, <1>6, <1>7 DEF HubInv, Heeding
  <2> QED BY <2>2, <2>3, <2>4 DEF Heeding, S!Live
<1> QED BY <1>5, <1>9, <1>10, <1>11, <1>13, <1>14, <1>15 DEF HubInv

-----------------------------------------------------------------------------
(* The servers of tools stay right.                                         *)

LEMMA HubStutters == ASSUME HubInv, UNCHANGED ofServers PROVE HubInv'
<1>1. UNCHANGED <<entries, gens, keepers, lists, valid, vault, acts, open>> BY DEF ofServers
<1>2. Ages BY <1>1, AgesAlike
<1>3. ActTypes' /\ ActsHold' BY <1>1, <1>2, HoldsOn
<1>4. open' \subseteq open BY <1>1
<1> QED BY <1>1, <1>2, <1>3, <1>4, HubKept

LEMMA HubInit == S!Init => HubInv
<1> SUFFICES ASSUME S!Init PROVE HubInv OBVIOUS
<1>1. PICK e, c, n : e = S!NoEntry /\ c = S!Fresh /\ n = [login |-> 1, ended |-> FALSE] OBVIOUS
<1>2. AnEntry(e) /\ e.gen = 0 /\ e.link = "none" BY <1>1 DEF S!NoEntry, AnEntry
<1>3. AnAct(c) /\ c.at = "new" BY <1>1 DEF S!Fresh, AnAct
<1>4. ALogin(n) /\ n.login = 1 BY <1>1 DEF ALogin
<1>5. entries = [s \in Servers |-> e] /\ gens = 0 /\ acts = [a \in Acts |-> c] /\ valid = [s \in Servers |-> n]
      /\ vault = [s \in Servers |-> 1] /\ lists = [s \in Servers |-> 0] /\ open = {} /\ keepers = [g \in {} |-> 0]
  BY <1>1 DEF S!Init
<1>6. DOMAIN keepers = {} BY <1>5
<1>7. S!Live = {} BY <1>6 DEF S!Live
<1>8. EntryTypes BY <1>2, <1>5 DEF EntryTypes, Links
<1>9. KeeperTypes BY <1>5, <1>6 DEF KeeperTypes
<1>10. ActTypes BY <1>3, <1>5 DEF ActTypes, Idle
<1>11. Tokened
  <2>1. \A s \in Servers : ALogin(valid[s]) /\ valid[s].login \in Nat /\ vault[s] \in 0 .. valid[s].login BY <1>4, <1>5
  <2>2. \A a \in Acts : acts[a].at # "keep" BY <1>3, <1>5
  <2> QED BY <1>5, <1>6, <2>1, <2>2 DEF Tokened
<1>12. Owned BY <1>6, <1>7 DEF Owned
<1>13. S!LinkIsTrue BY <1>2, <1>5 DEF S!LinkIsTrue
<1>14. Heeding BY <1>5, <1>6, <1>7 DEF Heeding
<1> QED BY <1>8, <1>9, <1>10, <1>11, <1>12, <1>13, <1>14 DEF HubInv

LEMMA HubNext == HubInv /\ [S!Next]_ofServers => HubInv'
<1> SUFFICES ASSUME HubInv, [S!Next]_ofServers PROVE HubInv' OBVIOUS
<1>1. CASE UNCHANGED ofServers BY <1>1, HubStutters
<1>2. ASSUME NEW g \in 1 .. gens, S!KeeperSteps(g) \/ S!Fails(g) \/ S!Close(g) PROVE HubInv'
  <2>1. CASE S!Close(g)
    <3>1. g \in open BY <2>1 DEF S!Close
    <3> QED BY <2>1, <3>1, CloseKept
  <2> QED BY <1>2, <2>1, KeeperKept
<1>3. ASSUME NEW a \in Acts, S!TaskSteps(a) \/ S!Cancel(a) PROVE HubInv'
  BY <1>3, ReadKept, ApplyKept, SettleKept, AnswerKept, RenewKept, KeepKept, ControlKept, CancelKept DEF S!TaskSteps
<1>4. ASSUME NEW a \in Acts, NEW k \in Kinds, NEW s \in Servers, S!Take(a, k, s) PROVE HubInv' BY <1>4, TakeKept
<1>5. ASSUME NEW s \in Servers, S!End(s) \/ S!Lists(s) PROVE HubInv' BY <1>5, EndKept, ListsKept
<1>6. ASSUME NEW s \in Servers, NEW d, S!Edit(s, d) PROVE HubInv' BY <1>6, EditKept
<1> QED BY <1>1, <1>2, <1>3, <1>4, <1>5, <1>6 DEF S!Next

LEMMA ServersAreRight == HubInv => S!TypeOK /\ S!ServersHold
<1> SUFFICES ASSUME HubInv PROVE S!TypeOK /\ S!ServersHold OBVIOUS
<1>1. S!TypeOK BY DEF HubInv, EntryTypes, KeeperTypes, Links, S!TypeOK
<1>2. S!OneKeeper
  <2>1. \A g \in S!Live : S!Own(g) BY LiveOwns DEF S!Live
  <2> QED BY <2>1 DEF HubInv, Owned, S!OneKeeper
<1>3. S!OffersHold
  <2> SUFFICES ASSUME NEW s \in Servers, entries[s].link = "connected", entries[s].gen \in open, ~keepers[entries[s].gen].notice,
                           ~keepers[entries[s].gen].missed,
                      S!Takes(keepers[entries[s].gen])
               PROVE  entries[s].offered = lists[s]
    BY DEF S!OffersHold
  <2>1. PICK g : g = entries[s].gen OBVIOUS
  <2>2. g \in S!Live /\ keepers[g].at = "heed" BY <2>1 DEF HubInv, S!LinkIsTrue
  <2>3. keepers[g].name = s BY <2>1, <2>2 DEF HubInv, Owned, S!Live
  <2>4. entries[keepers[g].name].offered = lists[keepers[g].name] BY <2>1, <2>2 DEF HubInv, Heeding
  <2> QED BY <2>3, <2>4
<1> QED BY <1>1, <1>2, <1>3 DEF HubInv, S!ServersHold

-----------------------------------------------------------------------------
(* The servers and their wires.                                             *)

\* The link of a server is true to the one keeper that it has, and a connected one offers what its lists hold, for any number of
\* servers, acts, definitions, retries and faults; and a request of a wire comes to its own answer alone, before the end of its
\* connection, for any requests, notes and asks of a server (Hub, Peer, Waiting).
THEOREM ToolsTheorem == Spec => []ToolsHold
<1>1. Init => WireInv /\ HubInv BY WireInit, HubInit DEF Init
<1>2. WireInv /\ HubInv /\ [Next]_vars => WireInv' /\ HubInv'
  <2> SUFFICES ASSUME WireInv, HubInv, [Next]_vars PROVE WireInv' /\ HubInv' OBVIOUS
  <2>1. [N!Next]_ofWires /\ [S!Next]_ofServers BY DEF Next, Work, Ears, Hub, Wires, vars
  <2> QED BY <2>1, WireNext, HubNext
<1>3. WireInv /\ HubInv => ToolsHold BY WiresAreRight, ServersAreRight DEF ToolsHold
<1> QED BY <1>1, <1>2, <1>3, PTL DEF Spec
=============================================================================
