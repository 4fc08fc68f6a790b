------------------------------- MODULE Journal -------------------------------
(***************************************************************************)
(* The journal of the engine: what a life keeps of its facts, and how a later *)
(* life says the record again, while the words of its rungs run again and      *)
(* make their acts again.                                                   *)
(*                                                                         *)
(* The word of a rung makes two equal acts, waits for both, and then makes a  *)
(* third, whose words hold what it saw: what the first came to, or which acts  *)
(* of the life were over. The outside takes each act, and says it started, and *)
(* later done.                                                              *)
(***************************************************************************)
EXTENDS Naturals, Sequences, FiniteSets, SequencesExt, FiniteSetsExt, TLC

CONSTANTS Rungs, Peeking, Values, MaxLives, MaxActs

VARIABLES
  record,  \* the facts that the record holds, in order
  life,    \* the number of this life
  rungs,   \* the rungs that this life holds
  acts,    \* the acts that this life holds, by number
  over,    \* what each act that is over came to
  log,     \* the facts said that the life has not dispatched
  saved,   \* the record as this life opened on it
  due,     \* the places in it of the facts that this life has yet to say again
  taken,   \* the acts that the record shows started, which the journal holds until a wake
  asked,   \* the acts of the record that no act of this life was matched with
  offered, \* the acts that this life put to the outside
  told     \* the facts that this life dispatched, in order

vars == <<record, life, rungs, acts, over, log, due, saved, taken, asked, offered, told>>
state == [rungs |-> rungs, acts |-> acts, over |-> over, log |-> log, due |-> due, taken |-> taken,
          asked |-> asked, offered |-> offered]

Quest(n, by, words) == <<"act", n, by, words>>
IsQuest(f)  == f[1] \in {"act", "rung"}
Empty == [n \in {} |-> 0]
None  == "none"

\* The first fact that says an act started, or is done, which the life says again as the act is made again.
FirstOf(facts, n) ==
  LET at == {i \in 1 .. Len(facts) : facts[i][1] \in {"started", "done"} /\ facts[i][2] = n}
  IN IF at = {} THEN 0 ELSE Min(at)

Init ==
  /\ record = <<>> /\ life = 1 /\ rungs = {} /\ acts = Empty /\ over = Empty /\ log = <<>> /\ due = <<>>
  /\ saved = <<>> /\ taken = {} /\ asked = <<>> /\ offered = {} /\ told = <<>>

(* ---- what a word makes ---- *)

\* The acts that a rung made, in the order in which it made them.
Of(s, r) ==
  LET mine == {n \in DOMAIN s.acts : s.acts[n].by = r}
  IN [k \in 1 .. Cardinality(mine) |-> CHOOSE n \in mine : s.acts[n].place = k]

\* The words of the next act of a rung, from what it saw, or none while it waits.
Saw(s, r) ==
  LET mine == Of(s, r) IN
  CASE Len(mine) < 2 -> {<<"x">>}
    [] Len(mine) = 2 /\ {mine[1], mine[2]} \subseteq DOMAIN s.over ->
         {IF r \in Peeking THEN <<"saw", DOMAIN s.over>> ELSE <<"gave", s.over[mine[1]]>>}
    [] OTHER -> {}

\* What a life owes its record, from the first fact that is no question that it holds already.
Known(s, f) == (f[1] = "act" /\ f[2] \in DOMAIN s.acts) \/ (f[1] = "rung" /\ f[2] \in s.rungs)
From(s, at) == IF at = {} THEN <<>> ELSE SubSeq(s.due, Min(at), Len(s.due))
Owed(s) == From(s, {i \in 1 .. Len(s.due) : ~Known(s, saved[s.due[i]])})

\* A form that takes the last of the equal acts of the record.
MatchLast(s, r, words) ==
  LET at == {i \in 1 .. Len(s.asked) : s.asked[i][3] = r /\ s.asked[i][4] = words}
  IN IF at = {} THEN 0 ELSE Max(at)

\* An act that a word makes is found in the record by its maker and its words: the first that no act was matched
\* with.
Match(s, r, words) ==
  LET at == {i \in 1 .. Len(s.asked) : s.asked[i][3] = r /\ s.asked[i][4] = words}
  IN IF at = {} THEN 0 ELSE Min(at)

\* An act of no match takes a number past every number of the record and of the life.
Fresh(s) == Max({0} \cup DOMAIN s.acts \cup {saved[i][2] : i \in {j \in 1 .. Len(saved) : saved[j][1] = "act"}}) + 1

\* One fact of the record said again.
Repeats(s, f) ==
  [s EXCEPT !.log = Append(@, <<"again">> \o f), !.over = IF f[1] = "done" THEN (f[2] :> f[3]) @@ @ ELSE @]

\* What stands in the record before the first fact of an act, up to a question that no word made again.
Before(s, rank) ==
  LET stops == {i \in 1 .. Len(s.due) : IF IsQuest(saved[s.due[i]]) THEN ~Known(s, saved[s.due[i]]) ELSE s.due[i] > rank}
  IN IF stops = {} THEN Len(s.due) ELSE Min(stops) - 1

RepeatsAt(s, i) == IF IsQuest(saved[i]) THEN s ELSE Repeats(s, saved[i])

\* An act made: named, known, its first fact said again when the record holds one, or put to the outside once the
\* record is said, and refused before, since nothing takes it; an act that the record shows started waits for a wake.
Made(s, r, words) ==
  LET at    == Match(s, r, words)
      n     == IF at = 0 THEN Fresh(s) ELSE s.asked[at][2]
      rank  == FirstOf(saved, n)
      fact  == Quest(n, r, words)
      known == [s EXCEPT !.acts = (n :> [by |-> r, words |-> words, place |-> Len(Of(s, r)) + 1]) @@ @, !.log = Append(@, fact),
                         !.asked = IF at = 0 THEN @ ELSE RemoveAt(@, at)]
      here  == Before(known, rank)
      said  == FoldLeft(RepeatsAt, [known EXCEPT !.due = SubSeq(@, here + 1, Len(@))], SubSeq(known.due, 1, here))
      first == Repeats([said EXCEPT !.taken = IF saved[rank][1] = "started" THEN @ \cup {n} ELSE @], saved[rank])
  IN CASE rank > 0           -> first
       [] Owed(known) = <<>> -> [known EXCEPT !.due = <<>>, !.offered = @ \cup {n}, !.log = Append(@, <<"started", n>>)]
       [] OTHER              -> [known EXCEPT !.over = (n :> "refused") @@ @, !.log = Append(@, <<"done", n, "refused">>)]

\* A word goes on until it waits: it makes three acts at most.
Goes(s, r) ==
  LET Makes(t, k) == IF Saw(t, r) = {} THEN t ELSE CHOOSE m \in {Made(t, r, w) : w \in Saw(t, r)} : TRUE
  IN FoldLeft(Makes, s, <<1, 2, 3>>)

Becomes(s) ==
  /\ rungs' = s.rungs /\ acts' = s.acts /\ over' = s.over /\ log' = s.log /\ due' = s.due /\ taken' = s.taken
  /\ asked' = s.asked /\ offered' = s.offered

Room == Cardinality(DOMAIN acts) + 3 <= MaxActs

\* A rung that the operator makes: its word runs at once.
Rung(s, r) == Goes([s EXCEPT !.rungs = @ \cup {r}, !.log = Append(@, <<"rung", r>>)], r)

Quiet == log = <<>> /\ Owed(state) = <<>>

Operator(r) == /\ Quiet /\ r \notin rungs /\ Becomes(Rung(state, r)) /\ UNCHANGED <<record, life, saved, told>>

\* What an act comes to is told apart where the words of a later act hold it.
Outcomes(n) == IF acts[n].by \in Peeking \/ acts[n].words # <<"x">> THEN {None} ELSE Values

\* The outside says an act done that it took in this life.
Done(n) ==
  /\ Quiet /\ n \in offered \ DOMAIN over
  /\ \E v \in Outcomes(n) : over' = (n :> v) @@ over /\ log' = Append(log, <<"done", n, v>>)
  /\ UNCHANGED <<record, life, rungs, acts, due, saved, taken, asked, offered, told>>

\* A wake of this life puts to the outside each act that the journal holds and that is not over.
Wake ==
  /\ Quiet /\ taken \ DOMAIN over # {} /\ taken' = {} /\ offered' = offered \cup (taken \ DOMAIN over)
  /\ log' = [i \in 1 .. Cardinality(taken \ DOMAIN over) |-> <<"started", SetToSeq(taken \ DOMAIN over)[i]>>]
  /\ UNCHANGED <<record, life, rungs, acts, over, due, saved, asked, told>>

(* ---- the dispatch ---- *)

\* A form that keeps each act of a word, whether the record holds it or not.
KeptAlways(f) == f[1] # "again"

\* What the journal keeps: what the operator and the outside say, and each act of a word that the record does not
\* hold; what it says again it keeps not again.
Kept(f) ==
  /\ f[1] # "again" /\ (f[1] = "rung" => ~Contains(saved, f))
  /\ f[1] = "act" => \A i \in 1 .. Len(saved) : saved[i][1] = "act" => saved[i][2] # f[2]

\* The next fact is heard: the word that waited for the act that it ends goes on, and the journal keeps it.
Dispatch ==
  /\ log # <<>>
  /\ LET f    == Head(log)
         fact == IF f[1] = "again" THEN Tail(f) ELSE f
         s    == [state EXCEPT !.log = Tail(@)]
     IN /\ Becomes(IF fact[1] = "done" THEN Goes(s, acts[fact[2]].by) ELSE s)
        /\ record' = IF Kept(f) THEN Append(record, f) ELSE record
        /\ told' = Append(told, fact)
  /\ UNCHANGED <<life, saved>>

\* The life is quiet and owes the record a fact: a rung of the operator is made again, a fact is said again, and an
\* act that a word is to make again is left to that word.
Recount ==
  /\ log = <<>> /\ Owed(state) # <<>>
  /\ LET owed == Owed(state)
         f    == saved[Head(owed)]
         s    == [state EXCEPT !.due = Tail(owed)]
     IN Becomes(CASE f[1] = "rung" -> Rung(s, f[2])
                  [] f[1] = "act"  -> s
                  [] OTHER         -> IF f[2] \in DOMAIN acts THEN Repeats(s, f) ELSE s)
  /\ UNCHANGED <<record, life, saved, told>>

\* The process ends at any point, and a later life opens on the record.
Restart ==
  /\ life < MaxLives /\ life' = life + 1 /\ record # <<>>
  /\ rungs' = {} /\ acts' = Empty /\ over' = Empty /\ log' = <<>> /\ saved' = record /\ taken' = {} /\ offered' = {} /\ told' = <<>>
  /\ asked' = SelectSeq(record, LAMBDA f : f[1] = "act")
  /\ due' = SelectSeq([i \in 1 .. Len(record) |-> i], LAMBDA i : i \notin {FirstOf(record, n) : n \in 1 .. MaxActs})
  /\ UNCHANGED record

Next == (\E r \in Rungs : Room /\ Operator(r)) \/ (\E n \in 1 .. MaxActs : Done(n)) \/ Wake \/ Dispatch \/ Recount \/ Restart
Spec == Init /\ [][Next]_vars

-----------------------------------------------------------------------------
TypeOK ==
  /\ rungs \subseteq Rungs /\ DOMAIN acts \subseteq 1 .. MaxActs /\ DOMAIN over \subseteq DOMAIN acts
  /\ taken \cup offered \subseteq DOMAIN acts /\ life <= MaxLives

SavedActs == {i \in 1 .. Len(saved) : saved[i][1] = "act"}

\* Each act of the record is made again under its name, by its maker, with its words, and comes to what the record
\* says it came to (matched, recount).
SaysAgain ==
  Quiet =>
    /\ \A i \in SavedActs : saved[i][2] \in DOMAIN acts /\ acts[saved[i][2]].by = saved[i][3] /\ acts[saved[i][2]].words = saved[i][4]
    /\ \A i \in 1 .. Len(saved) : saved[i][1] = "done" => saved[i][2] \in DOMAIN over /\ over[saved[i][2]] = saved[i][3]

\* A life that owes its record nothing has dispatched the facts of the record, each once, in their order (recount,
\* ranks).
InOrder == Quiet => told = record

\* While the life says its record again, no word makes an act that the record does not hold (strays, drift).
NoStray == Owed(state) # <<>> => \A n \in DOMAIN acts : \E i \in SavedActs : saved[i][2] = n

\* The outside takes no act twice: what the record shows started is put to it by a wake alone (offers).
NoneTwice == taken \cap offered = {} /\ \A n \in offered : n \notin DOMAIN over \/ ~\E i \in 1 .. Len(saved) : saved[i][1] = "done" /\ saved[i][2] = n

\* The record holds each act once, and each done once, after the act that it ends.
RecordOnce ==
  \A i, j \in 1 .. Len(record) :
    /\ i # j /\ IsQuest(record[i]) => record[j] # record[i] /\ (record[i][1] = "act" /\ record[j][1] = "act" => record[i][2] # record[j][2])
    /\ record[i][1] = "done" /\ record[j][1] = "act" /\ record[j][2] = record[i][2] => j < i

JournalHolds == SaysAgain /\ InOrder /\ NoStray /\ NoneTwice /\ RecordOnce
=============================================================================
