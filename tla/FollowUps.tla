------------------------------ MODULE FollowUps ------------------------------
(***************************************************************************)
(* The queue of the follow-ups of a life (host/src/queue.rs): a fold of    *)
(* the events of the life, and what the record alone says of a chain.      *)
(* A fact is what the engine says about a chain, an entry of the queue or  *)
(* an act; an act is its place among the acts of the record. Work stands   *)
(* for each act that keeps a chain from rest: prompts, to a model or to    *)
(* the operator, and what words run.                                       *)
(***************************************************************************)
EXTENDS Naturals, Sequences, FiniteSets, SequencesExt

CONSTANTS Chains,     \* the chains of the life
          MaxEntries  \* bound: the entries that windows choose

ASSUME FollowUpsAssumption == MaxEntries \in Nat

Entries == 1 .. MaxEntries
NONE    == 0

Steps == {"none", "waits", "sending", "sent", "dropped"}

\* The facts of the queue, the prompts of the operator and the work of another, the end of an act,
\* and a control of a chain.
QueueKinds == {"add", "drop", "begin", "sent", "failed"}
FactKinds  == QueueKinds \cup {"prompt", "work", "done", "pause", "wake"}

Fact(kind, on, entry, act) == [kind |-> kind, on |-> on, entry |-> entry, act |-> act]

\* Another event: a chain rests now, or works.
Act(on, rests) == [kind |-> "chain", on |-> on, rests |-> rests]

-----------------------------------------------------------------------------
(* What a record says of the engine that opens on it.                       *)

Of(facts, kinds) == {i \in DOMAIN facts : facts[i].kind \in kinds}

Made(facts) == Cardinality(Of(facts, {"prompt", "work"}))

\* The work of a chain that lives.
Live(facts, c) ==
  {facts[i].act : i \in {k \in Of(facts, {"prompt", "work"}) : facts[k].on = c}}
    \ {facts[i].act : i \in Of(facts, {"done"})}

Paused(facts, c) ==
  \E i \in Of(facts, {"pause"}) :
    facts[i].on = c /\ \A k \in Of(facts, {"wake"}) : facts[k].on = c => k < i

\* A chain rests: no pause holds it, and no work of it lives.
Rests(facts, c) == Live(facts, c) = {} /\ ~Paused(facts, c)

\* The events that the life tells of facts said after others: each fact, then the act of its chain
\* when it changed.
Events(before, facts) ==
  LET Till(i) == before \o SubSeq(facts, 1, i)
      Told(i) == LET c == facts[i].on
                 IN  IF Rests(Till(i), c) = Rests(Till(i - 1), c) THEN <<facts[i]>>
                     ELSE <<facts[i], Act(c, Rests(Till(i), c))>>
  IN  FlattenSeq([i \in DOMAIN facts |-> Told(i)])

-----------------------------------------------------------------------------
(* The queue.                                                               *)

NoQueue ==
  [step   |-> [e \in Entries |-> "none"],   \* where each follow-up stands
   act    |-> [e \in Entries |-> NONE],     \* the prompt that it went as
   failed |-> {},                           \* those whose send failed
   order  |-> [c \in Chains |-> <<>>],      \* the follow-ups of each chain, as queued
   begun  |-> NONE,                         \* the one whose send began with the last fact
   rests  |-> {},                           \* the chains that rest, by what their acts told
   last   |-> [c \in Chains |-> NONE]]      \* the live prompt of the last follow-up of each chain

Queues ==
  [step : [Entries -> Steps], act : [Entries -> Nat], failed : SUBSET Entries,
   order : [Chains -> Seq(Entries)], begun : Entries \cup {NONE},
   rests : SUBSET Chains, last : [Chains -> Nat]]

Holds(q, e) == e \in Entries /\ q.step[e] # "none"

Waiting(q, c) == SelectSeq(q.order[c], LAMBDA e : q.step[e] = "waits")

DueUnlessLast(q) ==
  {c \in q.rests : q.last[c] = NONE /\ SelectSeq(Waiting(q, c), LAMBDA e : e \notin q.failed) # <<>>}

\* The chains whose first follow-up the life sends now.
Due(q) ==
  {c \in q.rests : q.last[c] = NONE /\ Waiting(q, c) # <<>> /\ Waiting(q, c)[1] \notin q.failed}

\* A follow-up moves to a step unless it went as a prompt or was dropped.
Moved(q, e, step, act) ==
  IF q.step[e] \in {"none", "sent", "dropped"} THEN q
  ELSE [q EXCEPT !.step[e] = step, !.act[e] = act]

EndedNever(q, act) == q

\* The end of an act, which lets the next follow-up go when it is the prompt of the last one.
Ended(q, act) == [q EXCEPT !.last = [c \in Chains |-> IF @[c] = act THEN NONE ELSE @[c]]]

SteppedAtTheEnd(q, f) ==
  CASE f.kind = "add" /\ ~Holds(q, f.entry) ->
         [q EXCEPT !.step[f.entry] = "waits", !.order[f.on] = Append(@, f.entry)]
    [] f.kind = "drop"  -> Moved(q, f.entry, "dropped", NONE)
    [] f.kind = "begin" -> [q EXCEPT !.begun = f.entry]
    [] f.kind = "sent"  -> Moved(q, f.entry, "sent", f.act)
    [] f.kind = "failed" /\ Holds(q, f.entry) -> [q EXCEPT !.failed = @ \cup {f.entry}]
    [] OTHER -> q

\* A fact of the queue.
Stepped(q, f) ==
  CASE f.kind = "add" /\ ~Holds(q, f.entry) ->
         [q EXCEPT !.step[f.entry] = "waits", !.order[f.on] = Append(@, f.entry)]
    [] f.kind = "drop"   -> Moved(q, f.entry, "dropped", NONE)
    [] f.kind = "begin"  -> Moved([q EXCEPT !.begun = f.entry], f.entry, "sending", NONE)
    [] f.kind = "sent"   -> Moved(q, f.entry, "sent", f.act)
    [] f.kind = "failed" /\ Holds(q, f.entry) ->
         [q EXCEPT !.step[f.entry] = "waits", !.failed = @ \cup {f.entry}]
    [] OTHER -> q

\* A fact of the operator ends what began: its prompt is the act of the send that began.
Operated(q, f) ==
  LET p == [q EXCEPT !.begun = NONE]
  IN  IF f.kind # "prompt" THEN Stepped(p, f)
      ELSE IF Holds(q, q.begun) THEN [p EXCEPT !.step[q.begun] = "sent", !.act[q.begun] = f.act]
      ELSE p

HeardRests(q, e) ==
  CASE e.kind = "chain" -> [q EXCEPT !.rests = IF e.rests THEN @ \cup {e.on} ELSE @]
    [] e.kind = "done"  -> Ended(q, e.act)
    [] e.kind = "work"  -> q
    [] OTHER            -> Operated(q, e)

\* What an event of the life changes in the queue.
Heard(q, e) ==
  CASE e.kind = "chain" -> [q EXCEPT !.rests = IF e.rests THEN @ \cup {e.on} ELSE @ \ {e.on}]
    [] e.kind = "done"  -> Ended(q, e.act)
    [] e.kind = "work"  -> q
    [] OTHER            -> Operated(q, e)

HeardAll(q, events) ==
  LET after[i \in 0 .. Len(events)] == IF i = 0 THEN q ELSE Heard(after[i - 1], events[i])
  IN  after[Len(events)]

\* A send that the life made, as a prompt.
Went(q, c, e, act) == [q EXCEPT !.step[e] = "sent", !.act[e] = act, !.last[c] = act]

\* A send that failed, which holds the queue of its chain.
Fails(q, e) == [q EXCEPT !.failed = @ \cup {e}]

FoldedFacts(facts) == [HeardAll(NoQueue, facts) EXCEPT !.rests = {c \in Chains : ~Paused(facts, c)}]

\* The queue of a life that opens on a record, which tells each fact and how each chain stands.
Folded(facts) ==
  [HeardAll(NoQueue, facts) EXCEPT !.rests = {c \in Chains : Rests(facts, c)}]
=============================================================================
