-------------------------------- MODULE Actor --------------------------------
(***************************************************************************)
(* The thread of a life (driven of host/src/life.rs): it hears what the    *)
(* engine told, pumps the engine and takes the commands of its clients,    *)
(* one at a time, then sends the follow-ups that are due, and ends or is   *)
(* born again only once its record holds each fact. What the engine tells  *)
(* waits in a channel, so the queue of the follow-ups is behind the        *)
(* engine. The process can die between any two facts.                      *)
(***************************************************************************)
EXTENDS FollowUps

CONSTANTS Root,         \* the root chain
          TAIL,         \* TAIL: the facts after which a life is born again
          MaxSaid,      \* bound: commands of clients, and works that the engine begins of its own
          MaxMishaps    \* bound: sends refused, times that the disk fills, and deaths of the process

ASSUME ActorAssumption ==
  Root \in Chains /\ {TAIL, MaxSaid, MaxMishaps} \subseteq Nat

VARIABLES
  pc,        \* where the thread stands
  record,    \* the facts that the life said
  kept,      \* how many of them the disk of the record holds: the rest is Engine::unkept
  full,      \* whether the disk is full
  heard,     \* Life.heard: the events that the ears told and the thread did not hear
  queue,     \* Life.queue
  asked,     \* whether a client waits for the end of the life
  gone,      \* whether each handle of the life is gone
  since,     \* Watch.facts, up to TAIL
  drained,   \* ghost: whether the thread looked for follow-ups since the open
  begun,     \* ghost: how many facts the record had when this step of the thread began
  said,      \* how many commands and works there were
  mishaps    \* how many sends were refused, disks filled and processes died

life   == <<asked, gone, drained>>
counts == <<said, mishaps>>
vars   == <<pc, record, kept, full, heard, queue, asked, gone, since, drained, begun, counts>>

Places == {"poll", "inbox", "drain", "check", "down", "over"}

TypeOK ==
  /\ pc \in Places
  /\ \A i \in DOMAIN record : record[i].kind \in FactKinds /\ record[i].on \in Chains
  /\ kept \in 0 .. Len(record) /\ full \in BOOLEAN
  /\ queue \in Queues
  /\ asked \in BOOLEAN /\ gone \in BOOLEAN /\ since \in 0 .. TAIL /\ drained \in BOOLEAN
  /\ begun \in 0 .. Len(record)
  /\ said <= MaxSaid /\ mishaps <= MaxMishaps

Init ==
  /\ pc = "down" /\ record = <<>> /\ kept = 0 /\ full = FALSE /\ heard = <<>> /\ queue = NoQueue
  /\ asked = FALSE /\ gone = FALSE /\ since = 0 /\ drained = FALSE /\ begun = 0
  /\ said = 0 /\ mishaps = 0

Up == pc \notin {"down", "over"}

Unkept == Len(record) - kept

EndsWhenGone == gone

Ends == gone \/ asked

\* The engine says facts, which its ears tell the life, and the record keeps while it can.
Says(facts) ==
  /\ record' = record \o facts
  /\ heard' = heard \o Events(record, facts)
  /\ kept' = IF full THEN kept ELSE Len(record')
  /\ begun' = Len(record)

SaysNothing == begun' = Len(record) /\ UNCHANGED <<record, heard, kept>>

NextAct == Made(record) + 1

Capped(n) == IF n > TAIL THEN TAIL ELSE n

\* The thread hears all that its channel holds (Life::told).
HearsAll ==
  /\ queue' = HeardAll(queue, heard) /\ heard' = <<>>
  /\ since' = Capped(since + Len(SelectSeq(heard, LAMBDA e : e.kind # "chain")))
  /\ begun' = Len(record) /\ UNCHANGED <<record, kept>>

-----------------------------------------------------------------------------
(* What wakes the thread, in the order that it looks.                       *)

Told ==
  /\ pc = "poll" /\ heard # <<>> /\ pc' = "drain" /\ HearsAll
  /\ UNCHANGED <<full, life, counts>>

\* Work of a chain ends, or the engine begins some.
Works ==
  \/ \E c \in Chains : \E p \in Live(record, c) : Says(<<Fact("done", c, NONE, p)>>) /\ UNCHANGED said
  \/ /\ said < MaxSaid /\ said' = said + 1
     /\ \E c \in Chains : Says(<<Fact("work", c, NONE, NextAct)>>)

\* The channel is empty, and the thread pumps the engine, which may say something.
Pump ==
  /\ pc = "poll" /\ heard = <<>> /\ pc' = "inbox"
  /\ Works \/ (SaysNothing /\ UNCHANGED said)
  /\ UNCHANGED <<full, queue, since, life, mishaps>>

RetryPast ==
  /\ Up /\ ~full /\ Unkept > 0 /\ kept' = Len(record) + 1 /\ begun' = kept
  /\ UNCHANGED <<pc, record, full, heard, queue, since, life, counts>>

\* The pump lets the ear of the record write what waits.
Retry ==
  /\ Up /\ ~full /\ Unkept > 0 /\ kept' = Len(record) /\ begun' = kept
  /\ UNCHANGED <<pc, record, full, heard, queue, since, life, counts>>

\* The life waited for its record, which holds each fact now.
Kept ==
  /\ pc = "inbox" /\ (Ends \/ since = TAIL) /\ Unkept = 0 /\ pc' = "drain" /\ SaysNothing
  /\ UNCHANGED <<full, queue, since, life, counts>>

\* The thread looks at what its clients say: it does not wait for its record, or not all is kept.
Listens == pc = "inbox" /\ ~(Ends /\ Unkept = 0)

Sleep ==
  /\ Listens /\ pc' = "poll" /\ SaysNothing
  /\ UNCHANGED <<full, queue, since, life, counts>>

\* A client reads the log, which first hears all, or asks what changes nothing.
Ask ==
  /\ Listens /\ ~gone /\ pc' = "drain"
  /\ HearsAll \/ (SaysNothing /\ UNCHANGED <<queue, since>>)
  /\ UNCHANGED <<full, life, counts>>

\* A client queues a follow-up, which a second queue of its entry does not.
Queued(e, c) == IF Holds(queue, e) THEN SaysNothing ELSE Says(<<Fact("add", c, e, NONE)>>)

\* A client takes a follow-up out of its queue while it waits, or is refused.
Unqueued(e) ==
  IF queue.step[e] = "waits"
  THEN \E c \in Chains : e \in Range(queue.order[c]) /\ Says(<<Fact("drop", c, e, NONE)>>)
  ELSE SaysNothing

Command ==
  /\ Listens /\ ~gone /\ pc' = "drain"
  /\ said < MaxSaid /\ said' = said + 1
  /\ \/ \E e \in Entries, c \in Chains : e <= Cardinality(Of(record, {"add"})) + 1 /\ Queued(e, c)
     \/ \E e \in Entries : Unqueued(e)
     \/ \E kind \in {"pause", "wake"}, c \in Chains : Says(<<Fact(kind, c, NONE, NONE)>>)
     \/ \E c \in Chains : Says(<<Fact("prompt", c, NONE, NextAct)>>)
  /\ UNCHANGED <<full, queue, since, life, mishaps>>

\* The engine goes, with what its record does not hold.
Drops == record' = SubSeq(record, 1, kept) /\ heard' = <<>> /\ begun' = kept /\ UNCHANGED kept

\* A client ends the life, or the last handle goes: it ends at once when the record holds each fact.
End ==
  /\ Listens /\ ~gone
  /\ (asked' = TRUE /\ UNCHANGED gone) \/ (gone' = TRUE /\ UNCHANGED asked)
  /\ IF Unkept > 0 THEN pc' = "drain" /\ SaysNothing ELSE pc' = "over" /\ Drops
  /\ UNCHANGED <<full, queue, since, drained, counts>>

-----------------------------------------------------------------------------
(* What follows each of them.                                               *)

\* The facts of the send of a follow-up, as an act that lives, an act that ends at once, or none.
Sending(c, e, p, outcome) ==
  <<Fact("begin", c, e, NONE)>> \o
  CASE outcome = "refused" -> <<Fact("failed", c, e, NONE)>>
    [] outcome = "lives"   -> <<Fact("prompt", c, NONE, p), Fact("sent", c, e, p)>>
    [] outcome = "ends"    -> <<Fact("prompt", c, NONE, p), Fact("done", c, NONE, p), Fact("sent", c, e, p)>>

\* The send of the first follow-up of a chain, after others.
Sent(s, c, outcome) ==
  LET e == Waiting(queue, c)[1]
      p == NextAct + Made(s.facts)
  IN  [facts |-> s.facts \o Sending(c, e, p, outcome),
       queue |-> IF outcome = "refused" THEN Fails(s.queue, e) ELSE Went(s.queue, c, e, p)]

\* Each follow-up that is due is sent (drained of life.rs).
Drain ==
  /\ pc = "drain" /\ pc' = "check" /\ drained' = TRUE
  /\ \E outcome \in [Due(queue) -> {"lives", "ends", "refused"}] :
       LET Next1(s, c) == Sent(s, c, outcome[c])
           all == FoldLeft(Next1, [facts |-> <<>>, queue |-> queue], SetToSeq(Due(queue)))
       IN  /\ Says(all.facts) /\ queue' = all.queue
           /\ mishaps' = mishaps + Cardinality({c \in Due(queue) : outcome[c] = "refused"})
           /\ mishaps' <= MaxMishaps
  /\ UNCHANGED <<full, since, asked, gone, said>>

\* The works of the engine that live: an open may find that they were cut.
Cuttable(facts) ==
  {f \in Range(SelectSeq(facts, LAMBDA f : f.kind = "work")) : f.act \in Live(facts, f.on)}

Cut(fs) == LET order == SetToSeq(fs) IN [i \in DOMAIN order |-> Fact("done", order[i].on, NONE, order[i].act)]

\* The life is born again from its checkpoint, and prompts the root when that cut an act.
Reborn ==
  \E gone_ \in SUBSET Cuttable(record) :
    LET opened == SubSeq(record, 1, kept) \o Cut(gone_)
        told   == IF gone_ = {} THEN <<>> ELSE <<Fact("prompt", Root, NONE, NextAct)>>
    IN  /\ record' = opened \o told /\ heard' = Events(opened, told)
        /\ kept' = IF full THEN kept ELSE Len(record')
        /\ begun' = kept
        /\ queue' = [HeardAll(HeardAll(queue, heard), Cut(gone_)) EXCEPT
                       !.rests = {c \in Chains : Rests(opened, c)}]
        /\ since' = Capped(Cardinality(gone_)) /\ drained' = FALSE /\ pc' = "poll"

CheckUnkept ==
  /\ pc = "check"
  /\ \/ Ends /\ pc' = "over" /\ Drops /\ UNCHANGED <<queue, since, drained>>
     \/ ~Ends /\ since = TAIL /\ Reborn
     \/ ~Ends /\ pc' = "poll" /\ SaysNothing /\ UNCHANGED <<queue, since, drained>>
  /\ UNCHANGED <<full, asked, gone, counts>>

\* The thread ends the life, gives it a rebirth when nothing runs that holds it, or goes on.
Check ==
  /\ pc = "check"
  /\ \/ Ends /\ Unkept = 0 /\ pc' = "over" /\ Drops /\ UNCHANGED <<queue, since, drained>>
     \/ ~Ends /\ Unkept = 0 /\ since = TAIL /\ Reborn
     \/ ~(Ends /\ Unkept = 0) /\ pc' = "poll" /\ SaysNothing /\ UNCHANGED <<queue, since, drained>>
  /\ UNCHANGED <<full, asked, gone, counts>>

-----------------------------------------------------------------------------
(* Opens, deaths and the disk.                                              *)

\* A life opens on a record, whose last checkpoint can stand anywhere in it.
Open ==
  /\ ~Up /\ pc' = "poll"
  /\ \E gone_ \in SUBSET Cuttable(record) :
       /\ record' = record \o Cut(gone_) /\ begun' = Len(record)
       /\ kept' = IF full THEN kept ELSE Len(record')
  /\ queue' = Folded(record') /\ heard' = <<>>
  /\ since' \in {0, Capped(Len(record'))}
  /\ asked' = FALSE /\ gone' = FALSE /\ drained' = FALSE
  /\ UNCHANGED <<full, counts>>

\* The process dies, maybe between two facts of what it does, or a fault stops the engine.
Crash ==
  /\ Up /\ pc' = "down" /\ mishaps < MaxMishaps /\ mishaps' = mishaps + 1
  /\ \E n \in {kept} \cup begun .. kept : record' = SubSeq(record, 1, n) /\ kept' = n /\ begun' = n
  /\ heard' = <<>>
  /\ UNCHANGED <<full, queue, since, life, said>>

Fill ==
  /\ ~full /\ mishaps < MaxMishaps /\ mishaps' = mishaps + 1 /\ full' = TRUE /\ begun' = Len(record)
  /\ UNCHANGED <<pc, record, kept, heard, queue, since, life, said>>

Free ==
  /\ full /\ full' = FALSE /\ begun' = Len(record)
  /\ UNCHANGED <<pc, record, kept, heard, queue, since, life, counts>>

Thread == Told \/ Pump \/ Kept \/ Sleep \/ Drain \/ Check

Next == Thread \/ Retry \/ Ask \/ Command \/ End \/ Open \/ Crash \/ Fill \/ Free

Spec == Init /\ [][Next]_vars

\* The thread never stops between two of its steps, of which each place has one, the ear of the
\* record tries again on a clock of its own, and the disk has room again. Each fairness names what
\* its steps change, which is cheaper to check than the steps.
Fairness ==
  /\ WF_pc(Up /\ pc' \in Places \ {pc})
  /\ WF_kept(Up /\ ~full /\ Unkept > 0 /\ kept' = Len(record))
  /\ WF_full(full /\ full' = FALSE)

LiveSpec == Spec /\ Fairness

-----------------------------------------------------------------------------
(* Properties (queue.rs and the contract of driven).                        *)

\* No follow-up goes twice, whatever crashes, reopens and rebirths come between.
SentOnce ==
  \A e \in Entries : Cardinality({i \in Of(record, {"begin"}) : record[i].entry = e}) <= 1

\* The prompts of two follow-ups of one chain never live together.
OneAtATime ==
  \A c \in Chains : Cardinality({i \in Of(record, {"sent"}) : record[i].act \in Live(record, c)}) <= 1

\* Once the thread heard all, its queue, changed by events and by its own sends, is the queue that
\* an open of the record would find, with what each chain does.
QueueIsTheRecords ==
  pc = "poll" /\ heard = <<>> => [queue EXCEPT !.last = NoQueue.last] = [Folded(record) EXCEPT !.last = NoQueue.last]

\* What the record says is due: the first follow-up that waits on a chain that rests.
DueByRecord(c, e) ==
  LET q == Folded(record)
      w == Waiting(q, c)
  IN  Rests(record, c) /\ w # <<>> /\ e = w[1] /\ e \notin q.failed

Begins(c, e) ==
  \E i \in Len(record) + 1 .. Len(record') :
    record'[i].kind = "begin" /\ record'[i].on = c /\ record'[i].entry = e

\* Though its queue is behind the engine, the life sends only the first follow-up of a chain that
\* rests, once it looked at its queue since it opened.
SendsTheDue == [][\A c \in Chains, e \in Entries : drained /\ Begins(c, e) => DueByRecord(c, e)]_vars

\* No end and no rebirth loses a fact that the life said: only a death of the process does.
NothingLost == [][pc' # "down" => IsPrefix(record, record')]_vars

\* Once the thread heard all and looked at its queue, no follow-up that the record says is due is left.
NoneLeftDue ==
  pc = "poll" /\ heard = <<>> /\ drained => \A c \in Chains, e \in Entries : ~DueByRecord(c, e)

\* Each follow-up goes once, in its turn, and when it is due (queue.rs:3-4).
FollowUpsHold == TypeOK /\ SentOnce /\ OneAtATime /\ QueueIsTheRecords /\ NoneLeftDue

\* An end that waits for the record comes once the disk has room again.
EndComes == Up /\ (asked \/ gone) ~> ~Up
=============================================================================
