------------------------------- MODULE Events -------------------------------
(***************************************************************************)
(* The events of a life and its readers (host/src/life.rs). The life puts  *)
(* each event in its log and broadcasts it; a reader gets what it missed   *)
(* from the log by a message Since, and then hears the broadcast, whose    *)
(* buffer holds the last Behind events, so a slow reader falls behind.     *)
(* An event is its place in the log, from 0.                               *)
(***************************************************************************)
EXTENDS Integers

CONSTANTS Readers,   \* the readers of the life
          Behind,    \* BEHIND: how many events the broadcast holds for a slow reader
          MaxEvents  \* bound: events of the life, its end included

ASSUME EventsAssumption ==
  /\ Behind \in Nat \ {0}
  /\ MaxEvents \in Nat

VARIABLES
  length,   \* Life.log: how many events it holds
  ended,    \* whether the last event of the log is the end of the life
  joined,   \* the readers that read, a stream of LifeHandle::events each
  from,     \* the place each reader asked for first
  next,     \* Reader.next: the place of the event that it gives next
  pos,      \* Reader.receiver: the place of the next event that the broadcast brings it
  behind,   \* Reader.behind
  asking,   \* whether its message Since waits for the thread of the life
  lo, hi,   \* Reader.read: it holds the events of the places lo .. hi - 1
  over      \* Reader.over

reader == <<from, next, pos, behind, asking, lo, hi, over>>
vars   == <<length, ended, joined, reader>>

Places == 0 .. MaxEvents

TypeOK ==
  /\ length \in Places /\ ended \in BOOLEAN /\ joined \subseteq Readers
  /\ from \in [Readers -> Nat] /\ next \in [Readers -> Nat] /\ pos \in [Readers -> Nat]
  /\ behind \in [Readers -> BOOLEAN] /\ asking \in [Readers -> BOOLEAN]
  /\ lo \in [Readers -> Nat] /\ hi \in [Readers -> Nat]
  /\ over \in [Readers -> BOOLEAN]

Init ==
  /\ length = 0 /\ ended = FALSE /\ joined = {}
  /\ from = [r \in Readers |-> 0] /\ next = [r \in Readers |-> 0] /\ pos = [r \in Readers |-> 0]
  /\ behind = [r \in Readers |-> TRUE] /\ asking = [r \in Readers |-> FALSE]
  /\ lo = [r \in Readers |-> 0] /\ hi = [r \in Readers |-> 0]
  /\ over = [r \in Readers |-> FALSE]

-----------------------------------------------------------------------------
(* The thread of the life.                                                  *)

\* Life::put: one event in the log and to each reader; the end of the life is the last one.
Put ==
  /\ ~ended /\ length + 1 < MaxEvents
  /\ length' = length + 1
  /\ UNCHANGED <<ended, joined, reader>>

End ==
  /\ ~ended /\ length < MaxEvents
  /\ length' = length + 1 /\ ended' = TRUE
  /\ UNCHANGED <<joined, reader>>

SinceUpToTheBroadcast(r) ==
  /\ asking[r]
  /\ asking' = [asking EXCEPT ![r] = FALSE]
  /\ lo' = [lo EXCEPT ![r] = next[r]]
  /\ hi' = [hi EXCEPT ![r] = IF pos[r] - 1 < next[r] THEN next[r] ELSE pos[r] - 1]
  /\ UNCHANGED <<length, ended, joined, from, next, pos, behind, over>>

\* Life::since: the life answers a reader with its log from the place that the reader stands at.
Since(r) ==
  /\ asking[r]
  /\ asking' = [asking EXCEPT ![r] = FALSE]
  /\ lo' = [lo EXCEPT ![r] = next[r]]
  /\ hi' = [hi EXCEPT ![r] = IF length < next[r] THEN next[r] ELSE length]
  /\ UNCHANGED <<length, ended, joined, from, next, pos, behind, over>>

-----------------------------------------------------------------------------
(* A reader.                                                                *)

\* LifeHandle::events: the reader subscribes to the broadcast first, and starts behind.
Join(r, at) ==
  /\ r \notin joined
  /\ joined' = joined \cup {r}
  /\ from' = [from EXCEPT ![r] = at] /\ next' = [next EXCEPT ![r] = at]
  /\ pos' = [pos EXCEPT ![r] = length]
  /\ UNCHANGED <<length, ended, behind, asking, lo, hi, over>>

\* Whether the reader is polled and holds no event that it read from the log.
Dry(r) == r \in joined /\ ~over[r] /\ ~asking[r] /\ lo[r] = hi[r]

EndsOnceEnded(at) == ended

\* Reader::given: whether the event at a place is the end of the life.
Ends(at) == ended /\ at = length - 1

Given(r) ==
  /\ next' = [next EXCEPT ![r] = @ + 1]
  /\ over' = [over EXCEPT ![r] = Ends(next[r])]

\* The front of what it read, given when it is the next event, and else passed over.
GiveRead(r) ==
  /\ r \in joined /\ ~over[r] /\ lo[r] < hi[r]
  /\ lo' = [lo EXCEPT ![r] = @ + 1]
  /\ IF lo[r] = next[r] THEN Given(r) ELSE UNCHANGED <<next, over>>
  /\ UNCHANGED <<length, ended, joined, from, pos, behind, asking, hi>>

\* A reader that stands behind asks the life for its log.
Ask(r) ==
  /\ Dry(r) /\ behind[r]
  /\ behind' = [behind EXCEPT ![r] = FALSE]
  /\ asking' = [asking EXCEPT ![r] = TRUE]
  /\ UNCHANGED <<length, ended, joined, from, next, pos, lo, hi, over>>

LaggedUnheeded(r) ==
  /\ Dry(r) /\ ~behind[r] /\ length - pos[r] > Behind
  /\ pos' = [pos EXCEPT ![r] = length - Behind]
  /\ UNCHANGED <<length, ended, joined, from, next, behind, asking, lo, hi, over>>

LaggedPastTheStart(r) ==
  /\ Dry(r) /\ ~behind[r] /\ length - pos[r] > Behind
  /\ pos' = [pos EXCEPT ![r] = length - 2 * Behind]
  /\ behind' = [behind EXCEPT ![r] = TRUE]
  /\ UNCHANGED <<length, ended, joined, from, next, asking, lo, hi, over>>

\* The broadcast dropped the event that the reader hears next, so it hears the oldest one held after.
Lagged(r) ==
  /\ Dry(r) /\ ~behind[r] /\ length - pos[r] > Behind
  /\ pos' = [pos EXCEPT ![r] = length - Behind]
  /\ behind' = [behind EXCEPT ![r] = TRUE]
  /\ UNCHANGED <<length, ended, joined, from, next, asking, lo, hi, over>>

\* The reader hears the broadcast: the next event, one that it gave already, or one past a gap.
Hear(r) ==
  /\ Dry(r) /\ ~behind[r] /\ pos[r] < length /\ length - pos[r] <= Behind
  /\ pos' = [pos EXCEPT ![r] = @ + 1]
  /\ IF pos[r] = next[r] THEN Given(r) ELSE UNCHANGED <<next, over>>
  /\ behind' = [behind EXCEPT ![r] = pos[r] > next[r]]
  /\ UNCHANGED <<length, ended, joined, from, asking, lo, hi>>

Read(r) == GiveRead(r) \/ Ask(r) \/ Lagged(r) \/ Hear(r)

Next ==
  \/ Put \/ End
  \/ \E r \in Readers :
       \/ \E at \in Places : Join(r, at)
       \/ Since(r) \/ Read(r)

Spec == Init /\ [][Next]_vars

\* The life answers its inbox, and a client polls its stream.
Fairness == \A r \in Readers : WF_vars(Since(r)) /\ WF_vars(Read(r))

LiveSpec == Spec /\ Fairness
-----------------------------------------------------------------------------
(* Properties.                                                              *)

\* A reader that waits on the broadcast waits for an event that the broadcast still brings it: the
\* event that it gives next never passed it, however far it fell behind and however its answer of
\* the log raced with the events put since (Reader::next).
NeverStranded ==
  \A r \in joined : ~over[r] /\ ~behind[r] /\ ~asking[r] /\ lo[r] = hi[r] => pos[r] <= next[r]

\* What a reader read from the log starts at the event that it gives next, and reaches at least
\* the events that the broadcast brings, so no event of it is passed over or given twice.
ReadJoins ==
  \A r \in joined : lo[r] < hi[r] => lo[r] = next[r] /\ pos[r] <= hi[r] /\ hi[r] <= length

\* A stream is over only once it gave the end of the life, after each event before it.
OverAtTheEnd == \A r \in joined : over[r] => ended /\ next[r] = length

\* Each reader that joined a life within its log gets to the end of the life once it ended.
ReachesTheEnd ==
  \A r \in Readers : (ended /\ r \in joined /\ from[r] < length) ~> over[r]

\* And, while the life goes on, to each event of the log.
ReachesEach ==
  \A r \in Readers : \A i \in Places :
    (r \in joined /\ from[r] <= i /\ i < length) ~> next[r] > i

\* A stream that is polled misses nothing: each event while the life goes on, and its end.
Reaches == ReachesEach /\ ReachesTheEnd
=============================================================================
