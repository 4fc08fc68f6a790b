------------------------------ MODULE Answers ------------------------------
(***************************************************************************)
(* The peer that answers the models of a life (host/src/answers.rs): each   *)
(* request of a model is a future of the life, in the table of the broker   *)
(* until its turn comes, the life drops it, or the connection of the peer   *)
(* ends. The verbs of peers run on the task of the daemon, beside the life, *)
(* so a future may end between two steps of a verb. A request is a number.  *)
(***************************************************************************)
EXTENDS Naturals

CONSTANTS Callers, Owner,  \* the peers, and the one that opened the life with `answers`
          MaxAsks          \* bound: requests of the life

VARIABLES
  next,     \* Waiting.next: the last number
  asks,     \* Waiting.asks: the requests that wait for a turn
  futures,  \* each request: its future waits, dropped its channel, or ended, and how
  sent,     \* the turns sent to the channels that stand, with the peer that gave each
  open,     \* the connection of the peer that answers stands
  verb,     \* the verb that the daemon is in: none, an answer or a write of a request by a peer
  granted,  \* the requests whose peer heard that its answer is done
  wrote     \* the writes that reached a request

answerVars == <<next, asks, futures, sent, open, verb, granted, wrote>>

Asks  == 1 .. next
Stage == {"waits", "deaf", "given", "gone", "dropped"}
Idle  == [is |-> "none"]

TypeOK ==
  /\ next \in 0 .. MaxAsks /\ asks \subseteq Asks /\ futures \in [Asks -> Stage]
  /\ sent \subseteq Asks \X Callers /\ wrote \subseteq Asks \X Callers /\ granted \subseteq Asks
  /\ open \in BOOLEAN
  /\ verb = Idle \/ (verb.is \in {"answer", "write"} /\ verb.ask \in Asks /\ verb.by \in Callers)

Init ==
  /\ next = 0 /\ asks = {} /\ futures = <<>> /\ sent = {} /\ open = TRUE /\ verb = Idle
  /\ granted = {} /\ wrote = {}

-----------------------------------------------------------------------------
(* The life.                                                                *)

Hosted ==
  /\ next < MaxAsks /\ next' = next + 1 /\ asks' = asks \cup {next'}
  /\ futures' = [k \in 1 .. next' |-> IF k = next' THEN "waits" ELSE futures[k]]
  /\ UNCHANGED <<sent, open, verb, granted, wrote>>

HasTurn(k) == \E p \in Callers : <<k, p>> \in sent

\* The future takes its turn, though the peer may be gone too: either is taken when both are ready.
Given(k) ==
  /\ futures[k] = "waits" /\ HasTurn(k)
  /\ futures' = [futures EXCEPT ![k] = "given"] /\ asks' = asks \ {k}
  /\ UNCHANGED <<next, sent, open, verb, granted, wrote>>

\* A future that ends as its peer is gone, or as the life drops it, drops its channel first.
Deafen(k) ==
  /\ futures[k] = "waits" /\ futures' = [futures EXCEPT ![k] = "deaf"]
  /\ UNCHANGED <<next, asks, sent, open, verb, granted, wrote>>

Leaves(k) == asks \ {k}
Stays(k)  == asks
Left(k)   == Leaves(k)

\* Then it leaves the table.
Leave(k) ==
  /\ futures[k] = "deaf" /\ asks' = Left(k)
  /\ futures' = [futures EXCEPT ![k] = IF open THEN "dropped" ELSE "gone"]
  /\ UNCHANGED <<next, sent, open, verb, granted, wrote>>

Close == open /\ open' = FALSE /\ UNCHANGED <<next, asks, futures, sent, verb, granted, wrote>>

-----------------------------------------------------------------------------
(* The verbs of the peers.                                                  *)

AnyOwns(by) == TRUE
Owns(by) == by = Owner

\* An answer takes the request out of the table, so no other answer gives its turn.
Answered(by, k) ==
  /\ verb = Idle /\ Owns(by) /\ k \in asks /\ asks' = asks \ {k}
  /\ verb' = [is |-> "answer", ask |-> k, by |-> by]
  /\ UNCHANGED <<next, futures, sent, open, granted, wrote>>

\* Then it sends the turn, which is lost when the channel is dropped; the peer hears that it is done.
Reply ==
  /\ verb.is = "answer" /\ verb' = Idle /\ granted' = granted \cup {verb.ask}
  /\ sent' = IF futures[verb.ask] = "waits" THEN sent \cup {<<verb.ask, verb.by>>} ELSE sent
  /\ UNCHANGED <<next, asks, futures, open, wrote>>

Wrote(by, k) ==
  /\ verb = Idle /\ Owns(by) /\ k \in asks /\ verb' = [is |-> "write", ask |-> k, by |-> by]
  /\ UNCHANGED <<next, asks, futures, sent, open, granted, wrote>>

Write ==
  /\ verb.is = "write" /\ verb' = Idle /\ wrote' = wrote \cup {<<verb.ask, verb.by>>}
  /\ UNCHANGED <<next, asks, futures, sent, open, granted>>

Next ==
  \/ Hosted \/ Close \/ Reply \/ Write
  \/ \E k \in Asks : Given(k) \/ Deafen(k) \/ Leave(k)
  \/ \E by \in Callers, k \in asks : Answered(by, k) \/ Wrote(by, k)

Spec == Init /\ [][Next]_answerVars

-----------------------------------------------------------------------------
(* Properties.                                                              *)

\* The table holds the requests that wait and no others, but for one that an answer is about: so a
\* request that waits can be answered, and none stays once it is over.
TableIsWhatWaits ==
  \A k \in Asks :
    /\ k \in asks => futures[k] \in {"waits", "deaf"}
    /\ futures[k] = "waits" /\ k \notin asks => HasTurn(k) \/ (verb.is = "answer" /\ verb.ask = k)

\* Each turn and each write is of the peer that answers, and no request gets two turns.
OneTurnOfTheOwner ==
  /\ sent \cup wrote \subseteq Asks \X {Owner}
  /\ \A k \in granted : ~(k \in asks \/ (verb.is = "answer" /\ verb.ask = k))

\* A turn whose peer heard that it is done was sent to a request that waited.
DoneIsTaken == \A k \in granted : HasTurn(k)
=============================================================================
