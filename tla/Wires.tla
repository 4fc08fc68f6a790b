------------------------------- MODULE Wires -------------------------------
(***************************************************************************)
(* A connection to a server of tools: the requests that wait for an answer by  *)
(* their number, the task that hands on each message of the server, and the    *)
(* three wires: a process, which answers on its stdout; a server of streamable *)
(* HTTP, which answers a POST at once or on a stream of that POST; and one of  *)
(* the older HTTP, which answers on the one stream that it tells all on.       *)
(*                                                                         *)
(* What sends a request and what the server does with it are steps apart: its  *)
(* answer may come before its write or its POST returns, which may then fail.  *)
(* The server is external: it answers any request once, tells notes and asks   *)
(* of its own, and ends at any point.                                        *)
(***************************************************************************)
EXTENDS Naturals, Sequences, FiniteSets

CONSTANTS Wire, Requests, MaxNotes, MaxAsks

VARIABLES
  wire,     \* the kind of wire
  up,       \* whether the server is there
  stream,   \* whether the server can still tell of its own accord
  named,    \* whether the server named a session
  reqs,     \* the requests: where each stands, what it came to, and whether it was made after the connection was over
  pending,  \* the requests whose answer the dispatch gives
  inbox,    \* what the wire handed to the dispatch, in order
  over,     \* whether the dispatch ended
  heard,    \* what the peer hears of its own accord
  server    \* what the server took: requests, cancels and replies

vars == <<wire, up, stream, named, reqs, pending, inbox, over, heard, server>>

Told(kind, id) == <<kind, id>>

\* What a request comes to beside an answer.
Nothing      == Told("none", 0)
Broken       == Told("broken", 0)    \* the end of the connection
Refused      == Told("refused", 0)   \* its own write or POST, which failed or was answered with a status of failure
Unauthorized == Told("unauthorized", 0)
Delayed      == Told("late", 0)

Set(r, at, got) == reqs' = [reqs EXCEPT ![r].at = at, ![r].got = got]
Count(kind) == Cardinality({i \in 1 .. Len(heard \o inbox) : (heard \o inbox)[i][1] = kind})

Init ==
  /\ wire \in Wire /\ up = TRUE /\ stream = TRUE /\ named = FALSE
  /\ reqs = [r \in Requests |-> [at |-> "new", got |-> Nothing, after |-> FALSE]] /\ pending = {} /\ inbox = <<>> /\ over = FALSE
  /\ heard = <<>> /\ server = {}

\* A request waits before it is sent.
Ask(r) ==
  /\ reqs[r].at = "new" /\ reqs' = [reqs EXCEPT ![r].at = "sending", ![r].after = over] /\ pending' = pending \cup {r}
  /\ UNCHANGED <<wire, up, stream, named, inbox, over, heard, server>>

\* A form that leaves a request that is over among those that wait.
ForgotNone(r) == UNCHANGED pending

\* A request that is over waits no more.
Forgot(r) == pending' = pending \ {r}

Taken(r) == Told("request", r) \in server

\* The server takes a request, which its sender may not know yet; a process takes one off its stdin whenever it reads it.
Takes(r) ==
  /\ reqs[r].at \in {"sending", "waiting"} /\ up /\ ~Taken(r) /\ server' = server \cup {Told("request", r)}
  /\ UNCHANGED <<wire, up, stream, named, reqs, pending, inbox, over, heard>>

\* A message is sent: it is written to a process, or its POST was answered with a success.
Sent(r) ==
  /\ reqs[r].at = "sending" /\ (Taken(r) \/ (wire = "process" /\ up)) /\ Set(r, "waiting", reqs[r].got)
  /\ named' = (named \/ wire = "streamable") /\ UNCHANGED <<wire, up, stream, pending, inbox, over, heard, server>>

\* One that is not: its write or its POST fails, taken or not, even when its answer came; its server asks for a login, or
\* ended the session, which closes the connection.
Unsent(r) ==
  /\ reqs[r].at = "sending" /\ Forgot(r)
  /\ \/ Set(r, "done", Refused) /\ UNCHANGED inbox
     \/ up /\ wire # "process" /\ ~Taken(r) /\ Set(r, "done", Unauthorized) /\ UNCHANGED inbox
     \/ up /\ wire = "streamable" /\ named /\ ~Taken(r) /\ Set(r, "done", Refused) /\ inbox' = Append(inbox, Told("closed", 0))
  /\ UNCHANGED <<wire, up, stream, named, over, heard, server>>

\* The answer of a request, once.
Answers(r) ==
  /\ up /\ Taken(r) /\ Told("answered", r) \notin server /\ (stream \/ wire = "streamable")
  /\ server' = server \cup {Told("answered", r)} /\ inbox' = Append(inbox, Told("answer", r))
  /\ UNCHANGED <<wire, up, stream, named, reqs, pending, over, heard>>

\* What the server tells of its own accord.
Tells(kind, most) ==
  /\ up /\ stream /\ Count(kind) + Cardinality({m \in server : m[1] = "reply"}) < most
  /\ inbox' = Append(inbox, Told(kind, 0)) /\ UNCHANGED <<wire, up, stream, named, reqs, pending, over, heard, server>>

\* A form whose end passes what the server said before it.
EndsAtOnce ==
  /\ up /\ up' = FALSE /\ stream' = FALSE
  /\ inbox' = IF wire = "streamable" THEN inbox ELSE <<Told("closed", 0)>> \o inbox

\* The server ends: its stdout, or the stream that it tells all on, ends after all that it said; a stream of streamable
\* HTTP ends with nothing.
Ends ==
  /\ up /\ up' = FALSE /\ stream' = FALSE
  /\ inbox' = IF wire = "streamable" THEN inbox ELSE Append(inbox, Told("closed", 0))

End == Ends /\ UNCHANGED <<wire, named, reqs, pending, over, heard, server>>

\* The stream of what the server tells ends while the server stays.
Mute ==
  /\ up /\ stream /\ stream' = FALSE /\ wire # "process"
  /\ inbox' = IF wire = "legacy" THEN Append(inbox, Told("closed", 0)) ELSE inbox
  /\ UNCHANGED <<wire, up, named, reqs, pending, over, heard, server>>

\* A form that gives each answer to any request that waits.
GivenAny(id) == IF pending = {} THEN {} ELSE {CHOOSE r \in pending : TRUE}

\* The request that an answer is for, while it waits.
Given(id) == pending \cap {id}

\* A form that leaves the requests that wait at the end of the wire.
DrainedNone == {}

\* Each request that waits fails at the end of the wire.
Drained == pending

\* What a request came to, which its caller takes up: until then its time may run out.
Gives(rs, got) == reqs' = [r \in Requests |-> IF r \in rs THEN [reqs[r] EXCEPT !.got = got] ELSE reqs[r]]

\* The next message of the server is handed on.
Dispatch ==
  /\ ~over /\ inbox # <<>> /\ inbox' = Tail(inbox) /\ UNCHANGED <<wire, up, stream, named>>
  /\ LET m == Head(inbox) IN
     CASE m[1] = "answer" -> /\ Gives(Given(m[2]), m) /\ pending' = pending \ Given(m[2])
                             /\ UNCHANGED <<over, heard, server>>
       [] m[1] = "ask"    -> /\ server' = IF up THEN server \cup {Told("reply", Cardinality(server))} ELSE server
                             /\ UNCHANGED <<reqs, pending, over, heard>>
       [] m[1] = "note"   -> heard' = Append(heard, m) /\ UNCHANGED <<reqs, pending, over, server>>
       [] OTHER           -> /\ Gives(Drained, Broken) /\ pending' = pending \ Drained /\ over' = TRUE
                             /\ heard' = Append(heard, m) /\ UNCHANGED server

\* The caller takes up what its request came to.
Done(r) ==
  /\ reqs[r].at = "waiting" /\ reqs[r].got # Nothing /\ Set(r, "done", reqs[r].got) /\ Forgot(r)
  /\ UNCHANGED <<wire, up, stream, named, inbox, over, heard, server>>

\* A request past its bound, or whose caller drops it: it waits no more, and is cancelled at a server that is there.
Late(r) ==
  /\ reqs[r].at \in {"sending", "waiting"} /\ Set(r, "done", Delayed) /\ Forgot(r)
  /\ server' = IF up THEN server \cup {Told("cancel", r)} ELSE server
  /\ UNCHANGED <<wire, up, stream, named, inbox, over, heard>>

Next ==
  \/ \E r \in Requests : Ask(r) \/ Takes(r) \/ Sent(r) \/ Unsent(r) \/ Answers(r) \/ Done(r) \/ Late(r)
  \/ Tells("note", MaxNotes) \/ Tells("ask", MaxAsks) \/ End \/ Mute \/ Dispatch

Spec == Init /\ [][Next]_vars /\ WF_vars(Dispatch) /\ \A r \in Requests : WF_vars(Done(r) \/ Late(r))

-----------------------------------------------------------------------------
TypeOK == pending \subseteq Requests /\ \A r \in Requests : reqs[r].at \in {"new", "sending", "waiting", "done"}

\* A request comes to its own answer alone, which the server gave, and a request that ended is kept nowhere
\* (dispatch, Waiting).
OwnAnswer ==
  \A r \in Requests :
    /\ reqs[r].got[1] = "answer" => reqs[r].got = Told("answer", r) /\ Told("answered", r) \in server
    /\ r \in pending => reqs[r].at # "done" /\ reqs[r].got = Nothing

\* Once the connection is over, no request that waited before its end waits for an answer (dispatch).
EndReachesAll == over => \A r \in Requests : reqs[r].at # "new" /\ ~reqs[r].after => reqs[r].got # Nothing

\* What the server told before the end of its stream is told before the end, and nothing is told after it.
EndIsLast == \A i \in 1 .. Len(heard) : heard[i][1] = "closed" => i = Len(heard)

\* An answer that a server gave before the end of its one stream is not lost to that end, which comes to the requests
\* that it left without one (ended, forwarded); an answer may be lost to the failure of its own POST (Peer.request).
AnswerBeforeEnd ==
  \A r \in Requests : wire # "streamable" /\ Told("answered", r) \in server => reqs[r].got # Broken

WiresHold == OwnAnswer /\ EndReachesAll /\ EndIsLast /\ AnswerBeforeEnd

\* Each request comes to an end, whatever the server does.
AtRest == \A r \in Requests : reqs[r].at \in {"new", "done"}
RequestsEnd == <>[]AtRest
=============================================================================
