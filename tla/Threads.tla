------------------------------ MODULE Threads ------------------------------
(***************************************************************************)
(* The threads of a chain (view/threads.rs): each prompt to a model is a      *)
(* thread, a message of one, or an aside, and the questions to the operator   *)
(* roll up the tree of the threads. The module makes every small history of   *)
(* acts that words, the operator, chains and ears can make.                    *)
(*                                                                         *)
(* An act is named by its place in time; 1 is the root chain, 0 the operator  *)
(* and -1 an ear. DEEP, the 64 steps that a walk takes at most, is out of      *)
(* reach of these histories.                                                  *)
(***************************************************************************)
EXTENDS Integers, Sequences, FiniteSets, SequencesExt, FiniteSetsExt

CONSTANT MaxThreaded   \* bound: the acts after those that a history starts with

VARIABLES acts, made

Operator == 0
Ear == -1
Ids == DOMAIN acts
Prompts == {i \in Ids : acts[i].kind = "prompt"}
None == 0

TypeOK ==
  \A i \in Ids : /\ acts[i].kind \in {"chain", "prompt", "rung"} /\ acts[i].by \in -1 .. i - 1
                 /\ acts[i].shape \in {"none", "model", "operator", "notice"} /\ acts[i].value \in {"none", "ok", "fault"}

Act(kind, by, on, chain) ==
  [kind |-> kind, by |-> by, on |-> on, chain |-> chain, shape |-> "none", about |-> 0, value |-> "none", owed |-> FALSE]

\* The operator asked the model of the root, and a word of it runs; then it made a chain, or a prompt of which a word
\* runs too, or the operator said a word.
Started == <<Act("chain", Operator, 0, 1), [Act("prompt", Operator, 1, 1) EXCEPT !.shape = "model"], Act("rung", 2, 1, 1)>>
Init ==
  /\ acts \in {Started, Append(Started, Act("chain", 3, 1, 4)), Append(Started, Act("rung", Operator, 1, 1)),
             Started \o <<[Act("prompt", 3, 1, 1) EXCEPT !.shape = "model"], Act("rung", 4, 1, 1)>>}
  /\ made = 0

Over(a) == a.value # "none"
Open(kind) == {i \in Ids : acts[i].kind = kind /\ ~Over(acts[i])}

Made(a) == made < MaxThreaded /\ made' = made + 1 /\ acts' = Append(acts, a)

\* A prompt of the operator, a word or an ear, on a chain or on a prompt; the console takes one to the operator at once.
Prompt ==
  \E by \in {Operator, Ear} \cup Open("rung"), on \in Open("chain") \cup Prompts, shape \in {"model", "operator", "notice"} :
    /\ by = Ear => shape = "notice" /\ on \in Open("chain")
    /\ Made([Act("prompt", by, on, acts[on].chain) EXCEPT !.shape = shape, !.owed = shape = "operator"])

\* A chain tells the end of an act of it that is not its own.
Acknowledge ==
  \E by \in Open("chain"), about \in Ids : acts[about].kind # "chain" /\ acts[about].chain = by /\ Over(acts[about])
    /\ acts[about].by # by
    /\ Made([Act("prompt", by, by, by) EXCEPT !.shape = "notice", !.about = about])

\* A word of the operator, or of a model that a prompt asks.
Rung ==
  \E by \in {Operator} \cup Open("prompt"), on \in Open("chain") :
    /\ by # Operator => on = acts[by].chain /\ acts[by].shape = "model"
    /\ Made(Act("rung", by, on, on))

Chain == \E by \in Open("rung") : Made(Act("chain", by, acts[by].chain, Len(acts) + 1))

\* An act ends, before the next one is made or never, which bounds the histories; only how a prompt ended shows.
Done == \E i \in (Open("prompt") \cup Open("rung")) \cap {2, Len(acts)}, value \in {"ok", "fault"} :
          (acts[i].kind = "rung" => value = "ok") /\ acts' = [acts EXCEPT ![i].value = value, ![i].owed = FALSE] /\ UNCHANGED made

Next == Prompt \/ Acknowledge \/ Rung \/ Chain \/ Done
threadVars == <<acts, made>>
Spec == Init /\ [][Next]_threadVars

(* ---- what each prompt is ---- *)

Maker(id) == acts[id].by
HasMaker(id) == Maker(id) > 0

\* The first prompt of the thread that a prompt stands in.
RootOf(id) == LET Up[i \in Ids] == IF acts[acts[i].on].kind = "prompt" THEN Up[acts[i].on] ELSE i IN Up[id]

\* The thread whose rung is over an act, walking up its makers, or none.
ThreadOf(id) ==
  LET Up[i \in Ids] ==
        IF ~HasMaker(i) THEN None
        ELSE CASE acts[Maker(i)].kind = "prompt" -> RootOf(Maker(i))
               [] acts[Maker(i)].kind = "rung"   -> Up[Maker(i)]
               [] acts[Maker(i)].kind = "chain"  -> None
  IN Up[id]

\* Whether a chain stands under another, walking up the makers of the chains.
Within(chain, of) ==
  LET Up[i \in Ids] == i = of \/ (HasMaker(i) /\ Up[acts[Maker(i)].chain]) IN Up[chain]

Own == [is |-> "own", of |-> None]
Message(t) == [is |-> "message", of |-> t]
Aside(is) == [is |-> is, of |-> None]

\* What the acknowledgment of an act is: a message of the thread of that act, or an aside.
Acknowledged(id) ==
  LET about == acts[id].about
      thread == ThreadOf(about)
  IN CASE acts[about].kind = "prompt" /\ thread = None -> Message(about)
       [] thread # None -> Message(thread)
       [] thread = None /\ acts[about].kind = "rung" -> Aside("rung")

\* What a prompt to a model is to the threads.
Verdict(id) ==
  LET a == acts[id]
      none == a.shape = "notice"
      acted == HasMaker(id)
  IN CASE acts[a.on].kind = "prompt" -> Message(RootOf(id))
       [] acts[a.on].kind # "prompt" ->
            IF acted /\ none /\ acts[a.by].kind = "chain" THEN Acknowledged(id)
            ELSE IF a.by = Operator THEN Own
            ELSE IF none THEN (IF ~acted THEN Aside("wake") ELSE IF acts[a.by].by = Operator THEN Aside("rung") ELSE Aside("notice"))
            ELSE IF acts[a.by].chain # a.chain /\ ~Within(a.chain, acts[a.by].chain) THEN Aside("question") ELSE Own

(* ---- the threads and the asides of a chain ---- *)

Asks(i) == acts[i].shape = "operator"

\* A form that leaves out the messages of a thread that the chain does not list.
JoinedDropping(asides, later, joins) ==
  FoldLeft(LAMBDA all, i : IF Asks(i) \/ joins[i] \notin DOMAIN all THEN all ELSE [all EXCEPT ![joins[i]] = @ \cup {i}], asides, later)

\* The asides with the prompts on them: a message of a thread that the chain does not list is an aside of its own.
Joined(asides, later, joins) ==
  FoldLeft(LAMBDA all, i :
             CASE Asks(i) -> all
               [] ~Asks(i) /\ joins[i] \in DOMAIN all    -> [all EXCEPT ![joins[i]] = @ \cup {i}]
               [] ~Asks(i) /\ joins[i] \notin DOMAIN all -> [j \in DOMAIN all \cup {i} |-> IF j = i THEN {} ELSE all[j]],
           asides, later)

\* What the prompts of a chain are, in the order they began (sorted): the threads, each with its messages and the
\* questions of it that wait, and the asides, each with the prompts on it.
Sorted(c) ==
  LET on == SelectSeq([i \in Ids |-> i], LAMBDA i : acts[i].kind = "prompt" /\ acts[i].chain = c)
      verdict == [i \in Range(on) |-> IF Asks(i) THEN Message(ThreadOf(i)) ELSE Verdict(i)]
      listed == {i \in Range(on) : verdict[i].is = "own"}
      later == SelectSeq(on, LAMBDA i : verdict[i].is = "message" /\ verdict[i].of # None)
      joins == [i \in Range(later) |-> verdict[i].of]
      asides == [i \in {j \in Range(on) : verdict[j].is \notin {"own", "message"}} |-> {}]
  IN [listed |-> listed, on |-> Range(on),
      messages |-> [t \in listed |-> {i \in Range(later) : ~Asks(i) /\ joins[i] = t}],
      questions |-> [t \in listed |-> {i \in Range(later) : Asks(i) /\ joins[i] = t /\ acts[i].owed}],
      asides |-> Joined(asides, SelectSeq(later, LAMBDA i : joins[i] \notin listed), joins)]

\* A thread is as the last of its prompts that is not done, or as its first prompt when each is.
OpenOf(s, t) == {i \in {t} \cup s.messages[t] : ~Over(acts[i])}
StateOf(i) == CASE ~Over(acts[i]) -> "runs" [] acts[i].value = "fault" -> "failed" [] acts[i].value = "ok" -> "done"
StateOfThread(s, t) ==
  IF s.questions[t] # {} THEN "asks" ELSE IF OpenOf(s, t) = {} THEN StateOf(t) ELSE StateOf(Max(OpenOf(s, t)))

(* ---- the tree ---- *)

\* The thread of the list whose ladder made the prompt of a thread, or none (nest_threads).
Parents(s) == [t \in s.listed |-> IF ThreadOf(t) \in s.listed \ {t} THEN ThreadOf(t) ELSE None]
Agents(parent, t) == {u \in DOMAIN parent : parent[u] = t}

\* The threads from the tops of the tree, each with its agents.
Tree(parent) ==
  LET Under[t \in DOMAIN parent] == {t} \cup UNION {Under[u] : u \in Agents(parent, t)}
  IN UNION {Under[t] : t \in Agents(parent, None)}

\* A form that keeps the state of a thread whatever its agents ask.
NodesAlone(s, parent) == [t \in s.listed |-> StateOfThread(s, t)]

\* The state of each node: its own, or asks while a question waits in an agent under it.
Nodes(s, parent) ==
  LET Up[t \in s.listed] == IF \E u \in Agents(parent, t) : Up[u] = "asks" THEN "asks" ELSE StateOfThread(s, t) IN Up

\* Whether the operator started it, himself or by a word of his own.
Yours(t) == acts[t].by = Operator \/ (HasMaker(t) /\ acts[acts[t].by].kind = "rung" /\ acts[acts[t].by].by = Operator)

\* What the tree says to the operator: the threads that ask, but for one whose agent asks, and those of his that failed.
Asking(parent, node) == {t \in Tree(parent) : node[t] = "asks" /\ \A u \in Agents(parent, t) : node[u] # "asks"}
Failing(parent, node) == {t \in Tree(parent) : node[t] = "failed" /\ Yours(t)}

(* ---- properties ---- *)

Chains == {i \in Ids : acts[i].kind = "chain"}

\* Each prompt to a model is one thread, one message of a thread, one aside or one prompt on an aside: no prompt of a
\* chain is lost to the view, and none shows twice.
EachShowsOnce(s) ==
  \A i \in s.on : ~Asks(i) =>
    (IF i \in s.listed THEN 1 ELSE 0) + Cardinality({t \in s.listed : i \in s.messages[t]})
      + (IF i \in DOMAIN s.asides THEN 1 ELSE 0) + Cardinality({t \in DOMAIN s.asides : i \in s.asides[t]}) = 1

\* The tree holds each thread of the list, and while a question waits in a thread of it, the operator is told, and
\* each thread over that one asks.
QuestionsEscalate(s, parent, node) ==
  /\ Tree(parent) = s.listed
  /\ (Asking(parent, node) # {}) = (\E t \in s.listed : s.questions[t] # {})
  /\ \A t \in s.listed : s.questions[t] # {} /\ parent[t] # None => node[parent[t]] = "asks"

\* A thread is at rest only once its prompt and each of its messages is done, and the failure of a thread that the
\* operator started is told while nothing of it asks.
RestsWhenDone(s, parent, node) ==
  \A t \in s.listed :
    /\ StateOfThread(s, t) \in {"done", "failed"} <=> s.questions[t] = {} /\ OpenOf(s, t) = {}
    /\ t \in Failing(parent, node) => acts[t].value = "fault"

ThreadsHold ==
  \A c \in Chains : LET s == Sorted(c) parent == Parents(s) node == Nodes(s, parent) IN
    EachShowsOnce(s) /\ QuestionsEscalate(s, parent, node) /\ RestsWhenDone(s, parent, node)

\* What threads.rs:359 says of the count of the questions: each counts once, in the thread where it waits.
CountsEachQuestion ==
  \A c \in Chains : LET s == Sorted(c) parent == Parents(s) node == Nodes(s, parent) IN
    \A t \in s.listed : s.questions[t] # {} => t \in Asking(parent, node)
=============================================================================
