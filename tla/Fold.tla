-------------------------------- MODULE Fold --------------------------------
(***************************************************************************)
(* The fold of the facts of a life into acts with their meaning, and the     *)
(* window that holds each act as it was last told (view/fold.rs, act.rs,     *)
(* state.rs and held.rs, with the ear of host/src/ears.rs that feeds it).    *)
(* The fold keeps what a state reads as the facts come; the properties       *)
(* compare it with what all the acts say at once.                            *)
(*                                                                         *)
(* An act is named by its place in time; 1 is the root chain and 0 the       *)
(* operator. A value is "ok", "fault" or "cancel". `controls` keeps each     *)
(* pause and wake of the life, which the ear keeps in part.                  *)
(***************************************************************************)
EXTENDS Naturals, Sequences, FiniteSets, SequencesExt, FiniteSetsExt

CONSTANTS
  Kinds,        \* the kinds of the acts that the life makes
  Shapes,       \* who its prompts ask: a "model", the "operator", or none, as a "notice" does
  MaxFolded,    \* bound: the acts, one less in a life that is paused
  MaxHolds      \* bound: the pauses and wakes

VARIABLES
  acts,      \* Fold.acts, in the order they began
  chains,    \* Fold.chains: what the fold holds of each chain
  ran,       \* Fold.ran: the rungs whose run is done, each with what it gave
  refused,   \* Fold.refused: the rungs whose word the gate refused
  live,      \* Fold.live
  kept,      \* the controls that the ear keeps, each over what it is about, in order
  held,      \* Held: each act as the window heard it last
  controls   \* ghost: each pause and wake of the life

foldVars == <<acts, chains, ran, refused, live, kept, held, controls>>

Ids == DOMAIN acts
Operator == 0
Root == 1
Followed == {"chain", "prompt", "rung", "bash", "grant"}
Work == {"prompt", "rung", "bash"}
Values == {"ok", "fault", "cancel"}
NoChain == [open |-> {}, last |-> 0, prompt |-> 0, remote |-> {}]

TypeOK ==
  /\ \A i \in Ids : /\ acts[i].kind \in Kinds \cup {"chain"} /\ acts[i].by \in 0 .. i - 1
                    /\ acts[i].value \in Values \cup {"none"}
  /\ DOMAIN chains = Ids /\ DOMAIN ran \subseteq Ids /\ refused \subseteq Ids /\ live \subseteq Ids
  /\ kept \in Seq([kind : {"pause", "wake"}, about : Ids])
  /\ DOMAIN held = Ids

(* ---- the acts ---- *)

Over(a) == a.value # "none"

\* Whether the operator owes an answer.
Owed(a) == a.operator /\ ~Over(a)

\* Whether it failed, or a cancel ended it: a rung by how its word ran, another by its value.
Failed(a)    == IF a.kind = "rung" THEN a.run \in {"failed", "refused"} ELSE a.value = "fault"
Cancelled(a) == IF a.kind = "rung" THEN a.run = "cancelled" ELSE a.value = "cancel"

\* The state of one act.
StateOf(a) ==
  CASE Owed(a) -> "asks"
    [] ~Owed(a) /\ a.pause /\ ~Over(a) -> "paused"
    [] ~Owed(a) /\ ~(a.pause /\ ~Over(a)) ->
         CASE Cancelled(a) -> "cancelled"
           [] ~Cancelled(a) /\ Failed(a) -> "failed"
           [] ~Cancelled(a) /\ ~Failed(a) ->
                IF ~Over(a) /\ a.kind \notin Work THEN "delegates"
                ELSE IF Over(a) /\ (a.kind # "rung" \/ a.run # "running") THEN "done"
                ELSE IF a.kind = "rung" /\ ~Over(a) /\ ~a.word THEN "thinks" ELSE "runs"

\* What the work of a chain that is not done does (working).
Working(open, remote) ==
  IF \E a \in open : a.kind = "rung" /\ ~a.word THEN "thinks"
  ELSE IF \E a \in open : a.kind = "bash" THEN "runs"
  ELSE IF \E a \in remote : ~Over(a) THEN "delegates" ELSE "runs"

\* The state of a chain, from acts of it in the order they began, and the prompts of its words elsewhere.
ChainState(on, remote) ==
  LET work == SelectSeq(on, LAMBDA a : a.kind \in Work)
      open == {a \in Range(work) : ~Over(a)}
  IN IF \E a \in Range(on) : Owed(a) THEN "asks"
     ELSE IF \E a \in open : a.pause THEN "paused"
     ELSE IF open # {} THEN Working(open, remote)
     ELSE IF work # <<>> /\ Cancelled(Last(work)) THEN "cancelled"
     ELSE IF work # <<>> /\ Failed(Last(work)) THEN "failed"
     ELSE IF \E a \in Range(work) : a.kind = "prompt" THEN "done" ELSE "idle"

(* ---- the fold: f holds its acts and what it keeps of them ---- *)

Now == [acts |-> acts, chains |-> chains, ran |-> ran, refused |-> refused, live |-> live, moved |-> {}]

Moves(f, id) == [f EXCEPT !.moved = @ \cup {id}]

\* The chain of the rung that made a prompt on another chain, or 0.
RemoteOf(f, a) ==
  IF a.kind = "prompt" /\ a.by # Operator /\ f.acts[a.by].kind = "rung" /\ f.acts[a.by].chain # a.chain
  THEN f.acts[a.by].chain ELSE 0

\* A new act in the places that the fold reads it from.
Placed(f, id) ==
  LET a == f.acts[id]
      remote == RemoteOf(f, a)
      g == IF a.kind \in Followed THEN [f EXCEPT !.live = @ \cup {id}] ELSE f
      h == [g EXCEPT !.chains[a.chain].open = @ \cup {id}, !.chains[a.chain].last = id,
                     !.chains[a.chain].prompt = IF a.kind = "prompt" THEN id ELSE @]
  IN IF a.kind \notin Work THEN g
     ELSE IF remote = 0 THEN h ELSE [h EXCEPT !.chains[remote].remote = @ \cup {id}]

\* A new act, which gives its rung a word when it is the run of it.
Asked(f, a) ==
  LET id == Len(f.acts) + 1
      word == IF a.kind = "run" /\ ~f.acts[a.by].word
              THEN Moves([f EXCEPT !.acts[a.by].word = TRUE], a.by) ELSE f
      made == [word EXCEPT !.acts = Append(@, [a EXCEPT !.chain = IF a.kind = "chain" THEN id ELSE @]),
                           !.chains = Append(@, NoChain)]
  IN Moves(Placed(made, id), id)

\* How the word of a rung ran, from what the fold keeps of it.
RunOf(f, id) ==
  LET a == f.acts[id]
      got == IF id \in DOMAIN f.ran THEN f.ran[id] ELSE a.value
      well == \/ a.retells \/ a.value = "ok"
              \/ a.by # Operator /\ f.acts[a.by].kind = "prompt" /\ f.acts[a.by].value = "ok"
  IN CASE id \in f.refused -> "refused"
       [] id \notin f.refused /\ got = "cancel" -> IF well THEN "done" ELSE "cancelled"
       [] id \notin f.refused /\ got = "fault" -> "failed"
       [] id \notin f.refused /\ got \in {"ok", "none"} -> IF id \in DOMAIN f.ran THEN "done" ELSE "running"

UpdateRun(f, id) ==
  IF f.acts[id].kind # "rung" THEN f ELSE Moves([f EXCEPT !.acts[id].run = RunOf(f, id)], id)

\* A form that leaves how the words of a prompt ran as they were when the prompt ends.
ChildrenLeft(f, id) == {}

\* The acts that an act made, whose words the end of it may have ended well.
Children(f, id) == {i \in DOMAIN f.acts : f.acts[i].by = id /\ f.acts[i].kind \in Followed}

\* A done act out of the places that hold the acts that are not.
Unplaced(f, id) ==
  LET a == f.acts[id]
      remote == RemoteOf(f, a)
      g == [f EXCEPT !.live = @ \ {id}, !.chains[a.chain].open = @ \ {id}]
  IN IF remote = 0 THEN g ELSE [g EXCEPT !.chains[remote].remote = @ \ {id}]

\* The end of an act: the run of a word says how its rung ran, and a prompt how the words under it did.
DoneOf(f, id, value) ==
  LET a == f.acts[id]
      g == IF a.kind = "reply" /\ value = "ok"
           THEN [f EXCEPT !.acts[a.by].spend = @ + 1, !.acts[a.chain].spend = @ + 1,
                          !.moved = @ \cup {a.by, a.chain}] ELSE f
      h == IF a.kind = "run"
           THEN UpdateRun([g EXCEPT !.ran = [i \in DOMAIN @ \cup {a.by} |-> IF i = a.by THEN value ELSE @[i]]], a.by)
           ELSE g
      ended == Moves([Unplaced(h, id) EXCEPT !.acts[id].value = value], id)
  IN FoldLeft(UpdateRun, UpdateRun(ended, id), SetToSeq(Children(ended, id)))

\* The state of a chain from what the fold holds of it.
HeldState(f, c) ==
  LET one == f.chains[c]
      ids == SetToSortSeq((one.open \cup {one.last, one.prompt}) \ {0}, <)
  IN ChainState([i \in DOMAIN ids |-> f.acts[ids[i]]], {f.acts[i] : i \in one.remote})

\* A form that looks at the chain of each act that a fact moved alone.
StaleHere(f) == {f.acts[i].chain : i \in f.moved}

\* The chains whose state a fact may have changed.
Stale(f) == StaleHere(f) \cup ({RemoteOf(f, f.acts[i]) : i \in f.moved} \ {0})

\* The acts that the fact moved, each in its state, and each chain whose state it changed.
Settled(f) ==
  LET Stated(i) == IF i \in f.moved /\ f.acts[i].kind # "chain" THEN StateOf(f.acts[i]) ELSE f.acts[i].state
      g == [f EXCEPT !.acts = [i \in DOMAIN @ |-> [f.acts[i] EXCEPT !.state = Stated(i)]]]
      changed == {c \in Stale(f) : g.acts[c].state # HeldState(g, c)}
      Chained(i) == IF i \in changed THEN HeldState(g, i) ELSE g.acts[i].state
  IN [g EXCEPT !.acts = [i \in DOMAIN @ |-> [g.acts[i] EXCEPT !.state = Chained(i)]], !.moved = @ \cup changed]

\* What the fold comes to, and each act that moved, told to the window.
Hears(f) ==
  \E g \in {f} : \E s \in {Settled(g)} :
    /\ acts' = s.acts /\ chains' = s.chains /\ ran' = s.ran /\ refused' = s.refused /\ live' = s.live
    /\ held' = [i \in DOMAIN held \cup s.moved |-> IF i \in s.moved THEN s.acts[i] ELSE held[i]]

(* ---- the controls ---- *)

Lineage(id, all) ==
  LET Up[i \in 0 .. Len(all)] == IF i = Operator THEN {} ELSE {i} \cup Up[all[i].by] IN Up[id]

\* A name and, while it is a prompt, what it is on.
Thread(id, all) ==
  LET Up[i \in DOMAIN all] == {i} \cup (IF all[i].kind = "prompt" THEN Up[all[i].on] ELSE {}) IN Up[id]

\* Whether a pause or a wake is over an act, as the engine reads it (covers).
Covers(control, id, all) ==
  \/ \E m \in Lineage(id, all) : control.about \in Thread(m, all)
  \/ all[id].chain = control.about

\* A form that finds the pause of a new act among the controls from the last pause on.
FromLast(all) == IF \E i \in DOMAIN all : all[i].kind = "pause" THEN Max({i \in DOMAIN all : all[i].kind = "pause"}) ELSE Len(all) + 1

\* The first of the controls that may hold a new act: those before the oldest pause wake what nothing holds.
FromOldest(all) == IF \E i \in DOMAIN all : all[i].kind = "pause" THEN Min({i \in DOMAIN all : all[i].kind = "pause"}) ELSE Len(all) + 1

\* The pause that holds a new act: the last control over it, when that is a pause.
Born(id, all) ==
  LET over == {i \in FromOldest(kept) .. Len(kept) : Covers(kept[i], id, all)}
  IN over # {} /\ kept[Max(over)].kind = "pause"

\* The live acts that a pause, or a wake, covers and changes (open, covered).
CoveredBy(control) ==
  {i \in live : acts[i].pause = (control.kind = "wake") /\ Covers(control, i, acts)}

(* ---- what the life says ---- *)

Act(kind, by, on, chain) ==
  [kind |-> kind, by |-> by, on |-> on, chain |-> chain, shape |-> "none", retells |-> FALSE,
   about |-> 0, value |-> "none", operator |-> FALSE, pause |-> FALSE, run |-> IF kind = "rung" THEN "running" ELSE "none",
   word |-> FALSE, spend |-> 0, state |-> "idle"]

Init ==
  /\ acts = <<Act("chain", 0, 0, 1)>> /\ chains = <<NoChain>> /\ ran = <<>> /\ refused = {} /\ live = {1}
  /\ kept = <<>> /\ controls = <<>> /\ held = [i \in {1} |-> acts[1]]

Open(kind) == {i \in Ids : acts[i].kind = kind /\ ~Over(acts[i])}

\* A new act, held by the pause that covers it.
Room == IF controls = <<>> THEN MaxFolded ELSE MaxFolded - 1
Asks(a) ==
  /\ a.kind \in Kinds /\ Len(acts) < Room
  /\ LET all == Append(acts, [a EXCEPT !.chain = IF a.kind = "chain" THEN Len(acts) + 1 ELSE @]) IN
       Hears(Asked(Now, [a EXCEPT !.pause = a.kind \in Followed /\ Born(Len(all), all)]))
  /\ UNCHANGED <<kept, controls>>

\* A prompt, of the operator, a word, or a chain that tells the end of an act of it, on a chain or on a prompt.
Prompt ==
  \E by \in {Operator} \cup Open("rung") \cup Open("chain"), on \in Open("chain") \cup Open("prompt"),
     shape \in Shapes, about \in 0 .. Len(acts) :
    /\ about # 0 <=> by \in Open("chain")
    /\ by \in Open("chain") => /\ on = by /\ shape = "notice"
                               /\ Over(acts[about]) /\ acts[about].chain = by /\ acts[about].kind \in Followed
    /\ Asks([Act("prompt", by, on, acts[on].chain) EXCEPT !.shape = shape, !.about = about])

\* A word of the operator, or one that a prompt asks of a model.
Rung ==
  \E by \in {Operator} \cup Open("prompt"), on \in Open("chain"), retells \in BOOLEAN :
    /\ by # Operator => on = acts[by].chain /\ acts[by].shape = "model"
    /\ Asks([Act("rung", by, on, on) EXCEPT !.retells = retells])

\* A word makes acts: its run and its reply, of which a rung has one at once, a command, a grant and a chain.
Makes ==
  \E by \in Open("rung"), kind \in {"run", "reply", "bash", "grant", "chain"} :
    /\ kind \in {"run", "reply"} => ~\E i \in Ids : acts[i].by = by /\ acts[i].kind = "run"
    /\ kind = "reply" => ~acts[by].word
    /\ Asks(Act(kind, by, acts[by].chain, acts[by].chain))

\* The console of the operator takes a prompt to him.
Started ==
  \E id \in Open("prompt") : acts[id].shape = "operator" /\ ~acts[id].operator
    /\ Hears(Moves([Now EXCEPT !.acts[id].operator = TRUE], id)) /\ UNCHANGED <<kept, controls>>

\* A word is ready, or the gate tells what it refused of it.
Ready ==
  \E id \in Open("rung") : ~acts[id].word
    /\ Hears(Moves([Now EXCEPT !.acts[id].word = TRUE], id)) /\ UNCHANGED <<kept, controls>>
Refused ==
  \E id \in Open("rung") : acts[id].word /\ id \notin refused /\ ~(\E i \in Ids : acts[i].by = id)
    /\ Hears(UpdateRun([Now EXCEPT !.refused = @ \cup {id}], id)) /\ UNCHANGED <<kept, controls>>

\* An act ends, the root alone never.
Done ==
  \E id \in Ids \ {Root}, value \in Values : ~Over(acts[id])
    /\ Hears(DoneOf(Now, id, value)) /\ UNCHANGED <<kept, controls>>

\* A pause or a wake: the ear keeps the last of each name, and asks the engine which live acts it changes.
Control ==
  \E kind \in {"pause", "wake"}, about \in live :
    LET control == [kind |-> kind, about |-> about]
        covered == CoveredBy(control)
        Pause(i) == IF i \in covered THEN kind = "pause" ELSE acts[i].pause
        f == [Now EXCEPT !.acts = [i \in Ids |-> [acts[i] EXCEPT !.pause = Pause(i)]], !.moved = covered]
    IN /\ Len(controls) < MaxHolds /\ Len(acts) < MaxFolded
       /\ controls' = Append(controls, control)
       /\ kept' = Append(SelectSeq(kept, LAMBDA one : one.about # about), control)
       /\ Hears(f)

Next == Prompt \/ Rung \/ Makes \/ Started \/ Ready \/ Refused \/ Done \/ Control

Spec == Init /\ [][Next]_foldVars

(* ---- properties ---- *)

\* Each act and each chain is in the state that all the acts of the life give it (restate): what the fold keeps
\* as facts come loses no act that a state reads.
Restated(id) ==
  LET on == SelectSeq([i \in Ids |-> [a |-> acts[i], id |-> i]], LAMBDA one : one.a.chain = id /\ one.id # id)
      remote == {a \in Range(acts) : a.kind = "prompt" /\ a.chain # id /\ a.by # Operator /\ acts[a.by].chain = id}
  IN IF acts[id].kind # "chain" THEN StateOf(acts[id]) ELSE ChainState([i \in DOMAIN on |-> on[i].a], remote)
StatesAreWhole == \A id \in Ids : acts[id].state = Restated(id)

\* How each word ran is what its run, its own end and the end of its prompt say now, in whatever order they came.
RunsAreTrue == \A id \in Ids : acts[id].kind = "rung" => acts[id].run = RunOf(Now, id)

\* A pause holds a live act when the last pause or wake that covers it is a pause, though the ear keeps the last of
\* each name and asks of the acts that it may change alone.
PausesAreLast ==
  \A id \in live :
    LET over == {i \in DOMAIN controls : Covers(controls[i], id, acts)}
    IN acts[id].pause = (over # {} /\ controls[Max(over)].kind = "pause")

\* A window that takes each act it is told holds each act as the fold does.
WindowHolds == \A id \in Ids : held[id] = acts[id]

FoldHolds == StatesAreWhole /\ RunsAreTrue /\ PausesAreLast /\ WindowHolds
=============================================================================
