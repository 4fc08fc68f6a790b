------------------------------ MODULE Control ------------------------------
(***************************************************************************)
(* The controls of the engine (engine.py): pause, wake, cancel and close,  *)
(* the acts that each is over (covers), and the ear of an act that they    *)
(* reach (controlled). A fact enters the record as it is said, and the     *)
(* ears hear it as the bus dispatches it, so an ear born in between reads  *)
(* in the record what others still have to hear.                           *)
(* An act is the place of its making; a fact is its place in the record.   *)
(***************************************************************************)
EXTENDS Naturals, Sequences, FiniteSets, Functions

CONSTANTS Chains,       \* the chains of the life, made by the operator
          Kinds,        \* the kinds of the other acts: "prompt", "rung", "wait"
          MaxActs,      \* bound: acts of the life, its chains apart
          MaxControls,  \* bound: controls said
          MaxNews       \* bound: facts that the world says about acts that it answers

ASSUME ControlAssumption ==
  /\ Chains # {} /\ \A c \in Chains : c \notin 0 .. MaxActs
  /\ Kinds \subseteq {"prompt", "rung", "wait"}
  /\ MaxActs \in Nat /\ MaxControls \in Nat /\ MaxNews \in Nat

OPERATOR == 0
Acts     == 1 .. MaxActs

VARIABLES
  known,  \* the acts: the maker of each, the chain or prompt that it is on, and what these make it under
  facts,  \* the record: each fact [kind, about, by] in the order they were said
  now,    \* the place of the fact that the bus dispatches; those after it are its log
  left,   \* the acts whose ears have still to hear that fact
  busy,   \* the ear that goes on with what it put off, or 0
  alive,  \* the acts whose ear lives
  over,   \* the acts that are done
  halt,   \* the acts whose ear a pause holds
  later,  \* what the ear of each act put off, in order
  got     \* ghost: the facts but acts and wakes that the ear that a controlled ear carries heard

bus  == <<now, left, busy>>
vars == <<known, facts, bus, alive, over, halt, later, got>>

Controls == {"pause", "wake", "cancel", "close"}

-----------------------------------------------------------------------------
(* The names: who made an act, what it is on, and what a control is over.   *)

Known == 1 .. Len(known)

\* lineage: a name, its maker, and so on to the operator.
Lineage(a) == IF a = OPERATOR THEN {OPERATOR} ELSE known[a].line

Under(a, of) == of \in Lineage(a)

\* A name and, while it is a prompt, what it is on.
Thread(name) == IF name \in Known THEN known[name].thread ELSE {name}

\* scope: the chain that a name is on.
Scope(name) == IF name \in Known THEN known[name].scope ELSE name

\* covers: a close is over its act and each rung of it, another control over all under it.
Covers(f, a) ==
  IF f.kind = "close"
  THEN \/ f.about \in Thread(a)
       \/ known[a].kind = "rung" /\ f.about \in Thread(known[a].by)
  ELSE \/ \E m \in Lineage(a) : f.about \in Thread(m)
       \/ Scope(a) = f.about

\* The places in the record of the pauses and wakes over an act, as paused looks for them.
PausesSeen(a) ==
  {i \in DOMAIN facts : /\ facts[i].kind \in {"pause", "wake"}
                        /\ Scope(facts[i].about) = Scope(a) /\ Covers(facts[i], a)}

\* paused: the last of them is a pause.
Paused(a) ==
  \E i \in PausesSeen(a) : facts[i].kind = "pause" /\ \A j \in PausesSeen(a) : j > i => facts[j].kind = "pause"

-----------------------------------------------------------------------------
Forms == [kind : Kinds, by : 0 .. MaxActs, on : Chains \cup Acts,
          line : SUBSET (0 .. MaxActs), thread : SUBSET (Chains \cup Acts), scope : Chains]
Facts == [kind : Controls \cup {"act", "done", "news"}, about : Chains \cup Acts, by : 0 .. MaxActs]

TypeOK ==
  /\ known \in Seq(Forms) /\ Len(known) <= MaxActs
  /\ \A a \in Known : /\ known[a].by < a /\ (known[a].on \in Chains \/ known[a].on < a)
                      /\ known[a].line \subseteq 0 .. a
  /\ facts \in Seq(Facts) /\ now \in 0 .. Len(facts) /\ left \subseteq Known
  /\ busy \in {0} \cup alive
  /\ alive \subseteq Known /\ over \subseteq Known /\ halt \subseteq Known
  /\ later \in [Acts -> Seq(DOMAIN facts)] /\ got \in [Acts -> SUBSET (DOMAIN facts)]

Init ==
  /\ known = <<>> /\ facts = <<>> /\ now = 0 /\ left = {} /\ busy = 0
  /\ alive = {} /\ over = {} /\ halt = {}
  /\ later = [a \in Acts |-> <<>>] /\ got = [a \in Acts |-> {}]

\* Whether the bus is still: it dispatched each fact, and no ear hears.
Idle == now = Len(facts) /\ left = {} /\ busy = 0

\* How many facts of some kinds the record holds.
Said(kinds) == Cardinality({i \in DOMAIN facts : facts[i].kind \in kinds})

-----------------------------------------------------------------------------
(* What an ear, a word of the sandbox or the world says.                    *)

\* say: a fact in the record and in the log of the bus; the first done of an act ends it.
Say(kind, about, by) ==
  /\ facts' = Append(facts, [kind |-> kind, about |-> about, by |-> by])
  /\ over' = IF kind = "done" THEN over \cup {about} ELSE over

HaltNever(a) == FALSE

\* What the ear of an act takes of the record as it is born.
HaltBorn(a) == Paused(a)

\* act, with an ear of its own: the act enters the record, and its ear is born at once.
Make(kind, by, on, held) ==
  \E a \in {Len(known) + 1} :
    /\ a <= MaxActs
    /\ known' = Append(known, [kind |-> kind, by |-> by, on |-> on, line |-> {a} \cup Lineage(by),
                               thread |-> {a} \cup (IF kind = "prompt" THEN Thread(on) ELSE {}), scope |-> Scope(on)])
    /\ Say("act", a, by)
    /\ alive' = alive \cup {a}
    /\ halt' = IF HaltBorn(a)' THEN held \cup {a} ELSE held

\* What an act of this life can be on: a chain, or a prompt that answers there.
Places == Chains \cup {a \in Known : known[a].kind = "prompt"}

Makes(by, held) == \E kind \in Kinds, on \in Places : Make(kind, by, on, held)

-----------------------------------------------------------------------------
(* controlled: one fact that the ear of an act hears.                       *)

\* The ear that the controlled ear carries hears a fact: it goes on, ends its act, or makes another.
Inner(a, i, held) ==
  /\ got' = [got EXCEPT ![a] = IF facts[i].kind \in {"act", "wake"} THEN @ ELSE @ \cup {i}]
  /\ \/ halt' = held /\ UNCHANGED <<known, facts, alive, over>>
     \/ halt' = held /\ Say("done", a, a) /\ UNCHANGED <<known, alive>>
     \/ Makes(a, held)

IsPause(f, a) == f.kind = "pause" /\ Covers(f, a)

\* The acts that a pause holds once an ear heard a fact: a pause over its act, or a wake.
Held(f, a) ==
  IF f.kind \in {"pause", "wake"} /\ Covers(f, a)
  THEN IF f.kind = "pause" THEN halt \cup {a} ELSE halt \ {a}
  ELSE halt

EndsNotPaused(f, a) == f.kind \in {"cancel", "close"} /\ Covers(f, a) /\ a \notin halt

\* Whether a control ends the act: what the words of a paused act say waits for the wake.
Ends(f, a) ==
  /\ f.kind \in {"cancel", "close"} /\ Covers(f, a)
  /\ ~(a \in halt /\ Under(f.by, a))

PutsOffEnds(f, a) == a \in Held(f, a) /\ f.kind \in {"act", "done"}

\* What a paused ear puts off: all but an act, which it hears at once.
PutsOff(f, a) == a \in Held(f, a) /\ f.kind # "act"

\* The ear of an act resumed with a fact, once it took the fact from its queue: q is the rest of it.
Lived(a, i, q) ==
  LET f == facts[i] IN
  \/ \* the act is over, and so is its ear
     /\ a \in over
     /\ alive' = alive \ {a} /\ later' = [later EXCEPT ![a] = <<>>]
     /\ UNCHANGED <<known, facts, over, halt, got>>
  \/ \* a pause
     /\ a \notin over /\ IsPause(f, a)
     /\ halt' = Held(f, a) /\ later' = [later EXCEPT ![a] = q]
     /\ UNCHANGED <<known, facts, alive, over, got>>
  \/ \* a cancel or a close over the act
     /\ a \notin over /\ Ends(f, a)
     /\ Say("done", a, a) /\ later' = [later EXCEPT ![a] = q]
     /\ UNCHANGED <<known, alive, halt, got>>
  \/ \* what waits for the wake
     /\ a \notin over /\ ~IsPause(f, a) /\ ~Ends(f, a) /\ PutsOff(f, a)
     /\ later' = [later EXCEPT ![a] = Append(q, i)]
     /\ UNCHANGED <<known, facts, alive, over, halt, got>>
  \/ \* the ear that it carries hears it, a wake too
     /\ a \notin over /\ ~IsPause(f, a) /\ ~Ends(f, a) /\ ~PutsOff(f, a)
     /\ Inner(a, i, Held(f, a)) /\ later' = [later EXCEPT ![a] = q]

\* An ear goes on at once with what it put off, when no pause holds it.
GoesOn(a) == a \in alive /\ later[a] # <<>> /\ a \notin halt

-----------------------------------------------------------------------------
(* The bus.                                                                 *)

\* ears: those that a fact is for, each control for all of them, the oldest act first.
Heeds(a, f) ==
  \/ f.kind \in Controls
  \/ f.about \in Known /\ a \in {f.about, known[f.about].by, known[f.about].on}

\* The ear of a new act hears its act at its birth, and not from the log.
Ears(f) == {a \in alive : Heeds(a, f) /\ ~(f.kind = "act" /\ f.about = a)}

\* dispatch: the next fact of the log, for each ear that lives as it is taken.
Take ==
  /\ busy = 0 /\ left = {} /\ now < Len(facts)
  /\ now' = now + 1 /\ left' = Ears(facts[now'])
  /\ UNCHANGED <<known, facts, busy, alive, over, halt, later, got>>

Busy(a) == busy' = IF GoesOn(a)' THEN a ELSE 0

\* hear, by the next ear of the fact that the bus dispatches, the oldest act first.
Hear ==
  /\ busy = 0
  /\ \E a \in left :
       /\ \A other \in left : a <= other
       /\ left' = left \ {a}
       /\ \/ a \in alive /\ Lived(a, now, later[a]) /\ Busy(a)
          \/ a \notin alive /\ UNCHANGED <<known, facts, busy, alive, over, halt, later, got>>
  /\ UNCHANGED now

DrainLastFirst ==
  /\ \E a \in {busy} \ {0} : Lived(a, later[a][Len(later[a])], SubSeq(later[a], 1, Len(later[a]) - 1)) /\ Busy(a)
  /\ UNCHANGED <<now, left>>

\* An ear woken goes on with the first of what it put off.
Drain ==
  /\ \E a \in {busy} \ {0} : Lived(a, later[a][1], Tail(later[a])) /\ Busy(a)
  /\ UNCHANGED <<now, left>>

\* The operator, or the word of an act in the sandbox, makes an act.
Work ==
  /\ Idle
  /\ \E by \in {OPERATOR} \cup (Known \ over) : Makes(by, halt)
  /\ UNCHANGED <<bus, later, got>>

\* pause, wake, cancel and close, by the operator or the word of an act.
Control ==
  /\ Idle /\ Said(Controls) < MaxControls
  /\ \E kind \in Controls, about \in Known \cup Chains, by \in {OPERATOR} \cup (Known \ over) :
       /\ kind = "close" => about \in Known
       /\ ~(kind = "pause" /\ by \in Known /\ known[by].kind = "rung"
            /\ Covers([kind |-> kind, about |-> about, by |-> by], by))
       /\ Say(kind, about, by)
  /\ UNCHANGED <<known, bus, alive, halt, later, got>>

\* The world says a fact about an act that it answers, or the done of it.
World ==
  /\ Idle
  /\ \E a \in Known \ over :
       \/ Said({"news"}) < MaxNews /\ Say("news", a, OPERATOR)
       \/ Say("done", a, OPERATOR)
  /\ UNCHANGED <<known, bus, alive, halt, later, got>>

Next == Take \/ Hear \/ Drain \/ Work \/ Control \/ World

Spec == Init /\ [][Next]_vars
-----------------------------------------------------------------------------
(* Properties.                                                              *)

\* Whether the last pause or wake over an act in the record before a place is a pause.
PauseStands(a, before) ==
  \E i \in 1 .. before - 1 :
    /\ facts[i].kind = "pause" /\ Covers(facts[i], a)
    /\ \A j \in i + 1 .. before - 1 : ~(facts[j].kind = "wake" /\ Covers(facts[j], a))

\* An act is paused while the last control in record order that is over it is a pause, and a pause
\* stands over what is made after it (test/test_controlled.py, test/test_pause.py): once the bus is
\* still, the ear of each act that is not over knows it.
HaltIsThePause ==
  Idle => \A a \in alive \ over : a \in halt <=> PauseStands(a, Len(facts) + 1)

\* While a pause stands, nothing it is over hears what is said, until a wake over it is said.
PauseHolds ==
  \A a \in alive : \A i \in got[a] :
    PauseStands(a, i) =>
      \E j \in i + 1 .. Len(facts) : facts[j].kind = "wake" /\ Covers(facts[j], a)

\* The place in the record of the making of an act.
Made(a) == CHOOSE i \in DOMAIN facts : facts[i].kind = "act" /\ facts[i].about = a

\* An ear hears each fact that it heeds once, in record order, whatever pauses held it in between,
\* and what it put off waits no longer than a pause holds it.
NothingMissed ==
  \A a \in alive \ over :
    /\ \A i \in got[a] : \A k \in DOMAIN later[a] : i < later[a][k]
    /\ \A k, m \in DOMAIN later[a] : k < m => later[a][k] < later[a][m]
    /\ Idle =>
         {i \in Made(a) + 1 .. Len(facts) :
            Heeds(a, facts[i]) /\ facts[i].kind \notin {"act", "wake"} /\ ~IsPause(facts[i], a)}
           \subseteq got[a] \cup Range(later[a])
    /\ Idle /\ later[a] # <<>> => a \in halt

\* A pause holds what it is over, and nothing else, until its wake, and loses none of it.
PausesHold == TypeOK /\ HaltIsThePause /\ PauseHolds /\ NothingMissed

\* A cancel or a close ends each act made before it that it is over, also while a pause is over
\* that act, but for what the words of a paused act say, which waits with it for its wake.
ControlEnds ==
  Idle => \A i \in DOMAIN facts, a \in Known :
            facts[i].kind \in {"cancel", "close"} /\ Covers(facts[i], a) /\ Made(a) < i
              => a \in over \/ (a \in halt /\ i \in Range(later[a]) /\ Under(facts[i].by, a))
=============================================================================
