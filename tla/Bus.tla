-------------------------------- MODULE Bus --------------------------------
(***************************************************************************)
(* The bus of the engine (boot of engine.py): say, act, offers, dispatch,  *)
(* hear and drive. It is one thread: an ear that hears a fact speaks at    *)
(* once, and what it says and the acts that it makes run inside it, on a   *)
(* stack of frames, while the facts wait in the log for the bus to be      *)
(* free. What an ear does as it hears is any choice.                       *)
(* An act is the place of its making, an ear of the outside a place past   *)
(* the acts, so the order of ears(a), the acts first and then the outside, *)
(* is the order of the names. A fact is its place in the record.           *)
(***************************************************************************)
EXTENDS Naturals, Sequences, FiniteSets, SequencesExt

CONSTANTS Outside,  \* how many ears of the outside the life has
          MaxActs,  \* bound: acts made
          MaxSaid,  \* bound: facts that ears and words say, acts apart
          MaxDeaths,\* bound: ears that return or raise
          Waits     \* the sets of ears that can be those that wait for every fact

\* What the constants must be, assumed where they get their values.
BusAssumption ==
  /\ {Outside, MaxActs, MaxSaid, MaxDeaths} \subseteq Nat
  /\ Waits \subseteq SUBSET (1 .. MaxActs + Outside)

Acts     == 1 .. MaxActs
Outsides == MaxActs + 1 .. MaxActs + Outside
Ears     == 1 .. MaxActs + Outside
NOBODY   == 0

VARIABLES
  made,    \* known: each act [by, owns], its maker and whether it has an ear of its own
  facts,   \* the facts said, each [kind, about, by]
  had,     \* the ears that act put each fact to, or that it passed over
  log,     \* the facts to dispatch
  left,    \* the fact dispatched, and the ears that have still to hear it
  stack,   \* who speaks: ears that hear and acts that are put to the ears
  alive,   \* the ears that live
  wide,    \* the ears that wait for every fact; another waits for the facts that name it
  taken,   \* the acts that a started or a done is said about
  done,    \* the first done of each act, or 0
  heard,   \* ghost: the facts that each ear heard, in order
  born,    \* ghost: how many facts were said before the birth of each ear
  deaths   \* bound: how many ears died

vars == <<made, facts, had, log, left, stack, alive, wide, taken, done, heard, born, deaths>>

Made == 1 .. Len(made)

\* A frame of the stack: an ear that hears a fact (0 at its birth), or an act put to the ears that are still to do.
Frames ==
  [kind : {"hear"}, who : Ears, fact : Nat, todo : {{}}]
  \cup [kind : {"put", "offer"}, who : Acts, fact : Nat, todo : SUBSET Ears]

Kinds == {"act", "started", "done", "tell", "dropped"}

Makers   == {NOBODY} \cup Ears
MadeActs == [by : Makers, owns : BOOLEAN]
Facts    == [kind : Kinds, about : Ears, by : Makers]

TypeOK ==
  /\ made \in Seq(MadeActs) /\ Len(made) <= MaxActs
  /\ facts \in Seq(Facts)
  /\ had \in Seq(SUBSET Ears) /\ Len(had) = Len(facts)
  /\ log \in Seq(1 .. Len(facts)) /\ left.ears \subseteq Ears /\ left.fact \in 0 .. Len(facts)
  /\ stack \in Seq(Frames)
  /\ alive \subseteq Ears /\ wide \subseteq Ears /\ taken \subseteq Made
  /\ \A a \in Acts : done[a] # 0 => facts[done[a]].kind = "done" /\ facts[done[a]].about = a
  /\ \A e \in Ears : heard[e] \in Seq(1 .. Len(facts)) /\ born[e] \in 0 .. Len(facts)
  /\ deaths \in 0 .. MaxDeaths

Init ==
  /\ made = <<>> /\ facts = <<>> /\ had = <<>> /\ log = <<>> /\ stack = <<>>
  /\ left = [fact |-> 0, ears |-> {}]
  /\ alive = Outsides /\ wide \in Waits
  /\ taken = {} /\ done = [a \in Acts |-> 0]
  /\ heard = [e \in Ears |-> <<>>] /\ born = [e \in Ears |-> 0] /\ deaths = 0

-----------------------------------------------------------------------------
Top    == stack[Len(stack)]
Below  == SubSeq(stack, 1, Len(stack) - 1)
Is(kind) == stack # <<>> /\ Top.kind = kind

\* busy: the ears that hear.
Busy == {stack[i].who : i \in {k \in DOMAIN stack : stack[k].kind = "hear"}}

\* Whether the bus is free and everyone heard everything.
Idle == stack = <<>> /\ log = <<>> /\ left.ears = {}

\* The ears that a fact names: its act and the maker of it.
Named(f) == {f.about} \cup {made[a].by : a \in {f.about} \cap Made}

\* ears: those that wait for a fact that names some of them; and the first of some, in their order.
EarsOf(named) == alive \cap (wide \cup named)
First(e, ears) == e \in ears /\ \A o \in ears : e <= o

\* How many facts ears and words said of their own choice.
Said == Cardinality({i \in DOMAIN facts : facts[i].kind \in {"tell", "started", "done"}
                                            /\ facts[i].by # NOBODY})

SettlesBefore(about, f) == [done EXCEPT ![about] = IF @ = 0 THEN f - 1 ELSE @]

\* done.setdefault: the first done of an act is what it came to.
Settles(about, f) == [done EXCEPT ![about] = IF @ = 0 THEN f ELSE @]

\* say, but for its dispatch, which waits until nobody speaks.
Say(kind, about, by) ==
  /\ facts' = Append(facts, [kind |-> kind, about |-> about, by |-> by])
  /\ had' = Append(had, {})
  /\ log' = Append(log, Len(facts'))
  /\ taken' = IF kind \in {"started", "done"} THEN taken \cup {about} ELSE taken
  /\ done' = IF kind = "done" THEN Settles(about, Len(facts')) ELSE done

\* What whoever speaks says.
Says(by) ==
  /\ Said < MaxSaid
  /\ \E kind \in {"tell", "started", "done"}, about \in Made : Say(kind, about, by)
  /\ UNCHANGED <<made, left, stack, alive, wide, heard, born, deaths>>

\* act: it enters the record, and each ear of the outside that does not speak has its turn in offers.
Makes(by) ==
  /\ Len(made) < MaxActs
  /\ \E owns \in BOOLEAN : made' = Append(made, [by |-> by, owns |-> owns])
  /\ facts' = Append(facts, [kind |-> "act", about |-> Len(made'), by |-> by])
  /\ had' = Append(had, Outsides \ Busy)
  /\ log' = Append(log, Len(facts'))
  /\ stack' = Append(stack, [kind |-> "put", who |-> Len(made'), fact |-> Len(facts'),
                             todo |-> IF made'[Len(made')].owns THEN {} ELSE EarsOf({Len(made'), by})])
  /\ UNCHANGED <<left, alive, wide, taken, done, heard, born, deaths>>

-----------------------------------------------------------------------------
(* act, once it is in the record: its frame on top of the stack.            *)

HearsAnew(e, f, st) ==
  IF e \in alive
  THEN /\ stack' = Append(st, [kind |-> "hear", who |-> e, fact |-> f, todo |-> {}])
       /\ heard' = [heard EXCEPT ![e] = Append(@, f)]
  ELSE stack' = st /\ UNCHANGED heard

\* hear: an ear that lives and does not speak hears a fact, on top of the frames st.
Hears(e, f, st) ==
  IF e \in alive \ Busy
  THEN /\ stack' = Append(st, [kind |-> "hear", who |-> e, fact |-> f, todo |-> {}])
       /\ heard' = [heard EXCEPT ![e] = Append(@, f)]
  ELSE stack' = st /\ UNCHANGED heard

Rest(e) == Append(Below, [Top EXCEPT !.todo = @ \ {e}])

\* Whether act puts the act to the next ear: to none that speaks, nor once it is taken.
PutsTo(e) == e \notin had[Top.fact] \cup Busy /\ Top.who \notin taken

PutMarkingAll ==
  /\ Is("put")
  /\ \E e \in Ears :
       /\ First(e, Top.todo) /\ had' = [had EXCEPT ![Top.fact] = @ \cup {e}]
       /\ IF PutsTo(e) THEN Hears(e, Top.fact, Rest(e)) ELSE stack' = Rest(e) /\ UNCHANGED heard
  /\ UNCHANGED <<made, facts, log, left, alive, wide, taken, done, born, deaths>>

\* The act is put to the ears of the engine, when it has no ear of its own.
Put ==
  /\ Is("put")
  /\ \E e \in Ears :
       /\ First(e, Top.todo)
       /\ IF PutsTo(e)
          THEN Hears(e, Top.fact, Rest(e)) /\ had' = [had EXCEPT ![Top.fact] = @ \cup {e}]
          ELSE stack' = Rest(e) /\ UNCHANGED <<heard, had>>
  /\ UNCHANGED <<made, facts, log, left, alive, wide, taken, done, born, deaths>>

\* drive: the ear of the act is born, and hears nothing yet; then its turn comes for the outside.
Birth ==
  /\ Is("put") /\ Top.todo = {}
  /\ LET a     == Top.who
         offer == Append(Below, [Top EXCEPT !.kind = "offer", !.todo = Outsides])
     IN  IF made[a].owns
         THEN /\ had' = [had EXCEPT ![Top.fact] = @ \cup {a}]
              /\ alive' = alive \cup {a} /\ born' = [born EXCEPT ![a] = Len(facts)]
              /\ stack' = Append(offer, [kind |-> "hear", who |-> a, fact |-> 0, todo |-> {}])
         ELSE stack' = offer /\ UNCHANGED <<had, alive, born>>
  /\ UNCHANGED <<made, facts, log, left, wide, taken, done, heard, deaths>>

\* offers: the ears of the outside in turn, until one takes the act.
Offer ==
  /\ Is("offer")
  /\ \E e \in Ears :
       /\ First(e, Top.todo)
       /\ IF Top.who \in taken THEN stack' = Rest(e) /\ UNCHANGED heard ELSE Hears(e, Top.fact, Rest(e))
  /\ UNCHANGED <<made, facts, had, log, left, alive, wide, taken, done, born, deaths>>

OwedByAny == \E e \in Busy : e \in EarsOf(Named(facts[Top.fact]))

\* Whether an ear of the outside that speaks waits for the act, and so hears it later.
Owed == \E e \in Busy \cap Outsides : e \in EarsOf(Named(facts[Top.fact]))

\* The act that nothing took, and that no ear has still to hear, is refused.
Refuse ==
  /\ Is("offer") /\ Top.todo = {}
  /\ IF Top.who \notin taken /\ ~Owed
     THEN Say("done", Top.who, NOBODY)
     ELSE UNCHANGED <<facts, had, log, taken, done>>
  /\ stack' = Below
  /\ UNCHANGED <<made, left, alive, wide, heard, born, deaths>>

-----------------------------------------------------------------------------
(* An ear that hears: what it does until it waits again.                    *)

Speak == Is("hear") /\ (Says(Top.who) \/ Makes(Top.who))

Wait ==
  /\ Is("hear") /\ stack' = Below
  /\ UNCHANGED <<made, facts, had, log, left, alive, wide, taken, done, heard, born, deaths>>

\* The ear goes: it returned, or it raised, which ends its act or is a fact of its own.
Dies ==
  /\ Is("hear") /\ deaths < MaxDeaths /\ deaths' = deaths + 1
  /\ alive' = alive \ {Top.who} /\ stack' = Below
  /\ \/ UNCHANGED <<facts, had, log, taken, done>>
     \/ Say(IF Top.who \in Made /\ done[Top.who] = 0 THEN "done" ELSE "dropped", Top.who, Top.who)
  /\ UNCHANGED <<made, left, wide, heard, born>>

-----------------------------------------------------------------------------
(* dispatch, while nobody speaks.                                           *)

TakeForAll ==
  /\ stack = <<>> /\ left.ears = {} /\ log # <<>>
  /\ left' = [fact |-> log[1], ears |-> EarsOf(Named(facts[log[1]]))]
  /\ log' = Tail(log)
  /\ UNCHANGED <<made, facts, had, stack, alive, wide, taken, done, heard, born, deaths>>
TakeLast ==
  /\ stack = <<>> /\ left.ears = {} /\ log # <<>>
  /\ LET f == Last(log) IN left' = [fact |-> f, ears |-> EarsOf(Named(facts[f])) \ had[f]]
  /\ log' = Front(log)
  /\ UNCHANGED <<made, facts, had, stack, alive, wide, taken, done, heard, born, deaths>>

\* The next fact of the log, for each ear that waits for it and was not put to it.
Take ==
  /\ stack = <<>> /\ left.ears = {} /\ log # <<>>
  /\ LET f == log[1] IN left' = [fact |-> f, ears |-> EarsOf(Named(facts[f])) \ had[f]]
  /\ log' = Tail(log)
  /\ UNCHANGED <<made, facts, had, stack, alive, wide, taken, done, heard, born, deaths>>

Dispatch ==
  /\ stack = <<>>
  /\ \E e \in Ears : First(e, left.ears) /\ Hears(e, left.fact, <<>>) /\ left' = [left EXCEPT !.ears = @ \ {e}]
  /\ UNCHANGED <<made, facts, had, log, alive, wide, taken, done, born, deaths>>

\* A word of the sandbox, the operator, or the work that an ear began speaks from its own loop.
Word ==
  /\ Idle
  /\ \E by \in {NOBODY} \cup Made \cup Outsides : Makes(by) \/ (by # NOBODY /\ Says(by))

Next == Put \/ Birth \/ Offer \/ Refuse \/ Speak \/ Wait \/ Dies \/ Take \/ Dispatch \/ Word

Spec == Init /\ [][Next]_vars

-----------------------------------------------------------------------------
(* Properties (engine.pyi, say and act).                                    *)

\* No ear hears while it speaks: a generator that runs cannot be resumed.
NoneResumedTwice ==
  \A i, j \in DOMAIN stack : stack[i].kind = "hear" /\ stack[j].kind = "hear" /\ stack[i].who = stack[j].who
    => i = j

\* No ear hears a fact twice, whether act put it to the ear or the log brought it.
HeardOnce == \A e \in Ears : IsInjective(heard[e])

\* Every ear hears what is said in the order it was said, acts apart, which act puts at once.
HeardInOrder ==
  \A e \in Ears : \A i, j \in DOMAIN heard[e] :
    i < j /\ facts[heard[e][i]].kind # "act" /\ facts[heard[e][j]].kind # "act" => heard[e][i] < heard[e][j]

\* Once the bus is free, each ear heard each fact said since its birth that it waits for; but an ear
\* of the outside does not hear an act that was taken before its turn.
NoneMissed ==
  Idle => \A e \in alive : \A f \in born[e] + 1 .. Len(facts) :
            \/ e \notin wide \cup Named(facts[f]) \/ f \in Range(heard[e])
            \/ facts[f].kind = "act" /\ (facts[f].about = e \/ (e \in Outsides /\ facts[f].about \in taken))

\* An act is taken or refused once the bus is free, but one that an ear of the outside was to hear
\* once it spoke no more.
NoneForgotten ==
  Idle => \A f \in DOMAIN facts :
            facts[f].kind = "act" /\ facts[f].about \notin taken => Outsides \ had[f] # {}

\* Each ear that waits for a fact hears it once, in the order said, while it does not speak, and each act
\* is taken, refused or owed to an ear of the outside (say, act, dispatch).
BusHears == NoneResumedTwice /\ HeardOnce /\ HeardInOrder /\ NoneMissed /\ NoneForgotten
=============================================================================
