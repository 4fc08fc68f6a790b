-------------------------------- MODULE Ears --------------------------------
(***************************************************************************)
(* An ear of rust: its coroutine, which the life resumes with each fact and  *)
(* polls for what its works came to, and its body, which hears, begins a     *)
(* work for each act that it takes, and says or calls what a work gives.     *)
(*                                                                         *)
(* A verb of Verbs is what the body calls from a work: "view" makes no fact,  *)
(* "close" ends the act of that work, so a word that awaited it goes on and    *)
(* may make another act, which the body, waiting in its call, does not take.   *)
(***************************************************************************)
EXTENDS Naturals, Sequences, FiniteSets, SequencesExt, FiniteSetsExt, TLC

CONSTANTS Verbs, MaxActs, MaxItems

VARIABLES
  co,       \* the coroutine of the ear and its body
  log,      \* the facts of the life, in order
  sent,     \* the indices of the facts that the life gave the ear, in the order it gave them
  items,    \* how many things the works came to
  verb,     \* the verb that a poll gave and that the life has not answered, or "none"
  refused   \* the acts that the life refused, since nothing took them, and the verb that it answered then

vars == <<co, log, sent, items, verb, refused>>

None == "none"
Of(kind, act, n) == [kind |-> kind, act |-> act, n |-> n]

\* The body stands at "next", or goes through a script of what it "says", or waits for what it "called" came to.
Init ==
  /\ co = [events |-> <<>>, heard |-> <<>>, driven |-> FALSE, back |-> FALSE, at |-> "next", script |-> <<>>,
           taken |-> {}, works |-> <<>>, spoken |-> <<>>, unsaid |-> 0, accord |-> <<>>, answer |-> FALSE,
           given |-> FALSE, noted |-> <<>>]
  /\ log = <<>> /\ sent = <<>> /\ items = 0 /\ verb = None /\ refused = {}

ActsOf(facts) == {f \in Range(facts) : f.kind = "act"}
Ended(facts) == {f.act : f \in {g \in Range(facts) : g.kind = "done"}}

(* ---- the body ---- *)

\* One event taken: a fact heard waits, and the life drives the ear until it hears again.
Took(c, event) ==
  CASE event.kind = "answer" -> [c EXCEPT !.back = TRUE]
    [] event.kind = "driven" -> [c EXCEPT !.driven = TRUE]
    [] OTHER -> [c EXCEPT !.driven = FALSE, !.heard = Append(@, event)]

Told(c) == [FoldLeft(Took, c, c.events) EXCEPT !.events = <<>>]

Spoke(c, said) == [c EXCEPT !.spoken = Append(@, said), !.unsaid = @ + 1]

\* A fact as the body takes it: an act is taken, and its started said; a done ends the work of its act.
Noted(c) ==
  LET fact == Head(c.heard)
      d == [c EXCEPT !.heard = Tail(@), !.noted = Append(@, fact)]
  IN CASE fact.kind = "act"  -> [Spoke(d, Of("started", fact.act, 0)) EXCEPT !.taken = @ \cup {fact.act}]
       [] fact.kind = "done" -> [d EXCEPT !.taken = @ \ {fact.act}, !.works = SelectSeq(@, LAMBDA w : w.act # fact.act)]
       [] OTHER -> d

\* A form that takes more of the works while what the body said waits.
MayWorkAlways(c) == c.driven /\ c.works # <<>>

\* What the works came to waits until the life drives the ear and took all that the ear said.
MayWork(c) == c.driven /\ c.unsaid = 0 /\ c.works # <<>>

\* A form that calls at once.
MayCallAlways(c) == TRUE

\* A verb waits until the life took all that the ear said before it.
MayCall(c) == c.unsaid = 0

\* One step of the body.
Goes(c) ==
  CASE c.at = "next" /\ c.heard # <<>> -> Noted(c)
    [] c.at = "next" /\ c.heard = <<>> /\ MayWork(c) ->
         [c EXCEPT !.works = Tail(@), !.at = "says", !.script = Head(c.works).script]
    [] c.at = "says" /\ c.script = <<>> -> [c EXCEPT !.at = "next"]
    [] c.at = "says" /\ c.script # <<>> /\ Head(c.script).kind \notin Verbs ->
         [Spoke(c, Head(c.script)) EXCEPT !.script = Tail(@)]
    [] c.at = "says" /\ c.script # <<>> /\ Head(c.script).kind \in Verbs /\ MayCall(c) ->
         [Spoke(c, Head(c.script)) EXCEPT !.script = Tail(@), !.at = "called"]
    [] c.at = "called" /\ c.back -> [c EXCEPT !.at = "says", !.back = FALSE]
    [] OTHER -> c

The(S) == CHOOSE x \in S : TRUE

\* As many steps as the body, or the ear, takes at most before it waits: each work says two things at most.
Steps(c) == 5 * (Len(c.works) + 1) + Len(c.heard) + Len(c.events) + Len(c.spoken)

\* The body polled once, until it waits; each step is taken from the value of the step before it.
Runs(c) == FoldLeft(LAMBDA d, k : The({Goes(e) : e \in {d}}), c, [k \in 1 .. Steps(c) |-> k])

(* ---- the coroutine ---- *)

Tell(c, event) == [c EXCEPT !.events = Append(@, event)]

\* What the body said and the coroutine has not taken, or what it says when it is polled once.
Stepped(c) == IF c.spoken # <<>> THEN c ELSE The({Runs(d) : d \in {Told(c)}})

\* A form that counts what it gave as unsaid.
GivesUncounted(c) == [c EXCEPT !.spoken = Tail(@)]

\* The first thing said, given to the life, which says it before it polls the body again.
Gives(c) == [c EXCEPT !.spoken = Tail(@), !.unsaid = @ - 1]

\* A form that hears the fact that the bus hands back, and again as the log gives it.
SwallowsNone(c) == FALSE

\* Whether a fact that a resume brings is the one the bus made of what the ear said: it goes nowhere.
Swallows(c) == c.given

\* One resume: the ear is stepped until it says and calls nothing more, and what it said lands at once. A verb
\* that it calls there is answered in its place: it goes on before it waits.
Resumed(c, event) == Stepped([(IF Swallows(c) THEN c ELSE Tell(c, event)) EXCEPT !.given = FALSE])

Hears(c, event, says) ==
  LET Round(t) ==
        LET said == Head(t.co.spoken)
            more == IF said.kind = "close" THEN <<Of("done", said.act, said.n)>> ELSE <<>>
        IN IF t.co.spoken = <<>> THEN t
           ELSE IF said.kind \in Verbs
           THEN [co |-> Resumed(Gives(t.co), [kind |-> "answer"]), says |-> t.says \o more]
           ELSE [co |-> Resumed([Gives(t.co) EXCEPT !.given = TRUE], said), says |-> Append(t.says, said)]
      end == FoldLeft(LAMBDA t, k : The({Round(u) : u \in {t}}), [co |-> Resumed(c, event), says |-> says], [k \in 1 .. Steps(c) + 1 |-> k])
  IN <<end.co, end.says>>

\* A form that leaves what the body said past the first to whatever steps the ear next.
PolledLeaving(c) ==
  LET d == Tell(c, [kind |-> "driven"])
      s == Stepped(IF d.answer THEN Tell([d EXCEPT !.answer = FALSE], [kind |-> "answer"]) ELSE d)
  IN IF s.spoken = <<>> THEN <<s, <<>>>> ELSE <<Gives(s), <<Head(s.spoken)>>>>

\* One poll: what waits of an earlier poll, or what the body says now, of which the rest waits for the next poll.
Polled(c) ==
  LET d == Tell(c, [kind |-> "driven"])
      answered == IF d.answer THEN Tell([d EXCEPT !.answer = FALSE], [kind |-> "answer"]) ELSE d
      s == Stepped(answered)
  IN IF d.accord # <<>>
     THEN <<[d EXCEPT !.accord = Tail(@), !.unsaid = @ - 1], <<Head(d.accord)>>>>
     ELSE IF s.spoken = <<>> THEN <<s, <<>>>>
     ELSE <<[Gives(s) EXCEPT !.spoken = <<>>, !.accord = Tail(s.spoken)], <<Head(s.spoken)>>>>

(* ---- the life ---- *)

Unsent == {i \in 1 .. Len(log) : i \notin Range(sent)}
Landed(said, at) == said @@ [at |-> at]

\* The life polls an ear until it says no more, so it takes nothing from elsewhere before the ear took what its
\* verb came to; the ear is the first of those that it polls.
Idle == verb = None /\ Unsent = {} /\ ~co.answer /\ co.accord = <<>>

\* An act is put to the ear at once, and is refused when the ear, which no frame of the life steps, does not take it.
Put ==
  LET act == Cardinality(ActsOf(log)) + 1
      fact == Of("act", act, 0)
      got == Hears(co, fact, <<>>)
      took == \E i \in 1 .. Len(got[2]) : got[2][i] = Of("started", act, 0)
      said == [i \in 1 .. Len(got[2]) |-> Landed(got[2][i], "resume")]
      no == IF took THEN <<>> ELSE <<Landed(Of("done", act, 0), "life")>>
  IN /\ act <= MaxActs
     /\ co' = got[1] /\ log' = Append(log, Landed(fact, "life")) \o said \o no /\ sent' = Append(sent, Len(log) + 1)
     /\ refused' = IF took THEN refused ELSE refused \cup {[act |-> act, verb |-> verb]}
     /\ UNCHANGED <<items, verb>>

\* An act comes from outside the ears while none is heard, or from a word that a fact which the life still gives to
\* its ears resumed; a word hears before an ear of the outside does.
Makes == (Idle \/ Unsent # {}) /\ Put

\* The life gives the ear the next fact of its log.
Deliver ==
  /\ Unsent # {}
  /\ LET i   == Min(Unsent)
         got == Hears(co, Of(log[i].kind, log[i].act, log[i].n), <<>>)
     IN /\ co' = got[1] /\ log' = log \o [k \in 1 .. Len(got[2]) |-> Landed(got[2][k], "resume")]
        /\ sent' = Append(sent, i)
  /\ UNCHANGED <<items, verb, refused>>

\* The life is driven while no ear hears: one thing that the ear says of its own accord lands, or its verb is said.
Pump ==
  /\ Unsent = {} /\ verb = None
  /\ LET got == Polled(co) IN
     /\ co' = got[1] /\ co' # co
     /\ IF got[2] = <<>> THEN UNCHANGED <<log, verb>>
        ELSE LET said == got[2][1] IN
             /\ verb' = IF said.kind \in Verbs THEN said.kind ELSE None
             /\ log' = CASE said.kind = "view" -> log
                         [] said.kind = "close" -> Append(log, Landed(Of("done", said.act, said.n), "life"))
                         [] OTHER -> Append(log, Landed(said, "poll"))
  /\ UNCHANGED <<sent, items, refused>>

\* The verb is answered once all that it made was heard; the ear takes what it came to at its next poll.
Answered ==
  /\ verb # None /\ Unsent = {} /\ verb' = None /\ co' = [co EXCEPT !.answer = TRUE]
  /\ UNCHANGED <<log, sent, items, refused>>

\* What the body says and calls from what a work comes to: a close comes alone, as that of a command which did not
\* start; the last thing said may be the done of the act.
Scripts ==
  {<<"text">>, <<"text", "text">>, <<"done">>} \cup {<<v>> : v \in Verbs}
    \cup {<<"text", v>> : v \in Verbs \ {"close"}} \cup {<<v, "text">> : v \in Verbs \ {"close"}}

\* A work of an act that the ear took comes to something.
Comes ==
  /\ items < MaxItems /\ items' = items + 1
  /\ \E act \in co.taken, kinds \in Scripts :
       co' = [co EXCEPT !.works = Append(@, [act |-> act,
                script |-> [i \in 1 .. Len(kinds) |-> Of(kinds[i], act, 2 * items + i)]])]
  /\ UNCHANGED <<log, sent, verb, refused>>

\* A control ends an act while no ear hears.
Controlled ==
  /\ Idle
  /\ \E a \in {f.act : f \in ActsOf(log)} \ Ended(log) : log' = Append(log, Landed(Of("done", a, 0), "life"))
  /\ UNCHANGED <<co, sent, items, verb, refused>>

Next == Makes \/ Deliver \/ Pump \/ Answered \/ Comes \/ Controlled
Spec == Init /\ [][Next]_vars /\ WF_vars(Deliver) /\ WF_vars(Pump) /\ WF_vars(Answered)

-----------------------------------------------------------------------------
TypeOK ==
  /\ co.at \in {"next", "says", "called"} /\ co.unsaid = Len(co.spoken) + Len(co.accord)
  /\ verb \in Verbs \cup {None} /\ Range(sent) \subseteq 1 .. Len(log) /\ items <= MaxItems

\* Each act is taken by the ear that stands for it, but for one that a word makes as it goes on from an end that the
\* ear itself called for: the body waits in that call, and takes no act (the law of an ear, ear.rs:28).
RefusedInACloseAlone == \A r \in refused : r.verb = "close"

\* What a work came to lands while no ear hears, each thing alone, in the order the body said it (Coroutine.poll).
FromWorks == SelectSeq(log, LAMBDA f : f.n > 0 /\ f.at # "life")
LandsAlone ==
  /\ \A i \in 1 .. Len(FromWorks) : FromWorks[i].at = "poll"
  /\ \A i, j \in 1 .. Len(FromWorks) : i < j => FromWorks[i].n < FromWorks[j].n \/ FromWorks[i].act # FromWorks[j].act

\* The body takes each fact once, in the order the life gave them, and none that the life did not give (resume).
TakesEachOnce ==
  co.noted \o co.heard \o SelectSeq(co.events, LAMBDA e : e.kind \notin {"answer", "driven"})
    = [i \in 1 .. Len(sent) |-> Of(log[sent[i]].kind, log[sent[i]].act, log[sent[i]].n)]

EarsHold == RefusedInACloseAlone /\ LandsAlone /\ TakesEachOnce

\* What the ear said lands (Coroutine.poll, Outside.said).
AtRest == co.unsaid = 0
SaidLands == <>[]AtRest
=============================================================================
