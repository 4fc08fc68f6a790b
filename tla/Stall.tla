------------------------------- MODULE Stall -------------------------------
(***************************************************************************)
(* The watch of a life (host/src/stall.rs, Watch of host/src/daemon.rs):   *)
(* it hears the events of the life, some time after they happened, and     *)
(* tells a life or a chain that stalled once, as a message that the life   *)
(* takes as a prompt when its thread comes to it. Acts are numbered in the *)
(* order they are made. Time is the ticks since something was heard: a     *)
(* chain stalls after one and the life after two.                          *)
(***************************************************************************)
EXTENDS Naturals, Sequences, FiniteSets, SequencesExt, Listing

CONSTANTS Chains, Root,
          Kinds,       \* the kinds of acts that the life makes, of AllKinds
          MaxActs,     \* bound: acts that the life makes
          MaxLag,      \* bound: events that the watch did not hear yet when the life says one
          MaxChanges,  \* bound: acts that start, pause or wake
          MaxTold,     \* bound: stalls told
          MaxBirths    \* bound: rebirths

VARIABLES
  made,     \* the acts of the life, with the act of a message that made each (0 for none) and the message it is of
  events,   \* what the life said and the watch did not hear yet
  inbox,    \* the messages of the watch that the thread of the life did not take yet
  refused,  \* the messages that the life refused
  acts,     \* Quiet.acts: each act that lives, as the watch heard it last
  ours,     \* Quiet.ours: the acts that a message of the watch made
  last,     \* the ticks since the watch heard of the life, and of each chain
  told,     \* Quiet.told and Chain.told
  tellings, changes, births  \* how often each happened

stallVars == <<made, events, inbox, refused, acts, ours, last, told, tellings, changes, births>>
heardVars == <<acts, ours, last, told, tellings>>

AllKinds == {"run", "wait", "rung", "prompt", "asked"}  \* run stands for a reply and a command too, asked for a prompt to the operator
LIFE   == "life"
Scopes == Chains \cup {LIFE}
NoText == [of |-> LIFE, acts |-> {}]
No     == [is |-> "no"]

\* How long the life and a chain stay quiet before they stall.
Bound(s) == IF s = LIFE THEN 2 ELSE 1

Ids   == 1 .. Len(made)
Acts  == [id : Ids, kind : AllKinds, chain : Chains, paused : BOOLEAN]
Texts == [of : Scopes, acts : SUBSET Ids]

TypeOK ==
  /\ \A i \in Ids : /\ made[i].kind \in AllKinds /\ made[i].chain \in Chains /\ made[i].by \in 0 .. i - 1
                    /\ made[i].open \in BOOLEAN /\ made[i].paused \in BOOLEAN /\ made[i].text \in Texts
  /\ inbox \in Seq(Texts) /\ refused \subseteq Texts
  /\ acts \subseteq Acts /\ \A one, other \in acts : one.id = other.id => one = other
  /\ ours \subseteq Ids /\ \A s \in Scopes : last[s] \in 0 .. Bound(s)
  /\ \A s \in Scopes : \/ told[s] \in {No, [is |-> "said"]}
                       \/ told[s].is = "sent" /\ told[s].text \in Texts
                       \/ told[s].is = "asking" /\ told[s].prompt \in Ids

Init ==
  /\ made = <<>> /\ events = <<>> /\ inbox = <<>> /\ refused = {}
  /\ acts = {} /\ ours = {} /\ last = [s \in Scopes |-> 0] /\ told = [s \in Scopes |-> No]
  /\ tellings = 0 /\ changes = 0 /\ births = 0

-----------------------------------------------------------------------------
(* The life, which says a fact of an act and tells the act as it stands.    *)

Event(i, asks) == [is |-> "act", id |-> i, asks |-> asks, done |-> ~made'[i].open, paused |-> made'[i].paused]

Makes(kind, chain, by, text) ==
  /\ Len(made) < MaxActs /\ Len(events) < MaxLag
  /\ made' = Append(made, [kind |-> kind, chain |-> chain, by |-> by, open |-> TRUE, paused |-> FALSE, text |-> text])
  /\ events' = Append(events, Event(Len(made'), TRUE))

Make(kind, chain, by) ==
  /\ by # 0 => made[by].open /\ made[by].chain = chain /\ (made[by].text # NoText \/ made[by].by # 0)
  /\ Makes(kind, chain, by, NoText)
  /\ UNCHANGED <<inbox, refused, heardVars, changes, births>>

\* A pause or a wake of a prompt or a rung.
Change(i) ==
  /\ made[i].open /\ made[i].kind \in {"rung", "prompt"} /\ Len(events) < MaxLag /\ changes < MaxChanges /\ changes' = changes + 1
  /\ made' = [made EXCEPT ![i].paused = ~@] /\ events' = Append(events, Event(i, FALSE))
  /\ UNCHANGED <<inbox, refused, heardVars, births>>

End(i) ==
  /\ made[i].open /\ Len(events) < MaxLag /\ made' = [made EXCEPT ![i].open = FALSE]
  /\ events' = Append(events, Event(i, FALSE))
  /\ UNCHANGED <<inbox, refused, heardVars, changes, births>>

\* The thread takes a message, as a prompt on the chain that stalled or on the root.
Take(n) ==
  /\ Makes("prompt", IF inbox[n].of = LIFE THEN Root ELSE inbox[n].of, 0, inbox[n])
  /\ inbox' = RemoveAt(inbox, n) /\ UNCHANGED <<refused, heardVars, changes, births>>

Refuse(n) ==
  /\ refused' = refused \cup {inbox[n]} /\ inbox' = RemoveAt(inbox, n)
  /\ UNCHANGED <<made, events, heardVars, changes, births>>

\* The life is born again: the prompts that were open live, and are told again, and the rest is cut.
Rebirth ==
  LET lives == Listed({i \in Ids : made[i].open /\ made[i].kind \in {"prompt", "asked"}}) IN
  /\ births < MaxBirths /\ births' = births + 1
  /\ made' = [i \in Ids |-> [made[i] EXCEPT !.open = @ /\ made[i].kind \in {"prompt", "asked"}]]
  /\ events' = events \o <<[is |-> "reborn"]>> \o [n \in DOMAIN lives |-> Event(lives[n], FALSE)]
  /\ UNCHANGED <<inbox, refused, heardVars, changes>>

-----------------------------------------------------------------------------
(* The watch.                                                               *)

Sent(s, text) == told[s].is = "sent" /\ told[s].text = text

\* The chain whose prompt of a message a fact is, or the life, when a message of it was sent.
SentTo(text) == {s \in Scopes : text # NoText /\ Sent(s, text)}

\* The fact of a question: the prompt of a message, or an act that an act of a message made.
Fact(e) ==
  LET a  == made[e.id]
      to == SentTo(a.text)
  IN  IF ~e.asks THEN [told |-> told, ours |-> ours]
      ELSE IF to # {} THEN [told |-> [s \in Scopes |-> IF s \in to THEN [is |-> "asking", prompt |-> e.id, chain |-> a.chain] ELSE told[s]],
                            ours |-> ours \cup {e.id}]
      ELSE [told |-> told, ours |-> ours \cup {i \in {e.id} : a.by \in ours}]

\* A form that knows its own prompt by its life alone, so the end of it is like any fact of its own.
AfterOwn(s, is, e, mine) ==
  IF mine \/ (s = LIFE /\ is.is = "asking" /\ is.chain = made[e.id].chain) THEN is ELSE No

\* What an act as it stands makes of what the watch told of the life or of its chain.
After(s, is, e, mine) ==
  IF is.is = "asking" /\ is.prompt = e.id /\ e.done THEN [is |-> "said"]
  ELSE IF mine \/ (s = LIFE /\ is.is = "asking" /\ is.chain = made[e.id].chain) THEN is
  ELSE No

\* The act as it stands in Quiet.acts, in the form Held also when it is done.
Held(e) == {[id |-> e.id, kind |-> made[e.id].kind, chain |-> made[e.id].chain, paused |-> e.paused]}
Lives(e) == IF e.done THEN {} ELSE Held(e)

\* A form that keeps an act as it stood beside it as it stands.
AllOthers(e) == acts
Others(e) == {one \in acts : one.id # e.id}

HearAct(e) ==
  LET a     == made[e.id]
      now   == Fact(e)
      mine  == e.id \in now.ours
      after == [s \in Scopes |-> IF s \in {LIFE, a.chain} THEN After(s, now.told[s], e, mine) ELSE now.told[s]]
      done  == now.told[a.chain].is = "asking" /\ now.told[a.chain].prompt = e.id /\ e.done
  IN
  /\ acts' = Others(e) \cup Lives(e)
  /\ ours' = now.ours /\ told' = after
  /\ last' = [last EXCEPT ![LIFE] = 0, ![a.chain] = IF mine \/ done THEN @ ELSE 0]

\* The watch hears an event of the life before any stall that is due.
Hear ==
  /\ events # <<>> /\ events' = Tail(events)
  /\ IF Head(events).is = "reborn" THEN acts' = {} /\ UNCHANGED <<ours, last, told>> ELSE HearAct(Head(events))
  /\ UNCHANGED <<made, inbox, refused, tellings, changes, births>>

Lasting == {one \in acts : one.kind = "run"}

On(c) == {one \in acts : one.chain = c}
Working(c) == \E one \in On(c) : one.kind \in {"run", "wait"}

\* The acts that stall a chain: a rung that nothing works beside, or a prompt to a model with not even a rung.
Hung(c) ==
  {one \in On(c) : /\ ~one.paused /\ ~Working(c)
                   /\ \/ one.kind = "rung"
                      \/ one.kind = "prompt" /\ ~\E other \in On(c) : other.kind = "rung"}

Stalling(s) == IF s = LIFE THEN Lasting ELSE Hung(s)
\* A form that arms the stall of a chain, too, by what lasts alone.
DueArmed(s) == told[s] = No /\ last[s] = Bound(s) /\ Lasting # {}

Due(s) == told[s] = No /\ last[s] = Bound(s) /\ Stalling(s) # {}

Text(s) == [of |-> s, acts |-> {one.id : one \in Stalling(s)}]

\* Each stall that is due is told, and a message of it sent to the life.
Tell ==
  /\ events = <<>> /\ tellings < MaxTold /\ tellings' = tellings + 1
  /\ \E s \in Scopes : Due(s)
  /\ told' = [s \in Scopes |-> IF Due(s) THEN [is |-> "sent", text |-> Text(s)] ELSE told[s]]
  /\ inbox' = inbox \o SetToSeq({Text(s) : s \in {x \in Scopes : Due(x)}})
  /\ UNCHANGED <<made, events, refused, acts, ours, last, changes, births>>

\* Time passes, which wakes the watch as soon as a stall is due.
Tick ==
  /\ ~\E s \in Scopes : Due(s)
  /\ \E s \in Scopes : last[s] < Bound(s)
  /\ last' = [s \in Scopes |-> IF last[s] < Bound(s) THEN last[s] + 1 ELSE last[s]]
  /\ UNCHANGED <<made, events, inbox, refused, acts, ours, told, tellings, changes, births>>

-----------------------------------------------------------------------------
Watch == Hear \/ Tell \/ Tick

Life ==
  \/ \E kind \in Kinds, chain \in Chains, by \in 0 .. Len(made) : Make(kind, chain, by)
  \/ \E i \in Ids : Change(i) \/ End(i)
  \/ \E n \in DOMAIN inbox : Take(n) \/ Refuse(n)
  \/ Rebirth

Next == Watch \/ Life

Spec == Init /\ [][Next]_stallVars

\* The task of the watch goes on.
LiveSpec == Spec /\ WF_stallVars(Watch)

-----------------------------------------------------------------------------
(* Properties.                                                              *)

\* A stall that was told lasts only as long as what ends it can come: its message on its way, its
\* prompt to be heard, or that prompt open, so the watch never silences itself for ever.
TellsAgain ==
  \A s \in Scopes :
    /\ told[s].is = "sent" =>
         \/ told[s].text \in Range(inbox) \cup refused
         \/ \E i \in DOMAIN events : events[i].is = "act" /\ events[i].asks /\ made[events[i].id].text = told[s].text
    /\ told[s].is = "asking" =>
         \/ made[told[s].prompt].open
         \/ \E i \in DOMAIN events : events[i].is = "act" /\ events[i].id = told[s].prompt /\ events[i].done

\* What the watch heard of the acts is what lives, once it heard all.
KnowsWhatLives == events = <<>> => {one.id : one \in acts} = {i \in Ids : made[i].open}

\* A chain that hangs is told, or something on it changes.
HungIsTold ==
  \A c \in Chains : (Hung(c) # {} /\ told[c] = No) ~> (told[c] # No \/ Hung(c) = {} \/ tellings = MaxTold)

\* The watch tells the stall of a chain once until a new fact on it, which no message of the watch made.
OwnIsNoNews ==
  [][\A c \in Chains :
       told[c] # No /\ told'[c] = No =>
         LET i == Head(events).id IN \A n \in 1 .. i : (n = i \/ n = made[i].by) => made[n].text = NoText]_stallVars
=============================================================================
