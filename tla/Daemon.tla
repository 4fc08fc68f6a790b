------------------------------- MODULE Daemon -------------------------------
(***************************************************************************)
(* The lives of the daemon of a machine (host/src/daemon.rs), which one    *)
(* task owns: their holders, the grace of a life with none, the births of  *)
(* a life on a thread of its own, the opens that wait for an end, and the  *)
(* handover to a daemon of a new build, which opens each life again. The   *)
(* task hears one ask at a time; threads, watches, tellers and peers run   *)
(* beside it. A peer is one connection, which never comes back.            *)
(***************************************************************************)
EXTENDS Naturals, Sequences, FiniteSets, SequencesExt

CONSTANTS Lives,      \* the lives, by the paths of their records
          Pins,       \* the names of the holders of pins
          MaxPeers,   \* bound: connections of windows, in the order that they dial
          MaxVerbs,   \* bound: verbs of the peers
          MaxFaults   \* bound: faults that end a life

ASSUME DaemonAssumption == IsFiniteSet(Lives) /\ {MaxPeers, MaxVerbs, MaxFaults} \subseteq Nat

VARIABLES
  at,       \* how far the handover came
  held,     \* Lives.held of the daemon that serves
  asks,     \* the asks that its task did not hear
  births,   \* each birth of a life, the first at 1
  lease,    \* the birth that holds the lease of each record
  peers,    \* the daemon that each peer dialled, while it is there, and the verb that it waits for
  tellers,  \* the tasks that push the events of a birth to a peer
  handed,   \* the lives that the first daemon gave, with their pins
  pinned,   \* ghost: the pins that were answered and not let go
  givenUp,  \* the births that the handover gave up
  verbs, faults  \* how often each happened

tasks  == <<births, lease, tellers>>
counts == <<verbs, faults>>
vars   == <<at, held, asks, tasks, peers, handed, pinned, givenUp, counts>>

Peers  == 1 .. MaxPeers
NONE   == 0
NoLife == [stage |-> "none"]

Places == {"first", "gives", "handed", "second"}
Idles  == {"held", "grace"}
Phases == {"opens", "runs", "closing", "over", "refused", "dead"}
Opens  == [from : Peers, attach : BOOLEAN]
Says   == {"open", "attach", "detach", "pin", "unpin"}

\* What the task hears: verbs, the end of a birth, a peer that is gone, and the call for the handover.
Asks ==
  [say : Says, life : Lives, from : Peers, with : Pins \cup {NONE}, attach : BOOLEAN]
    \cup [say : {"ended"}, birth : DOMAIN births] \cup [say : {"left"}, life : Lives, from : Peers]
    \cup [say : {"handover"}]

Living(l)    == held[l].stage = "living"
EndingNow(l) == held[l].stage = "ending"

TypeOK ==
  /\ at \in Places
  /\ \A l \in Lives :
       \/ held[l] = NoLife
       \/ /\ Living(l) /\ held[l].born \in DOMAIN births
          /\ held[l].windows \subseteq Peers /\ held[l].pins \subseteq Pins /\ held[l].idle \in Idles
       \/ EndingNow(l) /\ held[l].born \in DOMAIN births /\ held[l].waiting \in Seq(Opens)
  /\ \A b \in DOMAIN births :
       births[b].life \in Lives /\ births[b].phase \in Phases /\ births[b].asked \in BOOLEAN /\ births[b].told \in BOOLEAN
  /\ \A l \in Lives : lease[l] # NONE => births[lease[l]].life = l
  /\ peers \in [Peers -> [there : {"out", "first", "second", "gone"}, verb : Says \cup {"none"}]]
  /\ tellers \subseteq (DOMAIN births) \X Peers
  /\ \A i \in DOMAIN asks : asks[i] \in Asks
  /\ pinned \in [Lives -> SUBSET Pins]
  /\ verbs <= MaxVerbs /\ faults <= MaxFaults /\ givenUp \subseteq DOMAIN births

Init ==
  /\ at = "first" /\ held = [l \in Lives |-> NoLife] /\ asks = <<>>
  /\ births = <<>> /\ lease = [l \in Lives |-> NONE] /\ tellers = {}
  /\ peers = [p \in Peers |-> [there |-> "out", verb |-> "none"]]
  /\ handed = [l \in Lives |-> NoLife] /\ pinned = [l \in Lives |-> {}]
  /\ givenUp = {} /\ verbs = 0 /\ faults = 0

Serves == at \in {"first", "second"}

-----------------------------------------------------------------------------
(* Holders (holders.rs).                                                    *)

SettleOnce(h) ==
  [h EXCEPT !.idle = IF @ = "held" /\ h.windows = {} /\ h.pins = {} THEN "grace" ELSE @]

\* The holders settle: a life that is held is not idle, and one that is not counts its grace down.
Settle(h) ==
  [h EXCEPT !.idle = IF h.windows # {} \/ h.pins # {} THEN "held" ELSE "grace"]

NewBirthNext(b) == [stage |-> "living", born |-> b + 1, windows |-> {}, pins |-> {}, idle |-> "grace"]

\* A life born on a thread of its own, with no holder yet.
NewBirth(b) == [stage |-> "living", born |-> b, windows |-> {}, pins |-> {}, idle |-> "grace"]

\* A life that is born again with its pins.
BornPinned(b, pins) == Settle([NewBirth(b) EXCEPT !.pins = pins])

Born(l, by) == [life |-> l, by |-> by, phase |-> "opens", asked |-> FALSE, told |-> FALSE]

Attached(h, p) == Settle([h EXCEPT !.windows = @ \cup {p}])
DetachedUnsettled(h, p) == [h EXCEPT !.windows = @ \ {p}]

Detached(h, p) == IF p \in h.windows THEN Settle([h EXCEPT !.windows = @ \ {p}]) ELSE h

Pinned(h, with)   == Settle([h EXCEPT !.pins = @ \cup {with}])
Unpinned(h, with) == Settle([h EXCEPT !.pins = @ \ {with}])

-----------------------------------------------------------------------------
(* Peers.                                                                   *)

Here(p) == peers[p].there \in {"first", "second"}

Dial(p) ==
  /\ Serves /\ peers[p].there = "out" /\ \A q \in 1 .. p - 1 : peers[q].there # "out"
  /\ peers' = [peers EXCEPT ![p].there = at]
  /\ UNCHANGED <<at, held, asks, tasks, handed, pinned, givenUp, counts>>

\* A verb of a peer, which a daemon that stops refuses at once.
Verb(p) ==
  /\ Serves /\ peers[p] = [there |-> at, verb |-> "none"]
  /\ verbs < MaxVerbs /\ verbs' = verbs + 1
  /\ \E l \in Lives, say \in Says, with \in Pins \cup {NONE}, attach \in BOOLEAN :
       /\ (say \in {"pin", "unpin"}) <=> (with # NONE)
       /\ attach => say = "open"
       /\ asks' = Append(asks, [say |-> say, life |-> l, from |-> p, with |-> with, attach |-> attach])
       /\ peers' = [peers EXCEPT ![p].verb = say]
  /\ UNCHANGED <<at, held, tasks, handed, pinned, givenUp, faults>>

Goes(p) ==
  /\ Here(p) /\ peers' = [peers EXCEPT ![p] = [there |-> "gone", verb |-> "none"]]
  /\ UNCHANGED <<at, held, asks, tasks, handed, pinned, givenUp, counts>>

\* The peers that hear an answer.
Answered(ps) == peers' = [p \in Peers |-> IF p \in ps THEN [peers[p] EXCEPT !.verb = "none"] ELSE peers[p]]

-----------------------------------------------------------------------------
(* Verbs, as the task hears them.                                           *)

Hears(say) == asks # <<>> /\ Serves /\ asks[1].say = say /\ asks' = Tail(asks)

\* A birth with windows attached, each with its teller.
Births(l, ps) ==
  LET b == Len(births) + 1
  IN  /\ births' = Append(births, Born(l, at))
      /\ held' = [held EXCEPT ![l] = IF ps = {} THEN NewBirth(b) ELSE Settle([NewBirth(b) EXCEPT !.windows = ps])]
      /\ tellers' = tellers \cup {<<b, p>> : p \in ps}
      /\ UNCHANGED lease

Attaches(l, p) ==
  /\ held' = [held EXCEPT ![l] = Attached(@, p)]
  /\ tellers' = tellers \cup {<<held[l].born, p>>}
  /\ UNCHANGED <<births, lease>>

\* A life is born, is there already, or ends, and then the open waits for its end.
HearOpenAtOnce ==
  LET a == asks[1] IN
  /\ Hears("open")
  /\ IF Living(a.life)
     THEN IF a.attach THEN Attaches(a.life, a.from) ELSE UNCHANGED <<held, tasks>>
     ELSE Births(a.life, IF a.attach THEN {a.from} ELSE {})
  /\ Answered({a.from})
  /\ UNCHANGED <<at, handed, pinned, givenUp, counts>>

HearOpen ==
  LET a == asks[1] IN
  /\ Hears("open")
  /\ \/ /\ Living(a.life)
        /\ IF a.attach THEN Attaches(a.life, a.from) ELSE UNCHANGED <<held, tasks>>
        /\ Answered({a.from})
     \/ /\ EndingNow(a.life)
        /\ held' = [held EXCEPT ![a.life].waiting = Append(@, [from |-> a.from, attach |-> a.attach])]
        /\ UNCHANGED <<tasks, peers>>
     \/ /\ held[a.life] = NoLife
        /\ Births(a.life, IF a.attach THEN {a.from} ELSE {}) /\ Answered({a.from})
  /\ UNCHANGED <<at, handed, pinned, givenUp, counts>>

HearAttach ==
  LET a == asks[1] IN
  /\ Hears("attach")
  /\ IF Living(a.life) THEN Attaches(a.life, a.from) ELSE UNCHANGED <<held, tasks>>
  /\ Answered({a.from})
  /\ UNCHANGED <<at, handed, pinned, givenUp, counts>>

\* A window lets go, by its verb or as its teller told that its peer is gone.
Detaches(a) ==
  IF Living(a.life)
  THEN /\ held' = [held EXCEPT ![a.life] = Detached(@, a.from)]
       /\ tellers' = tellers \ {<<held[a.life].born, a.from>>}
       /\ UNCHANGED <<births, lease>>
  ELSE UNCHANGED <<held, tasks>>

HearDetach ==
  /\ Hears("detach") /\ Detaches(asks[1]) /\ Answered({asks[1].from})
  /\ UNCHANGED <<at, handed, pinned, givenUp, counts>>

HearLeft ==
  /\ Hears("left") /\ Detaches(asks[1])
  /\ UNCHANGED <<at, peers, handed, pinned, givenUp, counts>>

HearPin ==
  LET a == asks[1] IN
  /\ Hears("pin")
  /\ IF Living(a.life)
     THEN /\ held' = [held EXCEPT ![a.life] = Pinned(@, a.with)]
          /\ pinned' = [pinned EXCEPT ![a.life] = @ \cup {a.with}]
     ELSE UNCHANGED <<held, pinned>>
  /\ Answered({a.from})
  /\ UNCHANGED <<at, tasks, handed, givenUp, counts>>

HearUnpin ==
  LET a == asks[1] IN
  /\ Hears("unpin")
  /\ IF Living(a.life)
     THEN /\ held' = [held EXCEPT ![a.life] = Unpinned(@, a.with)]
          /\ pinned' = [pinned EXCEPT ![a.life] = @ \ {a.with}]
     ELSE UNCHANGED <<held, pinned>>
  /\ Answered({a.from})
  /\ UNCHANGED <<at, tasks, handed, givenUp, counts>>

\* A life that ended, in the birth that the daemon holds, is gone, and the opens that waited open it again.
HearEnded ==
  LET b == asks[1].birth
      l == births[b].life
      waits == IF EndingNow(l) THEN Range(held[l].waiting) ELSE {}
  IN
  /\ Hears("ended")
  /\ IF held[l] = NoLife \/ held[l].born # b THEN UNCHANGED <<held, tasks, pinned>>
     ELSE /\ IF waits = {} THEN held' = [held EXCEPT ![l] = NoLife] /\ UNCHANGED tasks
             ELSE Births(l, {o.from : o \in {w \in waits : w.attach}})
          /\ pinned' = [pinned EXCEPT ![l] = {}]
  /\ Answered({o.from : o \in waits})
  /\ UNCHANGED <<at, handed, givenUp, counts>>

-----------------------------------------------------------------------------
(* The grace.                                                               *)

AskedRunning(bs) ==
  births' = [b \in DOMAIN births |->
              IF b \in bs /\ births[b].phase = "runs" THEN [births[b] EXCEPT !.asked = TRUE] ELSE births[b]]

Asked(bs) ==
  births' = [b \in DOMAIN births |-> IF b \in bs THEN [births[b] EXCEPT !.asked = TRUE] ELSE births[b]]

\* Each life whose grace passed, of those that nothing holds, is told to end.
Expire ==
  /\ Serves
  /\ \E due \in SUBSET {l \in Lives : Living(l) /\ held[l].idle = "grace"} :
       /\ due # {}
       /\ held' = [l \in Lives |->
                     IF l \in due THEN [stage |-> "ending", born |-> held[l].born, waiting |-> <<>>] ELSE held[l]]
       /\ Asked({held[l].born : l \in due})
  /\ UNCHANGED <<at, asks, lease, tellers, peers, handed, pinned, givenUp, counts>>

-----------------------------------------------------------------------------
(* The thread of a birth, its watch and its tellers.                        *)

Over(b) == births[b].phase \in {"over", "refused"}

Moves(b, phase) == births' = [births EXCEPT ![b].phase = phase]

\* The engine opens on its record, whose lease one engine of the machine holds.
Opening(b) ==
  LET l == births[b].life IN
  /\ births[b].phase = "opens"
  /\ IF lease[l] = NONE THEN Moves(b, "runs") /\ lease' = [lease EXCEPT ![l] = b]
     ELSE Moves(b, "refused") /\ UNCHANGED lease
  /\ UNCHANGED <<at, held, asks, tellers, peers, handed, pinned, givenUp, counts>>

\* The engine is dropped, with its lease.
Drops(b) ==
  /\ Moves(b, "closing")
  /\ lease' = [l \in Lives |-> IF lease[l] = b THEN NONE ELSE lease[l]]
  /\ UNCHANGED <<at, held, asks, tellers, peers, handed, pinned, givenUp, verbs>>

Ends(b) == births[b].phase = "runs" /\ births[b].asked /\ Drops(b) /\ UNCHANGED faults

Fault(b) == births[b].phase \in {"opens", "runs"} /\ faults < MaxFaults /\ faults' = faults + 1 /\ Drops(b)

TellsEnd(b) ==
  /\ births[b].phase = "closing" /\ Moves(b, "over")
  /\ UNCHANGED <<at, held, asks, lease, tellers, peers, handed, pinned, givenUp, counts>>

\* What a task of a birth sends to the daemon that made it, while that one hears.
Sends(b, ask) == asks' = IF births[b].by = at THEN Append(asks, ask) ELSE asks

\* The watch hears the end and tells the daemon.
Watches(b) ==
  /\ Over(b) /\ ~births[b].told /\ births' = [births EXCEPT ![b].told = TRUE]
  /\ Sends(b, [say |-> "ended", birth |-> b])
  /\ UNCHANGED <<at, held, lease, tellers, peers, handed, pinned, givenUp, counts>>

TellerLost(b, p) ==
  /\ <<b, p>> \in tellers /\ peers[p].there = "gone" /\ tellers' = tellers \ {<<b, p>>}
  /\ UNCHANGED <<asks, at, held, births, lease, peers, handed, pinned, givenUp, counts>>

\* A teller finds its peer gone.
TellerLeaves(b, p) ==
  /\ <<b, p>> \in tellers /\ peers[p].there = "gone" /\ tellers' = tellers \ {<<b, p>>}
  /\ Sends(b, [say |-> "left", life |-> births[b].life, from |-> p])
  /\ UNCHANGED <<at, held, births, lease, peers, handed, pinned, givenUp, counts>>

\* A teller told the end of the life.
TellerDone(b, p) ==
  /\ <<b, p>> \in tellers /\ Over(b) /\ tellers' = tellers \ {<<b, p>>}
  /\ UNCHANGED <<at, held, asks, births, lease, peers, handed, pinned, givenUp, counts>>

-----------------------------------------------------------------------------
(* The handover.                                                            *)

Upgrade ==
  /\ at = "first" /\ ~\E i \in DOMAIN asks : asks[i].say = "handover"
  /\ asks' = Append(asks, [say |-> "handover"])
  /\ UNCHANGED <<at, held, tasks, peers, handed, pinned, givenUp, counts>>

GivenBare(l) == [stage |-> "handed", born |-> held[l].born, pins |-> {}]

\* A life as it is given: with its pins, or with none when it ends already.
Given(l) ==
  [stage |-> "handed", born |-> held[l].born, pins |-> IF Living(l) THEN held[l].pins ELSE {}]

\* Each life is told to end, and what the task did not hear goes with it, refused.
HearHandover ==
  LET lives == {l \in Lives : held[l] # NoLife}
      ours == {<<held[l].born, p>> : l \in {k \in lives : Living(k)}, p \in Peers}
  IN
  /\ asks # <<>> /\ at = "first" /\ asks[1].say = "handover" /\ asks' = <<>> /\ at' = "gives"
  /\ handed' = [l \in Lives |-> IF l \in lives THEN Given(l) ELSE NoLife]
  /\ held' = [l \in Lives |-> NoLife]
  /\ Asked({held[l].born : l \in lives})
  /\ tellers' = tellers \ ours
  /\ Answered(Peers)
  /\ UNCHANGED <<lease, pinned, givenUp, counts>>

\* A life that did not end within the bound is given up.
GivesUp(l) ==
  /\ at = "gives" /\ handed[l] # NoLife /\ births[handed[l].born].phase \in {"opens", "runs"}
  /\ handed[l].born \notin givenUp /\ givenUp' = givenUp \cup {handed[l].born}
  /\ UNCHANGED <<at, held, asks, tasks, peers, handed, pinned, counts>>

\* Each life ended or is given up: the listener stops, and the daemon that asked gets the lives.
Gave ==
  /\ at = "gives" /\ at' = "handed"
  /\ \A l \in Lives :
       handed[l] # NoLife => handed[l].born \in givenUp \/ births[handed[l].born].phase \notin {"opens", "runs"}
  /\ UNCHANGED <<held, asks, tasks, peers, handed, pinned, givenUp, counts>>

\* The new daemon opens each life again with its pins.
Adopt ==
  LET lives == SetToSeq({l \in Lives : handed[l] # NoLife})
      b(l)  == Len(births) + CHOOSE i \in DOMAIN lives : lives[i] = l
  IN
  /\ at = "handed" /\ at' = "second"
  /\ births' = births \o [i \in DOMAIN lives |-> Born(lives[i], "second")]
  /\ held' = [l \in Lives |->
                IF handed[l] = NoLife THEN NoLife ELSE BornPinned(b(l), handed[l].pins)]
  /\ handed' = [l \in Lives |-> NoLife]
  /\ UNCHANGED <<asks, lease, tellers, peers, pinned, givenUp, counts>>

\* The process of the first daemon ends once the one that asked listens: its peers, its threads and
\* their leases go with it.
Old == {b \in DOMAIN births : births[b].by = "first"}

OldExits ==
  /\ at \in {"handed", "second"}
  /\ (\E b \in Old : births[b].phase # "dead") \/ (\E p \in Peers : peers[p].there = "first")
  /\ births' = [b \in DOMAIN births |-> IF b \in Old THEN [births[b] EXCEPT !.phase = "dead"] ELSE births[b]]
  /\ lease' = [l \in Lives |-> IF lease[l] \in Old THEN NONE ELSE lease[l]]
  /\ tellers' = {t \in tellers : t[1] \notin Old}
  /\ peers' = [p \in Peers |->
                 IF peers[p].there = "first" THEN [there |-> "gone", verb |-> "none"] ELSE peers[p]]
  /\ UNCHANGED <<at, held, asks, handed, pinned, givenUp, counts>>

-----------------------------------------------------------------------------
Hear ==
  \/ HearOpen \/ HearAttach \/ HearDetach \/ HearLeft \/ HearPin \/ HearUnpin \/ HearEnded
  \/ HearHandover

Task == Hear \/ Expire

Beside ==
  \/ \E b \in DOMAIN births :
       \/ Opening(b) \/ Ends(b) \/ TellsEnd(b) \/ Watches(b)
       \/ \E p \in Peers : TellerLeaves(b, p) \/ TellerDone(b, p)
  \/ Gave \/ Adopt \/ OldExits

Next ==
  \/ Task \/ Beside
  \/ \E p \in Peers : Dial(p) \/ Verb(p) \/ Goes(p)
  \/ \E b \in DOMAIN births : Fault(b)
  \/ Upgrade \/ \E l \in Lives : GivesUp(l)

Spec == Init /\ [][Next]_vars

\* Each task and each thread of the daemon goes on, a life that is told to end ends, and a grace that nothing cuts short passes.
LiveSpec == Spec /\ WF_vars(Task \/ Beside)

-----------------------------------------------------------------------------
(* Properties (the contracts of the daemon and docs/protocol.md).           *)

\* No birth of a life finds its record owned by another, one that the handover gave up included: "the
\* new daemon opens it from its record" (docs/protocol.md).
RecordsFree == \A b \in DOMAIN births : births[b].phase # "refused"

\* Only a birth that the handover gave up, and that goes on in the old process, can meet the birth of
\* that life in the new one: without it, an open of a life that ends waits for its end, and the end
\* comes once the engine let its record go.
RefusedByGivenUp ==
  \A b \in DOMAIN births :
    births[b].phase = "refused" => \E g \in givenUp : births[g].life = births[b].life

\* A life counts down its grace exactly while no window and no pin holds it.
IdleIsUnheld ==
  \A l \in Lives : Living(l) => (held[l].idle = "held" <=> held[l].windows # {} \/ held[l].pins # {})

\* Each window of a life hears its events until the daemon hears why not, and no other peer does.
WindowsHear ==
  /\ \A l \in Lives : Living(l) => \A p \in held[l].windows :
       \/ <<held[l].born, p>> \in tellers \/ Over(held[l].born)
       \/ \E i \in DOMAIN asks : asks[i] = [say |-> "left", life |-> l, from |-> p]
  /\ \A t \in tellers :
       LET l == births[t[1]].life IN
       Over(t[1]) \/ (Living(l) /\ held[l].born = t[1] /\ t[2] \in held[l].windows)

\* The births and the tellers of a life agree with what the daemon holds of it.
BirthsAgree == RefusedByGivenUp /\ WindowsHear

\* A pin that was answered holds its life through each grace and the handover, until it is let go
\* or the life ends of itself.
PinsHold == Serves => \A l \in Lives : pinned[l] = (IF Living(l) THEN held[l].pins ELSE {})

\* Each verb gets its answer, an open that waits for the end of a life too.
VerbsAnswered == \A p \in Peers : peers[p].verb # "none" ~> peers[p].verb = "none"

Alone(l) == Living(l) /\ held[l].pins = {} /\ \A p \in held[l].windows : peers[p].there = "gone"

\* A life whose windows are all gone, with no pin, ends or is held again.
AloneEnds == \A l \in Lives : Alone(l) ~> ~Alone(l)

\* The daemon goes on: no verb waits for ever, and no life outlives its windows and pins.
GoesOn == VerbsAnswered /\ AloneEnds
=============================================================================
