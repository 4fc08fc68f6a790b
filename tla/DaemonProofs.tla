---------------------------- MODULE DaemonProofs ----------------------------
(***************************************************************************)
(* Proofs about Daemon, for every set of lives and of pins and any number  *)
(* of peers, verbs and faults. IdleIsUnheld and PinsHold need each other:  *)
(* a life whose grace passes loses no pin since one that counts its grace  *)
(* down holds none, and the handover keeps in handed what held let go.     *)
(***************************************************************************)
EXTENDS Daemon, TLAPS, FiniteSetTheorems, SequenceTheorems

\* The fields of a life that the daemon holds.
Formed(h) ==
  /\ "stage" \in DOMAIN h
  /\ h.stage = "living" => {"born", "windows", "pins", "idle"} \subseteq DOMAIN h
  /\ h.stage = "ending" => {"born", "waiting"} \subseteq DOMAIN h

\* It counts its grace down exactly while nothing holds it.
Settled(h) == h.stage = "living" => (h.idle = "held" <=> h.windows # {} \/ h.pins # {})

\* The pins of a life, which the daemon holds or gives to the next one.
Pinning(l) ==
  IF Living(l) THEN held[l].pins ELSE IF handed[l] # NoLife THEN handed[l].pins ELSE {}

IInv ==
  /\ DOMAIN held = Lives /\ DOMAIN handed = Lives /\ DOMAIN pinned = Lives
  /\ \A l \in Lives :
       /\ Formed(held[l]) /\ Settled(held[l])
       /\ Serves => handed[l] = NoLife
       /\ ~Serves => held[l] = NoLife
       /\ pinned[l] = Pinning(l)

-----------------------------------------------------------------------------
\* A life whose holders settled is settled, and keeps its form and its pins.
LEMMA SettleSettles ==
  ASSUME NEW h, Formed(h), h.stage = "living"
  PROVE  /\ Formed(Settle(h)) /\ Settled(Settle(h)) /\ Settle(h).stage = "living"
         /\ Settle(h).pins = h.pins /\ Settle(h).windows = h.windows
BY DEF Formed, Settled, Settle

\* A life that is born is formed and settled, and what it is born with holds it.
LEMMA BirthSettles ==
  ASSUME NEW b
  PROVE  Formed(NewBirth(b)) /\ Settled(NewBirth(b)) /\ NewBirth(b).stage = "living" /\ NewBirth(b).pins = {}
BY DEF NewBirth, Formed, Settled

LEMMA BirthWithWindows ==
  ASSUME NEW b, NEW ws, NEW g, g = Settle([NewBirth(b) EXCEPT !.windows = ws])
  PROVE  Formed(g) /\ Settled(g) /\ g.stage = "living" /\ g.pins = {}
<1> DEFINE h == [NewBirth(b) EXCEPT !.windows = ws]
<1>1. Formed(h) /\ h.stage = "living" /\ h.pins = {}
  BY DEF NewBirth, Formed
<1> HIDE DEF h
<1>2. g = Settle(h)
  BY DEF h
<1> QED BY <1>1, <1>2, SettleSettles

LEMMA BirthWithPins ==
  ASSUME NEW b, NEW ps
  PROVE  LET g == BornPinned(b, ps) IN Formed(g) /\ Settled(g) /\ g.stage = "living" /\ g.pins = ps
<1> DEFINE h == [NewBirth(b) EXCEPT !.pins = ps]
<1>1. Formed(h) /\ h.stage = "living" /\ h.pins = ps
  BY DEF NewBirth, Formed
<1> HIDE DEF h
<1>2. BornPinned(b, ps) = Settle(h)
  BY DEF h, BornPinned
<1> QED BY <1>1, <1>2, SettleSettles

\* A step that leaves the lives, the pins and the place of the handover as they are keeps the invariant.
LEMMA Unmoved ==
  ASSUME IInv, UNCHANGED <<at, held, handed, pinned>>
  PROVE  IInv'
BY DEF IInv, Serves, Pinning, Living

\* What a step of the daemon that serves has to show of each life.
LEMMA Served ==
  ASSUME IInv, Serves, UNCHANGED <<at, handed>>, DOMAIN held' = Lives, DOMAIN pinned' = Lives,
         \A l \in Lives : /\ Formed(held'[l]) /\ Settled(held'[l])
                          /\ pinned'[l] = IF held'[l].stage = "living" THEN held'[l].pins ELSE {}
  PROVE  IInv'
BY DEF IInv, Serves, Pinning, Living

LEMMA InitIInv == Init => IInv
<1> SUFFICES ASSUME Init PROVE IInv
  OBVIOUS
<1>1. \A l \in Lives : held[l] = NoLife /\ handed[l] = NoLife /\ pinned[l] = {}
  BY DEF Init
<1>2. Formed(NoLife) /\ Settled(NoLife) /\ NoLife.stage = "none"
  BY DEF Formed, Settled, NoLife
<1>3. DOMAIN held = Lives /\ DOMAIN handed = Lives /\ DOMAIN pinned = Lives /\ Serves
  BY DEF Init, Serves
<1> QED BY <1>1, <1>2, <1>3 DEF IInv, Pinning, Living

\* The verbs of windows.
LEMMA KeepsHolders ==
  ASSUME IInv, Serves, UNCHANGED <<at, handed, pinned>>, NEW l, NEW h,
         held' = [held EXCEPT ![l] = h],
         l \in Lives => Formed(h) /\ Settled(h)
                        /\ (IF h.stage = "living" THEN h.pins ELSE {}) = pinned[l]
  PROVE  IInv'
<1>1. DOMAIN held' = Lives /\ DOMAIN pinned' = Lives
  BY DEF IInv
<1>2. ASSUME NEW k \in Lives
      PROVE  /\ Formed(held'[k]) /\ Settled(held'[k])
             /\ pinned'[k] = IF held'[k].stage = "living" THEN held'[k].pins ELSE {}
  <2>1. CASE k = l
    <3>1. held'[k] = h BY <2>1 DEF IInv
    <3> QED BY <2>1, <3>1
  <2>2. CASE k # l
    <3>1. held'[k] = held[k] BY <2>2 DEF IInv
    <3> QED BY <3>1 DEF IInv, Pinning, Living
  <2> QED BY <2>1, <2>2
<1> QED BY <1>1, <1>2, Served

\* A window that comes or goes keeps what pins its life.
LEMMA WindowsKeepPins ==
  ASSUME NEW h, Formed(h), Settled(h), h.stage = "living", NEW p
  PROVE  /\ Formed(Attached(h, p)) /\ Settled(Attached(h, p)) /\ Attached(h, p).stage = "living"
         /\ Attached(h, p).pins = h.pins
         /\ Formed(Detached(h, p)) /\ Settled(Detached(h, p)) /\ Detached(h, p).stage = "living"
         /\ Detached(h, p).pins = h.pins
<1>1. ASSUME NEW ws
      PROVE  LET g == [h EXCEPT !.windows = ws]
             IN  Formed(g) /\ g.stage = "living" /\ g.pins = h.pins
  BY DEF Formed
<1>2. Formed(Attached(h, p)) /\ Settled(Attached(h, p)) /\ Attached(h, p).stage = "living"
      /\ Attached(h, p).pins = h.pins
  BY <1>1, SettleSettles DEF Attached
<1>3. CASE p \in h.windows
  BY <1>1, <1>2, <1>3, SettleSettles DEF Detached
<1>4. CASE p \notin h.windows
  BY <1>2, <1>4 DEF Detached
<1> QED BY <1>2, <1>3, <1>4

\* Windows attach to a life that lives.
LEMMA AttachKeeps ==
  ASSUME IInv, Serves, UNCHANGED <<at, handed, pinned>>, NEW l, Living(l), NEW p,
         held' = [held EXCEPT ![l] = Attached(@, p)]
  PROVE  IInv'
<1>1. l \in Lives => Formed(held[l]) /\ Settled(held[l]) /\ held[l].pins = pinned[l]
  BY DEF IInv, Pinning, Living
<1> QED BY <1>1, WindowsKeepPins, KeepsHolders DEF Living

\* A window lets go of a life.
LEMMA DetachKeeps ==
  ASSUME IInv, Serves, UNCHANGED <<at, handed, pinned>>, NEW a, Detaches(a)
  PROVE  IInv'
<1>1. CASE ~Living(a.life)
  BY <1>1, Unmoved DEF Detaches
<1>2. CASE Living(a.life)
  <2>1. held' = [held EXCEPT ![a.life] = Detached(@, a.from)]
    BY <1>2 DEF Detaches
  <2>2. a.life \in Lives => Formed(held[a.life]) /\ Settled(held[a.life]) /\ held[a.life].pins = pinned[a.life]
    BY <1>2 DEF IInv, Pinning, Living
  <2> QED BY <1>2, <2>1, <2>2, WindowsKeepPins, KeepsHolders DEF Living
<1> QED BY <1>1, <1>2

\* A life that is born with windows is formed and settled, and nothing pins it.
LEMMA BornSettled ==
  ASSUME NEW l, NEW ps, Births(l, ps)
  PROVE  \E h : /\ held' = [held EXCEPT ![l] = h]
                /\ Formed(h) /\ Settled(h) /\ h.stage = "living" /\ h.pins = {}
<1> DEFINE b == Len(births) + 1
           g == Settle([NewBirth(b) EXCEPT !.windows = ps])
           h == IF ps = {} THEN NewBirth(b) ELSE g
<1>1. held' = [held EXCEPT ![l] = h]
  BY DEF Births
<1>2. Formed(g) /\ Settled(g) /\ g.stage = "living" /\ g.pins = {}
  BY BirthWithWindows
<1> HIDE DEF g
<1>3. Formed(h) /\ Settled(h) /\ h.stage = "living" /\ h.pins = {}
  BY <1>2, BirthSettles
<1> HIDE DEF h
<1> QED BY <1>1, <1>3

\* A life that is born in place of one that nothing pins.
LEMMA BirthKeeps ==
  ASSUME IInv, Serves, UNCHANGED <<at, handed, pinned>>, NEW l, NEW ps, Births(l, ps),
         l \in Lives => pinned[l] = {}
  PROVE  IInv'
<1>1. PICK h : held' = [held EXCEPT ![l] = h] /\ Formed(h) /\ Settled(h) /\ h.stage = "living" /\ h.pins = {}
  BY BornSettled
<1> QED BY <1>1, KeepsHolders

\* An open: a window attaches, waits for the end of the life, or the life is born.
LEMMA HearOpenKeeps == IInv /\ HearOpen => IInv'
<1> SUFFICES ASSUME IInv, HearOpen PROVE IInv'
  OBVIOUS
<1> DEFINE a == asks[1]
<1>1. Serves /\ UNCHANGED <<at, handed, pinned>>
  BY DEF HearOpen, Hears
<1>2. CASE Living(a.life) /\ IF a.attach THEN Attaches(a.life, a.from) ELSE UNCHANGED <<held, tasks>>
  <2>1. CASE a.attach
    BY <1>1, <1>2, <2>1, AttachKeeps DEF Attaches
  <2>2. CASE ~a.attach
    BY <1>1, <1>2, <2>2, Unmoved
  <2> QED BY <2>1, <2>2
<1>3. CASE EndingNow(a.life)
           /\ held' = [held EXCEPT ![a.life].waiting = Append(@, [from |-> a.from, attach |-> a.attach])]
  <2> DEFINE h == [held[a.life] EXCEPT !.waiting = Append(@, [from |-> a.from, attach |-> a.attach])]
  <2>1. held' = [held EXCEPT ![a.life] = h]
    BY <1>3
  <2>2. a.life \in Lives => Formed(held[a.life]) /\ pinned[a.life] = {}
    BY <1>1, <1>3 DEF IInv, Pinning, Living, EndingNow
  <2>3. Formed(held[a.life]) => Formed(h) /\ Settled(h) /\ h.stage = "ending"
    BY <1>3 DEF Formed, Settled, EndingNow
  <2> HIDE DEF h
  <2> QED BY <1>1, <2>1, <2>2, <2>3, KeepsHolders
<1>4. CASE held[a.life] = NoLife /\ Births(a.life, IF a.attach THEN {a.from} ELSE {})
  <2>1. a.life \in Lives => pinned[a.life] = {}
    BY <1>1, <1>4 DEF IInv, Pinning, Living, NoLife
  <2> QED BY <1>1, <1>4, <2>1, BirthKeeps
<1> QED BY <1>2, <1>3, <1>4 DEF HearOpen

LEMMA HearAttachKeeps == IInv /\ HearAttach => IInv'
<1> SUFFICES ASSUME IInv, HearAttach PROVE IInv'
  OBVIOUS
<1>1. Serves /\ UNCHANGED <<at, handed, pinned>>
  BY DEF HearAttach, Hears
<1>2. CASE Living(asks[1].life)
  <2>1. held' = [held EXCEPT ![asks[1].life] = Attached(@, asks[1].from)]
    BY <1>2 DEF HearAttach, Attaches
  <2> QED BY <1>1, <1>2, <2>1, AttachKeeps
<1>3. CASE ~Living(asks[1].life)
  BY <1>1, <1>3, Unmoved DEF HearAttach
<1> QED BY <1>2, <1>3

\* A verb or a word that a window lets go.
LEMMA HearDetachKeeps == IInv /\ (HearDetach \/ HearLeft) => IInv'
<1> SUFFICES ASSUME IInv, HearDetach \/ HearLeft PROVE IInv'
  OBVIOUS
<1>1. Serves /\ UNCHANGED <<at, handed, pinned>> /\ Detaches(asks[1])
  BY DEF HearDetach, HearLeft, Hears
<1> QED BY <1>1, DetachKeeps

\* A pin that comes or goes leaves the life formed and settled.
LEMMA PinsSettle ==
  ASSUME NEW h, Formed(h), h.stage = "living", NEW w
  PROVE  /\ Formed(Pinned(h, w)) /\ Settled(Pinned(h, w)) /\ Pinned(h, w).stage = "living"
         /\ Pinned(h, w).pins = h.pins \cup {w}
         /\ Formed(Unpinned(h, w)) /\ Settled(Unpinned(h, w)) /\ Unpinned(h, w).stage = "living"
         /\ Unpinned(h, w).pins = h.pins \ {w}
<1>1. ASSUME NEW ps
      PROVE  LET g == [h EXCEPT !.pins = ps] IN Formed(g) /\ g.stage = "living" /\ g.pins = ps
  BY DEF Formed
<1> QED BY <1>1, SettleSettles DEF Pinned, Unpinned

\* The pins of a life that lives change as what is pinned does.
LEMMA PinsKeep ==
  ASSUME IInv, Serves, UNCHANGED <<at, handed>>, NEW l, NEW h, NEW ps,
         held' = [held EXCEPT ![l] = h], pinned' = [pinned EXCEPT ![l] = ps],
         l \in Lives => Formed(h) /\ Settled(h) /\ ps = IF h.stage = "living" THEN h.pins ELSE {}
  PROVE  IInv'
<1>1. DOMAIN held' = Lives /\ DOMAIN pinned' = Lives
  BY DEF IInv
<1>2. ASSUME NEW k \in Lives
      PROVE  /\ Formed(held'[k]) /\ Settled(held'[k])
             /\ pinned'[k] = IF held'[k].stage = "living" THEN held'[k].pins ELSE {}
  <2>1. CASE k = l
    <3>1. held'[k] = h /\ pinned'[k] = ps BY <2>1 DEF IInv
    <3> QED BY <2>1, <3>1
  <2>2. CASE k # l
    <3>1. held'[k] = held[k] /\ pinned'[k] = pinned[k] BY <2>2 DEF IInv
    <3> QED BY <3>1 DEF IInv, Pinning, Living
  <2> QED BY <2>1, <2>2
<1> QED BY <1>1, <1>2, Served

\* A pin comes or goes, and with it what was answered.
LEMMA HearPinKeeps == IInv /\ (HearPin \/ HearUnpin) => IInv'
<1> SUFFICES ASSUME IInv, HearPin \/ HearUnpin PROVE IInv'
  OBVIOUS
<1> DEFINE l == asks[1].life
           w == asks[1].with
<1>1. Serves /\ UNCHANGED <<at, handed>>
  BY DEF HearPin, HearUnpin, Hears
<1>2. CASE ~Living(l)
  BY <1>1, <1>2, Unmoved DEF HearPin, HearUnpin
<1>3. CASE Living(l) /\ HearPin
  <2>1. held' = [held EXCEPT ![l] = Pinned(held[l], w)] /\ pinned' = [pinned EXCEPT ![l] = pinned[l] \cup {w}]
    BY <1>3 DEF HearPin
  <2>2. l \in Lives => Formed(held[l]) /\ held[l].stage = "living" /\ held[l].pins = pinned[l]
    BY <1>3 DEF IInv, Pinning, Living
  <2>3. l \in Lives => /\ Formed(Pinned(held[l], w)) /\ Settled(Pinned(held[l], w))
                       /\ Pinned(held[l], w).stage = "living" /\ Pinned(held[l], w).pins = pinned[l] \cup {w}
    BY <2>2, PinsSettle
  <2> HIDE DEF l, w
  <2> QED BY <1>1, <2>1, <2>3, PinsKeep
<1>4. CASE Living(l) /\ HearUnpin
  <2>1. held' = [held EXCEPT ![l] = Unpinned(held[l], w)] /\ pinned' = [pinned EXCEPT ![l] = pinned[l] \ {w}]
    BY <1>4 DEF HearUnpin
  <2>2. l \in Lives => Formed(held[l]) /\ held[l].stage = "living" /\ held[l].pins = pinned[l]
    BY <1>4 DEF IInv, Pinning, Living
  <2>3. l \in Lives => /\ Formed(Unpinned(held[l], w)) /\ Settled(Unpinned(held[l], w))
                       /\ Unpinned(held[l], w).stage = "living" /\ Unpinned(held[l], w).pins = pinned[l] \ {w}
    BY <2>2, PinsSettle
  <2> HIDE DEF l, w
  <2> QED BY <1>1, <2>1, <2>3, PinsKeep
<1> QED BY <1>2, <1>3, <1>4

\* A life that ended lets its pins go, and the opens that waited open it with none.
LEMMA HearEndedKeeps == IInv /\ HearEnded => IInv'
<1> SUFFICES ASSUME IInv, HearEnded PROVE IInv'
  OBVIOUS
<1> DEFINE l == births[asks[1].birth].life
<1>1. Serves /\ UNCHANGED <<at, handed>>
  BY DEF HearEnded, Hears
<1>2. CASE UNCHANGED <<held, pinned>>
  BY <1>1, <1>2, Unmoved
<1>3. ASSUME NEW h, held' = [held EXCEPT ![l] = h], pinned' = [pinned EXCEPT ![l] = {}],
             Formed(h), Settled(h), h.stage = "living" => h.pins = {}
      PROVE  IInv'
  BY <1>1, <1>3, PinsKeep
<1>4. CASE held' = [held EXCEPT ![l] = NoLife] /\ pinned' = [pinned EXCEPT ![l] = {}]
  <2>1. Formed(NoLife) /\ Settled(NoLife) /\ NoLife.stage # "living"
    BY DEF Formed, Settled, NoLife
  <2> QED BY <1>3, <1>4, <2>1
<1>5. ASSUME NEW ps, Births(l, ps), pinned' = [pinned EXCEPT ![l] = {}]
      PROVE  IInv'
  <2>1. PICK h : held' = [held EXCEPT ![l] = h] /\ Formed(h) /\ Settled(h) /\ h.stage = "living" /\ h.pins = {}
    BY <1>5, BornSettled
  <2> QED BY <1>3, <1>5, <2>1
<1> QED BY <1>2, <1>4, <1>5 DEF HearEnded

\* A life whose grace passes holds no pin, and ends.
LEMMA ExpireKeeps == IInv /\ Expire => IInv'
<1> SUFFICES ASSUME IInv, Expire PROVE IInv'
  OBVIOUS
<1>1. Serves /\ UNCHANGED <<at, handed, pinned>>
  BY DEF Expire
<1>2. PICK due \in SUBSET {l \in Lives : Living(l) /\ held[l].idle = "grace"} :
        held' = [l \in Lives |->
                   IF l \in due THEN [stage |-> "ending", born |-> held[l].born, waiting |-> <<>>] ELSE held[l]]
  BY DEF Expire
<1>3. DOMAIN held' = Lives /\ DOMAIN pinned' = Lives
  BY <1>1, <1>2 DEF IInv
<1>4. ASSUME NEW k \in Lives
      PROVE  /\ Formed(held'[k]) /\ Settled(held'[k])
             /\ pinned'[k] = IF held'[k].stage = "living" THEN held'[k].pins ELSE {}
  <2>1. CASE k \in due
    <3> DEFINE h == [stage |-> "ending", born |-> held[k].born, waiting |-> <<>>]
    <3>1. held'[k] = h
      BY <1>2, <2>1
    <3>2. Formed(h) /\ Settled(h) /\ h.stage = "ending"
      BY DEF Formed, Settled
    <3>3. pinned[k] = {}
      BY <1>2, <2>1 DEF IInv, Pinning, Settled, Living
    <3> QED BY <1>1, <3>1, <3>2, <3>3
  <2>2. CASE k \notin due
    <3>1. held'[k] = held[k]
      BY <1>2, <2>2
    <3> QED BY <1>1, <3>1 DEF IInv, Pinning, Living
  <2> QED BY <2>1, <2>2
<1> QED BY <1>1, <1>3, <1>4, Served

-----------------------------------------------------------------------------
\* The handover keeps in handed the pins of what the daemon lets go.
LEMMA HearHandoverKeeps == IInv /\ HearHandover => IInv'
<1> SUFFICES ASSUME IInv, HearHandover PROVE IInv'
  OBVIOUS
<1>1. ~Serves' /\ UNCHANGED pinned
  BY DEF HearHandover, Serves
<1>2. Serves
  BY DEF HearHandover, Serves
<1>3. /\ held' = [l \in Lives |-> NoLife]
      /\ handed' = [l \in Lives |-> IF l \in {k \in Lives : held[k] # NoLife} THEN Given(l) ELSE NoLife]
  BY DEF HearHandover
<1>4. Formed(NoLife) /\ Settled(NoLife) /\ NoLife.stage = "none"
  BY DEF Formed, Settled, NoLife
<1>5. ASSUME NEW l \in Lives
      PROVE  pinned[l] = IF handed'[l] # NoLife THEN handed'[l].pins ELSE {}
  <2>1. pinned[l] = IF Living(l) THEN held[l].pins ELSE {}
    BY <1>2 DEF IInv, Pinning
  <2>2. CASE held[l] = NoLife
    <3>1. ~Living(l) BY <1>4, <2>2 DEF Living
    <3>2. handed'[l] = NoLife BY <1>3, <2>2
    <3> QED BY <2>1, <3>1, <3>2
  <2>3. CASE held[l] # NoLife
    <3>1. handed'[l] = Given(l) BY <1>3, <2>3
    <3>2. Given(l) # NoLife /\ Given(l).pins = IF Living(l) THEN held[l].pins ELSE {}
      BY DEF Given, NoLife
    <3> QED BY <2>1, <3>1, <3>2
  <2> QED BY <2>2, <2>3
<1>6. DOMAIN held' = Lives /\ DOMAIN handed' = Lives /\ DOMAIN pinned' = Lives
  BY <1>1, <1>3 DEF IInv
<1>7. \A l \in Lives : held'[l] = NoLife
  BY <1>3
<1> QED BY <1>1, <1>4, <1>5, <1>6, <1>7 DEF IInv, Pinning, Living

\* The lives that were given have a place to go.
LEMMA GaveKeeps == IInv /\ Gave => IInv'
BY DEF IInv, Gave, Serves, Pinning, Living

\* The new daemon holds each life that it opens again by the pins that it was given.
LEMMA AdoptKeeps == IInv /\ Adopt => IInv'
<1> SUFFICES ASSUME IInv, Adopt PROVE IInv'
  OBVIOUS
<1>1. Serves' /\ ~Serves /\ UNCHANGED pinned
  BY DEF Adopt, Serves
<1>2. handed' = [l \in Lives |-> NoLife]
  BY DEF Adopt
<1>3. PICK b : held' = [l \in Lives |->
                          IF handed[l] = NoLife THEN NoLife
                          ELSE BornPinned(b[l], handed[l].pins)]
  <2> DEFINE lives == SetToSeq({l \in Lives : handed[l] # NoLife})
             f == [l \in Lives |-> Len(births) + CHOOSE i \in DOMAIN lives : lives[i] = l]
  <2>1. held' = [l \in Lives |->
                   IF handed[l] = NoLife THEN NoLife
                   ELSE BornPinned(f[l], handed[l].pins)]
    BY DEF Adopt
  <2> HIDE DEF f
  <2> QED BY <2>1
<1>4. ASSUME NEW l \in Lives
      PROVE  Formed(held'[l]) /\ Settled(held'[l]) /\ pinned[l] = IF held'[l].stage = "living" THEN held'[l].pins ELSE {}
  <2>1. pinned[l] = IF handed[l] # NoLife THEN handed[l].pins ELSE {}
    BY <1>1 DEF IInv, Pinning, Living, NoLife
  <2>2. CASE handed[l] = NoLife
    <3>1. held'[l] = NoLife BY <1>3, <2>2
    <3>2. Formed(NoLife) /\ Settled(NoLife) /\ NoLife.stage = "none"
      BY DEF Formed, Settled, NoLife
    <3> QED BY <2>1, <2>2, <3>1, <3>2
  <2>3. CASE handed[l] # NoLife
    <3>1. held'[l] = BornPinned(b[l], handed[l].pins)
      BY <1>3, <2>3
    <3>2. Formed(held'[l]) /\ Settled(held'[l]) /\ held'[l].stage = "living" /\ held'[l].pins = handed[l].pins
      BY <3>1, BirthWithPins
    <3> QED BY <2>1, <2>3, <3>2
  <2> QED BY <2>2, <2>3
<1>5. DOMAIN held' = Lives /\ DOMAIN handed' = Lives /\ DOMAIN pinned' = Lives
  BY <1>1, <1>2, <1>3 DEF IInv
<1>6. \A l \in Lives : handed'[l] = NoLife
  BY <1>2
<1> QED BY <1>1, <1>4, <1>5, <1>6 DEF IInv, Pinning, Living

-----------------------------------------------------------------------------
\* Peers, threads, watches and tellers leave the lives that the daemon holds as they are.
LEMMA BesideUnmoved ==
  ASSUME NEW b, NEW p,
         \/ Opening(b) \/ Ends(b) \/ TellsEnd(b) \/ Watches(b) \/ Fault(b)
         \/ TellerLeaves(b, p) \/ TellerDone(b, p)
  PROVE  UNCHANGED <<at, held, handed, pinned>>
BY DEF Opening, Ends, TellsEnd, Watches, Fault, TellerLeaves, TellerDone, Drops

LEMMA CallsUnmoved ==
  ASSUME NEW p, NEW l, Dial(p) \/ Verb(p) \/ Goes(p) \/ GivesUp(l) \/ Upgrade \/ OldExits
  PROVE  UNCHANGED <<at, held, handed, pinned>>
BY DEF Dial, Verb, Goes, GivesUp, Upgrade, OldExits

\* Each step of the daemon keeps the invariant.
LEMMA NextIInv == IInv /\ [Next]_vars => IInv'
<1> SUFFICES ASSUME IInv, [Next]_vars PROVE IInv'
  OBVIOUS
<1>1. CASE Hear
  BY <1>1, HearOpenKeeps, HearAttachKeeps, HearDetachKeeps, HearPinKeeps, HearEndedKeeps,
     HearHandoverKeeps DEF Hear
<1>2. CASE Expire
  BY <1>2, ExpireKeeps
<1>3. CASE Beside
  <2>1. CASE Gave \/ Adopt
    BY <2>1, GaveKeeps, AdoptKeeps
  <2>2. CASE OldExits
    BY <2>2, CallsUnmoved, Unmoved
  <2>3. ASSUME NEW b \in DOMAIN births,
               \/ Opening(b) \/ Ends(b) \/ TellsEnd(b) \/ Watches(b)
               \/ \E p \in Peers : TellerLeaves(b, p) \/ TellerDone(b, p)
        PROVE  IInv'
    BY <2>3, BesideUnmoved, Unmoved
  <2> QED BY <1>3, <2>1, <2>2, <2>3 DEF Beside
<1>4. CASE \E p \in Peers : Dial(p) \/ Verb(p) \/ Goes(p)
  BY <1>4, CallsUnmoved, Unmoved
<1>5. CASE \E b \in DOMAIN births : Fault(b)
  BY <1>5, BesideUnmoved, Unmoved
<1>6. CASE Upgrade \/ \E l \in Lives : GivesUp(l)
  BY <1>6, CallsUnmoved, Unmoved
<1>7. CASE UNCHANGED vars
  BY <1>7, Unmoved DEF vars
<1> QED BY <1>1, <1>2, <1>3, <1>4, <1>5, <1>6, <1>7 DEF Next, Task

LEMMA SpecIInv == Spec => []IInv
<1> QED BY InitIInv, NextIInv, PTL DEF Spec

\* A life of the daemon counts its grace down exactly while no window and no pin holds it, whatever
\* the order of the verbs, the windows that go, the ends and the handover.
THEOREM IdleHolds == Spec => []IdleIsUnheld
<1>1. IInv => IdleIsUnheld
  BY DEF IInv, Settled, IdleIsUnheld, Living
<1> QED BY <1>1, SpecIInv, PTL

\* A pin that the daemon answered holds its life until it is let go or the life ends of itself: the
\* grace never takes it, and the handover gives it to the next daemon.
THEOREM PinsAreHeld == Spec => []PinsHold
<1>1. IInv => PinsHold
  BY DEF IInv, Pinning, PinsHold, Living
<1> QED BY <1>1, SpecIInv, PTL

-----------------------------------------------------------------------------
(* The births: the types of the daemon, which birth can meet another on its *)
(* record, and which peers hear a life. Both need to know which births      *)
(* still hold an engine (Active): those that the daemon holds or gives, and *)
(* those that the handover gave up, and no other.                           *)

BirthRecords == [life : Lives, by : {"first", "second"}, phase : Phases, asked : BOOLEAN, told : BOOLEAN]

\* The forms of a life that a daemon holds or gives, of n births.
LivingForms(n) == [stage : {"living"}, born : 1 .. n, windows : SUBSET Peers, pins : SUBSET Pins, idle : Idles]
EndingForms(n) == [stage : {"ending"}, born : 1 .. n, waiting : Seq(Opens)]
GivenForms(n)  == [stage : {"handed"}, born : 1 .. n, pins : SUBSET Pins]

HeldForms(n) == {NoLife} \cup LivingForms(n) \cup EndingForms(n)

\* A verb of a pin names it.
VerbForms == {a \in [say : Says, life : Lives, from : Peers, with : Pins \cup {NONE}, attach : BOOLEAN] :
                a.say \in {"pin", "unpin"} => a.with \in Pins}

AskForms(n) ==
  VerbForms \cup [say : {"ended"}, birth : 1 .. n] \cup [say : {"left"}, life : Lives, from : Peers]
    \cup [say : {"handover"}]

PeerForms == [there : {"out", "first", "second", "gone"}, verb : Says \cup {"none"}]

Typed ==
  /\ at \in Places /\ births \in Seq(BirthRecords)
  /\ held \in [Lives -> HeldForms(Len(births))]
  /\ handed \in [Lives -> {NoLife} \cup GivenForms(Len(births))]
  /\ asks \in Seq(AskForms(Len(births)))
  /\ lease \in [Lives -> {NONE} \cup 1 .. Len(births)]
  /\ peers \in [Peers -> PeerForms]
  /\ tellers \subseteq (1 .. Len(births)) \X Peers
  /\ pinned \in [Lives -> SUBSET Pins]
  /\ verbs \in 0 .. MaxVerbs /\ faults \in 0 .. MaxFaults /\ givenUp \subseteq 1 .. Len(births)

\* A birth whose engine can hold the record of its life.
Active(b) == births[b].phase \in {"opens", "runs"}

GivenUp(l) == \E g \in givenUp : births[g].life = l

HoldsBirth(l, b) ==
  \/ held[l] # NoLife /\ held[l].born = b
  \/ handed[l] # NoLife /\ handed[l].born = b

\* Each life is held or given in a birth of its own, of this daemon, and the lease of its record is
\* with a birth of it that runs.
Owned ==
  \A l \in Lives :
    /\ held[l] # NoLife => births[held[l].born].life = l /\ births[held[l].born].by = at
    /\ handed[l] # NoLife => births[handed[l].born].life = l
    /\ lease[l] # NONE => births[lease[l]].life = l /\ births[lease[l]].phase = "runs"
    /\ at = "handed" /\ handed[l] # NoLife => ~Active(handed[l].born) \/ handed[l].born \in givenUp

\* An engine goes on in the birth that holds its life, and in those that were given up.
Accounted ==
  \A b \in 1 .. Len(births) :
    /\ Active(b) => HoldsBirth(births[b].life, b) \/ GivenUp(births[b].life)
    /\ births[b].phase = "refused" => GivenUp(births[b].life)

\* What waits for the task: an end is told once it came, to the daemon that made the birth.
Waits ==
  /\ ~Serves => asks = <<>>
  /\ \A i \in 1 .. Len(asks) : asks[i].say = "ended" => Over(asks[i].birth) /\ births[asks[i].birth].by = at

BInv == IInv /\ Typed /\ Owned /\ Accounted /\ Waits /\ WindowsHear

-----------------------------------------------------------------------------
(* Births, as steps change them.                                            *)

\* The births are records of births, each of a life of the daemon.
LEMMA BirthTypes ==
  ASSUME Typed
  PROVE  /\ births \in Seq(BirthRecords) /\ Len(births) \in Nat /\ DOMAIN births = 1 .. Len(births)
         /\ \A b \in 1 .. Len(births) : births[b] \in BirthRecords /\ births[b].life \in Lives
<1>1. births \in Seq(BirthRecords) BY DEF Typed
<1>2. ASSUME NEW b \in 1 .. Len(births) PROVE births[b] \in BirthRecords
  BY <1>1, ElementOfSeq
<1>3. \A r \in BirthRecords : r.life \in Lives BY DEF BirthRecords
<1> QED BY <1>1, <1>2, <1>3

\* What Typed says of a life.
LEMMA HeldForm ==
  ASSUME Typed, NEW l \in Lives
  PROVE  /\ held[l] = NoLife \/ held[l] \in LivingForms(Len(births)) \/ held[l] \in EndingForms(Len(births))
         /\ Living(l) <=> held[l] \in LivingForms(Len(births))
         /\ EndingNow(l) <=> held[l] \in EndingForms(Len(births))
         /\ held[l] # NoLife => held[l].born \in 1 .. Len(births)
         /\ handed[l] = NoLife \/ handed[l] \in GivenForms(Len(births))
         /\ handed[l] # NoLife => handed[l].born \in 1 .. Len(births)
<1>1. held[l] \in HeldForms(Len(births)) /\ handed[l] \in {NoLife} \cup GivenForms(Len(births))
  BY DEF Typed
<1>2. held[l] = NoLife \/ held[l] \in LivingForms(Len(births)) \/ held[l] \in EndingForms(Len(births))
  BY <1>1 DEF HeldForms
<1>3. NoLife.stage = "none" BY DEF NoLife
<1>4. held[l] \in LivingForms(Len(births)) => held[l].stage = "living" /\ held[l].born \in 1 .. Len(births)
  BY DEF LivingForms
<1>5. held[l] \in EndingForms(Len(births)) => held[l].stage = "ending" /\ held[l].born \in 1 .. Len(births)
  BY DEF EndingForms
<1>6. handed[l] \in GivenForms(Len(births)) => handed[l].born \in 1 .. Len(births)
  BY DEF GivenForms
<1> QED BY <1>1, <1>2, <1>3, <1>4, <1>5, <1>6 DEF Living, EndingNow

\* More births make each form wider.
LEMMA FormsGrow ==
  ASSUME NEW m \in Nat, NEW n \in Nat, m <= n
  PROVE  /\ LivingForms(m) \subseteq LivingForms(n) /\ EndingForms(m) \subseteq EndingForms(n)
         /\ HeldForms(m) \subseteq HeldForms(n) /\ GivenForms(m) \subseteq GivenForms(n)
         /\ AskForms(m) \subseteq AskForms(n)
<1>1. 1 .. m \subseteq 1 .. n OBVIOUS
<1>2. LivingForms(m) \subseteq LivingForms(n) BY <1>1 DEF LivingForms
<1>3. EndingForms(m) \subseteq EndingForms(n) BY <1>1 DEF EndingForms
<1>4. GivenForms(m) \subseteq GivenForms(n) BY <1>1 DEF GivenForms
<1>5. AskForms(m) \subseteq AskForms(n) BY <1>1 DEF AskForms
<1> QED BY <1>2, <1>3, <1>4, <1>5 DEF HeldForms

-----------------------------------------------------------------------------
(* The calls of peers.                                                      *)

\* A step that only adds to what the task has to hear, and no end of a birth.
LEMMA CallKeeps ==
  ASSUME BInv, IInv', UNCHANGED <<at, held, tasks, handed, pinned, givenUp>>,
         verbs' \in 0 .. MaxVerbs, faults' = faults, peers' \in [Peers -> PeerForms],
         \/ asks' = asks
         \/ Serves /\ \E a \in AskForms(Len(births)) : a.say # "ended" /\ asks' = Append(asks, a)
  PROVE  BInv'
<1>1. Typed /\ Len(births) \in Nat /\ asks \in Seq(AskForms(Len(births))) /\ Len(asks) \in Nat
      /\ births' = births /\ lease' = lease /\ tellers' = tellers
  BY DEF BInv, Typed, tasks
<1>2. /\ asks' \in Seq(AskForms(Len(births))) /\ Len(asks) <= Len(asks') /\ Len(asks') \in Nat
      /\ \A i \in 1 .. Len(asks) : asks'[i] = asks[i]
      /\ \A i \in 1 .. Len(asks') : i \in 1 .. Len(asks) \/ asks'[i].say # "ended"
      /\ asks' = asks \/ Serves
  <2>1. CASE asks' = asks
    BY <1>1, <2>1
  <2>2. ASSUME Serves, NEW a \in AskForms(Len(births)), a.say # "ended", asks' = Append(asks, a) PROVE <1>2
    <3>1. /\ asks' \in Seq(AskForms(Len(births))) /\ Len(asks') = Len(asks) + 1 /\ asks'[Len(asks) + 1] = a
          /\ \A i \in 1 .. Len(asks) : asks'[i] = asks[i]
      BY <1>1, <2>2, AppendProperties
    <3> QED BY <1>1, <2>2, <3>1
  <2> QED BY <2>1, <2>2
<1>3. Typed'
  BY <1>1, <1>2 DEF Typed
<1>4. Owned' /\ Accounted'
  BY <1>1 DEF BInv, Owned, Accounted, Active, HoldsBirth, GivenUp
<1>5. Waits'
  <2>1. ~Serves' => asks' = <<>>
    BY <1>2 DEF BInv, Waits, Serves
  <2>2. ASSUME NEW i \in 1 .. Len(asks'), asks'[i].say = "ended"
        PROVE  births'[asks'[i].birth].phase \in {"over", "refused"} /\ births'[asks'[i].birth].by = at'
    <3>1. i \in 1 .. Len(asks) /\ asks'[i] = asks[i] BY <1>2, <2>2
    <3>2. Over(asks[i].birth) /\ births[asks[i].birth].by = at BY <2>2, <3>1 DEF BInv, Waits
    <3> QED BY <1>1, <3>1, <3>2 DEF Over
  <2> QED BY <2>1, <2>2 DEF Waits, Over
<1>6. WindowsHear'
  <2>1. ASSUME NEW x PROVE (\E i \in DOMAIN asks : asks[i] = x) => (\E i \in DOMAIN asks' : asks'[i] = x)
    BY <1>1, <1>2
  <2>2. WindowsHear /\ (\A l : Living(l)' <=> Living(l)) /\ (\A b : Over(b)' <=> Over(b))
    BY <1>1 DEF BInv, Living, Over
  <2> QED BY <1>1, <2>1, <2>2 DEF WindowsHear
<1> QED BY <1>3, <1>4, <1>5, <1>6 DEF BInv

LEMMA CallsKeep ==
  ASSUME BInv, (\E p \in Peers : Dial(p) \/ Verb(p) \/ Goes(p)) \/ Upgrade, IInv'
  PROVE  BInv'
<1>1. Typed /\ peers \in [Peers -> PeerForms] /\ verbs \in 0 .. MaxVerbs /\ MaxVerbs \in Nat
  BY DaemonAssumption DEF BInv, Typed
<1>2. ASSUME NEW p \in Peers, Dial(p) PROVE BInv'
  <2>1. peers' \in [Peers -> PeerForms] BY <1>1, <1>2 DEF Dial, PeerForms, Serves
  <2> QED BY <1>1, <1>2, <2>1, CallKeeps DEF Dial, counts
<1>3. ASSUME NEW p \in Peers, Verb(p) PROVE BInv'
  <2>1. PICK l \in Lives, say \in Says, with \in Pins \cup {NONE}, attach \in BOOLEAN :
          /\ (say \in {"pin", "unpin"}) <=> (with # NONE)
          /\ asks' = Append(asks, [say |-> say, life |-> l, from |-> p, with |-> with, attach |-> attach])
          /\ peers' = [peers EXCEPT ![p].verb = say]
    BY <1>3 DEF Verb
  <2>2. peers' \in [Peers -> PeerForms] BY <1>1, <2>1 DEF PeerForms
  <2> DEFINE a == [say |-> say, life |-> l, from |-> p, with |-> with, attach |-> attach]
  <2>3. a \in AskForms(Len(births)) /\ a.say # "ended"
    BY <2>1 DEF AskForms, VerbForms, Says
  <2>4. verbs' \in 0 .. MaxVerbs /\ faults' = faults /\ Serves
    BY <1>1, <1>3 DEF Verb
  <2>5. UNCHANGED <<at, held, tasks, handed, pinned, givenUp>>
    BY <1>3 DEF Verb
  <2> HIDE DEF a
  <2> QED BY <2>1, <2>2, <2>3, <2>4, <2>5, CallKeeps DEF a
<1>4. ASSUME NEW p \in Peers, Goes(p) PROVE BInv'
  <2>1. peers' \in [Peers -> PeerForms] BY <1>1, <1>4 DEF Goes, PeerForms
  <2> QED BY <1>1, <1>4, <2>1, CallKeeps DEF Goes, counts
<1>5. CASE Upgrade
  <2>1. [say |-> "handover"] \in AskForms(Len(births)) /\ [say |-> "handover"].say # "ended"
    BY DEF AskForms
  <2>2. Serves BY <1>5 DEF Upgrade, Serves
  <2> QED BY <1>1, <1>5, <2>1, <2>2, CallKeeps DEF Upgrade, counts
<1> QED BY <1>2, <1>3, <1>4, <1>5

-----------------------------------------------------------------------------
(* The thread of a birth, its watch and its tellers.                        *)

\* One more thing for the task to hear, or none.
LEMMA MoreAsks ==
  ASSUME Typed, Waits, NEW a \in AskForms(Len(births)), NEW s,
         s = asks \/ (Serves /\ s = Append(asks, a))
  PROVE  /\ s \in Seq(AskForms(Len(births))) /\ (~Serves => s = <<>>) /\ Len(s) \in Nat
         /\ \A i \in 1 .. Len(s) : s[i] = a \/ \E j \in 1 .. Len(asks) : s[i] = asks[j]
         /\ \A i \in 1 .. Len(asks) : i \in 1 .. Len(s) /\ s[i] = asks[i]
         /\ s # asks => Len(s) \in 1 .. Len(s) /\ s[Len(s)] = a
<1>1. asks \in Seq(AskForms(Len(births))) /\ Len(asks) \in Nat
  BY DEF Typed
<1>2. CASE s = asks
  BY <1>1, <1>2 DEF Waits
<1>3. CASE Serves /\ s = Append(asks, a)
  <2>1. /\ s \in Seq(AskForms(Len(births))) /\ Len(s) = Len(asks) + 1 /\ s[Len(asks) + 1] = a
        /\ \A i \in 1 .. Len(asks) : s[i] = asks[i]
    BY <1>1, <1>3, AppendProperties
  <2>2. \A i \in 1 .. Len(s) : i \in 1 .. Len(asks) \/ i = Len(asks) + 1
    BY <1>1, <2>1
  <2> QED BY <1>1, <1>3, <2>1, <2>2
<1> QED BY <1>2, <1>3

\* A birth that moves on, and what its watch tells the daemon.
LEMMA MoveKeeps ==
  ASSUME BInv, IInv', UNCHANGED <<at, held, tellers, peers, handed, pinned, givenUp, verbs>>,
         faults' \in 0 .. MaxFaults,
         NEW b \in 1 .. Len(births), NEW r \in BirthRecords, births' = [births EXCEPT ![b] = r],
         r.life = births[b].life, r.by = births[b].by,
         Over(b) => r.phase \in {"over", "refused"},
         r.phase \in {"opens", "runs"} => Active(b),
         r.phase = "refused" => births[b].phase = "refused" \/ GivenUp(r.life),
         lease' \in [Lives -> {NONE} \cup 1 .. Len(births)],
         \A l \in Lives : lease'[l] # NONE => births'[lease'[l]].life = l /\ births'[lease'[l]].phase = "runs",
         \/ asks' = asks
         \/ /\ Serves /\ asks' = Append(asks, [say |-> "ended", birth |-> b])
            /\ r.phase \in {"over", "refused"} /\ r.by = at
  PROVE  BInv'
<1>1. Typed /\ Waits /\ Owned /\ Accounted /\ WindowsHear
  BY DEF BInv
<1>2. /\ births' \in Seq(BirthRecords) /\ Len(births') = Len(births) /\ births'[b] = r
      /\ \A c \in 1 .. Len(births) : (c # b => births'[c] = births[c]) /\ births'[c].life = births[c].life
                                     /\ births'[c].by = births[c].by
  <2> DEFINE s == [births EXCEPT ![b] = r]
  <2>1. /\ s \in Seq(BirthRecords) /\ Len(s) = Len(births) /\ s[b] = r
        /\ \A c \in 1 .. Len(births) : (c # b => s[c] = births[c]) /\ s[c].life = births[c].life
                                       /\ s[c].by = births[c].by
    BY <1>1, BirthTypes, ExceptSeq
  <2>2. births' = s OBVIOUS
  <2> HIDE DEF s
  <2> QED BY <2>1, <2>2
<1> DEFINE a == [say |-> "ended", birth |-> b]
<1>3. /\ asks' \in Seq(AskForms(Len(births))) /\ (~Serves => asks' = <<>>) /\ Len(asks') \in Nat
      /\ \A i \in 1 .. Len(asks') : asks'[i] = a \/ \E j \in 1 .. Len(asks) : asks'[i] = asks[j]
      /\ \A i \in 1 .. Len(asks) : i \in 1 .. Len(asks') /\ asks'[i] = asks[i]
      /\ asks' # asks => r.phase \in {"over", "refused"} /\ r.by = at
  <2>1. a \in AskForms(Len(births)) BY DEF AskForms
  <2>2. asks' = asks \/ (Serves /\ asks' = Append(asks, a)) OBVIOUS
  <2> HIDE DEF a
  <2> QED BY <1>1, <2>1, <2>2, MoreAsks
<1>4. Typed'
  BY <1>1, <1>2, <1>3 DEF Typed
<1>5. /\ \A c \in 1 .. Len(births) : births[c].phase \in {"over", "refused"} => births'[c].phase \in {"over", "refused"}
      /\ \A c \in 1 .. Len(births) : births'[c].phase \in {"opens", "runs"} => Active(c)
  BY <1>2 DEF Over, Active
<1>6. Owned'
  <2> SUFFICES ASSUME NEW l \in Lives
               PROVE  /\ held'[l] # NoLife => births'[held'[l].born].life = l /\ births'[held'[l].born].by = at'
                      /\ handed'[l] # NoLife => births'[handed'[l].born].life = l
                      /\ lease'[l] # NONE => births'[lease'[l]].life = l /\ births'[lease'[l]].phase = "runs"
                      /\ at' = "handed" /\ handed'[l] # NoLife =>
                           ~(births'[handed'[l].born].phase \in {"opens", "runs"}) \/ handed'[l].born \in givenUp'
    BY DEF Owned, Active
  <2>1. /\ held[l] # NoLife => held[l].born \in 1 .. Len(births)
        /\ handed[l] # NoLife => handed[l].born \in 1 .. Len(births)
    BY <1>1, HeldForm
  <2> QED BY <1>1, <1>2, <1>5, <2>1 DEF Owned
<1>7. Accounted'
  <2> SUFFICES ASSUME NEW c \in 1 .. Len(births)
               PROVE  /\ births'[c].phase \in {"opens", "runs"} =>
                           HoldsBirth(births[c].life, c) \/ GivenUp(births[c].life)
                      /\ births'[c].phase = "refused" => GivenUp(births[c].life)
    <3>1. ASSUME NEW l PROVE GivenUp(l) => GivenUp(l)'
      <4>1. givenUp \subseteq 1 .. Len(births) BY <1>1 DEF Typed
      <4> QED BY <1>2, <4>1 DEF GivenUp
    <3>2. ASSUME NEW l, NEW d PROVE HoldsBirth(l, d)' <=> HoldsBirth(l, d)
      BY DEF HoldsBirth
    <3> QED BY <1>2, <3>1, <3>2 DEF Accounted, Active
  <2>1. births'[c].phase \in {"opens", "runs"} => Active(c) BY <1>5
  <2>2. births'[c].phase = "refused" => births[c].phase = "refused" \/ GivenUp(births[c].life)
    BY <1>2
  <2> QED BY <1>1, <2>1, <2>2 DEF Accounted
<1>8. Waits'
  <2>1. ASSUME NEW i \in 1 .. Len(asks'), asks'[i].say = "ended"
        PROVE  births'[asks'[i].birth].phase \in {"over", "refused"} /\ births'[asks'[i].birth].by = at
    <3>1. CASE asks'[i] = a /\ asks' # asks
      BY <1>2, <1>3, <3>1
    <3>2. ASSUME NEW j \in 1 .. Len(asks), asks'[i] = asks[j]
          PROVE  births'[asks'[i].birth].phase \in {"over", "refused"} /\ births'[asks'[i].birth].by = at
      <4>1. asks[j] \in AskForms(Len(births)) BY <1>1, ElementOfSeq DEF Typed
      <4>2. asks[j].say = "ended" BY <2>1, <3>2
      <4>3. Over(asks[j].birth) /\ births[asks[j].birth].by = at BY <1>1, <4>2 DEF Waits
      <4>4. asks[j].birth \in 1 .. Len(births) BY <4>1, <4>2 DEF AskForms, VerbForms, Says
      <4>5. births[asks[j].birth].phase \in {"over", "refused"} BY <4>3 DEF Over
      <4> QED BY <1>2, <1>5, <3>2, <4>3, <4>4, <4>5
    <3>3. asks' = asks => \E j \in 1 .. Len(asks) : asks'[i] = asks[j] BY <2>1
    <3> QED BY <1>3, <3>1, <3>2, <3>3
  <2> QED BY <1>3, <2>1 DEF Waits, Over, Serves
<1>9. WindowsHear'
  <2>1. ASSUME NEW x PROVE (\E i \in DOMAIN asks : asks[i] = x) => (\E i \in DOMAIN asks' : asks'[i] = x)
    BY <1>1, <1>3 DEF Typed
  <2>2. ASSUME NEW l \in Lives, Living(l)' PROVE \A p \in held'[l].windows :
          \/ <<held'[l].born, p>> \in tellers' \/ births'[held'[l].born].phase \in {"over", "refused"}
          \/ \E i \in DOMAIN asks' : asks'[i] = [say |-> "left", life |-> l, from |-> p]
    <3>1. Living(l) /\ held[l].born \in 1 .. Len(births)
      <4>1. Living(l) BY <2>2 DEF Living
      <4>2. held[l] # NoLife BY <4>1 DEF Living, NoLife
      <4> QED BY <1>1, <4>1, <4>2, HeldForm
    <3> TAKE p \in held'[l].windows
    <3>2. \/ <<held[l].born, p>> \in tellers \/ births[held[l].born].phase \in {"over", "refused"}
          \/ \E i \in DOMAIN asks : asks[i] = [say |-> "left", life |-> l, from |-> p]
      BY <1>1, <3>1 DEF WindowsHear, Over
    <3> QED BY <1>5, <2>1, <3>1, <3>2
  <2>3. ASSUME NEW t \in tellers
        PROVE  LET l == births'[t[1]].life IN
               births'[t[1]].phase \in {"over", "refused"}
                 \/ (held[l].stage = "living" /\ held[l].born = t[1] /\ t[2] \in held[l].windows)
    <3>1. t[1] \in 1 .. Len(births) BY <1>1 DEF Typed
    <3> QED BY <1>1, <1>2, <1>5, <3>1 DEF WindowsHear, Over, Living
  <2> QED BY <2>2, <2>3 DEF WindowsHear, Over, Living
<1> QED BY <1>4, <1>6, <1>7, <1>8, <1>9 DEF BInv

\* A birth in another phase.
LEMMA PhaseTypes ==
  ASSUME NEW x \in BirthRecords, NEW phase \in Phases
  PROVE  LET r == [x EXCEPT !.phase = phase]
         IN  r \in BirthRecords /\ r.life = x.life /\ r.by = x.by /\ r.phase = phase
BY DEF BirthRecords

LEMMA OpeningKeeps == ASSUME BInv, IInv', NEW b \in DOMAIN births, Opening(b) PROVE BInv'
<1> DEFINE l == births[b].life
<1>1. Typed /\ Owned /\ Accounted /\ b \in 1 .. Len(births) /\ births[b] \in BirthRecords /\ l \in Lives
  BY BirthTypes DEF BInv
<1>2. /\ births[b].phase = "opens" /\ UNCHANGED <<at, held, asks, tellers, peers, handed, pinned, givenUp, verbs, faults>>
      /\ IF lease[l] = NONE THEN births' = [births EXCEPT ![b].phase = "runs"] /\ lease' = [lease EXCEPT ![l] = b]
         ELSE births' = [births EXCEPT ![b].phase = "refused"] /\ lease' = lease
  BY DEF Opening, Moves, counts
<1>3. faults' \in 0 .. MaxFaults /\ lease \in [Lives -> {NONE} \cup 1 .. Len(births)]
  BY <1>1, <1>2 DEF Typed
<1>4. \A k \in Lives : lease[k] # NONE => /\ lease[k] \in 1 .. Len(births) /\ lease[k] # b
                                         /\ births[lease[k]].life = k /\ births[lease[k]].phase = "runs"
  BY <1>1, <1>2, <1>3 DEF Owned
<1>5. CASE lease[l] = NONE
  <2> DEFINE r == [births[b] EXCEPT !.phase = "runs"]
  <2>1. r \in BirthRecords /\ r.life = l /\ r.by = births[b].by /\ r.phase = "runs"
    BY <1>1, PhaseTypes DEF Phases
  <2>2. births' = [births EXCEPT ![b] = r] BY <1>2, <1>5
  <2> HIDE DEF r
  <2>3. lease' \in [Lives -> {NONE} \cup 1 .. Len(births)] BY <1>1, <1>2, <1>3, <1>5
  <2>4. \A k \in Lives : lease'[k] # NONE => births'[lease'[k]].life = k /\ births'[lease'[k]].phase = "runs"
    <3> SUFFICES ASSUME NEW k \in Lives, lease'[k] # NONE
                 PROVE  births'[lease'[k]].life = k /\ births'[lease'[k]].phase = "runs"
      OBVIOUS
    <3>1. CASE k = l
      <4>1. lease'[k] = b BY <1>1, <1>2, <1>3, <1>5, <3>1
      <4>2. births'[b] = r BY <1>1, <2>2, BirthTypes
      <4> QED BY <2>1, <3>1, <4>1, <4>2
    <3>2. CASE k # l
      <4>1. lease'[k] = lease[k] BY <1>1, <1>2, <1>3, <1>5, <3>2
      <4>2. births'[lease[k]] = births[lease[k]] BY <1>1, <1>4, <2>2, <4>1, BirthTypes
      <4> QED BY <1>4, <4>1, <4>2
    <3> QED BY <3>1, <3>2
  <2> QED BY <1>1, <1>2, <1>3, <2>1, <2>2, <2>3, <2>4, MoveKeeps DEF Over, Active
<1>6. CASE lease[l] # NONE
  <2> DEFINE r == [births[b] EXCEPT !.phase = "refused"]
  <2>1. r \in BirthRecords /\ r.life = l /\ r.by = births[b].by /\ r.phase = "refused"
    BY <1>1, PhaseTypes DEF Phases
  <2>2. births' = [births EXCEPT ![b] = r] /\ lease' = lease BY <1>2, <1>6
  <2> HIDE DEF r
  <2>3. \A k \in Lives : lease'[k] # NONE => births'[lease'[k]].life = k /\ births'[lease'[k]].phase = "runs"
    <3> SUFFICES ASSUME NEW k \in Lives, lease[k] # NONE
                 PROVE  births'[lease[k]].life = k /\ births'[lease[k]].phase = "runs"
      BY <2>2
    <3>1. births'[lease[k]] = births[lease[k]] BY <1>1, <1>4, <2>2, BirthTypes
    <3> QED BY <1>4, <3>1
  \* Two births of the life are active, so one of them was given up.
  <2>4. GivenUp(l)
    <3>1. lease[l] \in 1 .. Len(births) /\ lease[l] # b /\ births[lease[l]].life = l /\ Active(lease[l]) /\ Active(b)
      BY <1>1, <1>2, <1>4, <1>6 DEF Active
    <3>2. HoldsBirth(l, b) \/ GivenUp(l) BY <1>1, <3>1 DEF Accounted
    <3>3. HoldsBirth(l, lease[l]) \/ GivenUp(l) BY <1>1, <3>1 DEF Accounted
    <3>4. held[l] = NoLife \/ handed[l] = NoLife BY <1>1 DEF BInv, IInv
    <3> QED BY <3>1, <3>2, <3>3, <3>4 DEF HoldsBirth
  <2> QED BY <1>1, <1>2, <1>3, <2>1, <2>2, <2>3, <2>4, MoveKeeps DEF Over, Active
<1> QED BY <1>5, <1>6

\* The engine of a birth is dropped.
LEMMA DropKeeps ==
  ASSUME BInv, IInv', NEW b \in DOMAIN births, Drops(b), births[b].phase \in {"opens", "runs"},
         faults' \in 0 .. MaxFaults
  PROVE  BInv'
<1>1. Typed /\ Owned /\ b \in 1 .. Len(births) /\ births[b] \in BirthRecords
  BY BirthTypes DEF BInv
<1>2. /\ UNCHANGED <<at, held, asks, tellers, peers, handed, pinned, givenUp, verbs>>
      /\ births' = [births EXCEPT ![b].phase = "closing"]
      /\ lease' = [l \in Lives |-> IF lease[l] = b THEN NONE ELSE lease[l]]
  BY DEF Drops, Moves
<1>3. lease \in [Lives -> {NONE} \cup 1 .. Len(births)] /\ lease' \in [Lives -> {NONE} \cup 1 .. Len(births)]
  BY <1>1, <1>2 DEF Typed
<1> DEFINE r == [births[b] EXCEPT !.phase = "closing"]
<1>4. r \in BirthRecords /\ r.life = births[b].life /\ r.by = births[b].by /\ r.phase = "closing"
  BY <1>1, PhaseTypes DEF Phases
<1>5. births' = [births EXCEPT ![b] = r] BY <1>2
<1> HIDE DEF r
<1>6. \A k \in Lives : lease'[k] # NONE => births'[lease'[k]].life = k /\ births'[lease'[k]].phase = "runs"
  <2> SUFFICES ASSUME NEW k \in Lives, lease'[k] # NONE
               PROVE  births'[lease'[k]].life = k /\ births'[lease'[k]].phase = "runs"
    OBVIOUS
  <2>1. lease'[k] = lease[k] /\ lease[k] # b /\ lease[k] \in 1 .. Len(births) BY <1>2, <1>3
  <2>2. births'[lease[k]] = births[lease[k]] BY <1>1, <1>5, <2>1, BirthTypes
  <2> QED BY <1>1, <2>1, <2>2 DEF Owned
<1>7. ~Over(b) /\ r.phase \notin {"opens", "runs", "refused"} BY <1>4 DEF Over
<1>8. UNCHANGED <<at, held, tellers, peers, handed, pinned, givenUp, verbs>> /\ asks' = asks BY <1>2
<1>9. lease' \in [Lives -> {NONE} \cup 1 .. Len(births)] BY <1>3
<1> QED BY <1>1, <1>4, <1>5, <1>6, <1>7, <1>8, <1>9, MoveKeeps

\* A thread tells the end, or its watch tells the daemon.
LEMMA EndKeeps ==
  ASSUME BInv, IInv', NEW b \in DOMAIN births, TellsEnd(b) \/ Watches(b)
  PROVE  BInv'
<1>1. Typed /\ Owned /\ b \in 1 .. Len(births) /\ births[b] \in BirthRecords /\ faults \in 0 .. MaxFaults
      /\ lease \in [Lives -> {NONE} \cup 1 .. Len(births)]
  BY BirthTypes DEF BInv, Typed
<1>2. ASSUME NEW r \in BirthRecords, births' = [births EXCEPT ![b] = r], lease' = lease, births[b].phase # "runs",
             r.life = births[b].life
      PROVE  \A k \in Lives : lease'[k] # NONE => births'[lease'[k]].life = k /\ births'[lease'[k]].phase = "runs"
  <2> SUFFICES ASSUME NEW k \in Lives, lease[k] # NONE
               PROVE  births'[lease[k]].life = k /\ births'[lease[k]].phase = "runs"
    BY <1>2
  <2>1. lease[k] # b /\ lease[k] \in 1 .. Len(births) BY <1>1, <1>2 DEF Owned
  <2>2. births'[lease[k]] = births[lease[k]] BY <1>1, <1>2, <2>1, BirthTypes
  <2> QED BY <1>1, <2>1, <2>2 DEF Owned
<1>3. CASE TellsEnd(b)
  <2> DEFINE r == [births[b] EXCEPT !.phase = "over"]
  <2>1. r \in BirthRecords /\ r.life = births[b].life /\ r.by = births[b].by /\ r.phase = "over"
    BY <1>1, PhaseTypes DEF Phases
  <2>2. /\ births' = [births EXCEPT ![b] = r] /\ births[b].phase = "closing"
        /\ UNCHANGED <<at, held, asks, lease, tellers, peers, handed, pinned, givenUp, verbs, faults>>
    BY <1>3 DEF TellsEnd, Moves, counts
  <2> HIDE DEF r
  <2>3. \A k \in Lives : lease'[k] # NONE => births'[lease'[k]].life = k /\ births'[lease'[k]].phase = "runs"
    BY <1>2, <2>1, <2>2
  <2> QED BY <1>1, <2>1, <2>2, <2>3, MoveKeeps DEF Over
<1>4. CASE Watches(b)
  <2> DEFINE r == [births[b] EXCEPT !.told = TRUE]
  <2>1. r \in BirthRecords /\ r.life = births[b].life /\ r.by = births[b].by /\ r.phase = births[b].phase
    BY <1>1 DEF BirthRecords
  <2>2. /\ births' = [births EXCEPT ![b] = r] /\ births[b].phase \in {"over", "refused"}
        /\ asks' = IF births[b].by = at THEN Append(asks, [say |-> "ended", birth |-> b]) ELSE asks
        /\ UNCHANGED <<at, held, lease, tellers, peers, handed, pinned, givenUp, verbs, faults>>
    BY <1>4 DEF Watches, Sends, Over, counts
  <2> HIDE DEF r
  <2>3. \A k \in Lives : lease'[k] # NONE => births'[lease'[k]].life = k /\ births'[lease'[k]].phase = "runs"
    BY <1>2, <2>1, <2>2
  <2>4. births[b].by = at => Serves BY <1>1 DEF BirthRecords, Serves
  <2>5. CASE births[b].by = at
    <3>1. asks' = Append(asks, [say |-> "ended", birth |-> b]) /\ Serves BY <2>2, <2>4, <2>5
    <3>2. /\ r.phase \in {"over", "refused"} /\ r.phase \notin {"opens", "runs"} /\ r.by = at
          /\ r.phase = "refused" => births[b].phase = "refused"
      BY <2>1, <2>2, <2>5
    <3>3. lease' \in [Lives -> {NONE} \cup 1 .. Len(births)] /\ faults' \in 0 .. MaxFaults BY <1>1, <2>2
    <3> QED BY <1>1, <2>1, <2>2, <2>3, <3>1, <3>2, <3>3, MoveKeeps
  <2>6. CASE births[b].by # at
    BY <1>1, <2>1, <2>2, <2>3, <2>6, MoveKeeps DEF Over
  <2> QED BY <2>5, <2>6
<1> QED BY <1>3, <1>4

\* A step after which the births, the lives and the leases are as they were.
LEMMA BirthsStay ==
  ASSUME BInv, UNCHANGED <<at, held, births, lease, handed, givenUp>>
  PROVE  Owned' /\ Accounted'
BY DEF BInv, Owned, Accounted, Active, HoldsBirth, GivenUp

\* A teller that finds its peer gone tells the daemon, and one that told the end just goes.
LEMMA TellerKeeps ==
  ASSUME BInv, IInv', NEW b \in DOMAIN births, NEW p \in Peers, TellerLeaves(b, p) \/ TellerDone(b, p)
  PROVE  BInv'
<1>1. Typed /\ Waits /\ WindowsHear /\ b \in 1 .. Len(births) /\ births[b] \in BirthRecords
      /\ asks \in Seq(AskForms(Len(births)))
  BY BirthTypes DEF BInv, Typed
<1> DEFINE a == [say |-> "left", life |-> births[b].life, from |-> p]
<1>2. /\ UNCHANGED <<at, held, births, lease, peers, handed, pinned, givenUp, verbs, faults>>
      /\ tellers' = tellers \ {<<b, p>>}
      /\ Over(b) \/ asks' = IF births[b].by = at THEN Append(asks, a) ELSE asks
      /\ asks' = asks \/ asks' = IF births[b].by = at THEN Append(asks, a) ELSE asks
  BY DEF TellerLeaves, TellerDone, Sends, counts
<1>3. a \in AskForms(Len(births)) /\ a.say # "ended" BY <1>1 DEF AskForms, BirthRecords
<1>4. births[b].by = at => Serves BY <1>1 DEF BirthRecords, Serves
<1>5. asks' = asks \/ (Serves /\ asks' = Append(asks, a)) BY <1>2, <1>4
<1> HIDE DEF a
<1>6. /\ asks' \in Seq(AskForms(Len(births))) /\ (~Serves => asks' = <<>>) /\ Len(asks') \in Nat
      /\ \A i \in 1 .. Len(asks') : asks'[i] = a \/ \E j \in 1 .. Len(asks) : asks'[i] = asks[j]
      /\ \A i \in 1 .. Len(asks) : i \in 1 .. Len(asks') /\ asks'[i] = asks[i]
      /\ asks' # asks => Len(asks') \in 1 .. Len(asks') /\ asks'[Len(asks')] = a
  BY <1>1, <1>3, <1>5, MoreAsks
<1>7. Typed'
  BY <1>1, <1>2, <1>6 DEF Typed
<1>8. Owned' /\ Accounted'
  BY <1>2, BirthsStay
<1>9. Waits'
  <2> SUFFICES ASSUME NEW i \in 1 .. Len(asks'), asks'[i].say = "ended"
               PROVE  births[asks'[i].birth].phase \in {"over", "refused"} /\ births[asks'[i].birth].by = at
    BY <1>2, <1>6 DEF Waits, Over, Serves
  <2>1. PICK j \in 1 .. Len(asks) : asks'[i] = asks[j] BY <1>3, <1>6
  <2> QED BY <1>1, <2>1 DEF Waits, Over
<1>10. WindowsHear'
  <2>1. \A x : (\E i \in 1 .. Len(asks) : asks[i] = x) => (\E i \in 1 .. Len(asks') : asks'[i] = x)
    BY <1>6
  <2>2. ASSUME NEW l \in Lives, Living(l), NEW q \in held[l].windows
        PROVE  \/ <<held[l].born, q>> \in tellers' \/ Over(held[l].born)
               \/ \E i \in 1 .. Len(asks') : asks'[i] = [say |-> "left", life |-> l, from |-> q]
    <3>1. \/ <<held[l].born, q>> \in tellers \/ Over(held[l].born)
          \/ \E i \in 1 .. Len(asks) : asks[i] = [say |-> "left", life |-> l, from |-> q]
      BY <1>1, <2>2 DEF WindowsHear
    <3>2. CASE <<held[l].born, q>> = <<b, p>> /\ ~Over(b)
      <4>1. held[l].born = b /\ q = p BY <3>2
      <4>2. held[l] # NoLife BY <2>2 DEF Living, NoLife
      <4>3. births[b].life = l /\ births[b].by = at BY <4>1, <4>2 DEF BInv, Owned
      <4>4. asks' = Append(asks, a) /\ asks' # asks
        <5>1. asks' = Append(asks, a) BY <1>2, <3>2, <4>3
        <5>2. Len(Append(asks, a)) = Len(asks) + 1 /\ Len(asks) \in Nat BY <1>1
        <5> QED BY <5>1, <5>2
      <4>5. a = [say |-> "left", life |-> l, from |-> q] BY <4>1, <4>3 DEF a
      <4> QED BY <1>6, <4>4, <4>5
    <3>3. CASE <<held[l].born, q>> # <<b, p>>
      BY <1>2, <2>1, <3>1, <3>3
    <3>4. CASE <<held[l].born, q>> = <<b, p>> /\ Over(b)
      BY <3>4
    <3> QED BY <3>2, <3>3, <3>4
  <2>3. \A t \in tellers' : t \in tellers BY <1>2
  <2>4. DOMAIN asks' = 1 .. Len(asks') BY <1>6
  <2>5. births' = births /\ held' = held BY <1>2
  <2>6. \A t \in tellers : Over(t[1]) \/ (Living(births[t[1]].life) /\ held[births[t[1]].life].born = t[1]
                                            /\ t[2] \in held[births[t[1]].life].windows)
    BY <1>1 DEF WindowsHear
  <2> QED BY <2>2, <2>3, <2>4, <2>5, <2>6 DEF WindowsHear, Over, Living
<1> QED BY <1>7, <1>8, <1>9, <1>10 DEF BInv

-----------------------------------------------------------------------------
(* The grace and the handover.                                              *)

\* The births that are told to end are in the phase they were.
LEMMA AskedTypes ==
  ASSUME Typed, NEW bs, Asked(bs)
  PROVE  /\ births' \in Seq(BirthRecords) /\ Len(births') = Len(births)
         /\ \A b \in 1 .. Len(births) : births'[b].phase = births[b].phase /\ births'[b].life = births[b].life
                                        /\ births'[b].by = births[b].by
<1>1. /\ births \in Seq(BirthRecords) /\ DOMAIN births = 1 .. Len(births) /\ Len(births) \in Nat
      /\ \A b \in 1 .. Len(births) : births[b] \in BirthRecords
  BY BirthTypes
<1> DEFINE g(b) == IF b \in bs THEN [births[b] EXCEPT !.asked = TRUE] ELSE births[b]
<1>2. births' = [b \in 1 .. Len(births) |-> g(b)] BY <1>1 DEF Asked
<1>3. \A b \in 1 .. Len(births) : g(b) \in BirthRecords /\ g(b).phase = births[b].phase
                                  /\ g(b).life = births[b].life /\ g(b).by = births[b].by
  BY <1>1 DEF BirthRecords
<1> HIDE DEF g
<1>4. births' \in Seq(BirthRecords) /\ Len(births') = Len(births)
  BY <1>1, <1>2, <1>3, IsASeq
<1> QED BY <1>2, <1>3, <1>4

\* The lives whose grace passed have no window, and so no teller that still tells.
LEMMA ExpireTells == ASSUME BInv, IInv', Expire PROVE BInv'
<1>1. Typed /\ Owned /\ Accounted /\ Waits /\ WindowsHear /\ Serves /\ IInv
  BY DEF BInv, Expire
<1>2. PICK due \in SUBSET {l \in Lives : Living(l) /\ held[l].idle = "grace"} :
       /\ held' = [l \in Lives |->
                     IF l \in due THEN [stage |-> "ending", born |-> held[l].born, waiting |-> <<>>] ELSE held[l]]
       /\ Asked({held[l].born : l \in due})
  BY DEF Expire
<1>3. UNCHANGED <<at, asks, lease, tellers, peers, handed, pinned, givenUp, verbs, faults>>
  BY DEF Expire, counts
<1>4. /\ births' \in Seq(BirthRecords) /\ Len(births') = Len(births)
      /\ \A b \in 1 .. Len(births) : births'[b].phase = births[b].phase /\ births'[b].life = births[b].life
                                     /\ births'[b].by = births[b].by
  BY <1>1, <1>2, AskedTypes
<1>5. ASSUME NEW l \in Lives
      PROVE  /\ held'[l] \in HeldForms(Len(births))
             /\ held[l] # NoLife <=> held'[l] # NoLife
             /\ held[l] # NoLife => held'[l].born = held[l].born /\ held[l].born \in 1 .. Len(births)
             /\ held'[l].stage = "living" => l \notin due /\ held'[l] = held[l]
             /\ l \in due => held[l].windows = {}
  <2>1. CASE l \in due
    <3>1. Living(l) /\ held[l].idle = "grace" BY <2>1
    <3>2. held[l] \in LivingForms(Len(births)) /\ held[l] # NoLife BY <1>1, <3>1, HeldForm DEF Living, NoLife
    <3>3. held'[l] = [stage |-> "ending", born |-> held[l].born, waiting |-> <<>>] BY <1>2, <2>1
    <3>4. held[l].born \in 1 .. Len(births) /\ <<>> \in Seq(Opens) BY <3>2 DEF LivingForms
    <3>5. held'[l] \in EndingForms(Len(births)) /\ held'[l] # NoLife /\ held'[l].born = held[l].born
          /\ held'[l].stage = "ending"
      BY <3>3, <3>4 DEF EndingForms, NoLife
    <3>6. held[l].windows = {} BY <1>1, <3>1 DEF IInv, Settled, Living
    <3> QED BY <3>2, <3>4, <3>5, <3>6 DEF HeldForms
  <2>2. CASE l \notin due
    <3>1. held'[l] = held[l] BY <1>2, <2>2
    <3> QED BY <1>1, <2>2, <3>1, HeldForm DEF Typed
  <2> QED BY <2>1, <2>2
<1>6. Typed'
  <2>1. held' \in [Lives -> HeldForms(Len(births'))] BY <1>2, <1>4, <1>5
  <2> QED BY <1>1, <1>3, <1>4, <2>1 DEF Typed
<1>7. Owned'
  <2> SUFFICES ASSUME NEW l \in Lives
               PROVE  /\ held'[l] # NoLife => births'[held'[l].born].life = l /\ births'[held'[l].born].by = at
                      /\ handed[l] # NoLife => births'[handed[l].born].life = l
                      /\ lease[l] # NONE => births'[lease[l]].life = l /\ births'[lease[l]].phase = "runs"
                      /\ at = "handed" /\ handed[l] # NoLife =>
                           ~(births'[handed[l].born].phase \in {"opens", "runs"}) \/ handed[l].born \in givenUp
    BY <1>3 DEF Owned, Active
  <2>1. handed[l] # NoLife => handed[l].born \in 1 .. Len(births) BY <1>1, HeldForm
  <2>2. lease[l] # NONE => lease[l] \in 1 .. Len(births) BY <1>1 DEF Typed
  <2> QED BY <1>1, <1>4, <1>5, <2>1, <2>2 DEF Owned, Active
<1>8. Accounted'
  <2>1. ASSUME NEW l \in Lives PROVE GivenUp(l) => GivenUp(l)'
    <3>1. givenUp \subseteq 1 .. Len(births) BY <1>1 DEF Typed
    <3> QED BY <1>3, <1>4, <3>1 DEF GivenUp
  <2>2. ASSUME NEW l \in Lives, NEW b PROVE HoldsBirth(l, b) => HoldsBirth(l, b)'
    BY <1>3, <1>5 DEF HoldsBirth
  <2>3. \A b \in 1 .. Len(births) : births[b].life \in Lives BY <1>1, BirthTypes
  <2> QED BY <1>1, <1>4, <2>1, <2>2, <2>3 DEF Accounted, Active
<1>9. Waits'
  <2> SUFFICES ASSUME NEW i \in 1 .. Len(asks), asks[i].say = "ended"
               PROVE  births'[asks[i].birth].phase \in {"over", "refused"} /\ births'[asks[i].birth].by = at
    BY <1>1, <1>3 DEF Waits, Over, Serves
  <2>1. asks[i].birth \in 1 .. Len(births)
    <3>1. asks[i] \in AskForms(Len(births)) BY <1>1, ElementOfSeq DEF Typed
    <3> QED BY <3>1 DEF AskForms, VerbForms, Says
  <2> QED BY <1>1, <1>4, <2>1 DEF Waits, Over
<1>10. WindowsHear'
  <2>1. ASSUME NEW l \in Lives, held'[l].stage = "living", NEW p \in held'[l].windows
        PROVE  \/ <<held'[l].born, p>> \in tellers \/ births'[held'[l].born].phase \in {"over", "refused"}
               \/ \E i \in DOMAIN asks : asks[i] = [say |-> "left", life |-> l, from |-> p]
    <3>1. Living(l) /\ held'[l] = held[l] /\ held[l] # NoLife /\ held[l].born \in 1 .. Len(births)
      BY <1>5, <2>1 DEF Living, NoLife
    <3> QED BY <1>1, <1>4, <2>1, <3>1 DEF WindowsHear, Over
  <2>2. ASSUME NEW t \in tellers
        PROVE  LET l == births'[t[1]].life IN
               \/ births'[t[1]].phase \in {"over", "refused"}
               \/ held'[l].stage = "living" /\ held'[l].born = t[1] /\ t[2] \in held'[l].windows
    <3>1. t[1] \in 1 .. Len(births) BY <1>1 DEF Typed
    <3> DEFINE l == births[t[1]].life
    <3>2. l \in Lives /\ l = births'[t[1]].life BY <1>1, <1>4, <3>1, BirthTypes
    <3>3. Over(t[1]) \/ (Living(l) /\ held[l].born = t[1] /\ t[2] \in held[l].windows)
      BY <1>1 DEF WindowsHear
    <3> HIDE DEF l
    <3>4. CASE Over(t[1]) BY <1>4, <3>1, <3>4 DEF Over
    <3>5. CASE Living(l) /\ held[l].born = t[1] /\ t[2] \in held[l].windows
      <4>1. l \notin due BY <1>5, <3>2, <3>5
      <4>2. held'[l] = held[l] BY <1>2, <3>2, <4>1
      <4> QED BY <3>2, <3>5, <4>2 DEF Living
    <3> QED BY <3>3, <3>4, <3>5
  <2> QED BY <1>3, <2>1, <2>2 DEF WindowsHear, Over, Living
<1> QED BY <1>6, <1>7, <1>8, <1>9, <1>10 DEF BInv

-----------------------------------------------------------------------------
(* What the task hears.                                                     *)

\* The task took the first of what it has to hear.
LEMMA TailAsks ==
  ASSUME Typed, Waits, Serves, asks # <<>>
  PROVE  /\ Len(asks) \in Nat /\ asks[1] \in AskForms(Len(births))
         /\ Tail(asks) \in Seq(AskForms(Len(births))) /\ Len(Tail(asks)) = Len(asks) - 1
         /\ \A i \in 1 .. Len(asks) - 1 : i + 1 \in 1 .. Len(asks) /\ Tail(asks)[i] = asks[i + 1]
<1>1. asks \in Seq(AskForms(Len(births)))
  BY DEF Typed
<1>2. Len(asks) \in Nat /\ Len(asks) > 0 BY <1>1, EmptySeq
<1>3. asks[1] \in AskForms(Len(births)) BY <1>1, <1>2, ElementOfSeq
<1>4. /\ Tail(asks) \in Seq(AskForms(Len(births))) /\ Len(Tail(asks)) = Len(asks) - 1
      /\ \A i \in 1 .. Len(Tail(asks)) : Tail(asks)[i] = asks[i + 1]
  BY <1>1, HeadTailProperties
<1> QED BY <1>2, <1>3, <1>4

\* What waits still says ends that came, and each message of a teller but the one that was heard.
LEMMA TailWaits ==
  ASSUME BInv, Serves, asks # <<>>, asks' = Tail(asks), at' = at,
         births' \in Seq(BirthRecords), Len(births) <= Len(births'),
         \A b \in 1 .. Len(births) : births'[b].phase = births[b].phase /\ births'[b].by = births[b].by
  PROVE  /\ Waits' /\ asks' \in Seq(AskForms(Len(births'))) /\ DOMAIN asks' = 1 .. Len(asks')
         /\ \A x : x # asks[1] =>
              ((\E i \in DOMAIN asks : asks[i] = x) => (\E i \in 1 .. Len(asks') : asks'[i] = x))
<1>1. Typed /\ Waits BY DEF BInv
<1>2. /\ Len(asks) \in Nat /\ asks[1] \in AskForms(Len(births))
      /\ asks' \in Seq(AskForms(Len(births))) /\ Len(asks') = Len(asks) - 1
      /\ \A i \in 1 .. Len(asks) - 1 : i + 1 \in 1 .. Len(asks) /\ asks'[i] = asks[i + 1]
  BY <1>1, TailAsks
<1>3. Waits'
  <2> SUFFICES ASSUME NEW i \in 1 .. Len(asks'), asks'[i].say = "ended"
               PROVE  births'[asks'[i].birth].phase \in {"over", "refused"} /\ births'[asks'[i].birth].by = at
    BY DEF Waits, Over, Serves
  <2>1. i + 1 \in 1 .. Len(asks) /\ asks'[i] = asks[i + 1] BY <1>2
  <2>2. asks'[i].birth \in 1 .. Len(births)
    <3>1. asks'[i] \in AskForms(Len(births)) BY <1>2, ElementOfSeq
    <3> QED BY <3>1 DEF AskForms, VerbForms, Says
  <2> QED BY <1>1, <2>1, <2>2 DEF Waits, Over
<1>4. asks' \in Seq(AskForms(Len(births')))
  <2>1. Len(births) \in Nat /\ Len(births') \in Nat BY <1>1, BirthTypes
  <2>2. AskForms(Len(births)) \subseteq AskForms(Len(births')) BY <2>1, FormsGrow
  <2> QED BY <1>2, <2>2
<1>5. ASSUME NEW i \in DOMAIN asks, asks[i] # asks[1] PROVE \E j \in 1 .. Len(asks') : asks'[j] = asks[i]
  <2>1. i \in 1 .. Len(asks) /\ i # 1 BY <1>1, <1>5 DEF Typed
  <2>2. i - 1 \in 1 .. Len(asks') /\ asks'[i - 1] = asks[i] BY <1>2, <2>1
  <2> QED BY <2>2
<1>6. DOMAIN asks' = 1 .. Len(asks') BY <1>2
<1> QED BY <1>3, <1>4, <1>5, <1>6

\* An answer to peers.
LEMMA AnswerTypes == ASSUME Typed, NEW ps, Answered(ps) PROVE peers' \in [Peers -> PeerForms]
BY DEF Typed, Answered, PeerForms

\* The task heard something that changes no life.
LEMMA HeardNothing ==
  ASSUME BInv, IInv', Serves, asks # <<>>, asks' = Tail(asks),
         UNCHANGED <<at, held, births, lease, tellers, handed, givenUp, verbs, faults>>,
         pinned' \in [Lives -> SUBSET Pins], peers' \in [Peers -> PeerForms],
         asks[1].say = "left" => ~Living(asks[1].life)
  PROVE  BInv'
<1>1. Typed /\ WindowsHear BY DEF BInv
<1>2. /\ Waits' /\ asks' \in Seq(AskForms(Len(births'))) /\ DOMAIN asks' = 1 .. Len(asks')
      /\ \A x : x # asks[1] =>
           ((\E i \in DOMAIN asks : asks[i] = x) => (\E i \in 1 .. Len(asks') : asks'[i] = x))
  <2>1. births' \in Seq(BirthRecords) /\ Len(births) <= Len(births') BY <1>1, BirthTypes
  <2> QED BY <2>1, TailWaits
<1>3. Typed' BY <1>1, <1>2 DEF Typed
<1>4. Owned' /\ Accounted' BY BirthsStay
<1>5. WindowsHear'
  <2>1. ASSUME NEW l \in Lives, Living(l), NEW p \in held[l].windows
        PROVE  \/ <<held[l].born, p>> \in tellers' \/ births'[held[l].born].phase \in {"over", "refused"}
               \/ \E i \in DOMAIN asks' : asks'[i] = [say |-> "left", life |-> l, from |-> p]
    <3> DEFINE x == [say |-> "left", life |-> l, from |-> p]
    <3>1. x # asks[1] BY <2>1
    <3>2. \/ <<held[l].born, p>> \in tellers \/ births[held[l].born].phase \in {"over", "refused"}
          \/ \E i \in DOMAIN asks : asks[i] = x
      BY <1>1, <2>1 DEF WindowsHear, Over
    <3>3. (\E i \in DOMAIN asks : asks[i] = x) => \E i \in DOMAIN asks' : asks'[i] = x
      <4> HIDE DEF x
      <4> QED BY <1>2, <3>1
    <3> QED BY <3>2, <3>3
  <2>2. \A l : Living(l)' <=> Living(l) BY DEF Living
  <2>3. ASSUME NEW t \in tellers'
        PROVE  LET l == births'[t[1]].life IN
               births'[t[1]].phase \in {"over", "refused"}
                 \/ (held'[l].stage = "living" /\ held'[l].born = t[1] /\ t[2] \in held'[l].windows)
    BY <1>1 DEF WindowsHear, Over, Living
  <2> QED BY <2>1, <2>2, <2>3 DEF WindowsHear, Over, Living
<1> QED BY <1>2, <1>3, <1>4, <1>5 DEF BInv

\* The task heard something about a life that it holds, and changes its holders and its tellers.
LEMMA HeardHeld ==
  ASSUME BInv, IInv', Serves, asks # <<>>, asks' = Tail(asks),
         UNCHANGED <<at, births, lease, handed, givenUp, verbs, faults>>,
         pinned' \in [Lives -> SUBSET Pins], peers' \in [Peers -> PeerForms],
         NEW l \in Lives, held[l] # NoLife, NEW h \in HeldForms(Len(births)), h # NoLife, h.born = held[l].born,
         held' = [held EXCEPT ![l] = h],
         tellers' \subseteq (1 .. Len(births)) \X Peers,
         \A t \in tellers' : t[1] = h.born \/ t \in tellers,
         \A t \in tellers : t[1] = h.born \/ t \in tellers',
         h.stage = "living" => \A p \in h.windows :
           \/ <<h.born, p>> \in tellers' \/ Over(h.born)
           \/ p \in held[l].windows /\ Living(l) /\ asks[1] # [say |-> "left", life |-> l, from |-> p]
              /\ \E i \in DOMAIN asks : asks[i] = [say |-> "left", life |-> l, from |-> p],
         \A t \in tellers' : t[1] = h.born => Over(h.born) \/ (h.stage = "living" /\ t[2] \in h.windows),
         asks[1].say = "left" => asks[1].life = l
  PROVE  BInv'
<1>1. Typed /\ WindowsHear /\ Owned /\ Accounted BY DEF BInv
<1>2. /\ Waits' /\ asks' \in Seq(AskForms(Len(births'))) /\ DOMAIN asks' = 1 .. Len(asks')
      /\ \A x : x # asks[1] =>
           ((\E i \in DOMAIN asks : asks[i] = x) => (\E i \in 1 .. Len(asks') : asks'[i] = x))
  <2>1. births' \in Seq(BirthRecords) /\ Len(births) <= Len(births') BY <1>1, BirthTypes
  <2> QED BY <2>1, TailWaits
<1>3. held \in [Lives -> HeldForms(Len(births))] /\ held'[l] = h /\ \A k \in Lives : k # l => held'[k] = held[k]
  BY <1>1 DEF Typed
<1>4. Typed'
  <2>1. held' \in [Lives -> HeldForms(Len(births'))] BY <1>3
  <2> QED BY <1>1, <1>2, <2>1 DEF Typed
<1>5. Owned'
  <2> SUFFICES ASSUME NEW k \in Lives, held'[k] # NoLife
               PROVE  births[held'[k].born].life = k /\ births[held'[k].born].by = at
    BY <1>1 DEF Owned, Active
  <2> QED BY <1>1, <1>3 DEF Owned
<1>6. Accounted'
  <2>1. ASSUME NEW k \in Lives, NEW b, HoldsBirth(k, b) PROVE HoldsBirth(k, b)'
    BY <1>3, <2>1 DEF HoldsBirth
  <2>2. \A b \in 1 .. Len(births) : births[b].life \in Lives BY <1>1, BirthTypes
  <2> QED BY <1>1, <2>1, <2>2 DEF Accounted, Active, GivenUp
<1>7. WindowsHear'
  <2>0. ASSUME NEW k, NEW p, [say |-> "left", life |-> k, from |-> p] # asks[1],
               \E i \in DOMAIN asks : asks[i] = [say |-> "left", life |-> k, from |-> p]
        PROVE  \E i \in DOMAIN asks' : asks'[i] = [say |-> "left", life |-> k, from |-> p]
    BY <1>2, <2>0
  <2>1. ASSUME NEW k \in Lives, held'[k].stage = "living", NEW p \in held'[k].windows
        PROVE  \/ <<held'[k].born, p>> \in tellers' \/ births'[held'[k].born].phase \in {"over", "refused"}
               \/ \E i \in DOMAIN asks' : asks'[i] = [say |-> "left", life |-> k, from |-> p]
    <3>1. CASE k = l
      <4>1. held'[k] = h /\ h.stage = "living" /\ p \in h.windows BY <1>3, <2>1, <3>1
      <4>2. \/ <<h.born, p>> \in tellers' \/ Over(h.born)
            \/ /\ asks[1] # [say |-> "left", life |-> l, from |-> p]
               /\ \E i \in DOMAIN asks : asks[i] = [say |-> "left", life |-> l, from |-> p]
        BY <4>1
      <4> QED BY <2>0, <3>1, <4>1, <4>2 DEF Over
    <3>2. CASE k # l
      <4>1. held'[k] = held[k] /\ Living(k) /\ held[k] # NoLife BY <1>3, <2>1, <3>2 DEF Living, NoLife
      <4>2. \/ <<held[k].born, p>> \in tellers \/ Over(held[k].born)
            \/ \E i \in DOMAIN asks : asks[i] = [say |-> "left", life |-> k, from |-> p]
        BY <1>1, <2>1, <4>1 DEF WindowsHear
      <4>3. [say |-> "left", life |-> k, from |-> p] # asks[1] BY <3>2
      <4>4. held[k].born # h.born BY <1>1, <3>2, <4>1 DEF Owned
      <4>5. <<held[k].born, p>> \in tellers => <<held[k].born, p>> \in tellers'
        <5>1. ASSUME NEW t \in tellers, t[1] # h.born PROVE t \in tellers' BY <5>1
        <5> QED BY <4>4, <5>1
      <4> QED BY <2>0, <4>1, <4>2, <4>3, <4>5 DEF Over
    <3> QED BY <3>1, <3>2
  <2>2. ASSUME NEW t \in tellers'
        PROVE  LET k == births'[t[1]].life IN
               births'[t[1]].phase \in {"over", "refused"}
                 \/ (held'[k].stage = "living" /\ held'[k].born = t[1] /\ t[2] \in held'[k].windows)
    <3>1. CASE t[1] = h.born
      <4>1. births[t[1]].life = l BY <1>1, <3>1 DEF Owned
      <4> QED BY <1>3, <3>1, <4>1 DEF Over
    <3>2. CASE t[1] # h.born
      <4>1. t \in tellers /\ t[1] \in 1 .. Len(births) BY <1>1, <3>2 DEF Typed
      <4> DEFINE k == births[t[1]].life
      <4>2. k \in Lives BY <1>1, <4>1, BirthTypes
      <4>3. Over(t[1]) \/ (Living(k) /\ held[k].born = t[1] /\ t[2] \in held[k].windows)
        BY <1>1, <4>1 DEF WindowsHear
      <4> HIDE DEF k
      <4>4. CASE k = l BY <3>2, <4>3, <4>4 DEF Over, k
      <4>5. CASE k # l
        <5>1. held'[k] = held[k] BY <1>3, <4>2, <4>5
        <5> QED BY <4>3, <5>1 DEF Living, Over, k
      <4> QED BY <4>4, <4>5
    <3> QED BY <3>1, <3>2
  <2> QED BY <2>1, <2>2 DEF WindowsHear, Over, Living
<1> QED BY <1>2, <1>4, <1>5, <1>6, <1>7 DEF BInv

\* A birth of a life that the daemon does not hold, or whose birth is over.
LEMMA BirthsKeep ==
  ASSUME BInv, IInv', Serves, asks # <<>>, asks' = Tail(asks), UNCHANGED <<at, handed, givenUp, verbs, faults>>,
         pinned' \in [Lives -> SUBSET Pins], peers' \in [Peers -> PeerForms],
         NEW l \in Lives, NEW ps \in SUBSET Peers, Births(l, ps), asks[1].say # "left",
         held[l] = NoLife \/ Over(held[l].born)
  PROVE  BInv'
<1> DEFINE n == Len(births)
           new == Born(l, at)
           h == IF ps = {} THEN NewBirth(n + 1) ELSE Settle([NewBirth(n + 1) EXCEPT !.windows = ps])
<1>1. /\ Typed /\ WindowsHear /\ Owned /\ Accounted /\ n \in Nat /\ births \in Seq(BirthRecords)
      /\ \A k \in Lives : handed[k] = NoLife
      /\ \A b \in 1 .. n : births[b] \in BirthRecords /\ births[b].life \in Lives
  BY BirthTypes DEF BInv, IInv
<1>2. new \in BirthRecords /\ new.life = l /\ new.by = at /\ new.phase = "opens"
  BY DEF Born, BirthRecords, Phases, Serves
<1>3. h \in LivingForms(n + 1) /\ h.born = n + 1 /\ h.windows = ps /\ h.stage = "living"
  <2>1. n + 1 \in 1 .. n + 1 BY <1>1
  <2>2. NewBirth(n + 1) \in LivingForms(n + 1) /\ NewBirth(n + 1).born = n + 1 /\ NewBirth(n + 1).windows = {}
    BY <2>1 DEF NewBirth, LivingForms, Idles
  <2>3. \A g \in LivingForms(n + 1) : [g EXCEPT !.windows = ps] \in LivingForms(n + 1)
          /\ [g EXCEPT !.windows = ps].born = g.born /\ [g EXCEPT !.windows = ps].windows = ps
    BY DEF LivingForms
  <2>4. \A g \in LivingForms(n + 1) : Settle(g) \in LivingForms(n + 1) /\ Settle(g).born = g.born
                                       /\ Settle(g).windows = g.windows
    BY DEF LivingForms, Settle, Idles
  <2>5. \A g \in LivingForms(n + 1) : g.stage = "living" BY DEF LivingForms
  <2> QED BY <2>2, <2>3, <2>4, <2>5
<1>4. /\ births' = Append(births, new) /\ held' = [held EXCEPT ![l] = h]
      /\ tellers' = tellers \cup {<<n + 1, p>> : p \in ps} /\ lease' = lease
  BY DEF Births
<1> HIDE DEF new, h
<1>5. /\ births' \in Seq(BirthRecords) /\ Len(births') = n + 1 /\ births'[n + 1] = new
      /\ \A b \in 1 .. n : births'[b] = births[b]
  BY <1>1, <1>2, <1>4, AppendProperties
<1>6. held'[l] = h /\ (\A k \in Lives : k # l => held'[k] = held[k]) /\ h # NoLife
  BY <1>1, <1>3, <1>4 DEF Typed, NoLife
<1>7. /\ Waits' /\ asks' \in Seq(AskForms(Len(births'))) /\ DOMAIN asks' = 1 .. Len(asks')
      /\ \A x : x # asks[1] =>
           ((\E i \in DOMAIN asks : asks[i] = x) => (\E i \in 1 .. Len(asks') : asks'[i] = x))
  <2>1. Len(births) <= Len(births') BY <1>1, <1>5
  <2> QED BY <1>5, <2>1, TailWaits
<1> HIDE DEF n
<1>8. Typed'
  <2>1. LivingForms(n) \subseteq LivingForms(n + 1) /\ HeldForms(n) \subseteq HeldForms(n + 1)
        /\ GivenForms(n) \subseteq GivenForms(n + 1)
    <3>1. n + 1 \in Nat /\ n <= n + 1 BY <1>1
    <3> QED BY <1>1, <3>1, FormsGrow
  <2>2. held' \in [Lives -> HeldForms(n + 1)]
    <3>1. held \in [Lives -> HeldForms(n)] BY <1>1 DEF Typed, n
    <3>2. h \in HeldForms(n + 1) BY <1>3 DEF HeldForms
    <3>3. \A k \in Lives : held[k] \in HeldForms(n + 1) BY <2>1, <3>1
    <3> QED BY <1>4, <3>1, <3>2, <3>3
  <2>3. handed' \in [Lives -> {NoLife} \cup GivenForms(n + 1)]
    BY <1>1, <2>1 DEF Typed, n
  <2>4. 1 .. n \subseteq 1 .. (n + 1) /\ n + 1 \in 1 .. (n + 1) BY <1>1
  <2>5. lease' \in [Lives -> {NONE} \cup 1 .. (n + 1)] /\ givenUp' \subseteq 1 .. (n + 1)
    BY <1>1, <1>4, <2>4 DEF Typed, n
  <2>6. tellers' \subseteq (1 .. (n + 1)) \X Peers
    <3>1. tellers \subseteq (1 .. n) \X Peers BY <1>1 DEF Typed, n
    <3> QED BY <1>4, <2>4, <3>1
  <2>7. at' \in Places /\ verbs' \in 0 .. MaxVerbs /\ faults' \in 0 .. MaxFaults BY <1>1 DEF Typed
  <2> QED BY <1>5, <1>7, <2>2, <2>3, <2>5, <2>6, <2>7 DEF Typed
<1>9. \A k \in Lives : /\ held[k] # NoLife => held[k].born \in 1 .. n
                       /\ lease[k] # NONE => lease[k] \in 1 .. n
  BY <1>1, HeldForm DEF Typed, n
<1>10. Owned'
  <2> SUFFICES ASSUME NEW k \in Lives
               PROVE  /\ held'[k] # NoLife => births'[held'[k].born].life = k /\ births'[held'[k].born].by = at
                      /\ lease[k] # NONE => births'[lease[k]].life = k /\ births'[lease[k]].phase = "runs"
    BY <1>1, <1>4 DEF Owned, Active
  <2>1. lease[k] # NONE => births'[lease[k]].life = k /\ births'[lease[k]].phase = "runs"
    BY <1>1, <1>5, <1>9 DEF Owned
  <2>2. CASE k = l BY <1>2, <1>3, <1>5, <1>6, <2>1, <2>2
  <2>3. CASE k # l BY <1>1, <1>5, <1>6, <1>9, <2>1, <2>3 DEF Owned
  <2> QED BY <2>2, <2>3
<1>11. Accounted'
  <2>1. ASSUME NEW k \in Lives, GivenUp(k) PROVE \E g \in givenUp : births'[g].life = k
    <3>1. givenUp \subseteq 1 .. n BY <1>1 DEF Typed, n
    <3> QED BY <1>5, <2>1, <3>1 DEF GivenUp
  <2>2. ASSUME NEW b \in 1 .. n
        PROVE  LET k == births[b].life IN
               /\ Active(b) => (held'[k] # NoLife /\ held'[k].born = b) \/ \E g \in givenUp : births'[g].life = k
               /\ births[b].phase = "refused" => \E g \in givenUp : births'[g].life = k
    <3> DEFINE k == births[b].life
    <3>1. k \in Lives BY <1>1
    <3>2. births[b].phase = "refused" => GivenUp(k) BY <1>1 DEF Accounted, n
    <3>3. Active(b) => HoldsBirth(k, b) \/ GivenUp(k) BY <1>1 DEF Accounted, n
    <3> HIDE DEF k
    <3>4. CASE Active(b) /\ HoldsBirth(k, b)
      <4>1. held[k] # NoLife /\ held[k].born = b BY <1>1, <3>1, <3>4 DEF HoldsBirth
      <4>2. k # l BY <3>4, <4>1 DEF Active, Over
      <4>3. held'[k] = held[k] BY <1>6, <3>1, <4>2
      <4>4. births[b].phase # "refused" BY <3>4 DEF Active
      <4> QED BY <4>1, <4>3, <4>4 DEF k
    <3> QED BY <2>1, <3>1, <3>2, <3>3, <3>4 DEF k
  <2>3. held'[l] # NoLife /\ held'[l].born = n + 1 BY <1>3, <1>6
  <2>4. ASSUME NEW b \in 1 .. n + 1
        PROVE  LET k == births'[b].life IN
               /\ births'[b].phase \in {"opens", "runs"} =>
                    (held'[k] # NoLife /\ held'[k].born = b) \/ \E g \in givenUp : births'[g].life = k
               /\ births'[b].phase = "refused" => \E g \in givenUp : births'[g].life = k
    <3>1. CASE b \in 1 .. n
      BY <1>5, <2>2, <3>1 DEF Active
    <3>2. CASE b = n + 1
      BY <1>2, <1>5, <2>3, <3>2
    <3> QED BY <1>1, <3>1, <3>2
  <2> QED BY <1>5, <2>4 DEF Accounted, Active, HoldsBirth, GivenUp
<1>12. WindowsHear'
  <2>0. ASSUME NEW k, NEW p, \E i \in DOMAIN asks : asks[i] = [say |-> "left", life |-> k, from |-> p]
        PROVE  \E i \in DOMAIN asks' : asks'[i] = [say |-> "left", life |-> k, from |-> p]
    <3>1. [say |-> "left", life |-> k, from |-> p] # asks[1] OBVIOUS
    <3> QED BY <1>7, <2>0, <3>1
  <2>1. ASSUME NEW k \in Lives, held'[k].stage = "living", NEW p \in held'[k].windows
        PROVE  \/ <<held'[k].born, p>> \in tellers' \/ births'[held'[k].born].phase \in {"over", "refused"}
               \/ \E i \in DOMAIN asks' : asks'[i] = [say |-> "left", life |-> k, from |-> p]
    <3>1. CASE k = l
      BY <1>3, <1>4, <1>6, <2>1, <3>1
    <3>2. CASE k # l
      <4>1. held'[k] = held[k] /\ Living(k) /\ held[k] # NoLife BY <1>6, <2>1, <3>2 DEF Living, NoLife
      <4>2. \/ <<held[k].born, p>> \in tellers \/ Over(held[k].born)
            \/ \E i \in DOMAIN asks : asks[i] = [say |-> "left", life |-> k, from |-> p]
        BY <1>1, <2>1, <4>1 DEF WindowsHear
      <4>3. births'[held[k].born] = births[held[k].born] BY <1>5, <1>9, <4>1
      <4>4. tellers \subseteq tellers' BY <1>4
      <4> QED BY <2>0, <4>1, <4>2, <4>3, <4>4 DEF Over
    <3> QED BY <3>1, <3>2
  <2>2. ASSUME NEW t \in tellers'
        PROVE  LET k == births'[t[1]].life IN
               births'[t[1]].phase \in {"over", "refused"}
                 \/ (held'[k].stage = "living" /\ held'[k].born = t[1] /\ t[2] \in held'[k].windows)
    <3>1. CASE t \in tellers
      <4>1. t[1] \in 1 .. n BY <1>1, <3>1 DEF Typed, n
      <4>2. births'[t[1]] = births[t[1]] BY <1>5, <4>1
      <4> DEFINE k == births[t[1]].life
      <4>3. k \in Lives BY <1>1, <4>1
      <4>4. Over(t[1]) \/ (Living(k) /\ held[k].born = t[1] /\ t[2] \in held[k].windows)
        BY <1>1, <3>1 DEF WindowsHear
      <4>5. Over(t[1]) => births'[t[1]].phase \in {"over", "refused"} BY <4>2 DEF Over
      <4>6. CASE k = l /\ Living(k)
        <5>1. held[k] # NoLife BY <4>6 DEF Living, NoLife
        <5> QED BY <4>4, <4>5, <4>6, <5>1
      <4>7. CASE k # l
        <5>1. held'[k] = held[k] BY <1>6, <4>3, <4>7
        <5> QED BY <4>2, <4>4, <4>5, <5>1 DEF Living
      <4> QED BY <4>4, <4>5, <4>6, <4>7
    <3>2. CASE t \in {<<n + 1, p>> : p \in ps}
      BY <1>2, <1>3, <1>5, <1>6, <3>2
    <3> QED BY <1>4, <3>1, <3>2
  <2> QED BY <2>1, <2>2 DEF WindowsHear, Over, Living
<1> QED BY <1>7, <1>8, <1>10, <1>11, <1>12 DEF BInv

\* The daemon lets go of a life whose birth is over, and opens nothing in its place.
LEMMA LetGoKeeps ==
  ASSUME BInv, IInv', Serves, asks # <<>>, asks' = Tail(asks),
         UNCHANGED <<at, births, lease, tellers, handed, givenUp, verbs, faults>>,
         pinned' \in [Lives -> SUBSET Pins], peers' \in [Peers -> PeerForms],
         NEW l \in Lives, held' = [held EXCEPT ![l] = NoLife], asks[1].say # "left",
         held[l] # NoLife, Over(held[l].born)
  PROVE  BInv'
<1>1. /\ Typed /\ WindowsHear /\ Owned /\ Accounted
      /\ \A b \in 1 .. Len(births) : births[b] \in BirthRecords /\ births[b].life \in Lives
  BY BirthTypes DEF BInv
<1>2. /\ Waits' /\ asks' \in Seq(AskForms(Len(births'))) /\ DOMAIN asks' = 1 .. Len(asks')
      /\ \A x : x # asks[1] =>
           ((\E i \in DOMAIN asks : asks[i] = x) => (\E i \in 1 .. Len(asks') : asks'[i] = x))
  <2>1. births' \in Seq(BirthRecords) /\ Len(births) <= Len(births') BY <1>1, BirthTypes
  <2> QED BY <2>1, TailWaits
<1>3. held'[l] = NoLife /\ (\A k \in Lives : k # l => held'[k] = held[k])
      /\ held \in [Lives -> HeldForms(Len(births))]
  BY <1>1 DEF Typed
<1>4. Typed'
  <2>1. held' \in [Lives -> HeldForms(Len(births))] BY <1>3 DEF HeldForms
  <2> QED BY <1>1, <1>2, <2>1 DEF Typed
<1>5. Owned'
  BY <1>1, <1>3 DEF Owned, Active
<1>6. Accounted'
  <2> SUFFICES ASSUME NEW b \in 1 .. Len(births)
               PROVE  LET k == births[b].life IN
                      /\ Active(b) => \/ held'[k] # NoLife /\ held'[k].born = b
                                      \/ handed[k] # NoLife /\ handed[k].born = b
                                      \/ GivenUp(k)
                      /\ births[b].phase = "refused" => GivenUp(k)
    BY DEF Accounted, Active, HoldsBirth, GivenUp
  <2> DEFINE k == births[b].life
  <2>1. k \in Lives BY <1>1
  <2>2. CASE k = l BY <1>1, <2>2 DEF Accounted, HoldsBirth, Active, Over
  <2>3. CASE k # l BY <1>1, <1>3, <2>1, <2>3 DEF Accounted, HoldsBirth
  <2> QED BY <2>2, <2>3
<1>7. WindowsHear'
  <2>0. ASSUME NEW k, NEW p, \E i \in DOMAIN asks : asks[i] = [say |-> "left", life |-> k, from |-> p]
        PROVE  \E i \in DOMAIN asks' : asks'[i] = [say |-> "left", life |-> k, from |-> p]
    <3>1. [say |-> "left", life |-> k, from |-> p] # asks[1] OBVIOUS
    <3> QED BY <1>2, <2>0, <3>1
  <2>1. ASSUME NEW k \in Lives, held'[k].stage = "living", NEW p \in held'[k].windows
        PROVE  \/ <<held'[k].born, p>> \in tellers \/ births[held'[k].born].phase \in {"over", "refused"}
               \/ \E i \in DOMAIN asks' : asks'[i] = [say |-> "left", life |-> k, from |-> p]
    <3>1. k # l BY <1>3, <2>1 DEF NoLife
    <3>2. held'[k] = held[k] /\ Living(k) BY <1>3, <2>1, <3>1 DEF Living
    <3> QED BY <1>1, <2>0, <2>1, <3>2 DEF WindowsHear, Over
  <2>2. ASSUME NEW t \in tellers
        PROVE  LET k == births[t[1]].life IN
               births[t[1]].phase \in {"over", "refused"}
                 \/ (held'[k].stage = "living" /\ held'[k].born = t[1] /\ t[2] \in held'[k].windows)
    <3> DEFINE k == births[t[1]].life
    <3>1. t[1] \in 1 .. Len(births) /\ k \in Lives BY <1>1 DEF Typed
    <3>2. Over(t[1]) \/ (Living(k) /\ held[k].born = t[1] /\ t[2] \in held[k].windows)
      BY <1>1 DEF WindowsHear
    <3>3. CASE k = l BY <3>2, <3>3 DEF Over
    <3>4. CASE k # l BY <1>3, <3>1, <3>2, <3>4 DEF Over, Living
    <3> QED BY <3>3, <3>4
  <2> QED BY <2>1, <2>2 DEF WindowsHear, Over, Living
<1> QED BY <1>2, <1>4, <1>5, <1>6, <1>7 DEF BInv

\* A window attaches to a life that lives.
LEMMA AttachBirths ==
  ASSUME BInv, IInv', Serves, asks # <<>>, asks' = Tail(asks), UNCHANGED <<at, handed, givenUp, verbs, faults>>,
         pinned' \in [Lives -> SUBSET Pins], peers' \in [Peers -> PeerForms], asks[1].say # "left",
         NEW l \in Lives, NEW p \in Peers, Living(l), Attaches(l, p)
  PROVE  BInv'
<1> DEFINE h == Attached(held[l], p)
<1>1. Typed /\ WindowsHear /\ held[l] # NoLife /\ held[l] \in LivingForms(Len(births)) BY HeldForm DEF BInv, Living, NoLife
<1>2. h \in LivingForms(Len(births)) /\ h.born = held[l].born /\ h.windows = held[l].windows \cup {p}
      /\ h.stage = "living"
  BY <1>1 DEF LivingForms, Attached, Settle, Idles
<1>3. held' = [held EXCEPT ![l] = h] /\ tellers' = tellers \cup {<<held[l].born, p>>}
      /\ UNCHANGED <<births, lease>>
  BY DEF Attaches
<1> HIDE DEF h
<1>4. h \in HeldForms(Len(births)) /\ h # NoLife /\ h.born \in 1 .. Len(births)
  BY <1>2 DEF HeldForms, LivingForms, NoLife
<1>5. tellers' \subseteq (1 .. Len(births)) \X Peers
  BY <1>1, <1>2, <1>3, <1>4 DEF Typed
<1>6. \A t \in tellers' : (t[1] = h.born \/ t \in tellers) /\ (t[1] = h.born => Over(h.born) \/ t[2] \in h.windows)
  <2> SUFFICES ASSUME NEW t \in tellers'
               PROVE  (t[1] = h.born \/ t \in tellers) /\ (t[1] = h.born => Over(h.born) \/ t[2] \in h.windows)
    OBVIOUS
  <2>1. CASE t = <<held[l].born, p>> BY <1>2, <2>1
  <2>2. CASE t \in tellers
    <3>1. births[held[l].born].life = l BY <1>1 DEF BInv, Owned
    <3>2. t[1] = held[l].born => Over(t[1]) \/ t[2] \in held[l].windows
      BY <1>1, <2>2, <3>1 DEF WindowsHear
    <3> QED BY <1>2, <2>2, <3>2
  <2> QED BY <1>3, <2>1, <2>2
<1>7. ASSUME NEW q \in h.windows
      PROVE  \/ <<h.born, q>> \in tellers' \/ Over(h.born)
             \/ q \in held[l].windows /\ Living(l) /\ asks[1] # [say |-> "left", life |-> l, from |-> q]
                /\ \E i \in DOMAIN asks : asks[i] = [say |-> "left", life |-> l, from |-> q]
  BY <1>1, <1>2, <1>3 DEF WindowsHear
<1>8. \A t \in tellers : t \in tellers' BY <1>3
<1> QED BY <1>1, <1>2, <1>3, <1>4, <1>5, <1>6, <1>7, <1>8, HeardHeld

\* What the task hears, with the form of its kind.
LEMMA HeardForms ==
  ASSUME Typed, Waits, NEW say, Hears(say)
  PROVE  /\ Serves /\ asks # <<>> /\ asks' = Tail(asks) /\ asks[1].say = say
         /\ say \in Says => asks[1] \in VerbForms /\ asks[1].life \in Lives /\ asks[1].from \in Peers
         /\ say = "left" => asks[1].life \in Lives /\ asks[1].from \in Peers
         /\ say = "ended" => asks[1].birth \in 1 .. Len(births)
<1>1. Serves /\ asks # <<>> /\ asks' = Tail(asks) /\ asks[1].say = say
  BY DEF Hears
<1>2. asks[1] \in AskForms(Len(births)) BY <1>1, TailAsks
<1>3. /\ "ended" \notin Says /\ "left" \notin Says /\ "handover" \notin Says
      /\ "ended" # "left" /\ "ended" # "handover" /\ "left" # "handover"
  BY DEF Says
<1>4. CASE asks[1] \in VerbForms
  <2>1. asks[1].say \in Says /\ asks[1].life \in Lives /\ asks[1].from \in Peers BY <1>4 DEF VerbForms
  <2> QED BY <1>1, <1>3, <1>4, <2>1
<1>5. CASE asks[1] \in [say : {"ended"}, birth : 1 .. Len(births)]
  BY <1>1, <1>3, <1>5
<1>6. CASE asks[1] \in [say : {"left"}, life : Lives, from : Peers]
  BY <1>1, <1>3, <1>6
<1>7. CASE asks[1] \in [say : {"handover"}]
  BY <1>1, <1>3, <1>7
<1> QED BY <1>2, <1>4, <1>5, <1>6, <1>7 DEF AskForms

\* A verb that the task hears, with its answer.
LEMMA HeardVerbs ==
  ASSUME BInv, NEW say \in Says, Hears(say), UNCHANGED peers \/ \E ps : Answered(ps)
  PROVE  /\ Serves /\ asks # <<>> /\ asks' = Tail(asks) /\ asks[1].say # "left" /\ asks[1].say = say
         /\ asks[1] \in VerbForms /\ asks[1].life \in Lives /\ asks[1].from \in Peers
         /\ peers' \in [Peers -> PeerForms] /\ pinned \in [Lives -> SUBSET Pins]
<1>1. Typed /\ Waits BY DEF BInv
<1>2. peers' \in [Peers -> PeerForms] /\ pinned \in [Lives -> SUBSET Pins]
  BY <1>1, AnswerTypes DEF Typed
<1> QED BY <1>1, <1>2, HeardForms DEF Says

LEMMA HearOpenBirths == ASSUME BInv, IInv', HearOpen PROVE BInv'
<1> DEFINE a == asks[1]
<1>1. Hears("open") /\ "open" \in Says BY DEF HearOpen, Says
<1>2. UNCHANGED peers \/ \E ps : Answered(ps) BY DEF HearOpen
<1>3. /\ Serves /\ asks # <<>> /\ asks' = Tail(asks) /\ a.say # "left"
      /\ a \in VerbForms /\ a.life \in Lives /\ a.from \in Peers /\ a.attach \in BOOLEAN
      /\ peers' \in [Peers -> PeerForms] /\ pinned' \in [Lives -> SUBSET Pins]
  <2>1. \A v \in VerbForms : v.attach \in BOOLEAN BY DEF VerbForms
  <2>2. pinned' = pinned BY DEF HearOpen
  <2> QED BY <1>1, <1>2, <2>1, <2>2, HeardVerbs
<1>4. UNCHANGED <<at, handed, givenUp, verbs, faults>> BY DEF HearOpen, counts
<1>5. CASE Living(a.life) /\ (IF a.attach THEN Attaches(a.life, a.from) ELSE UNCHANGED <<held, tasks>>)
  <2>1. CASE a.attach BY <1>3, <1>4, <1>5, <2>1, AttachBirths
  <2>2. CASE ~a.attach BY <1>3, <1>4, <1>5, <2>2, HeardNothing DEF tasks
  <2> QED BY <2>1, <2>2
<1>6. CASE /\ EndingNow(a.life)
           /\ held' = [held EXCEPT ![a.life].waiting = Append(@, [from |-> a.from, attach |-> a.attach])]
           /\ UNCHANGED <<tasks, peers>>
  <2> DEFINE o == [from |-> a.from, attach |-> a.attach]
             h == [held[a.life] EXCEPT !.waiting = Append(@, o)]
  <2>1. Typed /\ WindowsHear /\ o \in Opens BY <1>3 DEF BInv, Opens
  <2>2. held[a.life] \in EndingForms(Len(births)) /\ held[a.life] # NoLife
    BY <1>3, <1>6, <2>1, HeldForm DEF EndingNow, NoLife
  <2>3. \A g \in EndingForms(Len(births)), s \in Seq(Opens) : [g EXCEPT !.waiting = s] \in EndingForms(Len(births))
          /\ [g EXCEPT !.waiting = s].born = g.born /\ [g EXCEPT !.waiting = s].stage = "ending"
    BY DEF EndingForms
  <2>4. Append(held[a.life].waiting, o) \in Seq(Opens)
    <3>1. held[a.life].waiting \in Seq(Opens) BY <2>2 DEF EndingForms
    <3> HIDE DEF o
    <3> QED BY <2>1, <3>1, AppendProperties
  <2>5. h \in EndingForms(Len(births)) /\ h.born = held[a.life].born /\ h.stage = "ending"
    BY <2>2, <2>3, <2>4
  <2>6. held' = [held EXCEPT ![a.life] = h] BY <1>6
  <2> HIDE DEF h
  <2>7. h \in HeldForms(Len(births)) /\ h # NoLife BY <2>5 DEF HeldForms, NoLife
  <2>8. UNCHANGED <<births, lease>> /\ tellers' = tellers /\ tellers \subseteq (1 .. Len(births)) \X Peers
    BY <1>6, <2>1 DEF tasks, Typed
  <2>9. \A t \in tellers : t[1] = h.born => Over(h.born)
    <3>1. births[h.born].life = a.life BY <1>3, <2>2, <2>5 DEF BInv, Owned
    <3>2. ~Living(a.life) BY <1>6 DEF EndingNow, Living
    <3> QED BY <2>1, <3>1, <3>2 DEF WindowsHear
  <2>10. h.stage # "living" BY <2>5
  <2> QED BY <1>3, <1>4, <2>2, <2>5, <2>6, <2>7, <2>8, <2>9, <2>10, HeardHeld
<1>7. CASE held[a.life] = NoLife /\ Births(a.life, IF a.attach THEN {a.from} ELSE {})
  <2>1. PICK ps \in SUBSET Peers : Births(a.life, ps)
    BY <1>3, <1>7
  <2> QED BY <1>3, <1>4, <1>7, <2>1, BirthsKeep
<1> QED BY <1>5, <1>6, <1>7 DEF HearOpen

LEMMA HearAttachBirths == ASSUME BInv, IInv', HearAttach PROVE BInv'
<1> DEFINE a == asks[1]
<1>1. Hears("attach") /\ "attach" \in Says BY DEF HearAttach, Says
<1>2. UNCHANGED peers \/ \E ps : Answered(ps) BY DEF HearAttach
<1>3. /\ Serves /\ asks # <<>> /\ asks' = Tail(asks) /\ a.say # "left"
      /\ a.life \in Lives /\ a.from \in Peers
      /\ peers' \in [Peers -> PeerForms] /\ pinned' \in [Lives -> SUBSET Pins]
  <2>1. pinned' = pinned BY DEF HearAttach
  <2> QED BY <1>1, <1>2, <2>1, HeardVerbs
<1>4. UNCHANGED <<at, handed, givenUp, verbs, faults>> BY DEF HearAttach, counts
<1>5. CASE Living(a.life)
  <2>1. Attaches(a.life, a.from) BY <1>5 DEF HearAttach
  <2> QED BY <1>3, <1>4, <1>5, <2>1, AttachBirths
<1>6. CASE ~Living(a.life)
  <2>1. UNCHANGED <<held, tasks>> BY <1>6 DEF HearAttach
  <2> QED BY <1>3, <1>4, <1>6, <2>1, HeardNothing DEF tasks
<1> QED BY <1>5, <1>6

\* A window lets go, asked by itself or told by its teller.
LEMMA DetachBirths ==
  ASSUME BInv, IInv', Serves, asks # <<>>, asks' = Tail(asks), UNCHANGED <<at, handed, pinned, givenUp, verbs, faults>>,
         peers' \in [Peers -> PeerForms], asks[1].life \in Lives, asks[1].from \in Peers, Detaches(asks[1])
  PROVE  BInv'
<1> DEFINE l == asks[1].life
           p == asks[1].from
           h == Detached(held[l], p)
<1>0. Typed /\ WindowsHear /\ pinned' \in [Lives -> SUBSET Pins] BY DEF BInv, Typed
<1>1. CASE ~Living(l)
  <2>1. UNCHANGED <<held, births, lease, tellers>> BY <1>1 DEF Detaches, tasks
  <2> QED BY <1>0, <1>1, <2>1, HeardNothing
<1>2. CASE Living(l)
  <2>1. held[l] # NoLife /\ held[l] \in LivingForms(Len(births)) BY <1>0, <1>2, HeldForm DEF Living, NoLife
  <2>2. h \in LivingForms(Len(births)) /\ h.born = held[l].born /\ h.windows = held[l].windows \ {p}
        /\ h.stage = "living"
    BY <2>1 DEF LivingForms, Detached, Settle, Idles
  <2>3. held' = [held EXCEPT ![l] = h] /\ tellers' = tellers \ {<<held[l].born, p>>} /\ UNCHANGED <<births, lease>>
    BY <1>2 DEF Detaches
  <2> HIDE DEF h
  <2>4. h \in HeldForms(Len(births)) /\ h # NoLife /\ h.born \in 1 .. Len(births)
    BY <2>2 DEF HeldForms, LivingForms, NoLife
  <2>5. tellers' \subseteq (1 .. Len(births)) \X Peers
    BY <1>0, <2>3 DEF Typed
  <2>6. \A t \in tellers' : t[1] = h.born => Over(h.born) \/ t[2] \in h.windows
    <3> SUFFICES ASSUME NEW t \in tellers', t[1] = h.born PROVE Over(h.born) \/ t[2] \in h.windows
      OBVIOUS
    <3>1. births[held[l].born].life = l BY <2>1 DEF BInv, Owned
    <3>2. Over(t[1]) \/ t[2] \in held[l].windows BY <1>0, <2>2, <2>3, <3>1 DEF WindowsHear
    <3>3. t = <<t[1], t[2]>> BY <2>5
    <3>4. t[2] # p BY <2>2, <2>3, <3>3
    <3> QED BY <2>2, <3>2, <3>4
  <2>7. ASSUME NEW q \in h.windows
        PROVE  \/ <<h.born, q>> \in tellers' \/ Over(h.born)
               \/ q \in held[l].windows /\ Living(l) /\ asks[1] # [say |-> "left", life |-> l, from |-> q]
                  /\ \E i \in DOMAIN asks : asks[i] = [say |-> "left", life |-> l, from |-> q]
    <3>1. q \in held[l].windows /\ q # p BY <2>2
    <3>2. \/ <<held[l].born, q>> \in tellers \/ Over(held[l].born)
          \/ \E i \in DOMAIN asks : asks[i] = [say |-> "left", life |-> l, from |-> q]
      BY <1>0, <1>2, <3>1 DEF WindowsHear
    <3>3. asks[1] # [say |-> "left", life |-> l, from |-> q] BY <3>1
    <3> QED BY <1>2, <2>2, <2>3, <3>1, <3>2, <3>3
  <2>8. \A t \in tellers' : t \in tellers BY <2>3
  <2>9. \A t \in tellers : t[1] = h.born \/ t \in tellers' BY <2>2, <2>3
  <2> HIDE DEF l, p
  <2> QED BY <1>0, <1>2, <2>1, <2>2, <2>3, <2>4, <2>5, <2>6, <2>7, <2>8, <2>9, HeardHeld DEF l
<1> QED BY <1>1, <1>2

LEMMA HearDetachBirths == ASSUME BInv, IInv', HearDetach \/ HearLeft PROVE BInv'
<1>1. CASE HearDetach
  <2>1. Hears("detach") /\ "detach" \in Says BY <1>1 DEF HearDetach, Says
  <2>2. UNCHANGED peers \/ \E ps : Answered(ps) BY <1>1 DEF HearDetach
  <2>3. UNCHANGED <<at, handed, pinned, givenUp, verbs, faults>> /\ Detaches(asks[1])
    BY <1>1 DEF HearDetach, counts
  <2> QED BY <2>1, <2>2, <2>3, HeardVerbs, DetachBirths
<1>2. CASE HearLeft
  <2>1. UNCHANGED <<at, handed, pinned, givenUp, verbs, faults>> /\ Detaches(asks[1]) /\ Hears("left")
        /\ peers' = peers
    BY <1>2 DEF HearLeft, counts
  <2>2. Typed /\ Waits /\ peers' \in [Peers -> PeerForms] BY <2>1 DEF BInv, Typed
  <2>3. Serves /\ asks # <<>> /\ asks' = Tail(asks) /\ asks[1].life \in Lives /\ asks[1].from \in Peers
    BY <2>1, <2>2, HeardForms
  <2> QED BY <2>1, <2>2, <2>3, DetachBirths
<1> QED BY <1>1, <1>2

\* The pins of a life change, and nothing else of it but its grace.
LEMMA PinBirths ==
  ASSUME BInv, IInv', Serves, asks # <<>>, asks' = Tail(asks), UNCHANGED <<at, tasks, handed, givenUp, counts>>,
         peers' \in [Peers -> PeerForms], pinned' \in [Lives -> SUBSET Pins], asks[1].say # "left",
         NEW l \in Lives, Living(l), NEW h \in LivingForms(Len(births)), held' = [held EXCEPT ![l] = h],
         h.born = held[l].born, h.windows = held[l].windows
  PROVE  BInv'
<1>1. Typed /\ WindowsHear /\ held[l] # NoLife BY DEF BInv, Living, NoLife
<1>2. h \in HeldForms(Len(births)) /\ h # NoLife /\ h.stage = "living"
  BY DEF HeldForms, LivingForms, NoLife
<1>3. UNCHANGED <<at, births, lease, handed, givenUp, verbs, faults>> /\ tellers' = tellers
      /\ tellers \subseteq (1 .. Len(births)) \X Peers
  BY <1>1 DEF tasks, counts, Typed
<1>4. ASSUME NEW t \in tellers, t[1] = h.born PROVE Over(h.born) \/ t[2] \in h.windows
  <2>1. births[h.born].life = l BY <1>1 DEF BInv, Owned
  <2> QED BY <1>1, <1>4, <2>1 DEF WindowsHear
<1>5. ASSUME NEW p \in h.windows
      PROVE  \/ <<h.born, p>> \in tellers' \/ Over(h.born)
             \/ p \in held[l].windows /\ Living(l) /\ asks[1] # [say |-> "left", life |-> l, from |-> p]
                /\ \E i \in DOMAIN asks : asks[i] = [say |-> "left", life |-> l, from |-> p]
  BY <1>1, <1>3 DEF WindowsHear
<1> QED BY <1>1, <1>2, <1>3, <1>4, <1>5, HeardHeld

LEMMA HearPinBirths == ASSUME BInv, IInv', HearPin \/ HearUnpin PROVE BInv'
<1> DEFINE a == asks[1]
<1>1. PICK say \in {"pin", "unpin"} : Hears(say) BY DEF HearPin, HearUnpin
<1>2. UNCHANGED <<at, tasks, handed, givenUp, counts>> /\ \E ps : Answered(ps)
  BY DEF HearPin, HearUnpin
<1>3. /\ Serves /\ asks # <<>> /\ asks' = Tail(asks) /\ a.say # "left" /\ a.with \in Pins
      /\ a.life \in Lives /\ peers' \in [Peers -> PeerForms] /\ pinned \in [Lives -> SUBSET Pins]
  <2>1. say \in Says BY DEF Says
  <2>2. a \in VerbForms /\ a.say = say BY <1>1, <1>2, <2>1, HeardVerbs
  <2>3. a.with \in Pins BY <2>2 DEF VerbForms
  <2> QED BY <1>1, <1>2, <2>1, <2>3, HeardVerbs
<1>4. CASE Living(a.life)
  <2>1. Typed BY DEF BInv
  <2>2. held[a.life] \in LivingForms(Len(births)) BY <1>3, <1>4, <2>1, HeldForm
  <2>3. \A g \in LivingForms(Len(births)) : \A w \in Pins :
          /\ Pinned(g, w) \in LivingForms(Len(births)) /\ Unpinned(g, w) \in LivingForms(Len(births))
          /\ Pinned(g, w).born = g.born /\ Pinned(g, w).windows = g.windows
          /\ Unpinned(g, w).born = g.born /\ Unpinned(g, w).windows = g.windows
    <3>1. \A g \in LivingForms(Len(births)) : \A qs \in SUBSET Pins :
            /\ [g EXCEPT !.pins = qs] \in LivingForms(Len(births))
            /\ [g EXCEPT !.pins = qs].born = g.born /\ [g EXCEPT !.pins = qs].windows = g.windows
      BY DEF LivingForms
    <3>2. \A g \in LivingForms(Len(births)) : Settle(g) \in LivingForms(Len(births))
            /\ Settle(g).born = g.born /\ Settle(g).windows = g.windows
      BY DEF LivingForms, Settle, Idles
    <3>3. ASSUME NEW g \in LivingForms(Len(births)), NEW w \in Pins
          PROVE  g.pins \cup {w} \in SUBSET Pins /\ g.pins \ {w} \in SUBSET Pins
      BY DEF LivingForms
    <3> QED BY <3>1, <3>2, <3>3 DEF Pinned, Unpinned
  <2>4. PICK h \in {Pinned(held[a.life], a.with), Unpinned(held[a.life], a.with)} : held' = [held EXCEPT ![a.life] = h]
    BY <1>4 DEF HearPin, HearUnpin
  <2>5. pinned' \in [Lives -> SUBSET Pins]
    <3>1. pinned' = [pinned EXCEPT ![a.life] = @ \cup {a.with}] \/ pinned' = [pinned EXCEPT ![a.life] = @ \ {a.with}]
      BY <1>4 DEF HearPin, HearUnpin
    <3> HIDE DEF a
    <3> QED BY <1>3, <3>1
  <2>6. h \in LivingForms(Len(births)) /\ h.born = held[a.life].born /\ h.windows = held[a.life].windows
    BY <1>3, <2>2, <2>3, <2>4
  <2> QED BY <1>2, <1>3, <1>4, <2>4, <2>5, <2>6, PinBirths
<1>5. CASE ~Living(a.life)
  <2>1. UNCHANGED <<held, pinned>> BY <1>5 DEF HearPin, HearUnpin
  <2> QED BY <1>2, <1>3, <1>5, <2>1, HeardNothing DEF tasks, counts
<1> QED BY <1>4, <1>5

\* The end of a birth, which came before it is told.
LEMMA HearEndedBirths == ASSUME BInv, IInv', HearEnded PROVE BInv'
<1> DEFINE b == asks[1].birth
           l == births[b].life
           waits == IF EndingNow(l) THEN Range(held[l].waiting) ELSE {}
           ps == {o.from : o \in {w \in waits : w.attach}}
<1>1. Typed /\ Waits /\ Hears("ended") BY DEF BInv, HearEnded
<1>2. Serves /\ asks # <<>> /\ asks' = Tail(asks) /\ asks[1].say = "ended" /\ b \in 1 .. Len(births)
  BY <1>1, HeardForms
<1>3. Over(b)
  <2>1. 1 \in 1 .. Len(asks) BY <1>1, <1>2 DEF Typed
  <2> QED BY <1>1, <1>2, <2>1 DEF Waits
<1>4. l \in Lives BY <1>1, <1>2, BirthTypes
<1>5. peers' \in [Peers -> PeerForms] /\ pinned \in [Lives -> SUBSET Pins]
      /\ UNCHANGED <<at, handed, givenUp, verbs, faults>>
  BY <1>1, AnswerTypes DEF HearEnded, Typed, counts
<1>6. ps \subseteq Peers
  <2>1. EndingNow(l) => held[l].waiting \in Seq(Opens)
    BY <1>1, <1>4, HeldForm DEF EndingForms
  <2>2. \A s \in Seq(Opens) : Range(s) \subseteq Opens BY DEF Range
  <2>3. waits \subseteq Opens BY <2>1, <2>2
  <2> QED BY <2>3 DEF Opens
<1>7. asks[1].say # "left" BY <1>2
<1> HIDE DEF waits
<1>8. \/ (held[l] = NoLife \/ held[l].born # b) /\ UNCHANGED <<held, tasks, pinned>>
      \/ /\ held[l] # NoLife /\ held[l].born = b /\ pinned' = [pinned EXCEPT ![l] = {}]
         /\ (held' = [held EXCEPT ![l] = NoLife] /\ UNCHANGED tasks) \/ Births(l, ps)
  BY DEF HearEnded, waits
<1> HIDE DEF ps, l
<1>9. CASE UNCHANGED <<held, tasks, pinned>>
  BY <1>2, <1>5, <1>7, <1>9, HeardNothing DEF tasks
<1>10. CASE held[l] # NoLife /\ held[l].born = b /\ pinned' = [pinned EXCEPT ![l] = {}]
  <2>1. pinned' \in [Lives -> SUBSET Pins] BY <1>5, <1>10
  <2>2. Over(held[l].born) BY <1>3, <1>10
  <2>3. CASE held' = [held EXCEPT ![l] = NoLife] /\ UNCHANGED tasks
    BY <1>2, <1>4, <1>5, <1>7, <1>10, <2>1, <2>2, <2>3, LetGoKeeps DEF tasks
  <2>4. CASE Births(l, ps)
    BY <1>2, <1>4, <1>5, <1>6, <1>7, <2>1, <2>2, <2>4, BirthsKeep
  <2> QED BY <1>8, <1>10, <2>3, <2>4
<1> QED BY <1>8, <1>9, <1>10

-----------------------------------------------------------------------------
(* The handover.                                                            *)

LEMMA HearHandoverBirths == ASSUME BInv, IInv', HearHandover PROVE BInv'
<1> DEFINE lives == {l \in Lives : held[l] # NoLife}
           n == Len(births)
<1>1. Typed /\ Owned /\ Accounted /\ WindowsHear /\ at = "first" /\ at' = "gives" /\ asks' = <<>> /\ lease' = lease
      /\ pinned' = pinned /\ givenUp' = givenUp /\ verbs' = verbs /\ faults' = faults
  BY DEF BInv, HearHandover, counts
<1>2. /\ births' \in Seq(BirthRecords) /\ Len(births') = n
      /\ \A b \in 1 .. n : births'[b].phase = births[b].phase /\ births'[b].life = births[b].life
                           /\ births'[b].by = births[b].by
  BY <1>1, AskedTypes DEF HearHandover
<1>3. /\ \A l \in Lives : handed[l] = NoLife
      /\ handed' = [l \in Lives |-> IF l \in lives THEN Given(l) ELSE NoLife]
      /\ held' = [l \in Lives |-> NoLife]
  BY <1>1 DEF BInv, IInv, HearHandover, Serves
<1>4. ASSUME NEW l \in lives
      PROVE  handed'[l] \in GivenForms(n) /\ handed'[l].born = held[l].born /\ handed'[l] # NoLife
             /\ held[l].born \in 1 .. n
  <2>1. held[l].born \in 1 .. n BY <1>1, HeldForm
  <2>2. Living(l) => held[l].pins \subseteq Pins BY <1>1, HeldForm DEF LivingForms
  <2>3. handed'[l] = Given(l) BY <1>3
  <2> QED BY <2>1, <2>2, <2>3 DEF Given, GivenForms, NoLife
<1>5. Typed'
  <2>1. held' \in [Lives -> HeldForms(n)] BY <1>3 DEF HeldForms
  <2>2. handed' \in [Lives -> {NoLife} \cup GivenForms(n)]
    <3>1. \A l \in Lives : handed'[l] \in {NoLife} \cup GivenForms(n) BY <1>3, <1>4
    <3> QED BY <1>3, <3>1
  <2>3. peers' \in [Peers -> PeerForms] BY <1>1, AnswerTypes DEF HearHandover
  <2>4. tellers' \subseteq tellers BY DEF HearHandover
  <2>5. asks' \in Seq(AskForms(n)) BY <1>1, EmptySeq
  <2>6. at' \in Places BY <1>1 DEF Places
  <2> QED BY <1>1, <1>2, <2>1, <2>2, <2>3, <2>4, <2>5, <2>6 DEF Typed
<1>6. Owned'
  <2> SUFFICES ASSUME NEW l \in Lives
               PROVE  /\ handed'[l] # NoLife => births'[handed'[l].born].life = l
                      /\ lease[l] # NONE => births'[lease[l]].life = l /\ births'[lease[l]].phase = "runs"
    BY <1>1, <1>3 DEF Owned
  <2>1. lease[l] # NONE => lease[l] \in 1 .. n BY <1>1 DEF Typed
  <2>2. CASE l \in lives BY <1>1, <1>2, <1>4, <2>1, <2>2 DEF Owned
  <2>3. CASE l \notin lives BY <1>1, <1>2, <1>3, <2>1, <2>3 DEF Owned
  <2> QED BY <2>2, <2>3
<1>7. Accounted'
  <2>1. givenUp \subseteq 1 .. n BY <1>1 DEF Typed
  <2>2. ASSUME NEW l, GivenUp(l) PROVE \E g \in givenUp : births'[g].life = l
    BY <1>2, <2>1, <2>2 DEF GivenUp
  <2>3. ASSUME NEW b \in 1 .. n
        PROVE  LET k == births[b].life IN
               /\ Active(b) => (handed'[k] # NoLife /\ handed'[k].born = b) \/ GivenUp(k)
               /\ births[b].phase = "refused" => GivenUp(k)
    <3> DEFINE k == births[b].life
    <3>1. k \in Lives BY <1>1, BirthTypes
    <3>2. Active(b) => (held[k] # NoLife /\ held[k].born = b) \/ GivenUp(k)
      BY <1>1, <1>3, <3>1 DEF Accounted, HoldsBirth
    <3>3. births[b].phase = "refused" => GivenUp(k) BY <1>1 DEF Accounted
    <3> HIDE DEF k
    <3> QED BY <1>4, <3>1, <3>2, <3>3 DEF k
  <2>4. ASSUME NEW b \in 1 .. n
        PROVE  LET k == births'[b].life IN
               /\ births'[b].phase \in {"opens", "runs"} =>
                    (handed'[k] # NoLife /\ handed'[k].born = b) \/ \E g \in givenUp' : births'[g].life = k
               /\ births'[b].phase = "refused" => \E g \in givenUp' : births'[g].life = k
    <3>1. births'[b].phase = births[b].phase /\ births'[b].life = births[b].life BY <1>2
    <3> DEFINE k == births[b].life
    <3>2. /\ Active(b) => (handed'[k] # NoLife /\ handed'[k].born = b) \/ GivenUp(k)
          /\ births[b].phase = "refused" => GivenUp(k)
      BY <2>3
    <3>3. GivenUp(k) => \E g \in givenUp' : births'[g].life = k BY <1>1, <2>2
    <3> HIDE DEF k
    <3>4. births'[b].life = k BY <3>1 DEF k
    <3> QED BY <3>1, <3>2, <3>3, <3>4 DEF Active
  <2> QED BY <1>2, <2>4 DEF Accounted, Active, HoldsBirth, GivenUp
<1>8. Waits' BY <1>1, EmptySeq DEF Waits, Serves
<1>9. WindowsHear'
  <2>1. \A l \in Lives : ~Living(l)' BY <1>3 DEF Living, NoLife
  <2>2. ASSUME NEW t \in tellers' PROVE births'[t[1]].phase \in {"over", "refused"}
    <3>1. t \in tellers BY <2>2 DEF HearHandover
    <3>2. t[1] \in 1 .. n /\ t[2] \in Peers /\ t = <<t[1], t[2]>> BY <1>1, <3>1 DEF Typed
    <3> DEFINE k == births[t[1]].life
    <3>3. k \in Lives BY <1>1, <3>2, BirthTypes
    <3>4. Over(t[1]) \/ (Living(k) /\ held[k].born = t[1]) BY <1>1, <3>1 DEF WindowsHear
    <3> HIDE DEF k
    <3>5. ~(Living(k) /\ held[k].born = t[1])
      <4> SUFFICES ASSUME Living(k), held[k].born = t[1] PROVE FALSE OBVIOUS
      <4>1. k \in lives BY <3>3 DEF Living, NoLife
      <4>2. t \in {<<held[l].born, p>> : l \in {j \in lives : Living(j)}, p \in Peers} BY <3>2, <4>1
      <4>3. t \notin {<<held[l].born, p>> : l \in {j \in lives : Living(j)}, p \in Peers}
        BY <2>2 DEF HearHandover
      <4> QED BY <4>2, <4>3
    <3> QED BY <1>2, <3>2, <3>4, <3>5 DEF Over
  <2> QED BY <2>1, <2>2 DEF WindowsHear, Over
<1> QED BY <1>5, <1>6, <1>7, <1>8, <1>9 DEF BInv

LEMMA GivesUpBirths == ASSUME BInv, IInv', NEW l \in Lives, GivesUp(l) PROVE BInv'
<1>1. Typed /\ Owned /\ Accounted /\ Waits /\ WindowsHear BY DEF BInv
<1>2. /\ UNCHANGED <<at, held, asks, births, lease, tellers, peers, handed, pinned, verbs, faults>>
      /\ givenUp' = givenUp \cup {handed[l].born} /\ handed[l] # NoLife
  BY DEF GivesUp, tasks, counts
<1>3. handed[l].born \in 1 .. Len(births) BY <1>1, <1>2, HeldForm
<1>4. Typed' BY <1>1, <1>2, <1>3 DEF Typed
<1>5. Owned' BY <1>1, <1>2 DEF Owned, Active
<1>6. Accounted'
  <2>1. \A k : GivenUp(k) => GivenUp(k)' BY <1>2 DEF GivenUp
  <2> QED BY <1>1, <1>2, <2>1 DEF Accounted, Active, HoldsBirth
<1>7. Waits' BY <1>1, <1>2 DEF Waits, Serves, Over
<1>8. WindowsHear' BY <1>1, <1>2 DEF WindowsHear, Living, Over
<1> QED BY <1>4, <1>5, <1>6, <1>7, <1>8 DEF BInv

LEMMA GaveBirths == ASSUME BInv, IInv', Gave PROVE BInv'
<1>1. Typed /\ Owned /\ Accounted /\ Waits /\ WindowsHear BY DEF BInv
<1>2. /\ UNCHANGED <<held, asks, births, lease, tellers, peers, handed, pinned, givenUp, verbs, faults>>
      /\ at = "gives" /\ at' = "handed"
  BY DEF Gave, tasks, counts
<1>3. \A l \in Lives : held[l] = NoLife BY <1>2 DEF BInv, IInv, Serves
<1>4. Typed' BY <1>1, <1>2 DEF Typed, Places
<1>5. Owned'
  <2>1. \A l \in Lives : handed[l] # NoLife => ~Active(handed[l].born) \/ handed[l].born \in givenUp
    BY DEF Gave, Active
  <2> QED BY <1>1, <1>2, <1>3, <2>1 DEF Owned, Active
<1>6. Accounted' BY <1>1, <1>2 DEF Accounted, Active, HoldsBirth, GivenUp
<1>7. Waits' BY <1>1, <1>2, EmptySeq DEF Waits, Serves
<1>8. WindowsHear' BY <1>1, <1>2 DEF WindowsHear, Living, Over
<1> QED BY <1>4, <1>5, <1>6, <1>7, <1>8 DEF BInv

\* The sequence of a finite set lists each of its members once.
LEMMA ListsEach ==
  ASSUME NEW S, IsFiniteSet(S), NEW s, s = SetToSeq(S)
  PROVE  /\ s \in Seq(S) /\ Len(s) \in Nat /\ DOMAIN s = 1 .. Len(s) /\ IsInjective(s)
         /\ \A i \in 1 .. Len(s) : s[i] \in S
         /\ \A x \in S : \E i \in 1 .. Len(s) : s[i] = x
<1> DEFINE n == Cardinality(S)
<1>1. n \in Nat /\ ExistsBijection(1 .. n, S) BY FS_CardinalityType
<1>2. \E f \in [1 .. n -> S] : IsInjective(f)
  BY <1>1 DEF ExistsBijection, Bijection, Injection
<1>3. s \in [1 .. n -> S] /\ IsInjective(s) BY <1>2 DEF SetToSeq
<1>4. s \in Injection(1 .. n, S) BY <1>3 DEF Injection
<1>5. IsFiniteSet(1 .. n) /\ Cardinality(1 .. n) = n
  <2>1. 1 \in Int /\ n \in Int BY <1>1
  <2>2. Cardinality(1 .. n) = IF 1 > n THEN 0 ELSE n - 1 + 1 BY <2>1, FS_Interval
  <2> QED BY <1>1, <2>1, <2>2, FS_Interval
<1>6. s \in Surjection(1 .. n, S) BY <1>4, <1>5, FS_Injection
<1> HIDE DEF n
<1>7. s \in Seq(S) /\ Len(s) = n BY <1>1, <1>3
<1> QED BY <1>1, <1>3, <1>6, <1>7 DEF Surjection

\* The new daemon opens the lives again: a birth that goes on in the old process was given up.
LEMMA AdoptBirths == ASSUME BInv, IInv', Adopt PROVE BInv'
<1> DEFINE S == {l \in Lives : handed[l] # NoLife}
           lives == SetToSeq(S)
           n == Len(births)
           m == Len(lives)
           new == [i \in DOMAIN lives |-> Born(lives[i], "second")]
           b(l) == n + CHOOSE i \in DOMAIN lives : lives[i] = l
<1>1. Typed /\ Owned /\ Accounted /\ Waits /\ WindowsHear /\ at = "handed" /\ n \in Nat
      /\ births \in Seq(BirthRecords)
  BY BirthTypes DEF BInv, Adopt
<1>2. /\ at' = "second" /\ births' = births \o new
      /\ held' = [l \in Lives |-> IF handed[l] = NoLife THEN NoLife ELSE BornPinned(b(l), handed[l].pins)]
      /\ handed' = [l \in Lives |-> NoLife]
      /\ UNCHANGED <<asks, lease, tellers, peers, pinned, givenUp, verbs, faults>>
  BY DEF Adopt, counts
<1>3. /\ lives \in Seq(S) /\ m \in Nat /\ DOMAIN lives = 1 .. m /\ IsInjective(lives)
      /\ \A i \in 1 .. m : lives[i] \in S
      /\ \A l \in S : \E i \in 1 .. m : lives[i] = l
  <2>1. IsFiniteSet(S) BY DaemonAssumption, FS_Subset
  <2> HIDE DEF S
  <2> QED BY <2>1, ListsEach
<1>4. asks = <<>> /\ \A l \in Lives : held[l] = NoLife
  BY <1>1 DEF Waits, Serves, BInv, IInv
<1>5. ASSUME NEW l \in S PROVE b(l) \in (n + 1) .. (n + m) /\ lives[b(l) - n] = l
  <2> DEFINE j == CHOOSE i \in DOMAIN lives : lives[i] = l
  <2>1. j \in 1 .. m /\ lives[j] = l BY <1>3
  <2> HIDE DEF j
  <2>2. b(l) = n + j BY DEF j
  <2> QED BY <1>1, <1>3, <2>1, <2>2
<1> HIDE DEF lives, m
<1>6. /\ new \in Seq(BirthRecords) /\ Len(new) = m
      /\ \A i \in 1 .. m : new[i] = Born(lives[i], "second")
  <2>1. \A i \in 1 .. m : Born(lives[i], "second") \in BirthRecords
    BY <1>3 DEF Born, BirthRecords, Phases
  <2>2. new \in [1 .. m -> BirthRecords] BY <1>3, <2>1
  <2> QED BY <1>3, <2>2
<1> HIDE DEF new
<1>7. /\ births' \in Seq(BirthRecords) /\ Len(births') = n + m
      /\ \A c \in 1 .. n : births'[c] = births[c]
      /\ \A i \in 1 .. m : births'[n + i] = Born(lives[i], "second")
  <2>1. /\ births \o new \in Seq(BirthRecords) /\ Len(births \o new) = n + m
        /\ \A i \in 1 .. n + m : (births \o new)[i] = IF i <= n THEN births[i] ELSE new[i - n]
    BY <1>1, <1>6, ConcatProperties
  <2>2. \A i \in 1 .. m : n + i \in 1 .. n + m /\ ~(n + i <= n) /\ n + i - n = i BY <1>1, <1>3
  <2>3. \A c \in 1 .. n : c \in 1 .. n + m /\ c <= n BY <1>1, <1>3
  <2> QED BY <1>2, <1>6, <2>1, <2>2, <2>3
<1> HIDE DEF n
<1>8. ASSUME NEW l \in S
      PROVE  /\ held'[l] \in LivingForms(n + m) /\ held'[l] # NoLife
             /\ held'[l].born = b(l) /\ held'[l].windows = {}
             /\ births'[b(l)].life = l /\ births'[b(l)].by = "second"
  <2> DEFINE ps == handed[l].pins
  <2>1. handed[l] \in GivenForms(n) BY <1>1, HeldForm DEF n
  <2>2. ps \in SUBSET Pins BY <2>1 DEF GivenForms
  <2>3. held'[l] = BornPinned(b(l), ps) BY <1>2
  <2> HIDE DEF ps, b, S
  <2>4. PICK c \in (n + 1) .. (n + m) : c = b(l) /\ lives[c - n] = l
    BY <1>5
  <2>40. c \in 1 .. n + m /\ c - n \in 1 .. m /\ n + (c - n) = c
    BY <1>1, <1>3, <2>4 DEF n
  <2>5. [NewBirth(c) EXCEPT !.pins = ps] \in LivingForms(n + m)
          /\ [NewBirth(c) EXCEPT !.pins = ps].born = c /\ [NewBirth(c) EXCEPT !.pins = ps].windows = {}
    BY <2>2, <2>40 DEF NewBirth, LivingForms, Idles
  <2>6. \A g \in LivingForms(n + m) : Settle(g) \in LivingForms(n + m) /\ Settle(g).born = g.born
                                       /\ Settle(g).windows = g.windows /\ g # NoLife
    BY DEF LivingForms, Settle, Idles, NoLife
  <2>7. births'[c] = Born(l, "second") BY <1>7, <2>4, <2>40
  <2>8. held'[l] \in LivingForms(n + m) /\ held'[l] # NoLife /\ held'[l].born = c /\ held'[l].windows = {}
    BY <2>3, <2>4, <2>5, <2>6 DEF BornPinned
  <2> QED BY <2>4, <2>7, <2>8 DEF Born
<1>9. \A l \in Lives : l \notin S => held'[l] = NoLife BY <1>2
<1> HIDE DEF b
<1>10. Typed'
  <2>1. held' \in [Lives -> HeldForms(n + m)]
    <3>1. \A l \in Lives : held'[l] \in HeldForms(n + m) BY <1>8, <1>9 DEF HeldForms
    <3> QED BY <1>2, <3>1
  <2>2. n + m \in Nat /\ 1 .. n \subseteq 1 .. (n + m) BY <1>1, <1>3 DEF n
  <2>3. lease' \in [Lives -> {NONE} \cup 1 .. (n + m)] /\ givenUp' \subseteq 1 .. (n + m)
        /\ tellers' \subseteq (1 .. (n + m)) \X Peers
    BY <1>1, <1>2, <2>2 DEF Typed, n
  <2>4. asks' \in Seq(AskForms(n + m)) BY <1>2, <1>4, EmptySeq
  <2>5. at' \in Places /\ handed' \in [Lives -> {NoLife} \cup GivenForms(n + m)] BY <1>2 DEF Places
  <2>6. pinned' \in [Lives -> SUBSET Pins] /\ verbs' \in 0 .. MaxVerbs /\ faults' \in 0 .. MaxFaults
        /\ peers' \in [Peers -> PeerForms]
    BY <1>1, <1>2 DEF Typed
  <2> QED BY <1>7, <2>1, <2>3, <2>4, <2>5, <2>6 DEF Typed
<1>11. Owned'
  <2> SUFFICES ASSUME NEW l \in Lives
               PROVE  /\ held'[l] # NoLife => births'[held'[l].born].life = l /\ births'[held'[l].born].by = at'
                      /\ lease[l] # NONE => births'[lease[l]].life = l /\ births'[lease[l]].phase = "runs"
    BY <1>2 DEF Owned
  <2>1. held'[l] # NoLife => births'[held'[l].born].life = l /\ births'[held'[l].born].by = at'
    <3> HIDE DEF S
    <3>1. CASE l \in S BY <1>2, <1>8, <3>1
    <3>2. CASE l \notin S BY <1>9, <3>2
    <3> QED BY <3>1, <3>2
  <2>2. lease[l] # NONE => lease[l] \in 1 .. n BY <1>1 DEF Typed, n
  <2> QED BY <1>1, <1>7, <2>1, <2>2 DEF Owned
<1>12. Accounted'
  <2>1. ASSUME NEW l, GivenUp(l) PROVE \E g \in givenUp : births'[g].life = l
    <3>1. givenUp \subseteq 1 .. n BY <1>1 DEF Typed, n
    <3> QED BY <1>7, <2>1, <3>1 DEF GivenUp
  <2>2. ASSUME NEW c \in 1 .. n
        PROVE  LET k == births[c].life IN births[c].phase \in {"opens", "runs", "refused"} => GivenUp(k)
    <3> DEFINE k == births[c].life
    <3>1. k \in Lives BY <1>1, BirthTypes DEF n
    <3>2. births[c].phase = "refused" => GivenUp(k) BY <1>1 DEF Accounted, n
    <3>3. Active(c) => HoldsBirth(k, c) \/ GivenUp(k) BY <1>1 DEF Accounted, n
    <3>4. Active(c) /\ HoldsBirth(k, c) => c \in givenUp BY <1>1, <1>4, <3>1 DEF HoldsBirth, Owned
    <3>5. c \in givenUp => GivenUp(k) BY DEF GivenUp
    <3> HIDE DEF k
    <3> QED BY <3>2, <3>3, <3>4, <3>5 DEF Active, k
  <2>3. ASSUME NEW c \in 1 .. n + m
        PROVE  LET k == births'[c].life IN
               /\ births'[c].phase \in {"opens", "runs"} =>
                    (held'[k] # NoLife /\ held'[k].born = c) \/ \E g \in givenUp : births'[g].life = k
               /\ births'[c].phase = "refused" => \E g \in givenUp : births'[g].life = k
    <3>1. CASE c \in 1 .. n BY <1>7, <2>1, <2>2, <3>1
    <3>2. CASE c \notin 1 .. n
      <4>1. c - n \in 1 .. m /\ n + (c - n) = c BY <1>1, <1>3, <3>2 DEF n
      <4> DEFINE k == lives[c - n]
      <4>2. births'[c] = Born(k, "second") /\ k \in S BY <1>3, <1>7, <4>1
      <4> HIDE DEF k, S
      <4>3. b(k) \in (n + 1) .. (n + m) /\ lives[b(k) - n] = k /\ held'[k] # NoLife /\ held'[k].born = b(k)
        BY <1>5, <1>8, <4>2
      <4>4. b(k) - n \in 1 .. m /\ n + (b(k) - n) = b(k) BY <1>1, <1>3, <4>3 DEF n
      <4>5. b(k) - n = c - n BY <1>3, <4>1, <4>3, <4>4 DEF IsInjective, k
      <4>6. b(k) = c BY <4>1, <4>4, <4>5
      <4> QED BY <4>2, <4>3, <4>6 DEF Born
    <3> QED BY <3>1, <3>2
  <2> QED BY <1>2, <1>7, <2>3 DEF Accounted, Active, HoldsBirth, GivenUp
<1>13. Waits' BY <1>2, <1>4, EmptySeq DEF Waits, Serves
<1>14. WindowsHear'
  <2>1. \A l \in Lives : held'[l].stage = "living" => held'[l].windows = {}
    BY <1>8, <1>9 DEF NoLife
  <2>2. ASSUME NEW t \in tellers PROVE births'[t[1]].phase \in {"over", "refused"}
    <3>1. t[1] \in 1 .. n BY <1>1 DEF Typed, n
    <3>2. births[t[1]].life \in Lives BY <1>1, <3>1, BirthTypes DEF n
    <3>3. ~Living(births[t[1]].life) BY <1>4, <3>2 DEF Living, NoLife
    <3> QED BY <1>1, <1>7, <3>1, <3>3 DEF WindowsHear, Over
  <2> QED BY <1>2, <2>1, <2>2 DEF WindowsHear, Living, Over
<1> QED BY <1>10, <1>11, <1>12, <1>13, <1>14 DEF BInv

\* The old process ends, and with it its births, their leases and its peers.
LEMMA ExitBirths == ASSUME BInv, IInv', OldExits PROVE BInv'
<1>1. Typed /\ Owned /\ Accounted /\ Waits /\ WindowsHear /\ at \in {"handed", "second"}
      /\ UNCHANGED <<at, held, asks, handed, pinned, givenUp, verbs, faults>>
  BY DEF BInv, OldExits, counts
<1> DEFINE n == Len(births)
<1>2. n \in Nat /\ DOMAIN births = 1 .. n /\ \A b \in 1 .. n : births[b] \in BirthRecords /\ births[b].life \in Lives
  BY <1>1, BirthTypes
<1>3. /\ births' = [b \in 1 .. n |-> IF b \in Old THEN [births[b] EXCEPT !.phase = "dead"] ELSE births[b]]
      /\ lease' = [l \in Lives |-> IF lease[l] \in Old THEN NONE ELSE lease[l]]
      /\ tellers' = {t \in tellers : t[1] \notin Old}
  BY <1>2 DEF OldExits
<1> HIDE DEF n
<1>4. /\ \A b \in 1 .. n : births'[b] \in BirthRecords /\ births'[b].life = births[b].life /\ births'[b].by = births[b].by
      /\ \A b \in 1 .. n : b \notin Old => births'[b] = births[b]
      /\ \A b \in 1 .. n : b \in Old => births'[b].phase = "dead"
  <2>1. \A x \in BirthRecords : [x EXCEPT !.phase = "dead"] \in BirthRecords /\ [x EXCEPT !.phase = "dead"].life = x.life
          /\ [x EXCEPT !.phase = "dead"].by = x.by /\ [x EXCEPT !.phase = "dead"].phase = "dead"
    BY DEF BirthRecords, Phases
  <2> QED BY <1>2, <1>3, <2>1
<1>5. births' \in Seq(BirthRecords) /\ Len(births') = n
  <2>1. births' \in [1 .. n -> BirthRecords] BY <1>3, <1>4
  <2> QED BY <1>2, <2>1
<1>6. \A b \in 1 .. n : births[b].by = "second" => b \notin Old BY DEF Old
<1>7. Typed'
  <2>1. peers' \in [Peers -> PeerForms] BY <1>1 DEF Typed, OldExits, PeerForms
  <2>2. lease' \in [Lives -> {NONE} \cup 1 .. n] /\ tellers' \subseteq (1 .. n) \X Peers
    BY <1>1, <1>3 DEF Typed, n
  <2> QED BY <1>1, <1>5, <2>1, <2>2 DEF Typed, n
<1>8. \A l \in Lives : /\ held[l] # NoLife => held[l].born \in 1 .. n /\ at = "second" /\ held[l].born \notin Old
                       /\ handed[l] # NoLife => handed[l].born \in 1 .. n
                       /\ lease'[l] # NONE => lease'[l] \in 1 .. n /\ lease'[l] = lease[l] /\ lease[l] \notin Old
  <2> SUFFICES ASSUME NEW l \in Lives
               PROVE  /\ held[l] # NoLife => held[l].born \in 1 .. n /\ at = "second" /\ held[l].born \notin Old
                      /\ handed[l] # NoLife => handed[l].born \in 1 .. n
                      /\ lease'[l] # NONE => lease'[l] \in 1 .. n /\ lease'[l] = lease[l] /\ lease[l] \notin Old
    OBVIOUS
  <2>1. held[l] # NoLife => held[l].born \in 1 .. n /\ births[held[l].born].by = at
    BY <1>1, HeldForm DEF Owned, n
  <2>2. held[l] # NoLife => at = "second" BY <1>1 DEF BInv, IInv, Serves
  <2>3. handed[l] # NoLife => handed[l].born \in 1 .. n BY <1>1, HeldForm DEF n
  <2>4. lease'[l] # NONE => lease'[l] \in 1 .. n /\ lease'[l] = lease[l] /\ lease[l] \notin Old
    <3>1. lease[l] \in {NONE} \cup 1 .. n BY <1>1 DEF Typed, n
    <3>2. lease'[l] = IF lease[l] \in Old THEN NONE ELSE lease[l] BY <1>3
    <3> QED BY <3>1, <3>2
  <2> QED BY <1>6, <2>1, <2>2, <2>3, <2>4
<1>9. Owned'
  <2> SUFFICES ASSUME NEW l \in Lives
               PROVE  /\ held[l] # NoLife => births'[held[l].born].life = l /\ births'[held[l].born].by = at
                      /\ handed[l] # NoLife => births'[handed[l].born].life = l
                      /\ lease'[l] # NONE => births'[lease'[l]].life = l /\ births'[lease'[l]].phase = "runs"
                      /\ at = "handed" /\ handed[l] # NoLife =>
                           births'[handed[l].born].phase \notin {"opens", "runs"} \/ handed[l].born \in givenUp
    BY <1>1 DEF Owned, Active
  <2>1. /\ held[l] # NoLife => births'[held[l].born].life = l /\ births'[held[l].born].by = at
        /\ handed[l] # NoLife => births'[handed[l].born].life = l
    BY <1>1, <1>4, <1>8 DEF Owned
  <2>2. lease'[l] # NONE => births'[lease'[l]].life = l /\ births'[lease'[l]].phase = "runs"
    BY <1>1, <1>4, <1>8 DEF Owned
  <2>3. at = "handed" /\ handed[l] # NoLife =>
          births'[handed[l].born].phase \notin {"opens", "runs"} \/ handed[l].born \in givenUp
    <3>1. \A b \in 1 .. n : ~Active(b) => births'[b].phase \notin {"opens", "runs"}
      BY <1>4 DEF Active
    <3> QED BY <1>1, <1>8, <3>1 DEF Owned
  <2> QED BY <2>1, <2>2, <2>3
<1>10. Accounted'
  <2>1. ASSUME NEW l, GivenUp(l) PROVE \E g \in givenUp : births'[g].life = l
    <3>1. givenUp \subseteq 1 .. n BY <1>1 DEF Typed, n
    <3> QED BY <1>4, <2>1, <3>1 DEF GivenUp
  <2>2. ASSUME NEW b \in 1 .. n
        PROVE  LET k == births[b].life IN
               /\ births'[b].phase \in {"opens", "runs"} => HoldsBirth(k, b) \/ \E g \in givenUp : births'[g].life = k
               /\ births'[b].phase = "refused" => \E g \in givenUp : births'[g].life = k
    <3>1. CASE b \in Old BY <1>4, <3>1
    <3>2. CASE b \notin Old
      <4>1. births'[b] = births[b] BY <1>4, <3>2
      <4>2. Active(b) => HoldsBirth(births[b].life, b) \/ GivenUp(births[b].life) BY <1>1 DEF Accounted, n
      <4>3. births[b].phase = "refused" => GivenUp(births[b].life) BY <1>1 DEF Accounted, n
      <4> QED BY <2>1, <4>1, <4>2, <4>3 DEF Active
    <3> QED BY <3>1, <3>2
  <2> QED BY <1>1, <1>4, <1>5, <2>2 DEF Accounted, Active, HoldsBirth, GivenUp
<1>11. Waits'
  <2>1. ASSUME NEW i \in 1 .. Len(asks), asks[i].say = "ended"
        PROVE  births'[asks[i].birth].phase \in {"over", "refused"} /\ births'[asks[i].birth].by = at
    <3>1. Over(asks[i].birth) /\ births[asks[i].birth].by = at BY <1>1, <2>1 DEF Waits
    <3>2. at = "second"
      <4>1. CASE at = "handed"
        <5>1. asks = <<>> BY <1>1, <4>1 DEF Waits, Serves
        <5>2. Len(asks) = 0 BY <5>1, EmptySeq
        <5> QED BY <2>1, <5>2
      <4> QED BY <1>1, <4>1
    <3>3. asks[i].birth \in 1 .. n
      <4>1. asks[i] \in AskForms(n) BY <1>1, <2>1, ElementOfSeq DEF Typed, n
      <4> QED BY <2>1, <4>1 DEF AskForms, VerbForms, Says
    <3> QED BY <1>4, <1>6, <3>1, <3>2, <3>3 DEF Over
  <2> QED BY <1>1, <2>1 DEF Waits, Serves, Over
<1>12. WindowsHear'
  <2>1. ASSUME NEW l \in Lives, Living(l), NEW p \in held[l].windows
        PROVE  \/ <<held[l].born, p>> \in tellers' \/ births'[held[l].born].phase \in {"over", "refused"}
               \/ \E i \in DOMAIN asks : asks[i] = [say |-> "left", life |-> l, from |-> p]
    <3>1. held[l] # NoLife BY <2>1 DEF Living, NoLife
    <3>2. held[l].born \in 1 .. n /\ held[l].born \notin Old BY <1>8, <3>1
    <3>3. <<held[l].born, p>> \in tellers => <<held[l].born, p>> \in tellers'
      <4>1. <<held[l].born, p>>[1] \notin Old BY <3>2
      <4> QED BY <1>3, <4>1
    <3>4. births'[held[l].born] = births[held[l].born] BY <1>4, <3>2
    <3> QED BY <1>1, <2>1, <3>3, <3>4 DEF WindowsHear, Over
  <2>2. ASSUME NEW t \in tellers'
        PROVE  LET l == births'[t[1]].life IN
               births'[t[1]].phase \in {"over", "refused"}
                 \/ (Living(l) /\ held[l].born = t[1] /\ t[2] \in held[l].windows)
    <3>1. t \in tellers /\ t[1] \notin Old BY <1>3, <2>2
    <3>2. t[1] \in 1 .. n BY <1>1, <3>1 DEF Typed, n
    <3>3. births'[t[1]] = births[t[1]] BY <1>4, <3>1, <3>2
    <3> QED BY <1>1, <3>1, <3>3 DEF WindowsHear, Over
  <2> QED BY <1>1, <2>1, <2>2 DEF WindowsHear, Living, Over
<1> QED BY <1>7, <1>9, <1>10, <1>11, <1>12 DEF BInv

-----------------------------------------------------------------------------
(* The invariant of the births.                                             *)

LEMMA InitBInv == Init => BInv
<1> SUFFICES ASSUME Init PROVE BInv
  OBVIOUS
<1>1. /\ at = "first" /\ births = <<>> /\ asks = <<>> /\ tellers = {} /\ givenUp = {}
      /\ held = [l \in Lives |-> NoLife] /\ handed = [l \in Lives |-> NoLife]
      /\ lease = [l \in Lives |-> NONE] /\ pinned = [l \in Lives |-> {}]
      /\ peers = [p \in Peers |-> [there |-> "out", verb |-> "none"]] /\ verbs = 0 /\ faults = 0
  BY DEF Init
<1>2. Len(births) = 0 /\ births \in Seq(BirthRecords) /\ asks \in Seq(AskForms(0)) /\ Len(asks) = 0
  BY <1>1, EmptySeq
<1>3. Typed
  <2>1. 0 \in 0 .. MaxVerbs /\ 0 \in 0 .. MaxFaults BY DaemonAssumption
  <2>2. held \in [Lives -> HeldForms(0)] BY <1>1 DEF HeldForms
  <2>3. peers \in [Peers -> PeerForms] BY <1>1 DEF PeerForms
  <2> QED BY <1>1, <1>2, <2>1, <2>2, <2>3 DEF Typed, Places
<1>4. Owned /\ Accounted /\ Waits BY <1>1, <1>2 DEF Owned, Accounted, Waits, Serves
<1>5. WindowsHear BY <1>1 DEF WindowsHear, Living, NoLife
<1> QED BY <1>3, <1>4, <1>5, InitIInv DEF BInv

LEMMA FaultBirths == ASSUME BInv, IInv', NEW b \in DOMAIN births, Fault(b) \/ Ends(b) PROVE BInv'
<1>1. Drops(b) /\ births[b].phase \in {"opens", "runs"} BY DEF Fault, Ends
<1>2. faults' \in 0 .. MaxFaults
  <2>1. faults \in 0 .. MaxFaults /\ MaxFaults \in Nat BY DaemonAssumption DEF BInv, Typed
  <2> QED BY <2>1 DEF Fault, Ends
<1> QED BY <1>1, <1>2, DropKeeps

\* Each step of the daemon, of its threads and of its peers keeps the invariant of the births.
LEMMA NextBInv == BInv /\ [Next]_vars => BInv'
<1> SUFFICES ASSUME BInv, [Next]_vars PROVE BInv'
  OBVIOUS
<1>0. IInv' BY NextIInv DEF BInv
<1>1. CASE Hear
  <2>1. CASE HearOpen \/ HearAttach BY <1>0, <2>1, HearOpenBirths, HearAttachBirths
  <2>2. CASE HearDetach \/ HearLeft BY <1>0, <2>2, HearDetachBirths
  <2>3. CASE HearPin \/ HearUnpin BY <1>0, <2>3, HearPinBirths
  <2>4. CASE HearEnded BY <1>0, <2>4, HearEndedBirths
  <2>5. CASE HearHandover BY <1>0, <2>5, HearHandoverBirths
  <2> QED BY <1>1, <2>1, <2>2, <2>3, <2>4, <2>5 DEF Hear
<1>2. CASE Expire BY <1>0, <1>2, ExpireTells
<1>3. CASE Beside
  <2>1. ASSUME NEW b \in DOMAIN births,
               \/ Opening(b) \/ Ends(b) \/ TellsEnd(b) \/ Watches(b)
               \/ \E p \in Peers : TellerLeaves(b, p) \/ TellerDone(b, p)
        PROVE  BInv'
    <3>1. CASE Opening(b) BY <1>0, <3>1, OpeningKeeps
    <3>2. CASE Ends(b) BY <1>0, <3>2, FaultBirths
    <3>3. CASE TellsEnd(b) \/ Watches(b) BY <1>0, <3>3, EndKeeps
    <3>4. CASE \E p \in Peers : TellerLeaves(b, p) \/ TellerDone(b, p) BY <1>0, <3>4, TellerKeeps
    <3> QED BY <2>1, <3>1, <3>2, <3>3, <3>4
  <2>2. CASE Gave BY <1>0, <2>2, GaveBirths
  <2>3. CASE Adopt BY <1>0, <2>3, AdoptBirths
  <2>4. CASE OldExits BY <1>0, <2>4, ExitBirths
  <2> QED BY <1>3, <2>1, <2>2, <2>3, <2>4 DEF Beside
<1>4. CASE (\E p \in Peers : Dial(p) \/ Verb(p) \/ Goes(p)) \/ Upgrade
  BY <1>0, <1>4, CallsKeep
<1>5. CASE \E b \in DOMAIN births : Fault(b) BY <1>0, <1>5, FaultBirths
<1>6. CASE \E l \in Lives : GivesUp(l) BY <1>0, <1>6, GivesUpBirths
<1>7. CASE UNCHANGED vars
  <2>1. UNCHANGED <<at, held, asks, births, lease, tellers, peers, handed, pinned, givenUp, verbs, faults>>
    BY <1>7 DEF vars, tasks, counts
  <2>2. Typed' /\ Owned' /\ Accounted'
    BY <2>1 DEF BInv, Typed, Owned, Accounted, Active, HoldsBirth, GivenUp
  <2>3. Waits' /\ WindowsHear' BY <2>1 DEF BInv, Waits, Serves, Over, WindowsHear, Living
  <2> QED BY <1>0, <2>2, <2>3 DEF BInv
<1> QED BY <1>1, <1>2, <1>3, <1>4, <1>5, <1>6, <1>7 DEF Next, Task

LEMMA SpecBInv == Spec => []BInv
<1> QED BY InitBInv, NextBInv, PTL DEF Spec

\* The state of the daemon keeps its types: each life is held or given in a birth that there is, each
\* teller and each lease is of a birth that there is, and the task hears what it knows.
THEOREM TypesHold == Spec => []TypeOK
<1>1. BInv => TypeOK
  <2> SUFFICES ASSUME BInv PROVE TypeOK
    OBVIOUS
  <2>1. Typed /\ DOMAIN births = 1 .. Len(births) /\ Len(births) \in Nat
        /\ \A b \in 1 .. Len(births) : births[b] \in BirthRecords
    BY BirthTypes DEF BInv
  <2>2. ASSUME NEW l \in Lives
        PROVE  \/ held[l] = NoLife
               \/ /\ Living(l) /\ held[l].born \in DOMAIN births
                  /\ held[l].windows \subseteq Peers /\ held[l].pins \subseteq Pins /\ held[l].idle \in Idles
               \/ EndingNow(l) /\ held[l].born \in DOMAIN births /\ held[l].waiting \in Seq(Opens)
    <3>1. CASE held[l] \in LivingForms(Len(births))
      <4>1. Living(l) BY <2>1, <3>1, HeldForm
      <4> QED BY <2>1, <3>1, <4>1 DEF LivingForms
    <3>2. CASE held[l] \in EndingForms(Len(births))
      <4>1. EndingNow(l) BY <2>1, <3>2, HeldForm
      <4> QED BY <2>1, <3>2, <4>1 DEF EndingForms
    <3> QED BY <2>1, <3>1, <3>2, HeldForm
  <2>3. \A b \in DOMAIN births :
          births[b].life \in Lives /\ births[b].phase \in Phases /\ births[b].asked \in BOOLEAN /\ births[b].told \in BOOLEAN
    BY <2>1 DEF BirthRecords
  <2>4. \A l \in Lives : lease[l] # NONE => births[lease[l]].life = l BY DEF BInv, Owned
  <2>5. \A i \in DOMAIN asks : asks[i] \in Asks
    <3>1. asks \in Seq(AskForms(Len(births))) BY <2>1 DEF Typed
    <3>2. \A i \in DOMAIN asks : asks[i] \in AskForms(Len(births)) BY <3>1, ElementOfSeq
    <3>3. AskForms(Len(births)) \subseteq Asks BY <2>1 DEF AskForms, VerbForms, Asks
    <3> QED BY <3>2, <3>3
  <2>6. at \in Places /\ pinned \in [Lives -> SUBSET Pins] /\ givenUp \subseteq DOMAIN births
        /\ peers \in [Peers -> [there : {"out", "first", "second", "gone"}, verb : Says \cup {"none"}]]
        /\ tellers \subseteq (DOMAIN births) \X Peers
    BY <2>1 DEF Typed, PeerForms
  <2>7. verbs <= MaxVerbs /\ faults <= MaxFaults
    <3>1. verbs \in 0 .. MaxVerbs /\ faults \in 0 .. MaxFaults BY <2>1 DEF Typed
    <3> QED BY <3>1
  <2> QED BY <2>2, <2>3, <2>4, <2>5, <2>6, <2>7 DEF TypeOK
<1> QED BY <1>1, SpecBInv, PTL

\* No birth of a life finds its record owned by another, unless the handover gave that one up; and
\* each window of a life hears it until the daemon hears why not, whatever the order in which opens,
\* ends, faults, peers that go and the handover to a new daemon come.
THEOREM BirthsDoAgree == Spec => []BirthsAgree
<1>1. BInv => BirthsAgree
  <2> SUFFICES ASSUME BInv PROVE BirthsAgree
    OBVIOUS
  <2>1. DOMAIN births = 1 .. Len(births) BY BirthTypes DEF BInv
  <2>2. RefusedByGivenUp BY <2>1 DEF BInv, Accounted, GivenUp, RefusedByGivenUp
  <2> QED BY <2>2 DEF BInv, BirthsAgree
<1> QED BY <1>1, SpecBInv, PTL
=============================================================================
