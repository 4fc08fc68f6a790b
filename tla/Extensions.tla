----------------------------- MODULE Extensions -----------------------------
(***************************************************************************)
(* The extensions of a life: the ear that enables them and plays their words *)
(* on each chain (src/src/extension.rs), and the ear of the skills that      *)
(* enables them too (src/src/extension/skills.rs).                           *)
(*                                                                           *)
(* A word is a version of the files of its folder. The ear runs to its next  *)
(* hearing at each fact, so a fact and what the ear says and plays of it are *)
(* one step; a crash cuts the record after any fact of it. A life that       *)
(* answers a stand or a write plays what it enables before it hears its own  *)
(* enables, and a later life plays as it hears each. A rung is what is       *)
(* played: the whole word, as the setup of the root or by the ear, the life  *)
(* word alone, or what reloads a word. A chain with a source makes again the *)
(* rungs of its source, and one with none, in a record with a doctrine, the  *)
(* rungs of the setup (chain, engine.py).                                    *)
(***************************************************************************)
EXTENDS Naturals, Sequences, SequencesExt, FiniteSets

CONSTANTS
  Names,       \* The extensions of folders.
  Alone,       \* Those that play on the root alone.
  Defaults,    \* Those that the act skill plays by default.
  Kids,        \* The chains but the root.
  MaxWord,     \* How often each word may be written.
  MaxFacts,    \* How long a record may grow.
  MaxLives     \* How many lives may open on it.

VARIABLES
  doctrine,    \* Whether the standing of the record names a doctrine.
  disk,        \* The version of the word of each folder, 0 where no extension loads.
  on,          \* The extensions that the configs turn on.
  record,      \* The facts that the ears of the extensions and of the skills hear and say.
  settled,     \* What each chain had played once each fact of the record was heard, where a step of a life ended there.
  torn,        \* Whether a crash cut the record inside of the enables of a teach.
  up, lives,   \* Whether a life runs, and how many did.
  tip,         \* Whether the life answered a stand, as each does first at the tip of its record.
  at,          \* How many facts of the record the life heard.
  given,       \* The extensions that the host gave the life at its open.
  ear          \* What the ear of the extensions holds, and the rungs of each chain.

vars == <<doctrine, disk, on, record, settled, torn, up, lives, tip, at, given, ear>>

Root == "chain1"

Chains == {Root} \cup Kids

Order == SetToSeq(Names)

Ext(n, w) == [name |-> n, word |-> w, root |-> n \in Alone]

\* The extensions that load of those that the configs turn on, in the order of the configs.
Configured(ds, ns) == [k \in DOMAIN SelectSeq(Order, LAMBDA n : n \in ns /\ ds[n] > 0) |->
  LET n == SelectSeq(Order, LAMBDA x : x \in ns /\ ds[x] > 0)[k] IN Ext(n, ds[n])]

---------------------------------------------------------------------------
\* The facts, each with what the ear reads of it.

Stand(setup)  == [kind |-> "stand", setup |-> setup]
Teach(count)  == [kind |-> "teach", count |-> count]
Enable(x)     == [kind |-> "enable", ext |-> x]
Chain(c, src) == [kind |-> "chain", id |-> c, source |-> src]

---------------------------------------------------------------------------
\* What the ear does at a fact. It holds what the life enabled, the chains in the order of their births with the names
\* that each has, the enables that a teach still awaits, and whether the root took its setup.

Blank == [enabled |-> <<>>, chains |-> <<>>, had |-> [c \in Chains |-> {}], left |-> 0, teaching |-> FALSE,
          taught |-> FALSE, rungs |-> [c \in Chains |-> <<>>], setup |-> <<>>]

Runs(e, n) == \E k \in DOMAIN e.enabled : e.enabled[k].name = n

Rung(x, how) == [name |-> x.name, word |-> x.word, how |-> how]

Ring(e, c, x, how) == [e EXCEPT !.rungs[c] = Append(@, Rung(x, how))]

\* A form that plays the whole word on a chain that has it.
PlayWhole(e, x, c) == IF x.root /\ c # Root THEN e ELSE [Ring(e, c, x, "whole") EXCEPT !.had[c] = @ \cup {x.name}]

\* The word and the life word of an extension on a chain, or its life word alone where the chain has it.
Play(e, x, c) ==
  IF x.name \in e.had[c] THEN Ring(e, c, x, "life")
  ELSE IF x.root /\ c # Root THEN e
  ELSE [Ring(e, c, x, "whole") EXCEPT !.had[c] = @ \cup {x.name}]

Kept(e, x) ==
  IF Runs(e, x.name) THEN [k \in DOMAIN e.enabled |-> IF e.enabled[k].name = x.name THEN x ELSE e.enabled[k]]
  ELSE Append(e.enabled, x)

\* A form that reloads a word on each chain, whether it has it or not.
ReloadEverywhere(e, x) ==
  FoldLeft(LAMBDA acc, c : Ring(acc, c, x, "reload"), e, e.chains)

Reload(e, x) ==
  FoldLeft(LAMBDA acc, c : IF x.name \in e.had[c] THEN Ring(acc, c, x, "reload") ELSE acc, e, e.chains)

\* An extension that the life does not run plays on each chain, and one whose word changed reloads.
Turn(e, x) ==
  LET old == CHOOSE k \in DOMAIN e.enabled : e.enabled[k].name = x.name
      did == IF ~Runs(e, x.name) THEN FoldLeft(LAMBDA acc, c : Play(acc, x, c), e, e.chains)
             ELSE IF e.enabled[old].word # x.word THEN Reload(e, x) ELSE e
  IN  [did EXCEPT !.enabled = Kept(e, x)]

Every(e) == {e.enabled[k].name : k \in {j \in DOMAIN e.enabled : ~e.enabled[j].root}}

\* A form that leaves the root without the names of its setup.
TakesNothing(e) == [e EXCEPT !.teaching = FALSE, !.taught = TRUE]

\* The root took its setup, once each enable after the teach was heard.
TakesSetup(e) == [e EXCEPT !.teaching = FALSE, !.taught = TRUE, !.had[Root] = Every(e)]

\* A chain with no source in a record with a setup makes again the setup of every chain.
Forked(e) == SelectSeq(e.setup, LAMBDA r : r.name \notin Alone)

Born(e, c, src) ==
  LET had == IF src \in Chains THEN e.had[src] ELSE IF e.taught THEN Every(e) ELSE {}
      one == [e EXCEPT !.chains = Append(@, c), !.had[c] = had,
                       !.rungs[c] = IF src \in Chains THEN e.rungs[src] ELSE Forked(e)]
  IN  IF e.taught THEN one ELSE FoldLeft(LAMBDA acc, x : Play(acc, x, c), one, e.enabled)

Hears(e, f) ==
  CASE f.kind = "chain" -> Born(e, f.id, f.source)
    [] f.kind = "stand" -> [e EXCEPT !.rungs[Root] = @ \o f.setup, !.setup = @ \o f.setup]
    [] f.kind = "teach" -> IF f.count > 0 THEN [e EXCEPT !.left = f.count, !.teaching = TRUE] ELSE TakesSetup(e)
    [] f.kind = "enable" /\ e.teaching ->
         LET one == [e EXCEPT !.enabled = Kept(e, f.ext), !.left = @ - 1]
         IN  IF one.left > 0 THEN one ELSE TakesSetup(one)
    [] OTHER -> IF Contains(e.enabled, f.ext) THEN e ELSE Turn(e, f.ext)

---------------------------------------------------------------------------
\* What the life says as it goes on.

Stood == \E k \in DOMAIN record : record[k].kind = "stand"

Init ==
  /\ doctrine \in BOOLEAN
  /\ disk \in [Names -> 0 .. 1] /\ on \in SUBSET Names
  /\ record = <<>> /\ settled = <<>> /\ torn = FALSE /\ up = FALSE /\ lives = 0 /\ tip = FALSE
  /\ at = 0 /\ given = <<>> /\ ear = Blank

Heard(e, fs) == FoldLeft(Hears, e, fs)

\* What is said in one step, and what the ear comes to by it.
Says(fs, e) ==
  /\ Len(record) + Len(fs) =< MaxFacts
  /\ record' = record \o fs /\ at' = Len(record') /\ ear' = e
  /\ settled' = settled \o [k \in DOMAIN fs |-> IF k = Len(fs) THEN <<e.rungs>> ELSE <<>>]
  /\ UNCHANGED <<doctrine, torn, up, lives, given>>

Lives == up /\ at = Len(record)

Enables(xs) == [k \in DOMAIN xs |-> Enable(xs[k])]

\* A form that does not keep what it enabled, and plays it again as it hears it.
PlayedAgain(e, xs) == Heard([FoldLeft(Turn, e, xs) EXCEPT !.enabled = e.enabled], Enables(xs))

\* A live stand or write: the ear gives up a teach that still awaits its enables, says what it enables, plays it, and hears
\* then what it said.
Played(e, xs) == Heard(FoldLeft(Turn, [e EXCEPT !.teaching = FALSE, !.left = 0], xs), Enables(xs))

\* Whether the root holds its setup, which the engine crafts at the first stand of a record whose standing names a doctrine.
Seeds == doctrine /\ ~Stood

Rungs(xs, r) == [k \in DOMAIN SelectSeq(xs, LAMBDA x : x.root = r) |-> Rung(SelectSeq(xs, LAMBDA x : x.root = r)[k], "setup")]

Setup == IF Seeds THEN Rungs(given, FALSE) \o Rungs(given, TRUE) ELSE <<>>

\* The extensions that the host gave and that the life does not run as they were given.
Missing == SelectSeq(given, LAMBDA x : ~Contains(ear.enabled, x))

\* A stand that this life answers enables what is missing; with the setup of a root that took none it teaches it, and the
\* ear takes the setup as it hears the enables.
StandDone ==
  /\ Lives /\ ear.chains # <<>>
  /\ LET stand  == <<Stand(Setup)>>
         teaches == doctrine /\ ~ear.taught /\ ~ear.teaching
         taught  == stand \o <<Teach(Len(Missing))>> \o Enables(Missing)
     IN  IF teaches THEN Says(taught, Heard(ear, taught))
         ELSE Says(stand \o Enables(Missing), Played(Heard(ear, stand), Missing))
  /\ tip' = TRUE /\ UNCHANGED <<disk, on>>

\* A chain is made, of another chain or of none; the root comes first, and takes its stand before what else is made.
MakeChain(c, src) ==
  /\ Lives /\ ~\E k \in DOMAIN ear.chains : ear.chains[k] = c
  /\ src = "" \/ \E k \in DOMAIN ear.chains : ear.chains[k] = src
  /\ IF ear.chains = <<>> THEN c = Root ELSE tip
  /\ Says(<<Chain(c, src)>>, Hears(ear, Chain(c, src)))
  /\ UNCHANGED <<disk, on, tip>>

\* A write of the life in the folder of an extension reloads it when a config turns it on and the life runs it.
WriteFolder(n) ==
  /\ Lives /\ tip /\ disk[n] \in 1 .. MaxWord - 1
  /\ disk' = [disk EXCEPT ![n] = @ + 1] /\ UNCHANGED <<on, tip>>
  /\ LET xs == IF n \in on /\ Runs(ear, n) THEN SelectSeq(<<Ext(n, disk'[n])>>, LAMBDA x : ~Contains(ear.enabled, x)) ELSE <<>>
     IN  Says(Enables(xs), Played(ear, xs))

\* A write of a config of the project turns on what it gives by its path and the life does not run.
WriteConfig(ns) ==
  /\ Lives /\ tip
  /\ on' = ns /\ UNCHANGED <<disk, tip>>
  /\ LET xs == SelectSeq(Configured(disk, ns), LAMBDA x : ~Runs(ear, x.name)) IN Says(Enables(xs), Played(ear, xs))

\* What the ear of the skills says, the ear of the extensions plays as it hears it.
SaysToEar(fs) == Says(fs, Heard(ear, fs))

\* The act skill enables a skill whose word, as its folder holds it now, is not the one that runs.
Skill(n) ==
  /\ Lives /\ tip /\ disk[n] > 0
  /\ ~\E k \in DOMAIN ear.enabled : ear.enabled[k].name = n /\ ear.enabled[k].word = disk[n]
  /\ SaysToEar(<<Enable(Ext(n, disk[n]))>>)
  /\ UNCHANGED <<disk, on, tip>>

\* The act skill with no name enables each default one that the life does not run.
SkillDefaults ==
  /\ Lives /\ tip
  /\ LET mine == SelectSeq(Configured(disk, Defaults), LAMBDA x : ~Runs(ear, x.name))
     IN  mine # <<>> /\ SaysToEar(Enables(mine))
  /\ UNCHANGED <<disk, on, tip>>

\* A write of skills:// writes the word of a skill, and enables it again when the life runs it.
WriteSkill(n) ==
  /\ Lives /\ tip /\ disk[n] \in 1 .. MaxWord - 1
  /\ disk' = [disk EXCEPT ![n] = @ + 1] /\ UNCHANGED <<on, tip>>
  /\ SaysToEar(IF Runs(ear, n) THEN <<Enable(Ext(n, disk'[n]))>> ELSE <<>>)

---------------------------------------------------------------------------
\* Lives and what lies outside of them.

\* The hand of a user, or a new build, changes a folder that no life writes, or the configs.
Edit(n) == ~up /\ disk[n] < MaxWord /\ disk' = [disk EXCEPT ![n] = @ + 1]
           /\ UNCHANGED <<doctrine, on, record, settled, torn, up, lives, tip, at, given, ear>>

Open ==
  /\ ~up /\ lives < MaxLives
  /\ up' = TRUE /\ lives' = lives + 1 /\ at' = 0 /\ ear' = Blank
  /\ given' = Configured(disk, on)
  /\ UNCHANGED <<doctrine, disk, on, record, settled, torn, tip>>

\* The journal says the next fact of the record again: its dones are by the journal, so the ear says nothing of them.
Replay ==
  /\ up /\ at < Len(record)
  /\ at' = at + 1 /\ ear' = Hears(ear, record[at + 1])
  /\ UNCHANGED <<doctrine, disk, on, record, settled, torn, up, lives, tip, given>>

\* Whether facts end before the last enable of a teach.
Torn(fs) == \E k \in DOMAIN fs : fs[k].kind = "teach" /\ k + fs[k].count > Len(fs)

\* A life ends, and the tail of its record may not have reached the disk, which keeps each fact by itself.
Crash(n) ==
  /\ up /\ lives < MaxLives /\ n =< Len(record)
  /\ record' = SubSeq(record, 1, n) /\ settled' = SubSeq(settled, 1, n)
  /\ torn' = (torn \/ Torn(record'))
  /\ up' = FALSE /\ tip' = FALSE /\ at' = 0 /\ ear' = Blank /\ given' = <<>>
  /\ UNCHANGED <<doctrine, disk, on, lives>>

Next ==
  \/ Open \/ Replay \/ StandDone \/ SkillDefaults
  \/ \E n \in Names : WriteFolder(n) \/ Skill(n) \/ WriteSkill(n) \/ Edit(n)
  \/ \E ns \in SUBSET Names : WriteConfig(ns)
  \/ \E c \in Chains, src \in Chains \cup {""} : MakeChain(c, src)
  \/ \E n \in 0 .. MaxFacts : Crash(n)

Spec == Init /\ [][Next]_vars

---------------------------------------------------------------------------
TypeOK ==
  /\ doctrine \in BOOLEAN /\ up \in BOOLEAN /\ lives \in 0 .. MaxLives
  /\ disk \in [Names -> 0 .. MaxWord] /\ on \subseteq Names
  /\ at \in 0 .. Len(record) /\ Len(record) =< MaxFacts /\ Len(settled) = Len(record) /\ torn \in BOOLEAN
  /\ ear.had \in [Chains -> SUBSET Names] /\ ear.left \in 0 .. MaxFacts
  /\ \A c \in Chains : \A k \in DOMAIN ear.rungs[c] : ear.rungs[c][k].how \in {"setup", "whole", "life", "reload"}

\* What plays the word of a name on a chain: the rungs of the name but those of its life word alone.
WordsOn(c, n) == SelectSeq(ear.rungs[c], LAMBDA r : r.name = n /\ r.how # "life")

\* A later life plays the same rungs again where the journal says the facts again, though the ear of a life that answers
\* a stand or a write plays before it hears its own enables (the promise of the ear, extension.rs). A record cut inside of
\* the enables of its teach is apart: the life that opens on it gives up the teach and plays what is missing of the setup,
\* and a later one counts the same enables to the teach and plays nothing.
PlaysTheSame == up /\ at > 0 /\ settled[at] # <<>> => torn \/ ear.rungs = settled[at][1]

\* A chain that the setup of the root was forked to, or one made of it: what the life took after the setup is not on it.
Forks(c) == ear.taught /\ \E k \in 1 .. at : record[k].kind = "chain" /\ record[k].id = c /\ c # Root

\* A chain that was made of another.
FromRoot(c) == \E k \in DOMAIN record : record[k].kind = "chain" /\ record[k].id = c /\ record[k].source # ""

\* The teach of the root has other extensions than its setup holds: a crash cut the record after the stand that took the
\* setup, and the next life, that teaches it, was given others.
TeachesOthers ==
  \E k \in 1 .. at : record[k].kind = "teach"
    /\ {Rung(record[j].ext, "setup") : j \in (k + 1) .. (k + record[k].count)} # Range(ear.setup)

\* The whole word of an extension plays on a chain once, before what reloads it and before its life word alone, and an
\* extension of the root alone plays on another chain only where its source had it (play), but for a record that a crash
\* cut inside of a teach, which plays again on the root what its setup holds, and for one that teaches others.
PlaysOnce ==
  ~torn /\ (at = 0 \/ settled[at] # <<>>) => TeachesOthers \/ \A c \in Chains, n \in Names :
    LET all == SelectSeq(ear.rungs[c], LAMBDA r : r.name = n)
    IN  /\ \A k \in DOMAIN all : IF k = 1 THEN Forks(c) \/ all[k].how \in {"whole", "setup"} ELSE all[k].how \in {"life", "reload"}
        /\ n \in Alone /\ all # <<>> => c = Root \/ FromRoot(c)

\* Each chain has each extension of every chain and runs the last word of it that the life enabled (the ear, at an enable
\* and at a birth), but for a chain that forks the setup, for what plays on the root alone once a setup holds it, and for
\* the records that are apart in PlaysOnce.
RunsTheLast ==
  (up /\ ~torn /\ ~TeachesOthers /\ (at = 0 \/ settled[at] # <<>>)) =>
    \A k \in DOMAIN ear.chains, j \in DOMAIN ear.enabled :
      LET c == ear.chains[k]  x == ear.enabled[j]  ws == WordsOn(c, x.name)
      IN  ~Forks(c) /\ ~(x.root /\ ear.taught) =>
            /\ ws # <<>> => ws[Len(ws)].word = x.word
            /\ (x.name \in ear.had[c]) = (ws # <<>>)
            /\ x.root \/ ws # <<>>

\* The setup that a chain with no source forks holds each extension of every chain (the comment of the ear).
SetupHoldsEach ==
  (up /\ (at = 0 \/ settled[at] # <<>>)) =>
    \A k \in DOMAIN ear.chains, n \in Every(ear) : WordsOn(ear.chains[k], n) # <<>>

ExtensionsHold == PlaysTheSame /\ PlaysOnce /\ RunsTheLast
=============================================================================
