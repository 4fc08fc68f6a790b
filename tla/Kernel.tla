------------------------------- MODULE Kernel -------------------------------
(***************************************************************************)
(* The runs of one rung (furb/kernel.py), with the ear of that rung         *)
(* (furb/engine.py): the model of the rung writes its word in parts, which  *)
(* the Kernel runs as they come, and then its run takes the whole word. The *)
(* word is a row of statements; what each does is open until it runs. The   *)
(* Kernel hears one fact at a time, and the life does nothing else while a  *)
(* job steps or is due to start.                                            *)
(***************************************************************************)
EXTENDS Naturals, Sequences, FiniteSets, SequencesExt, Functions, TLC

CONSTANTS MaxWord,  \* bound: statements of the word
          MaxActs   \* bound: acts that the word awaits or starts, its wants and its waits among them

VARIABLES
  life,      \* what the engine holds of the rung and its acts, and what the Kernel did not hear yet
  held,      \* Running: what the Kernel holds of the jobs of the rung
  executed,  \* the statements that ran, in order
  dones      \* how often the run was said done

kernelVars == <<life, held, executed, dones>>

\* A state of both, which the operators below carry forward.
Now == [life |-> life, held |-> held, dones |-> dones]
To(now) == life' = now.life /\ held' = now.held /\ dones' = now.dones

Ids(now)  == 1 .. Len(now.life.acts)
Jobs(now) == 1 .. Len(now.held.jobs)

TypeOK ==
  /\ \A n \in DOMAIN life.log : life.log[n].is \in {"writing", "started", "done", "control"}
  /\ life.rung \in BOOLEAN /\ life.run \in BOOLEAN /\ life.said \in 0 .. MaxWord
  /\ \A a \in Ids(Now) : /\ life.acts[a].is \in {"call", "command", "wants", "wait"}
                         /\ life.acts[a].of \subseteq Ids(Now) /\ life.acts[a].open \in BOOLEAN
  /\ life.serving \in {0} \cup Ids(Now)
  /\ \A j \in Jobs(Now) : held.jobs[j].is \in {"part", "run"} /\ held.jobs[j].upto \in held.jobs[j].before .. MaxWord
  /\ held.line \in Seq(Jobs(Now)) /\ DOMAIN held.frames \subseteq Jobs(Now) /\ held.step \in {0} \cup DOMAIN held.frames
  /\ held.awaits \cup held.waits \cup held.lingers \subseteq Ids(Now) \X Jobs(Now)
  /\ held.ran \in 0 .. MaxWord /\ held.broke \in BOOLEAN /\ dones \in {0, 1}

Init ==
  /\ life = [log |-> <<>>, rung |-> TRUE, run |-> FALSE, said |-> 0, acts |-> <<>>, serving |-> 0]
  /\ held = [jobs |-> <<>>, line |-> <<>>, frames |-> <<>>, step |-> 0, awaits |-> {}, waits |-> {}, lingers |-> {},
             ran |-> 0, broke |-> FALSE]
  /\ executed = <<>> /\ dones = 0

Waits == held.line # <<>> => Head(held.line) \in DOMAIN held.frames
Rests == held.step = 0 /\ Waits

-----------------------------------------------------------------------------
(* The life beside the Kernel.                                              *)

\* The model wrote more of the word, which the provider says as a writing.
Write(upto) ==
  /\ Rests /\ ~life.run /\ life.said < upto
  /\ life' = [life EXCEPT !.said = upto, !.log = Append(@, [is |-> "writing", before |-> life.said, upto |-> upto])]
  /\ UNCHANGED <<held, executed, dones>>

\* The chain makes the run of a turn that is done, with the whole word, which the Kernel takes at once.
Run(upto) ==
  /\ Rests /\ life.rung /\ ~life.run /\ life.said <= upto
  /\ life' = [life EXCEPT !.run = TRUE, !.log = Append(@, [is |-> "started", before |-> 0, upto |-> upto])]
  /\ UNCHANGED <<held, executed, dones>>

Done(a, none) == [is |-> "done", act |-> a, none |-> none]

\* The acts over, each said, with each wait for one of them and the wants that the rung serves for one.
Over(of, some, none) ==
  LET waits == {w \in DOMAIN of.acts : of.acts[w].open /\ of.acts[w].is = "wait" /\ of.acts[w].of \cap some # {}}
      wants == {w \in {of.serving} \ {0} : of.acts[w].of \cap some # {}}
      all   == SetToSortSeq(some, <) \o SetToSeq(waits \cup wants)
  IN  [of EXCEPT !.acts = [a \in DOMAIN of.acts |-> [of.acts[a] EXCEPT !.open = @ /\ a \notin Range(all)]],
                 !.serving = IF @ \in wants THEN 0 ELSE @,
                 !.log = @ \o [n \in DOMAIN all |-> Done(all[n], none)]]

\* An act ends: what the word awaits, a command that it started, or a wait at the end of its seconds.
EndAct(a) ==
  /\ Rests /\ life.acts[a].open /\ life.acts[a].is # "wants"
  /\ life' = Over(life, {a}, life.acts[a].is = "wait") /\ UNCHANGED <<held, executed, dones>>

\* A control over the rung ends it with its ear, and a cancel each command under it too.
Controlled(of, kind) ==
  LET commands == {a \in DOMAIN of.acts : kind = "cancel" /\ of.acts[a].is = "command" /\ of.acts[a].open}
  IN  Over([of EXCEPT !.rung = FALSE, !.serving = 0, !.log = Append(@, [is |-> "control"])], commands, FALSE)

Control(kind) ==
  /\ Rests /\ life.rung /\ life' = Controlled(life, kind) /\ UNCHANGED <<held, executed, dones>>

-----------------------------------------------------------------------------
(* What the Kernel does with its jobs.                                      *)

Without(pairs, j) == {p \in pairs : p[2] # j}

\* The run is done, and so is its rung, if its ear hears that and is not over.
Finish(now) ==
  [life |-> [now.life EXCEPT !.rung = @ /\ now.life.serving # 0],
   held |-> [now.held EXCEPT !.line = <<>>, !.broke = FALSE], dones |-> now.dones + 1]

Left(now) == {a \in Ids(now) : now.life.acts[a].is = "command" /\ now.life.acts[a].open}

\* The wait of a word that is over, made as its run, for the commands that it left open.
Linger(now, j) ==
  LET w == Len(now.life.acts) + 1 IN
  [now EXCEPT !.life.acts = Append(@, [is |-> "wait", of |-> Left(now), open |-> TRUE]), !.held.lingers = {<<w, j>>}]

\* A job is over, with a raise or nothing: a part of it leaves the line to the next job.
Ended(now, j, raised) ==
  LET less == [now EXCEPT !.held.frames = [x \in DOMAIN @ \ {j} |-> @[x]], !.held.step = 0,
                          !.held.waits = Without(@, j), !.held.awaits = Without(@, j),
                          !.held.broke = @ \/ raised, !.held.line = SelectSeq(@, LAMBDA x : x # j)]
  IN  IF now.held.jobs[j].is = "part" THEN less
      ELSE IF ~raised /\ Left(now) # {} THEN Linger(less, j)
      ELSE Finish(less)

\* A form of a wants whose rung waits for the done of its act also when that act is over.
WantsBlind(now, j, a) ==
  LET w == Len(now.life.acts) + 1 IN
  [now EXCEPT !.life.acts = Append(@, [is |-> "wants", of |-> {a}, open |-> TRUE]),
              !.life.serving = IF now.life.rung /\ now.life.serving = 0 THEN w ELSE @, !.held.waits = @ \cup {<<w, j>>}]

\* A wants for an act, made as the run: the rung serves it unless it is over or serves another one.
Wants(now, j, a) ==
  LET w      == Len(now.life.acts) + 1
      open   == now.life.acts[a].open
      served == now.life.rung /\ now.life.serving = 0
  IN  [now EXCEPT !.life.acts = Append(@, [is |-> "wants", of |-> {a}, open |-> open \/ ~served]),
                  !.life.serving = IF served /\ open THEN w ELSE @,
                  !.life.log = IF served /\ ~open THEN Append(@, Done(w, FALSE)) ELSE @,
                  !.held.waits = @ \cup {<<w, j>>}]

HasRun(now) == \E n \in DOMAIN now.held.line : now.held.jobs[now.held.line[n]].is = "run"

\* A form that leaves a part that waits as it was when its run comes.
StaysAwaiting(now) == now

\* Each part that waits for an act with no wants waits as the run, once it stands in the line.
Converts(now) ==
  IF ~HasRun(now) \/ now.held.awaits = {} THEN now
  ELSE LET p == CHOOSE x \in now.held.awaits : TRUE IN Wants([now EXCEPT !.held.awaits = @ \ {p}], p[2], p[1])

\* A job that was heard stands in the line of its rung, or is over at once when its rung is.
Begin(now, job) ==
  LET new == [now EXCEPT !.held.jobs = Append(@, job)]
      j   == Len(new.held.jobs)
  IN  IF ~now.life.rung THEN Ended(new, j, TRUE) ELSE Converts([new EXCEPT !.held.line = Append(@, j)])

\* A form in which a run takes the whole word.
WholeWord(job) == [from |-> job.before, ok |-> TRUE]

\* What a job runs of the word: a part must follow what ran, and a run takes what is past it.
PartOf(job) ==
  IF job.is = "part" THEN [from |-> job.before, ok |-> job.before = held.ran]
  ELSE [from |-> held.ran, ok |-> job.upto >= held.ran]

\* The job at the head of the line starts, unless a part of its word raised.
Start ==
  LET j == Head(held.line)
      part == PartOf(held.jobs[j])
      upto == held.jobs[j].upto
  IN
  /\ held.step = 0 /\ ~Waits /\ UNCHANGED executed
  /\ IF held.broke \/ ~part.ok THEN To(Ended(Now, j, TRUE))
     ELSE IF part.from = upto THEN To(Ended(Now, j, FALSE))
     ELSE To([Now EXCEPT !.held.ran = upto, !.held.step = j, !.held.frames = (j :> part.from) @@ @])

\* What the statements of a step do: some start a command, and one may cancel the rung itself.
Does(now, command, cancels) ==
  LET made == IF command /\ now.life.rung THEN [now EXCEPT !.life.acts = Append(@, [is |-> "command", of |-> {}, open |-> TRUE])]
              ELSE now
  IN  IF cancels /\ now.life.rung THEN [made EXCEPT !.life = Controlled(@, "cancel")] ELSE made

\* The statement waits for an act: as the run with a wants, or until it is done when none stands and it is not.
Awaits(now, j, a) ==
  IF HasRun(now) THEN Wants(now, j, a) ELSE [now EXCEPT !.held.awaits = @ \cup {<<a, j>>}]

\* The job steps: it runs statements until one awaits or raises, or the last one of it ran.
Carry ==
  LET j  == held.step
      at == held.frames[j]
      upto == held.jobs[j].upto
  IN
  /\ j # 0
  /\ \E n \in 0 .. upto - at, command, cancels \in BOOLEAN :
       LET did  == Does(Now, command, cancels)
           now  == [did EXCEPT !.held.step = 0, !.held.frames[j] = at + n]
           call == [now EXCEPT !.life.acts = Append(@, [is |-> "call", of |-> {}, open |-> TRUE])]
       IN
       /\ (command \/ cancels) => n > 0
       /\ executed' = executed \o [k \in 1 .. n |-> at + k]
       /\ \/ at + n = upto /\ To(Ended(now, j, FALSE))
          \/ n > 0 /\ To(Ended(now, j, TRUE))
          \/ n > 0 /\ To(Awaits(call, j, Len(call.life.acts)))
          \/ n > 0 /\ \E a \in Ids(now) : /\ now.life.acts[a].is = "command" /\ (now.life.acts[a].open \/ HasRun(now))
                                          /\ To(Awaits(now, j, a))
       /\ Len(life'.acts) <= MaxActs

\* The done of an act, which may be what a job waits for, or the wait of a word that lingers.
Carried(now, j) == [now EXCEPT !.held.step = j, !.held.waits = Without(@, j), !.held.awaits = Without(@, j)]

Lingered(now, j, none) ==
  LET less == [now EXCEPT !.held.lingers = {}] IN
  IF none \/ Left(now) = {} THEN Finish(less) ELSE Linger(less, j)

HearDone(now, fact) ==
  LET jobs(pairs) == {p[2] : p \in {q \in pairs : q[1] = fact.act}} IN
  IF jobs(now.held.awaits \cup now.held.waits) # {}
  THEN Carried(now, CHOOSE j \in jobs(now.held.awaits \cup now.held.waits) : TRUE)
  ELSE IF jobs(now.held.lingers) # {} THEN Lingered(now, CHOOSE j \in jobs(now.held.lingers) : TRUE, fact.none)
  ELSE now

\* A control over the rung: a word that lingers is done, and the frame of one that waits is closed.
Dropped(now) ==
  LET ends == IF now.held.lingers = {} THEN now ELSE Finish([now EXCEPT !.held.lingers = {}]) IN
  IF DOMAIN ends.held.frames = {} THEN ends ELSE Ended(ends, CHOOSE j \in DOMAIN ends.held.frames : TRUE, TRUE)

HearFact(now, fact) ==
  CASE fact.is = "writing" -> Begin(now, [is |-> "part", before |-> fact.before, upto |-> fact.upto])
    [] fact.is = "started" -> Begin(now, [is |-> "run", before |-> 0, upto |-> fact.upto])
    [] fact.is = "done"    -> HearDone(now, fact)
    [] fact.is = "control" -> Dropped(now)

Hear ==
  /\ Rests /\ life.log # <<>> /\ To(HearFact([Now EXCEPT !.life.log = Tail(@)], Head(life.log)))
  /\ UNCHANGED executed

-----------------------------------------------------------------------------
Life ==
  \/ \E upto \in 0 .. MaxWord : Write(upto) \/ Run(upto)
  \/ \E a \in Ids(Now) : EndAct(a)
  \/ \E kind \in {"cancel", "close"} : Control(kind)

Next == Hear \/ Start \/ Carry \/ Life

Spec == Init /\ [][Next]_kernelVars

-----------------------------------------------------------------------------
(* Properties.                                                              *)

\* Each statement of the word runs once and in its order, however its parts, its run and what it awaits
\* come, and none runs after one that raised.
RunsInOrder == executed = [n \in DOMAIN executed |-> n]

\* A job that stands with a frame is the head of its line, steps or waits for one act, and a wants of it is
\* one that the rung serves or said done, so its end carries the job once.
WaitsForOne ==
  \A j \in DOMAIN held.frames :
    /\ life.rung => j = Head(held.line)
    /\ j # held.step =>
         /\ Cardinality({p \in held.awaits \cup held.waits : p[2] = j}) = 1
         /\ \A p \in held.waits : life.rung => p[1] = life.serving \/ ~life.acts[p[1]].open
    /\ \A p \in held.awaits : ~HasRun(Now)

\* Nothing of a word is left to wait for what never comes: once all is heard and each act that it awaits is
\* over, its run, if it came, is done, and the rung with it.
NoneIsStuck ==
  Rests /\ life.log = <<>> /\ (\A a \in Ids(Now) : life.acts[a].open => life.acts[a].is = "wants")
    => /\ held.line = <<>> /\ held.frames = <<>> /\ held.lingers = {}
       /\ life.run => dones = 1 /\ ~life.rung
=============================================================================
