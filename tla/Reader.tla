------------------------------- MODULE Reader -------------------------------
(***************************************************************************)
(* The reader of a record (world/reader.rs): it tells what a life said from *)
(* the facts that its record kept, with the facts that the engine said and  *)
(* the record does not keep, as far as the kept ones show them. A small     *)
(* life on two chains goes on beside it, and the reader reads each fact as  *)
(* it is kept; chain 1 is the root, and a word may make chain 2 by a prompt *)
(* on it. A whole record keeps the question of each act; another keeps what *)
(* the outside said and was asked alone. An act is known by its number, and *)
(* the reply, the gate, the run and the command of a rung by the rung.      *)
(***************************************************************************)
EXTENDS Naturals, Sequences, FiniteSets, SequencesExt

CONSTANTS Makers,    \* who asks acts beside words: "prompts" of the operator, and its "words"
          MaxActs,   \* bound: prompts and rungs
          MaxControls  \* bound: closes and pauses of the operator

VARIABLES
  whole,     \* the segment keeps the question of each act that the life made
  acts,      \* the prompts and the rungs of the life, and what came of each
  paused,    \* the prompts that a pause holds
  controls,  \* how often the operator closed, cancelled, paused or woke an act
  reader,    \* what the reader knows
  told       \* the facts that the reader said, in order

readerVars == <<whole, acts, paused, controls, reader, told>>

Acts == 1 .. Len(acts)
None == 0
OPERATOR == 0
Root == 1
Child == 2

\* A fact that a record keeps: what it is, the act that it is about, who said it, and a word of it.
Fact(is, of, by, on) == [is |-> is, of |-> of, by |-> by, on |-> on]
\* A fact that the reader says.
Said(is, of, by, on) == [is |-> is, of |-> of, by |-> by, on |-> on]

-----------------------------------------------------------------------------
(* The reader.                                                              *)

\* What the reader knows, with what it says; misled is of the model alone: the rungs of which it took a gate or a
\* place for that of another, as the facts did not tell them apart.
Blank ==
  [scopes |-> {}, chains |-> {Root}, done |-> {}, ran |-> {}, prompts |-> <<>>, rungs |-> {}, words |-> {},
   replies |-> {}, gate |-> None, runs |-> {}, gated |-> {}, misled |-> {}, out |-> <<>>]

Says(now, fact) == [now EXCEPT !.out = Append(@, fact)]
Closed(now, a) == [now EXCEPT !.prompts = SelectSeq(@, LAMBDA open : open.id # a)]
RungsOf(now, maker) == {one.rung : one \in {o \in now.rungs : o.maker = maker}}

\* A form that keeps the rung of its maker when it ends.
EndKeeping(now, id) ==
  IF id \in now.done THEN now
  ELSE Closed(Says([now EXCEPT !.done = @ \cup {id}], Said("done", id, None, None)), id)

\* An act done, with its run when it is a rung.
EndOne(now, id) ==
  IF id \in now.done THEN now
  ELSE LET over == [now EXCEPT !.done = @ \cup {id}]
           ran  == IF id \in now.runs THEN Says([over EXCEPT !.ran = @ \cup {id}], Said("ranDone", id, None, None))
                   ELSE over
       IN  Closed(Says(ran, Said("done", id, None, None)), id)

\* The rung of a done act that runs ends with it.
WithRung(one, id) ==
  LET own == RungsOf(one, id)
      free(s, gone) == [s EXCEPT !.rungs = {o \in @ : o.maker \notin gone /\ o.rung \notin gone}]
  IN  IF own = {} \/ own = {id} THEN free(one, {id})
      ELSE free(EndOne(one, CHOOSE r \in own : TRUE), own \cup {id})

\* An act done, with the rung of it that runs and the run of a rung.
End(now, id) == IF id \in now.done THEN now ELSE WithRung(EndOne(now, id), id)

\* A rung takes its place on its maker and ends the one before it there.
Takes(now, maker, rung) ==
  LET last == RungsOf(now, maker)
      set  == [now EXCEPT !.rungs = {o \in @ : o.maker # maker} \cup {[maker |-> maker, rung |-> rung]}]
  IN  IF last = {} THEN set ELSE End(set, CHOOSE r \in last : TRUE)

\* The run of the word of a rung, once, unless the gate refused it.
Ran(now, rung) ==
  IF rung \in now.runs \/ rung \in now.done \/ rung \notin now.words \/ rung \notin {s.act : s \in now.scopes} THEN now
  ELSE Says([now EXCEPT !.runs = @ \cup {rung}], Said("run", rung, None, None))

\* A form that sets a rung on the last open prompt of any chain.
PlaceAnywhere(now, id, chain) ==
  SelectSeq(now.prompts, LAMBDA open : open.maker # id /\ ~open.operator)

\* The open prompts of its chain that a rung that the record does not hold may stand on.
Place(now, id, chain) ==
  SelectSeq(now.prompts, LAMBDA open : open.chain = chain /\ open.maker # id /\ ~open.operator)

\* A rung that the record names as the maker of an act and does not hold, on the open prompt made last, which ends
\* the rung before it there; when another open prompt of the chain asked it, neither is what the reader takes it for.
Placed(now, id, chain) ==
  LET places == Place(now, id, chain)
      maker  == IF places = <<>> THEN OPERATOR ELSE Last(places).id
      last   == RungsOf(now, maker)
      among  == maker # acts[id].by /\ \E open \in Range(now.prompts) : open.id = maker /\ open.chain = chain
      ended  == IF last = {} THEN now ELSE End([now EXCEPT !.rungs = {o \in @ : o.maker # maker}], CHOOSE r \in last : TRUE)
  IN  Says([ended EXCEPT !.misled = IF among THEN @ \cup {id} \cup last ELSE @,
                         !.scopes = @ \cup {[act |-> id, chain |-> chain]},
                         !.rungs = @ \cup {[maker |-> maker, rung |-> id]}], Said("rung", id, maker, chain))

\* A question: the chain and the rung that it names when the reader holds neither, then its own place.
Asked(now, fact) ==
  LET known(s, a) == a \in {one.act : one \in s.scopes}
      byRung  == fact.is \in {"reply", "bash", "prompt"} /\ fact.by # OPERATOR
      chained(s) == IF whole \/ fact.is = "chain" \/ fact.on \in s.chains THEN s
                    ELSE Says([s EXCEPT !.chains = @ \cup {fact.on}], Said("chain", fact.on, fact.by, None))
      runged(s)  == IF ~whole /\ fact.is # "prompt" /\ byRung /\ ~known(s, fact.by)
                    THEN Placed(s, fact.by, fact.on) ELSE s
      running(s) == IF ~whole /\ byRung /\ fact.is # "reply" THEN Ran(s, fact.by) ELSE s
      scoped(s)  == IF fact.is \in {"prompt", "rung"}
                    THEN [s EXCEPT !.scopes = @ \cup {[act |-> fact.of, chain |-> fact.on]}]
                    ELSE IF fact.is = "chain" THEN [s EXCEPT !.chains = @ \cup {fact.of}] ELSE s
      opened(s)  == IF fact.is = "prompt"
                    THEN [s EXCEPT !.prompts = Append(@, [id |-> fact.of, chain |-> fact.on, maker |-> fact.by, operator |-> FALSE])]
                    ELSE s
  IN  opened(scoped(running(runged(chained(now)))))

\* A form that picks among all the rungs with a word, read by the gate or not.
WordedTwice(now, chain) ==
  {r \in {o.rung : o \in now.rungs} : [act |-> r, chain |-> chain] \in now.scopes /\ r \in now.words}

\* The rungs of a chain whose word the gate may read, any of which the reader takes.
Worded(now, chain) ==
  {r \in {o.rung : o \in now.rungs} :
     [act |-> r, chain |-> chain] \in now.scopes /\ r \in now.words /\ r \notin now.gated}

\* A done that the record kept: the word of a reply, and the findings of the gate.
Answered(now, fact) ==
  LET rung == now.gate IN
  CASE fact.is = "answer" /\ fact.of \in now.replies ->
         [now EXCEPT !.replies = @ \ {fact.of}, !.words = @ \cup {fact.of}]
    [] fact.is \in {"passed", "refused"} /\ rung = None -> now
    [] fact.is = "passed" -> LET shut == [now EXCEPT !.gate = None] IN IF whole THEN shut ELSE Ran(shut, rung)
    [] fact.is = "refused" -> End(Says([now EXCEPT !.gate = None], Said("refused", rung, None, None)), rung)
    [] OTHER -> now

\* What a fact makes the reader say once it told the facts that name it; pick is the rung that the reader takes
\* for a question of the gate.
Took(asked, fact, pick) ==
  CASE fact.is = "rung" /\ whole /\ fact.by # OPERATOR -> Takes(asked, fact.by, fact.of)
    [] fact.is = "rung" /\ ~whole ->
         [asked EXCEPT !.words = @ \cup {fact.of}, !.rungs = @ \cup {[maker |-> fact.of, rung |-> fact.of]}]
    [] fact.is = "run" -> Says([asked EXCEPT !.runs = @ \cup {fact.of}], Said("run", fact.of, None, None))
    [] fact.is = "reply" -> [asked EXCEPT !.replies = @ \cup {fact.by}]
    [] fact.is = "gate" ->
         IF pick = None THEN asked
         ELSE [asked EXCEPT !.gated = @ \cup {pick}, !.gate = pick,
                            !.misled = IF pick = fact.of \/ pick \in asked.gated THEN @ ELSE @ \cup {pick, fact.of}]
    [] fact.is \in {"answer", "passed", "refused"} -> Answered(asked, fact)
    [] fact.is \in {"close", "cancel"} -> End(asked, fact.of)
    [] OTHER -> asked

\* One fact, the facts that name it before it and those that it makes the reader say after it.
Hear(now, fact, pick) ==
  Took(IF fact.is \in {"chain", "prompt", "rung", "reply", "bash"} THEN Asked(now, fact) ELSE now, fact, pick)

\* The reader hears the facts that the record kept of one step, with each rung that it may take for a gate.
Heard(now, fact) ==
  {Hear(now, fact, pick) :
     pick \in IF fact.is # "gate" \/ Worded(now, fact.on) = {} THEN {None} ELSE Worded(now, fact.on)}
Reads(facts) ==
  \E end \in FoldLeft(LAMBDA heard, fact : UNION {Heard(now, fact) : now \in heard}, {reader}, facts) :
    reader' = [end EXCEPT !.out = <<>>] /\ told' = told \o end.out

-----------------------------------------------------------------------------
(* The life.                                                                *)

Act(is, by, on) ==
  [is |-> is, by |-> by, on |-> on, over |-> FALSE, reply |-> "no", gate |-> "no", run |-> "no", bash |-> FALSE,
   shut |-> FALSE]

Init ==
  /\ whole \in BOOLEAN /\ acts = <<>> /\ paused = {} /\ controls = 0 /\ reader = Blank /\ told = <<>>

RECURSIVE Lineage(_)
Lineage(a) == IF a = OPERATOR THEN {} ELSE {a} \cup Lineage(acts[a].by)
Held(a) == Lineage(a) \cap paused # {}
Live(a) == ~acts[a].over
Room == Len(acts) < MaxActs

\* The question of an act that the engine makes is kept by a whole record alone.
Kept(facts) == IF whole THEN facts ELSE <<>>

Prompt ==
  /\ "prompts" \in Makers /\ Room
  /\ acts' = Append(acts, Act("prompt", OPERATOR, Root)) /\ Reads(<<Fact("prompt", Len(acts'), OPERATOR, Root)>>)
  /\ UNCHANGED <<whole, paused, controls>>

\* A prompt with no open rung asks one.
Rung(p) ==
  /\ acts[p].is = "prompt" /\ Live(p) /\ ~Held(p) /\ Room
  /\ \A r \in Acts : acts[r].is = "rung" /\ acts[r].by = p => ~Live(r)
  /\ acts' = Append(acts, Act("rung", p, acts[p].on))
  /\ Reads(Kept(<<Fact("rung", Len(acts'), p, acts[p].on)>>))
  /\ UNCHANGED <<whole, paused, controls>>

\* The chain asks the model of a rung, while it asks no other.
Asks(r) ==
  /\ acts[r].is = "rung" /\ acts[r].by # OPERATOR /\ Live(r) /\ acts[r].reply = "no" /\ ~Held(r)
  /\ \A o \in Acts : acts[o].on = acts[r].on => acts[o].reply # "out" \/ ~Live(o)
  /\ acts' = [acts EXCEPT ![r].reply = "out"] /\ Reads(<<Fact("reply", r, r, acts[r].on)>>)
  /\ UNCHANGED <<whole, paused, controls>>

\* The word of a rung is ready: the gate reads it, and lets it run or refuses it.
Ready(now, r, passes) ==
  [now EXCEPT ![r].gate = IF passes THEN "passed" ELSE "refused", ![r].run = IF passes THEN "runs" ELSE "no",
              ![r].over = ~passes]
Gates(r, on, passes) ==
  <<Fact("gate", r, None, on), Fact(IF passes THEN "passed" ELSE "refused", None, None, None)>>
    \o (IF passes THEN Kept(<<Fact("run", r, None, on)>>) ELSE <<>>)

\* The turn of a model comes; a rung that a pause holds puts it off.
Answers(r) ==
  /\ acts[r].is = "rung" /\ Live(r) /\ acts[r].reply = "out"
  /\ IF Held(r)
     THEN acts' = [acts EXCEPT ![r].reply = "put off"] /\ Reads(<<Fact("answer", r, None, None)>>)
     ELSE \E passes \in BOOLEAN :
            /\ acts' = Ready([acts EXCEPT ![r].reply = "done"], r, passes)
            /\ Reads(<<Fact("answer", r, None, None)>> \o Gates(r, acts[r].on, passes))
  /\ UNCHANGED <<whole, paused, controls>>

\* The operator runs a word of its own on the root.
Word ==
  /\ "words" \in Makers /\ Room
  /\ \E passes \in BOOLEAN :
       /\ acts' = Ready(Append(acts, Act("rung", OPERATOR, Root)), Len(acts) + 1, passes)
       /\ Reads(<<Fact("rung", Len(acts) + 1, OPERATOR, Root)>> \o Gates(Len(acts) + 1, Root, passes))
  /\ UNCHANGED <<whole, paused, controls>>

\* A word runs a command, or makes a chain by a prompt on it.
Bash(r) ==
  /\ acts[r].is = "rung" /\ Live(r) /\ acts[r].run = "runs" /\ ~acts[r].bash
  /\ acts' = [acts EXCEPT ![r].bash = TRUE] /\ Reads(<<Fact("bash", r, r, acts[r].on)>>)
  /\ UNCHANGED <<whole, paused, controls>>
Makes(r) ==
  /\ acts[r].is = "rung" /\ Live(r) /\ acts[r].run = "runs" /\ acts[r].on = Root /\ Room /\ "prompts" \in Makers
  /\ \A a \in Acts : acts[a].on # Child
  /\ acts' = Append(acts, Act("prompt", r, Child))
  /\ Reads(Kept(<<Fact("chain", Child, r, Root)>>) \o <<Fact("prompt", Len(acts'), r, Child)>>)
  /\ UNCHANGED <<whole, paused, controls>>

\* What is over with an act: the acts under it, and the runs of the rungs among them.
Over(gone, by) ==
  [a \in Acts |-> IF a \notin gone \/ acts[a].over THEN acts[a]
                  ELSE [acts[a] EXCEPT !.over = TRUE, !.run = IF @ = "runs" THEN "over" ELSE @, !.shut = by]]
Under(a) == {b \in Acts : a \in Lineage(b)}

\* A word ends, and its rung with it; it may have closed its prompt. No fact of that is kept.
Ends(r) ==
  /\ acts[r].is = "rung" /\ Live(r) /\ acts[r].run = "runs"
  /\ \E closes \in BOOLEAN :
       acts' = Over({r} \cup (IF closes /\ acts[r].by # OPERATOR THEN Under(acts[r].by) ELSE {}), FALSE)
  /\ UNCHANGED <<whole, paused, controls, reader, told>>

\* The operator closes or cancels an act; a pause holds a prompt and what is under it until a wake, with
\* which each rung goes on with the turn that it put off.
Closes(a) ==
  /\ controls < MaxControls /\ controls' = controls + 1
  /\ acts' = Over(Under(a), TRUE) /\ Reads(<<Fact("close", a, OPERATOR, None)>>)
  /\ UNCHANGED <<whole, paused>>
Pauses(p) ==
  /\ acts[p].is = "prompt" /\ Live(p) /\ p \notin paused /\ controls < MaxControls /\ controls' = controls + 1
  /\ paused' = paused \cup {p} /\ UNCHANGED <<whole, acts, reader, told>>
Wakes(p) ==
  /\ p \in paused /\ paused' = paused \ {p}
  /\ LET off == {r \in Acts : acts[r].reply = "put off" /\ Live(r) /\ Lineage(r) \cap paused = {p}} IN
     IF off = {} THEN UNCHANGED <<acts, reader, told>>
     ELSE \E order \in SetToSeqs(off), passes \in [off -> BOOLEAN] :
            /\ acts' = FoldLeft(LAMBDA now, r : Ready([now EXCEPT ![r].reply = "done"], r, passes[r]), acts, order)
            /\ Reads(FoldLeft(LAMBDA facts, r : facts \o Gates(r, acts[r].on, passes[r]), <<>>, order))
  /\ UNCHANGED <<whole, controls>>

Next ==
  \/ Prompt \/ Word
  \/ \E a \in Acts : Rung(a) \/ Asks(a) \/ Answers(a) \/ Bash(a) \/ Makes(a) \/ Ends(a) \/ Closes(a) \/ Pauses(a) \/ Wakes(a)

Spec == Init /\ [][Next]_readerVars

-----------------------------------------------------------------------------
TypeOK ==
  /\ whole \in BOOLEAN /\ paused \subseteq Acts /\ controls \in 0 .. MaxControls
  /\ \A a \in Acts : acts[a].is \in {"prompt", "rung"} /\ acts[a].by \in 0 .. Len(acts)
  /\ reader.done \subseteq Acts /\ reader.runs \subseteq Acts /\ reader.gate \in 0 .. Len(acts)

Is(fact, is, of) == fact.is = is /\ fact.of = of
Tells(is, of) == \E n \in DOMAIN told : Is(told[n], is, of)

\* The reader ends no act that lives and no run that goes on, tells findings of no word that the gate did not
\* refuse, and no run of a word that did not start, but of a rung whose gate or place it took for that of another
\* (Reader::end, answered, ran).
EndsAreTrue ==
  \A n \in DOMAIN told : told[n].of \in reader.misled \/
    CASE told[n].is = "done" -> acts[told[n].of].over
      [] told[n].is = "ranDone" -> acts[told[n].of].run = "over"
      [] told[n].is = "refused" -> acts[told[n].of].gate = "refused"
      [] told[n].is = "run" -> acts[told[n].of].run # "no"
      [] OTHER -> TRUE

\* Each fact that the reader says, it says once, and the done of a run after that run (Reader::end).
ToldOnce ==
  /\ IsInjective(told)
  /\ \A n \in DOMAIN told : told[n].is = "ranDone" => \E m \in 1 .. n : Is(told[m], "run", told[n].of)

\* Each act that the operator closed is told done, with the rung of it that the reader knows and its run, and so
\* is each rung of a prompt whose word the gate refused, but one that it took for another (Reader::end, answered).
EndsAreTold ==
  /\ \A a \in Acts : acts[a].shut /\ a \in reader.done => ~\E o \in reader.rungs : o.maker = a
  /\ \A r \in Acts \ reader.misled :
       /\ r \in reader.runs /\ r \in reader.done => Tells("ranDone", r)
       /\ acts[r].is = "rung" /\ acts[r].by # OPERATOR /\ acts[r].gate = "refused" => Tells("refused", r)

\* A rung that the record does not hold stands on its chain, and on the prompt that asked it when no other is open
\* there (Reader::rung).
PlacesAreTrue ==
  \A n \in DOMAIN told : told[n].is = "rung" /\ told[n].of \notin reader.misled =>
    acts[told[n].of].by = told[n].by /\ acts[told[n].of].on = told[n].on

ReaderHolds == EndsAreTrue /\ ToldOnce /\ EndsAreTold /\ PlacesAreTrue
=============================================================================
