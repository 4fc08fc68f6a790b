-------------------------------- MODULE Turns --------------------------------
(***************************************************************************)
(* The turns of a chain (chain, prompt and rung of furb/engine.py): each    *)
(* prompt to a model asks a rung while none of its own is open, the chain   *)
(* asks the model of one rung at a time for its word, and the word runs.    *)
(* The ears of the chain, its prompts and its rungs hear each fact in that  *)
(* order, and all of them before the next fact. Facts say which act they    *)
(* are about by its number.                                                 *)
(***************************************************************************)
EXTENDS Naturals, Sequences, FiniteSets, SequencesExt

CONSTANTS Prompts,   \* the prompts to a model on the chain
          Words,     \* the words that models give
          MaxRungs,  \* bound: rungs
          MaxLag,    \* bound: facts not heard when one comes from outside
          MaxPauses  \* bound: pauses

VARIABLES
  prompts,  \* each prompt: not asked yet, open, over, and whether a pause is over it
  rungs,    \* each rung: its prompt, whether it is over, its reply, its run, and its word
  log,      \* the facts that the ears did not hear yet
  chain,    \* what the ear of the chain holds
  astray,   \* a reply of no rung is in flight
  pauses    \* how often a prompt was paused

turnVars == <<prompts, rungs, log, chain, astray, pauses>>

Rungs == 1 .. Len(rungs)

TypeOK ==
  /\ \A p \in Prompts : prompts[p].is \in {"no", "open", "over"} /\ prompts[p].paused \in BOOLEAN
  /\ \A r \in Rungs : /\ rungs[r].by \in Prompts /\ rungs[r].over \in BOOLEAN
                      /\ rungs[r].reply \in {"no", "open", "put off", "done"} /\ rungs[r].run \in {"no", "runs", "waits", "done"}
                      /\ rungs[r].word \in Words \cup {""} /\ rungs[r].act \in {"no", "open", "over"}
  /\ chain.waiting \in Seq(Rungs) /\ chain.running \subseteq Rungs /\ chain.step \in 0 .. Len(rungs)
  /\ chain.note.is \in {"no", "told", "binds", "bound"} /\ chain.ran \in 0 .. Len(rungs)
  /\ chain.mute \in Prompts \cup {""} /\ chain.dull \in Words \cup {""} /\ astray \in BOOLEAN
  /\ pauses \in 0 .. MaxPauses

Init ==
  /\ prompts = [p \in Prompts |-> [is |-> "no", paused |-> FALSE]] /\ rungs = <<>> /\ log = <<>>
  /\ chain = [waiting |-> <<>>, running |-> {}, binds |-> FALSE, step |-> 0, note |-> [is |-> "no", n |-> 0],
              ran |-> 0, mute |-> "", loud |-> 0, dull |-> ""]
  /\ astray = FALSE /\ pauses = 0

\* A state of all the ears, which the operators below carry forward.
Now == [prompts |-> prompts, rungs |-> rungs, log |-> log, chain |-> chain, astray |-> astray]
To(now) ==
  /\ prompts' = now.prompts /\ rungs' = now.rungs /\ log' = now.log /\ chain' = now.chain /\ astray' = now.astray
Says(now, fact) == [now EXCEPT !.log = Append(@, fact)]
Fact(is, rung) == [is |-> is, rung |-> rung]

Of(now, p) == {r \in 1 .. Len(now.rungs) : now.rungs[r].by = p}
Paused(now, r) == now.prompts[now.rungs[r].by].paused

-----------------------------------------------------------------------------
(* The ear of the chain.                                                    *)

\* The acts that words started and that are not over, which hold a mute prompt back.
Seen(now) == {r \in 1 .. Len(now.rungs) : now.rungs[r].act = "open"}

\* A form of MayAsk that never asks the rungs of the prompt that the last word said nothing to.
AsksNeverMute(now, r) == ~now.rungs[r].over /\ ~Paused(now, r) /\ now.chain.mute # now.rungs[r].by

\* The rungs that the chain may ask next.
MayAsk(now, r) ==
  ~now.rungs[r].over /\ ~Paused(now, r) /\ ~(now.chain.mute = now.rungs[r].by /\ Seen(now) # {})

\* The word of the rung that the chain asked last said nothing, and is what the last such word was.
IsDull(now) == now.chain.ran # 0 /\ now.chain.ran = now.chain.step /\ now.rungs[now.chain.ran].word = now.chain.dull

\* A form that steps on while the model of its step is asked.
StepsAhead(now) ==
  LET may == SelectSeq(now.chain.waiting, LAMBDA r : MayAsk(now, r) /\ now.rungs[r].reply = "no") IN
  IF now.chain.running # {} \/ now.chain.note.is \in {"told", "binds"} \/ may = <<>> \/ IsDull(now) THEN now
  ELSE Says([now EXCEPT !.chain.step = may[1], !.chain.note = [is |-> "told", n |-> now.chain.note.n + 1]],
            [is |-> "tell", by |-> 0, n |-> now.chain.note.n + 1])

\* Once no word runs, the chain steps to the next rung that waits and tells it, after it told a word
\* that said nothing.
Steps(now) ==
  LET c    == now.chain
      may  == SelectSeq(c.waiting, LAMBDA r : MayAsk(now, r))
      step == IF may = <<>> THEN 0 ELSE may[1]
      note == c.note.n + 1
      said == IF c.ran = 0 THEN now
              ELSE Says([now EXCEPT !.chain.dull = now.rungs[c.ran].word], [is |-> "tell", by |-> 0, n |-> 0])
  IN  IF c.running # {} \/ c.binds \/ (c.step # 0 /\ c.step \in Range(c.waiting)) \/ IsDull(now) THEN now
      ELSE IF step = 0 THEN [now EXCEPT !.chain.step = 0]
      ELSE Says([said EXCEPT !.chain.step = step, !.chain.note = [is |-> "told", n |-> note]],
                [is |-> "tell", by |-> 0, n |-> note])

\* The reply of the step, asked of its model.
Asks(now) ==
  LET r == now.chain.step IN
  IF r = 0 THEN [now EXCEPT !.astray = TRUE] ELSE [now EXCEPT !.rungs[r].reply = "open"]

Unwaits(now, r) == [now EXCEPT !.chain.waiting = SelectSeq(@, LAMBDA x : x # r), !.chain.running = @ \ {r}]

ChainHears(now, fact) ==
  LET c == now.chain
      heard ==
        CASE fact.is = "tell" ->
               LET told == [now EXCEPT !.chain.ran = 0, !.chain.mute = "", !.chain.loud = fact.by] IN
               IF c.note = [is |-> "told", n |-> fact.n] THEN [told EXCEPT !.chain.note.is = "binds", !.chain.binds = TRUE] ELSE told
          [] fact.is = "bound" ->
               LET free == [now EXCEPT !.chain.binds = FALSE, !.chain.mute = ""] IN
               IF c.note = [is |-> "binds", n |-> fact.n] THEN Asks([free EXCEPT !.chain.note.is = "bound"]) ELSE free
          [] fact.is = "rung" -> [now EXCEPT !.chain.waiting = Append(@, fact.rung)]
          [] fact.is = "ready" ->
               LET r == fact.rung IN
               [Unwaits(now, r) EXCEPT !.chain.ran = r, !.rungs[r].run = IF now.rungs[r].over THEN @ ELSE "runs",
                                       !.chain.running = IF now.rungs[r].over THEN @ ELSE @ \cup {r}]
          [] fact.is = "rungDone" -> Unwaits(now, fact.rung)
          [] fact.is = "runDone" ->
               [now EXCEPT !.chain.running = @ \ {fact.rung},
                           !.chain.mute = IF c.loud # fact.rung THEN now.rungs[fact.rung].by ELSE ""]
          [] fact.is = "waits" -> [now EXCEPT !.chain.running = @ \ {fact.rung}]
          [] fact.is = "goesOn" -> [now EXCEPT !.chain.running = @ \cup {fact.rung}]
          [] fact.is = "actDone" -> [now EXCEPT !.chain.mute = "", !.chain.dull = ""]
          [] OTHER -> now
  IN  Steps(heard)

-----------------------------------------------------------------------------
(* The ears of a prompt and of a rung.                                      *)

\* A prompt that is open, with no pause over it and no rung of its own open, asks one, which the chain
\* hears at once.
NewRung(p) == [by |-> p, over |-> FALSE, reply |-> "no", run |-> "no", word |-> "", act |-> "no"]
PromptHears(now, p) ==
  IF /\ now.prompts[p].is = "open" /\ ~now.prompts[p].paused /\ \A r \in Of(now, p) : now.rungs[r].over
     /\ Len(now.rungs) < MaxRungs
  THEN LET new == [now EXCEPT !.rungs = Append(@, NewRung(p))] IN ChainHears(new, Fact("rung", Len(new.rungs)))
  ELSE now

\* The rung hears its turn, put off while it is paused, and the done of its run, with which it is done.
RungHears(now, fact) ==
  LET r == fact.rung IN
  CASE fact.is = "replyDone" /\ ~now.rungs[r].over /\ ~Paused(now, r) ->
         IF now.rungs[r].word = "" THEN Says([now EXCEPT !.rungs[r].over = TRUE], Fact("rungDone", r))
         ELSE Says(now, Fact("ready", r))
    [] fact.is = "replyDone" /\ ~now.rungs[r].over -> [now EXCEPT !.rungs[r].reply = "put off"]
    [] fact.is = "runDone" /\ ~now.rungs[r].over -> Says([now EXCEPT !.rungs[r].over = TRUE], Fact("rungDone", r))
    [] OTHER -> now

PromptOf(fact) == IF fact.is \in {"prompt", "woke"} THEN {fact.prompt}
                  ELSE IF fact.is = "rungDone" THEN {rungs[fact.rung].by} ELSE {}

Hear ==
  LET fact  == Head(log)
      chain1 == ChainHears([Now EXCEPT !.log = Tail(@)], fact)
      asked  == IF PromptOf(fact) = {} THEN chain1 ELSE PromptHears(chain1, CHOOSE p \in PromptOf(fact) : TRUE)
  IN  /\ log # <<>> /\ UNCHANGED pauses
      /\ To(IF fact.is \in {"replyDone", "runDone"} THEN RungHears(asked, fact) ELSE asked)

-----------------------------------------------------------------------------
(* What comes from outside of the chain: prompts, controls, models, words.  *)

Prompt(p) ==
  /\ prompts[p].is = "no" /\ To(Says([Now EXCEPT !.prompts[p].is = "open"], [is |-> "prompt", prompt |-> p])) /\ UNCHANGED pauses

\* A cancel or a close of a prompt ends it with its rungs, its reply and its run.
Ends(p) ==
  LET open   == SetToSortSeq({r \in Of(Now, p) : ~rungs[r].over}, <)
      runs   == SetToSortSeq({r \in Of(Now, p) : rungs[r].run \in {"runs", "waits"}}, <)
      shut   == [r \in Rungs |-> IF rungs[r].by # p THEN rungs[r]
                   ELSE [rungs[r] EXCEPT !.over = TRUE, !.reply = IF @ = "open" THEN "done" ELSE @,
                                         !.run = IF @ \in {"runs", "waits"} THEN "done" ELSE @]]
      facts  == [n \in DOMAIN open |-> Fact("rungDone", open[n])] \o [n \in DOMAIN runs |-> Fact("runDone", runs[n])]
  IN  /\ prompts[p].is = "open" /\ UNCHANGED pauses
      /\ To([Now EXCEPT !.prompts[p].is = "over", !.rungs = shut, !.log = @ \o facts])

Pause(p) ==
  /\ prompts[p].is = "open" /\ ~prompts[p].paused /\ pauses < MaxPauses /\ pauses' = pauses + 1
  /\ prompts' = [prompts EXCEPT ![p].paused = TRUE] /\ UNCHANGED <<rungs, log, chain, astray>>

\* A wake, with which each rung hears what it put off.
Wake(p) ==
  LET off == SetToSortSeq({r \in Of(Now, p) : rungs[r].reply = "put off"}, <) IN
  /\ prompts[p].paused /\ UNCHANGED pauses
  /\ To([Now EXCEPT !.prompts[p].paused = FALSE,
                    !.rungs = [r \in Rungs |-> IF r \in Range(off) THEN [rungs[r] EXCEPT !.reply = "done"] ELSE rungs[r]],
                    !.log = Append(@, [is |-> "woke", prompt |-> p]) \o [n \in DOMAIN off |-> Fact("replyDone", off[n])]])

\* The text that was told is bound, by a run of its own.
Bind == 
  /\ chain.binds /\ ~\E n \in DOMAIN log : log[n].is = "bound" 
  /\ log' = Append(log, [is |-> "bound", n |-> chain.note.n]) /\ UNCHANGED <<prompts, rungs, chain, astray, pauses>>

\* The turn of a model, with a word, or a fault that no later turn mends.
Turn(r, word) ==
  /\ rungs[r].reply = "open" /\ UNCHANGED pauses
  /\ To(Says([Now EXCEPT !.rungs[r].reply = "done", !.rungs[r].word = word], Fact("replyDone", r)))

Stray == astray /\ astray' = FALSE /\ UNCHANGED <<prompts, rungs, log, chain, pauses>>

\* A word tells, starts an act, waits, goes on, is over, or ends its prompt.
Word(r) ==
  /\ UNCHANGED pauses
  /\ \/ rungs[r].run = "runs" /\ chain.loud # r /\ To(Says(Now, [is |-> "tell", by |-> r, n |-> 0]))
     \/ rungs[r].run = "runs" /\ rungs[r].act = "no" /\ To([Now EXCEPT !.rungs[r].act = "open"])
     \/ rungs[r].run = "runs" /\ rungs[r].act = "open" /\ To(Says([Now EXCEPT !.rungs[r].run = "waits"], Fact("waits", r)))
     \/ rungs[r].run = "waits" /\ rungs[r].act = "over" /\ To(Says([Now EXCEPT !.rungs[r].run = "runs"], Fact("goesOn", r)))
     \/ rungs[r].run = "runs" /\ To(Says([Now EXCEPT !.rungs[r].run = "done"], Fact("runDone", r)))

EndAct(r) ==
  /\ rungs[r].act = "open" /\ To(Says([Now EXCEPT !.rungs[r].act = "over"], Fact("actDone", r))) /\ UNCHANGED pauses

FromOutside ==
  \/ \E p \in Prompts : Prompt(p) \/ Ends(p) \/ Pause(p) \/ Wake(p)
  \/ Bind \/ Stray
  \/ \E r \in Rungs : (\E word \in Words \cup {""} : Turn(r, word)) \/ Word(r) \/ EndAct(r)

Next == Hear \/ (Len(log) <= MaxLag /\ FromOutside)

Spec == Init /\ [][Next]_turnVars

-----------------------------------------------------------------------------
(* Properties.                                                              *)

InFlight == {r \in Rungs : rungs[r].reply = "open"}

\* A chain asks one model at a time for a word that an open rung waits for, and each word runs alone
\* but for those that wait.
OneAtATime ==
  /\ Cardinality({r \in InFlight : ~rungs[r].over}) <= 1
  /\ \A r \in Rungs : rungs[r].reply = "open" => rungs[r].run = "no"

\* engine.pyi:918: "A chain has at most one reply in flight".
OneReply == Cardinality(InFlight) + (IF astray THEN 1 ELSE 0) <= 1

\* Once all is heard, an open prompt that no pause is over has a rung that goes on: its model is asked, its
\* word runs or waits, or it waits for a rung that goes on, for what a word started, or for a word that
\* is not the one that said nothing twice.
Moves(r) == rungs[r].reply = "open" \/ rungs[r].run \in {"runs", "waits"}
NoneForgotten ==
  log = <<>> /\ ~chain.binds =>
    \A p \in Prompts : prompts[p].is = "open" /\ ~prompts[p].paused =>
      \/ \E r \in Rungs : Moves(r) \/ rungs[r].reply = "put off"
      \/ (\A r \in Of(Now, p) : rungs[r].over) /\ Len(rungs) = MaxRungs
      \/ chain.mute = p /\ Seen(Now) # {}
      \/ IsDull(Now)

\* A chain asks its models in turn, and goes on until each of its prompts is over (chain, prompt, rung).
TurnsGoOn == OneAtATime /\ NoneForgotten
=============================================================================
