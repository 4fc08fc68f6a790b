------------------------------ MODULE Provider ------------------------------
(***************************************************************************)
(* The ear of the provider of models on one chain: the replies that it      *)
(* took, the watch over the word of each while its model writes it, the     *)
(* parts of the word that it gives the Kernel before the rest is written,   *)
(* the retries of a call, pauses, stands and the row of refusals.           *)
(*                                                                         *)
(* A handler of the ear is one step: what it says lands, and the ear hears  *)
(* it, before the ear takes more of its work (Co::next). A word is the      *)
(* sequence of its statements, each named by the attempt that wrote it.     *)
(***************************************************************************)
EXTENDS Naturals, Sequences, FiniteSets, SequencesExt

CONSTANTS Actors, MaxReplies,
          MaxWriting,  \* while this many replies at most were asked, their models write, and no other is asked meanwhile
          MaxPieces, MaxFails, MaxStands, MaxPauses

VARIABLES
  taken,    \* the replies that stand, by id: Reply of hearer.rs, or NONE
  mute,     \* the actor whose last reply the ear refused, or NOBODY
  calls,    \* the work of each reply: its attempt, what it wrote, the channel that it tells through
  paused,   \* whether a pause holds the chain
  stood,    \* whether the ear heard a stand
  reading,  \* the stands whose settings a task reads
  asked, stands, pauses,  \* how many replies, stands and pauses of the outside there were
  parts,    \* for each reply, the parts that the Kernel has not said it ran
  gave,     \* for each reply, all its statements that the Kernel was given
  ends,     \* the dones that the ear said, in order
  over      \* how many dones of each reply were said

vars == <<taken, mute, calls, paused, stood, reading, asked, stands, pauses, parts, gave, ends, over>>

NOBODY == "nobody"
NONE == [actor |-> NOBODY]
Ids  == 1 .. MaxReplies

\* The actors are names, which that of nobody is not.
ProviderAssumption == NOBODY \notin Actors /\ {MaxReplies, MaxStands} \subseteq Nat

\* The watch of a call that its model wrote nothing for.
Watch == [text |-> <<>>, given |-> 0, whole |-> FALSE]

\* The call of a model: it is "asked", "asleep" before its next attempt, "held" until no pause holds it, or "over".
Call(at, serial) == [at |-> at, serial |-> serial, wrote |-> 0, fails |-> 0, pipe |-> <<>>]
NoCall == Call("over", 0)

Stands(id) == taken[id] # NONE
Took == {id \in Ids : Stands(id)}

\* The word that the parts given to the Kernel hold.
RanOf(watch) == SubSeq(watch.text, 1, watch.given)
Ran(id) == RanOf(taken[id].watch)

Init ==
  /\ taken = [id \in Ids |-> NONE] /\ calls = [id \in Ids |-> NoCall]
  /\ mute = NOBODY /\ paused = FALSE /\ stood \in BOOLEAN /\ reading = 0
  /\ asked = 0 /\ stands = 0 /\ pauses = 0
  /\ parts = [id \in Ids |-> 0] /\ gave = [id \in Ids |-> <<>>]
  /\ ends = <<>> /\ over = [id \in Ids |-> 0]

(* ---- what the ear says of a reply ---- *)

\* The done of a reply is heard: the reply goes, and its call ends.
Gone(id) ==
  /\ taken' = [taken EXCEPT ![id] = NONE]
  /\ calls' = [calls EXCEPT ![id] = NoCall]
  /\ over' = [over EXCEPT ![id] = @ + 1]

\* The ear says a reply done with a turn of this word, which ends the row of refusals, or with a refusal.
Turned(id, word) ==
  /\ ends' = Append(ends, [id |-> id, actor |-> taken[id].actor, turned |-> TRUE, word |-> word, hard |-> FALSE, paused |-> paused,
                           after |-> taken[id].after])
  /\ mute' = NOBODY /\ Gone(id)

Refused(id, hard) ==
  LET pausing == hard /\ taken[id].again IN
  /\ paused' = (paused \/ pausing)
  /\ taken' = [i \in Ids |-> IF i = id \/ taken[i] = NONE THEN NONE ELSE [taken[i] EXCEPT !.hold = paused']]
  /\ calls' = [calls EXCEPT ![id] = NoCall]
  /\ over' = [over EXCEPT ![id] = @ + 1]
  /\ ends' = Append(ends, [id |-> id, actor |-> taken[id].actor, turned |-> FALSE, word |-> <<>>, hard |-> hard, paused |-> paused',
                           after |-> taken[id].after])
  /\ mute' = taken[id].actor

(* ---- what the ear hears ---- *)

\* A form that forgets the row when a reply is taken.
TakenAfresh(actor, streams) ==
  [actor |-> actor, again |-> FALSE, waits |-> FALSE, streams |-> streams, watch |-> Watch, hold |-> paused, after |-> Len(ends)]

\* A row of refusals goes on with a reply to the same actor, and the next call waits while a pause holds.
Taken(actor, streams) ==
  [actor |-> actor, again |-> mute = actor, waits |-> FALSE, streams |-> streams, watch |-> Watch, hold |-> paused,
   after |-> Len(ends)]

Reply ==
  /\ asked < MaxReplies /\ (\A id \in Ids : calls[id].wrote = 0) /\ asked' = asked + 1
  /\ \E actor \in Actors, streams \in BOOLEAN :
       /\ taken' = [taken EXCEPT ![asked + 1] = Taken(actor, streams)]
       /\ calls' = [calls EXCEPT ![asked + 1] = Call("asked", 1)]
  /\ UNCHANGED <<mute, paused, stood, reading, stands, pauses, parts, gave, ends, over>>

\* A form whose early return for a control stands before the reply goes.
ControlledKept(id) ==
  /\ Stands(id) /\ over' = [over EXCEPT ![id] = @ + 1]
  /\ UNCHANGED <<taken, calls, mute, paused, stood, reading, asked, stands, pauses, parts, gave, ends>>

\* A control ends a reply, which leaves the row as it is.
Controlled(id) ==
  /\ Stands(id) /\ Gone(id)
  /\ UNCHANGED <<mute, paused, stood, reading, asked, stands, pauses, parts, gave, ends>>

\* A form that lets only the replies that wait hear of it.
HeldWaiting(now) == [id \in Ids |-> IF Stands(id) /\ taken[id].waits THEN [taken[id] EXCEPT !.hold = now] ELSE taken[id]]

\* A pause or a wake is heard by each reply that stands.
Held(now) == [id \in Ids |-> IF Stands(id) THEN [taken[id] EXCEPT !.hold = now] ELSE NONE]

Pause ==
  /\ IF paused THEN pauses' = pauses ELSE pauses < MaxPauses /\ pauses' = pauses + 1
  /\ paused' = ~paused /\ taken' = Held(~paused)
  /\ UNCHANGED <<mute, calls, stood, reading, asked, stands, parts, gave, ends, over>>

\* The call of each reply that waits is made anew on what stands now, once no pause holds it.
AskedAgain ==
  /\ taken' = [id \in Ids |-> IF Stands(id) /\ taken[id].waits
                              THEN [taken[id] EXCEPT !.waits = FALSE, !.watch = Watch, !.hold = paused] ELSE taken[id]]
  /\ calls' = [id \in Ids |-> IF Stands(id) /\ taken[id].waits THEN Call("held", calls[id].serial) ELSE calls[id]]

\* A stand of a word, the first stand or one with no settings to read is answered; another reads the settings.
Stand(word) ==
  /\ stands < MaxStands /\ stands' = stands + 1 /\ stood' = TRUE
  /\ IF stood /\ ~word
     THEN reading' = reading + 1 /\ UNCHANGED <<taken, calls>>
     ELSE reading' = reading /\ IF word THEN UNCHANGED <<taken, calls>> ELSE AskedAgain
  /\ UNCHANGED <<mute, paused, asked, pauses, parts, gave, ends, over>>

\* The settings came, or why they did not, or a control ended the stand.
Refreshed ==
  /\ reading > 0 /\ reading' = reading - 1
  /\ AskedAgain \/ UNCHANGED <<taken, calls>>
  /\ UNCHANGED <<mute, paused, stood, asked, stands, pauses, parts, gave, ends, over>>

\* The Kernel ran a part, and a raise there ends the word.
RanPart(id, raised) ==
  /\ parts[id] > 0 /\ parts' = [parts EXCEPT ![id] = IF raised THEN 0 ELSE @ - 1]
  /\ IF raised /\ Stands(id) /\ Ran(id) # <<>>
     THEN Turned(id, Ran(id)) ELSE UNCHANGED <<taken, calls, ends, mute, over>>
  /\ UNCHANGED <<paused, stood, reading, asked, stands, pauses, gave>>

(* ---- what the work of a reply comes to ---- *)

Item(id) == Head(calls[id].pipe)
Comes(id, kind) == calls[id].pipe # <<>> /\ Item(id).kind = kind /\ Stands(id)
Read(id) == [calls EXCEPT ![id].pipe = Tail(@)]

\* The statements that are whole: all but the last, and but the one before it when the last is a clause of it.
Whole(text) == {n \in {Len(text) - 1, Len(text) - 2} : n > 0}

\* New statements go to the Kernel as one part, which starts where the last part ended.
PartTo(watch, n) == SubSeq(watch.text, watch.given + 1, n)

\* A part is given while no pause holds its chain; a word whose first part was held is given whole at its end.
Gives(id, watch, n) ==
  LET new == n > watch.given /\ ~watch.whole
      gives == new /\ ~paused
  IN /\ taken' = [taken EXCEPT ![id].waits = FALSE,
                    ![id].watch = IF gives THEN [watch EXCEPT !.given = n]
                                  ELSE IF new /\ watch.given = 0 THEN [watch EXCEPT !.whole = TRUE] ELSE watch]
     /\ gave' = IF gives THEN [gave EXCEPT ![id] = @ \o PartTo(watch, n)] ELSE gave
     /\ parts' = IF gives THEN [parts EXCEPT ![id] = @ + 1] ELSE parts
     /\ calls' = Read(id) /\ UNCHANGED <<ends, mute, over>>

\* A statement that can never run ends the reply: with what ran, else with the word through that statement.
Stops(id, watch, line) ==
  /\ Turned(id, IF watch.given > 0 THEN RanOf(watch) ELSE SubSeq(watch.text, 1, line))
  /\ UNCHANGED <<gave, parts>>

\* The gate finds nothing, or a fault that the rest may mend, or a fault for good at a statement.
Wrote(id) ==
  /\ Comes(id, "wrote")
  /\ LET watch == [taken[id].watch EXCEPT !.text = Append(@, Item(id).serial)]
         quiet(w) == /\ taken' = [taken EXCEPT ![id].waits = FALSE, ![id].watch = w] /\ calls' = Read(id)
                     /\ UNCHANGED <<ends, mute, over, gave, parts>>
     IN IF ~taken[id].streams THEN quiet(Watch)
        ELSE \/ quiet(watch)
             \/ \E n \in Whole(watch.text) : Gives(id, watch, n)
             \/ \E line \in 1 .. Len(watch.text) - 1 : Stops(id, watch, line)
  /\ UNCHANGED <<paused, stood, reading, asked, stands, pauses>>

\* A model asked again writes another word, so a reply whose part ran ends with what ran.
Retried(id) ==
  /\ Comes(id, "retried")
  /\ IF Ran(id) # <<>> THEN Turned(id, Ran(id))
     ELSE /\ taken' = [taken EXCEPT ![id].waits = TRUE, ![id].watch = Watch] /\ calls' = Read(id)
          /\ UNCHANGED <<ends, mute, over>>
  /\ UNCHANGED <<paused, stood, reading, asked, stands, pauses, gave, parts>>

\* A form that keeps whatever turn the model gave.
KeepsAnyTurn(id, got) == got.turned \/ Ran(id) = <<>>

\* Once a part ran, the turn is kept only when it starts with what ran and the gate finds nothing in it.
Keeps(id, got) == Ran(id) = <<>> \/ (got.turned /\ IsPrefix(Ran(id), got.word))

Came(id) ==
  /\ Comes(id, "came")
  /\ LET got == Item(id).got IN
     \/ /\ Keeps(id, got)
        /\ IF got.turned THEN Turned(id, got.word) /\ UNCHANGED paused ELSE Refused(id, got.hard)
     \/ Ran(id) # <<>> /\ Turned(id, Ran(id)) /\ UNCHANGED paused
  /\ UNCHANGED <<stood, reading, asked, stands, pauses, gave, parts>>

(* ---- the call of the model, as the work of the ear polls it ---- *)

Tells(id, item) == Append(calls[id].pipe, item)
OfEar == <<taken, mute, paused, stood, reading, asked, stands, pauses, parts, gave, ends, over>>

Writes(id) ==
  /\ calls[id].at = "asked" /\ asked <= MaxWriting /\ calls[id].wrote < MaxPieces
  /\ calls' = [calls EXCEPT ![id].wrote = @ + 1, ![id].pipe = Tells(id, [kind |-> "wrote", serial |-> calls[id].serial])]
  /\ UNCHANGED OfEar

\* A failure that passes is told, and the next attempt comes after its wait.
Passes(id) ==
  /\ calls[id].at = "asked" /\ calls[id].fails < MaxFails
  /\ calls' = [calls EXCEPT ![id].at = "asleep", ![id].fails = @ + 1, ![id].pipe = Tells(id, [kind |-> "retried"])]
  /\ UNCHANGED OfEar

Comings(id) ==
  {[turned |-> TRUE, word |-> [n \in 1 .. calls[id].wrote |-> calls[id].serial], hard |-> FALSE],
   [turned |-> TRUE, word |-> <<0>>, hard |-> FALSE]}
  \cup [turned : {FALSE}, word : {<<>>}, hard : BOOLEAN]

Answers(id) ==
  /\ calls[id].at = "asked"
  /\ \E got \in Comings(id) :
       calls' = [calls EXCEPT ![id].at = "over", ![id].pipe = Tells(id, [kind |-> "came", got |-> got])]
  /\ UNCHANGED OfEar

Sleeps(id) == calls[id].at = "asleep" /\ calls' = [calls EXCEPT ![id].at = "held"] /\ UNCHANGED OfEar

\* Whether the next attempt of a call may begin.
Released(id) == ~taken[id].hold

Begins(id) ==
  /\ calls[id].at = "held" /\ Released(id)
  /\ calls' = [calls EXCEPT ![id].at = "asked", ![id].serial = @ + 1, ![id].wrote = 0]
  /\ UNCHANGED OfEar

Work(id)  == Wrote(id) \/ Retried(id) \/ Came(id)
Model(id) == Writes(id) \/ Passes(id) \/ Answers(id) \/ Sleeps(id) \/ Begins(id)

Next ==
  \/ Reply \/ Pause \/ Refreshed \/ (\E word \in BOOLEAN : Stand(word))
  \/ \E id \in Ids : Controlled(id) \/ (\E raised \in BOOLEAN : RanPart(id, raised)) \/ Work(id) \/ Model(id)

Spec == Init /\ [][Next]_vars

-----------------------------------------------------------------------------
TypeOK ==
  /\ \A id \in Took :
       /\ taken[id].actor \in Actors /\ {taken[id].waits, taken[id].again, taken[id].hold} \subseteq BOOLEAN
       /\ taken[id].watch.given \in 0 .. Len(taken[id].watch.text)
  /\ mute \in Actors \cup {NOBODY} /\ paused \in BOOLEAN
  /\ asked \in 0 .. MaxReplies /\ reading \in 0 .. MaxStands

\* The turn that a reply is done with begins with every statement of it that the Kernel ran, whatever the
\* model wrote after, failed at or was asked again, since a later life runs the turn as it ran (kept, end).
TurnHoldsWhatRan ==
  \A k \in DOMAIN ends : gave[ends[k].id] # <<>> => ends[k].turned /\ IsPrefix(gave[ends[k].id], ends[k].word)

\* Of a reply that stands, the Kernel was given the start of one word of one attempt, with no gap and nothing twice.
GivenOnce ==
  \A id \in Took : gave[id] = Ran(id) /\ \A i, j \in DOMAIN gave[id] : gave[id][i] = gave[id][j]

\* A reply is done once, by the ear or by a control (done, Replies::end).
DoneOnce == \A id \in Ids : over[id] <= 1

\* A reply that stands comes to something: its call goes on, told what is not read yet, or waits for the wake of
\* a pause that holds it, whichever call and whenever it came to wait (asking, held, released).
NoneIsForgotten ==
  \A id \in Took :
    \/ calls[id].at \in {"asked", "asleep"} \/ calls[id].pipe # <<>>
    \/ calls[id].at = "held" /\ Released(id) = ~paused

\* A refusal that another turn cannot mend pauses the chain when the ear refused the last reply before it
\* was asked to the same actor too (reply, came).
RowPauses ==
  \A k \in DOMAIN ends :
    LET e == ends[k] IN
    e.hard /\ k > 1 /\ e.after >= k - 1 /\ ~ends[k - 1].turned /\ ends[k - 1].actor = e.actor => e.paused

RepliesHold == TurnHoldsWhatRan /\ GivenOnce /\ DoneOnce /\ NoneIsForgotten /\ RowPauses
=============================================================================
