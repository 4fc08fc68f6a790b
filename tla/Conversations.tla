--------------------------- MODULE Conversations ---------------------------
(***************************************************************************)
(* The conversations of the claude command line (world/provider/claude). A  *)
(* keeper lends the conversation of a chain to one turn at a time; the turn *)
(* writes to a process of the command line what that did not hear yet, and  *)
(* the conversation goes back however the turn ends: with a reply, with a   *)
(* failure, or dropped while it waits for anything. The command line keeps  *)
(* each conversation in a file of the account that it runs as. A message is *)
(* a number and how much of it was said, a reply one of which nothing is    *)
(* counted; what the command line holds is the parts of messages, in order. *)
(***************************************************************************)
EXTENDS Naturals, Sequences, FiniteSets, TLC, SequencesExt, FiniteSetsExt

CONSTANTS Keys,       \* the chains that ask the command line
          Sharing,    \* the chains that may start as what another one said so far
          Users,      \* the accounts, each with a directory of its own
          WARM, HELD,
          MaxSaid,    \* bound: the messages
          MaxTurns, MaxMishaps

VARIABLES
  asks,       \* what each chain asks next: the messages of its request
  said,       \* how many messages there are
  turns,      \* the turns, and where each is
  mailbox,    \* what the keeper is asked and did not hear yet
  slots,      \* what the keeper holds of each chain
  disk,       \* what the command line keeps of each conversation
  parked,     \* the accounts that no turn takes: by a "limit" or "signed out"
  given,      \* the messages that a turn gave again
  mishaps

conversationVars == <<asks, said, turns, mailbox, slots, disk, parked, given, mishaps>>

None == 0
NoOne == [id |-> None, parent |-> None, account |-> None, resumed |-> FALSE, chain |-> <<>>, asked |-> FALSE,
          requested |-> <<>>, again |-> FALSE, process |-> FALSE, used |-> 0, forked |-> 0, parted |-> FALSE]
Conversation(id, account) == [NoOne EXCEPT !.id = id, !.account = account]

User(n) == [n |-> n, parts |-> 1]
Reply(n) == [n |-> n, parts |-> 0]
IsReply(m) == m.parts = 0

\* What the command line holds of messages.
Parts(m) == IF IsReply(m) THEN <<<<m.n, 0>>>> ELSE [p \in 1 .. m.parts |-> <<m.n, p>>]
Flat(messages) == FlattenSeq([i \in DOMAIN messages |-> Parts(messages[i])])

Turns == 1 .. Len(turns)
Going == {"handed", "starts", "writes", "listens"}
Out(t) == turns[t].step \in Going
Free == {u \in Users : parked[u] = ""}
\* The number of a new conversation.
NewId ==
  Max(DOMAIN disk \cup {None} \cup {turns[t].conv.id : t \in Turns} \cup {slots[k].conv.id : k \in Keys}
        \cup {mailbox[n].conv.id : n \in DOMAIN mailbox}) + 1

TurnOf(k) ==
  [key |-> k, messages |-> <<>>, step |-> "over", conv |-> NoOne, delta |-> <<>>, again |-> FALSE, before |-> FALSE,
   was |-> NoOne, from |-> None, real |-> None, wrote |-> FALSE, absent |-> FALSE,
   rebuilt |-> FALSE, left |-> FALSE]
Slot(is, conv, waiting) == [is |-> is, conv |-> conv, waiting |-> waiting]
NoSlot == Slot("none", NoOne, <<>>)
Lend(t) == [is |-> "lend", turn |-> t, conv |-> NoOne]
Back(t, conv) == [is |-> "back", turn |-> t, conv |-> conv]
Sends(one) == mailbox' = Append(mailbox, one)

Init ==
  /\ asks = [k \in Keys |-> IF k \in Sharing THEN <<>> ELSE <<User(1)>>] /\ said = 1 /\ turns = <<>> /\ mailbox = <<>>
  /\ slots = [k \in Keys |-> NoSlot] /\ disk = <<>> /\ parked = [u \in Users |-> ""] /\ given = <<>>
  /\ mishaps = 0

-----------------------------------------------------------------------------
(* The chains.                                                              *)

Settled == UNCHANGED <<turns, mailbox, slots, disk, parked, given, mishaps>>
Quiet(k) == \A t \in Turns : turns[t].key = k => turns[t].step = "over"

\* More is told at the end of the last message, another model answers it, all is said anew in one message, or a chain
\* starts as another one, up to a reply of it.
Tells(k) ==
  /\ Quiet(k) /\ asks[k] # <<>> /\ ~IsReply(Last(asks[k])) /\ Last(asks[k]).parts = 1
  /\ asks' = [asks EXCEPT ![k][Len(asks[k])].parts = 2] /\ UNCHANGED said /\ Settled
Others(k) ==
  /\ Quiet(k) /\ asks[k] # <<>> /\ said + 2 <= MaxSaid /\ said' = said + 2
  /\ asks' = [asks EXCEPT ![k] = @ \o <<Reply(said + 1), User(said + 2)>>] /\ Settled
Compacts(k) ==
  /\ Quiet(k) /\ Len(asks[k]) > 1 /\ said < MaxSaid /\ said' = said + 1
  /\ asks' = [asks EXCEPT ![k] = <<User(said')>>] /\ Settled
Starts(k, from) ==
  /\ k \in Sharing /\ from \notin Sharing /\ asks[k] = <<>> /\ said < MaxSaid /\ said' = said + 1
  /\ \E n \in DOMAIN asks[from] :
       /\ IsReply(asks[from][n]) /\ Settled
       /\ asks' = [asks EXCEPT ![k] = SubSeq(asks[from], 1, n) \o <<User(said')>>]

Mishap == mishaps < MaxMishaps /\ mishaps' = mishaps + 1

\* A turn asks for the conversation of its chain. One of the chain that was cancelled may still have to end.
Turn(k) ==
  LET others == {t \in Turns : turns[t].key = k /\ turns[t].step # "over"} IN
  /\ asks[k] # <<>> /\ Len(turns) < MaxTurns
  /\ IF others = {} THEN UNCHANGED mishaps ELSE Mishap /\ Cardinality(others) = 1
  /\ turns' = Append([t \in Turns |-> IF t \in others THEN [turns[t] EXCEPT !.left = TRUE] ELSE turns[t]],
                     [TurnOf(k) EXCEPT !.messages = asks[k], !.step = "asks"])
  /\ Sends(Lend(Len(turns) + 1))
  /\ UNCHANGED <<asks, said, slots, disk, parked, given>>

-----------------------------------------------------------------------------
(* The keeper.                                                              *)

\* A form that hands a conversation to the first that waits, whether it stands or not.
HandedToFirst(k, conv, waiting) ==
  IF waiting = <<>> THEN [slots |-> [slots EXCEPT ![k] = Slot("idle", conv, <<>>)], turns |-> turns]
  ELSE [slots |-> [slots EXCEPT ![k] = Slot("lent", NoOne, Tail(waiting))],
        turns |-> IF turns[Head(waiting)].step = "asks"
                  THEN [turns EXCEPT ![Head(waiting)].step = "handed", ![Head(waiting)].conv = conv] ELSE turns]

\* A conversation handed to the first of those that wait and still stand, or kept at hand.
Handed(k, conv, waiting) ==
  LET stand == {n \in DOMAIN waiting : turns[waiting[n]].step = "asks"}
      n     == Min(stand) IN
  IF stand = {} THEN [slots |-> [slots EXCEPT ![k] = Slot("idle", conv, <<>>)], turns |-> turns]
  ELSE [slots |-> [slots EXCEPT ![k] = Slot("lent", NoOne, SubSeq(waiting, n + 1, Len(waiting)))],
        turns |-> [turns EXCEPT ![waiting[n]].step = "handed", ![waiting[n]].conv = conv]]

\* The conversations at hand that a new one may grow out of, in the directory of its account.
Donors(t, user) ==
  {k \in Keys :
     LET one == slots[k].conv
         n   == Len(one.chain) IN
     /\ slots[k].is = "idle" /\ n > 0 /\ one.account = user /\ n < Len(turns[t].messages)
     /\ IsStrictPrefix(one.chain, turns[t].messages) /\ \A i \in n + 1 .. Len(turns[t].messages) : ~IsReply(turns[t].messages[i])}

\* A new conversation, the fork of the one at hand that holds the most of it.
Made(t, user) ==
  LET donors == Donors(t, user)
      donor  == slots[CHOOSE k \in donors : \A o \in donors : Len(slots[k].conv.chain) >= Len(slots[o].conv.chain)].conv
      made   == Conversation(NewId, user) IN
  IF donors = {} THEN made
  ELSE [made EXCEPT !.parent = donor.id, !.chain = donor.chain, !.parted = donor.parted,
                    !.forked = IF donor.id \in DOMAIN disk THEN Len(disk[donor.id].holds) ELSE 0]

\* A turn of a conversation that is lent waits for it.
Lends(t, user) ==
  LET k == turns[t].key IN
  CASE slots[k].is = "lent" -> [slots |-> [slots EXCEPT ![k].waiting = Append(@, t)], turns |-> turns]
    [] slots[k].is = "idle" -> Handed(k, slots[k].conv, <<t>>)
    [] OTHER -> Handed(k, Made(t, user), <<t>>)

\* What no turn needs goes: the processes past the warm ones, the least used first, and of those that sat idle too
\* long; and the conversations with none past the held ones.
Swept(now, late) ==
  LET idle  == SetToSortSeq({k \in Keys : now[k].is = "idle"}, LAMBDA a, b : now[a].conv.used < now[b].conv.used)
      held  == Cardinality({k \in Keys : now[k].is # "none"})
      warm  == Cardinality({k \in Keys : now[k].is = "lent" \/ now[k].conv.process})
      sweep(s, k) ==
        LET cold == now[k].conv.process /\ (s.warm > WARM \/ k \in late)
            bare == cold \/ ~now[k].conv.process
            goes == bare /\ s.held > HELD IN
        [warm |-> IF cold THEN s.warm - 1 ELSE s.warm, held |-> IF goes THEN s.held - 1 ELSE s.held,
         slots |-> IF goes THEN [s.slots EXCEPT ![k] = NoSlot]
                   ELSE IF cold THEN [s.slots EXCEPT ![k].conv.process = FALSE] ELSE s.slots]
  IN  FoldLeft(sweep, [warm |-> warm, held |-> held, slots |-> now], idle).slots

\* The keeper hears what it is asked first; after a conversation that comes back it sweeps.
Hears ==
  /\ mailbox # <<>> /\ mailbox' = Tail(mailbox)
  /\ LET one     == Head(mailbox)
         k       == turns[one.turn].key
         waiting == IF slots[k].is = "lent" THEN slots[k].waiting ELSE <<>>
         back    == Handed(k, one.conv, waiting) IN
     IF one.is = "lend"
     THEN \E user \in IF Free = {} THEN {None} ELSE Free :
            slots' = Lends(one.turn, user).slots /\ turns' = Lends(one.turn, user).turns
     ELSE slots' = Swept(back.slots, {}) /\ turns' = back.turns
  /\ UNCHANGED <<asks, said, disk, parked, given, mishaps>>

\* A pass of the timer, over the processes that sat too long.
Ticks ==
  /\ \E late \in SUBSET {k \in Keys : slots[k].is = "idle" /\ slots[k].conv.process} : late # {} /\ slots' = Swept(slots, late)
  /\ UNCHANGED <<asks, said, turns, mailbox, disk, parked, given, mishaps>>

-----------------------------------------------------------------------------
(* A turn.                                                                  *)

\* How many messages of the request the conversation holds, and what is to be written of the rest.
Plan(conv, messages) ==
  LET last  == Len(messages)
      grown == /\ conv.asked /\ Len(conv.chain) = last /\ Front(conv.chain) = Front(messages)
               /\ Last(conv.chain).n = Last(messages).n /\ Last(conv.chain).parts < Last(messages).parts
      whole == IsPrefix(conv.chain, messages)
      at    == IF whole THEN Len(conv.chain) ELSE Len(conv.requested)
      knows == grown \/ whole \/ IsPrefix(conv.requested, messages)
      again == grown \/ (knows /\ at > 0 /\ at = last)
      anew  == ~knows \/ (again /\ conv.again)
  IN  [anew |-> anew, again |-> again /\ ~anew,
       delta |-> CASE anew -> Flat(messages)
                   [] ~anew /\ grown -> [p \in 1 .. Last(messages).parts - Last(conv.chain).parts |->
                                           <<Last(messages).n, Last(conv.chain).parts + p>>]
                   [] ~anew /\ ~grown /\ again -> Parts(Last(messages))
                   [] OTHER -> Flat(SubSeq(messages, at + 1, last))]

\* A turn over: its conversation goes back to the keeper.
Over(t, conv) ==
  /\ turns' = [turns EXCEPT ![t] = TurnOf(@.key)]
  /\ Sends(Back(t, [conv EXCEPT !.process = FALSE, !.requested = turns[t].messages, !.used = t]))

\* The flight of a turn begins: the turns before its last message are written to a file when no process ever stood.
Flies(t, conv, plan, rebuilt, kept) ==
  LET messages == turns[t].messages
      seeds    == ~conv.resumed /\ conv.parent = None /\ Len(messages) > 1 /\ plan.delta = Flat(messages) IN
  /\ disk' = IF seeds THEN (conv.id :> [in |-> conv.account, holds |-> Flat(Front(messages))]) @@ disk ELSE disk
  /\ turns' = [turns EXCEPT ![t].conv = [conv EXCEPT !.process = FALSE, !.resumed = @ \/ seeds],
                            ![t].step = IF kept THEN "writes" ELSE "starts", ![t].again = plan.again,
                            ![t].before = conv.resumed, ![t].rebuilt = rebuilt, ![t].from = conv.id, ![t].wrote = seeds,
                            ![t].delta = IF seeds THEN Parts(Last(messages)) ELSE plan.delta]
  /\ UNCHANGED mailbox

Renewed(conv, id) == Conversation(id, conv.account)

\* The turn takes what it was handed, as an account that is free: its conversation begins again under another one.
Takes(t) ==
  /\ turns[t].step = "handed"
  /\ LET held == turns[t].conv IN
     IF held.account \notin Free /\ Free = {}
     THEN /\ turns' = [turns EXCEPT ![t] = TurnOf(@.key)] /\ Sends(Back(t, held)) /\ UNCHANGED disk
     ELSE \E user \in IF held.account \in Free THEN {held.account} ELSE Free, stands \in BOOLEAN :
            LET conv == CASE held.account = user -> held
                          [] held.account = None -> [held EXCEPT !.account = user]
                          [] OTHER -> Conversation(NewId, user)
                plan == Plan(conv, turns[t].messages)
                one  == IF plan.anew THEN Renewed(conv, NewId) ELSE conv
            IN  (stands => one.process) /\ Flies(t, one, plan, FALSE, stands)
  /\ UNCHANGED <<asks, said, slots, parked, given, mishaps>>

\* What a conversation is marked with when a turn of it ends before its line is heard: the keeper takes the command line to
\* hold more than it does, where the request then counts as what was asked before, or less, where the turn seeded the file.
Unheard(t, conv) ==
  [conv EXCEPT !.parted = @ \/ ~(IsPrefix(conv.chain, turns[t].messages) \/ turns[t].delta = Parts(Last(turns[t].messages)))]
Seeded(t, conv) == [conv EXCEPT !.parted = @ \/ turns[t].wrote]

\* The process starts: it resumes the conversation, forks its parent or begins; or the program does not start.
Start(t) ==
  LET conv == turns[t].conv IN
  /\ turns[t].step = "starts"
  /\ \/ /\ turns' = [turns EXCEPT ![t].conv.resumed = TRUE, ![t].step = "writes",
                                  ![t].from = IF conv.resumed THEN conv.id ELSE conv.parent]
        /\ UNCHANGED <<mailbox, mishaps>>
     \/ Mishap /\ Over(t, Seeded(t, Unheard(t, conv)))
  /\ UNCHANGED <<asks, said, slots, disk, parked, given>>

\* A form that holds the same after a line that nobody took.
HeardNothing(t) == turns[t].conv

\* What the command line heard is held at once.
Heard(t) ==
  [turns[t].conv EXCEPT !.requested = turns[t].messages, !.chain = turns[t].messages, !.asked = TRUE,
                        !.again = turns[t].again]

\* The process takes the line, after what it holds of its conversation: of the file that it resumes, of a copy of its
\* parent's, or nothing. A conversation with no file is lost. The process may also find no program to run, now or
\* once the line is written, or take no input.
Write(t) ==
  LET one    == turns[t]
      from   == one.from
      stands == from \in DOMAIN disk /\ disk[from].in = one.conv.account
      real   == IF from = None \/ from = one.conv.id THEN one.conv.id ELSE NewId
      holds  == IF from = None THEN <<>> ELSE disk[from].holds
      goes(found, conv, absent) ==
        turns' = [turns EXCEPT ![t].step = "listens", ![t].was = one.conv, ![t].conv = conv, ![t].real = found,
                               ![t].absent = absent]
  IN
  /\ one.step = "writes"
  /\ \/ /\ from = None \/ stands
        /\ disk' = (real :> [in |-> one.conv.account, holds |-> holds \o one.delta]) @@ disk
        /\ given' = IF one.again THEN Append(given, Last(one.messages).n) ELSE given
        /\ goes(real, [Heard(t) EXCEPT !.parted = @ \/ (real # one.conv.id /\ Len(holds) # one.conv.forked)], FALSE)
        /\ UNCHANGED <<mailbox, mishaps>>
     \/ from # None /\ ~stands /\ goes(None, Heard(t), FALSE) /\ UNCHANGED <<mailbox, mishaps, disk, given>>
     \/ Mishap /\ goes(None, Heard(t), TRUE) /\ UNCHANGED <<mailbox, disk, given>>
     \/ /\ Mishap /\ UNCHANGED <<disk, given>>
        /\ \/ Over(t, Unheard(t, [one.conv EXCEPT !.resumed = one.before]))
           \/ Over(t, Seeded(t, Unheard(t, one.conv)))
  /\ UNCHANGED <<asks, said, slots, parked>>

\* The reply, which the chain takes as it came, cut, or not at all.
Replies(t) ==
  LET one == turns[t] IN
  /\ one.step = "listens" /\ one.real # None /\ ~one.absent /\ said' = said + 3
  /\ disk' = [disk EXCEPT ![one.real].holds = Append(@, <<said + 1, 0>>)]
  /\ turns' = [turns EXCEPT ![t] = TurnOf(@.key)]
  /\ Sends(Back(t, [one.conv EXCEPT !.id = one.real, !.chain = Append(@, Reply(said + 1)), !.asked = FALSE, !.again = FALSE,
                                    !.process = TRUE, !.used = t]))
  /\ \/ /\ ~one.left
        /\ \E reply \in {said + 1, said + 2} : asks' = [asks EXCEPT ![one.key] = @ \o <<Reply(reply), User(said + 3)>>]
     \/ UNCHANGED asks
  /\ UNCHANGED <<slots, parked, given, mishaps>>

\* A turn that failed: its result says so, and may park the account; or it ends with no result.
Fails(t) ==
  LET one == turns[t] IN
  /\ one.step = "listens" /\ one.real # None /\ ~one.absent /\ Mishap
  /\ \/ /\ Over(t, [one.conv EXCEPT !.id = one.real])
        /\ \E why \in {"", "limit", "signed out"} :
             parked' = IF why = "" \/ Cardinality(Users) = 1 THEN parked ELSE [parked EXCEPT ![one.conv.account] = why]
     \/ Over(t, one.conv) /\ UNCHANGED parked
  /\ UNCHANGED <<asks, said, slots, disk, given>>

\* A form that leaves what the process never heard.
MissingHeard(t) == Over(t, [turns[t].conv EXCEPT !.resumed = turns[t].before])

\* The process found no program to run, and heard nothing.
Missing(t) ==
  LET one == turns[t] IN
  Over(t, Unheard(t, [one.conv EXCEPT !.chain = one.was.chain, !.asked = one.was.asked, !.again = one.was.again,
                                      !.resumed = one.before]))

\* The conversation is lost: the turn rebuilds it once.
Lost(t) ==
  LET one == turns[t] IN
  /\ one.step = "listens" /\ (one.real = None \/ one.absent)
  /\ IF one.absent THEN Missing(t) /\ UNCHANGED disk
     ELSE IF one.rebuilt THEN Over(t, one.conv) /\ UNCHANGED disk
     ELSE Flies(t, Renewed(one.conv, NewId), [again |-> FALSE, delta |-> Flat(one.messages)], TRUE, FALSE)
  /\ UNCHANGED <<asks, said, slots, parked, given, mishaps>>

\* A turn dropped at whatever it waits for, with what it holds as it stands: after the seed of a file and before the line is
\* heard that is less than the file holds, and after a line that no program came to hear it is more.
Drop(t) ==
  LET one  == turns[t]
      kept == [one.conv EXCEPT !.process = @ /\ one.step = "handed"]
      held == CASE one.step \in {"starts", "writes"} -> Seeded(t, kept)
                [] one.absent                        -> [kept EXCEPT !.parted = TRUE]
                [] OTHER                             -> kept
  IN
  /\ one.step \in {"asks"} \cup Going
  /\ IF one.left THEN UNCHANGED mishaps ELSE Mishap
  /\ turns' = [turns EXCEPT ![t] = TurnOf(@.key)]
  /\ IF Out(t) THEN Sends(Back(t, held)) ELSE UNCHANGED mailbox
  /\ UNCHANGED <<asks, said, slots, disk, parked, given>>

\* A limit is over; the file of a conversation goes.
Resets(u) ==
  /\ parked[u] = "limit" /\ parked' = [parked EXCEPT ![u] = ""]
  /\ UNCHANGED <<asks, said, turns, mailbox, slots, disk, given, mishaps>>
Goes(id) ==
  /\ id \in DOMAIN disk /\ Mishap /\ disk' = [d \in DOMAIN disk \ {id} |-> disk[d]]
  /\ \A t \in Turns : turns[t].step \notin {"writes", "listens"}
  /\ UNCHANGED <<asks, said, turns, mailbox, slots, parked, given>>

Next ==
  \/ \E k \in Keys : Tells(k) \/ Others(k) \/ Compacts(k) \/ Turn(k) \/ \E from \in Keys : Starts(k, from)
  \/ Hears \/ Ticks
  \/ \E t \in Turns : Takes(t) \/ Start(t) \/ Write(t) \/ Replies(t) \/ Fails(t) \/ Lost(t) \/ Drop(t)
  \/ \E u \in Users : Resets(u)
  \/ \E id \in DOMAIN disk : Goes(id)

Spec == Init /\ [][Next]_conversationVars

-----------------------------------------------------------------------------
TypeOK ==
  /\ \A t \in Turns : turns[t].key \in Keys /\ turns[t].step \in {"asks", "over"} \cup Going
  /\ \A k \in Keys : slots[k].is \in {"none", "idle", "lent"}
  /\ \A u \in Users : parked[u] \in {"", "limit", "signed out"}
  /\ DOMAIN disk \subseteq Nat /\ mishaps \in 0 .. MaxMishaps

Count(seq, one) == Cardinality({n \in DOMAIN seq : seq[n] = one})
\* A turn whose process reads its line, in a conversation that never parted from what the command line holds.
Hearing(t) == turns[t].step = "listens" /\ turns[t].real # None /\ ~turns[t].absent /\ ~turns[t].conv.parted
Dedupe(seq) == FoldLeft(LAMBDA s, p : IF Contains(s, p) THEN s ELSE Append(s, p), <<>>, seq)

\* What the model answers is what was asked: the command line holds each message of the request, in order, and no
\* other but a reply of its own that the chain did not take (turn, flight).
AnswersTheRequest ==
  \A t \in Turns : Hearing(t) =>
    LET flat == Flat(turns[t].messages) IN
    Dedupe(SelectSeq(disk[turns[t].real].holds, LAMBDA p : p[2] # 0 \/ Contains(flat, p))) = flat

\* Each turn writes to its process only what the command line has not heard, but for the one message that a turn which
\* came to no reply gives again, once before the next reply.
HeardOnce ==
  \A t \in Turns : Hearing(t) =>
    LET holds   == disk[turns[t].real].holds
        replies == {n \in DOMAIN holds : holds[n][2] = 0}
        since   == SubSeq(holds, Max(replies \cup {0}) + 1, Len(holds)) IN
    \A p \in ToSet(holds) : Count(holds, p) <= 1 + Count(given, p[1]) /\ Count(since, p) <= 2

\* A process resumes or forks a conversation in the directory where it is, whichever account was parked (made, turn).
RunsWhereItIs ==
  \A t \in Turns : turns[t].step = "writes" /\ turns[t].from \in DOMAIN disk =>
    disk[turns[t].from].in = turns[t].conv.account

\* Each chain has one conversation, which a turn holds alone or the keeper does, and a turn that waits is one that the
\* keeper still has to hear or that waits behind it (Lent, handed).
ConversationsReturn ==
  /\ \A k \in Keys :
       Cardinality({t \in Turns : turns[t].key = k /\ Out(t)})
         + Cardinality({n \in DOMAIN mailbox : mailbox[n].is = "back" /\ turns[mailbox[n].turn].key = k})
         = IF slots[k].is = "lent" THEN 1 ELSE 0
  /\ \A t \in Turns : turns[t].step = "asks" =>
       Contains(mailbox, Lend(t)) \/ (slots[turns[t].key].is = "lent" /\ Contains(slots[turns[t].key].waiting, t))

\* The processes that the keeper holds at hand are few (swept).
HoldsFew == Cardinality({k \in Keys : slots[k].is = "idle" /\ slots[k].conv.process}) <= WARM

ConversationsHold == AnswersTheRequest /\ HeardOnce /\ RunsWhereItIs /\ ConversationsReturn /\ HoldsFew
=============================================================================
