------------------------------ MODULE Commands ------------------------------
(***************************************************************************)
(* One command of the ear bash: its shell and a process that the shell       *)
(* leaves, in the group that a watch leads, the wait on its exit through     *)
(* its phases, its timeout, its stdin, and the death of the host and the     *)
(* life that follows.                                                       *)
(*                                                                         *)
(* The streams are one here: what is in the pipe and what was said are       *)
(* counts, and Streams models the text.                                     *)
(***************************************************************************)
EXTENDS Naturals, Sequences, SequencesExt

CONSTANTS MaxOut, MaxWrites

VARIABLES
  act,      \* the act of the command: "none", "stands" or "over"
  dones,    \* how often the act was done
  life,     \* "first", "dead" once the host died in it, or "later"
  phase,    \* the wait: "none", "begun", "running", "draining", "over"
  shell,    \* the shell: "none", "lives", "exited" by itself, or "killed"
  helper,   \* a process that the shell started, which holds its streams too
  group,    \* the group as this process holds it: "none", "held", "slain" or "free"
  lifeline, \* whether the watch of the group waits on its pipe
  expired,  \* whether the timeout passed, and whether the wait took it
  pipe, wrote, read,   \* what the streams hold unread, what was written, what was read
  says,     \* what the work said that the ear has not taken
  outs,     \* how many texts the ear said
  ended,    \* what the ear said at the end: how, and how much its text holds
  open,     \* whether the stdin stays open for what is fed
  fed, took, accepted,   \* the texts that wait for the stdin, that it took, that the ear accepted; 0 closes
  feeding, closed, writes

vars == <<act, dones, life, phase, shell, helper, group, lifeline, expired, pipe, wrote, read, says, outs, ended,
          open, fed, took, accepted, feeding, closed, writes>>

streams == <<pipe, wrote, read, says, outs>>
stdin   == <<open, fed, took, accepted, feeding, closed, writes>>
procs   == <<shell, helper, group, lifeline>>

Init ==
  /\ act = "none" /\ dones = 0 /\ life = "first" /\ phase = "none"
  /\ shell = "none" /\ helper = "none" /\ group = "none" /\ lifeline = FALSE
  /\ expired = [passed |-> FALSE, taken |-> FALSE]
  /\ pipe = 0 /\ wrote = 0 /\ read = 0 /\ says = <<>> /\ outs = 0 /\ ended = <<>>
  /\ open \in BOOLEAN /\ fed = <<>> /\ took = <<>> /\ accepted = <<>> /\ feeding = FALSE /\ closed = FALSE /\ writes = 0

Lives(p) == p = "lives"
Killed(p) == IF Lives(p) THEN "killed" ELSE p

\* Every process of the group ends, and the watch with them.
Slain == /\ shell' = Killed(shell) /\ helper' = Killed(helper)
         /\ group' = IF group = "held" THEN "slain" ELSE group
         /\ lifeline' = FALSE

\* A group that was not let go ends every process of it when it goes.
Dropped == IF group = "held" THEN Slain ELSE UNCHANGED procs

(* ---- the ear ---- *)

\* A command starts; a stdin of text goes in whole and closes. It may be one that the machine does not start.
Started ==
  /\ act = "none" /\ life = "first"
  /\ \/ /\ act' = "stands" /\ phase' = "begun" /\ UNCHANGED <<dones, ended>>
     \/ act' = "over" /\ dones' = dones + 1 /\ ended' = <<"failed", 0>> /\ UNCHANGED phase
  /\ IF open THEN UNCHANGED <<fed, accepted>> ELSE fed' = <<1, 0>> /\ accepted' = <<1, 0>>
  /\ UNCHANGED <<life, procs, expired, streams, open, took, feeding, closed, writes>>

\* The done of the act drops its work: its wait, its group and its stdin.
Ends(how) ==
  /\ act' = "over" /\ dones' = dones + 1 /\ ended' = how
  /\ phase' = "over" /\ says' = <<>> /\ fed' = <<>> /\ feeding' = FALSE /\ closed' = FALSE
  /\ Dropped

\* A life polls the ear until it says no more before it takes another act of its own, so none comes between what
\* the work said and the ear that takes it.
Quiet == says = <<>>

Controlled ==
  /\ act = "stands" /\ life # "dead" /\ Quiet /\ Ends(<<"control", read>>)
  /\ UNCHANGED <<life, expired, pipe, wrote, read, outs, open, took, accepted, writes>>

\* What the work said, taken in its order: a text, the exit, or why there is none.
Worked ==
  /\ says # <<>> /\ life = "first"
  /\ IF Head(says)[1] = "out"
     THEN says' = Tail(says) /\ outs' = outs + Head(says)[2]
          /\ UNCHANGED <<act, dones, ended, phase, procs, fed, feeding, closed>>
     ELSE Ends(Head(says)) /\ UNCHANGED outs
  /\ UNCHANGED <<life, expired, pipe, wrote, read, open, took, accepted, writes>>

\* A form that takes writes after one that closed the stdin.
OpensClosed == open /\ act = "stands" /\ life = "first"

\* Whether a write of the stdin is taken: the stdin is open, its command runs here, and no write closed it.
Opens == open /\ act = "stands" /\ life = "first" /\ ~closed

\* A write of the stdin: a text, or nothing, which closes it. A command that reads no more refuses a text.
Wrote ==
  /\ writes < MaxWrites /\ writes' = writes + 1 /\ phase # "none" /\ Quiet
  /\ \E text \in {0, writes + 1} :
       LET fails == text # 0 /\ phase # "begun" /\ ~feeding
           goes  == phase = "begun" \/ feeding
       IN IF Opens
          THEN /\ closed' = (closed \/ text = 0)
               /\ accepted' = IF fails THEN accepted ELSE Append(accepted, text)
               /\ fed' = IF goes THEN Append(fed, text) ELSE fed
          ELSE UNCHANGED <<closed, accepted, fed>>
  /\ UNCHANGED <<act, dones, life, phase, procs, expired, streams, ended, open, took, feeding>>

(* ---- the work of the command ---- *)

Works == act = "stands" /\ life = "first"
Says(item) == says' = Append(says, item)
Fails == Says(<<"failed", read>>) /\ phase' = "over" /\ Dropped /\ feeding' = FALSE

\* The watch leads the group before the shell joins it; a shell that does not start, or that the group cannot
\* hold, is ended.
Spawned ==
  /\ Works /\ phase = "begun"
  /\ \/ /\ phase' = "running" /\ shell' = "lives" /\ group' = "held" /\ lifeline' = TRUE /\ feeding' = TRUE
        /\ UNCHANGED <<helper, says>>
     \/ Fails
  /\ UNCHANGED <<act, dones, life, expired, pipe, wrote, read, outs, ended, open, fed, took, accepted, closed, writes>>

\* The wait sees the exit of the shell, the streams and the times each some while after it came, as its task and
\* the machine give it, so in any order.
ShellReady == phase = "running" /\ ~Lives(shell)

\* The shell exited, and its streams have a while to give what they hold; when they gave all, the wait is over.
Exits(status) == Says(<<"exit", read, status, expired.taken>>) /\ phase' = "over" /\ feeding' = FALSE

\* A form that drops the group of a command that exited as it does any other.
FreesNone == Dropped

Frees ==
  /\ group' = IF group = "held" THEN "free" ELSE group
  /\ lifeline' = FALSE /\ UNCHANGED <<shell, helper>>


ShellExits ==
  /\ Works /\ ShellReady
  /\ \/ phase' = "draining" /\ UNCHANGED <<says, procs, feeding>>
     \/ Fails
  /\ UNCHANGED <<act, dones, life, expired, pipe, wrote, read, outs, ended, open, fed, took, accepted, closed, writes>>

\* A form that says a text and leaves it to be read again.
ReadsAgain ==
  /\ Works /\ phase \in {"running", "draining"} /\ pipe > 0
  /\ \/ \E n \in 1 .. pipe : pipe' = pipe /\ read' = read + n /\ Says(<<"out", n>>) /\ UNCHANGED <<phase, procs, feeding>>
     \/ Fails /\ UNCHANGED <<pipe, read>>
  /\ UNCHANGED <<act, dones, life, expired, wrote, outs, ended, open, fed, took, accepted, closed, writes>>

\* A text is read and said; a read may fail.
Reads ==
  /\ Works /\ phase \in {"running", "draining"} /\ pipe > 0
  /\ \/ \E n \in 1 .. pipe : pipe' = pipe - n /\ read' = read + n /\ Says(<<"out", n>>) /\ UNCHANGED <<phase, procs, feeding>>
     \/ Fails /\ UNCHANGED <<pipe, read>>
  /\ UNCHANGED <<act, dones, life, expired, wrote, outs, ended, open, fed, took, accepted, closed, writes>>

\* The timeout ends every process of the command, at any time; a signal that did not reach them fails the command,
\* and the drop of its group signals them again.
Expires ==
  /\ Works /\ phase \in {"running", "draining"}
  /\ expired.passed /\ ~expired.taken /\ expired' = [expired EXCEPT !.taken = TRUE]
  /\ (Slain /\ UNCHANGED <<says, phase, feeding>>) \/ Fails
  /\ UNCHANGED <<act, dones, life, pipe, wrote, read, outs, ended, open, fed, took, accepted, closed, writes>>

\* The wait is over once the streams ended, or once the drain passed with a process that still holds them.
Drained ==
  /\ Works /\ phase = "draining"
  /\ Exits(shell) /\ Frees
  /\ UNCHANGED <<act, dones, life, expired, pipe, wrote, read, outs, ended, open, fed, took, accepted, closed, writes>>

\* What is fed goes into the stdin, until nothing closes it or the command reads no more.
Feeds ==
  /\ Works /\ feeding /\ fed # <<>>
  /\ IF Head(fed) # 0 /\ Lives(shell)
     THEN took' = Append(took, Head(fed)) /\ fed' = Tail(fed) /\ UNCHANGED feeding
     ELSE feeding' = FALSE /\ fed' = <<>> /\ UNCHANGED took
  /\ UNCHANGED <<act, dones, life, phase, procs, expired, streams, ended, open, accepted, closed, writes>>

(* ---- the machine ---- *)

Writes ==
  /\ (Lives(shell) \/ Lives(helper)) /\ wrote < MaxOut /\ wrote' = wrote + 1 /\ pipe' = pipe + 1
  /\ UNCHANGED <<act, dones, life, phase, procs, expired, read, says, outs, ended, stdin>>

\* The shell starts a process, or one of the two exits.
Leaves ==
  /\ \/ Lives(shell) /\ helper = "none" /\ helper' = "lives" /\ UNCHANGED shell
     \/ Lives(shell) /\ shell' = "exited" /\ UNCHANGED helper
     \/ Lives(helper) /\ helper' = "exited" /\ UNCHANGED shell
  /\ UNCHANGED <<act, dones, life, phase, group, lifeline, expired, streams, ended, stdin>>

Late == Works /\ ~expired.passed /\ expired' = [expired EXCEPT !.passed = TRUE]
        /\ UNCHANGED <<act, dones, life, phase, procs, streams, ended, stdin>>

\* The host dies by a signal and runs no drop; the watch finds the end of its pipe with no line, and ends the group.
Dies ==
  /\ life = "first" /\ act = "stands" /\ life' = "dead"
  /\ UNCHANGED <<act, dones, phase, procs, expired, streams, ended, stdin>>

WatchEnds ==
  /\ life # "first" /\ lifeline /\ Slain
  /\ UNCHANGED <<act, dones, life, phase, expired, streams, ended, stdin>>

\* A later life puts the act to the ear again, which closes it as interrupted and runs it no more.
Interrupted ==
  /\ life = "dead" /\ life' = "later"
  /\ act' = "over" /\ dones' = dones + 1 /\ ended' = <<"interrupted", 0>>
  /\ UNCHANGED <<phase, procs, expired, streams, stdin>>

Next ==
  \/ Started \/ Controlled \/ Worked \/ Wrote \/ Spawned \/ ShellExits \/ Reads \/ Expires \/ Drained \/ Feeds
  \/ Writes \/ Leaves \/ Late \/ Dies \/ WatchEnds \/ Interrupted

Spec == Init /\ [][Next]_vars

-----------------------------------------------------------------------------
TypeOK ==
  /\ act \in {"none", "stands", "over"} /\ life \in {"first", "dead", "later"}
  /\ phase \in {"none", "begun", "running", "draining", "over"}
  /\ group \in {"none", "held", "slain", "free"} /\ pipe + read = wrote
  /\ {shell, helper} \subseteq {"none", "lives", "exited", "killed"}

\* A command is done once, whatever its exit, its timeout, a control and a later life do (watch, taken).
ExitsOnce == dones <= 1 /\ (act = "over" <=> dones = 1)

\* A command that is over left no process to run but one that its shell, which exited, left; unless the host
\* died, whose watch then still has it to end (Group).
NoneOutlives ==
  act = "over" /\ life = "first" =>
    /\ ~Lives(shell)
    /\ Lives(helper) => ended[1] = "exit" /\ group = "free" /\ shell = "exited"

\* The watch of a group has each process of it to end until the group is slain or let go.
Watched == (Lives(shell) \/ Lives(helper)) /\ group # "free" => lifeline

\* An exit comes after all that the command said of its streams, and holds all that the streams gave until
\* then; it has no code when its timeout ended a process of it, and no other exit ends a process (watch, ran).
ExitIsLast ==
  act = "over" /\ ended[1] = "exit" => ended[2] = outs /\ ("killed" \in {shell, helper} => ended[4])

\* The stdin takes what the ear accepted, in its order, and nothing was accepted after a write of nothing.
StdinInOrder ==
  /\ IsPrefix(took, accepted)
  /\ \A i \in 1 .. Len(accepted) : accepted[i] = 0 => i = Len(accepted)

CommandsEnd == ExitsOnce /\ NoneOutlives /\ Watched /\ ExitIsLast /\ StdinInOrder
=============================================================================
