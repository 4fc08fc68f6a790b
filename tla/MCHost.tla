------------------------------- MODULE MCHost -------------------------------
(***************************************************************************)
(* The parts of the host that stand beside the actor and the daemon, each   *)
(* checked alone: a behaviour is one of one part, chosen at its start.      *)
(***************************************************************************)
EXTENDS Naturals, Sequences, FiniteSets

CONSTANTS Chains, Root, Kinds, MaxActs, MaxLag, MaxChanges, MaxTold, MaxBirths,
          Callers, Owner, MaxAsks,
          Records, Windows, Servers, Readers, Viewers,
          Skills, Programs, MaxEnables,
          MaxWrites

VARIABLES
  part,
  made, events, inbox, refused, acts, ours, last, told, tellings, changes, births,
  next, asks, futures, sent, open, verb, granted, wrote,
  skills, holds, mounted, gone, opened, astray,
  said, over, player, running, procs, reports,
  writes, before, lines, disk, lost, reported, log, ended

ASSUME HostAssumption ==
  /\ IsFiniteSet(Chains) /\ Root \in Chains /\ "life" \notin Chains /\ Kinds \subseteq {"run", "wait", "rung", "prompt", "asked"}
  /\ Owner \in Callers
  /\ {MaxActs, MaxLag, MaxChanges, MaxTold, MaxBirths, MaxAsks, MaxEnables, MaxWrites} \subseteq Nat

S == INSTANCE Stall
A == INSTANCE Answers
V == INSTANCE Views
P == INSTANCE Processes
C == INSTANCE Changes

ofStall     == <<made, events, inbox, refused, acts, ours, last, told, tellings, changes, births>>
ofAnswers   == <<next, asks, futures, sent, open, verb, granted, wrote>>
ofViews     == <<skills, holds, mounted, gone, opened, astray>>
ofProcesses == <<said, over, player, running, procs, reports>>
ofChanges   == <<writes, before, lines, disk, lost, reported, log, ended>>

vars == <<part, ofStall, ofAnswers, ofViews, ofProcesses, ofChanges>>

Init ==
  /\ part \in {"stall", "answers", "views", "processes", "changes"}
  /\ S!Init /\ A!Init /\ V!Init /\ P!Init /\ C!Init

Stall     == part = "stall" /\ S!Next /\ UNCHANGED <<part, ofAnswers, ofViews, ofProcesses, ofChanges>>
Answers   == part = "answers" /\ A!Next /\ UNCHANGED <<part, ofStall, ofViews, ofProcesses, ofChanges>>
Views     == part = "views" /\ V!Next /\ UNCHANGED <<part, ofStall, ofAnswers, ofProcesses, ofChanges>>
Processes == part = "processes" /\ P!Next /\ UNCHANGED <<part, ofStall, ofAnswers, ofViews, ofChanges>>
Changes   == part = "changes" /\ C!Next /\ UNCHANGED <<part, ofStall, ofAnswers, ofViews, ofProcesses>>

Next == Stall \/ Answers \/ Views \/ Processes \/ Changes

\* The task of the watch of stalls goes on.
WatchStalls == part = "stall" /\ S!Watch /\ UNCHANGED <<part, ofAnswers, ofViews, ofProcesses, ofChanges>>

Spec == Init /\ [][Next]_vars /\ WF_vars(WatchStalls)

\* The watch never silences itself for ever over a stall it told (Quiet::told), and knows the acts
\* that live however late it hears of them, through a rebirth.
StallsAreTrue == S!TypeOK /\ S!TellsAgain /\ S!KnowsWhatLives

\* A chain that hangs is told of, or something on it changes (Quiet::stalled, Watch::watched).
HangsAreTold == S!HungIsTold

\* The table of answerers holds each request that waits and no other, and no turn or write but that
\* of the peer that the request went to comes to it (Answers::hosted, answered, wrote).
RequestsEnd == A!TypeOK /\ A!TableIsWhatWaits /\ A!OneTurnOfTheOwner

\* The window of a view and the skill that serves it agree whether it is mounted, whatever ends, leaves
\* or attaches between their frames; a view holds while its window and its skill do (Views).
ViewsAgree == V!TypeOK /\ V!BothSidesAgree /\ V!ViewsAreHeld /\ V!NoneAstray /\ V!OneOfEachName

\* A skill runs at most one process on a life, of the program last enabled, and each end of one that was
\* not asked for is told once, though an open tells the enables again (Processes).
OneProcessEach == P!TypeOK /\ P!OneProcess /\ P!LastProgram /\ P!ToldOnce

\* The requests that peers answer, and what skills serve: their views and their processes (Answers, Views, Processes).
SkillsHold == RequestsEnd /\ ViewsAgree /\ OneProcessEach

\* The journal of changes holds every change of the life at its end, each found on the disk or told as
\* lost, and the life tells a change only once its line is on the disk (changes.rs, driven).
ChangesAreKept == C!TypeOK /\ C!EndFindsTheJournal /\ C!ChangedIsOnDisk
=============================================================================
