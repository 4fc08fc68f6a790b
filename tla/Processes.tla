----------------------------- MODULE Processes -----------------------------
(***************************************************************************)
(* The processes of the skills that a life plays                            *)
(* (host/src/processes.rs): the task of a life starts a process at the tip  *)
(* for each skill that the life enabled, then at each new fact enable of    *)
(* the log, and a watch beside each process waits for what ends it. A       *)
(* process is numbered by its start; a spawn may fail.                      *)
(***************************************************************************)
EXTENDS Naturals, Sequences, FiniteSets, SequencesExt, Listing

CONSTANTS Skills, Programs,
          MaxEnables  \* bound: facts enable of the life

VARIABLES
  said,      \* the facts enable of the life, which its log tells in order
  over,      \* the life ended
  player,    \* where the task stands: what it starts next, what it skips, how far it read the log
  running,   \* Running: the process of each skill that the task holds, 0 for none
  procs,     \* each process: its skill, program, whether it and its group live, and its watch
  reports    \* the processes whose end the operator was told, in order

processVars == <<said, over, player, running, procs, reports>>

Facts  == [skill : Skills, program : Programs]
Procs  == 1 .. Len(procs)
Watch  == {"watches", "tells", "over"}
Forms  == [fact : Facts, child : BOOLEAN, group : BOOLEAN, asked : BOOLEAN, watch : Watch]
Phases == {"opens", "tip", "log", "ends", "gone"}

TypeOK ==
  /\ said \in Seq(Facts) /\ over \in BOOLEAN
  /\ player \in [at : Phases, todo : Seq(Facts), replayed : 0 .. Len(said), read : 0 .. Len(said)]
  /\ procs \in Seq(Forms) /\ running \in [Skills -> 0 .. Len(procs)] /\ reports \in Seq(Procs)

Init ==
  /\ said = <<>> /\ over = FALSE /\ procs = <<>> /\ reports = <<>>
  /\ player = [at |-> "opens", todo |-> <<>>, replayed |-> 0, read |-> 0]
  /\ running = [s \in Skills |-> 0]

-----------------------------------------------------------------------------
(* The life.                                                                *)

Enable(fact) ==
  /\ ~over /\ Len(said) < MaxEnables /\ said' = Append(said, fact)
  /\ UNCHANGED <<over, player, running, procs, reports>>

EndLife == ~over /\ over' = TRUE /\ UNCHANGED <<said, player, running, procs, reports>>

-----------------------------------------------------------------------------
(* The task: run, start, and the end of all.                                *)

\* The last fact of each skill, in the order the skills came first.
Firsts(facts) == Listed({n \in DOMAIN facts : \A m \in 1 .. n - 1 : facts[m].skill # facts[n].skill})
LastOf(facts, skill) ==
  CHOOSE n \in DOMAIN facts : facts[n].skill = skill /\ \A m \in n + 1 .. Len(facts) : facts[m].skill # skill

Named(facts) == [k \in DOMAIN Firsts(facts) |-> facts[LastOf(facts, facts[Firsts(facts)[k]].skill)]]

SkipNone(facts) == 0
ReplayedOf(facts) == Len(facts)

\* The life gives the facts at its tip, unless it is over.
Tip ==
  /\ player.at = "opens"
  /\ IF over THEN player' = [player EXCEPT !.at = "gone"]
             ELSE player' = [player EXCEPT !.at = "tip", !.todo = Named(said), !.replayed = ReplayedOf(said)]
  /\ UNCHANGED <<said, over, running, procs, reports>>

\* The process of a skill that is asked to end, over once its watch is.
AskEnd(n) == procs' = [procs EXCEPT ![n].asked = TRUE]

\* A fact starts the process of its skill, once the earlier process of it ended.
StartsAnyway(skill) == TRUE
MayStart(skill) == running[skill] = 0

Stop ==
  LET old == running[player.todo[1].skill] IN
  /\ player.todo # <<>> /\ old # 0
  /\ ~procs[old].asked /\ AskEnd(old) /\ UNCHANGED <<said, over, player, running, reports>>

Stopped ==
  LET old == running[player.todo[1].skill] IN
  /\ player.todo # <<>> /\ old # 0 /\ procs[old].asked /\ procs[old].watch = "over"
  /\ running' = [running EXCEPT ![player.todo[1].skill] = 0]
  /\ UNCHANGED <<said, over, player, procs, reports>>

Spawn(fact) ==
  /\ procs' = Append(procs, [fact |-> fact, child |-> TRUE, group |-> TRUE, asked |-> FALSE, watch |-> "watches"])
  /\ running' = [running EXCEPT ![fact.skill] = Len(procs')]

Start ==
  /\ player.todo # <<>> /\ MayStart(player.todo[1].skill)
  /\ player' = [player EXCEPT !.todo = Tail(@)]
  /\ Spawn(player.todo[1]) \/ UNCHANGED <<running, procs>>  \* no program for it, or one that does not start
  /\ UNCHANGED <<said, over, reports>>

TipDone ==
  /\ player.at = "tip" /\ player.todo = <<>> /\ player' = [player EXCEPT !.at = "log"]
  /\ UNCHANGED <<said, over, running, procs, reports>>

\* The next fact of the log: one of the tip is passed over, and one after it starts a process.
Read ==
  /\ player.at = "log" /\ player.todo = <<>> /\ player.read < Len(said)
  /\ LET now == [player EXCEPT !.read = @ + 1] IN
       player' = IF player.replayed > 0 THEN [now EXCEPT !.replayed = @ - 1]
                 ELSE [now EXCEPT !.todo = <<said[now.read]>>]
  /\ UNCHANGED <<said, over, running, procs, reports>>

\* The end of the life, after each fact, asks each process to end at once.
ReadEnd ==
  /\ player.at = "log" /\ player.todo = <<>> /\ player.read = Len(said) /\ over
  /\ player' = [player EXCEPT !.at = "ends"]
  /\ procs' = [n \in Procs |-> [procs[n] EXCEPT !.asked = @ \/ n \in Range(running)]]
  /\ UNCHANGED <<said, over, running, reports>>

Ended ==
  /\ player.at = "ends" /\ \A n \in Range(running) \ {0} : procs[n].watch = "over"
  /\ player' = [player EXCEPT !.at = "gone"] /\ running' = [s \in Skills |-> 0]
  /\ UNCHANGED <<said, over, procs, reports>>

Task == Tip \/ Stop \/ Stopped \/ Start \/ TipDone \/ Read \/ ReadEnd \/ Ended

-----------------------------------------------------------------------------
(* A process and its watch.                                                 *)

Exit(n) ==
  /\ procs[n].child /\ procs' = [procs EXCEPT ![n].child = FALSE]
  /\ UNCHANGED <<said, over, player, running, reports>>

\* An end that is asked comes first, and kills the process with its group, and tells nothing.
WatchAsked(n) ==
  /\ procs[n].watch = "watches" /\ procs[n].asked
  /\ procs' = [procs EXCEPT ![n].child = FALSE, ![n].group = FALSE, ![n].watch = "over"]
  /\ UNCHANGED <<said, over, player, running, reports>>

KeepGroup(n) == [procs EXCEPT ![n].watch = "tells"]
KillGroup(n) == [procs EXCEPT ![n].watch = "tells", ![n].group = FALSE]

\* A process that ended of itself: what stays of its group is killed, then its end is told.
WatchExit(n) ==
  /\ procs[n].watch = "watches" /\ ~procs[n].asked /\ ~procs[n].child /\ procs' = KillGroup(n)
  /\ UNCHANGED <<said, over, player, running, reports>>

\* The life takes the prompt to the operator, or refuses it once it is over.
TellEnd(n) ==
  /\ procs[n].watch = "tells" /\ procs' = [procs EXCEPT ![n].watch = "over"]
  /\ reports' = IF over THEN reports ELSE Append(reports, n)
  /\ UNCHANGED <<said, over, player, running>>

Process == \E n \in Procs : Exit(n) \/ WatchAsked(n) \/ WatchExit(n) \/ TellEnd(n)

Next == (\E fact \in Facts : Enable(fact)) \/ EndLife \/ Task \/ Process

Spec == Init /\ [][Next]_processVars

-----------------------------------------------------------------------------
(* Properties.                                                              *)

Alive(n) == procs[n].child \/ procs[n].group

\* Two processes of a skill never stand at once, with what they started among them, and none
\* stands once the task of the life is gone.
OneProcess ==
  /\ \A n, m \in Procs : n # m /\ procs[n].fact.skill = procs[m].fact.skill => ~(Alive(n) /\ Alive(m))
  /\ player.at = "gone" => \A n \in Procs : ~Alive(n)

\* How many facts of the log the task took up: those of the tip, and those it read after them.
Taken == player.read + player.replayed

\* Once the task took up what the log said, the process of a skill is of the last program that an
\* enable of it named, and each fact after the tip started one process at the most.
LastProgram ==
  player.at = "log" =>
    /\ \A s \in Skills : running[s] # 0 /\ player.todo = <<>> =>
         \E n \in 1 .. Taken :
           /\ said[n].skill = s /\ procs[running[s]].fact = said[n]
           /\ \A m \in n + 1 .. Taken : said[m].skill # s
    /\ Len(procs) <= Taken

\* The operator is told each process that ended of itself once, and none that the life ended.
ToldOnce ==
  /\ IsInjective(reports)
  /\ \A n \in Procs : procs[n].watch = "over" /\ ~procs[n].asked /\ ~over => n \in Range(reports)
=============================================================================
