------------------------------ MODULE MCEngine ------------------------------
(***************************************************************************)
(* The parts of the engine beside its controls, each checked by itself: the   *)
(* bus, the Kernel of one rung, the turns of a chain, and the extensions that  *)
(* play on each. A behaviour is one of one part, chosen at its start.          *)
(***************************************************************************)
EXTENDS Naturals, Sequences

CONSTANTS Outside, MaxActs, MaxSaid, MaxDeaths, MaxWord, MaxActsOfKernel, Names, Alone, Defaults, Kids,
          MaxWordOfExtensions, MaxFacts, MaxLives, Prompts, Words, MaxRungs, MaxLag, MaxPauses

VARIABLES
  part,
  made, facts, had, log, left, stack, alive, wide, taken, done, heard, born, deaths,
  life, held, executed, dones,
  doctrine, disk, on, record, settled, torn, up, lives, tip, at, given, ear,
  prompts, rungs, turnsLog, chain, astray, pauses

\* Who waits for every fact, of the acts (1, 2) and the outside (3, 4).
Waits == {{}, {1, 3}}

B == INSTANCE Bus
K == INSTANCE Kernel WITH MaxActs <- MaxActsOfKernel
X == INSTANCE Extensions WITH MaxWord <- MaxWordOfExtensions
T == INSTANCE Turns WITH log <- turnsLog

ASSUME EngineAssumption == B!BusAssumption

ofBus        == <<made, facts, had, log, left, stack, alive, wide, taken, done, heard, born, deaths>>
ofKernel     == <<life, held, executed, dones>>
ofExtensions == <<doctrine, disk, on, record, settled, torn, up, lives, tip, at, given, ear>>
ofTurns      == <<prompts, rungs, turnsLog, chain, astray, pauses>>

vars == <<part, ofBus, ofKernel, ofExtensions, ofTurns>>

Init ==
  /\ part \in {"bus", "kernel", "extensions", "turns"}
  /\ B!Init /\ K!Init /\ X!Init /\ T!Init
  /\ part # "bus" => wide = {}
  /\ part # "extensions" => doctrine = TRUE /\ disk = [n \in Names |-> 0] /\ on = {}

Bus        == part = "bus" /\ B!Next /\ UNCHANGED <<part, ofKernel, ofExtensions, ofTurns>>
Kernel     == part = "kernel" /\ K!Next /\ UNCHANGED <<part, ofBus, ofExtensions, ofTurns>>
Extensions == part = "extensions" /\ X!Next /\ UNCHANGED <<part, ofBus, ofKernel, ofTurns>>
Turns      == part = "turns" /\ T!Next /\ UNCHANGED <<part, ofBus, ofKernel, ofExtensions>>

Next == Bus \/ Kernel \/ Extensions \/ Turns

Spec == Init /\ [][Next]_vars

\* Each ear hears each fact for it once, in order, while it does not speak, and no act is forgotten (say, dispatch).
BusHears == part = "bus" => B!TypeOK /\ B!BusHears

\* The statements of a word run once and in order through its parts, its run and what it awaits, each end
\* goes to the one job that waits for it, and nothing of a word is stuck (Running).
WordsRun == part = "kernel" => K!TypeOK /\ K!RunsInOrder /\ K!WaitsForOne /\ K!NoneIsStuck

\* A chain asks one model at a time for its open rungs, and forgets no open prompt (chain, prompt).
TurnsGoOn == part = "turns" => T!TypeOK /\ T!TurnsGoOn

\* The word of each extension plays once on each chain and reloads where it plays, and a later life plays the same rungs
\* again, but for a record that a crash cut inside of the teach of its setup (the ear of the extensions, the act skill).
ExtensionsHold == part = "extensions" => X!TypeOK /\ X!ExtensionsHold
=============================================================================
