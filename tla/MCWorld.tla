------------------------------ MODULE MCWorld -------------------------------
(***************************************************************************)
(* The record that a later life says again and what stands beside it, each   *)
(* part checked by itself: the journal, the log of a record, the provider of  *)
(* models, the conversations of the claude command line (of one chain, and of  *)
(* one that forks another), a command with its processes, and the sign-in of a *)
(* provider. A behaviour is one of one part, chosen at its start.              *)
(***************************************************************************)
EXTENDS Naturals, Sequences

CONSTANTS Rungs, Peeking, Values, MaxLives, MaxActs, MaxActsOfLogs, MaxLivesOfLogs, MaxMarks, MaxMisses, Spills,
          Actors, MaxReplies, MaxWriting, MaxPieces, MaxFails, MaxStands, MaxPauses, MaxOut, MaxWrites, Keys,
          Sharing, Users, WARM, HELD, MaxSaid, MaxTurns, MaxMishaps, KeysOfForks, SharingOfForks, UsersOfForks,
          WARMOfForks, HELDOfForks, MaxSaidOfForks, MaxTurnsOfForks, MaxMishapsOfForks, Accounts, MaxSignIns,
          MaxCalls, MaxExpiries, MaxFaults

VARIABLES
  part,
  record, life, rungs, acts, over, log, saved, due, taken, asked, offered, told,
  logRecord, logLog, fresh, buffer, sink, entries, seen, owed, logDue, back, known, carried, ending, unlogged, lives,
  misses,
  providerTaken, mute, calls, paused, stood, reading, providerAsked, stands, pauses, parts, gave, ends, providerOver,
  act, dones, commandLife, phase, shell, helper, group, lifeline, expired, pipe, wrote, read, says, outs, ended,
  open, fed, took, accepted, feeding, closed, writes,
  asks, said, turns, mailbox, slots, disk, parked, given, mishaps,
  forkAsks, forkSaid, forkTurns, forkMailbox, forkSlots, forkDisk, forkParked, forkGiven, forkMishaps,
  flow, tasks, begins, port, file, catalog, lock, live, lost, issued, expiries, faults

J == INSTANCE Journal
L == INSTANCE Logs WITH MaxActs <- MaxActsOfLogs, MaxLives <- MaxLivesOfLogs, record <- logRecord, log <- logLog, due <- logDue
P == INSTANCE Provider WITH taken <- providerTaken, asked <- providerAsked, over <- providerOver
C == INSTANCE Commands WITH life <- commandLife
V == INSTANCE Conversations
F == INSTANCE Conversations WITH Keys <- KeysOfForks, Sharing <- SharingOfForks, Users <- UsersOfForks, WARM <- WARMOfForks, HELD <- HELDOfForks, MaxSaid <- MaxSaidOfForks, MaxTurns <- MaxTurnsOfForks, MaxMishaps <- MaxMishapsOfForks, asks <- forkAsks, said <- forkSaid, turns <- forkTurns, mailbox <- forkMailbox, slots <- forkSlots, disk <- forkDisk, parked <- forkParked, given <- forkGiven, mishaps <- forkMishaps
S == INSTANCE SignIn

ASSUME WorldAssumption == P!ProviderAssumption

ofJournal       == <<record, life, rungs, acts, over, log, saved, due, taken, asked, offered, told>>
ofLogs          == <<logRecord, logLog, fresh, buffer, sink, entries, seen, owed, logDue, back, known, carried,
          ending, unlogged, lives, misses>>
ofProvider      == <<providerTaken, mute, calls, paused, stood, reading, providerAsked, stands, pauses, parts, gave,
          ends, providerOver>>
ofCommands      == <<act, dones, commandLife, phase, shell, helper, group, lifeline, expired, pipe, wrote, read,
          says, outs, ended, open, fed, took, accepted, feeding, closed, writes>>
ofConversations == <<asks, said, turns, mailbox, slots, disk, parked, given, mishaps>>
ofForks         == <<forkAsks, forkSaid, forkTurns, forkMailbox, forkSlots, forkDisk, forkParked, forkGiven,
          forkMishaps>>
ofSignIn        == <<flow, tasks, begins, port, file, catalog, lock, live, lost, issued, expiries, faults>>

vars == <<part, ofJournal, ofLogs, ofProvider, ofCommands, ofConversations, ofForks, ofSignIn>>

Init ==
  /\ part \in {"journal", "log", "provider", "command", "conversation", "fork", "signing"}
  /\ J!Init /\ L!Init /\ P!Init /\ C!Init /\ V!Init /\ F!Init /\ S!Init
  /\ part # "provider" => stood = TRUE
  /\ part # "command" => open = TRUE
  /\ part # "signing" => file.account = ""

Journal       == part = "journal" /\ J!Next /\ UNCHANGED <<part, ofLogs, ofProvider, ofCommands, ofConversations, ofForks, ofSignIn>>
Logs          == part = "log" /\ L!Next /\ UNCHANGED <<part, ofJournal, ofProvider, ofCommands, ofConversations, ofForks, ofSignIn>>
Provider      == part = "provider" /\ P!Next /\ UNCHANGED <<part, ofJournal, ofLogs, ofCommands, ofConversations, ofForks, ofSignIn>>
Commands      == part = "command" /\ C!Next /\ UNCHANGED <<part, ofJournal, ofLogs, ofProvider, ofConversations, ofForks, ofSignIn>>
Conversations == part = "conversation" /\ V!Next /\ UNCHANGED <<part, ofJournal, ofLogs, ofProvider, ofCommands, ofForks, ofSignIn>>
Forks         == part = "fork" /\ F!Next /\ UNCHANGED <<part, ofJournal, ofLogs, ofProvider, ofCommands, ofConversations, ofSignIn>>
SignIn        == part = "signing" /\ S!Next /\ UNCHANGED <<part, ofJournal, ofLogs, ofProvider, ofCommands, ofConversations, ofForks>>

Next == Journal \/ Logs \/ Provider \/ Commands \/ Conversations \/ Forks \/ SignIn

Spec == Init /\ [][Next]_vars

\* A later life makes each act of the record again and comes to what the record says of it, once and in order (boot,
\* matched), and a log that agrees with the record tells each fact of it once (Log, agreed).
RecordIsTold ==
  /\ part = "journal" => J!TypeOK /\ J!JournalHolds
  /\ part = "log" => L!TypeOK /\ L!LogsHold

\* Each reply is done once, with what ran of it at its start, and none is forgotten (Hearer, Watch).
RepliesHold == part = "provider" => P!TypeOK /\ P!RepliesHold

\* What the command line holds is the request, each message once but for one that a turn gives again, while what it heard and
\* what the keeper takes it to have heard did not part, in the directory where its process is, and each conversation is one turn's or the keeper's (Keeper, Conversation).
ConversationsHold ==
  /\ part = "conversation" => V!TypeOK /\ V!ConversationsHold
  /\ part = "fork" => F!TypeOK /\ F!ConversationsHold

\* A command is done once, after all that it said, and leaves no process behind (Bash, Group).
CommandsEnd == part = "command" => C!TypeOK /\ C!CommandsEnd

\* No refresh credential that a renewal used up is sent again, the disk serves, and each sign-in that runs is one that a task ends (credential, signed, update).
SignInEnds == part = "signing" => S!TypeOK /\ S!SignInHolds
=============================================================================
