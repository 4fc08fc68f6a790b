----------------------------- MODULE MCOutside ------------------------------
(***************************************************************************)
(* The parts of a life that promise an end, each checked by itself: the work  *)
(* that a life left and a later one resumes, an ear and its works, the servers *)
(* of tools and the wires to them. A behaviour is one of one part, chosen at  *)
(* its start.                                                                 *)
(***************************************************************************)
EXTENDS Naturals, Sequences

CONSTANTS Keys, MaxPrompts, Crashing, CRASHES, MaxDeaths, MaxRetries, MaxPauses, MaxFacts, Verbs, MaxActs, MaxItems,
          Servers, Acts, Kinds, RETRIES, MaxFaults, Wire, Requests, MaxNotes, MaxAsks

VARIABLES
  part,
  record, deaths, tries, pauses, up, resumed, again, runs, parked, park, held, retried, starts, given, asking,
  co, log, sent, items, verb, refused,
  defs, entries, loaded, gens, keepers, open, vault, valid, lists, acts, left,
  wire, wireUp, stream, named, reqs, pending, inbox, over, heard, server

\* The one definition of a server: a server of the network that its configs run.
Runs == {[run |-> "remote", disabled |-> FALSE, approved |-> TRUE]}

W == INSTANCE Work
E == INSTANCE Ears
S == INSTANCE Servers WITH Defs <- Runs
N == INSTANCE Wires WITH up <- wireUp

ASSUME OutsideAssumption == W!WorkAssumption /\ S!ServersAssumption

ofWork    == <<record, deaths, tries, pauses, up, resumed, again, runs, parked, park, held, retried, starts, given,
          asking>>
ofEars    == <<co, log, sent, items, verb, refused>>
ofServers == <<defs, entries, loaded, gens, keepers, open, vault, valid, lists, acts, left>>
ofWires   == <<wire, wireUp, stream, named, reqs, pending, inbox, over, heard, server>>

vars == <<part, ofWork, ofEars, ofServers, ofWires>>

Init ==
  /\ part \in {"work", "ears", "servers", "wire"}
  /\ W!Init /\ E!Init /\ S!Init /\ N!Init
  /\ part # "wire" => wire = "process"

Work    == part = "work" /\ W!Next /\ UNCHANGED <<part, ofEars, ofServers, ofWires>>
Ears    == part = "ears" /\ E!Next /\ UNCHANGED <<part, ofWork, ofServers, ofWires>>
Hub     == part = "servers" /\ S!Next /\ UNCHANGED <<part, ofWork, ofEars, ofWires>>
Wires   == part = "wire" /\ N!Next /\ UNCHANGED <<part, ofWork, ofEars, ofServers>>

Next == Work \/ Ears \/ Hub \/ Wires

LifeResumes == part = "work" /\ (W!Boot \/ W!Resume) /\ UNCHANGED <<part, ofEars, ofServers, ofWires>>
WorkEnds(n) == part = "work" /\ W!Ends(n) /\ UNCHANGED <<part, ofEars, ofServers, ofWires>>
EarGoes == part = "ears" /\ (E!Deliver \/ E!Pump \/ E!Answered) /\ UNCHANGED <<part, ofWork, ofServers, ofWires>>
HubGoes == part = "servers" /\ ((\E g \in 1 .. gens : S!KeeperSteps(g)) \/ \E a \in Acts : S!TaskSteps(a)) /\ UNCHANGED <<part, ofWork, ofEars, ofWires>>
WireGoes == part = "wire" /\ (N!Dispatch \/ \E r \in Requests : N!Done(r) \/ N!Late(r)) /\ UNCHANGED <<part, ofWork, ofEars, ofServers>>

Spec ==
  /\ Init /\ [][Next]_vars
  /\ WF_vars(LifeResumes)
  /\ \A n \in 1 .. MaxPrompts : SF_vars(WorkEnds(n))
  /\ WF_vars(EarGoes)
  /\ WF_vars(HubGoes)
  /\ WF_vars(WireGoes)

\* A later life takes each act that an earlier one left, once, but for what crashed it too often or a pause holds, and a
\* key makes one act (Engine::resume, parked, keyed).
WorkHolds == part = "work" => W!TypeOK /\ W!WorkHolds

\* An ear takes each act and fact once, in order, what it said lands alone, and no act is refused to it but
\* while it waits in a close of its own (Coroutine).
EarsHold == part = "ears" => E!TypeOK /\ E!EarsHold

\* The link of a server is true to the one keeper that it has, and what it offers to its lists (Hub); a request comes to
\* its own answer alone, before the end of its connection (Peer, Waiting).
ToolsHold ==
  /\ part = "servers" => S!TypeOK /\ S!ServersHold
  /\ part = "wire" => N!TypeOK /\ N!WiresHold

\* What was left is taken or held, and no resume ends a pause but of an act under one that it wakes (Engine::resume,
\* pending); what an ear said lands (poll); and each
\* act of the servers and each request of a wire ends (settled, Peer.request).
AllEnd == W!PauseHolds /\ <>[](W!AtRest /\ E!AtRest /\ S!AtRest /\ N!AtRest)
=============================================================================
