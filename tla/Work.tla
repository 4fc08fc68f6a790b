-------------------------------- MODULE Work --------------------------------
(***************************************************************************)
(* The work that an earlier life left, as the engine of the host takes it    *)
(* up: the acts that a record shows started and not done, the wakes of a      *)
(* resume, the park of the acts that ended CRASHES lives, and the act that a  *)
(* key of a client makes once.                                              *)
(*                                                                         *)
(* The work is prompts, of the operator and of the words of other prompts,     *)
(* each with one act of the outside of the same number, its reply and then     *)
(* the run of its word: the work of that prompt, until it is over. The work    *)
(* of a prompt in Crashing ends the process. A fact is in the record as said.  *)
(***************************************************************************)
EXTENDS Naturals, Sequences, FiniteSets, SequencesExt, FiniteSetsExt

CONSTANTS Keys, MaxPrompts, Crashing, CRASHES, MaxDeaths, MaxRetries, MaxPauses, MaxFacts

Prompts == 1 .. MaxPrompts

None == "none"

\* Some life is taken before an act is parked, and the bounds are numbers.
WorkAssumption ==
  /\ CRASHES \in Nat \ {0} /\ MaxPrompts \in Nat /\ MaxDeaths \in Nat /\ MaxRetries \in Nat
  /\ None \notin Keys

VARIABLES
  record,   \* what the record holds
  deaths,   \* how many lives ended with no act of Crashing that ran
  tries, pauses,   \* how many acts were retried, and paused
  up, resumed,
  again,    \* the replies that the journal holds from the outside until a wake of this life
  runs,     \* the replies that an ear of the outside took in this life
  parked,   \* the replies that the host knows as parked
  park,     \* the replies that the park holds back, by name
  held,     \* the replies that were put to the ear and that the park holds
  retried,  \* the replies that this life retried
  starts,   \* how often the outside started each reply in this life
  given,    \* what each key was given, in order
  asking    \* the key of which this life said the fact and not yet the act, or none

vars == <<record, deaths, tries, pauses, up, resumed, again, runs, parked, park, held, retried, starts, given, asking>>

\* The record: the facts of the keys and of the prompts, of the operator or of a word, in their order, the acts above
\* each prompt, which made it, directly or not, how many lives the record shows its work started in, which are over, and
\* which a pause holds. A started past the one that tells a late park from the park tells nothing more.
Over(n)   == n \in record.over
Paused(n) == n \in record.paused
Starts(n) == record.started[n]
Fact(kind, of) == <<kind, of>>
Made    == {record.facts[i][2] : i \in {j \in 1 .. Len(record.facts) : record.facts[j][1] # "key"}}
Above(n) == record.above[n]

\* An act waits while it is not over and no pause holds it; a control of an act covers what it made, directly or not.
Waits(n)  == ~Over(n) /\ ~Paused(n)
Under(ns) == {n \in Made : n \in ns \/ Above(n) \cap ns # {}}
Begun(ns) == [n \in Prompts |-> IF n \in ns /\ Starts(n) <= CRASHES THEN Starts(n) + 1 ELSE Starts(n)]

\* The replies that the record shows started and not done; those that it shows so in CRASHES lives.
Left    == {n \in Made : Starts(n) > 0 /\ ~Over(n)}

\* A form that parks none.
LoopingNone == {}

Looping == {n \in Left : Starts(n) >= CRASHES}

Init ==
  /\ record = [facts |-> <<>>, above |-> [n \in Prompts |-> {}], started |-> [n \in Prompts |-> 0], over |-> {}, paused |-> {}] /\ deaths = 0 /\ tries = 0 /\ pauses = 0 /\ up = TRUE /\ resumed = TRUE /\ again = {} /\ runs = {} /\ parked = {} /\ park = {}
  /\ held = {} /\ retried = {} /\ starts = [n \in Prompts |-> 0] /\ given = [k \in Keys |-> <<>>] /\ asking = None

\* The ear of the outside takes replies, and says each started.
Take(ns) ==
  /\ runs' = runs \cup ns /\ starts' = [n \in Prompts |-> IF n \in ns THEN starts[n] + 1 ELSE starts[n]]

(* ---- a life opens, and ends by a crash ---- *)

Boot ==
  /\ ~up /\ up' = TRUE /\ resumed' = FALSE
  /\ again' = Left /\ parked' = Looping /\ park' = Looping
  /\ held' = {} /\ runs' = {} /\ retried' = {} /\ starts' = [n \in Prompts |-> 0] /\ asking' = None
  /\ UNCHANGED <<record, deaths, tries, pauses, given>>

\* The reply of a prompt in Crashing ends the process; and the machine may, a bounded number of times.
Dies ==
  /\ up /\ up' = FALSE
  /\ IF runs \cap Crashing # {} THEN UNCHANGED deaths ELSE deaths < MaxDeaths /\ deaths' = deaths + 1
  /\ UNCHANGED <<record, tries, pauses, resumed, again, runs, parked, park, held, retried, starts, given, asking>>

(* ---- the wake ---- *)

\* The acts that wakes of ns put to the outside: those that the journal holds and that are not over.
Put(ns) == {n \in ns \cap again : ~Over(n)}

\* What the park lets go of what it held: each that is parked no more, not over, and that no ear took in this life.
Freed(parks) == {n \in held \ parks : ~Over(n) /\ n \notin runs}

Wakes(ns, parks) ==
  LET takes == (Put(ns) \ parks) \cup Freed(parks)
  IN /\ again' = again \ Put(ns)
     /\ held' = (held \cap parks) \cup (Put(ns) \cap parks)
     /\ Take(takes) /\ record' = [record EXCEPT !.paused = @ \ ns, !.started = Begun(takes)]

\* A form that takes none while an act is parked.
HoldingNone == {n \in again : parked = {} /\ Waits(n)}

\* The work of an earlier life that waits: of what the journal holds, each that waits and is not parked.
Holding == {n \in again \ parked : Waits(n)}

\* A form that climbs over what a pause holds.
PendingAll == {m \in Made : ~Over(m) /\ \E n \in Holding : m = n \/ m \in Above(n)}

\* The work that waits for a wake of this life: that work, and each act above it that waits.
Pending == {m \in Made : Waits(m) /\ \E n \in Holding : m = n \/ m \in Above(n)}

\* The pending acts that no other of them made; a wake of one covers all that it made, also what has a pause of its own.
Tops == {m \in Pending : Above(m) \cap Pending = {}}

\* A life that opens on a record wakes each pending act that no other made, once.
Resume ==
  /\ up /\ ~resumed /\ resumed' = TRUE /\ Wakes(Under(Tops), park)
  /\ UNCHANGED <<deaths, tries, pauses, up, parked, park, retried, given, asking>>

\* An act that is parked is run again: its name leaves the park, and a wake puts it to the outside, or lets it go.
Retry(n) ==
  /\ up /\ resumed /\ n \in parked /\ ~Over(n) /\ tries < MaxRetries /\ tries' = tries + 1
  /\ parked' = parked \ {n} /\ park' = park \ {n} /\ retried' = retried \cup {n}
  /\ Wakes(Under({n}), park \ {n})
  /\ UNCHANGED <<deaths, pauses, up, resumed, given, asking>>

\* The operator pauses and wakes a prompt, with all that it made.
Pause(n) ==
  /\ up /\ resumed /\ n \in Made /\ Waits(n) /\ pauses < MaxPauses /\ pauses' = pauses + 1
  /\ record' = [record EXCEPT !.paused = @ \cup Under({n})]
  /\ UNCHANGED <<deaths, tries, up, resumed, again, runs, parked, park, held, retried, starts, given, asking>>

Wake(n) ==
  /\ up /\ resumed /\ n \in Made /\ (\E k \in Under({n}) : ~Over(k) /\ Paused(k)) /\ Wakes(Under({n}), park)
  /\ UNCHANGED <<deaths, tries, pauses, up, resumed, parked, park, retried, given, asking>>

(* ---- the operator and its clients ---- *)

\* A new prompt, of the operator or of the word of a prompt, and its work, which the outside takes at once.
Prompting == Cardinality(Made) + 1
Making(kind, above) ==
  /\ record' = [record EXCEPT !.facts = Append(@, Fact(kind, Prompting)), !.started = Begun({Prompting}),
                             !.above[Prompting] = above]
  /\ Take({Prompting})

Prompt ==
  /\ up /\ resumed /\ asking = None /\ Prompting \in Prompts /\ Making("prompt", {})
  /\ UNCHANGED <<deaths, tries, pauses, up, resumed, again, parked, park, held, retried, given, asking>>

\* The word of a prompt that runs and that no pause holds makes a prompt, which it awaits.
Asks(n) ==
  /\ up /\ resumed /\ asking = None /\ Prompting \in Prompts
  /\ n \in runs /\ Waits(n) /\ Making("word", {n} \cup Above(n))
  /\ UNCHANGED <<deaths, tries, pauses, up, resumed, again, parked, park, held, retried, given, asking>>

\* A form that knows no key of an earlier call.
FoundNone(k) == 0

\* The act of a key: the first prompt of the operator after a fact of the key.
Found(k) ==
  LET facts == record.facts
      at    == {j \in 1 .. Len(facts) : facts[j][1] = "prompt" /\ \E i \in 1 .. j : facts[i] = Fact("key", k)}
  IN IF at = {} THEN 0 ELSE facts[Min(at)][2]

\* A call with a key: its act is given back when there is one, and else the fact of the key goes to the record, and
\* then the act is made, unless it is refused or the life ends between the two. A client calls again.
Calls(k) ==
  /\ up /\ resumed /\ asking = None
  /\ IF Found(k) # 0
     THEN given' = [given EXCEPT ![k] = Append(@, Found(k))] /\ UNCHANGED <<record, asking>>
     ELSE record' = [record EXCEPT !.facts = Append(@, Fact("key", k))] /\ asking' = k /\ UNCHANGED given
  /\ Len(given[k]) < 2 /\ Prompting \in Prompts /\ (Found(k) = 0 => Len(record.facts) < MaxFacts)
  /\ UNCHANGED <<deaths, tries, pauses, up, resumed, again, runs, parked, park, held, retried, starts>>

Answers(k) ==
  /\ up /\ asking = k /\ asking' = None
  /\ \/ Making("prompt", {}) /\ given' = [given EXCEPT ![k] = Append(@, Prompting)]
     \/ UNCHANGED <<record, runs, starts, given>>
  /\ UNCHANGED <<deaths, tries, pauses, up, resumed, again, parked, park, held, retried>>

\* The work of a prompt that no pause holds ends once all that it made is over, and ends the prompt; that of one in
\* Crashing never does.
Ends(n) ==
  /\ up /\ n \in runs \ Crashing /\ Waits(n) /\ (\A k \in Under({n}) \ {n} : Over(k))
  /\ record' = [record EXCEPT !.over = @ \cup {n}]
  /\ UNCHANGED <<deaths, tries, pauses, up, resumed, again, runs, parked, park, held, retried, starts, given, asking>>

Next ==
  \/ Boot \/ Dies \/ Resume \/ Prompt
  \/ \E n \in Prompts : Retry(n) \/ Pause(n) \/ Wake(n) \/ Asks(n) \/ Ends(n)
  \/ \E k \in Keys : Calls(k) \/ Answers(k)

Spec ==
  /\ Init /\ [][Next]_vars
  /\ WF_vars(Boot) /\ WF_vars(Resume) /\ \A n \in Prompts : SF_vars(Ends(n))

-----------------------------------------------------------------------------
TypeOK ==
  /\ deaths <= MaxDeaths /\ tries <= MaxRetries /\ again \cup runs \cup parked \cup park \cup held \cup retried \subseteq Made
  /\ asking \in Keys \cup {None}

\* An act that ended CRASHES lives is started in no later life that was not asked to retry it (Engine::parked).
ParkHolds == \A n \in Made : up /\ Starts(n) > CRASHES => n \in retried \/ n \notin runs

\* In one life the outside starts an act once, whatever resumes, retries and wakes meet (parking, offers).
OncePerLife == \A n \in Prompts : starts[n] <= 1

\* Once a life resumed, each act that it left is taken, but for one that is parked or that a pause holds (resume).
NothingLeft ==
  up /\ resumed => \A n \in Left : n \in runs \/ n \in parked \/ (n \in again /\ Paused(n))

\* A pause holds the work of an earlier life: no resume ends a pause of an act, but for one under an act that waits,
\* whose wake covers it (pending, resume; engine.rs:731-733 says that each stays as it is).
PauseHolds ==
  [][Resume => \A n \in Made : Paused(n) /\ (\A m \in Above(n) : ~Waits(m)) => Paused(n)']_vars

\* A key makes one act, whatever crash comes between its fact, its act and its answer (Engine::keyed).
KeyOnce == \A k \in Keys : Cardinality(Range(given[k])) <= 1

WorkHolds == ParkHolds /\ OncePerLife /\ NothingLeft /\ KeyOnce

\* The act of a key is made by that key (Engine::keyed: "the act of a verb that a key of the client makes once").
KeysApart == \A k, l \in Keys : k # l => Range(given[k]) \cap Range(given[l]) = {}

\* The process ends its lives no more at last, since the work that ends them is parked; and each other act ends, or
\* it or an act that it made waits for the operator, parked or paused (engine/record.rs CRASHES, Engine::resume).
AtRest ==
  up /\ \A n \in Made : Over(n) \/ \E k \in Under({n}) : ~Over(k) /\ (k \in Crashing \/ Paused(k) \/ k \in parked)
LoopEnds == <>[]AtRest
=============================================================================
