# A verification of furb

furb is an engine for agents. What it calls a *life* is one replayable record:
each thing that is said in a life is a fact, the engine (`src/furb/engine.py`)
folds facts into what the life does next, and the outside (Rust, `src/`)
carries out what the engine cannot do alone: it keeps the record, asks models,
runs commands, reaches servers of tools, tells the operator. A host
(`host/src`) opens lives, gives their events to the clients that read them,
keeps what clients still have to send, and hands its lives to a daemon of a new
build. Views (`src/view`, `src/world/reader.rs`) read what a life said.

These modules model the parts of that program where the order of the steps of
several actors matters. TLC checks each of them on a small instance, and for
most of them TLAPS proves the invariants for every value of the constants.
Paths below are those of the repository; `PROJECT.json` has, for every
definition, the lines that it models.

## The system

| component | state | operations | meets | what makes it correct |
|---|---|---|---|---|
| Record store (`world/store.rs`, `store/lines.rs`) | lines of a file, what waits, the fault, the timer | keep, sync, retry, open | journal, operator, disk | no entry is lost, the record stays readable, what is synced is durable |
| Events of a life (`host/src/life.rs`) | the log of events, a bounded broadcast, the place of each reader | put, end, join, since, hear | clients | no reader misses, repeats or waits for ever for an event |
| Bus (`engine.py` boot: say, act, offers, ears, dispatch, hear, drive) | acts known, facts, the log still to dispatch, ears alive, who speaks | an ear says a fact, makes an act, waits, returns, raises; the bus dispatches | every ear, of acts and of the outside | each ear hears each fact it waits for once, in order, and never while it speaks; each act is taken or refused |
| Controls (`engine.py` pause, wake, cancel, close, covers, controlled) | which acts are paused, what each ear put off | pause, wake, cancel, close | the bus, the lineage of acts | a pause holds what it is over, a wake gives back all of it in order, an end ends |
| Chains, turns, prompts (`engine.py` chain, prompt, rung) | turns of a conversation, rungs that stand | ask a model, run its word, answer | Kernel, provider, controls | one model at a time, and no open prompt is forgotten |
| Kernel (`kernel.py`) | a line of jobs for each rung, frames, waits, the linger | run a part, wait, resume, drop | bus, provider | a statement of a word runs once, in order |
| Extensions (`extension.rs`, `extension/skills.rs`) | what is enabled, what each chain has | stand, write, birth, the act skill | chains, journal | each word plays once on each chain, a later life plays the same |
| Journal (`engine.py` matched, owed) | the facts of the record not said again yet | replay | bus, store | a later life says each fact of its record once and in place |
| Log (`world/log.rs`, `checkpoint.rs`) | the file of a log, its buffer, what it owes | open, say, keep, flush | record, readers | a log that agrees with the record tells all of it |
| Provider (`world/provider/*.rs`) | replies, retries, stands, what ran of each word | ask, retry, pause, stand | Kernel, chains | each reply is done once, with what ran of it |
| Conversations (`provider/claude`) | the keeper, its processes, what the command line heard | lend, turn, take back, sweep | provider | the command line holds the request, each message once |
| Sign-in (`provider/codex/auth.rs`) | flow, credential file, its lock, catalog | begin, callback, cancel, renew | provider, host | no refresh credential that was used up goes again; a flow that runs ends |
| Bash (`world/bash.rs`, `child.rs`) | shells, groups, streams, stdin | start, feed, time out, end | bus, processes | an exit comes once, after what was written; no process stays |
| Ears and the pump (`ear.rs`, `engine/*.rs`) | a coroutine for each ear, its works; what earlier lives left | resume, poll, park, key | bus, record | what an ear says lands alone; work is resumed once |
| Servers of tools (`world/mcp`) | entries, keepers, tokens, connections | connect, renew, call, reload | servers, login | a link is true to the one keeper it has; a request meets its own answer |
| Actor of a life (`host/src/life.rs` driven, `rebirth.rs`) | the engine, what it told, commands, when to end or be born again | hear, pump, take a command, send, rebirth, end | queue, engine, clients | an end or a rebirth loses nothing |
| Queue of follow-ups (`host/src/queue.rs`) | entries, where each send stands | add, drop, begin, sent, failed | the record, the chains | each goes once, in its turn, while its chain rests |
| Daemon (`host/src/daemon.rs`, `holders.rs`) | lives with their windows and pins, opens that wait, asks | open, attach, pin, expire, hand over, adopt | lives, peers, the lease of each record | a held life lives, one let go ends, each verb is answered |
| Stalls, answerers, views of skills, processes, changes (`host/src/stall.rs`, `answers.rs`, `views.rs`, `processes.rs`, `changes.rs`) | one table or task each | hear, tell; ask, answer, drop; mount, push, end; start, restart; keep, append, flush | actor, daemon, peers | told once and again after news; both sides agree; one process each; no change is lost |
| Views and reader (`view/*.rs`, `world/reader.rs`) | folds of the facts | hear | windows, the desk | what is shown is what the life says |
| the rest: files, fetch, operator, gate, sandbox, transport, bindings, terminal | | | | I/O, conversions and displays with hardly any state of their own |

What is hard here is hardly ever arithmetic: it is the order in which one thread
hears what it said itself (bus, actor, ears), what a process that dies leaves
behind (record, queue, journal, log, work), what is read while it is already
stale (queue, controls, stalls, servers, sign-in), and the races of an end with
what still comes (daemon, readers, commands, wires). `PROJECT.json` lists these
hazards, each at its line, with the property that would catch it.

## Modules

| module | models | checked by | proofs |
|---|---|---|---|
| `Record` | the contract of the trait `Store`: a record that only grows, of which a loss of power takes only what is not durable | as a property of `Store` | `StoreProofs` |
| `Store` | `store.rs` and `store/lines.rs`; implements `Record` | `store` | `StoreProofs` |
| `Events` | the log of a life, its broadcast and its readers | `events` | `EventsProofs` |
| `Control` | pauses, wakes, cancels and closes over acts, with the dispatch of the bus | `control` | `ControlProofs` |
| `FollowUps`, `Actor` | the fold of the queue, and the thread of a life over it | `actor` | |
| `Daemon` | the task of the daemon with the threads, watches, tellers and peers beside it, and the handover | `daemon`, `daemon_given_up` | `DaemonProofs` |
| `Stall`, `Answers`, `Views`, `Processes`, `Changes`, with `Listing` | five parts of the host | `host` (`MCHost`) | `HostProofs` |
| `Bus` | the bus of the engine, with ears that do anything | `engine` (`MCEngine`) | `EngineProofs` |
| `Kernel`, `Turns`, `Extensions` | a rung's runs, a chain's turns, the extensions | `engine`, `extension_fork` | |
| `Journal`, `Logs`, `Conversations` | what a later life says again, the log, the claude command line | `world` (`MCWorld`) | |
| `Provider`, `Commands`, `SignIn` | replies of models, one command of bash, the sign-in of a provider | `world` | `WorldProofs` |
| `Work`, `Servers`, `Wires` | work resumed, servers of tools, connections to them | `outside` (`MCOutside`) | `OutsideProofs` |
| `Ears` | an ear of Rust and its works | `outside` | |
| `Fold`, `Threads`, `Reader`, `Streams` | four readers of a life | `view` (`MCView`) | |

`MCHost`, `MCEngine`, `MCWorld`, `MCOutside` and `MCView` put parts side by side
that share no state: a behaviour is one of one part, chosen at its start, so one
run checks them all and the number of states is the sum of theirs, not the
product. Their theorems name the same formulas as their runs. A few definitions
stand next to the one they resemble and are used by no specification
(`SettleOnce` beside `Settle`, `PutMarkingAll` beside `Put`, and so on): each is
a plausible fault of that definition, and putting it in its place breaks the
property that guards against it.

### Record and life

- `Store`. The lines of the file as processes see them and as the last sync left
  them, the fields of `Lines` and of `Held`, what the ear told the operator and
  its timer. An entry is a number. A write may fail part way, and the part it
  left may or may not be cut; a sync may fail; a message to the operator may not
  go; the process dies at any point, also inside a write; the power goes. Ghosts
  remember what a caller was promised.
- `Events`. An event is its place in the log. The broadcast is a window of the
  last `Behind` events; a reader is a record of its fields in `Reader`. The end
  of the life is an event.
- `FollowUps` and `Actor`. The queue as a record of functions with its fold over
  the facts of a life, and the loop of `driven`: poll, inbox, drain, check. The
  engine is the record it said; what it told waits in `heard`, which is why the
  queue is behind. A rebirth and an open fold the record again. Deaths come
  between any two facts.
- `Daemon`. The task hears one ask at a time, from `asks`. Each birth of a life
  is a thread that opens on the record, owns its lease, runs, drops its engine
  and tells its end; a watch tells the daemon; a teller pushes the events to each
  window. The handover stops the task, waits for each life or gives it up, and a
  second daemon adopts the lives while the old process still exits. `pinned` is a
  ghost: the pins that were answered.
- `Stall` hears facts some time after they happen and knows its own message by
  its text; `Answers` has verbs of peers on the daemon beside futures of the
  life; `Views` mounts, ends and replaces views while frames are on their way;
  `Processes` counts the enables that the log tells again; `Changes` keeps,
  appends, loses and flushes lines.

### Engine

- `Bus`. One thread, so a step is what one ear does between two calls, and the
  nesting of calls is a stack of frames: an ear that hears, an act that is put
  to the ears in the order of `ears(a)`, an act offered to the outside. What an
  ear does as it hears is any choice. The dispatch waits until nobody speaks.
- `Control`. The record is the sequence of facts, the lineage of acts gives what
  a control is over (`Covers`), and an ear is what `controlled` makes of it:
  halted or not, with what it put off. A fact enters the record as it is said
  and reaches ears as the bus dispatches it, so an act born in between reads in
  the record what others still have to hear.
- `Kernel`. A word is a row of statements; parts of it run as the model writes
  them, then its run takes the whole. Jobs stand in one line, await acts, and
  are dropped by a control.
- `Turns`. A chain, its prompts and its rungs hear each fact in that order.
  Prompts ask rungs, the chain steps, tells, binds and asks.
- `Extensions`. The ear runs to its next hearing at each fact, so a fact and
  what the ear says and plays of it are one step. What plays takes two ways, as in
  the code: a life that answers a stand or a write says what it enables, plays it
  and then hears what it said (`Played`), and a later life plays as it hears each
  fact (`Hears`); `PlaysTheSame` compares the two. The record keeps each fact by
  itself, so a crash cuts it after any of them, inside a step too.

### World

- `Journal` has words that make two equal acts, wait, and make a third that holds
  what they saw; a later life runs them again against the record. `Logs` has the
  file, the buffer, the log written anew until a first entry is kept, checkpoints
  and crashes.
- `Provider` has handlers of the ear as steps, since what a handler says lands
  before the ear takes more. `Conversations` has turns that seed, start, write,
  listen, fail and are dropped at any step of that, with a process that may end at
  each, against what the command line holds on its disk; it is checked for one
  chain and for one that forks another. `parted` is a ghost: a conversation of
  which the keeper and the command line no longer believe the same.
- `Commands` has a shell, a process that it leaves, the group, the lifeline, the
  timeout, the drain and the stdin; `Streams` has the bytes of one stream, in
  chunks of any size. `SignIn` has begins, the callback, the lock of the file,
  renewals that use up what they send, cancels and calls, in any order: a sign-in
  keeps its credential under no lock and may race a renewal or another sign-in.
- `Work` has prompts with the acts above each, since a word that runs asks prompts
  of its own: the work that a record shows started and not done, the climb from it
  to the acts that wait for it (`Pending`), the top ones of those (`Tops`), the
  wake of each with all that it made (`Under`), the park of what ended `CRASHES`
  lives and the keys of clients. `Ears` has the coroutine with what it heard, what
  its works came to and what it said; a work may call a verb, `close` among them.
- `Servers` has one action from each await to the next, for keepers and acts
  under one lock; tokens are numbers, of which each login or refresh uses up the
  one before; a list asked for again may fail while the connection goes on. `Wires`
  has the requests that wait by their number, and three kinds of wire; that the
  server takes a request (`Takes`), that it answers and that the write or the POST
  of the request returns (`Sent`) or fails (`Unsent`) are steps apart.

### Views

- `Fold` compares what the fold keeps as facts come with what all acts say at
  once; `Threads` makes every small history and sorts it; `Reader` reads a
  record, whole or as it is told, beside a small life, with any rung that it may
  take for a gate; `Streams` is above.

## Runs

| run | instance | what it shows |
|---|---|---|
| `store` | 3 entries, 2 failed writes, 1 each of failed syncs, lost messages, deaths, power losses | no entry lost or kept twice; always readable; a good sync is for ever; a debt is tried and told; the calm notice is true; the debt is paid; `Store` implements `Record` |
| `events` | 2 readers, a broadcast of 2, a log of 4 | no reader stranded; what was read joins the broadcast; a stream ends at the end; each reader reaches each event and the end |
| `control` | 1 chain, 2 acts, 2 controls, 1 fact of the world | a pause holds what it is over and a wake gives all of it back in order; ends end |
| `actor` | 2 chains, 2 entries, a tail of 3, 2 commands or works, 2 mishaps | each follow-up once, one at a time, in its turn, none left; ends and rebirths lose nothing and come |
| `daemon` | 1 life, 2 peers, 1 pin, 3 verbs, 1 fault, a handover | a birth is refused only because of one given up; a life counts its grace exactly while nothing holds it; pins hold; verbs are answered; lives alone end |
| `daemon_given_up` | 1 life, 1 peer, 1 verb | finding: a life given up keeps its record from the new daemon |
| `host` | five parts: 3 acts, 2 requests, 2 lives with 2 windows and 2 servers, 3 enables, 3 writes | stalls are told, and again; requests of models end once; both sides of a view agree; one process for a skill; the journal of changes is whole at the end |
| `engine` | four parts: 2 acts, 2 ears, 1 death on the bus; a word of 3 with 4 acts; 2 prompts, 2 rungs, 1 pause; 2 extensions, 6 facts, 3 lives | ears hear once, in order, and no act is forgotten; words run in order; chains go on; extensions play once and again the same |
| `world` | seven parts, 2 lives of a record, 3 of a log, 2 replies, 3 turns of a conversation, 2 writes of a command, 2 sign-ins | the record is told again; replies end once; conversations hold; a command ends; a sign-in ends and its credential serves |
| `outside` | four parts: 3 prompts (1 of which kills its lives), 2 acts of an ear, 1 server with 2 acts, 2 requests of each wire | work is resumed once; an ear takes and says in order; links and answers are true; all of it ends |
| `view` | four parts: 4 folded acts, 2 threaded ones, 4 acts and 2 controls of a record, 6 bytes | rows, threads, what is read of a record and of a stream say what the life does |
| `extension_fork` | 1 extension, 1 chain beside the root, 6 facts | finding: a chain that forks the setup lacks an extension enabled after it |

The larger ones reach 2 984 357 (`engine`), 2 155 736 (`world`), 1 344 153
(`view`) and 494 881 (`outside`) distinct states.

### Bounds

Every bound is a constant named in the module, and the only guards that are not
the code's are on these counters. They are chosen so that each hazard happens
with something before and after it:

- store: three entries put one in the file, one waiting and one to come; two
  failed writes make a retry fail; one sync that fails, one death and one loss of
  power in any order cover each pair of them.
- events: the log is twice the broadcast, so a reader can fall behind twice.
- control: two acts give an ear under another, two controls a pause with its
  wake, cancel or close after it, in each order.
- actor: the tail of 3 makes a rebirth come after one follow-up; two chains show
  that a queue of one does not hold the other.
- daemon: two peers, who differ only in the order in which they dial, three verbs
  for an attach, a pin and the unpin. One life: the task treats each on its own
  but for `Expire` and the handover, which are written for a set.
- host, engine: two acts nest (an act made inside an act), two ears of the
  outside let one hear while another speaks; `Waits` says that none, or the first
  act and the first ear of the outside, wait for every fact.
- world: two lives replay once and three go on from a log cut twice; one failure,
  one stand and one pause meet each other in either order. The conversations are
  checked twice, since a fork needs two chains. One account signs in: no guard but
  `Connected` tells accounts apart, and it is false already while the models of
  the account are not listed.
- outside: one prompt whose work kills its life twice (`CRASHES = 2`) and is
  then parked, with two that it or they ask, or the operator: three make a chain
  of which the middle may be paused; two acts race each other and the keeper of
  their server; one fault of the server. The acts of the run are a call and a
  disable; `ToolsHold` was also explored with two servers and four kinds of acts
  (4.3 million states), where it holds.
- view: histories of four acts hold each way that two acts can nest with a
  control between them; a head of 3 and a tail of 2 over 6 bytes cut a character
  at each place.

- the conversations were also explored with 4 turns and 3 mishaps (8.7 million
  states) and the fork with two accounts (3.6 million), the reader with 5 acts (5.0
  million); all hold.

Two bounds leave out a behaviour that the code has, because a promise of the code
fails there (see Findings): `Spills` is FALSE (a run that says more than a buffer
of the log), and `Keys` of `Work` is one key.

Where a promise of the code fails in the reach of a run, the property states it
but for that case, by a ghost that says when the case began: `torn` and
`TeachesOthers` of `Extensions`, `parted` of `Conversations`, `missed` of
`Servers`, `lost` of `SignIn`, `misled` of `Reader`; `PauseHolds` of `Work` and
`RefusedInACloseAlone` of `Ears` name theirs in their formula. Each is a finding
below, and nothing in the actions rules the case out.

No symmetry is declared: most sets are numbered, and the liveness properties
would forbid it. `CHECK_DEADLOCK FALSE` stands in each configuration, as the
bounds are used up, or the life or the daemon is over.

### Fairness

- `Store`: the timer fires and a run that began ends (`WF` of `Worked` and
  `Ran`); nothing makes the journal say more.
- `Events`: the thread answers its inbox and a client polls its stream.
- `Actor`: the loop never stops at a place of its own, the disk gets room again,
  and unkept facts are written while it has. The fairness names what each step
  changes instead of the action as a whole; each place always has a step, so the
  two say the same, and TLC takes the first much sooner.
- `Daemon`: the tasks and threads of tokio go on, a life told to end ends, a grace
  passes. It is one weak fairness for all of them together; as every behaviour is
  bounded, that each step is taken in the end is what it gives.
- `MCHost`: the task of the watch of stalls goes on.
- `MCOutside`: a life boots and resumes, tasks of the servers and of the wires go
  on, the life drives its ears. It is strong for the end of a reply (`Ends`):
  deaths and pauses, which are bounded, disable it again and again, and a model
  answers at last.
- `Control`, `MCEngine`, `MCWorld` and `MCView` have none: what ought to come is
  stated at the states in which the part is still.

## What is proved

All proofs hold for every value of the constants that satisfies the named
assumption of the module, which TLC evaluates on its run. The theorems of a part
of a sum (`MCHost`, `MCEngine`, `MCWorld`, `MCOutside`) state the very formula
that the run checks, on the specification that it checks.

| theorem | states | assumes |
|---|---|---|
| `StoreProofs!TypesHold`, `RecordIsHeld`, `CalmIsToldTrue` | `[]TypeOK`, `[]RecordHolds`, `CalmIsTrue` | `StoreAssumption` |
| `StoreProofs!StoreKeepsTheRecord` | `KeepsTheRecord`: `Store` implements `Record`, step by step | `StoreAssumption` |
| `EventsProofs!TypesHold`, `NoReaderStranded`, `LogJoinsBroadcast`, `StreamsEndAtTheEnd` | `[]TypeOK`, `[]NeverStranded`, `[]ReadJoins`, `[]OverAtTheEnd` | `EventsAssumption` |
| `ControlProofs!ControlsTheorem`, `HearsTheorem` | `[]ControlEnds`, `[]NothingMissed` | `ControlAssumption` |
| `ControlProofs!PausesTheorem` | `[]PausesHold` | the same, and `OneChain` |
| `DaemonProofs!TypesHold`, `BirthsDoAgree`, `IdleHolds`, `PinsAreHeld` | `[]TypeOK`, `[]BirthsAgree`, `[]IdleIsUnheld`, `[]PinsHold` | `DaemonAssumption` (finitely many lives) |
| `HostProofs!StallsTheorem`, `SkillsTheorem`, `ChangesTheorem` | `[]StallsAreTrue`, `[]SkillsHold`, `[]ChangesAreKept` | `HostAssumption` |
| `EngineProofs!BusTheorem` | `[]BusHears` | `EngineAssumption` |
| `WorldProofs!CommandsTheorem` | `[]CommandsEnd` | |
| `WorldProofs!SignInTheorem` | `[]SignInEnds` | |
| `WorldProofs!RepliesTheorem` | `[]RepliesHold` | `WorldAssumption` |
| `OutsideProofs!WorkTheorem`, `PauseTheorem` | `[]WorkHolds`, `W!PauseHolds` | `OutsideAssumption` |
| `OutsideProofs!ToolsTheorem` | `[]ToolsHold` | `OutsideAssumption` (finitely many servers) |

None of these properties is inductive as it stands. What each induction needs:

**Store.** `IInv` adds to the types where the whole lines end (`Good`, one line
at most after them, and the store knows it), that lines and what waits together
are what the journal said (`Joined`, `InOrder`), that the file and the disk read
(`Files`), that what is on the disk begins what is in the file, and what was
promised begins that (`Sured`), and when the two are equal (`Synced`). The
refinement then maps each step to one of `Record` or to a stutter.

**Events.** `ReaderInv` says what each phase of `Reader` keeps: before it joins,
it holds nothing and is behind; while its `Since` waits, it read nothing and is
not behind; with events in hand these start at its place and end where the
broadcast goes on; with none in hand, the broadcast has not passed its place. A
step of one reader leaves every other as it was, and a `Put` only makes the log
longer.

**Control.** The proofs put a `Cursor` on each ear: the last fact that the
dispatch put to it. What an ear heard and what it put off are bounded by it
(`Hearing`, `PutOff`, `HeardAll`), an act is over once its cursor passes an end of
it (`Ended`), and it is halted exactly as the record up to the cursor says
(`Halts`). `PausesHold` alone assumes `OneChain`: with more chains it is false, as
"Control" under Findings says.

**Daemon.** The two properties about pins need each other: a grace that passes
ends a life without a look at its pins, so that none is lost needs that a life
that counts down has none (`Settled`); a handover empties what the daemon holds,
so where the pins are meanwhile must be known (`Pinning`). `BirthsAgree` needs all
that is between the task and the threads, in `BInv`: each life is held or given in
a birth of its own, and its lease is with one that runs (`Owned`); an engine goes
on only in the birth that holds its life, or in one given up (`Accounted`); an end
that waits for the task came (`Waits`).

**Host.** `StallInv`: what the events that the watch has still to hear will make
of what it knows (`Known`), and which prompts are its own messages (`Messages`).
`AnswersInv`: what a verb that took a request out of the table holds
(`VerbHolds`). `ProcessesInv`: what the task has still to hear begins where the
tip stood (`TaskInv`), and which process each watch waits for (`WatchInv`).
`ChangesInv`: each text that landed is with the task, on the disk or lost, in one
place (`Landed`), the flush of the end stands behind all of them (`Flushes`), and
what is on the disk was told or is about to be (`Tellings`).

**Bus.** `BusInv` is about the stack. An act is put or offered in one frame, and
an ear hears in one (`Framed`); the log is in the order said, after the fact that
is dispatched (`LogInOrder`); a mark that an ear had a fact of the log is true
(`HeardSoFar`). `StillToHear` says of a fact that an ear waits for and did not
hear where it is still to come from: the log, the fact dispatched, a frame below,
or that another ear took it; `StillToTake` says the same of the turns of an act.
With an empty stack and an empty log these are `NoneMissed` and `NoneForgotten`.

**Commands.** `CommandInv`: which processes can live by the state of the group
(`Grouped`), where the wait stands while the act does (`Phases`), that a wait that
is over said last how it ended (`Saying`), that what was read is what was said and
what waits to be said (`Counted`, as sums over the texts on their way, so that no
recursion is needed), and that the stdin took the first of what was accepted
(`Fed`).

**Sign-in.** `SignInv`: the lock is of one task, which reads, renews and keeps
(`Locked`); what a task is about to keep is a credential that the server takes and
that no other task and no disk holds, so that neither a renewal nor the save of
another sign-in makes it stale (`Refreshes`); what the disk holds serves but while
its renewal is about to be kept, or once a renewal was lost. The theorem takes no
hypothesis: sign-ins, calls and cancels race as they may.

**Replies.** `RepliesInv`: what a watch holds, and what its call told and is not
read yet, is of one attempt up to where one failed (`OneAttempt`); the last that a
call told says whether an attempt goes on or why none does (`GoesOn`); what ran of
a word is what was given of it, and an end says that (`EndedSo`).

**Work.** `WorkInv`: prompts are numbered in their order (`Numbered`), the acts
above one are older and so is what is above those (`Lined`), starts in this life
are counted (`Counted`), work is in the journal, with the park or taken, in one of
them (`Apart`), what ended `CRASHES` lives is held or was asked for (`Guarded`),
what is left before a resume is in the journal (`Awaiting`), and a key was given
the act that the record shows for it (`Keyed`). `PauseTheorem` follows from the
definitions: an act that the wake of a top covers is that top, which waits, or has
it above it.

**Wires.** `WireInv`: the requests that wait are those that came to nothing yet
(`Waiting`), the end reached each that waited and is told last (`Ending`), an
answer that came is one that the server gave (`Answering`), and on one stream
nothing comes after its end, an answer of a request that waits comes before it,
and a request that the end reached was not answered (`OneStream`).

**Servers.** `HubInv`: a keeper that goes on is of the generation of its entry,
and no aborted one is (`Owned`), the link says where it stands (`LinkIsTrue`), and
one that heeds its connection, owes no read and missed none offers what there is
(`Heeding`).
What makes the last hold is `Tokened`: no token that anything holds is newer than
the last login of its server. A token that no longer serves then never serves
again (`Ages`), so a keeper that was excused by a dead token cannot become one
that ought to have read the lists. A reload, which replaces any set of servers at
once, is one lemma (`RelaunchKept`), moves of one keeper another (`KeeperMoves`),
and the rest leave keepers and entries alone (`HubKept`). The proof uses nothing
of the definitions of servers, though `MCOutside` gives TLC one.

### What stays with TLC

- Liveness, as fairness and `ENABLED` are out of the prover's reach: `DebtIsPaid`,
  `Reaches`, `EndComes`, `GoesOn`, `HangsAreTold`, and the ends of `AllEnd`. The
  part of `AllEnd` that is a property of steps, which pauses a resume leaves, is
  `PauseTheorem`.
- What a fold yields for data of any length is induction over data, which the
  installed provers cannot do. `FollowUpsHold`, `SendsTheDue` and `NothingLost`
  (the queue is a fold of the record), `TurnsGoOn` and `EarsHold` (sequences
  filtered and sorted), `WordsRun`, `ExtensionsHold` (rungs played as folds),
  `RecordIsTold` (replay as folds), `ConversationsHold` and `ViewsAreTrue` rest on
  such data.
- `RecordIsRead`: `Reader` and `Streams` are recursive (the ends of nested acts,
  the decoding of a stream), and no module with a theorem reaches them.

## Findings

Two runs expect a violation; `PROJECT.json` quotes the lines.

- `daemon_given_up` (`host/src/daemon.rs:984`). The new daemon is said to open a
  life that was given up from its record. While the old process still exits, its
  thread holds the lease, so the open is refused, and nothing tries again.
- `extension_fork` (`src/extension.rs:753`). A chain made with no source after
  the setup was taken is said to hold each extension. One that was enabled later
  is not in the setup, and the ear plays nothing on that chain.

The others are known from the modules and have no run of their own. Where a
definition or a bound is named, TLC shows the behaviour by listing that
definition as an `INVARIANT`, by setting that bound to TRUE, or by dropping that
ghost from the property; the rest are behaviours that the actions have and the
properties allow.

- Record. A loss of power is said to take at most what the last run kept; while an
  entry waits for the disk no run syncs (`world/store.rs:406`), so entries of
  earlier runs that landed stay unsynced and go too. The operator is said to be
  told when the record grows again; only the end of a run clears the fault
  (`world/store.rs:400`), and an idle life that recovered never says so.
- Bus. An act is said to be refused once no ear took it (`engine.pyi:99`). One
  whose turn comes while an ear of the outside is busy may be taken later; when
  that ear then leaves it, nobody refuses it (`engine.py:1137`).
- Control. A pause is over what a paused act makes on another
  chain, by `covers`; `paused` reads only the pauses of the chain of an act
  (`engine.py:942`), so an act is born there outside the pause (`PausesHold` on two chains).
- Chain. A chain is said to have one reply in flight (`engine.pyi:918`). It makes
  the reply once its note is bound (`engine.py:487`) with no look at whether the
  rung that it steps for is over: after a cancel in between, a reply of no rung is
  in flight beside the next one (`OneReply`).
- Actor. A follow-up is said to go once its chain rests. After an open, a command
  may prompt or pause the chain, and the queue is read before the thread hears
  what that command said (`host/src/life.rs:537`).
- Ears (`RefusedInACloseAlone`). The law of an ear is that it calls of its own
  accord no verb whose hearing can reach an act that it takes, and that the
  commands call none (`src/ear.rs:28-41`). A command that does not start is closed
  by a call of `close` (`world/bash.rs:98`, `:181`); a word that awaited it goes
  on and may run another command, which finds no ear and is refused. The property
  says that nothing else is refused so.
- Work (`PauseHolds`). A resume is said to leave an act that a pause holds as it
  is (`src/engine.rs:731-733`). It wakes the top act that waits, and that wake
  covers all that the act made (`engine.py:926-938`): a separate pause of an act
  below it ends with it. The property says that each other pause stays.
- Keys. The act of a key is the first question of the operator after the key
  (`src/engine.rs:775-780`). When a life ends between a key and its act, the act
  of a later key is given to both (`KeysApart` with two keys).
- Servers. `relinked` changes the link whatever the generation
  (`world/mcp/hub.rs:348`), so a request that answered 401 can tell of a server
  that a newer keeper just connected that it needs a login (`RelinkedIsDown`). Two
  acts that read the configs may apply them in the other order
  (`hub.rs:174-175`), and the older one stands (`ConfigsHold`). Keepers and acts
  renew the token of one login with no lock, so one of two may send a refresh
  token that the other used up. A keeper is said to keep what the server offers as
  the server changes it (`hub.rs:589-590`); a list that is asked for again and
  fails while the connection stays open is not asked for another time
  (`hub.rs:664`), so what is offered stays old (`missed`).
- Wires. The answer of a request whose POST then fails is lost: the failure of the
  send ends the request before its answer is looked at (`world/mcp/wire.rs:172-177`,
  `:610-617`), though the server did what was asked.
- Log (`Spills`). The buffer of the log is of 1 MB. A run that says more gives the
  file a part of it, and a death then leaves a log that is cut inside of a run.
- Sign-in (`lost`). A renewal whose answer is lost, or whose save fails, leaves
  on the disk a refresh credential that the server no longer takes; each later
  call sends it again, is refused and asks for a sign-in. Sign-ins race with no
  lock: `begin` reads that no flow runs and inserts its own later
  (`auth.rs:465-482`), `update` reads that it was not cancelled and sets the status
  later (`auth.rs:313-320`), so a cancelled sign-in may say that it is connected,
  and the save of a renewal may go over the credential of a sign-in that came
  meanwhile (`auth.rs:389`, `:539`): the life then goes on with the old account.
  `SignInEnds` holds over all of these.
- Conversations (`parted`). Each turn is said to write only what the command line
  has not heard (`claude/mod.rs:1-3`); a turn that came to no reply gives its last
  message again. A turn that is dropped, or whose process ends, after it seeded
  the file of a conversation and before its line is heard leaves the keeper
  believing that nothing was heard, and the next turn writes it a second time; one
  whose process ends before the line is read may count as asked what was not
  (`conversation.rs:344-371`, `:313-325`, `keeper.rs:74-84`). A fork copies its
  parent as the parent is when the process starts, which may have gone on by then.
- Reader (`misled`). The findings of the gate are said to stand on the rung whose
  word it refused (`world/reader.rs:22-23`). A gate is matched with any rung of its
  chain that has a word and no gate (`reader.rs:474-478`); with one whose answer a
  pause put off there are two, and the findings, or the run, may go to the wrong
  one. A rung that the record does not hold is put on the open prompt made last
  (`reader.rs:551-556`), which need not be the one that asked it, and the rung
  there is told done. The findings on a word of the operator are not told from a
  whole record.
- Threads. A question is said to count once, in the thread where it waits
  (`view/threads.rs:359`); that of a thread one of whose agents asks too is not
  counted (`CountsEachQuestion`).
- Extensions. An extension of the root alone is not reloaded by a write once a
  setup holds it (`extension.rs:847-852`, `docs/extensions.md:350-353`). A stand
  after a reload enables again the word that the host gives, older than the one
  reloaded (`extension.rs:771-772`). A crash that cuts the record inside of the
  enables of a teach (`torn`) makes the next life give that teach up
  (`extension.rs:845`) and play on the root again what the setup holds, while a
  life after it counts the same enables to the teach and plays nothing
  (`extension.rs:765-809`): the two do not play the same rungs, though a later life
  is said to. One that cuts it between the stand that took the setup and its teach
  makes a life that was given other extensions teach those (`TeachesOthers`), which
  the setup does not hold.

## What is left out of the modules

- `Store`: the bytes of an entry and its JSON; the SQLite store, which promises
  the same trait by a transaction for each keep.
- `Bus`, `Control`: what acts mean; the ears that they carry are any ears. The
  nesting of the bus is in `Bus` alone: `Control` takes the dispatch as one queue
  for each ear.
- `Actor`: `prompts` and `works` stand for the state of a chain that
  `view/state.rs` computes. What a rebirth restates, a checkpoint that fails at a
  rebirth, and a report that fails to be said are not there. A process that dies
  between the fact that an entry goes (`begin`) and its prompt leaves that entry
  sending for ever, in the model as in the code.
- `Daemon`: the frames of presence and sockets; skills, views, answerers and
  stalls are modules of their own. The peer that asks for the handover does not
  die.
- `Turns`: the replay of a chain from another one, doors, news and the refusals
  of the gate. `Journal`: bursts that join, drifts that a fault of the record
  makes, the seeds of a checkpoint.
- `Provider`, `Conversations`, `SignIn`, `Servers`: the protocols of the models,
  of the command line, of a browser and of the servers; each outside is any that
  answers, fails or ends at any point.
- `Fold`, `Threads`, `Reader`: texts, times and layout.
- Not modelled at all: tasks and grants (their ceilings are pauses, their sums
  arithmetic), waits and the clock (acts of the outside as any), files, disk,
  fetch and scratch, the operator's ear, the gate, the sandbox, the ears and
  access of the host, the transport, the bindings and the terminal. They are
  input and output, conversions or display; `PROJECT.json` has the reason of each.
