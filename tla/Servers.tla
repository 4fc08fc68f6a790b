------------------------------ MODULE Servers ------------------------------
(***************************************************************************)
(* The servers of tools of a life: what the configs define, the keeper that    *)
(* connects each server and connects it again, the tokens of its login, and    *)
(* the acts that ask it.                                                     *)
(*                                                                         *)
(* Each act of the ear is a task of its own, and so is each keeper. They share *)
(* the entries under one lock, which no task holds over an await, so each      *)
(* action here runs from one await to the next. The server, its network and    *)
(* its authorization server are external: a connection closes, a connect fails *)
(* and an access token ends at any point, and a refresh token serves once.     *)
(***************************************************************************)
EXTENDS Naturals, FiniteSets

CONSTANTS Servers, Defs, Acts, Kinds, RETRIES, MaxFaults

\* The configs define some servers.
ServersAssumption == IsFiniteSet(Servers)

VARIABLES
  defs,     \* the definition of each server in the configs
  entries,  \* the entry of each server of the life
  loaded,   \* whether the configs were read once
  gens,     \* the generations of keepers given so far
  keepers,  \* the keepers that run, by generation, and, for the properties, whether one missed what its server offers now
  open,     \* the connections that the server holds open, by generation
  vault,    \* the tokens that the store holds for each server
  valid,    \* the last login of each server, whose refresh token serves, and whose access token may have ended
  lists,    \* the version of what each server offers
  acts,     \* the acts of the ear
  left      \* how often the outside still changes: a close, a failed connect, a token that ends, an edit of the configs

hub == <<entries, gens, keepers>>
world == <<defs, open, valid, lists>>
vars == <<defs, entries, loaded, gens, keepers, open, vault, valid, lists, acts, left>>

None  == [run |-> "none"]
NoEntry == [def |-> None, link |-> "none", gen |-> 0, offered |-> 0]
Fresh == [at |-> "new", kind |-> "none", name |-> "none", seen |-> "none", run |-> "none", session |-> 0, token |-> 0, tried |-> FALSE,
          held |-> 0]
Spend == left > 0 /\ left' = left - 1

Init ==
  /\ defs \in [Servers -> Defs] /\ entries = [s \in Servers |-> NoEntry] /\ loaded = FALSE /\ gens = 0
  /\ keepers = [g \in {} |-> 0] /\ open = {} /\ vault = [s \in Servers |-> 1]
  /\ valid = [s \in Servers |-> [login |-> 1, ended |-> FALSE]]
  /\ lists = [s \in Servers |-> 0] /\ acts = [a \in Acts |-> Fresh]
  /\ left = MaxFaults

(* ---- the entries ---- *)

\* The link of a server that the configs define, before any connect.
Defined(d) ==
  CASE d.run = "broken" -> "failed"
    [] d.run # "broken" /\ d.disabled -> "disabled"
    [] d.run # "broken" /\ ~d.disabled /\ ~d.approved -> "unapproved"
    [] OTHER -> "pending"

Runs(d) == d # None /\ Defined(d) = "pending"

\* The keepers of entries ended: each runs at most to its next await.
Aborted(ks, gs) == [g \in DOMAIN ks |-> IF g \in gs THEN [ks[g] EXCEPT !.aborted = TRUE] ELSE ks[g]]

Keeper(s, d) == [name |-> s, run |-> d.run, at |-> "token", failures |-> 0, quiet |-> TRUE, held |-> 0, token |-> 0,
                 notice |-> FALSE, missed |-> FALSE, aborted |-> FALSE]

\* Some order of servers.
Order(ss) == CHOOSE f \in [ss -> 1 .. Cardinality(ss)] : \A s, t \in ss : f[s] = f[t] => s = t

\* The keepers that run once those of gens ended and one started for each entry of servers, each of the generation of its entry.
Started(ks, ended, es, ss) ==
  LET started == {es[s].gen : s \in ss}
      of(g)   == CHOOSE s \in ss : es[s].gen = g
  IN [g \in DOMAIN ks \cup started |-> IF g \in started THEN Keeper(of(g), es[of(g)].def) ELSE Aborted(ks, ended)[g]]

\* Entries that launch, each of the next generation.
Launching(es, gen, ss) ==
  [s \in Servers |-> IF s \in ss THEN [es[s] EXCEPT !.link = "pending", !.gen = gen + Order(ss)[s]] ELSE es[s]]

\* A form that leaves the keeper it had.
LaunchLeaving(h, s) ==
  LET es == Launching(h.entries, h.gens, {s})
  IN [entries |-> es, gens |-> h.gens + 1, keepers |-> Started(h.keepers, {}, es, {s})]

\* A keeper started for an entry, in place of the keeper it had.
Launch(h, s) ==
  LET es == Launching(h.entries, h.gens, {s})
  IN [entries |-> es, gens |-> h.gens + 1, keepers |-> Started(h.keepers, {h.entries[s].gen}, es, {s})]

\* What the configs defined as they were read, put in place, and the keepers of the entries that ended.
Replaced(h, read, ends) ==
  LET new(s) == IF read[s] = None THEN NoEntry ELSE [NoEntry EXCEPT !.def = read[s], !.link = Defined(read[s])]
      runs   == {s \in Servers : h.entries[s].def # read[s] /\ Runs(read[s])}
      put    == [s \in Servers |-> IF h.entries[s].def = read[s] THEN h.entries[s] ELSE new(s)]
      es     == Launching(put, h.gens, runs)
  IN [entries |-> es, gens |-> h.gens + Cardinality(runs), keepers |-> Started(h.keepers, {h.entries[s].gen : s \in ends}, es, runs)]

\* A form that leaves the keeper of an entry that ended.
ReloadedLeaving(h, read) == Replaced(h, read, {})

\* An entry of the same definition stays, and any other ends.
Reloaded(h, read) == Replaced(h, read, {s \in Servers : h.entries[s].def # read[s]})

Becomes(h) == entries' = h.entries /\ gens' = h.gens /\ keepers' = h.keepers
Hub == [entries |-> entries, gens |-> gens, keepers |-> keepers]

(* ---- the keeper of a server ---- *)

Own(g) == entries[keepers[g].name].gen = g /\ entries[keepers[g].name] # NoEntry

\* A form that changes the entry whatever its generation.
SetAny(g, link, offered) ==
  entries' = [entries EXCEPT ![keepers[g].name].link = IF @ = "none" THEN @ ELSE link, ![keepers[g].name].offered = offered]

\* A change of an entry is made while the keeper is of its generation.
Set(g, link, offered) ==
  entries' = IF Own(g) THEN [entries EXCEPT ![keepers[g].name].link = link, ![keepers[g].name].offered = offered] ELSE entries

\* A keeper that was ended, or whose entry changed generation, goes on no more.
Goes(g, k) ==
  keepers' = IF k.at = "over" \/ keepers[g].aborted \/ ~Own(g) THEN [x \in DOMAIN keepers \ {g} |-> keepers[x]]
             ELSE [keepers EXCEPT ![g] = k]

At(g, p) == g \in DOMAIN keepers /\ keepers[g].at = p
Offered(g) == entries[keepers[g].name].offered

\* The token of the connect, from the store; one near its end is refreshed first.
Tokens(g) ==
  /\ At(g, "token")
  /\ \E near \in IF keepers[g].run = "remote" /\ vault[keepers[g].name] # 0 THEN BOOLEAN ELSE {FALSE} :
       Goes(g, [keepers[g] EXCEPT !.held = IF near THEN vault[keepers[g].name] ELSE 0, !.token = vault[keepers[g].name],
                                  !.at = IF near THEN "refresh" ELSE "connect"])
  /\ UNCHANGED <<world, entries, loaded, gens, vault, acts, left>>

\* A refresh token serves once: the authorization server takes the one of the last login.
Refresh(s, held) ==
  IF held = valid[s].login THEN valid' = [valid EXCEPT ![s] = [login |-> @.login + 1, ended |-> FALSE]] ELSE UNCHANGED valid

Refreshes(g) ==
  /\ At(g, "refresh")
  /\ LET s == keepers[g].name
         ok == keepers[g].held = valid[s].login
     IN /\ Refresh(s, keepers[g].held)
        /\ Goes(g, [keepers[g] EXCEPT !.token = IF ok THEN keepers[g].held + 1 ELSE 0, !.at = IF ok THEN "store" ELSE "connect"])
  /\ UNCHANGED <<defs, open, lists, entries, loaded, gens, vault, acts, left>>

\* The store keeps the tokens, or they serve all the same.
Stores(g) ==
  /\ At(g, "store")
  /\ \/ vault' = [vault EXCEPT ![keepers[g].name] = keepers[g].token] /\ UNCHANGED left
     \/ Spend /\ UNCHANGED vault
  /\ Goes(g, [keepers[g] EXCEPT !.held = 0, !.at = "connect"])
  /\ UNCHANGED <<world, entries, loaded, gens, acts>>

Takes(one) == one.run # "remote" \/ (one.token = valid[one.name].login /\ ~valid[one.name].ended)

\* The server is connected, and its lists are read.
Connects(g) ==
  /\ At(g, "connect") /\ Takes(keepers[g])
  /\ Set(g, "connected", lists[keepers[g].name])
  /\ Goes(g, [keepers[g] EXCEPT !.at = "heed", !.failures = 0, !.missed = FALSE])
  /\ open' = IF Own(g) /\ ~keepers[g].aborted THEN open \cup {g} ELSE open
  /\ UNCHANGED <<defs, valid, lists, loaded, gens, vault, acts, left>>

\* The server asks for a login.
AsksLogin(g) ==
  /\ At(g, "connect") /\ ~Takes(keepers[g])
  /\ Set(g, "needs-auth", Offered(g)) /\ Goes(g, [keepers[g] EXCEPT !.at = "over"])
  /\ UNCHANGED <<world, loaded, gens, vault, acts, left>>

\* A connect that failed: the first gives up at once, and that of a connection that ended after the last retry.
Failed(g) ==
  LET k == keepers[g] IN
  CASE k.quiet                    -> Set(g, "failed", Offered(g)) /\ Goes(g, [k EXCEPT !.at = "over"])
    [] ~k.quiet /\ k.failures + 1 >= RETRIES -> Set(g, "failed", Offered(g)) /\ Goes(g, [k EXCEPT !.at = "over"])
    [] OTHER -> /\ Set(g, "again", Offered(g)) /\ Goes(g, [k EXCEPT !.at = "wait", !.failures = @ + 1])

Fails(g) == At(g, "connect") /\ Spend /\ Failed(g) /\ UNCHANGED <<world, loaded, gens, vault, acts>>

\* The wait before the next connect is over.
Waited(g) ==
  /\ At(g, "wait") /\ Goes(g, [keepers[g] EXCEPT !.at = "token"])
  /\ UNCHANGED <<world, entries, loaded, gens, vault, acts, left>>

\* A list that the server says has changed is read again. A read that fails, with the connection or by itself, late or with
\* an error for its answer, leaves what was offered, and no keeper reads it again before the server says so once more.
Relists(g) ==
  /\ At(g, "heed") /\ keepers[g].notice
  /\ \/ /\ g \in open /\ Takes(keepers[g]) /\ Set(g, entries[keepers[g].name].link, lists[keepers[g].name])
        /\ Goes(g, [keepers[g] EXCEPT !.notice = FALSE, !.missed = FALSE])
     \/ UNCHANGED entries /\ Goes(g, [keepers[g] EXCEPT !.notice = FALSE, !.missed = TRUE])
  /\ UNCHANGED <<world, loaded, gens, vault, acts, left>>

\* The connection ended: the keeper says why, and waits to connect again.
Ended(g) ==
  /\ At(g, "heed") /\ g \notin open /\ ~keepers[g].notice
  /\ Set(g, "again", Offered(g)) /\ Goes(g, [keepers[g] EXCEPT !.at = "wait", !.quiet = FALSE])
  /\ UNCHANGED <<world, loaded, gens, vault, acts, left>>

\* A keeper that was ended is gone at its await, and its connection with it, unless an act holds the session.
Gone(g) ==
  /\ g \in DOMAIN keepers /\ keepers[g].aborted /\ keepers' = [x \in DOMAIN keepers \ {g} |-> keepers[x]]
  /\ open' = IF \E a \in Acts : acts[a].session = g THEN open ELSE open \ {g}
  /\ UNCHANGED <<defs, valid, lists, entries, loaded, gens, vault, acts, left>>

KeeperSteps(g) ==
  Tokens(g) \/ Refreshes(g) \/ Stores(g) \/ Connects(g) \/ AsksLogin(g) \/ Waited(g) \/ Relists(g) \/ Ended(g) \/ Gone(g)

(* ---- the acts of the ear ---- *)

Task(a, p) == acts[a].at = p
To(a, r) == acts' = [acts EXCEPT ![a] = r]
Says(a) == To(a, [Fresh EXCEPT !.at = "done"])

\* An act is taken. A list of the servers and a choice read the configs, and any other act when nothing did yet.
Take(a, kind, s) ==
  /\ acts[a].at = "new"
  /\ To(a, [Fresh EXCEPT !.kind = kind, !.name = s,
            !.at = IF kind = "servers" \/ ~loaded THEN "read" ELSE IF kind = "call" THEN "settle" ELSE "control"])
  /\ UNCHANGED <<hub, world, loaded, vault, left>>

\* The configs are read outside the lock, and put in place under it.
Read(a) ==
  /\ Task(a, "read") /\ loaded' = TRUE /\ To(a, [acts[a] EXCEPT !.seen = defs, !.at = "apply"])
  /\ UNCHANGED <<hub, world, vault, left>>

Pending(names) == \E s \in names : entries[s].link = "pending"

\* A list that finds no server pending is answered at once, and any other reads the configs again as its task starts.
Apply(a) ==
  /\ Task(a, "apply") /\ Becomes(Reloaded(Hub, acts[a].seen))
  /\ To(a, [acts[a] EXCEPT !.seen = "none",
            !.at = CASE acts[a].kind = "call" \/ acts[a].tried -> "settle"
                     [] acts[a].kind = "servers" /\ ~acts[a].tried -> IF Pending(Servers)' THEN "read" ELSE "settle"
                     [] OTHER -> "control",
            !.tried = @ \/ acts[a].kind = "servers"])
  /\ UNCHANGED <<world, loaded, vault, left>>

Names(a) == IF acts[a].kind = "servers" THEN Servers ELSE {acts[a].name}

\* A task waits until no server that it names is pending, or until the bound passed.
Settled(a) == ~Pending(Names(a))

\* The session of a server, once it settled, or why it has none; a list and a control end here.
Settle(a) ==
  /\ Task(a, "settle")
  /\ \/ Settled(a) /\ UNCHANGED left
     \/ ~Settled(a) /\ Spend
  /\ LET e == entries[acts[a].name] IN
     CASE acts[a].kind # "call" -> Says(a)
       [] acts[a].kind = "call" /\ e.link = "connected" ->
            To(a, [acts[a] EXCEPT !.at = "ask", !.session = e.gen, !.run = e.def.run, !.token = keepers[e.gen].token])
       [] OTHER -> Says(a)
  /\ UNCHANGED <<hub, world, loaded, vault>>

\* The request of a call: an answer, a failure of its connection, or a 401, after which the tokens are renewed once.
Answer(a) ==
  /\ Task(a, "ask")
  /\ LET c == acts[a] IN
     CASE c.session \notin open -> Says(a)
       [] c.session \in open /\ Takes(c) -> Says(a)
       [] c.session \in open /\ ~Takes(c) /\ ~c.tried ->
            To(a, [c EXCEPT !.tried = TRUE, !.held = vault[c.name], !.session = 0, !.token = 0, !.at = "renew"])
       [] OTHER -> Says(a)
  /\ UNCHANGED <<hub, world, loaded, vault, left>>

\* The link of a server changed, whatever the generation of its keeper.
Relinked(a, link) ==
  /\ entries' = [entries EXCEPT ![acts[a].name].link = IF @ = "none" THEN @ ELSE link]
  /\ Says(a)

\* The tokens are refreshed, or the server needs a login.
Renew(a) ==
  /\ Task(a, "renew")
  /\ LET c == acts[a] IN
     /\ Refresh(c.name, c.held)
     /\ IF c.held = valid[c.name].login THEN To(a, [c EXCEPT !.held = @ + 1, !.at = "keep"]) /\ UNCHANGED entries
        ELSE Relinked(a, "needs-auth")
  /\ UNCHANGED <<defs, open, lists, gens, keepers, loaded, vault, left>>

\* The tokens are kept, and the server connects again, when it may run.
Keep(a) ==
  /\ Task(a, "keep")
  /\ LET c == acts[a] IN
     \/ /\ vault' = [vault EXCEPT ![c.name] = c.held] /\ UNCHANGED left
        /\ IF Runs(entries[c.name].def) THEN Becomes(Launch(Hub, c.name)) /\ To(a, [c EXCEPT !.held = 0, !.at = "settle"])
           ELSE Says(a) /\ UNCHANGED hub
     \/ Spend /\ Relinked(a, "failed") /\ UNCHANGED <<vault, gens, keepers>>
  /\ UNCHANGED <<world, loaded>>

\* A control: a choice is written to the configs, which are read again; a login or a logout changes the tokens; and the
\* server connects again, when it may run.
Control(a) ==
  /\ Task(a, "control") /\ UNCHANGED <<open, lists, loaded, left>>
  /\ LET c == acts[a]
         e == entries[c.name]
     IN IF e = NoEntry THEN Says(a) /\ UNCHANGED <<hub, defs, vault, valid>>
        ELSE CASE c.kind \in {"enable", "disable", "approve"} ->
                    /\ defs' = [defs EXCEPT ![c.name] = IF @ = None THEN @ ELSE
                         CASE c.kind = "enable" -> [@ EXCEPT !.disabled = FALSE]
                           [] c.kind = "disable" -> [@ EXCEPT !.disabled = TRUE]
                           [] OTHER -> [@ EXCEPT !.approved = TRUE]]
                    /\ To(a, [c EXCEPT !.tried = TRUE, !.at = "read"]) /\ UNCHANGED <<hub, vault, valid>>
               [] c.kind \in {"login", "logout"} /\ e.def.run # "remote" ->
                    Says(a) /\ UNCHANGED <<hub, defs, vault, valid>>
               [] OTHER ->
                    /\ CASE c.kind = "login"  -> Refresh(c.name, valid[c.name].login) /\ vault' = [vault EXCEPT ![c.name] = valid[c.name].login + 1]
                         [] c.kind = "logout" -> vault' = [vault EXCEPT ![c.name] = 0] /\ UNCHANGED valid
                         [] OTHER             -> UNCHANGED <<vault, valid>>
                    /\ IF Runs(e.def) THEN Becomes(Launch(Hub, c.name)) /\ To(a, [c EXCEPT !.at = "settle", !.tried = TRUE])
                       ELSE Says(a) /\ UNCHANGED hub
                    /\ UNCHANGED defs

\* A control of the engine ends an act first: its task is gone, at whatever await it stands.
Cancel(a) ==
  /\ acts[a].at \notin {"new", "read", "apply", "done"} /\ Says(a) /\ UNCHANGED <<hub, world, loaded, vault, left>>

TaskSteps(a) == Read(a) \/ Apply(a) \/ Settle(a) \/ Answer(a) \/ Renew(a) \/ Keep(a) \/ Control(a)

(* ---- outside ---- *)

Close(g) ==
  /\ g \in open /\ Spend /\ open' = open \ {g}
  /\ acts' = [a \in Acts |-> IF acts[a].session = g THEN [acts[a] EXCEPT !.session = 0] ELSE acts[a]]
  /\ UNCHANGED <<defs, valid, lists, hub, loaded, vault>>

\* An access token ends before its time: the server takes it no more, and its refresh token serves.
End(s) ==
  /\ ~valid[s].ended /\ Spend /\ valid' = [valid EXCEPT ![s].ended = TRUE]
  /\ UNCHANGED <<defs, open, lists, hub, loaded, vault, acts>>

Lists(s) ==
  /\ Spend /\ lists' = [lists EXCEPT ![s] = @ + 1]
  /\ keepers' = [g \in DOMAIN keepers |-> IF g \in open /\ keepers[g].name = s THEN [keepers[g] EXCEPT !.notice = TRUE] ELSE keepers[g]]
  /\ UNCHANGED <<defs, open, valid, entries, gens, loaded, vault, acts>>

Edit(s, d) ==
  /\ d # defs[s] /\ Spend /\ defs' = [defs EXCEPT ![s] = d]
  /\ UNCHANGED <<open, valid, lists, hub, loaded, vault, acts>>

Next ==
  \/ \E g \in 1 .. gens : KeeperSteps(g) \/ Fails(g) \/ Close(g)
  \/ \E a \in Acts : TaskSteps(a) \/ Cancel(a) \/ \E k \in Kinds, s \in Servers : Take(a, k, s)
  \/ \E s \in Servers : End(s) \/ Lists(s) \/ \E d \in Defs \cup {None} : Edit(s, d)

Fairness == WF_vars((\E g \in 1 .. gens : KeeperSteps(g)) \/ \E a \in Acts : TaskSteps(a))

Spec == Init /\ [][Next]_vars /\ Fairness
-----------------------------------------------------------------------------
TypeOK ==
  /\ DOMAIN keepers \cup open \subseteq 1 .. gens
  /\ \A s \in Servers : entries[s].link \in {"none", "pending", "connected", "failed", "again", "needs-auth", "disabled", "unapproved"}

Live == {g \in DOMAIN keepers : ~keepers[g].aborted}

\* A server that runs has one keeper at most, of the generation of its entry, and one that the configs of the life
\* disabled, that waits for approval, that is broken or that is gone has none (launch, reload, Entry::drop).
OneKeeper == \A g \in Live : Own(g) /\ Runs(entries[keepers[g].name].def)

\* The link of a server that waits for its keeper is true: a server that connects or is to connect again has a keeper that
\* will, and a connected one has a keeper that heeds it (keep, set).
LinkIsTrue ==
  \A s \in Servers : LET e == entries[s] IN
    /\ e.link \in {"pending", "again", "connected"} => e.gen \in Live
    /\ e.link = "pending"   => keepers[e.gen].at \in {"token", "refresh", "store", "connect"}
    /\ e.link = "again"     => keepers[e.gen].at \notin {"heed", "over"}
    /\ e.link = "connected" => keepers[e.gen].at = "heed"

\* What a connected server offers is what it offers now, unless a list that it told is yet to be read or its read failed,
\* its connection ended, or its token did (heeded, relisted).
OffersHold ==
  \A s \in Servers : LET e == entries[s] IN
    e.link = "connected" /\ e.gen \in open /\ ~keepers[e.gen].notice /\ ~keepers[e.gen].missed /\ Takes(keepers[e.gen]) =>
      e.offered = lists[s]

ServersHold == OneKeeper /\ LinkIsTrue /\ OffersHold

\* A server whose keeper is connected with a token that the server takes is connected for the acts too (renewed,
\* relinked).
RelinkedIsDown ==
  \A g \in Live : keepers[g].at = "heed" /\ g \in open /\ Takes(keepers[g]) => entries[keepers[g].name].link = "connected"

\* Once no act of the ear is under way, and the configs change by its controls alone, the servers of the life are those
\* that the configs define (reload).
ConfigsHold == loaded /\ (\A a \in Acts : acts[a].at \in {"new", "done"}) => \A s \in Servers : entries[s].def = defs[s]

\* Each act that the ear takes comes to an end (settled, request).
AtRest == \A a \in Acts : acts[a].at \in {"new", "done"}
ActsEnd == <>[]AtRest
=============================================================================
