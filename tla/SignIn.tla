------------------------------- MODULE SignIn -------------------------------
(***************************************************************************)
(* The sign-in of a subscription (world/provider/codex/auth.rs): the host   *)
(* begins it and may cancel it, a task of it waits for the browser, trades  *)
(* its code for a credential, keeps that and lists the models of the        *)
(* account, and each call of a model renews the credential when it has      *)
(* expired, one at a time over the lock of a file. A renewal may use up the *)
(* refresh credential that it sends.                                        *)
(***************************************************************************)
EXTENDS Naturals, Sequences, FiniteSets

CONSTANTS Accounts,    \* the accounts that a browser signs in to
          MaxSignIns, MaxCalls, MaxExpiries, MaxFaults  \* bounds

VARIABLES
  flow,      \* the state of the sign-in that the host sees, and the task that it is of
  tasks,     \* the sign-ins and the calls of models, and where each is
  begins,    \* the calls of begin that read the flow and did not set one yet
  port,      \* the task that waits on the port of the callback
  file,      \* the credential on the disk
  catalog,   \* the account whose models are on the disk, and whether the list is fresh
  lock,      \* the task that holds the lock of the file
  live,      \* the refresh credentials that the server takes
  lost,      \* those whose renewal the server took and no task kept
  issued,    \* how many it issued
  expiries, faults

signVars == <<flow, tasks, begins, port, file, catalog, lock, live, lost, issued, expiries, faults>>

Tasks == 1 .. Len(tasks)
None == 0
NoCredential == [account |-> "", refresh |-> None, fresh |-> FALSE]
Signs == {t \in Tasks : tasks[t].sign}
Running == {"waiting", "connecting"}

Init ==
  /\ flow = [status |-> "disconnected", of |-> None] /\ tasks = <<>> /\ begins = <<>> /\ port = None
  /\ file \in {NoCredential} \cup {[account |-> a, refresh |-> 1, fresh |-> FALSE] : a \in Accounts}
  /\ catalog = [account |-> file.account, fresh |-> FALSE]
  /\ lock = None /\ live = {1} /\ lost = {} /\ issued = 1 /\ expiries = 0 /\ faults = 0

\* The credential serves now, or a refresh can renew it.
Usable == file.account # "" /\ (file.fresh \/ file.refresh # None)
Connected == Usable /\ catalog.account = file.account
Status == IF flow.status \notin {"disconnected", "connected"} THEN flow.status
          ELSE IF Connected THEN "connected" ELSE "disconnected"

At(t, step) == t \in Tasks /\ tasks[t].step = step
Goes(t, step) == tasks' = [tasks EXCEPT ![t].step = step]
Task(sign, step) == [sign |-> sign, step |-> step, canceled |-> FALSE, held |-> NoCredential, end |-> ""]

-----------------------------------------------------------------------------
(* The host.                                                                *)

\* Begin reads the flow first; a sign-in that runs is the answer.
BeginReads ==
  /\ Cardinality(Signs) + Len(begins) < MaxSignIns /\ flow.status \notin Running
  /\ begins' = Append(begins, flow.status = "needs-login")
  /\ UNCHANGED <<flow, tasks, port, file, catalog, lock, live, lost, issued, expiries, faults>>

\* Then it connects with the credential that serves, or opens a page while no other task holds the port.
BeginSets ==
  /\ begins # <<>> /\ begins' = Tail(begins)
  /\ LET retry == Head(begins)
         new   == Len(tasks) + 1 IN
     IF ~retry /\ Usable
     THEN /\ tasks' = Append(tasks, Task(TRUE, "reads")) /\ flow' = [status |-> "connecting", of |-> new]
          /\ UNCHANGED port
     ELSE IF port = None
     THEN /\ tasks' = Append(tasks, Task(TRUE, "callback")) /\ flow' = [status |-> "waiting", of |-> new]
          /\ port' = new
     ELSE UNCHANGED <<tasks, flow, port>>
  /\ UNCHANGED <<file, catalog, lock, live, lost, issued, expiries, faults>>

\* A list that is old, or a sign-in that failed, is begun again without a browser.
Refresh ==
  /\ Status \notin Running \cup {"needs-login"} /\ Usable
  /\ ~(catalog.account = file.account /\ catalog.fresh) \/ Status = "failed"
  /\ BeginReads

\* A form that shows no end of the sign-in that it cancels.
CancelSilently ==
  /\ flow.status \in Running
  /\ tasks' = [tasks EXCEPT ![flow.of].canceled = TRUE]
  /\ UNCHANGED <<flow, begins, port, file, catalog, lock, live, lost, issued, expiries, faults>>

Cancel ==
  /\ flow.status \in Running
  /\ tasks' = [tasks EXCEPT ![flow.of].canceled = TRUE] /\ flow' = [flow EXCEPT !.status = "canceled"]
  /\ UNCHANGED <<begins, port, file, catalog, lock, live, lost, issued, expiries, faults>>

\* A call of a model asks for the credential.
Call ==
  /\ Cardinality(Tasks \ Signs) < MaxCalls /\ tasks' = Append(tasks, Task(FALSE, "reads"))
  /\ UNCHANGED <<flow, begins, port, file, catalog, lock, live, lost, issued, expiries, faults>>

Expire ==
  /\ expiries < MaxExpiries /\ expiries' = expiries + 1 /\ file.fresh /\ file' = [file EXCEPT !.fresh = FALSE]
  /\ catalog' = [catalog EXCEPT !.fresh = FALSE]
  /\ UNCHANGED <<flow, tasks, begins, port, lock, live, lost, issued, faults>>

-----------------------------------------------------------------------------
(* A task.                                                                  *)

\* A sign-in that must be made again says so, unless one runs.
NeedsLogin == IF flow.status \in Running THEN flow ELSE [status |-> "needs-login", of |-> None]

\* A task that failed: the sign-in has its end to set, and a call whose credential was refused asks for a sign-in.
Fails(t, login) ==
  IF tasks[t].sign
  THEN /\ tasks' = [tasks EXCEPT ![t].step = "ends", ![t].end = IF login THEN "needs-login" ELSE "failed"] /\ UNCHANGED flow
  ELSE Goes(t, "over") /\ flow' = IF login THEN NeedsLogin ELSE flow

Serves(t, held) == tasks' = [tasks EXCEPT ![t].held = held, ![t].step = IF tasks[t].sign THEN "lists" ELSE "asks"]

\* The browser gives the code back, on the port that is free again; or it refuses, the sign-in is canceled, or its
\* time is over. A request that is no answer of this sign-in is waited past.
Callback(t) ==
  /\ At(t, "callback") /\ port' = None
  /\ \/ ~tasks[t].canceled /\ Goes(t, "trades") /\ UNCHANGED flow
     \/ Fails(t, FALSE)
  /\ UNCHANGED <<begins, file, catalog, lock, live, lost, issued, expiries, faults>>

\* The code traded for a credential of the account of the browser, which a sign-in that was canceled does not keep.
Trade(t) ==
  /\ At(t, "trades")
  /\ \/ \E account \in Accounts :
          /\ issued' = issued + 1 /\ live' = live \cup {issued + 1} /\ UNCHANGED <<lost, faults>>
          /\ IF tasks[t].canceled THEN Fails(t, FALSE)
             ELSE /\ tasks' = [tasks EXCEPT ![t].step = "keeps",
                                            ![t].held = [account |-> account, refresh |-> issued + 1, fresh |-> TRUE]]
                  /\ UNCHANGED flow
     \/ /\ faults < MaxFaults /\ faults' = faults + 1 /\ (\E login \in BOOLEAN : Fails(t, login))
        /\ UNCHANGED <<live, lost, issued>>
  /\ UNCHANGED <<begins, port, file, catalog, lock, expiries>>

\* The credential written whole, or not at all; a renewal gives up the lock with it, and a sign-in takes none.
Keep(t) ==
  /\ At(t, "keeps") /\ lock' = (IF lock = t THEN None ELSE lock)
  /\ \/ file' = tasks[t].held /\ Serves(t, tasks[t].held) /\ UNCHANGED <<flow, lost, faults>>
     \/ /\ faults < MaxFaults /\ faults' = faults + 1 /\ Fails(t, FALSE) /\ UNCHANGED file
        /\ lost' = (IF lock = t THEN lost \cup ({file.refresh} \ live) ELSE lost)
  /\ UNCHANGED <<begins, port, catalog, live, issued, expiries>>

\* The credential as the disk holds it, when it has not expired.
Read(t) ==
  /\ At(t, "reads")
  /\ IF file.account = "" THEN Fails(t, FALSE)
     ELSE UNCHANGED flow /\ IF file.fresh THEN Serves(t, file) ELSE tasks' = [tasks EXCEPT ![t].step = "locks", ![t].held = file]
  /\ UNCHANGED <<begins, port, file, catalog, lock, live, lost, issued, expiries, faults>>

Lock(t) ==
  /\ At(t, "locks") /\ lock = None /\ lock' = t /\ Goes(t, "rereads")
  /\ UNCHANGED <<flow, begins, port, file, catalog, live, lost, issued, expiries, faults>>

\* A form that sends what it read before the lock.
RereadNothing(t) ==
  /\ At(t, "rereads") /\ Goes(t, "renews")
  /\ UNCHANGED <<flow, begins, port, file, catalog, lock, live, lost, issued, expiries, faults>>

\* The credential read again under the lock: another task may have renewed it.
Reread(t) ==
  /\ At(t, "rereads")
  /\ IF file.fresh THEN lock' = None /\ Serves(t, file) /\ UNCHANGED flow
     ELSE IF file.refresh = None THEN lock' = None /\ Fails(t, FALSE)
     ELSE /\ tasks' = [tasks EXCEPT ![t].step = "renews", ![t].held = file] /\ UNCHANGED <<flow, lock>>
  /\ UNCHANGED <<begins, port, file, catalog, live, lost, issued, expiries, faults>>

\* The server renews a refresh credential that it takes, and may give another in its place; it refuses one that it
\* does not take; and the request may fail, before or after the server took it.
Renew(t) ==
  LET held == tasks[t].held IN
  /\ At(t, "renews")
  /\ \/ /\ held.refresh \in live /\ UNCHANGED <<flow, lock, lost, faults>>
        /\ \E rotates \in BOOLEAN :
             LET refresh == IF rotates THEN issued + 1 ELSE held.refresh IN
             /\ tasks' = [tasks EXCEPT ![t].step = "keeps", ![t].held = [held EXCEPT !.refresh = refresh, !.fresh = TRUE]]
             /\ live' = (live \ {held.refresh}) \cup {refresh} /\ issued' = (IF rotates THEN issued + 1 ELSE issued)
     \/ held.refresh \notin live /\ lock' = None /\ Fails(t, TRUE) /\ UNCHANGED <<live, lost, issued, faults>>
     \/ /\ faults < MaxFaults /\ faults' = faults + 1 /\ lock' = None /\ Fails(t, FALSE) /\ UNCHANGED issued
        /\ \/ UNCHANGED <<live, lost>>
           \/ live' = live \ {held.refresh} /\ lost' = lost \cup {held.refresh}
  /\ UNCHANGED <<begins, port, file, catalog, expiries>>

\* The models of the account, listed and kept; an account that is refused must sign in again.
List(t) ==
  /\ At(t, "lists")
  /\ \/ /\ catalog' = [account |-> tasks[t].held.account, fresh |-> TRUE] /\ UNCHANGED <<flow, faults>>
        /\ tasks' = [tasks EXCEPT ![t].step = "ends", ![t].end = "connected"]
     \/ faults < MaxFaults /\ faults' = faults + 1 /\ (\E login \in BOOLEAN : Fails(t, login)) /\ UNCHANGED catalog
  /\ UNCHANGED <<begins, port, file, lock, live, lost, issued, expiries>>

\* A sign-in that ended reads whether it was canceled, then sets the state of the flow that stands.
EndReads(t) ==
  /\ At(t, "ends") /\ Goes(t, IF tasks[t].canceled THEN "over" ELSE "updates")
  /\ UNCHANGED <<flow, begins, port, file, catalog, lock, live, lost, issued, expiries, faults>>
Update(t) ==
  /\ At(t, "updates") /\ Goes(t, "over") /\ flow' = [flow EXCEPT !.status = tasks[t].end]
  /\ UNCHANGED <<begins, port, file, catalog, lock, live, lost, issued, expiries, faults>>

\* A call of the model on a credential; one that is refused asks for a sign-in.
Asked(t) ==
  /\ At(t, "asks") /\ Goes(t, "over")
  /\ \/ UNCHANGED <<flow, faults>>
     \/ faults < MaxFaults /\ faults' = faults + 1 /\ flow' = NeedsLogin
  /\ UNCHANGED <<begins, port, file, catalog, lock, live, lost, issued, expiries>>

Works(t) ==
  \/ Callback(t) \/ Trade(t) \/ Keep(t) \/ Read(t) \/ Lock(t) \/ Reread(t) \/ Renew(t) \/ List(t)
  \/ EndReads(t) \/ Update(t) \/ Asked(t)

Next == BeginReads \/ BeginSets \/ Refresh \/ Cancel \/ Call \/ Expire \/ \E t \in Tasks : Works(t)
Spec == Init /\ [][Next]_signVars

-----------------------------------------------------------------------------
TypeOK ==
  /\ flow.of \in 0 .. Len(tasks) /\ port \in 0 .. Len(tasks) /\ lock \in 0 .. Len(tasks)
  /\ live \subseteq 1 .. issued /\ lost \subseteq 1 .. issued /\ file.account \in Accounts \cup {""}

\* A refresh credential that another renewal used up is never sent again, but for one whose renewal was lost (credential).
RefreshedOnce == \A t \in Tasks : At(t, "renews") => tasks[t].held.refresh \in live \cup lost

\* What the disk holds serves or can be renewed, but while the renewal of it is about to be kept and once that was lost,
\* however sign-ins, which keep a credential under no lock, come between (credential, signed).
FileServes == file.refresh # None => file.refresh \in live \cup lost \/ (lock # None /\ At(lock, "keeps"))

\* A flow that runs has a task that goes on to end it (begin, update, cancel).
FlowsEnd == flow.status \in Running => flow.of \in Signs /\ tasks[flow.of].step # "over" /\ ~tasks[flow.of].canceled

SignInHolds == RefreshedOnce /\ FileServes /\ FlowsEnd
=============================================================================
