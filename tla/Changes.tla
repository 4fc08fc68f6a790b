------------------------------ MODULE Changes ------------------------------
(***************************************************************************)
(* The journal of the file changes of a life (host/src/changes.rs): an ear  *)
(* of the life keeps what each write replaces until the write is done, then *)
(* says the change to a task, which appends each to the disk in order. The  *)
(* life tells its end once a flush told what the disk lost (life.rs).       *)
(***************************************************************************)
EXTENDS Integers, Sequences, SequencesExt, Listing

CONSTANTS MaxWrites  \* bound: writes that the life begins, each a number

VARIABLES
  writes,   \* how each write stands: it goes on, it landed, it did not, or its path is of a door
  before,   \* the writes of this birth whose text before the ear holds
  lines,    \* Line: the changes, and the flush, that the task did not take yet
  disk,     \* the changes in the journal on the disk
  lost,     \* lost of written: the changes that the disk took not since the last flush
  reported, \* what the task told the life and the log lacks: a change, or a lost one by its negative
  log,      \* the events of the life: changed, the notices of lost writes, and the end
  ended     \* the end of the life: not yet, flushing, flushed with what was lost, told

changeVars == <<writes, before, lines, disk, lost, reported, log, ended>>

FLUSH  == 0
END    == "end"
Writes == DOMAIN writes

TypeOK ==
  /\ writes \in Seq({"on", "landed", "not", "door"}) /\ before \subseteq Writes
  /\ lines \in Seq(Writes \cup {FLUSH}) /\ disk \in Seq(Writes) /\ lost \subseteq Writes
  /\ reported \in Seq(Writes \cup {-n : n \in Writes})
  /\ \A k \in DOMAIN log : log[k].is \in {"changed", "notice", END}
  /\ ended \in [at : {"no", "asked", "flushed", "told"}, lost : SUBSET Writes]

Init ==
  /\ writes = <<>> /\ before = {} /\ lines = <<>> /\ disk = <<>> /\ lost = {} /\ reported = <<>>
  /\ log = <<>> /\ ended = [at |-> "no", lost |-> {}]

-----------------------------------------------------------------------------
(* The ear, on the thread of the life.                                      *)

\* A write begins: the ear keeps what its file holds, but for a path of a door.
Begin(door) ==
  /\ ended.at = "no" /\ Len(writes) < MaxWrites
  /\ IF door THEN writes' = Append(writes, "door") /\ UNCHANGED before
             ELSE writes' = Append(writes, "on") /\ before' = before \cup {Len(writes')}
  /\ UNCHANGED <<lines, disk, lost, reported, log, ended>>

\* A write is done: a text that landed is a change, which the task takes in its turn.
Done(w, as) ==
  /\ ended.at = "no" /\ writes[w] = "on" /\ writes' = [writes EXCEPT ![w] = as]
  /\ before' = before \ {w} /\ lines' = IF w \in before /\ as = "landed" THEN Append(lines, w) ELSE lines
  /\ UNCHANGED <<disk, lost, reported, log, ended>>

\* A birth has an ear of its own, and cuts what goes on.
Reborn ==
  /\ ended.at = "no" /\ before # {} /\ before' = {}
  /\ writes' = [w \in Writes |-> IF writes[w] = "on" THEN "not" ELSE writes[w]]
  /\ UNCHANGED <<lines, disk, lost, reported, log, ended>>

-----------------------------------------------------------------------------
(* The task of the journal.                                                 *)

Change == lines # <<>> /\ Head(lines) # FLUSH /\ lines' = Tail(lines)

\* The chain hears that its changes changed once the change is on the disk.
Appended ==
  /\ Change /\ disk' = Append(disk, Head(lines)) /\ reported' = Append(reported, Head(lines))
  /\ UNCHANGED <<writes, before, lost, log, ended>>

LastLost == {Head(lines)}
EachLost == lost \cup {Head(lines)}

Lose ==
  /\ Change /\ lost' = EachLost /\ reported' = Append(reported, -Head(lines))
  /\ UNCHANGED <<writes, before, disk, log, ended>>

Flush ==
  /\ lines # <<>> /\ Head(lines) = FLUSH /\ lines' = Tail(lines) /\ lost' = {}
  /\ ended' = [at |-> "flushed", lost |-> lost]
  /\ UNCHANGED <<writes, before, disk, reported, log>>

-----------------------------------------------------------------------------
(* The end of the life.                                                     *)

\* The lost writes of what the task told, in its order.
Places == Listed({n \in DOMAIN reported : reported[n] < 0})
Noted  == [k \in DOMAIN Places |-> reported[Places[k]]]
News  == {one \in Range(reported) : one > 0}

\* Each notice that the life was told, and after the last of them that its chain changed, once.
Events ==
  [k \in DOMAIN Noted |-> [is |-> "notice", writes |-> {-Noted[k]}]]
    \o (IF News = {} THEN <<>> ELSE <<[is |-> "changed", writes |-> News]>>)

\* The life puts what it was told in the log.
Told ==
  /\ ended.at = "no" /\ reported # <<>> /\ log' = log \o Events
  /\ reported' = <<>> /\ UNCHANGED <<writes, before, lines, disk, lost, ended>>

EndUnflushed == lines' = lines /\ ended' = [at |-> "flushed", lost |-> {}]
EndFlushes   == lines' = Append(lines, FLUSH) /\ ended' = [ended EXCEPT !.at = "asked"]

EndLife ==
  /\ ended.at = "no" /\ EndFlushes
  /\ before' = {} /\ UNCHANGED <<writes, disk, lost, reported, log>>

EndTold ==
  /\ ended.at = "flushed" /\ ended' = [ended EXCEPT !.at = "told"]
  /\ log' = log \o Events \o <<[is |-> END, lost |-> ended.lost]>>
  /\ reported' = <<>> /\ UNCHANGED <<writes, before, lines, disk, lost>>

Next ==
  \/ \E door \in BOOLEAN : Begin(door)
  \/ \E w \in Writes, as \in {"landed", "not"} : Done(w, as)
  \/ Reborn \/ Appended \/ Lose \/ Flush \/ Told \/ EndLife \/ EndTold

Spec == Init /\ [][Next]_changeVars

-----------------------------------------------------------------------------
(* Properties.                                                              *)

\* A client that hears the end of a life finds in the journal each change that the life said, once,
\* but for those that the end tells as lost.
EndFindsTheJournal ==
  /\ IsInjective(disk)
  /\ ended.at = "told" =>
       \A w \in Writes : writes[w] = "landed" => w \in Range(disk) \cup Last(log).lost

\* A window that hears of a change finds it in the journal, and hears each before it hears the end.
ChangedIsOnDisk ==
  LET heard == UNION {log[k].writes : k \in {n \in DOMAIN log : log[n].is = "changed"}} IN
  /\ heard \subseteq Range(disk)
  /\ ended.at = "told" => Range(disk) \subseteq heard /\ Last(log).is = END
=============================================================================
