------------------------------- MODULE Store -------------------------------
(***************************************************************************)
(* The record of a life: the file of lines that holds it (store/lines.rs)  *)
(* and the ear that keeps in it what the journal says to keep (store.rs).  *)
(* The process can die at any point, also in the middle of a write, and    *)
(* the machine can lose its power, which takes what no sync made durable.  *)
(* An entry is a number: the n-th that was ever said.                      *)
(***************************************************************************)
EXTENDS Naturals, Sequences, SequencesExt

CONSTANTS MaxEntries,   \* bound: entries ever said
          MaxFails,     \* bound: writes that fail
          MaxUnsynced,  \* bound: syncs that fail
          MaxUntold,    \* bound: messages to the operator that do not go
          MaxCrashes,   \* bound: deaths of the process
          MaxLosses     \* bound: losses of power

ASSUME StoreAssumption ==
  /\ MaxEntries \in Nat \ {0}
  /\ {MaxFails, MaxUnsynced, MaxUntold, MaxCrashes, MaxLosses} \subseteq Nat

Entries == 1..MaxEntries

\* How a line stands in the file: whole with its end of line, whole without it, or torn.
Forms == {"ended", "unended", "part"}

Line(e, form) == [entry |-> e, form |-> form]

Lines == [entry : Entries, form : Forms]

VARIABLES
  file,      \* the lines of the file, as every process sees them
  disk,      \* the lines of the file as the last sync left them
  up,        \* whether a life holds the record
  whole,     \* Lines.whole: how many lines the store knows whole
  torn,      \* Lines.torn: a part of a line can stand after them
  unended,   \* Lines.unended: the last whole line has no end of line
  unsynced,  \* Lines.unsynced: the store wrote a line since its last sync
  waiting,   \* Held.waiting: the entries that no keep took yet
  fault,     \* Held.fault: whether the store holds a fault
  told,      \* what the ear told the operator last
  again,     \* whether the timer of a new try runs
  free,      \* the free bytes of the disk: under LOW, over it, over twice it
  running,   \* whether a run of the sandbox goes on, whose end syncs the store
  said,      \* how many entries were ever said
  journal,   \* ghost: the record at the open, then each entry said since
  opened,    \* ghost: how many entries the record held at the open
  promised,  \* ghost: the entries that the last good sync of a life answers for
  fails, badsyncs, untold, crashes, losses  \* the faults of the world so far

lines  == <<file, whole, torn, unended, unsynced>>
ear    == <<told, again, untold>>
ghosts == <<opened, promised>>
vars   == <<file, disk, up, whole, torn, unended, unsynced, waiting, fault, told, again, free,
            running, said, journal, opened, promised, fails, badsyncs, untold, crashes, losses>>

EntriesOf(f) == [i \in DOMAIN f |-> f[i].entry]

\* The lines that a reader takes: a torn last line is no entry.
Readable(f) == IF f # <<>> /\ f[Len(f)].form = "part" THEN SubSeq(f, 1, Len(f) - 1) ELSE f
Read(f) == EntriesOf(Readable(f))

\* A read gives the entries, and not the refusal StoreError::Invalid.
Reads(f) == \A i \in 1 .. Len(f) - 1 : f[i].form = "ended"

TypeOK ==
  /\ file \in Seq(Lines) /\ disk \in Seq(Lines)
  /\ up \in BOOLEAN /\ whole \in 0 .. Len(file)
  /\ torn \in BOOLEAN /\ unended \in BOOLEAN /\ unsynced \in BOOLEAN
  /\ waiting \in Seq(Entries) /\ fault \in BOOLEAN
  /\ told \in {"Room", "Low", "Stopped"} /\ again \in BOOLEAN
  /\ free \in {"low", "some", "high"} /\ running \in BOOLEAN
  /\ said \in 0 .. MaxEntries /\ journal \in Seq(Entries) /\ promised \in Seq(Entries)
  /\ opened \in 0 .. Len(journal)
  /\ fails \in 0 .. MaxFails /\ badsyncs \in 0 .. MaxUnsynced /\ untold \in 0 .. MaxUntold
  /\ crashes \in 0 .. MaxCrashes /\ losses \in 0 .. MaxLosses

Init ==
  /\ file = <<>> /\ disk = <<>> /\ up = FALSE
  /\ whole = 0 /\ torn = FALSE /\ unended = FALSE /\ unsynced = FALSE
  /\ waiting = <<>> /\ fault = FALSE /\ told = "Room" /\ again = FALSE
  /\ free = "some" /\ running = FALSE
  /\ said = 0 /\ journal = <<>> /\ opened = 0 /\ promised = <<>>
  /\ fails = 0 /\ badsyncs = 0 /\ untold = 0 /\ crashes = 0 /\ losses = 0

-----------------------------------------------------------------------------
(* Lines::keep, on the state of the file and of the store.                  *)

Now == [file |-> file, whole |-> whole, torn |-> torn, unended |-> unended, unsynced |-> unsynced]

\* Mutants of the definitions below, as plausible bugs would have them.
CutNever(w) == w.file

\* The file without the part of a line that a failed write can have left.
Cut(w) ==
  IF ~w.torn THEN w.file
  ELSE [i \in 1 .. w.whole |-> IF i = w.whole /\ w.unended THEN Line(w.file[i].entry, "unended")
                               ELSE w.file[i]]

\* The file once the end of line that an unended last line misses is written.
Mended(w) ==
  [i \in DOMAIN Cut(w) |-> IF i = Len(Cut(w)) THEN Line(Cut(w)[i].entry, "ended") ELSE Cut(w)[i]]

KeptTwice(w, es) ==
  IF es = <<>> THEN w
  ELSE [file |-> Mended(w) \o [i \in DOMAIN es |-> Line(es[i], "ended")],
        whole |-> w.whole + Len(es) + 1, torn |-> FALSE, unended |-> FALSE, unsynced |-> TRUE]
KeptUnmarked(w, es) ==
  IF es = <<>> THEN w
  ELSE [file |-> Mended(w) \o [i \in DOMAIN es |-> Line(es[i], "ended")],
        whole |-> w.whole + Len(es), torn |-> FALSE, unended |-> FALSE, unsynced |-> w.unsynced]
KeptOverLast(w, es) ==
  IF es = <<>> THEN w
  ELSE LET held == IF w.torn /\ w.whole > 0 THEN SubSeq(w.file, 1, w.whole - 1) ELSE Mended(w)
       IN  [file |-> held \o [i \in DOMAIN es |-> Line(es[i], "ended")],
            whole |-> Len(held) + Len(es), torn |-> FALSE, unended |-> FALSE, unsynced |-> TRUE]

\* Keeps of entries in order, each of which writes its whole line.
Kept(w, es) ==
  IF es = <<>> THEN w
  ELSE [file |-> Mended(w) \o [i \in DOMAIN es |-> Line(es[i], "ended")],
        whole |-> w.whole + Len(es), torn |-> FALSE, unended |-> FALSE, unsynced |-> TRUE]

\* What the write of a line can leave of it when it stops before its end.
Parts(w, e) ==
  {Cut(w), Mended(w)} \cup {Append(Mended(w), Line(e, f)) : f \in {"part", "unended"}}

\* A keep that fails: before it touched the file, after the cut alone, or as it wrote.
Failed(w, e) ==
  {w, [w EXCEPT !.file = Cut(w)]} \cup {[w EXCEPT !.file = f, !.torn = TRUE, !.unsynced = TRUE] : f \in Parts(w, e)}

FlushedDropping(q) ==
  {[lines |-> Kept(Now, q), waiting |-> <<>>, fault |-> fault]}
  \cup UNION {{[lines |-> w, waiting |-> SubSeq(q, n + 1, Len(q)), fault |-> TRUE] :
                w \in Failed(Kept(Now, SubSeq(q, 1, n - 1)), q[n])} : n \in DOMAIN q}

\* Held::flushed: each entry that waits is kept in order, up to the first keep that fails.
Flushed(q) ==
  {[lines |-> Kept(Now, q), waiting |-> <<>>, fault |-> fault]}
  \cup UNION {{[lines |-> w, waiting |-> SubSeq(q, n, Len(q)), fault |-> TRUE] :
                w \in Failed(Kept(Now, SubSeq(q, 1, n - 1)), q[n])} : n \in DOMAIN q}

SetLines(w) ==
  /\ file' = w.file /\ whole' = w.whole /\ torn' = w.torn
  /\ unended' = w.unended /\ unsynced' = w.unsynced

-----------------------------------------------------------------------------
(* The ear of the record.                                                   *)

\* A message goes and the ear knows it told it, or it does not and the next pass says it again.
Tells(new, old) ==
  \/ told' = new /\ UNCHANGED untold
  \/ told' = old /\ untold < MaxUntold /\ untold' = untold + 1

\* Held::low: a disk that holds twice LOW again ends what the operator knows.
Known == IF free = "high" THEN "Room" ELSE told

RetryWhenTold(faulty, timer) == timer \/ (faulty /\ told # "Stopped")

\* Whether the timer of a new try runs after a pass: one runs while the store holds a fault.
Retry(faulty, timer) == timer \/ faulty

\* What a pass tells the operator after its flush, and the timer of its next try.
Tell(faulty, timer) ==
  /\ again' = Retry(faulty, timer)
  /\ \/ faulty /\ told = "Stopped" /\ UNCHANGED <<told, untold>>
     \/ faulty /\ told # "Stopped" /\ Tells("Stopped", told)
     \/ ~faulty /\ told = "Stopped" /\ Tells("Room", told)
     \/ ~faulty /\ told # "Stopped" /\ free = "low" /\ Known = "Room" /\ Tells("Low", Known)
     \/ ~faulty /\ told # "Stopped" /\ (free = "low" => Known # "Room")
        /\ told' = Known /\ UNCHANGED untold

\* Whether the pass calls the verb that tells, which makes a run when none goes on.
Speaks(faulty) ==
  \/ faulty /\ told # "Stopped"
  \/ ~faulty /\ (told = "Stopped" \/ (free = "low" /\ told = "Room"))

\* One pass of the ear: it keeps in order what waits, and tells the operator.
Pass(q, timer, run) ==
  \E r \in Flushed(q) :
    /\ r.waiting # <<>> => fails < MaxFails
    /\ fails' = fails + (IF r.waiting # <<>> THEN 1 ELSE 0)
    /\ SetLines(r.lines) /\ waiting' = r.waiting /\ fault' = r.fault
    /\ Tell(r.fault, timer)
    /\ running' = (run \/ Speaks(r.fault))

\* The journal says to keep the next entry, in a run of the sandbox.
Hear ==
  /\ up /\ said < MaxEntries
  /\ said' = said + 1
  /\ journal' = Append(journal, said')
  /\ Pass(Append(waiting, said'), again, TRUE)
  /\ UNCHANGED <<disk, up, free, ghosts, badsyncs, crashes, losses>>

\* The timer of a new try fires as the host pumps the life, which runs nothing by itself.
Worked ==
  /\ up /\ again
  /\ Pass(waiting, FALSE, running)
  /\ UNCHANGED <<disk, up, free, said, journal, ghosts, badsyncs, crashes, losses>>

\* The end of a run: Held::synced keeps what waits, then syncs when all of it landed.
Ran ==
  /\ up /\ running /\ running' = FALSE
  /\ \E r \in Flushed(waiting) :
       /\ whole' = r.lines.whole /\ torn' = r.lines.torn /\ unended' = r.lines.unended
       /\ file' = r.lines.file /\ waiting' = r.waiting
       /\ \/ /\ r.waiting # <<>> /\ fails < MaxFails /\ fails' = fails + 1
             /\ fault' = TRUE /\ unsynced' = r.lines.unsynced /\ UNCHANGED <<disk, badsyncs>>
          \/ /\ r.waiting = <<>> /\ r.lines.unsynced
             /\ badsyncs < MaxUnsynced /\ badsyncs' = badsyncs + 1
             /\ fault' = TRUE /\ unsynced' = TRUE /\ UNCHANGED <<disk, fails>>
          \/ /\ r.waiting = <<>> /\ UNCHANGED <<fails, badsyncs>>
             /\ fault' = FALSE /\ unsynced' = FALSE
             /\ disk' = IF r.lines.unsynced THEN r.lines.file ELSE disk
  /\ promised' = IF ~fault' /\ Len(journal) > opened THEN journal ELSE promised
  /\ UNCHANGED <<up, told, again, free, said, journal, opened, untold, crashes, losses>>

-----------------------------------------------------------------------------
(* Opens, deaths and losses of power.                                       *)

\* Lines::open and Store::entries: the life reads the record, and the store how its last line ends.
Open ==
  /\ ~up /\ Reads(file)
  /\ LET end == IF file = <<>> THEN "ended" ELSE file[Len(file)].form
     IN  /\ torn' = (end = "part") /\ unended' = (end = "unended")
         /\ whole' = Len(Readable(file))
  /\ up' = TRUE /\ unsynced' = FALSE
  /\ waiting' = <<>> /\ fault' = FALSE /\ told' = "Room" /\ again' = FALSE /\ running' = FALSE
  /\ journal' = Read(file) /\ opened' = Len(journal')
  /\ UNCHANGED <<file, disk, free, said, promised, fails, badsyncs, untold, crashes, losses>>

\* The process dies, maybe in the middle of a keep: what waits is lost, and the file stays.
Crash ==
  /\ up /\ up' = FALSE
  /\ crashes < MaxCrashes /\ crashes' = crashes + 1
  /\ \E more \in {0} \cup {k \in {1} : said < MaxEntries} :
       /\ said' = said + more
       /\ \E r \in Flushed(IF more = 1 THEN Append(waiting, said') ELSE waiting) : SetLines(r.lines)
  /\ UNCHANGED <<disk, waiting, fault, ear, free, running, journal, ghosts, fails, badsyncs, losses>>

\* The forms that a line not yet durable can be left in.
Weaker(form) ==
  CASE form = "ended" -> Forms [] form = "unended" -> {"unended", "part"} [] OTHER -> {"part"}

\* What a loss of power leaves of the file: all that is durable, and a first part of the rest.
Survivors ==
  LET sure == Len(Readable(disk))
  IN  {disk} \cup {SubSeq(file, 1, n) : n \in sure .. Len(file)}
      \cup UNION {{Append(SubSeq(file, 1, n - 1), Line(file[n].entry, f)) : f \in Weaker(file[n].form)}
                   : n \in sure + 1 .. Len(file)}

PowerLoss ==
  /\ losses < MaxLosses /\ losses' = losses + 1
  /\ up' = FALSE
  /\ \E f \in Survivors : file' = f /\ disk' = f /\ whole' = Len(Readable(f))
  /\ UNCHANGED <<torn, unended, unsynced, waiting, fault, ear, free, running, said, journal, ghosts,
                 fails, badsyncs, crashes>>

\* Other work fills the disk or frees it.
FreeChanges ==
  /\ up /\ free' \in {"low", "some", "high"} \ {free}
  /\ UNCHANGED <<lines, disk, up, waiting, fault, ear, running, said, journal, ghosts,
                 fails, badsyncs, crashes, losses>>

Next == Hear \/ Worked \/ Ran \/ Open \/ Crash \/ PowerLoss \/ FreeChanges

\* A timer fires, and a run that began ends; nothing makes the journal say more.
Fairness == WF_vars(Worked) /\ WF_vars(Ran)

Spec == Init /\ [][Next]_vars

LiveSpec == Spec /\ Fairness

-----------------------------------------------------------------------------
(* Properties.                                                              *)

\* No entry is lost or kept twice while a life holds the record: the whole lines, then what
\* waits, are the record as it opened and then each entry as the journal said it.
NothingLost == up => Read(SubSeq(file, 1, whole)) \o waiting = journal

\* However the process died and whatever a failed write left, a later life reads the record:
\* only its last line can be torn or without its end, and entries come in the order of their saying.
AlwaysReadable ==
  /\ Reads(file)
  /\ \A i, j \in DOMAIN Read(file) : i < j => Read(file)[i] < Read(file)[j]

\* What a good sync of a life answered for is in the record for ever, after each crash and loss
\* of power (Store::sync).
Durable == IsPrefix(promised, Read(file)) /\ IsPrefix(promised, Read(disk))

\* While an entry waits, the timer of a new try runs and the operator knows that the record stopped,
\* unless a message to him failed: no pass, sync or open forgets a debt (store.rs, keeping).
DebtIsTried == up /\ waiting # <<>> => fault /\ again /\ (told = "Stopped" \/ untold > 0)

\* The record holds what the life said, whole, readable and durable, through whatever writes fail and
\* wherever the process dies, and forgets no debt (Store::keep, sync, entries).
RecordHolds == NothingLost /\ AlwaysReadable /\ Durable /\ DebtIsTried

\* The ear says that the record is written again only once it holds each fact that waited.
CalmIsTrue ==
  [][told = "Stopped" /\ told' = "Room" /\ up /\ up'
       => waiting' = <<>> /\ Read(SubSeq(file', 1, whole')) = journal']_vars

\* Once writes succeed, each entry that waits lands while the life goes on.
DebtIsPaid == up /\ waiting # <<>> ~> ~up \/ waiting = <<>>

\* The entries that the record holds: those of the store's whole lines while a life holds it, for
\* it cuts any line after them before it writes, and else those that a read takes.
Record == INSTANCE Record WITH
  kept <- IF up THEN Read(SubSeq(file, 1, whole)) ELSE Read(file), durable <- Read(disk)

\* The store implements what the trait Store promises: a record that only grows, and that a loss
\* of power cuts only after what is durable.
KeepsTheRecord == Record!Spec
=============================================================================
