-------------------------------- MODULE Logs --------------------------------
(***************************************************************************)
(* The log of a life, beside its record: a cache of every fact that the      *)
(* lives said, which a reader takes in place of a life while it agrees with   *)
(* the record. Each life writes it again from its first line in a file of its  *)
(* own, which takes the place of the log when the life keeps its first entry. *)
(*                                                                         *)
(* An act has two facts that the record holds: its question, and one of the   *)
(* outside. Its maker is the operator or a word, whose acts a later life says  *)
(* again, or an ear of the outside, which may make them again.                *)
(***************************************************************************)
EXTENDS Naturals, Sequences, FiniteSets, SequencesExt, FiniteSetsExt

CONSTANTS MaxActs, MaxLives, MaxMarks, MaxMisses,
          Spills  \* whether a run may say more than the buffer holds, which gives the file some of its lines before the run ends

VARIABLES
  record,  \* the entries of the record
  log,     \* the lines of the log, as the file holds them
  fresh,   \* the lines of the file that the life writes
  buffer,  \* the lines that the file does not hold yet
  sink,    \* what the life writes: "none", the "new" file, or the "log"
  entries, \* how many entries the life knows that the record holds
  seen,    \* the acts that a line shows
  owed,    \* the entries of the record about the acts of ears
  due,     \* the facts of the record that the life has yet to say again
  back,    \* the facts that the journal has yet to say kept
  known,   \* the acts that the life made or made again
  carried, \* the acts that the last checkpoint carries
  ending,  \* whether the life kept its checkpoint, after which it ends
  unlogged, \* whether the life opened on a checkpoint that no log holds
  lives, misses   \* how many lives opened, and how many files did not take their place

vars == <<record, log, fresh, buffer, sink, entries, seen, owed, due, back, known, carried, ending, unlogged, lives, misses>>

Question(n, by) == [kind |-> "question", act |-> n, by |-> by]
Fact(n)         == [kind |-> "fact", act |-> n, by |-> "outside"]
Checkpoint      == [kind |-> "checkpoint", act |-> 0, by |-> "store"]
Heading(n)      == [kind |-> "head", at |-> n]
Keep(n)         == [kind |-> "keep", at |-> n]
Said(kind, n)   == [kind |-> kind, act |-> n]

Up == sink # "none"
Acts(es) == {e.act : e \in {f \in Range(es) : f.kind = "question"}}
Shown(lines) == {l.act : l \in {m \in Range(lines) : m.kind = "question"}}
OfEars(es) == {e.act : e \in {f \in Range(es) : f.kind = "question" /\ f.by = "ear"}}
Begun(es) == {e.act : e \in {f \in Range(es) : f.kind = "fact"}}
LastMark(es) == Max({0} \cup {i \in 1 .. Len(es) : es[i].kind = "checkpoint"})

Init ==
  /\ record = <<>> /\ log = <<>> /\ fresh = <<>> /\ buffer = <<>> /\ sink = "none" /\ entries = 0 /\ seen = {} /\ owed = <<>>
  /\ due = <<>> /\ back = <<>> /\ known = {} /\ carried = {} /\ lives = 0 /\ misses = 0 /\ ending = FALSE /\ unlogged = FALSE

(* ---- what a reader finds ---- *)

\* How many entries the lines count: their head, and each line of keep, in order, or nothing.
Counted(lines) ==
  LET keeps == SelectSeq(lines, LAMBDA l : l.kind = "keep")
  IN IF lines # <<>> /\ lines[1].kind = "head" /\ \A i \in 1 .. Len(keeps) : keeps[i].at = lines[1].at + i
     THEN {lines[1].at + Len(keeps)} ELSE {}

\* A form that asks for no question.
AgreesByCount(lines, es) == Len(es) \in Counted(lines)

\* Whether a log agrees with a record: it counts its entries, and shows each of its questions.
Agrees(lines, es) == Len(es) \in Counted(lines) /\ Acts(es) \subseteq Shown(lines)

(* ---- a life opens on the record ---- *)

\* The lines of the log before a checkpoint, when the log agrees with the entries before it.
Earlier(es, at) ==
  LET ends == {i \in 1 .. Len(log) : log[i].kind = "keep" /\ log[i].at = at}
      kept == IF ends = {} THEN log ELSE SubSeq(log, 1, Min(ends) - 1)
  IN IF at > 0 /\ Agrees(kept, SubSeq(es, 1, at - 1)) THEN {kept} ELSE {}

\* The acts that a life makes again: what its checkpoint carries, and of the entries after, all but the acts of ears
\* that no ear makes again.
Made(made) ==
  LET after == SubSeq(record, LastMark(record) + 1, Len(record))
  IN carried \cup (Acts(after) \ OfEars(after)) \cup (made \cap OfEars(after))

\* What it says again of them.
Again(acts) == SelectSeq(record, LAMBDA e : e.act \in acts)

\* The entries of the acts of ears, which the life may not say again.
Owes(es) == SelectSeq(es, LAMBDA e : e.act \in OfEars(es))

Open ==
  /\ ~Up /\ lives < MaxLives /\ lives' = lives + 1 /\ sink' = "new" /\ entries' = Len(record)
  /\ LET at == LastMark(record)
         earlier == Earlier(record, at)
     IN /\ unlogged' = (at > 0 /\ earlier = {})
        /\ IF earlier = {}
           THEN fresh' = <<>> /\ buffer' = <<Heading(Len(record))>> /\ seen' = {}
           ELSE \E kept \in earlier :
               /\ fresh' = kept \o [i \in 1 .. Len(record) - at + 1 |-> Keep(at + i - 1)] /\ buffer' = <<>>
               /\ seen' = Shown(kept)
  /\ owed' = Owes(record) /\ back' = <<>>
  /\ \E made \in SUBSET OfEars(record) : known' = Made(made) /\ due' = Again(Made(made))
  /\ UNCHANGED <<record, log, carried, ending, misses>>

(* ---- what the life says ---- *)

\* A form that shows an act by its question alone.
HeardPlain(n) == {}

\* The act that a fact is about, which a line shows first when none did.
HeardFirst(n) == IF n \in seen THEN {} ELSE {n}

Hears(lines, shows) == buffer' = buffer \o lines /\ seen' = seen \cup shows

HearsQuestion(n) == Hears(IF n \in seen THEN <<>> ELSE <<Said("question", n)>>, {n})

HearsFact(n) ==
  Hears([i \in 1 .. Cardinality(HeardFirst(n)) |-> Said("question", n)] \o <<Said("fact", n)>>, HeardFirst(n))

\* The next fact of the record is said again. A question whose fact the record holds is put to no ear.
Replay ==
  /\ Up /\ due # <<>> /\ due' = Tail(due)
  /\ LET e == due[1] IN
     IF e.kind = "fact" THEN HearsFact(e.act)
     ELSE IF e.act \in Begun(due) THEN UNCHANGED <<buffer, seen>> ELSE HearsQuestion(e.act)
  /\ UNCHANGED <<record, log, fresh, sink, entries, owed, back, known, carried, ending, unlogged, lives, misses>>

Own == Up /\ due = <<>> /\ ~ending

\* An act of the operator, of a word or of an ear.
Make ==
  /\ Own
  /\ LET n == Cardinality(Acts(record \o back)) + 1 IN
     /\ n <= MaxActs /\ HearsQuestion(n) /\ known' = known \cup {n}
     /\ \E by \in {"operator", "ear"} : back' = Append(back, Question(n, by))
  /\ UNCHANGED <<record, log, fresh, sink, entries, owed, due, carried, ending, unlogged, lives, misses>>

Say(n) ==
  /\ Own /\ n \in known \ Begun(record \o back) /\ HearsFact(n) /\ back' = Append(back, Fact(n))
  /\ UNCHANGED <<record, log, fresh, sink, entries, owed, due, known, carried, ending, unlogged, lives, misses>>

\* Forms that write nothing of the acts of ears, and that write each of their entries.
MissedNone == <<>>
MissedAll == owed

\* The entries about the acts of ears that no line shows.
Missed == SelectSeq(owed, LAMBDA e : e.act \notin seen)

\* The journal says a fact kept: the store keeps it, and then the log tells it; at the first, what no line shows of the
\* acts of ears, and the new file takes the place of the log, or the life writes no log.
Kept(e) ==
  /\ record' = Append(record, e) /\ entries' = entries + 1 /\ owed' = <<>>
  /\ seen' = seen \cup {m.act : m \in Range(Missed)}
  /\ LET lines == buffer \o [i \in 1 .. Len(Missed) |-> Said(Missed[i].kind, Missed[i].act)] IN
     \/ /\ sink \in {"new", "log"} /\ sink' = "log" /\ buffer' = Append(lines, Keep(entries')) /\ misses' = misses
        /\ IF sink = "new" THEN log' = fresh /\ fresh' = <<>> ELSE UNCHANGED <<log, fresh>>
     \/ /\ sink = "new" /\ misses < MaxMisses /\ misses' = misses + 1 /\ sink' = "off" /\ buffer' = <<>> /\ UNCHANGED <<log, fresh>>
     \/ sink = "off" /\ UNCHANGED <<sink, buffer, misses, log, fresh>>

Keeps ==
  /\ Own /\ back # <<>> /\ Kept(back[1]) /\ back' = Tail(back) /\ UNCHANGED <<due, known, carried, ending, unlogged, lives>>

\* A run of the sandbox ends, once the journal said all that it keeps, and the file takes the lines.
Flushes ==
  /\ Up /\ buffer # <<>> /\ back = <<>> /\ buffer' = <<>>
  /\ CASE sink = "log" -> log' = log \o buffer /\ UNCHANGED fresh
       [] sink = "new" -> fresh' = fresh \o buffer /\ UNCHANGED log
       [] OTHER        -> UNCHANGED <<log, fresh>>
  /\ UNCHANGED <<record, sink, entries, seen, owed, due, back, known, carried, ending, unlogged, lives, misses>>

(* ---- a life ends ---- *)

\* The process dies: the file has the lines of the runs that ended, and some of this one.
Dies ==
  /\ Up
  /\ sink' = "none" /\ ending' = FALSE /\ unlogged' = FALSE
  /\ fresh' = <<>> /\ buffer' = <<>> /\ seen' = {} /\ owed' = <<>> /\ due' = <<>> /\ back' = <<>> /\ known' = {} /\ entries' = 0
  /\ IF sink = "log" THEN \E n \in 0 .. (IF Spills THEN Len(buffer) ELSE 0) : log' = log \o SubSeq(buffer, 1, n) ELSE UNCHANGED log
  /\ UNCHANGED <<record, carried, lives, misses>>

\* A life ends with its checkpoint, which is kept as any entry is; or one is kept on a record that no life holds.
Marks ==
  /\ Cardinality({i \in 1 .. Len(record) : record[i].kind = "checkpoint"}) < MaxMarks /\ record # <<>>
  /\ \/ Own /\ back = <<>> /\ Kept(Checkpoint) /\ ending' = TRUE
     \/ ~Up /\ record' = Append(record, Checkpoint) /\ UNCHANGED <<log, fresh, buffer, sink, entries, seen, owed, ending, misses>>
  /\ carried' \in SUBSET (carried \cup Acts(SubSeq(record, LastMark(record) + 1, Len(record))))
  /\ UNCHANGED <<due, back, known, unlogged, lives>>

Next ==
  \/ Open \/ Replay \/ Make \/ Keeps \/ Flushes \/ Marks \/ Dies \/ \E n \in 1 .. MaxActs : Say(n)

Spec == Init /\ [][Next]_vars

-----------------------------------------------------------------------------
TypeOK ==
  /\ sink \in {"none", "new", "log", "off"} /\ lives <= MaxLives /\ misses <= MaxMisses
  /\ Up => seen \subseteq 1 .. MaxActs /\ entries = Len(record)

\* A log that agrees with the record tells each fact that the record holds, after the act that it is about, though a
\* crash cut it, a checkpoint cut the record, or the log before a checkpoint was lost (agreed, earlier, owed).
AgreedIsWhole ==
  Agrees(log, record) =>
    \A n \in Begun(record) : \E i, j \in 1 .. Len(log) : i < j /\ log[i] = Said("question", n) /\ log[j] = Said("fact", n)

\* The log shows no act twice (Log.seen).
ShownOnce == \A i, j \in 1 .. Len(log) : i # j /\ log[i].kind = "question" => log[i] # log[j]

\* Once a life kept an entry, said what it owed and ended its run, its log agrees with its record; but for a life after
\* a checkpoint that no log held (Log.kept, Log.open).
FlushedAgrees == sink = "log" /\ buffer = <<>> /\ due = <<>> /\ back = <<>> => Agrees(log, record) \/ unlogged

LogsHold == AgreedIsWhole /\ ShownOnce /\ FlushedAgrees
=============================================================================
