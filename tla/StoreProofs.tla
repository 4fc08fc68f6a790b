---------------------------- MODULE StoreProofs ----------------------------
(***************************************************************************)
(* Proofs about Store, for any number of entries, failures, deaths and     *)
(* losses of power. RecordHolds is not inductive: what a retry cuts and    *)
(* what a sync answers for depend on where the whole lines end (Good), on  *)
(* what still waits (Joined) and on what is on the disk (Sured, Synced).   *)
(***************************************************************************)
EXTENDS Store, SequenceTheorems, TLAPS

\* The lines of the store, as Kept and Failed take and give them.
States == [file : Seq(Lines), whole : Nat, torn : BOOLEAN, unended : BOOLEAN, unsynced : BOOLEAN]

\* At most one line stands after the whole ones, and the store knows it; only the last can be
\* without its end, and none of the whole ones is a part.
Good(w) ==
  /\ w.whole <= Len(w.file) /\ Len(w.file) <= w.whole + 1
  /\ Len(w.file) = w.whole + 1 => w.torn
  /\ Reads(w.file)
  /\ w.whole > 0 => w.file[w.whole].form # "part"

\* Entries come in the order of their saying, and n were said.
InOrder(s, n) ==
  /\ \A i, j \in 1 .. Len(s) : i < j => s[i] < s[j]
  /\ \A i \in 1 .. Len(s) : s[i] <= n

LinesInOrder(f, n) ==
  /\ \A i, j \in 1 .. Len(f) : i < j => f[i].entry < f[j].entry
  /\ \A i \in 1 .. Len(f) : f[i].entry <= n

\* The first w lines of f, then q, are j.
Joined(j, f, w, q) ==
  /\ Len(j) = w + Len(q)
  /\ \A i \in 1 .. w : j[i] = f[i].entry
  /\ \A i \in 1 .. Len(q) : j[w + i] = q[i]

\* The whole lines of the record, and those of the disk.
Held == IF up THEN whole ELSE Len(Readable(file))
Sure == Len(Readable(disk))

Sured ==
  /\ Sure <= Held /\ \A i \in 1 .. Sure : disk[i].entry = file[i].entry
  /\ Len(promised) <= Sure /\ \A i \in 1 .. Len(promised) : promised[i] = disk[i].entry

\* A store that holds what it said with nothing to sync has all of it on the disk, and once it kept
\* a line nothing torn stands after its lines while none waits.
Synced ==
  /\ up /\ ~unsynced /\ whole > opened => Sure = whole
  /\ up /\ waiting = <<>> /\ (unsynced \/ whole > opened) => Len(file) = whole

\* While a life holds the record, its whole lines and what waits are what the journal said.
Alive == up => Good(Now) /\ Joined(journal, file, whole, waiting) /\ InOrder(journal, said)

Files ==
  /\ Reads(file) /\ LinesInOrder(file, said)
  /\ Reads(disk) /\ LinesInOrder(disk, said)

IInv == TypeOK /\ Alive /\ Files /\ Sured /\ Synced /\ DebtIsTried

-----------------------------------------------------------------------------
(* The writes of the store.                                                 *)

LEMMA LineTypes ==
  ASSUME NEW l \in Lines, NEW x \in Forms
  PROVE  /\ Line(l.entry, x) \in Lines /\ Line(l.entry, x).entry = l.entry /\ Line(l.entry, x).form = x
         /\ l.entry \in Entries /\ l.form \in Forms
BY DEF Line, Lines

\* The cut of a torn part leaves the whole lines, and the end that it writes makes each of them end.
LEMMA CutLines ==
  ASSUME NEW w \in States, Good(w)
  PROVE  /\ Cut(w) \in Seq(Lines) /\ Len(Cut(w)) = w.whole
         /\ \A i \in 1 .. w.whole : Cut(w)[i].entry = w.file[i].entry
         /\ \A i \in 1 .. w.whole - 1 : Cut(w)[i].form = "ended"
         /\ w.whole > 0 => Cut(w)[w.whole].form # "part"
<1> USE DEF Good, States, Reads
<1>1. CASE ~w.torn
  <2>1. Cut(w) = w.file /\ Len(w.file) = w.whole
    BY <1>1 DEF Cut
  <2> QED BY <2>1
<1>2. CASE w.torn
  <2> DEFINE g(i) == IF i = w.whole /\ w.unended THEN Line(w.file[i].entry, "unended") ELSE w.file[i]
  <2>1. Cut(w) = [i \in 1 .. w.whole |-> g(i)]
    BY <1>2 DEF Cut
  <2>2. \A i \in 1 .. w.whole : w.file[i] \in Lines /\ g(i) \in Lines
    <3> TAKE i \in 1 .. w.whole
    <3>1. w.file[i] \in Lines BY ElementOfSeq
    <3>2. Line(w.file[i].entry, "unended") \in Lines BY <3>1, LineTypes DEF Forms
    <3> QED BY <3>1, <3>2
  <2>3. Cut(w) \in Seq(Lines) /\ Len(Cut(w)) = w.whole
    BY <2>1, <2>2, IsASeq
  <2>4. ASSUME NEW i \in 1 .. w.whole
        PROVE  Cut(w)[i] = g(i) /\ g(i).entry = w.file[i].entry
               /\ (i # w.whole => g(i) = w.file[i] /\ g(i).form = "ended") /\ g(i).form # "part"
    <3>1. Cut(w)[i] = g(i) BY <2>1
    <3>2. Line(w.file[i].entry, "unended").entry = w.file[i].entry
          /\ Line(w.file[i].entry, "unended").form = "unended" BY DEF Line
    <3>3. i # w.whole => i \in 1 .. Len(w.file) - 1 OBVIOUS
    <3> QED BY <3>1, <3>2, <3>3
  <2> QED BY <2>3, <2>4
<1> QED BY <1>1, <1>2

LEMMA MendedLines ==
  ASSUME NEW w \in States, Good(w)
  PROVE  /\ Mended(w) \in Seq(Lines) /\ Len(Mended(w)) = w.whole
         /\ \A i \in 1 .. w.whole : Mended(w)[i].entry = w.file[i].entry /\ Mended(w)[i].form = "ended"
<1> DEFINE c == Cut(w)
           g(i) == IF i = Len(c) THEN Line(c[i].entry, "ended") ELSE c[i]
<1>1. /\ c \in Seq(Lines) /\ Len(c) = w.whole /\ w.whole \in Nat
      /\ \A i \in 1 .. w.whole : c[i].entry = w.file[i].entry
      /\ \A i \in 1 .. w.whole - 1 : c[i].form = "ended"
  BY CutLines DEF States
<1>2. Mended(w) = [i \in DOMAIN c |-> g(i)]
  BY DEF Mended
<1> HIDE DEF c
<1>3. \A i \in 1 .. w.whole : g(i) \in Lines /\ g(i).entry = w.file[i].entry /\ g(i).form = "ended"
  <2> TAKE i \in 1 .. w.whole
  <2>1. c[i] \in Lines BY <1>1, ElementOfSeq
  <2>2. Line(c[i].entry, "ended") \in Lines /\ Line(c[i].entry, "ended").entry = c[i].entry
        /\ Line(c[i].entry, "ended").form = "ended"
    BY <2>1, LineTypes DEF Forms
  <2>3. i = Len(c) \/ i \in 1 .. w.whole - 1 BY <1>1
  <2> QED BY <1>1, <2>1, <2>2, <2>3
<1>4. Mended(w) = [i \in 1 .. w.whole |-> g(i)]
  BY <1>1, <1>2
<1> HIDE DEF g
<1>5. Mended(w) \in Seq(Lines) /\ Len(Mended(w)) = w.whole
  BY <1>1, <1>3, <1>4, IsASeq
<1> QED BY <1>1, <1>3, <1>4, <1>5

\* Keeps that succeed land each entry after the whole lines, once and in order.
LEMMA KeptLines ==
  ASSUME NEW w \in States, Good(w), NEW es \in Seq(Entries), NEW v, v = Kept(w, es)
  PROVE  /\ v \in States /\ Good(v) /\ v.whole = w.whole + Len(es)
         /\ \A i \in 1 .. w.whole : v.file[i].entry = w.file[i].entry
         /\ \A i \in 1 .. Len(es) : v.file[w.whole + i].entry = es[i]
         /\ es = <<>> => v = w
         /\ es # <<>> => Len(v.file) = v.whole /\ v.unsynced
<1>1. CASE es = <<>>
  <2>1. v = w /\ Len(es) = 0 BY <1>1 DEF Kept
  <2> QED BY <1>1, <2>1 DEF States
<1>2. CASE es # <<>>
  <2> DEFINE m == Mended(w)
             t == [i \in DOMAIN es |-> Line(es[i], "ended")]
  <2>1. /\ m \in Seq(Lines) /\ Len(m) = w.whole /\ w.whole \in Nat
        /\ \A i \in 1 .. w.whole : m[i].entry = w.file[i].entry /\ m[i].form = "ended"
    BY MendedLines DEF States
  <2>2. v = [file |-> m \o t, whole |-> w.whole + Len(es), torn |-> FALSE, unended |-> FALSE,
             unsynced |-> TRUE]
    BY <1>2 DEF Kept
  <2> HIDE DEF m
  <2>3. \A i \in 1 .. Len(es) : Line(es[i], "ended") \in Lines
    BY DEF Lines, Line, Forms
  <2>4. t \in Seq(Lines) /\ Len(t) = Len(es) /\ Len(es) \in Nat \ {0}
        /\ \A i \in 1 .. Len(es) : t[i].entry = es[i] /\ t[i].form = "ended"
    <3>1. t = [i \in 1 .. Len(es) |-> Line(es[i], "ended")] /\ Len(es) \in Nat OBVIOUS
    <3>2. t \in Seq(Lines) /\ Len(t) = Len(es) BY <2>3, <3>1, IsASeq
    <3>3. Len(es) # 0 BY <1>2, EmptySeq
    <3> QED BY <3>1, <3>2, <3>3 DEF Line
  <2> HIDE DEF t
  <2> DEFINE f == m \o t
  <2>5. /\ f \in Seq(Lines) /\ Len(f) = w.whole + Len(es)
        /\ \A i \in 1 .. Len(f) : f[i] = IF i <= w.whole THEN m[i] ELSE t[i - w.whole]
    BY <2>1, <2>4, ConcatProperties
  <2> HIDE DEF f
  <2>6. \A i \in 1 .. Len(f) : f[i].form = "ended"
    <3> TAKE i \in 1 .. Len(f)
    <3>1. CASE i <= w.whole BY <2>1, <2>5, <3>1
    <3>2. CASE i > w.whole
      <4>1. i - w.whole \in 1 .. Len(es) /\ f[i] = t[i - w.whole] BY <2>1, <2>4, <2>5, <3>2
      <4> QED BY <2>4, <4>1
    <3> QED BY <2>1, <2>4, <2>5, <3>1, <3>2
  <2>7. v \in States /\ v.file = f /\ v.whole = Len(f) /\ v.unsynced
    BY <2>1, <2>2, <2>4, <2>5 DEF States, f
  <2>8. Good(v)
    BY <2>1, <2>4, <2>5, <2>6, <2>7 DEF Good, Reads
  <2>9. \A i \in 1 .. w.whole : v.file[i].entry = w.file[i].entry
    <3> TAKE i \in 1 .. w.whole
    <3>1. i \in 1 .. Len(f) /\ i <= w.whole BY <2>1, <2>4, <2>5
    <3> QED BY <2>1, <2>5, <2>7, <3>1
  <2>10. ASSUME NEW i \in 1 .. Len(es) PROVE v.file[w.whole + i].entry = es[i]
    <3>1. w.whole + i \in 1 .. Len(f) /\ ~(w.whole + i <= w.whole) /\ (w.whole + i) - w.whole = i
      BY <2>1, <2>4, <2>5
    <3>2. f[w.whole + i] = t[i] BY <2>5, <3>1
    <3> QED BY <2>4, <2>7, <3>2
  <2> QED BY <1>2, <2>5, <2>7, <2>8, <2>9, <2>10
<1> QED BY <1>1, <1>2

\* A keep that fails loses no whole line, and can leave one line after them: of the entry, or the one there.
LEMMA FailedLines ==
  ASSUME NEW w \in States, Good(w), NEW e \in Entries, NEW v \in Failed(w, e)
  PROVE  /\ v \in States /\ Good(v) /\ v.whole = w.whole
         /\ \A i \in 1 .. w.whole : v.file[i].entry = w.file[i].entry
         /\ Len(v.file) = w.whole + 1 => v.file[w.whole + 1].entry = e \/ v.file = w.file
         /\ w.unsynced => v.unsynced
<1> DEFINE c == Cut(w)
           m == Mended(w)
<1>1. /\ c \in Seq(Lines) /\ Len(c) = w.whole /\ w.whole \in Nat
      /\ \A i \in 1 .. w.whole : c[i].entry = w.file[i].entry
      /\ \A i \in 1 .. w.whole - 1 : c[i].form = "ended"
      /\ w.whole > 0 => c[w.whole].form # "part"
  BY CutLines DEF States
<1>2. /\ m \in Seq(Lines) /\ Len(m) = w.whole
      /\ \A i \in 1 .. w.whole : m[i].entry = w.file[i].entry /\ m[i].form = "ended"
  BY MendedLines
<1>3. CASE v = w
  BY <1>3
<1>4. CASE v = [w EXCEPT !.file = Cut(w)]
  <2>1. v \in States /\ v.file = c /\ v.whole = w.whole /\ v.unsynced = w.unsynced
    BY <1>1, <1>4 DEF States
  <2> HIDE DEF c
  <2> QED BY <1>1, <2>1 DEF Good, Reads
<1>5. ASSUME NEW f \in Parts(w, e), v = [w EXCEPT !.file = f, !.torn = TRUE, !.unsynced = TRUE]
      PROVE  /\ v \in States /\ Good(v) /\ v.whole = w.whole
             /\ \A i \in 1 .. w.whole : v.file[i].entry = w.file[i].entry
             /\ Len(v.file) = w.whole + 1 => v.file[w.whole + 1].entry = e \/ v.file = w.file
             /\ w.unsynced => v.unsynced
  <2>1. /\ f \in Seq(Lines)
        /\ w.whole <= Len(f) /\ Len(f) <= w.whole + 1
        /\ \A i \in 1 .. w.whole : f[i].entry = w.file[i].entry /\ (i < Len(f) => f[i].form = "ended")
                                   /\ f[i].form # "part"
        /\ Len(f) = w.whole + 1 => f[w.whole + 1].entry = e
    <3>1. CASE f = c
      BY <1>1, <3>1 DEF Lines
    <3>2. CASE f = m
      BY <1>2, <3>2
    <3>3. ASSUME NEW x \in {"part", "unended"}, f = Append(m, Line(e, x)) PROVE <2>1
      <4>1. Line(e, x) \in Lines /\ Line(e, x).entry = e BY DEF Line, Lines, Forms
      <4> HIDE DEF m
      <4>2. f \in Seq(Lines) /\ Len(f) = w.whole + 1 /\ f[w.whole + 1] = Line(e, x)
            /\ \A i \in 1 .. w.whole : f[i] = m[i]
        BY <1>1, <1>2, <3>3, <4>1, AppendProperties
      <4> QED BY <1>1, <1>2, <4>1, <4>2
    <3> QED BY <3>1, <3>2, <3>3 DEF Parts
  <2>2. v \in States /\ v.file = f /\ v.whole = w.whole /\ v.torn /\ v.unsynced
    BY <1>5, <2>1 DEF States
  <2>3. \A i \in 1 .. Len(f) - 1 : i \in 1 .. w.whole /\ i < Len(f)
    BY <1>1, <2>1
  <2>4. w.whole > 0 => w.whole \in 1 .. w.whole
    BY <1>1
  <2>5. Reads(f) /\ (w.whole > 0 => f[w.whole].form # "part")
    <3>1. ASSUME NEW i \in 1 .. Len(f) - 1 PROVE f[i].form = "ended"
      BY <2>1, <2>3
    <3> QED BY <2>1, <2>4, <3>1 DEF Reads
  <2>6. Good(v)
    BY <2>1, <2>2, <2>5 DEF Good
  <2>7. \A i \in 1 .. w.whole : v.file[i].entry = w.file[i].entry
    BY <2>1, <2>2
  <2>8. Len(v.file) = w.whole + 1 => v.file[w.whole + 1].entry = e
    BY <2>1, <2>2
  <2> QED BY <2>2, <2>6, <2>7, <2>8
<1> QED BY <1>3, <1>4, <1>5 DEF Failed

\* A flush lands a first part of what waits, all of it unless a keep fails, and the rest waits on.
Landed(q, r) ==
  LET k == Len(q) - Len(r.waiting)
  IN  /\ r.waiting \in Seq(Entries) /\ Len(r.waiting) <= Len(q)
      /\ r.lines \in States /\ Good(r.lines) /\ r.lines.whole = whole + k
      /\ \A i \in 1 .. whole : r.lines.file[i].entry = file[i].entry
      /\ \A i \in 1 .. k : r.lines.file[whole + i].entry = q[i]
      /\ \A i \in 1 .. Len(r.waiting) : r.waiting[i] = q[k + i]
      /\ Len(r.lines.file) = r.lines.whole + 1 =>
           \/ k = 0 /\ r.lines.file = file
           \/ r.waiting # <<>> /\ r.lines.file[r.lines.whole + 1].entry = q[k + 1]
      /\ unsynced \/ k > 0 => r.lines.unsynced = TRUE
      /\ q # <<>> /\ r.waiting = <<>> => Len(r.lines.file) = r.lines.whole
      /\ q = <<>> => r.lines = Now
      /\ IF r.waiting = <<>> THEN r.fault = fault ELSE r.fault = TRUE

LEMMA FlushLands ==
  ASSUME TypeOK, Good(Now), NEW q \in Seq(Entries), NEW r \in Flushed(q)
  PROVE  Landed(q, r)
<1>1. Now \in States /\ Now.file = file /\ Now.whole = whole /\ Now.unsynced = unsynced /\ whole \in Nat
  BY DEF TypeOK, Now, States
<1>2. CASE r = [lines |-> Kept(Now, q), waiting |-> <<>>, fault |-> fault]
  <2> DEFINE v == Kept(Now, q)
  <2>0. v = Kept(Now, q) OBVIOUS
  <2> HIDE DEF v
  <2>1. /\ v \in States /\ Good(v) /\ v.whole = whole + Len(q)
        /\ \A i \in 1 .. whole : v.file[i].entry = file[i].entry
        /\ \A i \in 1 .. Len(q) : v.file[whole + i].entry = q[i]
        /\ q = <<>> => v = Now
        /\ q # <<>> => Len(v.file) = v.whole /\ v.unsynced
    <3>1. /\ v \in States /\ Good(v) /\ v.whole = Now.whole + Len(q)
          /\ \A i \in 1 .. Now.whole : v.file[i].entry = Now.file[i].entry
          /\ \A i \in 1 .. Len(q) : v.file[Now.whole + i].entry = q[i]
          /\ q = <<>> => v = Now
          /\ q # <<>> => Len(v.file) = v.whole /\ v.unsynced
      <4>1. ASSUME NEW w \in States, Good(w), w = Now PROVE <3>1
        <5>1. v = Kept(w, q) BY <2>0, <4>1
        <5> QED BY <4>1, <5>1, KeptLines
      <4> QED BY <1>1, <4>1
    <3> QED BY <1>1, <3>1
  <2>2. r.lines = v /\ r.waiting = <<>> /\ r.fault = fault BY <1>2, <2>0
  <2>3. Len(<<>>) = 0 /\ <<>> \in Seq(Entries) /\ Len(q) \in Nat /\ (q # <<>> => Len(q) > 0) BY EmptySeq
  <2>4. q # <<>> => v.unsynced = TRUE BY <2>1 DEF States
  <2>5. Len(v.file) = v.whole + 1 => q = <<>> /\ v.file = file
    BY <1>1, <2>1 DEF States
  <2>6. q = <<>> => Len(q) = 0 BY EmptySeq
  <2> QED BY <1>1, <2>1, <2>2, <2>3, <2>4, <2>5, <2>6 DEF Landed
<1>3. ASSUME NEW n \in DOMAIN q, NEW v \in Failed(Kept(Now, SubSeq(q, 1, n - 1)), q[n]),
             r = [lines |-> v, waiting |-> SubSeq(q, n, Len(q)), fault |-> TRUE]
      PROVE  Landed(q, r)
  <2> DEFINE p == SubSeq(q, 1, n - 1)
             u == Kept(Now, p)
             rest == SubSeq(q, n, Len(q))
  <2>1. n \in 1 .. Len(q) /\ q[n] \in Entries /\ Len(q) \in Nat BY ElementOfSeq
  <2>2. p \in Seq(Entries) /\ Len(p) = n - 1 /\ \A i \in 1 .. n - 1 : p[i] = q[i]
    BY <2>1, SubSeqProperties
  <2>3. rest \in Seq(Entries) /\ Len(rest) = Len(q) - n + 1
        /\ \A i \in 1 .. Len(rest) : rest[i] = q[n - 1 + i]
    BY <2>1, SubSeqProperties
  <2>0. u = Kept(Now, p) OBVIOUS
  <2> HIDE DEF p, rest, u
  <2>4. /\ u \in States /\ Good(u) /\ u.whole = whole + n - 1
        /\ \A i \in 1 .. whole : u.file[i].entry = file[i].entry
        /\ \A i \in 1 .. n - 1 : u.file[whole + i].entry = q[i]
        /\ p = <<>> => u = Now
        /\ p # <<>> => Len(u.file) = u.whole /\ u.unsynced
    <3>1. /\ u \in States /\ Good(u) /\ u.whole = Now.whole + Len(p)
          /\ \A i \in 1 .. Now.whole : u.file[i].entry = Now.file[i].entry
          /\ \A i \in 1 .. Len(p) : u.file[Now.whole + i].entry = p[i]
          /\ p = <<>> => u = Now
          /\ p # <<>> => Len(u.file) = u.whole /\ u.unsynced
      <4>1. ASSUME NEW w \in States, Good(w), w = Now PROVE <3>1
        <5>1. u = Kept(w, p) BY <2>0, <4>1
        <5>2. p \in Seq(Entries) BY <2>2
        <5>3. /\ u \in States /\ Good(u) /\ u.whole = w.whole + Len(p)
              /\ \A i \in 1 .. w.whole : u.file[i].entry = w.file[i].entry
              /\ \A i \in 1 .. Len(p) : u.file[w.whole + i].entry = p[i]
              /\ p = <<>> => u = w
              /\ p # <<>> => Len(u.file) = u.whole /\ u.unsynced
          BY <4>1, <5>1, <5>2, KeptLines
        <5> QED BY <4>1, <5>3
      <4> QED BY <1>1, <4>1
    <3> QED BY <1>1, <2>1, <2>2, <3>1
  <2>5. v \in Failed(u, q[n]) BY <1>3, <2>0 DEF p
  <2>6. /\ v \in States /\ Good(v) /\ v.whole = u.whole
        /\ \A i \in 1 .. u.whole : v.file[i].entry = u.file[i].entry
        /\ Len(v.file) = u.whole + 1 => v.file[u.whole + 1].entry = q[n] \/ v.file = u.file
        /\ u.unsynced => v.unsynced
    BY <2>1, <2>4, <2>5, FailedLines
  <2>7. r.lines = v /\ r.waiting = rest /\ r.fault = TRUE BY <1>3 DEF rest
  <2>8. Len(q) - Len(rest) = n - 1 /\ Len(rest) > 0 /\ Len(rest) \in Nat BY <2>1, <2>3
  <2>9. rest # <<>> /\ q # <<>> BY <2>1, <2>8, EmptySeq
  <2>10. p = <<>> <=> n = 1
    BY <2>1, <2>2, EmptySeq
  <2>11. \A i \in 1 .. whole : v.file[i].entry = file[i].entry
    <3> TAKE i \in 1 .. whole
    <3>1. i \in 1 .. u.whole BY <1>1, <2>1, <2>4
    <3> QED BY <2>4, <2>6, <3>1
  <2>12. \A i \in 1 .. n - 1 : v.file[whole + i].entry = q[i]
    <3> TAKE i \in 1 .. n - 1
    <3>1. whole + i \in 1 .. u.whole BY <1>1, <2>1, <2>4
    <3> QED BY <2>4, <2>6, <3>1
  <2>13. Len(v.file) = v.whole + 1 =>
           (n - 1 = 0 /\ v.file = file) \/ v.file[v.whole + 1].entry = q[n - 1 + 1]
    <3> SUFFICES ASSUME Len(v.file) = v.whole + 1, v.file[v.whole + 1].entry # q[n] PROVE n = 1 /\ v.file = file
      BY <2>1
    <3>1. v.file = u.file BY <2>6
    <3>2. Len(u.file) = u.whole + 1 BY <2>6, <3>1
    <3>3. p = <<>> BY <2>4, <3>2 DEF States
    <3> QED BY <1>1, <2>4, <2>10, <3>1, <3>3
  <2>14. unsynced \/ n - 1 > 0 => v.unsynced = TRUE
    <3>1. unsynced \/ n - 1 > 0 => u.unsynced = TRUE BY <1>1, <2>1, <2>4, <2>10 DEF States
    <3> QED BY <2>6, <3>1 DEF States
  <2>15. v.whole = whole + (n - 1) BY <1>1, <2>1, <2>4, <2>6
  <2> DEFINE k == Len(q) - Len(r.waiting)
  <2>16. k = n - 1 BY <2>7, <2>8
  <2> HIDE DEF k
  <2>17. /\ r.waiting \in Seq(Entries) /\ Len(r.waiting) <= Len(q)
         /\ r.lines \in States /\ Good(r.lines) /\ r.lines.whole = whole + k
         /\ \A i \in 1 .. whole : r.lines.file[i].entry = file[i].entry
    BY <2>1, <2>3, <2>6, <2>7, <2>8, <2>11, <2>15, <2>16
  <2>18. /\ \A i \in 1 .. k : r.lines.file[whole + i].entry = q[i]
         /\ \A i \in 1 .. Len(r.waiting) : r.waiting[i] = q[k + i]
    BY <2>3, <2>7, <2>12, <2>16
  <2>19. Len(r.lines.file) = r.lines.whole + 1 =>
           \/ k = 0 /\ r.lines.file = file
           \/ r.waiting # <<>> /\ r.lines.file[r.lines.whole + 1].entry = q[k + 1]
    BY <2>7, <2>9, <2>13, <2>16
  <2>20. unsynced \/ k > 0 => r.lines.unsynced = TRUE
    BY <2>7, <2>14, <2>16
  <2> QED BY <2>7, <2>9, <2>17, <2>18, <2>19, <2>20 DEF Landed, k
<1> QED BY <1>2, <1>3 DEF Flushed

\* After a flush, the lines and what still waits are the journal, in its order.
LEMMA FlushKeeps ==
  ASSUME TypeOK, Good(Now), NEW q \in Seq(Entries), NEW r, Landed(q, r), NEW n \in Nat,
         NEW j \in Seq(Entries), Joined(j, file, whole, q), InOrder(j, n), LinesInOrder(file, n)
  PROVE  LinesInOrder(r.lines.file, n) /\ Joined(j, r.lines.file, r.lines.whole, r.waiting)
<1> DEFINE f == r.lines.file
           k == Len(q) - Len(r.waiting)
<1>1. /\ r.waiting \in Seq(Entries) /\ k \in Nat /\ Len(r.waiting) = Len(q) - k
      /\ f \in Seq(Lines) /\ r.lines.whole = whole + k /\ whole \in Nat
      /\ whole + k <= Len(f) /\ Len(f) <= whole + k + 1 /\ Len(q) \in Nat /\ Len(f) \in Nat
  <2>1. r.lines \in States /\ Good(r.lines) /\ whole \in Nat BY DEF Landed, TypeOK
  <2>2. f \in Seq(Lines) /\ r.lines.whole <= Len(f) /\ Len(f) <= r.lines.whole + 1
    BY <2>1 DEF States, Good
  <2>3. r.waiting \in Seq(Entries) /\ Len(r.waiting) <= Len(q) /\ r.lines.whole = whole + k
    BY DEF Landed
  <2>4. Len(q) \in Nat /\ Len(f) \in Nat /\ Len(r.waiting) \in Nat BY <2>2, <2>3
  <2> HIDE DEF f
  <2> QED BY <2>1, <2>2, <2>3, <2>4
<1>2. \A i \in 1 .. Len(r.waiting) : r.waiting[i] = q[k + i]
  BY DEF Landed
<1>3. \A i \in 1 .. whole : f[i].entry = j[i]
  BY DEF Landed, Joined
<1>4. \A i \in 1 .. k : f[whole + i].entry = q[i]
  BY DEF Landed
<1>5. Len(f) = whole + k + 1 =>
        \/ k = 0 /\ f = file
        \/ r.waiting # <<>> /\ f[whole + k + 1].entry = q[k + 1]
  BY <1>1 DEF Landed
<1> HIDE DEF f, k
<1>6. \A i \in 1 .. k : f[whole + i].entry = j[whole + i]
  <2> TAKE i \in 1 .. k
  <2>1. i \in 1 .. Len(q) BY <1>1
  <2> QED BY <1>4, <2>1 DEF Joined
<1>7. Len(j) = whole + Len(q) BY DEF Joined
<1>8. \A i \in 1 .. whole + k : f[i].entry = j[i]
  <2> TAKE i \in 1 .. whole + k
  <2>1. CASE i <= whole BY <1>1, <1>3, <2>1
  <2>2. CASE i > whole
    <3>1. i - whole \in 1 .. k /\ whole + (i - whole) = i BY <1>1, <2>2
    <3> QED BY <1>6, <3>1
  <2> QED BY <1>1, <2>1, <2>2
<1>9. Joined(j, f, r.lines.whole, r.waiting)
  <2>1. Len(j) = whole + k + Len(r.waiting) BY <1>1, <1>7
  <2>2. ASSUME NEW i \in 1 .. Len(r.waiting) PROVE j[(whole + k) + i] = r.waiting[i]
    <3>1. k + i \in 1 .. Len(q) /\ whole + (k + i) = (whole + k) + i BY <1>1
    <3>2. j[whole + (k + i)] = q[k + i] BY <3>1 DEF Joined
    <3> QED BY <1>2, <3>1, <3>2
  <2> QED BY <1>1, <1>8, <2>1, <2>2 DEF Joined
<1>10. LinesInOrder(f, n)
  <2>1. CASE \A i \in 1 .. Len(f) : f[i].entry = j[i] /\ i <= Len(j)
    <3>1. \A i \in 1 .. Len(f) : i \in 1 .. Len(j) BY <2>1
    <3> QED BY <2>1, <3>1 DEF LinesInOrder, InOrder
  <2>2. CASE k = 0 /\ f = file
    BY <2>2 DEF LinesInOrder
  <2>3. CASE Len(f) = whole + k
    <3>1. \A i \in 1 .. Len(f) : f[i].entry = j[i] /\ i <= Len(j) BY <1>1, <1>7, <1>8, <2>3
    <3> QED BY <2>1, <3>1
  <2>4. CASE Len(f) = whole + k + 1 /\ r.waiting # <<>> /\ f[whole + k + 1].entry = q[k + 1]
    <3>1. Len(r.waiting) > 0 BY <1>1, <2>4, EmptySeq
    <3>2. k + 1 \in 1 .. Len(q) /\ whole + (k + 1) = whole + k + 1 BY <1>1, <3>1
    <3>3. f[whole + k + 1].entry = j[whole + k + 1] BY <2>4, <3>2 DEF Joined
    <3>4. ASSUME NEW i \in 1 .. Len(f) PROVE f[i].entry = j[i] /\ i <= Len(j)
      <4>1. i \in 1 .. whole + k \/ i = whole + k + 1 BY <1>1, <2>4
      <4>2. i <= Len(j) BY <1>1, <1>7, <2>4, <3>1
      <4> QED BY <1>8, <3>3, <4>1, <4>2
    <3> QED BY <2>1, <3>4
  <2>5. Len(f) = whole + k \/ Len(f) = whole + k + 1
    BY <1>1
  <2> QED BY <1>5, <2>2, <2>3, <2>4, <2>5
<1> QED BY <1>9, <1>10 DEF f

\* What a reader takes of lines: all of them, but for a part at the end.
LEMMA ReadableLines ==
  ASSUME NEW f \in Seq(Lines)
  PROVE  /\ Readable(f) \in Seq(Lines) /\ Len(Readable(f)) \in Nat
         /\ Len(Readable(f)) <= Len(f) /\ Len(f) <= Len(Readable(f)) + 1
         /\ \A i \in 1 .. Len(Readable(f)) : Readable(f)[i] = f[i]
         /\ Len(f) > 0 /\ f[Len(f)].form = "part" <=> Len(f) = Len(Readable(f)) + 1
<1>1. f = <<>> <=> Len(f) = 0
  BY EmptySeq
<1>2. CASE f # <<>> /\ f[Len(f)].form = "part"
  <2>1. Readable(f) = SubSeq(f, 1, Len(f) - 1) /\ Len(f) \in Nat \ {0} BY <1>1, <1>2 DEF Readable
  <2>2. Readable(f) \in Seq(Lines) /\ Len(Readable(f)) = Len(f) - 1
        /\ \A i \in 1 .. Len(f) - 1 : Readable(f)[i] = f[i]
    <3>1. Len(f) - 1 \in 0 .. Len(f) /\ (Len(f) - 1) - 1 + 1 = Len(f) - 1 BY <2>1
    <3>2. \A i \in 1 .. Len(f) - 1 : 1 + i - 1 = i BY <2>1
    <3> QED BY <2>1, <3>1, <3>2, SubSeqProperties
  <2> QED BY <1>2, <2>1, <2>2
<1>3. CASE ~(f # <<>> /\ f[Len(f)].form = "part")
  <2>1. Readable(f) = f BY <1>3 DEF Readable
  <2> QED BY <1>1, <1>3, <2>1
<1> QED BY <1>2, <1>3

-----------------------------------------------------------------------------
(* The steps.                                                               *)

LEMMA Bounds ==
  /\ MaxEntries \in Nat \ {0} /\ MaxFails \in Nat /\ MaxUnsynced \in Nat /\ MaxUntold \in Nat
  /\ MaxCrashes \in Nat /\ MaxLosses \in Nat
BY StoreAssumption

\* The next entry that the journal says goes after what waits.
LEMMA JoinedLonger ==
  ASSUME NEW w \in Nat, NEW f \in Seq(Lines), NEW q \in Seq(Entries), NEW j \in Seq(Entries), NEW n \in Nat,
         n + 1 \in Entries, Joined(j, f, w, q), InOrder(j, n)
  PROVE  Joined(Append(j, n + 1), f, w, Append(q, n + 1)) /\ InOrder(Append(j, n + 1), n + 1)
<1> DEFINE p == Append(q, n + 1)
           k == Append(j, n + 1)
<1>0. /\ Len(p) = Len(q) + 1 /\ p[Len(q) + 1] = n + 1 /\ \A i \in 1 .. Len(q) : p[i] = q[i]
      /\ Len(k) = Len(j) + 1 /\ k[Len(j) + 1] = n + 1 /\ \A i \in 1 .. Len(j) : k[i] = j[i]
  BY AppendProperties
<1> HIDE DEF p, k
<1>1. /\ Len(q) \in Nat /\ Len(j) \in Nat /\ Len(j) = w + Len(q)
      /\ Len(p) = Len(q) + 1 /\ Len(k) = Len(j) + 1
  BY <1>0 DEF Joined
<1>2. Joined(k, f, w, p)
  <2>1. \A i \in 1 .. w : k[i] = f[i].entry
    BY <1>0, <1>1 DEF Joined
  <2>2. ASSUME NEW i \in 1 .. Len(p) PROVE k[w + i] = p[i]
    <3>1. CASE i \in 1 .. Len(q)
      <4>1. w + i \in 1 .. Len(j) BY <1>1, <3>1
      <4> QED BY <1>0, <3>1, <4>1 DEF Joined
    <3>2. CASE i = Len(q) + 1
      BY <1>0, <1>1, <3>2
    <3> QED BY <1>1, <3>1, <3>2
  <2>3. Len(k) = w + Len(p) BY <1>1
  <2> QED BY <2>1, <2>2, <2>3 DEF Joined
<1>3. InOrder(k, n + 1)
  <2>1. \A i \in 1 .. Len(j) : j[i] <= n /\ j[i] \in Int
    <3>1. \A i \in 1 .. Len(j) : j[i] \in Entries BY ElementOfSeq
    <3> QED BY <3>1, Bounds DEF InOrder, Entries
  <2>2. \A i \in 1 .. Len(k) : i \in 1 .. Len(j) \/ i = Len(j) + 1
    <3>1. Len(k) = Len(j) + 1 /\ Len(j) \in Nat BY <1>1
    <3> HIDE DEF k
    <3> QED BY <3>1
  <2>3. ASSUME NEW i \in 1 .. Len(k) PROVE k[i] <= n + 1
    BY <1>0, <1>1, <2>1, <2>2
  <2>4. ASSUME NEW i \in 1 .. Len(k), NEW h \in 1 .. Len(k), i < h PROVE k[i] < k[h]
    <3>1. i \in 1 .. Len(j) BY <1>1, <2>2, <2>4
    <3>2. CASE h \in 1 .. Len(j)
      BY <1>0, <2>4, <3>1, <3>2 DEF InOrder
    <3>3. CASE h = Len(j) + 1
      BY <1>0, <2>1, <3>1, <3>3
    <3> QED BY <2>2, <3>2, <3>3
  <2> QED BY <2>3, <2>4 DEF InOrder
<1> QED BY <1>2, <1>3 DEF p, k

\* Lines stay in order as more is said.
LEMMA StillInOrder ==
  ASSUME NEW f \in Seq(Lines), NEW m \in Nat, NEW n \in Nat, m <= n, LinesInOrder(f, m)
  PROVE  LinesInOrder(f, n)
<1>1. \A i \in 1 .. Len(f) : f[i].entry \in Int
  <2> TAKE i \in 1 .. Len(f)
  <2>1. f[i] \in Lines BY ElementOfSeq
  <2>2. f[i].entry \in Entries BY <2>1, LineTypes DEF Forms
  <2> QED BY <2>2, Bounds DEF Entries
<1> QED BY <1>1 DEF LinesInOrder

LEMMA InitIInv == Init => IInv
<1> SUFFICES ASSUME Init PROVE IInv
  OBVIOUS
<1>1. \A S : <<>> \in Seq(S) /\ Len(<<>>) = 0
  BY EmptySeq
<1>2. TypeOK
  <2>1. file \in Seq(Lines) /\ disk \in Seq(Lines) /\ whole \in 0 .. Len(file) BY <1>1 DEF Init
  <2>2. /\ up \in BOOLEAN /\ torn \in BOOLEAN /\ unended \in BOOLEAN /\ unsynced \in BOOLEAN
        /\ fault \in BOOLEAN /\ again \in BOOLEAN /\ running \in BOOLEAN
    BY DEF Init
  <2>3. told \in {"Room", "Low", "Stopped"} /\ free \in {"low", "some", "high"} BY DEF Init
  <2>4. /\ waiting \in Seq(Entries) /\ journal \in Seq(Entries) /\ promised \in Seq(Entries)
        /\ opened \in 0 .. Len(journal)
    BY <1>1 DEF Init
  <2>5. /\ said \in 0 .. MaxEntries /\ fails \in 0 .. MaxFails /\ badsyncs \in 0 .. MaxUnsynced
        /\ untold \in 0 .. MaxUntold /\ crashes \in 0 .. MaxCrashes /\ losses \in 0 .. MaxLosses
    BY Bounds DEF Init
  <2> QED BY <2>1, <2>2, <2>3, <2>4, <2>5 DEF TypeOK
<1>3. Reads(<<>>) /\ LinesInOrder(<<>>, 0) /\ Readable(<<>>) = <<>>
  BY <1>1 DEF Reads, LinesInOrder, Readable
<1>4. Sured /\ Synced /\ Alive /\ Files /\ DebtIsTried
  BY <1>1, <1>3 DEF Init, Sured, Held, Sure, Synced, Alive, Files, DebtIsTried
<1> QED BY <1>2, <1>4 DEF IInv

\* One pass of the ear, of a queue that with the lines of the file is the journal.
LEMMA PassKeeps ==
  ASSUME IInv, up, NEW q \in Seq(Entries), NEW timer \in BOOLEAN, NEW run \in BOOLEAN, Pass(q, timer, run),
         q = <<>> => waiting = <<>>,
         said' \in 0 .. MaxEntries, said <= said', journal' \in Seq(Entries),
         Joined(journal', file, whole, q), InOrder(journal', said'), opened <= Len(journal'),
         UNCHANGED <<disk, up, free, opened, promised, badsyncs, crashes, losses>>
  PROVE  IInv'
<1>1. PICK r \in Flushed(q) :
        /\ r.waiting # <<>> => fails < MaxFails
        /\ fails' = fails + (IF r.waiting # <<>> THEN 1 ELSE 0)
        /\ SetLines(r.lines) /\ waiting' = r.waiting /\ fault' = r.fault
        /\ Tell(r.fault, timer)
        /\ running' = (run \/ Speaks(r.fault))
  BY DEF Pass
<1>2. TypeOK /\ Good(Now) /\ Landed(q, r)
  BY FlushLands DEF IInv, Alive
<1>3. /\ file' \in Seq(Lines) /\ Good(r.lines)
      /\ file' = r.lines.file /\ whole' = r.lines.whole /\ torn' = r.lines.torn /\ torn' \in BOOLEAN
      /\ unended' \in BOOLEAN /\ unsynced' = r.lines.unsynced /\ unsynced' \in BOOLEAN
      /\ whole' \in Nat /\ waiting' \in Seq(Entries)
  BY <1>1, <1>2 DEF SetLines, Landed, States
<1>4. Good(Now)' /\ Reads(file')
  BY <1>3 DEF Good, Now
<1>5. /\ whole' \in 0 .. Len(file') /\ whole \in Nat
  BY <1>2, <1>3 DEF Good, TypeOK
<1>6. LinesInOrder(file, said') /\ LinesInOrder(disk, said')
  <2>1. said \in Int /\ said' \in Int /\ said <= said' BY <1>2 DEF TypeOK
  <2>2. said \in Nat /\ said' \in Nat /\ file \in Seq(Lines) /\ disk \in Seq(Lines) BY <1>2, Bounds DEF TypeOK
  <2> QED BY <1>2, <2>1, <2>2, StillInOrder DEF IInv, Files
<1>7. LinesInOrder(file', said') /\ Joined(journal', file', whole', waiting')
  BY <1>1, <1>2, <1>3, <1>6, FlushKeeps
<1>8. Alive' /\ Files'
  BY <1>4, <1>6, <1>7 DEF Alive, Files, IInv
<1>9. \A i \in 1 .. whole : file'[i].entry = file[i].entry
  BY <1>2, <1>3 DEF Landed
<1>10. whole <= whole'
  <2>1. whole' = whole + (Len(q) - Len(r.waiting)) /\ Len(r.waiting) <= Len(q)
    BY <1>2, <1>3 DEF Landed
  <2>2. Len(q) \in Nat /\ Len(r.waiting) \in Nat BY <1>1, <1>3
  <2> QED BY <1>5, <2>1, <2>2
<1>11. Sured'
  <2>1. Sure \in Nat /\ Sure <= whole BY <1>2, ReadableLines DEF IInv, Sured, Held, Sure, TypeOK
  <2>2. Sure' = Sure /\ Held' = whole' BY DEF Sure, Held
  <2> QED BY <1>5, <1>9, <1>10, <2>1, <2>2 DEF IInv, Sured
<1>12. Synced'
  <2>1. ~unsynced' => ~unsynced /\ whole' = whole
    <3>1. Len(q) - Len(r.waiting) \in Nat
      BY <1>1, <1>2, <1>3 DEF Landed
    <3>2. unsynced \/ Len(q) - Len(r.waiting) > 0 => unsynced' = TRUE
      BY <1>2, <1>3 DEF Landed
    <3>3. whole' = whole + (Len(q) - Len(r.waiting)) BY <1>2, <1>3 DEF Landed
    <3> QED BY <1>5, <3>1, <3>2, <3>3
  <2>2. waiting' = <<>> /\ q # <<>> => Len(file') = whole'
    BY <1>1, <1>2, <1>3 DEF Landed
  <2>3. q = <<>> => file' = file /\ whole' = whole /\ unsynced' = unsynced /\ waiting = <<>>
    BY <1>2, <1>3 DEF Landed, Now
  <2>4. Sure' = Sure BY DEF Sure
  <2> QED BY <2>1, <2>2, <2>3, <2>4 DEF IInv, Synced
<1>13. fault' \in BOOLEAN /\ (waiting' # <<>> => fault')
  BY <1>1, <1>2 DEF Landed, TypeOK
<1>14. again' \in BOOLEAN /\ (fault' => again')
  BY <1>1, <1>13 DEF Tell, Retry
<1>15. told' \in {"Room", "Low", "Stopped"} /\ untold' \in 0 .. MaxUntold
  <2>1. told \in {"Room", "Low", "Stopped"} /\ untold \in 0 .. MaxUntold /\ MaxUntold \in Nat
    BY <1>2, Bounds DEF TypeOK
  <2>2. Tell(r.fault, timer) BY <1>1
  <2> QED BY <2>1, <2>2 DEF Tell, Tells, Known
<1>16. fault' => told' = "Stopped" \/ untold' > 0
  <2>1. untold \in 0 .. MaxUntold /\ MaxUntold \in Nat BY <1>2, Bounds DEF TypeOK
  <2>2. Tell(r.fault, timer) /\ fault' = r.fault BY <1>1
  <2> QED BY <2>1, <2>2 DEF Tell, Tells
<1>17. DebtIsTried'
  BY <1>13, <1>14, <1>16 DEF DebtIsTried
<1>18. running' \in BOOLEAN /\ fails' \in 0 .. MaxFails
  <2>1. fails \in 0 .. MaxFails /\ MaxFails \in Nat /\ running' = (run \/ Speaks(r.fault))
        /\ (r.waiting # <<>> => fails < MaxFails)
        /\ fails' = fails + (IF r.waiting # <<>> THEN 1 ELSE 0)
    BY <1>1, <1>2, Bounds DEF TypeOK
  <2> QED BY <2>1
<1>19. TypeOK'
  <2>1. /\ disk' \in Seq(Lines) /\ up' \in BOOLEAN /\ free' \in {"low", "some", "high"}
        /\ promised' \in Seq(Entries) /\ badsyncs' \in 0 .. MaxUnsynced
        /\ crashes' \in 0 .. MaxCrashes /\ losses' \in 0 .. MaxLosses /\ opened \in Nat
    BY <1>2 DEF TypeOK
  <2>2. opened' \in 0 .. Len(journal') BY <2>1
  <2> QED BY <1>3, <1>5, <1>13, <1>14, <1>15, <1>18, <2>1, <2>2 DEF TypeOK
<1> QED BY <1>8, <1>11, <1>12, <1>17, <1>19 DEF IInv

\* What the journal says to keep goes after what waits.
LEMMA HearKeeps == ASSUME IInv, Hear PROVE IInv'
<1> DEFINE q == Append(waiting, said + 1)
<1>1. /\ up /\ said < MaxEntries /\ said' = said + 1 /\ journal' = Append(journal, said + 1)
      /\ Pass(q, again, TRUE)
      /\ UNCHANGED <<disk, up, free, opened, promised, badsyncs, crashes, losses>>
  BY DEF Hear, ghosts
<1>2. /\ said \in 0 .. MaxEntries /\ MaxEntries \in Nat /\ said + 1 \in Entries /\ whole \in Nat
      /\ waiting \in Seq(Entries) /\ journal \in Seq(Entries) /\ again \in BOOLEAN /\ opened \in 0 .. Len(journal)
      /\ said \in Nat /\ file \in Seq(Lines)
  BY <1>1, Bounds DEF IInv, TypeOK, Entries
<1>3. Joined(journal, file, whole, waiting) /\ InOrder(journal, said)
  BY <1>1 DEF IInv, Alive
<1>4. q \in Seq(Entries) /\ q # <<>> /\ journal' \in Seq(Entries) /\ Len(journal') = Len(journal) + 1
  BY <1>1, <1>2, AppendProperties, EmptySeq
<1>5. Joined(journal', file, whole, q) /\ InOrder(journal', said')
  BY <1>1, <1>2, <1>3, JoinedLonger
<1> HIDE DEF q
<1>6. said' \in 0 .. MaxEntries /\ said <= said' /\ opened <= Len(journal') /\ TRUE \in BOOLEAN
  BY <1>1, <1>2, <1>4
<1> QED BY <1>1, <1>2, <1>4, <1>5, <1>6, PassKeeps

\* The timer of a new try adds nothing to what waits.
LEMMA WorkedKeeps == ASSUME IInv, Worked PROVE IInv'
<1>1. /\ up /\ Pass(waiting, FALSE, running) /\ said' = said /\ journal' = journal
      /\ UNCHANGED <<disk, up, free, opened, promised, badsyncs, crashes, losses>>
  BY DEF Worked, ghosts
<1>2. TypeOK /\ Joined(journal, file, whole, waiting) /\ InOrder(journal, said)
  BY <1>1 DEF IInv, Alive
<1>3. /\ said' \in 0 .. MaxEntries /\ said <= said' /\ waiting \in Seq(Entries) /\ journal' \in Seq(Entries)
      /\ FALSE \in BOOLEAN /\ running \in BOOLEAN /\ opened <= Len(journal')
  BY <1>1, <1>2, Bounds DEF TypeOK
<1>4. Joined(journal', file, whole, waiting) /\ InOrder(journal', said')
  BY <1>1, <1>2
<1> QED BY <1>1, <1>3, <1>4, PassKeeps

LEMMA FreeKeeps == ASSUME IInv, FreeChanges PROVE IInv'
BY DEF FreeChanges, lines, ear, ghosts, IInv, TypeOK, Alive, Files, Sured, Synced, DebtIsTried, Held, Sure, Now

\* A file that a reader takes whole, or whose last line is a part.
LEMMA OpenKeeps == ASSUME IInv, Open PROVE IInv'
<1> DEFINE f == Readable(file)
<1>1. /\ ~up /\ up' = TRUE /\ whole' = Len(f) /\ torn' \in BOOLEAN /\ unended' \in BOOLEAN
      /\ torn' = ((IF file = <<>> THEN "ended" ELSE file[Len(file)].form) = "part")
      /\ unsynced' = FALSE /\ waiting' = <<>> /\ fault' = FALSE /\ told' = "Room" /\ again' = FALSE
      /\ running' = FALSE /\ journal' = Read(file) /\ opened' = Len(journal')
      /\ UNCHANGED <<file, disk, free, said, promised, fails, badsyncs, untold, crashes, losses>>
  BY DEF Open
<1>2. TypeOK /\ Files /\ Sured
  BY DEF IInv
<1>3. file \in Seq(Lines) /\ said \in Nat /\ Len(file) \in Nat
  BY <1>2, Bounds DEF TypeOK
<1>4. /\ f \in Seq(Lines) /\ Len(f) \in Nat /\ Len(f) <= Len(file) /\ Len(file) <= Len(f) + 1
      /\ \A i \in 1 .. Len(f) : f[i] = file[i]
      /\ Len(file) > 0 /\ file[Len(file)].form = "part" <=> Len(file) = Len(f) + 1
  BY <1>3, ReadableLines
<1> HIDE DEF f
<1>5. journal' \in Seq(Entries) /\ Len(journal') = Len(f) /\ \A i \in 1 .. Len(f) : journal'[i] = file[i].entry
  <2>1. \A i \in 1 .. Len(f) : f[i].entry \in Entries
    <3> TAKE i \in 1 .. Len(f)
    <3>1. f[i] \in Lines BY <1>4, ElementOfSeq
    <3> QED BY <3>1, LineTypes DEF Forms
  <2>2. journal' = [i \in 1 .. Len(f) |-> f[i].entry]
    BY <1>1, <1>4 DEF Read, EntriesOf, f
  <2>3. journal' \in Seq(Entries) /\ Len(journal') = Len(f)
    BY <1>4, <2>1, <2>2, IsASeq
  <2> QED BY <1>4, <2>2, <2>3
<1>6. Reads(file) /\ LinesInOrder(file, said)
  BY <1>2 DEF Files
<1>7. torn' <=> Len(file) = Len(f) + 1
  <2>1. file = <<>> <=> Len(file) = 0 BY <1>3, EmptySeq
  <2>2. CASE file = <<>>
    <3>1. torn' = FALSE BY <1>1, <2>2
    <3> QED BY <1>3, <1>4, <2>1, <2>2, <3>1
  <2>3. CASE file # <<>>
    <3>1. torn' = (file[Len(file)].form = "part") BY <1>1, <2>3
    <3>2. Len(file) > 0 BY <1>3, <2>1, <2>3
    <3> QED BY <1>4, <3>1, <3>2
  <2> QED BY <2>2, <2>3
<1>8. Len(f) > 0 => file[Len(f)].form # "part"
  <2>1. CASE Len(file) = Len(f) BY <1>4, <2>1
  <2>2. CASE Len(file) = Len(f) + 1 /\ Len(f) > 0
    <3>1. Len(f) \in 1 .. Len(file) - 1 BY <1>4, <2>2
    <3> QED BY <1>6, <3>1 DEF Reads
  <2> QED BY <1>3, <1>4, <2>1, <2>2
<1>9. Good(Now)'
  BY <1>1, <1>3, <1>4, <1>6, <1>7, <1>8 DEF Good, Now
<1>10. Joined(journal', file', whole', waiting') /\ InOrder(journal', said')
  <2>1. Len(<<>>) = 0 BY EmptySeq
  <2>2. Joined(journal', file, Len(f), <<>>)
    BY <1>4, <1>5, <2>1 DEF Joined
  <2>3. InOrder(journal', said)
    BY <1>3, <1>4, <1>5, <1>6 DEF InOrder, LinesInOrder
  <2> QED BY <1>1, <2>2, <2>3
<1>11. Alive' /\ Files'
  BY <1>1, <1>2, <1>9, <1>10 DEF Alive, Files
<1>12. Sured'
  <2>1. Held' = Held /\ Sure' = Sure BY <1>1 DEF Held, Sure, f
  <2> QED BY <1>1, <1>2, <2>1 DEF Sured
<1>13. Synced' /\ DebtIsTried'
  BY <1>1, <1>4, <1>5 DEF Synced, DebtIsTried
<1>14. TypeOK'
  <2>1. \A S : <<>> \in Seq(S) BY EmptySeq
  <2>2. waiting' \in Seq(Entries) /\ whole' \in 0 .. Len(file') /\ opened' \in 0 .. Len(journal')
    BY <1>1, <1>4, <1>5, <2>1
  <2>3. /\ file' \in Seq(Lines) /\ disk' \in Seq(Lines) /\ free' \in {"low", "some", "high"}
        /\ said' \in 0 .. MaxEntries /\ promised' \in Seq(Entries) /\ fails' \in 0 .. MaxFails
        /\ badsyncs' \in 0 .. MaxUnsynced /\ untold' \in 0 .. MaxUntold /\ crashes' \in 0 .. MaxCrashes
        /\ losses' \in 0 .. MaxLosses
    BY <1>1, <1>2 DEF TypeOK
  <2> QED BY <1>1, <1>5, <2>2, <2>3 DEF TypeOK
<1> QED BY <1>11, <1>12, <1>13, <1>14 DEF IInv

\* The whole lines of a good state are among those that a reader takes.
LEMMA GoodReadable ==
  ASSUME NEW w \in States, Good(w)
  PROVE  w.whole <= Len(Readable(w.file)) /\ (Len(w.file) = w.whole => Len(Readable(w.file)) = w.whole)
<1>1. /\ w.file \in Seq(Lines) /\ w.whole \in Nat /\ w.whole <= Len(w.file) /\ Len(w.file) <= w.whole + 1
      /\ w.whole > 0 => w.file[w.whole].form # "part"
  BY DEF Good, States
<1>2. /\ Len(Readable(w.file)) \in Nat /\ Len(Readable(w.file)) <= Len(w.file)
      /\ Len(w.file) <= Len(Readable(w.file)) + 1
      /\ Len(w.file) > 0 /\ w.file[Len(w.file)].form = "part" <=> Len(w.file) = Len(Readable(w.file)) + 1
  BY <1>1, ReadableLines
<1>3. CASE Len(w.file) = w.whole
  BY <1>1, <1>2, <1>3
<1>4. CASE Len(w.file) = w.whole + 1
  BY <1>1, <1>2, <1>4
<1>5. Len(w.file) = w.whole \/ Len(w.file) = w.whole + 1
  BY <1>1
<1> QED BY <1>3, <1>4, <1>5

\* The first lines of a file.
LEMMA FirstLines ==
  ASSUME NEW S, NEW f \in Seq(S), NEW n \in Nat, n <= Len(f)
  PROVE  /\ SubSeq(f, 1, n) \in Seq(S) /\ Len(SubSeq(f, 1, n)) = n
         /\ \A i \in 1 .. n : SubSeq(f, 1, n)[i] = f[i]
<1>1. \A i \in 1 .. n : f[i] \in S /\ 1 + i - 1 = i
  BY ElementOfSeq
<1>2. n - 1 + 1 = n /\ (1 <= n \/ n = 0)
  OBVIOUS
<1> QED BY <1>1, <1>2, SubSeqProperties

\* Two sequences that agree up to the length of the first one.
LEMMA PrefixOf ==
  ASSUME NEW S, NEW s \in Seq(S), NEW t \in Seq(S)
  PROVE  IsPrefix(s, t) <=> Len(s) <= Len(t) /\ \A i \in 1 .. Len(s) : s[i] = t[i]
<1>1. Len(s) \in Nat /\ Len(t) \in Nat OBVIOUS
<1>2. CASE Len(s) <= Len(t)
  <2>1. SubSeq(s, 1, Len(s)) = s BY SubSeqFull
  <2>2. /\ SubSeq(t, 1, Len(s)) \in Seq(S) /\ Len(SubSeq(t, 1, Len(s))) = Len(s)
        /\ \A i \in 1 .. Len(s) : SubSeq(t, 1, Len(s))[i] = t[i]
    BY <1>1, <1>2, FirstLines
  <2>3. s = SubSeq(t, 1, Len(s)) <=> \A i \in 1 .. Len(s) : s[i] = SubSeq(t, 1, Len(s))[i]
    BY <2>2, SeqEqual
  <2> QED BY <1>2, <2>1, <2>2, <2>3 DEF IsPrefix
<1>3. CASE ~(Len(s) <= Len(t))
  BY <1>3 DEF IsPrefix
<1> QED BY <1>2, <1>3

\* The process dies in a keep or between two: what it landed stays, and is in the order of its saying.
LEMMA CrashKeeps == ASSUME IInv, Crash PROVE IInv'
<1>1. PICK more \in {0} \cup {k \in {1} : said < MaxEntries} :
        /\ said' = said + more
        /\ \E r \in Flushed(IF more = 1 THEN Append(waiting, said') ELSE waiting) : SetLines(r.lines)
  BY DEF Crash
<1> DEFINE q == IF more = 1 THEN Append(waiting, said') ELSE waiting
<1>2. PICK r \in Flushed(q) : SetLines(r.lines)
  BY <1>1
<1>3. /\ up /\ up' = FALSE /\ crashes < MaxCrashes /\ crashes' = crashes + 1
      /\ UNCHANGED <<disk, waiting, fault, told, again, untold, free, running, journal, opened, promised,
                     fails, badsyncs, losses>>
  BY DEF Crash, ear, ghosts
<1>4. TypeOK /\ Good(Now) /\ Joined(journal, file, whole, waiting) /\ InOrder(journal, said) /\ Files /\ Sured
  BY <1>3 DEF IInv, Alive
<1>5. /\ said \in 0 .. MaxEntries /\ MaxEntries \in Nat /\ whole \in Nat /\ waiting \in Seq(Entries)
      /\ journal \in Seq(Entries) /\ file \in Seq(Lines) /\ disk \in Seq(Lines)
  BY <1>4, Bounds DEF TypeOK
<1>6. said' \in 0 .. MaxEntries /\ said <= said' /\ (more = 1 => said' \in Entries /\ said' = said + 1)
  BY <1>1, <1>5 DEF Entries
<1> DEFINE j == IF more = 1 THEN Append(journal, said') ELSE journal
<1>7. q \in Seq(Entries) /\ j \in Seq(Entries) /\ Joined(j, file, whole, q) /\ InOrder(j, said')
  <2>1. CASE more = 1
    <3>1. said \in Nat /\ said' = said + 1 /\ said + 1 \in Entries BY <1>5, <1>6, <2>1
    <3>2. q = Append(waiting, said + 1) /\ j = Append(journal, said + 1) BY <2>1, <3>1
    <3> HIDE DEF q, j
    <3>3. q \in Seq(Entries) /\ j \in Seq(Entries) BY <1>5, <3>1, <3>2
    <3>4. Joined(j, file, whole, q) /\ InOrder(j, said + 1)
      BY <1>4, <1>5, <3>1, <3>2, JoinedLonger
    <3> QED BY <3>1, <3>3, <3>4
  <2>2. CASE more = 0
    BY <1>1, <1>4, <1>5, <2>2
  <2> QED BY <1>1, <2>1, <2>2
<1> HIDE DEF q, j
<1>8. Landed(q, r)
  BY <1>2, <1>4, <1>7, FlushLands
<1>9. LinesInOrder(file, said') /\ LinesInOrder(disk, said')
  BY <1>4, <1>5, <1>6, StillInOrder DEF Files
<1>10. /\ r.lines \in States /\ Good(r.lines) /\ file' = r.lines.file /\ whole' = r.lines.whole
       /\ torn' = r.lines.torn /\ unended' = r.lines.unended /\ unsynced' = r.lines.unsynced
  BY <1>2, <1>8 DEF Landed, SetLines
<1>11. /\ file' \in Seq(Lines) /\ whole' \in 0 .. Len(file') /\ torn' \in BOOLEAN /\ unended' \in BOOLEAN
       /\ unsynced' \in BOOLEAN
  BY <1>10 DEF States, Good
<1>12. Files'
  <2>1. LinesInOrder(file', said')
    BY <1>4, <1>6, <1>7, <1>8, <1>9, <1>10, FlushKeeps
  <2> QED BY <1>3, <1>4, <1>9, <1>10, <2>1 DEF Files, Good
<1>13. Sured'
  <2>1. whole <= whole'
    <3>1. whole' = whole + (Len(q) - Len(r.waiting)) /\ Len(r.waiting) <= Len(q) /\ r.waiting \in Seq(Entries)
      BY <1>8, <1>10 DEF Landed
    <3>2. Len(q) \in Nat /\ Len(r.waiting) \in Nat BY <1>7, <3>1
    <3> QED BY <1>5, <3>1, <3>2
  <2>2. \A i \in 1 .. whole : file'[i].entry = file[i].entry
    BY <1>8, <1>10 DEF Landed
  <2>3. whole' <= Len(Readable(file')) /\ Len(Readable(file')) \in Nat
    BY <1>10, <1>11, GoodReadable, ReadableLines
  <2>4. Held' = Len(Readable(file')) /\ Sure' = Sure /\ Sure \in Nat
    BY <1>3, <1>5, ReadableLines DEF Held, Sure
  <2>5. Sure <= whole
    BY <1>3, <1>4 DEF Sured, Held
  <2>6. Sure <= Held' /\ \A i \in 1 .. Sure : disk[i].entry = file'[i].entry
    BY <1>4, <1>5, <1>11, <2>1, <2>2, <2>3, <2>4, <2>5 DEF Sured
  <2> QED BY <1>3, <1>4, <2>4, <2>6 DEF Sured
<1>14. Alive' /\ Synced' /\ DebtIsTried'
  BY <1>3 DEF Alive, Synced, DebtIsTried
<1>15. TypeOK'
  <2>1. crashes' \in 0 .. MaxCrashes
    <3>1. crashes \in 0 .. MaxCrashes /\ MaxCrashes \in Nat BY <1>4, Bounds DEF TypeOK
    <3> QED BY <1>3, <3>1
  <2>2. /\ disk' \in Seq(Lines) /\ waiting' \in Seq(Entries) /\ fault' \in BOOLEAN
        /\ told' \in {"Room", "Low", "Stopped"} /\ again' \in BOOLEAN
        /\ free' \in {"low", "some", "high"} /\ running' \in BOOLEAN
        /\ journal' \in Seq(Entries) /\ promised' \in Seq(Entries)
        /\ opened' \in 0 .. Len(journal') /\ fails' \in 0 .. MaxFails /\ badsyncs' \in 0 .. MaxUnsynced
        /\ untold' \in 0 .. MaxUntold /\ losses' \in 0 .. MaxLosses
    BY <1>3, <1>4 DEF TypeOK
  <2> QED BY <1>3, <1>6, <1>11, <2>1, <2>2 DEF TypeOK
<1> QED BY <1>12, <1>13, <1>14, <1>15 DEF IInv

\* What a loss of power leaves is a sound file, with each entry that a sync made durable.
LEMMA SurvivorLines ==
  ASSUME IInv, NEW f \in Survivors
  PROVE  /\ f \in Seq(Lines) /\ Reads(f) /\ LinesInOrder(f, said)
         /\ Sure <= Len(Readable(f))
         /\ \A i \in 1 .. Sure : f[i].entry = disk[i].entry
         /\ f = disk \/ (Len(f) <= Len(file) /\ \A i \in 1 .. Len(f) : f[i].entry = file[i].entry)
<1>1. /\ file \in Seq(Lines) /\ disk \in Seq(Lines) /\ Len(file) \in Nat /\ Reads(file) /\ Reads(disk)
      /\ LinesInOrder(file, said) /\ LinesInOrder(disk, said) /\ whole \in Nat
  BY DEF IInv, TypeOK, Files
<1>2. Sure \in Nat /\ Sure <= Held /\ \A i \in 1 .. Sure : disk[i].entry = file[i].entry
  BY <1>1, ReadableLines DEF IInv, Sured, Sure
<1>3. Held \in Nat /\ Held <= Len(file) /\ (Held > 0 => file[Held].form # "part")
  <2>1. CASE up
    <3>1. Good(Now) BY <2>1 DEF IInv, Alive
    <3> QED BY <1>1, <2>1, <3>1 DEF Good, Now, Held
  <2>2. CASE ~up
    <3>1. Held = Len(Readable(file)) BY <2>2 DEF Held
    <3>2. /\ Held \in Nat /\ Held <= Len(file) /\ Len(file) <= Held + 1
          /\ Len(file) > 0 /\ file[Len(file)].form = "part" <=> Len(file) = Held + 1
      BY <1>1, <3>1, ReadableLines
    <3>3. CASE Held = Len(file) BY <1>1, <3>2, <3>3
    <3>4. CASE Held # Len(file) /\ Held > 0
      <4>1. Held \in 1 .. Len(file) - 1 BY <1>1, <3>2, <3>4
      <4> QED BY <1>1, <3>2, <4>1 DEF Reads
    <3> QED BY <3>2, <3>3, <3>4
  <2> QED BY <2>1, <2>2
<1>4. \A i \in 1 .. Sure : i \in 1 .. Len(file) /\ file[i].form # "part"
  <2> TAKE i \in 1 .. Sure
  <2>1. CASE i < Len(file)
    <3>1. i \in 1 .. Len(file) - 1 BY <1>1, <1>2, <2>1
    <3> QED BY <1>1, <3>1 DEF Reads
  <2>2. CASE ~(i < Len(file))
    <3>1. i = Held /\ i \in 1 .. Len(file) /\ Held > 0 BY <1>1, <1>2, <1>3, <2>2
    <3> QED BY <1>3, <3>1
  <2> QED BY <2>1, <2>2
<1>5. CASE f = disk
  <2>1. Sure <= Len(Readable(f)) BY <1>2, <1>5 DEF Sure
  <2> QED BY <1>1, <1>5, <2>1
<1>6. ASSUME NEW n \in Nat, Sure <= n, n <= Len(file), f \in Seq(Lines), Len(f) = n,
             \A i \in 1 .. n : f[i].entry = file[i].entry,
             \A i \in 1 .. n - 1 : f[i] = file[i],
             n = Sure /\ n > 0 => f[n] = file[n]
      PROVE  /\ Reads(f) /\ LinesInOrder(f, said) /\ Sure <= Len(Readable(f))
             /\ \A i \in 1 .. Sure : f[i].entry = disk[i].entry
             /\ Len(f) <= Len(file) /\ \A i \in 1 .. Len(f) : f[i].entry = file[i].entry
  <2>1. Reads(f)
    <3>1. \A i \in 1 .. n - 1 : i \in 1 .. Len(file) - 1 BY <1>1, <1>6
    <3> QED BY <1>1, <1>6, <3>1 DEF Reads
  <2>2. LinesInOrder(f, said)
    <3>1. \A i \in 1 .. n : i \in 1 .. Len(file) BY <1>1, <1>6
    <3> QED BY <1>1, <1>6, <3>1 DEF LinesInOrder
  <2>3. Sure <= Len(Readable(f))
    <3>1. /\ Len(Readable(f)) \in Nat /\ Len(Readable(f)) <= Len(f) /\ Len(f) <= Len(Readable(f)) + 1
          /\ Len(f) > 0 /\ f[Len(f)].form = "part" <=> Len(f) = Len(Readable(f)) + 1
      BY <1>6, ReadableLines
    <3>2. CASE Sure < n BY <1>2, <1>6, <3>1, <3>2
    <3>3. CASE n = 0 BY <1>2, <1>6, <3>1, <3>3
    <3>4. CASE Sure = n /\ n > 0
      <4>1. n \in 1 .. Sure /\ f[n] = file[n] BY <1>2, <1>6, <3>4
      <4>2. f[n].form # "part" BY <1>4, <4>1
      <4> QED BY <1>2, <1>6, <3>1, <3>4, <4>2
    <3> QED BY <1>2, <1>6, <3>2, <3>3, <3>4
  <2>4. \A i \in 1 .. Sure : f[i].entry = disk[i].entry
    <3>1. \A i \in 1 .. Sure : i \in 1 .. n BY <1>2, <1>6
    <3> QED BY <1>2, <1>6, <3>1
  <2> QED BY <1>6, <2>1, <2>2, <2>3, <2>4
<1>7. ASSUME NEW n \in Sure .. Len(file), f = SubSeq(file, 1, n)
      PROVE  \E m \in Nat : /\ Sure <= m /\ m <= Len(file) /\ f \in Seq(Lines) /\ Len(f) = m
                            /\ \A i \in 1 .. m : f[i].entry = file[i].entry
                            /\ \A i \in 1 .. m - 1 : f[i] = file[i]
                            /\ m = Sure /\ m > 0 => f[m] = file[m]
  <2>1. n \in Nat /\ Sure <= n /\ n <= Len(file) BY <1>1, <1>2
  <2>2. f \in Seq(Lines) /\ Len(f) = n /\ \A i \in 1 .. n : f[i] = file[i]
    BY <1>1, <1>7, <2>1, FirstLines
  <2>3. \A i \in 1 .. n : f[i].entry = file[i].entry BY <2>2
  <2>4. \A i \in 1 .. n - 1 : f[i] = file[i] BY <2>1, <2>2
  <2>5. n = Sure /\ n > 0 => f[n] = file[n] BY <2>1, <2>2
  <2> QED BY <2>1, <2>2, <2>3, <2>4, <2>5
<1>8. ASSUME NEW n \in Sure + 1 .. Len(file), NEW x \in Weaker(file[n].form),
             f = Append(SubSeq(file, 1, n - 1), Line(file[n].entry, x))
      PROVE  \E m \in Nat : /\ Sure <= m /\ m <= Len(file) /\ f \in Seq(Lines) /\ Len(f) = m
                            /\ \A i \in 1 .. m : f[i].entry = file[i].entry
                            /\ \A i \in 1 .. m - 1 : f[i] = file[i]
                            /\ m = Sure /\ m > 0 => f[m] = file[m]
  <2>1. n \in Nat /\ Sure < n /\ n <= Len(file) /\ n \in 1 .. Len(file) /\ n - 1 \in Nat BY <1>1, <1>2
  <2>2. file[n] \in Lines BY <1>1, <2>1, ElementOfSeq
  <2>3. x \in Forms BY <1>8 DEF Weaker, Forms
  <2>4. Line(file[n].entry, x) \in Lines /\ Line(file[n].entry, x).entry = file[n].entry
    BY <2>2, <2>3, LineTypes
  <2> DEFINE g == SubSeq(file, 1, n - 1)
             l == Line(file[n].entry, x)
  <2>5. g \in Seq(Lines) /\ Len(g) = n - 1 /\ \A i \in 1 .. n - 1 : g[i] = file[i]
    BY <1>1, <2>1, FirstLines
  <2>6. l \in Lines /\ l.entry = file[n].entry /\ f = Append(g, l) BY <1>8, <2>4
  <2> HIDE DEF g, l
  <2>7. f \in Seq(Lines) /\ Len(f) = n /\ f[n] = l /\ \A i \in 1 .. n - 1 : f[i] = file[i]
    BY <2>1, <2>5, <2>6, AppendProperties
  <2>8. \A i \in 1 .. n : f[i].entry = file[i].entry
    <3>1. \A i \in 1 .. n : i \in 1 .. n - 1 \/ i = n BY <2>1
    <3> QED BY <2>6, <2>7, <3>1
  <2> QED BY <1>2, <2>1, <2>7, <2>8
<1>9. f = disk \/ \E m \in Nat : /\ Sure <= m /\ m <= Len(file) /\ f \in Seq(Lines) /\ Len(f) = m
                                 /\ \A i \in 1 .. m : f[i].entry = file[i].entry
                                 /\ \A i \in 1 .. m - 1 : f[i] = file[i]
                                 /\ m = Sure /\ m > 0 => f[m] = file[m]
  BY <1>7, <1>8 DEF Survivors, Sure
<1> QED BY <1>5, <1>6, <1>9

\* After a loss of power the file is what the disk holds, with all that was durable.
LEMMA PowerKeeps == ASSUME IInv, PowerLoss PROVE IInv'
<1>1. PICK f \in Survivors : file' = f /\ disk' = f /\ whole' = Len(Readable(f))
  BY DEF PowerLoss
<1>2. /\ losses < MaxLosses /\ losses' = losses + 1 /\ up' = FALSE
      /\ UNCHANGED <<torn, unended, unsynced, waiting, fault, told, again, untold, free, running, said,
                     journal, opened, promised, fails, badsyncs, crashes>>
  BY DEF PowerLoss, ear, ghosts
<1>3. /\ f \in Seq(Lines) /\ Reads(f) /\ LinesInOrder(f, said) /\ Sure <= Len(Readable(f))
      /\ \A i \in 1 .. Sure : f[i].entry = disk[i].entry
  BY SurvivorLines
<1>4. Len(Readable(f)) \in Nat /\ Len(Readable(f)) <= Len(f) /\ Len(f) \in Nat
  BY <1>3, ReadableLines
<1>5. Files'
  BY <1>1, <1>2, <1>3 DEF Files
<1>6. Sured'
  <2>1. Sure' = Len(Readable(f)) /\ Held' = Len(Readable(f)) BY <1>1, <1>2 DEF Sure, Held
  <2>2. /\ Len(promised) <= Sure /\ \A i \in 1 .. Len(promised) : promised[i] = disk[i].entry
        /\ Len(promised) \in Nat /\ Sure \in Nat
    BY ReadableLines DEF IInv, Sured, TypeOK, Sure
  <2>3. \A i \in 1 .. Len(promised) : promised[i] = f[i].entry
    <3>1. \A i \in 1 .. Len(promised) : i \in 1 .. Sure BY <2>2
    <3> QED BY <1>3, <2>2, <3>1
  <2> QED BY <1>1, <1>2, <1>3, <1>4, <2>1, <2>2, <2>3 DEF Sured
<1>7. Alive' /\ Synced' /\ DebtIsTried'
  BY <1>2 DEF Alive, Synced, DebtIsTried
<1>8. TypeOK'
  <2>1. losses' \in 0 .. MaxLosses
    <3>1. losses \in 0 .. MaxLosses /\ MaxLosses \in Nat BY Bounds DEF IInv, TypeOK
    <3> QED BY <1>2, <3>1
  <2>2. /\ waiting' \in Seq(Entries) /\ fault' \in BOOLEAN
        /\ torn' \in BOOLEAN /\ unended' \in BOOLEAN /\ unsynced' \in BOOLEAN
        /\ told' \in {"Room", "Low", "Stopped"} /\ again' \in BOOLEAN
        /\ free' \in {"low", "some", "high"} /\ running' \in BOOLEAN /\ said' \in 0 .. MaxEntries
        /\ journal' \in Seq(Entries) /\ promised' \in Seq(Entries)
        /\ opened' \in 0 .. Len(journal') /\ fails' \in 0 .. MaxFails /\ badsyncs' \in 0 .. MaxUnsynced
        /\ untold' \in 0 .. MaxUntold /\ crashes' \in 0 .. MaxCrashes
    BY <1>2 DEF IInv, TypeOK
  <2>3. file' \in Seq(Lines) /\ disk' \in Seq(Lines) /\ up' \in BOOLEAN
    BY <1>1, <1>2, <1>3
  <2>4. whole' \in 0 .. Len(file')
    BY <1>1, <1>4
  <2> QED BY <2>1, <2>2, <2>3, <2>4 DEF TypeOK
<1> QED BY <1>5, <1>6, <1>7, <1>8 DEF IInv

\* The types and the debt, of the end of a run.
LEMMA RanTypes ==
  ASSUME IInv, Ran, file' \in Seq(Lines), whole' \in 0 .. Len(file')
  PROVE  TypeOK'
<1>1. PICK r \in Flushed(waiting) :
        /\ whole' = r.lines.whole /\ torn' = r.lines.torn /\ unended' = r.lines.unended
        /\ file' = r.lines.file /\ waiting' = r.waiting
        /\ \/ /\ r.waiting # <<>> /\ fails < MaxFails /\ fails' = fails + 1
              /\ fault' = TRUE /\ unsynced' = r.lines.unsynced /\ UNCHANGED <<disk, badsyncs>>
           \/ /\ r.waiting = <<>> /\ r.lines.unsynced
              /\ badsyncs < MaxUnsynced /\ badsyncs' = badsyncs + 1
              /\ fault' = TRUE /\ unsynced' = TRUE /\ UNCHANGED <<disk, fails>>
           \/ /\ r.waiting = <<>> /\ UNCHANGED <<fails, badsyncs>>
              /\ fault' = FALSE /\ unsynced' = FALSE
              /\ disk' = IF r.lines.unsynced THEN r.lines.file ELSE disk
  BY DEF Ran
<1>2. TypeOK /\ Good(Now) /\ waiting \in Seq(Entries)
  BY DEF IInv, Alive, TypeOK, Ran
<1>3. Landed(waiting, r)
  BY <1>1, <1>2, FlushLands
<1>4. /\ torn' \in BOOLEAN /\ unended' \in BOOLEAN /\ r.lines.unsynced \in BOOLEAN /\ waiting' \in Seq(Entries)
  BY <1>1, <1>3 DEF Landed, States
<1>5. fault' \in BOOLEAN /\ unsynced' \in BOOLEAN
  BY <1>1, <1>4
<1>6. disk' \in Seq(Lines)
  BY <1>1, <1>2 DEF TypeOK
<1>7. fails' \in 0 .. MaxFails /\ badsyncs' \in 0 .. MaxUnsynced
  <2>1. fails \in 0 .. MaxFails /\ badsyncs \in 0 .. MaxUnsynced /\ MaxFails \in Nat /\ MaxUnsynced \in Nat
    BY <1>2, Bounds DEF TypeOK
  <2> QED BY <1>1, <2>1
<1>8. /\ up' \in BOOLEAN /\ told' \in {"Room", "Low", "Stopped"} /\ again' \in BOOLEAN
      /\ free' \in {"low", "some", "high"} /\ running' \in BOOLEAN /\ said' \in 0 .. MaxEntries
      /\ journal' \in Seq(Entries) /\ promised' \in Seq(Entries) /\ opened' \in 0 .. Len(journal')
      /\ untold' \in 0 .. MaxUntold /\ crashes' \in 0 .. MaxCrashes /\ losses' \in 0 .. MaxLosses
  BY <1>2 DEF TypeOK, Ran
<1> QED BY <1>4, <1>5, <1>6, <1>7, <1>8 DEF TypeOK

\* A sync that leaves an entry to wait leaves the timer of its next try.
LEMMA RanDebt == ASSUME IInv, Ran PROVE DebtIsTried'
<1>1. PICK r \in Flushed(waiting) : waiting' = r.waiting /\ (r.waiting # <<>> => fault' = TRUE)
  BY DEF Ran
<1>2. TypeOK /\ Good(Now) /\ waiting \in Seq(Entries) /\ up /\ DebtIsTried
  BY DEF IInv, Alive, TypeOK, Ran
<1>3. Landed(waiting, r)
  BY <1>1, <1>2, FlushLands
<1>4. waiting' # <<>> => waiting # <<>>
  <2>1. r.waiting \in Seq(Entries) /\ Len(r.waiting) <= Len(waiting) BY <1>3 DEF Landed
  <2>2. Len(waiting) \in Nat /\ (waiting = <<>> => Len(waiting) = 0) /\ Len(r.waiting) \in Nat
        /\ (r.waiting # <<>> => Len(r.waiting) > 0)
    BY <1>2, <2>1, EmptySeq
  <2> QED BY <1>1, <2>1, <2>2
<1>5. up' = up /\ again' = again /\ told' = told /\ untold' = untold
  BY DEF Ran
<1> QED BY <1>1, <1>2, <1>4, <1>5 DEF DebtIsTried

\* The end of a run: a good sync answers for all that was said, and a failed one for nothing more.
LEMMA RanKeeps == ASSUME IInv, Ran PROVE IInv'
<1>1. PICK r \in Flushed(waiting) :
        /\ whole' = r.lines.whole /\ torn' = r.lines.torn /\ unended' = r.lines.unended
        /\ file' = r.lines.file /\ waiting' = r.waiting
        /\ \/ /\ r.waiting # <<>> /\ fails < MaxFails /\ fails' = fails + 1
              /\ fault' = TRUE /\ unsynced' = r.lines.unsynced /\ UNCHANGED <<disk, badsyncs>>
           \/ /\ r.waiting = <<>> /\ r.lines.unsynced
              /\ badsyncs < MaxUnsynced /\ badsyncs' = badsyncs + 1
              /\ fault' = TRUE /\ unsynced' = TRUE /\ UNCHANGED <<disk, fails>>
           \/ /\ r.waiting = <<>> /\ UNCHANGED <<fails, badsyncs>>
              /\ fault' = FALSE /\ unsynced' = FALSE
              /\ disk' = IF r.lines.unsynced THEN r.lines.file ELSE disk
  BY DEF Ran
<1>2. /\ up /\ up' = up /\ running' = FALSE
      /\ promised' = IF ~fault' /\ Len(journal) > opened THEN journal ELSE promised
      /\ UNCHANGED <<told, again, free, said, journal, opened, untold, crashes, losses>>
  BY DEF Ran
<1>3. /\ TypeOK /\ Good(Now) /\ Joined(journal, file, whole, waiting) /\ InOrder(journal, said)
      /\ Files /\ Sured /\ Synced /\ DebtIsTried
  BY <1>2 DEF IInv, Alive
<1>4. /\ said \in Nat /\ whole \in Nat /\ waiting \in Seq(Entries) /\ opened \in Nat
      /\ journal \in Seq(Entries) /\ file \in Seq(Lines) /\ disk \in Seq(Lines) /\ promised \in Seq(Entries)
      /\ Len(journal) \in Nat /\ Len(waiting) \in Nat
  BY <1>3, Bounds DEF TypeOK
<1>5. Landed(waiting, r)
  BY <1>1, <1>3, <1>4, FlushLands
<1>6. LinesInOrder(file, said) /\ LinesInOrder(disk, said) /\ Reads(disk)
  BY <1>3 DEF Files
<1>7. LinesInOrder(r.lines.file, said) /\ Joined(journal, r.lines.file, r.lines.whole, r.waiting)
  BY <1>1, <1>3, <1>4, <1>5, <1>6, FlushKeeps
<1>8. /\ r.lines \in States /\ Good(r.lines) /\ r.waiting \in Seq(Entries) /\ Len(r.waiting) \in Nat
      /\ Len(r.waiting) <= Len(waiting) /\ whole' = whole + (Len(waiting) - Len(r.waiting))
      /\ \A i \in 1 .. whole : file'[i].entry = file[i].entry
  BY <1>1, <1>5 DEF Landed
<1>9. /\ file' \in Seq(Lines) /\ whole' \in Nat /\ torn' \in BOOLEAN /\ unended' \in BOOLEAN
      /\ Reads(file') /\ whole <= whole' /\ whole' \in 0 .. Len(file') /\ r.lines.unsynced \in BOOLEAN
  <2>1. /\ r.lines.file \in Seq(Lines) /\ r.lines.whole \in Nat /\ r.lines.torn \in BOOLEAN
        /\ r.lines.unended \in BOOLEAN /\ r.lines.unsynced \in BOOLEAN
        /\ Reads(r.lines.file) /\ r.lines.whole <= Len(r.lines.file)
    BY <1>8 DEF States, Good
  <2>2. whole <= whole' BY <1>4, <1>8
  <2> QED BY <1>1, <2>1, <2>2
<1>10. Good(Now)' /\ Joined(journal', file', whole', waiting') /\ InOrder(journal', said')
  BY <1>1, <1>2, <1>3, <1>7, <1>8 DEF Good, Now
<1>11. Alive'
  BY <1>10 DEF Alive
<1>12. r.waiting = <<>> /\ (r.lines.unsynced \/ whole' > opened) => Len(file') = whole'
  <2>1. CASE waiting # <<>>
    BY <1>1, <1>5, <2>1 DEF Landed
  <2>2. CASE waiting = <<>>
    <3>1. r.lines = Now BY <1>5, <2>2 DEF Landed
    <3>2. file' = file /\ whole' = whole /\ r.lines.unsynced = unsynced BY <1>1, <3>1 DEF Now
    <3> QED BY <1>2, <1>3, <2>2, <3>2 DEF Synced
  <2> QED BY <2>1, <2>2
<1>13. r.lines.unsynced = FALSE => ~unsynced /\ whole' = whole
  <2>1. unsynced \/ Len(waiting) - Len(r.waiting) > 0 => r.lines.unsynced = TRUE
    BY <1>5 DEF Landed
  <2>2. Len(waiting) - Len(r.waiting) \in Nat BY <1>4, <1>8
  <2> QED BY <1>4, <1>8, <2>1, <2>2
<1>14. Sure \in Nat /\ Sure <= whole /\ (\A i \in 1 .. Sure : disk[i].entry = file[i].entry)
       /\ Len(promised) <= Sure /\ Len(promised) \in Nat
       /\ \A i \in 1 .. Len(promised) : promised[i] = disk[i].entry
  <2>1. Sure \in Nat BY <1>4, ReadableLines DEF Sure
  <2>2. Held = whole BY <1>2 DEF Held
  <2>3. Len(promised) \in Nat BY <1>4
  <2> QED BY <1>3, <2>1, <2>2, <2>3 DEF Sured
<1>15. \A i \in 1 .. Sure : disk[i].entry = file'[i].entry
  <2>1. \A i \in 1 .. Sure : i \in 1 .. whole BY <1>4, <1>14
  <2> QED BY <1>8, <1>14, <2>1
<1>16. Held' = whole'
  BY <1>2 DEF Held
<1>17. CASE fault' = TRUE
  <2>1. disk' = disk /\ promised' = promised
    BY <1>1, <1>2, <1>17
  <2>2. Files'
    BY <1>1, <1>2, <1>6, <1>7, <1>9, <2>1 DEF Files
  <2>3. Sured'
    <3>1. Sure' = Sure BY <2>1 DEF Sure
    <3> QED BY <1>9, <1>14, <1>15, <1>16, <2>1, <3>1, <1>4 DEF Sured
  <2>4. Synced'
    <3>1. Sure' = Sure BY <2>1 DEF Sure
    <3>2. CASE r.waiting # <<>>
      <4>1. unsynced' = r.lines.unsynced BY <1>1, <3>2
      <4> QED BY <1>1, <1>2, <1>3, <1>9, <1>13, <3>1, <3>2, <4>1 DEF Synced
    <3>3. CASE r.waiting = <<>>
      <4>1. unsynced' = TRUE /\ r.lines.unsynced BY <1>1, <1>17, <3>3
      <4> QED BY <1>12, <3>3, <4>1 DEF Synced
    <3> QED BY <3>2, <3>3
  <2> QED BY <1>9, <1>11, <2>2, <2>3, <2>4, RanTypes, RanDebt DEF IInv
<1>18. CASE fault' = FALSE
  <2>1. /\ r.waiting = <<>> /\ unsynced' = FALSE /\ disk' = IF r.lines.unsynced THEN file' ELSE disk
        /\ promised' = IF Len(journal) > opened THEN journal ELSE promised
    BY <1>1, <1>2, <1>18
  <2>2. Len(journal) = whole' /\ \A i \in 1 .. whole' : journal[i] = file'[i].entry
    <3>1. Len(<<>>) = 0 BY EmptySeq
    <3> QED BY <1>1, <1>7, <1>9, <2>1, <3>1 DEF Joined
  <2>3. CASE r.lines.unsynced = TRUE
    <3>1. disk' = file' /\ Len(file') = whole' BY <1>12, <2>1, <2>3
    <3>2. Sure' = whole' BY <1>1, <1>8, <3>1, GoodReadable DEF Sure
    <3>3. Files' BY <1>1, <1>2, <1>7, <1>9, <3>1 DEF Files
    <3>4. Len(promised) <= whole' /\ \A i \in 1 .. Len(promised) : promised[i] = file'[i].entry
      <4>1. \A i \in 1 .. Len(promised) : i \in 1 .. Sure BY <1>14
      <4> QED BY <1>4, <1>9, <1>14, <1>15, <4>1
    <3>5. Sured' BY <1>9, <1>16, <2>1, <2>2, <3>1, <3>2, <3>4 DEF Sured
    <3>6. Synced' BY <1>12, <2>1, <3>1, <3>2 DEF Synced
    <3> QED BY <3>3, <3>5, <3>6, <1>9, <1>11, RanTypes, RanDebt DEF IInv
  <2>4. CASE r.lines.unsynced = FALSE
    <3>1. disk' = disk /\ ~unsynced /\ whole' = whole /\ Sure' = Sure BY <1>13, <2>1, <2>4 DEF Sure
    <3>2. Files' BY <1>1, <1>2, <1>6, <1>7, <1>9, <3>1 DEF Files
    <3>3. whole > opened => Sure = whole BY <1>2, <1>3, <3>1 DEF Synced
    <3>4. Sured'
      <4>1. CASE promised' = promised
        BY <1>9, <1>14, <1>15, <1>16, <3>1, <4>1 DEF Sured
      <4>2. CASE promised' = journal /\ Sure = whole
        BY <1>4, <1>14, <1>15, <1>16, <2>2, <3>1, <4>2 DEF Sured
      <4> QED BY <2>1, <2>2, <3>1, <3>3, <4>1, <4>2
    <3>5. Synced' BY <1>2, <1>12, <2>1, <3>1, <3>3 DEF Synced
    <3> QED BY <3>2, <3>4, <3>5, <1>9, <1>11, RanTypes, RanDebt DEF IInv
  <2> QED BY <1>9, <2>3, <2>4
<1> QED BY <1>1, <1>17, <1>18

\* Each step of the store keeps the invariant.
LEMMA NextIInv == IInv /\ [Next]_vars => IInv'
<1> SUFFICES ASSUME IInv, [Next]_vars PROVE IInv'
  OBVIOUS
<1>1. CASE UNCHANGED vars
  BY <1>1 DEF vars, IInv, TypeOK, Alive, Files, Sured, Synced, DebtIsTried, Held, Sure, Now
<1> QED BY <1>1, HearKeeps, WorkedKeeps, RanKeeps, OpenKeeps, CrashKeeps, PowerKeeps, FreeKeeps DEF Next

LEMMA Invariance == Spec => []IInv
BY InitIInv, NextIInv, PTL DEF Spec

-----------------------------------------------------------------------------
(* What the record holds.                                                   *)

\* The entries that a read takes are those of the lines it takes.
LEMMA ReadEntries ==
  ASSUME NEW f \in Seq(Lines)
  PROVE  /\ Read(f) \in Seq(Entries) /\ Len(Read(f)) = Len(Readable(f))
         /\ \A i \in 1 .. Len(Readable(f)) : Read(f)[i] = f[i].entry
<1> DEFINE g == Readable(f)
<1>1. g \in Seq(Lines) /\ Len(g) \in Nat /\ \A i \in 1 .. Len(g) : g[i] = f[i]
  BY ReadableLines
<1>2. Read(f) = [i \in DOMAIN g |-> g[i].entry]
  BY DEF Read, EntriesOf
<1> HIDE DEF g
<1>3. \A i \in 1 .. Len(g) : g[i].entry \in Entries
  <2> TAKE i \in 1 .. Len(g)
  <2>1. g[i] \in Lines BY <1>1, ElementOfSeq
  <2> QED BY <2>1, LineTypes DEF Forms
<1>4. Read(f) = [i \in 1 .. Len(g) |-> g[i].entry]
  BY <1>1, <1>2
<1>5. Read(f) \in Seq(Entries) /\ Len(Read(f)) = Len(g)
  BY <1>1, <1>3, <1>4, IsASeq
<1> QED BY <1>1, <1>4, <1>5 DEF g

\* The record of a life that holds it: its whole lines, none of which is a part.
LEMMA WholeEntries ==
  ASSUME IInv, up
  PROVE  LET k == Read(SubSeq(file, 1, whole))
         IN  k \in Seq(Entries) /\ Len(k) = whole /\ \A i \in 1 .. whole : k[i] = file[i].entry
<1> DEFINE f == SubSeq(file, 1, whole)
<1>1. file \in Seq(Lines) /\ whole \in Nat /\ whole <= Len(file) /\ Good(Now) /\ Len(file) \in Nat
  BY DEF IInv, Alive, TypeOK
<1>2. f \in Seq(Lines) /\ Len(f) = whole /\ \A i \in 1 .. whole : f[i] = file[i]
  BY <1>1, FirstLines
<1> HIDE DEF f
<1>3. whole > 0 => f[whole].form # "part"
  BY <1>1, <1>2 DEF Good, Now
<1>4. Len(Readable(f)) = whole
  <2>1. /\ Len(Readable(f)) \in Nat /\ Len(Readable(f)) <= Len(f) /\ Len(f) <= Len(Readable(f)) + 1
        /\ Len(f) > 0 /\ f[Len(f)].form = "part" <=> Len(f) = Len(Readable(f)) + 1
    BY <1>2, ReadableLines
  <2> QED BY <1>1, <1>2, <1>3, <2>1
<1>5. Read(f) \in Seq(Entries) /\ Len(Read(f)) = whole /\ \A i \in 1 .. whole : Read(f)[i] = f[i].entry
  BY <1>2, <1>4, ReadEntries
<1> QED BY <1>2, <1>5 DEF f

\* What the invariant says line by line is what RecordHolds says of the sequences that a reader takes.
LEMMA RecordHeld == IInv => RecordHolds
<1> SUFFICES ASSUME IInv PROVE RecordHolds
  OBVIOUS
<1>1. /\ file \in Seq(Lines) /\ disk \in Seq(Lines) /\ waiting \in Seq(Entries) /\ journal \in Seq(Entries)
      /\ promised \in Seq(Entries) /\ whole \in Nat
  BY DEF IInv, TypeOK
<1>2. NothingLost
  <2> SUFFICES ASSUME up PROVE Read(SubSeq(file, 1, whole)) \o waiting = journal
    BY DEF NothingLost
  <2> DEFINE k == Read(SubSeq(file, 1, whole))
  <2>1. k \in Seq(Entries) /\ Len(k) = whole /\ \A i \in 1 .. whole : k[i] = file[i].entry
    BY WholeEntries
  <2>2. /\ Len(journal) = whole + Len(waiting) /\ \A i \in 1 .. whole : journal[i] = file[i].entry
        /\ \A i \in 1 .. Len(waiting) : journal[whole + i] = waiting[i]
    BY DEF IInv, Alive, Joined
  <2> HIDE DEF k
  <2>3. /\ k \o waiting \in Seq(Entries) /\ Len(k \o waiting) = whole + Len(waiting)
        /\ \A i \in 1 .. whole + Len(waiting) :
             (k \o waiting)[i] = IF i <= whole THEN k[i] ELSE waiting[i - whole]
    BY <1>1, <2>1, ConcatProperties
  <2>4. ASSUME NEW i \in 1 .. Len(k \o waiting) PROVE (k \o waiting)[i] = journal[i]
    <3>1. CASE i <= whole
      <4>1. i \in 1 .. whole /\ i \in 1 .. whole + Len(waiting) BY <1>1, <2>3, <3>1
      <4>2. (k \o waiting)[i] = k[i] BY <2>3, <3>1, <4>1
      <4> QED BY <2>1, <2>2, <4>1, <4>2
    <3>2. CASE i > whole
      <4>1. i - whole \in 1 .. Len(waiting) /\ whole + (i - whole) = i BY <1>1, <2>3, <3>2
      <4> QED BY <1>1, <2>2, <2>3, <3>2, <4>1
    <3> QED BY <1>1, <2>3, <3>1, <3>2
  <2> QED BY <1>1, <2>2, <2>3, <2>4, SeqEqual DEF k
<1>3. AlwaysReadable
  <2>1. Read(file) \in Seq(Entries) /\ DOMAIN Read(file) = 1 .. Len(Readable(file))
        /\ \A i \in 1 .. Len(Readable(file)) : Read(file)[i] = file[i].entry
    BY <1>1, ReadEntries
  <2>2. \A i \in 1 .. Len(Readable(file)) : i \in 1 .. Len(file)
    BY <1>1, ReadableLines
  <2> QED BY <2>1, <2>2 DEF AlwaysReadable, IInv, Files, LinesInOrder
<1>4. /\ Sure \in Nat /\ Held \in Nat /\ Sure <= Held /\ Held <= Len(Readable(file))
      /\ Len(Readable(file)) \in Nat /\ Len(promised) <= Sure /\ Len(promised) \in Nat
      /\ \A i \in 1 .. Sure : disk[i].entry = file[i].entry
      /\ \A i \in 1 .. Len(promised) : promised[i] = disk[i].entry
  <2>1. up => whole <= Len(Readable(file))
    <3> SUFFICES ASSUME up PROVE whole <= Len(Readable(file))
      OBVIOUS
    <3>1. Now \in States /\ Now.file = file /\ Now.whole = whole /\ Good(Now)
      BY DEF IInv, Alive, TypeOK, Now, States
    <3> QED BY <3>1, GoodReadable
  <2>2. Sure \in Nat /\ Len(Readable(file)) \in Nat BY <1>1, ReadableLines DEF Sure
  <2> QED BY <1>1, <2>1, <2>2 DEF IInv, Sured, Held
<1>5. Durable
  <2>1. Read(disk) \in Seq(Entries) /\ Len(Read(disk)) = Sure
        /\ \A i \in 1 .. Sure : Read(disk)[i] = disk[i].entry
    BY <1>1, ReadEntries DEF Sure
  <2>2. Read(file) \in Seq(Entries) /\ Len(Read(file)) = Len(Readable(file))
        /\ \A i \in 1 .. Len(Readable(file)) : Read(file)[i] = file[i].entry
    BY <1>1, ReadEntries
  <2>3. \A i \in 1 .. Len(promised) : i \in 1 .. Sure /\ i \in 1 .. Len(Readable(file))
    BY <1>4
  <2>4. \A i \in 1 .. Len(promised) : promised[i] = Read(disk)[i] /\ promised[i] = Read(file)[i]
    BY <1>4, <2>1, <2>2, <2>3
  <2>5. Len(promised) <= Len(Read(disk)) /\ Len(promised) <= Len(Read(file))
    BY <1>4, <2>1, <2>2
  <2> QED BY <1>1, <2>1, <2>2, <2>4, <2>5, PrefixOf DEF Durable
<1> QED BY <1>2, <1>3, <1>5 DEF RecordHolds, IInv

\* The state of the store keeps its types.
THEOREM TypesHold == Spec => []TypeOK
<1>1. IInv => TypeOK BY DEF IInv
<1> QED BY <1>1, Invariance, PTL

\* No entry is lost or kept twice, every record can be read, what a sync answered for stays through
\* deaths and losses of power, and each debt is tried again.
THEOREM RecordIsHeld == Spec => []RecordHolds
BY RecordHeld, Invariance, PTL
-----------------------------------------------------------------------------
(* The store implements Record.                                             *)

\* What the record holds: the log that Record speaks of.
Log == IF up THEN Read(SubSeq(file, 1, whole)) ELSE Read(file)

\* The log and its durable part, line for line.
Logged ==
  /\ Log \in Seq(Entries) /\ Len(Log) = Held /\ Held \in Nat
  /\ \A i \in 1 .. Held : Log[i] = file[i].entry
  /\ Read(disk) \in Seq(Entries) /\ Len(Read(disk)) = Sure /\ Sure \in Nat
  /\ \A i \in 1 .. Sure : Read(disk)[i] = disk[i].entry
  /\ Sure <= Held /\ \A i \in 1 .. Sure : disk[i].entry = file[i].entry
  /\ Held <= Len(Readable(file)) /\ Len(file) <= Held + 1 /\ Len(Readable(file)) \in Nat
  /\ Len(file) \in Nat

LEMMA LogIs == IInv => Logged
<1> SUFFICES ASSUME IInv PROVE Logged
  OBVIOUS
<1>1. file \in Seq(Lines) /\ disk \in Seq(Lines) /\ whole \in Nat
  BY DEF IInv, TypeOK
<1>2. /\ Read(file) \in Seq(Entries) /\ Len(Read(file)) = Len(Readable(file))
      /\ \A i \in 1 .. Len(Readable(file)) : Read(file)[i] = file[i].entry
      /\ Len(Readable(file)) \in Nat /\ Len(file) <= Len(Readable(file)) + 1 /\ Len(file) \in Nat
  <2>1. /\ Read(file) \in Seq(Entries) /\ Len(Read(file)) = Len(Readable(file))
        /\ \A i \in 1 .. Len(Readable(file)) : Read(file)[i] = file[i].entry
    BY <1>1, ReadEntries
  <2>2. Len(Readable(file)) \in Nat /\ Len(file) <= Len(Readable(file)) + 1 /\ Len(file) \in Nat
    BY <1>1, ReadableLines
  <2> QED BY <2>1, <2>2
<1>3. /\ Read(disk) \in Seq(Entries) /\ Len(Read(disk)) = Sure /\ Sure \in Nat
      /\ \A i \in 1 .. Sure : Read(disk)[i] = disk[i].entry
  BY <1>1, ReadEntries, ReadableLines DEF Sure
<1>4. Sure <= Held /\ \A i \in 1 .. Sure : disk[i].entry = file[i].entry
  BY DEF IInv, Sured
<1>5. CASE up
  <2>1. Now \in States /\ Now.file = file /\ Now.whole = whole /\ Good(Now)
    BY <1>5 DEF IInv, Alive, TypeOK, Now, States
  <2>2. whole <= Len(Readable(file)) /\ Len(file) <= whole + 1
    BY <2>1, GoodReadable DEF Good
  <2>3. /\ Log \in Seq(Entries) /\ Len(Log) = whole /\ Held = whole
        /\ \A i \in 1 .. whole : Log[i] = file[i].entry
    BY <1>5, WholeEntries DEF Log, Held
  <2> QED BY <1>1, <1>2, <1>3, <1>4, <2>2, <2>3 DEF Logged
<1>6. CASE ~up
  <2>1. Log = Read(file) /\ Held = Len(Readable(file)) BY <1>6 DEF Log, Held
  <2> QED BY <1>2, <1>3, <1>4, <2>1 DEF Logged
<1> QED BY <1>5, <1>6

\* A flush loses no line, and a step of a life or its death makes no durable line less.
LEMMA StepGrows ==
  ASSUME IInv, IInv', Logged, Logged', Hear \/ Worked \/ Ran \/ Open \/ Crash
  PROVE  /\ Held <= Held' /\ \A i \in 1 .. Held : file'[i].entry = file[i].entry
         /\ Sure <= Sure' /\ \A i \in 1 .. Sure : disk'[i].entry = disk[i].entry
<1>1. /\ TypeOK /\ Held \in Nat /\ Held' \in Nat /\ Sure \in Nat /\ Sure' \in Nat /\ Sure <= Held
      /\ \A i \in 1 .. Sure : disk[i].entry = file[i].entry
      /\ Held' <= Len(Readable(file'))
  BY DEF IInv, Logged
<1>2. ASSUME up, NEW q \in Seq(Entries), NEW r \in Flushed(q), file' = r.lines.file, whole' = r.lines.whole
      PROVE  Held = whole /\ whole <= whole' /\ \A i \in 1 .. whole : file'[i].entry = file[i].entry
  <2>1. Landed(q, r)
    BY <1>1, <1>2, FlushLands DEF IInv, Alive
  <2>2. whole' = whole + (Len(q) - Len(r.waiting)) /\ Len(r.waiting) <= Len(q) /\ r.waiting \in Seq(Entries)
        /\ \A i \in 1 .. whole : file'[i].entry = file[i].entry
    BY <1>2, <2>1 DEF Landed
  <2>0. whole \in Nat BY <1>1 DEF TypeOK
  <2>3. Len(q) \in Nat /\ Len(r.waiting) \in Nat /\ whole \in Nat BY <2>0, <2>2
  <2>4. whole <= whole' BY <2>2, <2>3
  <2>5. Held = whole BY <1>2 DEF Held
  <2> QED BY <2>2, <2>4, <2>5
<1>3. ASSUME NEW q \in Seq(Entries), NEW timer, NEW run, up, Pass(q, timer, run), up' = up, disk' = disk
      PROVE  /\ Held <= Held' /\ \A i \in 1 .. Held : file'[i].entry = file[i].entry
             /\ Sure <= Sure' /\ \A i \in 1 .. Sure : disk'[i].entry = disk[i].entry
  <2>1. PICK r \in Flushed(q) : file' = r.lines.file /\ whole' = r.lines.whole
    BY <1>3 DEF Pass, SetLines
  <2>2. Held' = whole' /\ Sure' = Sure BY <1>3 DEF Held, Sure
  <2> QED BY <1>1, <1>2, <1>3, <2>1, <2>2
<1>4. waiting \in Seq(Entries) /\ (said < MaxEntries => Append(waiting, said + 1) \in Seq(Entries))
  <2>1. waiting \in Seq(Entries) /\ said \in 0 .. MaxEntries BY <1>1 DEF TypeOK
  <2>2. said < MaxEntries => said + 1 \in Entries BY <2>1, Bounds DEF Entries
  <2> QED BY <2>1, <2>2
<1>5. CASE Hear
  BY <1>3, <1>4, <1>5 DEF Hear
<1>6. CASE Worked
  BY <1>3, <1>4, <1>6 DEF Worked
<1>7. CASE Ran
  <2>1. PICK r \in Flushed(waiting) : file' = r.lines.file /\ whole' = r.lines.whole
    BY <1>7 DEF Ran
  <2>2. up /\ up' = up /\ (disk' = disk \/ disk' = file')
    BY <1>7 DEF Ran
  <2>3. Held' = whole' /\ Held = whole /\ whole <= whole' /\ \A i \in 1 .. whole : file'[i].entry = file[i].entry
    BY <1>2, <1>4, <2>1, <2>2 DEF Held
  <2>4. CASE disk' = disk
    <3>1. Sure' = Sure BY <2>4 DEF Sure
    <3> QED BY <1>1, <2>3, <2>4, <3>1
  <2>5. CASE disk' = file'
    <3>1. Sure' = Len(Readable(file')) BY <2>5 DEF Sure
    <3>2. Sure <= Sure' BY <1>1, <2>3, <3>1
    <3>3. \A i \in 1 .. Sure : i \in 1 .. whole BY <1>1, <2>3
    <3> QED BY <1>1, <2>3, <2>5, <3>2, <3>3
  <2> QED BY <2>2, <2>4, <2>5
<1>8. CASE Open
  <2>1. ~up /\ up' /\ file' = file /\ disk' = disk /\ whole' = Len(Readable(file))
    BY <1>8 DEF Open
  <2>2. Held' = Held /\ Sure' = Sure BY <2>1 DEF Held, Sure
  <2> QED BY <1>1, <2>1, <2>2
<1>9. CASE Crash
  <2>1. PICK more \in {0} \cup {k \in {1} : said < MaxEntries} :
          /\ said' = said + more
          /\ \E r \in Flushed(IF more = 1 THEN Append(waiting, said') ELSE waiting) : SetLines(r.lines)
    BY <1>9 DEF Crash
  <2>2. up /\ up' = FALSE /\ disk' = disk
    BY <1>9 DEF Crash
  <2> DEFINE q == IF more = 1 THEN Append(waiting, said') ELSE waiting
  <2>3. PICK r \in Flushed(q) : SetLines(r.lines)
    BY <2>1
  <2>4. q \in Seq(Entries)
    BY <1>4, <2>1
  <2> HIDE DEF q
  <2>5. file' = r.lines.file /\ whole' = r.lines.whole
    BY <2>3 DEF SetLines
  <2>6. Held = whole /\ whole <= whole' /\ \A i \in 1 .. whole : file'[i].entry = file[i].entry
    BY <1>2, <2>2, <2>3, <2>4, <2>5
  <2>7. whole' <= Len(Readable(file'))
    <3>1. Landed(q, r)
      BY <1>1, <2>2, <2>3, <2>4, FlushLands DEF IInv, Alive
    <3>2. r.lines \in States /\ Good(r.lines) BY <3>1 DEF Landed
    <3> QED BY <2>5, <3>2, GoodReadable
  <2>8. Held' = Len(Readable(file')) /\ Sure' = Sure
    BY <2>2 DEF Held, Sure
  <2>9. whole \in Nat /\ whole' \in Nat BY DEF IInv, TypeOK
  <2> QED BY <1>1, <2>2, <2>6, <2>7, <2>8, <2>9
<1> QED BY <1>5, <1>6, <1>7, <1>8, <1>9

\* So each such step is a step Grow of the log.
LEMMA GrowMaps ==
  ASSUME IInv, IInv', Logged, Logged', Hear \/ Worked \/ Ran \/ Open \/ Crash
  PROVE  Record!Grow
<1>1. /\ Held <= Held' /\ \A i \in 1 .. Held : file'[i].entry = file[i].entry
      /\ Sure <= Sure' /\ \A i \in 1 .. Sure : disk'[i].entry = disk[i].entry
  BY StepGrows
<1>2. \A s, t \in Seq(Entries) : Record!IsPrefix(s, t) <=> Len(s) <= Len(t) /\ \A i \in 1 .. Len(s) : s[i] = t[i]
  BY PrefixOf DEF IsPrefix, Record!IsPrefix
<1>3. /\ Log \in Seq(Entries) /\ Len(Log) = Held /\ Held \in Nat
      /\ \A i \in 1 .. Held : Log[i] = file[i].entry
      /\ Read(disk) \in Seq(Entries) /\ Len(Read(disk)) = Sure /\ Sure \in Nat
      /\ \A i \in 1 .. Sure : Read(disk)[i] = disk[i].entry
  BY DEF Logged
<1>4. /\ Log' \in Seq(Entries) /\ Len(Log') = Held' /\ Held' \in Nat
      /\ \A i \in 1 .. Held' : Log'[i] = file'[i].entry
      /\ Read(disk') \in Seq(Entries) /\ Len(Read(disk')) = Sure' /\ Sure' \in Nat
      /\ \A i \in 1 .. Sure' : Read(disk')[i] = disk'[i].entry
      /\ Sure' <= Held' /\ \A i \in 1 .. Sure' : disk'[i].entry = file'[i].entry
  BY DEF Logged
<1>5. Record!IsPrefix(Log, Log')
  <2>1. \A i \in 1 .. Held : Log[i] = Log'[i] BY <1>1, <1>3, <1>4
  <2> HIDE DEF Log
  <2>2. Len(Log) <= Len(Log') /\ \A i \in 1 .. Len(Log) : Log[i] = Log'[i] BY <1>1, <1>3, <1>4, <2>1
  <2> QED BY <1>2, <1>3, <1>4, <2>2
<1>6. Record!IsPrefix(Read(disk), Read(disk'))
  <2>1. \A i \in 1 .. Sure : i \in 1 .. Sure' BY <1>1, <1>3, <1>4
  <2>2. Len(Read(disk)) <= Len(Read(disk')) BY <1>1, <1>3, <1>4
  <2>3. \A i \in 1 .. Len(Read(disk)) : Read(disk)[i] = Read(disk')[i] BY <1>1, <1>3, <1>4, <2>1
  <2> QED BY <1>2, <1>3, <1>4, <2>2, <2>3
<1>7. Record!IsPrefix(Read(disk'), Log')
  <2>1. \A i \in 1 .. Sure' : i \in 1 .. Held' BY <1>4
  <2> QED BY <1>2, <1>4, <2>1
<1> QED BY <1>5, <1>6, <1>7 DEF Record!Grow, Log

\* What a loss of power leaves, against what the record held.
LEMMA LossMaps ==
  ASSUME IInv, Logged, Logged', PowerLoss
  PROVE  Record!Lose
<1>1. PICK f \in Survivors : file' = f /\ disk' = f /\ up' = FALSE
  BY DEF PowerLoss
<1>2. /\ f \in Seq(Lines) /\ Sure <= Len(Readable(f))
      /\ \A i \in 1 .. Sure : f[i].entry = disk[i].entry
      /\ f = disk \/ (Len(f) <= Len(file) /\ \A i \in 1 .. Len(f) : f[i].entry = file[i].entry)
  BY SurvivorLines
<1>3. \A s, t \in Seq(Entries) : Record!IsPrefix(s, t) <=> Len(s) <= Len(t) /\ \A i \in 1 .. Len(s) : s[i] = t[i]
  BY PrefixOf DEF IsPrefix, Record!IsPrefix
<1>4. /\ Log \in Seq(Entries) /\ Len(Log) = Held /\ Held \in Nat
      /\ \A i \in 1 .. Held : Log[i] = file[i].entry
      /\ Read(disk) \in Seq(Entries) /\ Len(Read(disk)) = Sure /\ Sure \in Nat
      /\ \A i \in 1 .. Sure : Read(disk)[i] = disk[i].entry
      /\ Sure <= Held /\ \A i \in 1 .. Sure : disk[i].entry = file[i].entry
      /\ Len(file) <= Held + 1 /\ Len(file) \in Nat
  BY DEF Logged
<1> DEFINE n == Len(Readable(f))
<1>5. /\ Log' = Read(f) /\ Read(disk') = Read(f) /\ Read(f) \in Seq(Entries) /\ Len(Read(f)) = n /\ n \in Nat
      /\ \A i \in 1 .. n : Read(f)[i] = f[i].entry
      /\ n <= Len(f) /\ Len(f) \in Nat
  <2>1. Read(f) \in Seq(Entries) /\ Len(Read(f)) = n /\ \A i \in 1 .. n : Read(f)[i] = f[i].entry
    BY <1>2, ReadEntries
  <2>2. n \in Nat /\ n <= Len(f) /\ Len(f) \in Nat
    BY <1>2, ReadableLines
  <2>3. Log' = Read(f) /\ Read(disk') = Read(f)
    BY <1>1 DEF Log
  <2> QED BY <2>1, <2>2, <2>3
<1> HIDE DEF n
<1>6. Record!IsPrefix(Read(disk), Log')
  <2>1. Sure <= n /\ \A i \in 1 .. Sure : i \in 1 .. n BY <1>2, <1>4, <1>5 DEF n
  <2>2. \A i \in 1 .. Sure : Read(disk)[i] = Read(f)[i] BY <1>2, <1>4, <1>5, <2>1
  <2>3. Record!IsPrefix(Read(disk), Read(f)) BY <1>3, <1>4, <1>5, <2>1, <2>2
  <2> QED BY <1>5, <2>3
<1>7. Record!IsPrefix(Log', Log) \/ \E e \in Record!Range(Log') : Log' = Append(Log, e)
  <2>1. CASE f = disk
    <3>1. Log' = Read(disk) BY <1>5, <2>1
    <3>2. \A i \in 1 .. Sure : i \in 1 .. Held BY <1>4
    <3> QED BY <1>3, <1>4, <3>1, <3>2
  <2>2. CASE Len(f) <= Len(file) /\ \A i \in 1 .. Len(f) : f[i].entry = file[i].entry
    <3>1. \A i \in 1 .. n : Log'[i] = file[i].entry
      <4>1. \A i \in 1 .. n : i \in 1 .. Len(f) BY <1>5
      <4> QED BY <1>5, <2>2, <4>1
    <3>2. CASE n <= Held
      <4>1. \A i \in 1 .. n : i \in 1 .. Held BY <1>4, <1>5, <3>2
      <4> QED BY <1>3, <1>4, <1>5, <3>1, <3>2, <4>1
    <3>3. CASE n > Held
      <4>1. n = Held + 1 BY <1>4, <1>5, <2>2, <3>3
      <4> DEFINE e == Log'[n]
      <4>2. n \in 1 .. n /\ e \in Entries /\ n \in DOMAIN Log'
        <5>1. n \in 1 .. Len(Log') BY <1>4, <1>5, <4>1
        <5> QED BY <1>5, <5>1, ElementOfSeq
      <4>3. e \in Record!Range(Log') BY <4>2 DEF Record!Range
      <4> HIDE DEF e
      <4>4. /\ Append(Log, e) \in Seq(Entries) /\ Len(Append(Log, e)) = n
            /\ Append(Log, e)[n] = e /\ \A i \in 1 .. Held : Append(Log, e)[i] = Log[i]
        <5>1. ASSUME NEW l \in Seq(Entries), l = Log
              PROVE  /\ Append(l, e) \in Seq(Entries) /\ Len(Append(l, e)) = n
                     /\ Append(l, e)[n] = e /\ \A i \in 1 .. Held : Append(l, e)[i] = l[i]
          <6>1. Len(l) = Held /\ n = Len(l) + 1 /\ e \in Entries BY <1>4, <4>1, <4>2, <5>1
          <6>2. /\ Append(l, e) \in Seq(Entries) /\ Len(Append(l, e)) = Len(l) + 1
                /\ \A i \in 1 .. Len(l) : Append(l, e)[i] = l[i]
                /\ Append(l, e)[Len(l) + 1] = e
            BY <6>1, AppendProperties
          <6> QED BY <6>1, <6>2
        <5> QED BY <1>4, <5>1
      <4>5. ASSUME NEW i \in 1 .. n PROVE Log'[i] = Append(Log, e)[i]
        <5>1. i \in 1 .. Held \/ i = n BY <1>4, <4>1
        <5> QED BY <1>4, <3>1, <4>4, <5>1 DEF e
      <4>6. Log' = Append(Log, e) BY <1>5, <4>4, <4>5, SeqEqual
      <4> QED BY <4>3, <4>6
    <3> QED BY <1>4, <1>5, <3>2, <3>3
  <2> QED BY <1>2, <2>1, <2>2
<1> QED BY <1>5, <1>6, <1>7 DEF Record!Lose, Log

\* The store promises what the trait Store says: its record only grows, and a loss of power takes
\* only what no sync made durable, but for the line that it cut.
THEOREM StoreKeepsTheRecord == Spec => KeepsTheRecord
<1>1. Init => Record!Init
  <2> SUFFICES ASSUME Init PROVE Record!Init
    OBVIOUS
  <2>1. Readable(<<>>) = <<>> BY DEF Readable
  <2>2. Read(<<>>) = <<>> BY <2>1 DEF Read, EntriesOf
  <2> QED BY <2>2 DEF Init, Record!Init
<1>2. ASSUME IInv, IInv', Logged, Logged', [Next]_vars PROVE [Record!Next]_<<Log, Read(disk)>>
  <2>1. CASE UNCHANGED vars \/ FreeChanges
    <3>1. file' = file /\ disk' = disk /\ up' = up /\ whole' = whole
      BY <2>1 DEF vars, FreeChanges, lines
    <3> QED BY <3>1 DEF Log
  <2>2. CASE PowerLoss
    BY <1>2, <2>2, LossMaps DEF Record!Next
  <2>3. CASE Hear \/ Worked \/ Ran \/ Open \/ Crash
    BY <1>2, <2>3, GrowMaps DEF Record!Next
  <2> QED BY <1>2, <2>1, <2>2, <2>3 DEF Next
<1>3. Record!Init /\ [][Record!Next]_<<Log, Read(disk)>> => KeepsTheRecord
  BY DEF KeepsTheRecord, Record!Spec, Log
<1> QED BY <1>1, <1>2, <1>3, LogIs, Invariance, PTL DEF Spec

\* What the ear tells the operator of its record is true: told that it is written again, he has
\* all of it in the file, for the ear tells it only after a flush that left nothing to wait.
THEOREM CalmIsToldTrue == Spec => CalmIsTrue
<1> DEFINE Calm == told = "Stopped" /\ told' = "Room" /\ up /\ up'
                     => waiting' = <<>> /\ Read(SubSeq(file', 1, whole')) = journal'
<1>1. ASSUME IInv, [Next]_vars, RecordHolds', IInv' PROVE Calm
  <2> SUFFICES ASSUME told = "Stopped", told' = "Room", up, up'
               PROVE  waiting' = <<>> /\ Read(SubSeq(file', 1, whole')) = journal'
    OBVIOUS
  <2>1. Hear \/ Worked
    BY <1>1 DEF Next, vars, Ran, Open, Crash, PowerLoss, FreeChanges, ear
  <2>2. PICK q, timer, run : Pass(q, timer, run) /\ q \in Seq(Entries)
    <3>1. waiting \in Seq(Entries) /\ said \in 0 .. MaxEntries BY <1>1 DEF IInv, TypeOK
    <3>2. CASE Hear
      <4>1. said + 1 \in Entries BY <3>1, <3>2, Bounds DEF Hear, Entries
      <4>2. Append(waiting, said + 1) \in Seq(Entries) BY <3>1, <4>1
      <4> QED BY <3>2, <4>2 DEF Hear
    <3>3. CASE Worked
      BY <3>1, <3>3 DEF Worked
    <3> QED BY <2>1, <3>2, <3>3
  <2>3. PICK r \in Flushed(q) : waiting' = r.waiting /\ Tell(r.fault, timer)
    BY <2>2 DEF Pass
  <2>4. Landed(q, r)
    BY <1>1, <2>2, <2>3, FlushLands DEF IInv, Alive
  <2>5. ~r.fault
    BY <2>3 DEF Tell, Tells
  <2>6. waiting' = <<>>
    BY <2>3, <2>4, <2>5 DEF Landed
  <2>7. Read(SubSeq(file', 1, whole')) \o waiting' = journal'
    BY <1>1 DEF RecordHolds, NothingLost
  <2>8. Read(SubSeq(file', 1, whole')) \in Seq(Entries)
    <3>1. Log' = Read(SubSeq(file', 1, whole')) BY DEF Log
    <3>2. Log' \in Seq(Entries)
      <4>1. IInv' => Logged' BY LogIs, PTL
      <4> QED BY <1>1, <4>1 DEF Logged
    <3> QED BY <3>1, <3>2
  <2>9. Read(SubSeq(file', 1, whole')) \o <<>> = Read(SubSeq(file', 1, whole'))
    BY <2>8, ConcatEmptySeq
  <2> QED BY <2>6, <2>7, <2>9
<1>2. CalmIsTrue <=> [][Calm]_vars
  BY DEF CalmIsTrue
<1> QED BY <1>1, <1>2, RecordHeld, Invariance, PTL DEF Spec

=============================================================================
