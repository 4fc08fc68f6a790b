---------------------------- MODULE EventsProofs ----------------------------
(***************************************************************************)
(* Proofs about Events, for every set of readers, every size of the        *)
(* broadcast and every length of the log. TypeOK is not inductive alone,   *)
(* nor is NeverStranded: ReaderInv says what each phase of a reader keeps. *)
(***************************************************************************)
EXTENDS Events, TLAPS

\* What holds of one reader: outside the stream it holds nothing; what it read from the log starts
\* at the event that it gives next and reaches the broadcast; with nothing read and nothing asked,
\* the broadcast still brings that event; and it is over only past the whole log.
ReaderInv(r) ==
  /\ lo[r] <= hi[r] /\ pos[r] <= length
  /\ r \notin joined => lo[r] = hi[r] /\ behind[r] /\ ~asking[r] /\ ~over[r]
  /\ asking[r] => lo[r] = hi[r] /\ ~over[r] /\ ~behind[r]
  /\ lo[r] < hi[r] => lo[r] = next[r] /\ hi[r] <= length /\ pos[r] <= hi[r] /\ ~behind[r]
  /\ ~over[r] /\ ~behind[r] /\ ~asking[r] /\ lo[r] = hi[r] => pos[r] <= next[r]
  /\ over[r] => ended /\ next[r] = length

IInv == TypeOK /\ \A r \in Readers : ReaderInv(r)

-----------------------------------------------------------------------------
\* The invariant holds of a life with no reader yet.
LEMMA InitIInv == Init => IInv
<1> SUFFICES ASSUME Init PROVE IInv
  OBVIOUS
<1>1. TypeOK
  <2>1. length \in Places BY EventsAssumption DEF Init, Places
  <2>2. ended \in BOOLEAN /\ joined \subseteq Readers BY DEF Init
  <2>3. next \in [Readers -> Nat] /\ from \in [Readers -> Nat] /\ pos \in [Readers -> Nat]
    BY DEF Init
  <2>4. lo \in [Readers -> Nat] /\ hi \in [Readers -> Nat] BY DEF Init
  <2>5. behind \in [Readers -> BOOLEAN] /\ asking \in [Readers -> BOOLEAN]
        /\ over \in [Readers -> BOOLEAN]
    BY Zenon DEF Init
  <2> QED BY <2>1, <2>2, <2>3, <2>4, <2>5 DEF TypeOK
<1>2. ASSUME NEW r \in Readers PROVE ReaderInv(r)
  BY DEF Init, ReaderInv
<1> QED BY <1>1, <1>2 DEF IInv

\* A step that leaves the state of a reader and the log as they were keeps what holds of it.
LEMMA OtherReader ==
  ASSUME NEW r \in Readers, ReaderInv(r), length' = length, ended' = ended,
         (r \in joined') = (r \in joined), next'[r] = next[r], pos'[r] = pos[r],
         behind'[r] = behind[r], asking'[r] = asking[r], lo'[r] = lo[r], hi'[r] = hi[r],
         over'[r] = over[r]
  PROVE  ReaderInv(r)'
BY DEF ReaderInv

\* Each step of the life and of a reader keeps the invariant.
LEMMA NextIInv == IInv /\ [Next]_vars => IInv'
<1> SUFFICES ASSUME IInv, [Next]_vars PROVE IInv'
  OBVIOUS
<1> USE EventsAssumption
<1>1. CASE Put
  BY <1>1 DEF Put, IInv, TypeOK, ReaderInv, Places, reader
<1>2. CASE End
  BY <1>2 DEF End, IInv, TypeOK, ReaderInv, Places, reader
<1>3. ASSUME NEW r \in Readers, NEW at \in Places, Join(r, at) PROVE IInv'
  <2>1. TypeOK' BY <1>3 DEF Join, IInv, TypeOK, Places
  <2>2. ReaderInv(r)' BY <1>3 DEF Join, IInv, TypeOK, ReaderInv, Places
  <2>3. ASSUME NEW q \in Readers \ {r} PROVE ReaderInv(q)'
    BY <1>3, OtherReader DEF Join, IInv, TypeOK
  <2> QED BY <2>1, <2>2, <2>3 DEF IInv
<1>4. ASSUME NEW r \in Readers, Since(r) PROVE IInv'
  <2>1. TypeOK' BY <1>4 DEF Since, IInv, TypeOK, Places
  <2>2. ReaderInv(r)' BY <1>4 DEF Since, IInv, TypeOK, ReaderInv, Places
  <2>3. ASSUME NEW q \in Readers \ {r} PROVE ReaderInv(q)'
    BY <1>4, OtherReader DEF Since, IInv, TypeOK
  <2> QED BY <2>1, <2>2, <2>3 DEF IInv
<1>5. ASSUME NEW r \in Readers, GiveRead(r) PROVE IInv'
  <2>1. lo[r] = next[r] /\ Given(r) BY <1>5 DEF GiveRead, IInv, ReaderInv
  <2>2. TypeOK' BY <1>5, <2>1 DEF GiveRead, Given, Ends, IInv, TypeOK, Places
  <2>3. ReaderInv(r)' BY <1>5, <2>1 DEF GiveRead, Given, Ends, IInv, TypeOK, ReaderInv, Places
  <2>4. ASSUME NEW q \in Readers \ {r} PROVE ReaderInv(q)'
    BY <1>5, <2>1, OtherReader DEF GiveRead, Given, IInv, TypeOK
  <2> QED BY <2>2, <2>3, <2>4 DEF IInv
<1>6. ASSUME NEW r \in Readers, Ask(r) PROVE IInv'
  <2>1. TypeOK' BY <1>6 DEF Ask, Dry, IInv, TypeOK, Places
  <2>2. ReaderInv(r)' BY <1>6 DEF Ask, Dry, IInv, TypeOK, ReaderInv, Places
  <2>3. ASSUME NEW q \in Readers \ {r} PROVE ReaderInv(q)'
    BY <1>6, OtherReader DEF Ask, Dry, IInv, TypeOK
  <2> QED BY <2>1, <2>2, <2>3 DEF IInv
<1>7. ASSUME NEW r \in Readers, Lagged(r) PROVE IInv'
  <2>1. TypeOK' BY <1>7 DEF Lagged, Dry, IInv, TypeOK, Places
  <2>2. ReaderInv(r)' BY <1>7 DEF Lagged, Dry, IInv, TypeOK, ReaderInv, Places
  <2>3. ASSUME NEW q \in Readers \ {r} PROVE ReaderInv(q)'
    BY <1>7, OtherReader DEF Lagged, Dry, IInv, TypeOK
  <2> QED BY <2>1, <2>2, <2>3 DEF IInv
<1>8. ASSUME NEW r \in Readers, Hear(r) PROVE IInv'
  <2>1. CASE pos[r] = next[r]
    <3>1. Given(r) BY <1>8, <2>1 DEF Hear
    <3>2. TypeOK' BY <1>8, <2>1, <3>1 DEF Hear, Dry, Given, Ends, IInv, TypeOK, Places
    <3>3. ReaderInv(r)'
      BY <1>8, <2>1, <3>1 DEF Hear, Dry, Given, Ends, IInv, TypeOK, ReaderInv, Places
    <3>4. ASSUME NEW q \in Readers \ {r} PROVE ReaderInv(q)'
      BY <1>8, <3>1, OtherReader DEF Hear, Given, IInv, TypeOK
    <3> QED BY <3>2, <3>3, <3>4 DEF IInv
  <2>2. CASE pos[r] # next[r]
    <3>1. UNCHANGED <<next, over>> BY <1>8, <2>2 DEF Hear
    <3>2. TypeOK' BY <1>8, <3>1 DEF Hear, Dry, IInv, TypeOK, Places
    <3>3. ReaderInv(r)' BY <1>8, <2>2, <3>1 DEF Hear, Dry, IInv, TypeOK, ReaderInv, Places
    <3>4. ASSUME NEW q \in Readers \ {r} PROVE ReaderInv(q)'
      BY <1>8, <3>1, OtherReader DEF Hear, IInv, TypeOK
    <3> QED BY <3>2, <3>3, <3>4 DEF IInv
  <2> QED BY <2>1, <2>2
<1>9. CASE UNCHANGED vars
  BY <1>9 DEF vars, reader, IInv, TypeOK, ReaderInv, Places
<1> QED BY <1>1, <1>2, <1>3, <1>4, <1>5, <1>6, <1>7, <1>8, <1>9 DEF Next, Read

LEMMA Invariance == Spec => []IInv
BY InitIInv, NextIInv, PTL DEF Spec

\* The state of the life and of each reader keeps its types.
THEOREM TypesHold == Spec => []TypeOK
<1>1. IInv => TypeOK BY DEF IInv
<1> QED BY <1>1, Invariance, PTL

\* No reader ever waits on the broadcast for an event that already passed it.
THEOREM NoReaderStranded == Spec => []NeverStranded
<1>1. IInv => NeverStranded BY DEF IInv, TypeOK, ReaderInv, NeverStranded
<1> QED BY <1>1, Invariance, PTL

\* What a reader read from the log joins what it gave before it and what the broadcast brings.
THEOREM LogJoinsBroadcast == Spec => []ReadJoins
<1>1. IInv => ReadJoins BY DEF IInv, TypeOK, ReaderInv, ReadJoins
<1> QED BY <1>1, Invariance, PTL

\* A stream ends only at the end of the life, with each event before it given.
THEOREM StreamsEndAtTheEnd == Spec => []OverAtTheEnd
<1>1. IInv => OverAtTheEnd BY DEF IInv, TypeOK, ReaderInv, OverAtTheEnd
<1> QED BY <1>1, Invariance, PTL
=============================================================================
