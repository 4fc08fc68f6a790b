----------------------------- MODULE WorldProofs ----------------------------
(***************************************************************************)
(* Proofs about what stands beside the record of a life: a command with its  *)
(* processes, the sign-in of a provider, and the replies of models. Each     *)
(* part has an inductive invariant of its own, for the steps of the others   *)
(* leave its variables as they are.                                         *)
(***************************************************************************)
EXTENDS MCWorld, TLAPS, FiniteSetTheorems, SequenceTheorems

-----------------------------------------------------------------------------
(* A command of the ear bash.                                               *)

\* What a command says: a text, that it failed, or its exit with its status and whether its timeout was taken.
SaidItems == ({"out", "failed"} \X Nat) \cup ({"exit"} \X Nat \X {"none", "exited", "killed"} \X BOOLEAN)

CommandTypes ==
  /\ C!TypeOK
  /\ dones \in Nat /\ pipe \in Nat /\ wrote \in Nat /\ read \in Nat /\ outs \in Nat
  /\ says \in Seq(SaidItems) /\ fed \in Seq(Nat) /\ took \in Seq(Nat) /\ accepted \in Seq(Nat) /\ writes \in Nat
  /\ expired \in [passed : BOOLEAN, taken : BOOLEAN]
  /\ open \in BOOLEAN /\ feeding \in BOOLEAN /\ closed \in BOOLEAN /\ lifeline \in BOOLEAN

\* The group holds each process that lives until it is slain or let go, and only a slain one killed any.
Grouped ==
  /\ lifeline <=> group = "held"
  /\ group = "none" <=> shell = "none"
  /\ shell = "none" => helper = "none"
  /\ group = "slain" => shell # "lives" /\ helper # "lives"
  /\ "killed" \in {shell, helper} => group = "slain"
  /\ group = "free" => shell = "exited"

\* Where the wait of a command is while its act stands, and what its end left.
Phases ==
  /\ act = "none" => phase = "none" /\ commandLife = "first"
  /\ act = "stands" => phase # "none"
  /\ phase \in {"none", "begun"} => group = "none" /\ says = <<>>
  /\ phase \in {"running", "draining"} => group \in {"held", "slain"}
  /\ phase = "draining" => shell # "lives"
  /\ phase = "over" => group # "held"
  /\ commandLife = "dead" => act = "stands"
  /\ commandLife = "later" => act = "over" /\ ended[1] = "interrupted"
  /\ act = "over" /\ commandLife = "first" => phase \in {"none", "over"} /\ says = <<>>

LastSaid == says[Len(says)]

\* A wait that is over said last how it ended, and texts before it; an exit is said by one that let its group go or
\* whose timeout took it.
Saying ==
  /\ commandLife = "first" /\ phase # "over" => \A i \in 1 .. Len(says) : says[i][1] = "out"
  /\ commandLife = "first" /\ phase = "over" /\ act = "stands" =>
       /\ says # <<>> /\ LastSaid[1] # "out"
       /\ \A i \in 1 .. Len(says) - 1 : says[i][1] = "out"
       /\ LastSaid[1] = "exit" /\ "killed" \in {shell, helper} => LastSaid[4]
       /\ group = "free" => LastSaid[1] = "exit"
  /\ commandLife = "first" /\ phase \in {"running", "draining"} /\ group = "slain" => expired.taken
  /\ act = "over" /\ commandLife = "first" =>
       /\ ended[1] = "exit" /\ "killed" \in {shell, helper} => ended[4]
       /\ group = "free" => ended[1] = "exit"
       /\ ended[1] = "exit" => ended[2] = outs

\* What was read is what the ear said and what waits to be said, in its order, and the end holds all of it: the sums
\* s[i] of what the ear has said once it took i of the items.
Sums(items, taken0, given0, s) ==
  /\ s \in [0 .. Len(items) -> Nat] /\ s[0] = taken0 /\ s[Len(items)] = given0
  /\ \A i \in 1 .. Len(items) : IF items[i][1] = "out" THEN s[i] = s[i - 1] + items[i][2]
                               ELSE s[i] = s[i - 1] /\ items[i][2] = s[i]

Counts(items, taken0, given0) == \E s \in [0 .. Len(items) -> Nat] : Sums(items, taken0, given0, s)

Counted == commandLife = "first" /\ act # "over" => Counts(says, outs, read)

\* The stdin took the first of what was accepted, and holds the rest while it is fed.
Fed ==
  /\ act = "none" => took = <<>> /\ fed = <<>> /\ accepted = <<>>
  /\ phase \in {"none", "begun"} => ~feeding
  /\ Len(took) <= Len(accepted)
  /\ \A i \in 1 .. Len(took) : took[i] = accepted[i]
  /\ phase = "begun" \/ feeding =>
       Len(accepted) = Len(took) + Len(fed) /\ \A i \in 1 .. Len(fed) : accepted[Len(took) + i] = fed[i]
  /\ \A i \in 1 .. Len(accepted) - 1 : accepted[i] # 0
  /\ open /\ ~closed /\ act = "stands" => \A i \in 1 .. Len(accepted) : accepted[i] # 0

CommandInv == CommandTypes /\ C!ExitsOnce /\ Grouped /\ Phases /\ Saying /\ Counted /\ Fed

LEMMA ItemForms ==
  /\ \A x \in SaidItems : x[1] \in {"out", "failed", "exit"} /\ x[2] \in Nat
  /\ \A n \in Nat : <<"out", n>> \in SaidItems /\ <<"failed", n>> \in SaidItems
  /\ \A n \in Nat, b \in BOOLEAN, how \in {"none", "exited", "killed"} : <<"exit", n, how, b>> \in SaidItems
  BY DEF SaidItems

\* One more item is said: a text that was read, or an end that holds what was read.
LEMMA CountsMore ==
  ASSUME NEW q \in Seq(SaidItems), NEW o \in Nat, NEW r \in Nat, NEW x \in SaidItems, Counts(q, o, r)
  PROVE  /\ x[1] = "out" => Counts(Append(q, x), o, r + x[2])
         /\ x[1] # "out" /\ x[2] = r => Counts(Append(q, x), o, r)
<1>1. PICK s \in [0 .. Len(q) -> Nat] : Sums(q, o, r, s)
  BY DEF Counts
<1>2. x[2] \in Nat
  BY ItemForms
<1>3. /\ Len(Append(q, x)) = Len(q) + 1 /\ Append(q, x)[Len(q) + 1] = x /\ Len(q) \in Nat
      /\ \A i \in 1 .. Len(q) : Append(q, x)[i] = q[i]
  OBVIOUS
<1>4. ASSUME NEW t \in Nat, x[1] = "out" => t = r + x[2], x[1] # "out" => t = r /\ x[2] = r
      PROVE Counts(Append(q, x), o, t)
  <2> DEFINE z == [i \in 0 .. Len(q) + 1 |-> IF i <= Len(q) THEN s[i] ELSE t]
  <2>1. z \in [0 .. Len(q) + 1 -> Nat] BY <1>3
  <2>2. z[0] = o /\ z[Len(q) + 1] = t /\ z[Len(q)] = r BY <1>1, <1>3 DEF Sums
  <2>3. \A i \in 0 .. Len(q) : z[i] = s[i] BY <1>3
  <2> HIDE DEF z
  <2>4. ASSUME NEW i \in 1 .. Len(q)
        PROVE IF Append(q, x)[i][1] = "out" THEN z[i] = z[i - 1] + Append(q, x)[i][2]
              ELSE z[i] = z[i - 1] /\ Append(q, x)[i][2] = z[i]
    <3>1. i \in 0 .. Len(q) /\ i - 1 \in 0 .. Len(q) BY <1>3
    <3>2. Append(q, x)[i] = q[i] BY <1>3
    <3> QED BY <1>1, <2>3, <3>1, <3>2 DEF Sums
  <2>5. Len(q) + 1 - 1 = Len(q) BY <1>3
  <2>6. Sums(Append(q, x), o, t, z)
    <3>1. ASSUME NEW i \in 1 .. Len(Append(q, x))
          PROVE IF Append(q, x)[i][1] = "out" THEN z[i] = z[i - 1] + Append(q, x)[i][2]
                ELSE z[i] = z[i - 1] /\ Append(q, x)[i][2] = z[i]
      <4>1. CASE i = Len(q) + 1 BY <1>3, <1>4, <2>2, <2>5, <4>1
      <4>2. CASE i # Len(q) + 1
        <5>1. i \in 1 .. Len(q) BY <1>3, <4>2
        <5> QED BY <2>4, <5>1
      <4> QED BY <4>1, <4>2
    <3> QED BY <1>3, <2>1, <2>2, <3>1 DEF Sums
  <2> QED BY <1>3, <2>1, <2>6 DEF Counts
<1>5. r + x[2] \in Nat BY <1>2
<1> QED BY <1>4, <1>5

\* The ear takes the first item: a text, or an end, which holds what the ear said.
LEMMA CountsTaken ==
  ASSUME NEW q \in Seq(SaidItems), NEW o \in Nat, NEW r \in Nat, q # <<>>, Counts(q, o, r)
  PROVE  /\ q[1][1] = "out" => Counts(Tail(q), o + q[1][2], r)
         /\ q[1][1] # "out" => q[1][2] = o
<1>1. PICK s \in [0 .. Len(q) -> Nat] : Sums(q, o, r, s)
  BY DEF Counts
<1>2. /\ Len(Tail(q)) = Len(q) - 1 /\ Len(q) \in Nat \ {0} /\ \A i \in 1 .. Len(q) - 1 : Tail(q)[i] = q[i + 1]
      /\ q[1] \in SaidItems
  OBVIOUS
<1>3. q[1][2] \in Nat BY <1>2, ItemForms
<1>4. 1 \in 1 .. Len(q) /\ 1 - 1 = 0 BY <1>2
<1>5. IF q[1][1] = "out" THEN s[1] = o + q[1][2] ELSE s[1] = o /\ q[1][2] = s[1]
  BY <1>1, <1>4 DEF Sums
<1>6. ASSUME q[1][1] = "out" PROVE Counts(Tail(q), o + q[1][2], r)
  <2> DEFINE z == [i \in 0 .. Len(q) - 1 |-> s[i + 1]]
  <2>1. z \in [0 .. Len(q) - 1 -> Nat] BY <1>2
  <2>2. z[0] = o + q[1][2] BY <1>2, <1>5, <1>6
  <2>3. z[Len(q) - 1] = r
    <3>1. Len(q) - 1 \in 0 .. Len(q) - 1 /\ Len(q) - 1 + 1 = Len(q) BY <1>2
    <3> QED BY <1>1, <3>1 DEF Sums
  <2>4. \A i \in 0 .. Len(q) - 1 : z[i] = s[i + 1] OBVIOUS
  <2> HIDE DEF z
  <2>5. ASSUME NEW i \in 1 .. Len(q) - 1
        PROVE IF Tail(q)[i][1] = "out" THEN z[i] = z[i - 1] + Tail(q)[i][2] ELSE z[i] = z[i - 1] /\ Tail(q)[i][2] = z[i]
    <3>1. i \in 0 .. Len(q) - 1 /\ i - 1 \in 0 .. Len(q) - 1 /\ i - 1 + 1 = i /\ i + 1 \in 1 .. Len(q) /\ i + 1 - 1 = i
      BY <1>2
    <3>2. z[i] = s[i + 1] /\ z[i - 1] = s[i] BY <2>4, <3>1
    <3>3. Tail(q)[i] = q[i + 1] BY <1>2
    <3> QED BY <1>1, <3>1, <3>2, <3>3 DEF Sums
  <2>6. Sums(Tail(q), o + q[1][2], r, z) BY <1>2, <2>1, <2>2, <2>3, <2>5 DEF Sums
  <2> QED BY <1>2, <2>1, <2>6 DEF Counts
<1> QED BY <1>5, <1>6

LEMMA SaidMore ==
  ASSUME NEW q \in Seq(SaidItems), NEW x \in SaidItems
  PROVE  /\ Append(q, x) \in Seq(SaidItems) /\ Len(Append(q, x)) = Len(q) + 1 /\ Append(q, x) # <<>>
         /\ Append(q, x)[Len(q) + 1] = x /\ \A i \in 1 .. Len(q) : Append(q, x)[i] = q[i]
         /\ Len(q) \in Nat
  OBVIOUS

LEMMA SaidTail ==
  ASSUME NEW q \in Seq(SaidItems), q # <<>>
  PROVE  /\ Tail(q) \in Seq(SaidItems) /\ Len(Tail(q)) = Len(q) - 1 /\ Len(q) \in Nat \ {0} /\ Head(q) = q[1]
         /\ q[1] \in SaidItems /\ \A i \in 1 .. Len(q) - 1 : Tail(q)[i] = q[i + 1]
         /\ (Tail(q) = <<>> <=> Len(q) = 1)
<1>1. Len(Tail(q)) = Len(q) - 1 /\ Len(q) \in Nat \ {0} /\ Tail(q) \in Seq(SaidItems)
  OBVIOUS
<1>2. Tail(q) = <<>> <=> Len(q) = 1
  BY <1>1
<1> QED BY <1>1, <1>2

\* A wait that fails says so last, and drops its group.
LEMMA FailsKeeps ==
  ASSUME CommandInv, C!Works, C!Fails, phase \in {"begun", "running", "draining"},
         expired' \in [passed : BOOLEAN, taken : BOOLEAN],
         UNCHANGED <<act, dones, commandLife, pipe, wrote, read, outs, ended, open, fed, took, accepted, closed, writes>>
  PROVE  CommandInv'
<1> USE DEF CommandInv
<1> DEFINE x == <<"failed", read>>
<1>1. x \in SaidItems /\ x[1] = "failed" /\ x[2] = read BY ItemForms DEF CommandTypes
<1>2. says' = Append(says, x) /\ phase' = "over" /\ feeding' = FALSE /\ C!Dropped BY DEF C!Fails, C!Says
<1>3. says \in Seq(SaidItems) /\ read \in Nat /\ outs \in Nat BY DEF CommandTypes
<1>4. /\ says' \in Seq(SaidItems) /\ Len(says') = Len(says) + 1 /\ says' # <<>> /\ Len(says) \in Nat
      /\ says'[Len(says')] = x /\ \A i \in 1 .. Len(says') - 1 : says'[i] = says[i]
  <2> HIDE DEF x
  <2> QED BY <1>1, <1>2, <1>3, SaidMore
<1>5. act = "stands" /\ commandLife = "first" BY DEF C!Works
<1>6. /\ shell' \in {"none", "exited", "killed", "lives"} /\ helper' \in {"none", "exited", "killed", "lives"}
      /\ lifeline' \in BOOLEAN /\ group' \in {"none", "slain", "free"} /\ (group' = "free" => group = "free")
  BY <1>2 DEF C!Dropped, C!Slain, C!procs, CommandTypes, C!TypeOK, C!Killed, C!Lives
<1>7. Grouped' BY <1>2 DEF C!Dropped, C!Slain, C!procs, CommandTypes, C!TypeOK, C!Killed, C!Lives, Grouped
<1>8. group # "free" BY <1>5 DEF Phases, CommandTypes, Grouped
<1>9. group' # "free" BY <1>6, <1>8
<1> HIDE DEF x
<1>10. CommandTypes' BY <1>2, <1>4, <1>6 DEF CommandTypes, C!TypeOK
<1>11. C!ExitsOnce' BY DEF C!ExitsOnce
<1>12. Phases' BY <1>2, <1>4, <1>5, <1>6 DEF Phases
<1>13. Saying'
  <2>1. \A i \in 1 .. Len(says') - 1 : says'[i][1] = "out" BY <1>4, <1>5 DEF Saying
  <2> QED BY <1>1, <1>2, <1>4, <1>5, <1>9, <2>1 DEF Saying, LastSaid
<1>14. Counted'
  <2>1. Counts(says, outs, read) BY <1>5 DEF Counted
  <2>2. Counts(Append(says, x), outs, read) BY <1>1, <1>3, <2>1, CountsMore
  <2> QED BY <1>2, <2>2 DEF Counted
<1>15. Fed' BY <1>2, <1>5 DEF Fed
<1> QED BY <1>7, <1>10, <1>11, <1>12, <1>13, <1>14, <1>15

LEMMA CommandNext == CommandInv /\ [C!Next]_ofCommands => CommandInv'
<1> SUFFICES ASSUME CommandInv, [C!Next]_ofCommands PROVE CommandInv'
  OBVIOUS
<1> USE DEF CommandInv
<1>1. CASE C!Started
  <2> USE <1>1 DEF C!Started, C!Ends, C!Quiet, C!Works, C!Says, C!Fails, C!Dropped, C!Slain, C!Killed, C!Lives, C!Exits, C!Frees, C!Opens, C!ShellReady, C!procs, C!streams, C!stdin
  <2>0. <<1, 0>> \in Seq(Nat) /\ Len(<<1, 0>>) = 2 /\ <<1, 0>>[1] = 1 /\ <<1, 0>>[2] = 0 OBVIOUS
  <2>1. CommandTypes'
    <3>1. dones' \in Nat /\ (phase' \in {"none", "begun"}) /\ act' \in {"stands", "over"} BY DEF CommandTypes, C!TypeOK, Phases
    <3>2. fed' \in Seq(Nat) /\ accepted' \in Seq(Nat) BY <2>0 DEF CommandTypes
    <3> QED BY <3>1, <3>2 DEF CommandTypes, C!TypeOK
  <2>2. C!ExitsOnce' BY DEF CommandTypes, C!TypeOK, C!ExitsOnce, Phases
  <2>3. Grouped' BY DEF CommandTypes, C!TypeOK, Grouped, Phases
  <2>4. Phases' BY DEF CommandTypes, C!TypeOK, Phases, Grouped
  <2>5. Saying' BY DEF CommandTypes, C!TypeOK, Saying, LastSaid, Grouped, Phases
  <2>6. Counted' BY DEF CommandTypes, C!TypeOK, Counted
  <2>7. Fed'
    <3>1. took = <<>> /\ fed = <<>> /\ accepted = <<>> /\ ~feeding /\ took' = <<>> /\ ~feeding' BY DEF Fed, Phases
    <3>2. CASE open BY <3>1, <3>2 DEF Fed
    <3>3. CASE ~open
      <4>1. fed' = <<1, 0>> /\ accepted' = <<1, 0>> /\ ~open' /\ act' # "none" BY <3>3
      <4>2. Len(took') = 0 /\ \A i \in 1 .. Len(fed') : accepted'[Len(took') + i] = fed'[i] BY <3>1, <4>1
      <4> QED BY <2>0, <3>1, <4>1, <4>2 DEF Fed
    <3> QED BY <3>2, <3>3
  <2> QED BY <2>1, <2>2, <2>3, <2>4, <2>5, <2>6, <2>7
<1>2. CASE C!Controlled
  <2> USE <1>2 DEF C!Controlled, C!Ends, C!Quiet, C!Works, C!Says, C!Fails, C!Dropped, C!Slain, C!Killed, C!Lives, C!Exits, C!Frees, C!Opens, C!ShellReady, C!procs, C!streams, C!stdin
  <2>1. CommandTypes'
    <3>1. <<>> \in Seq(SaidItems) /\ <<>> \in Seq(Nat) OBVIOUS
    <3>2. says' = <<>> /\ fed' = <<>> /\ feeding' = FALSE /\ closed' = FALSE /\ dones' = dones + 1 OBVIOUS
    <3>3. C!TypeOK' /\ lifeline' \in BOOLEAN BY DEF CommandTypes, C!TypeOK
    <3>4. dones' \in Nat BY <3>2 DEF CommandTypes
    <3> QED BY <3>1, <3>2, <3>3, <3>4 DEF CommandTypes
  <2>2. C!ExitsOnce' BY DEF CommandTypes, C!TypeOK, C!ExitsOnce, Phases
  <2>3. Grouped' BY DEF CommandTypes, C!TypeOK, Grouped, Phases
  <2>4. Phases' BY DEF CommandTypes, C!TypeOK, Phases, Grouped
  <2>5. Saying' BY DEF CommandTypes, C!TypeOK, Saying, LastSaid, Grouped, Phases
  <2>6. Counted' BY DEF CommandTypes, C!TypeOK, Counted
  <2>7. Fed' BY DEF CommandTypes, C!TypeOK, Fed, Phases
  <2> QED BY <2>1, <2>2, <2>3, <2>4, <2>5, <2>6, <2>7
<1>3. CASE C!Worked
  <2>0. /\ says # <<>> /\ commandLife = "first"
        /\ UNCHANGED <<commandLife, expired, pipe, wrote, read, open, took, accepted, writes>>
    BY <1>3 DEF C!Worked
  <2>1. says \in Seq(SaidItems) /\ outs \in Nat /\ read \in Nat BY DEF CommandTypes
  <2>2. /\ Tail(says) \in Seq(SaidItems) /\ Len(Tail(says)) = Len(says) - 1 /\ Len(says) \in Nat \ {0}
        /\ Head(says) = says[1] /\ says[1] \in SaidItems /\ \A i \in 1 .. Len(says) - 1 : Tail(says)[i] = says[i + 1]
        /\ (Tail(says) = <<>> <=> Len(says) = 1)
    BY <2>0, <2>1, SaidTail
  <2>3. says[1][1] \in {"out", "failed", "exit"} /\ says[1][2] \in Nat BY <2>2, ItemForms
  <2>4. act = "stands" BY <2>0 DEF Phases, CommandTypes, C!TypeOK
  <2>5. Counts(says, outs, read) BY <2>0, <2>4 DEF Counted
  <2>6. CASE says[1][1] = "out"
    <3>1. /\ says' = Tail(says) /\ outs' = outs + says[1][2]
          /\ UNCHANGED <<act, dones, ended, phase, shell, helper, group, lifeline, fed, feeding, closed>>
      BY <1>3, <2>2, <2>6 DEF C!Worked, C!procs
    <3>2. CommandTypes'
      <4>1. outs' \in Nat /\ says' \in Seq(SaidItems) BY <2>1, <2>2, <2>3, <3>1
      <4> QED BY <2>0, <3>1, <4>1 DEF CommandTypes, C!TypeOK
    <3>3. C!ExitsOnce' /\ Grouped' BY <2>0, <3>1 DEF C!ExitsOnce, Grouped
    <3>4. Phases' BY <2>0, <2>4, <3>1 DEF Phases
    <3>5. Counted'
      <4>1. Counts(Tail(says), outs + says[1][2], read) BY <2>0, <2>1, <2>5, <2>6, CountsTaken
      <4> QED BY <2>0, <3>1, <4>1 DEF Counted
    <3>6. Saying'
      <4>1. phase = "over" => LastSaid # says[1] BY <2>0, <2>4, <2>6 DEF Saying
      <4>2. phase = "over" => Len(says) # 1 BY <4>1 DEF LastSaid
      <4>3. phase = "over" => Tail(says)[Len(says) - 1] = LastSaid
        <5>1. ASSUME Len(says) # 1 PROVE Len(says) - 1 \in 1 .. Len(says) - 1 /\ Len(says) - 1 + 1 = Len(says) BY <2>2, <5>1
        <5> QED BY <2>2, <4>2, <5>1 DEF LastSaid
      <4>4. phase = "over" => LastSaid' = LastSaid BY <2>2, <3>1, <4>3 DEF LastSaid
      <4>5. \A i \in 1 .. Len(says') - 1 : i + 1 \in 1 .. Len(says) - 1 /\ says'[i] = says[i + 1] BY <2>2, <3>1
      <4>6. \A i \in 1 .. Len(says') : i + 1 \in 1 .. Len(says) /\ says'[i] = says[i + 1] BY <2>2, <3>1
      <4>7. (phase # "over" => \A i \in 1 .. Len(says') : says'[i][1] = "out")
            /\ (phase = "over" => \A i \in 1 .. Len(says') - 1 : says'[i][1] = "out")
        BY <2>0, <2>4, <4>5, <4>6 DEF Saying
      <4>8. phase = "over" => says' # <<>> BY <2>2, <3>1, <4>2
      <4> HIDE DEF LastSaid
      <4> QED BY <2>0, <2>4, <3>1, <4>4, <4>7, <4>8 DEF Saying
    <3>7. Fed' BY <2>0, <3>1 DEF Fed
    <3> QED BY <3>2, <3>3, <3>4, <3>5, <3>6, <3>7
  <2>7. CASE says[1][1] # "out"
    <3>1. C!Ends(says[1]) /\ outs' = outs BY <1>3, <2>2, <2>7 DEF C!Worked
    <3>2. /\ act' = "over" /\ dones' = dones + 1 /\ ended' = says[1] /\ phase' = "over" /\ says' = <<>> /\ fed' = <<>>
          /\ feeding' = FALSE /\ closed' = FALSE /\ C!Dropped
      BY <3>1 DEF C!Ends
    <3>3. phase = "over" /\ LastSaid = says[1]
      <4>1. phase = "over" BY <2>0, <2>2, <2>7 DEF Saying
      <4>2. 1 \notin 1 .. Len(says) - 1 BY <2>0, <2>4, <2>7, <4>1 DEF Saying
      <4>3. Len(says) = 1 BY <2>2, <4>2
      <4> QED BY <4>1, <4>3 DEF LastSaid
    <3>4. group # "held" /\ UNCHANGED <<shell, helper, group, lifeline>> BY <3>2, <3>3 DEF Phases, C!Dropped, C!procs
    <3>5. CommandTypes'
      <4>1. <<>> \in Seq(SaidItems) /\ <<>> \in Seq(Nat) OBVIOUS
      <4>2. dones' \in Nat BY <3>2 DEF CommandTypes
      <4>3. C!TypeOK' BY <2>0, <3>2, <3>4 DEF CommandTypes, C!TypeOK
      <4> QED BY <2>0, <3>1, <3>2, <3>4, <4>1, <4>2, <4>3 DEF CommandTypes
    <3>6. C!ExitsOnce' BY <2>4, <3>2 DEF C!ExitsOnce, CommandTypes
    <3>7. Grouped' BY <3>4 DEF Grouped
    <3>8. Phases' BY <2>0, <3>2, <3>3, <3>4 DEF Phases
    <3>9. Saying'
      <4>1. says[1][2] = outs BY <2>0, <2>1, <2>5, <2>7, CountsTaken
      <4> HIDE DEF LastSaid
      <4> QED BY <2>0, <2>4, <3>1, <3>2, <3>3, <3>4, <4>1 DEF Saying
    <3>10. Counted' BY <3>2 DEF Counted
    <3>11. Fed' BY <2>0, <3>2 DEF Fed
    <3> QED BY <3>5, <3>6, <3>7, <3>8, <3>9, <3>10, <3>11
  <2> QED BY <2>6, <2>7
<1>4. CASE C!Wrote
  <2>0. writes' = writes + 1 /\ UNCHANGED <<act, dones, commandLife, phase, shell, helper, group, lifeline, expired, pipe, wrote, read,
          says, outs, ended, open, took, feeding>> /\ phase # "none"
    BY <1>4 DEF C!Wrote, C!procs, C!streams
  <2>1. PICK text \in {0, writes + 1} :
          IF C!Opens
          THEN /\ closed' = (closed \/ text = 0)
               /\ accepted' = IF text # 0 /\ phase # "begun" /\ ~feeding THEN accepted ELSE Append(accepted, text)
               /\ fed' = IF phase = "begun" \/ feeding THEN Append(fed, text) ELSE fed
          ELSE UNCHANGED <<closed, accepted, fed>>
    BY <1>4 DEF C!Wrote
  <2>2. writes \in Nat /\ text \in Nat /\ writes' \in Nat BY <2>0 DEF CommandTypes
  <2>3. /\ accepted \in Seq(Nat) /\ fed \in Seq(Nat) /\ took \in Seq(Nat) /\ closed \in BOOLEAN
        /\ Append(accepted, text) \in Seq(Nat) /\ Append(fed, text) \in Seq(Nat)
        /\ Len(Append(accepted, text)) = Len(accepted) + 1 /\ Append(accepted, text)[Len(accepted) + 1] = text
        /\ \A i \in 1 .. Len(accepted) : Append(accepted, text)[i] = accepted[i]
        /\ Len(Append(fed, text)) = Len(fed) + 1 /\ Append(fed, text)[Len(fed) + 1] = text
        /\ \A i \in 1 .. Len(fed) : Append(fed, text)[i] = fed[i]
        /\ Len(accepted) \in Nat /\ Len(fed) \in Nat /\ Len(took) \in Nat
    BY <2>2 DEF CommandTypes
  <2>4. CommandTypes'
    <3>1. closed' \in BOOLEAN /\ accepted' \in Seq(Nat) /\ fed' \in Seq(Nat) BY <2>1, <2>3
    <3> QED BY <2>0, <2>2, <2>3, <3>1 DEF CommandTypes, C!TypeOK
  <2>5. C!ExitsOnce' /\ Grouped' BY <2>0 DEF C!ExitsOnce, Grouped
  <2>6. Phases' /\ Saying' BY <2>0 DEF Phases, Saying, LastSaid
  <2>7. Counted' BY <2>0 DEF Counted, Counts, Sums
  <2>8. Fed'
    <3>1. CASE ~C!Opens BY <2>0, <2>1, <3>1 DEF Fed
    <3>2. CASE C!Opens
      <4>0. open /\ act = "stands" /\ commandLife = "first" /\ ~closed BY <3>2 DEF C!Opens
      <4>1. \A i \in 1 .. Len(accepted) : accepted[i] # 0 BY <4>0 DEF Fed
      <4>2. CASE text # 0 /\ phase # "begun" /\ ~feeding
        <5>1. UNCHANGED <<accepted, fed>> /\ closed' = closed BY <2>1, <2>3, <3>2, <4>2
        <5> QED BY <2>0, <5>1 DEF Fed
      <4>3. CASE ~(text # 0 /\ phase # "begun" /\ ~feeding)
        <5>1. accepted' = Append(accepted, text) BY <2>1, <3>2, <4>3
        <5>2. Len(accepted') = Len(accepted) + 1 /\ \A i \in 1 .. Len(accepted) : accepted'[i] = accepted[i] BY <2>3, <5>1
        <5>3. ASSUME NEW i \in 1 .. Len(accepted') - 1 PROVE accepted'[i] # 0
          <6>1. i \in 1 .. Len(accepted) BY <2>3, <5>2
          <6> QED BY <4>1, <5>2, <6>1
        <5>4. closed' = (closed \/ text = 0) BY <2>1, <3>2
        <5>5. ~closed' => \A i \in 1 .. Len(accepted') : accepted'[i] # 0
          <6>1. accepted'[Len(accepted) + 1] = text BY <2>3, <5>1
          <6>2. \A i \in 1 .. Len(accepted') : i \in 1 .. Len(accepted) \/ i = Len(accepted) + 1 BY <2>3, <5>2
          <6>3. ASSUME ~closed' PROVE text # 0 BY <5>4, <6>3
          <6> QED BY <4>1, <5>2, <6>1, <6>2, <6>3
        <5>6. Len(took) <= Len(accepted') /\ \A i \in 1 .. Len(took) : took[i] = accepted'[i] BY <2>3, <5>2 DEF Fed
        <5>7. ASSUME phase = "begun" \/ feeding
              PROVE Len(accepted') = Len(took) + Len(fed') /\ \A i \in 1 .. Len(fed') : accepted'[Len(took) + i] = fed'[i]
          <6>1. fed' = Append(fed, text) BY <2>1, <3>2, <5>7
          <6>2. Len(accepted) = Len(took) + Len(fed) /\ \A i \in 1 .. Len(fed) : accepted[Len(took) + i] = fed[i]
            BY <5>7 DEF Fed
          <6>3. Len(accepted') = Len(took) + Len(fed') BY <2>3, <5>2, <6>1, <6>2
          <6>4. ASSUME NEW i \in 1 .. Len(fed') PROVE accepted'[Len(took) + i] = fed'[i]
            <7>1. CASE i = Len(fed) + 1
              <8>1. Len(took) + i = Len(accepted) + 1 BY <2>3, <6>2, <7>1
              <8> QED BY <2>3, <5>1, <6>1, <7>1, <8>1
            <7>2. CASE i # Len(fed) + 1
              <8>1. i \in 1 .. Len(fed) /\ Len(took) + i \in 1 .. Len(accepted) BY <2>3, <6>1, <6>2, <7>2
              <8> QED BY <2>3, <5>2, <6>1, <6>2, <8>1
            <7> QED BY <7>1, <7>2
          <6> QED BY <6>3, <6>4
        <5> QED BY <2>0, <4>0, <5>3, <5>5, <5>6, <5>7 DEF Fed
      <4> QED BY <4>2, <4>3
    <3> QED BY <3>1, <3>2
  <2> QED BY <2>4, <2>5, <2>6, <2>7, <2>8
<1>5. CASE C!Spawned
  <2>0. /\ C!Works /\ phase = "begun"
        /\ UNCHANGED <<act, dones, commandLife, expired, pipe, wrote, read, outs, ended, open, fed, took, accepted, closed, writes>>
    BY <1>5 DEF C!Spawned
  <2>1. CASE /\ phase' = "running" /\ shell' = "lives" /\ group' = "held" /\ lifeline' = TRUE /\ feeding' = TRUE
             /\ UNCHANGED <<helper, says>>
    <3> USE <2>0, <2>1 DEF C!Works
    <3>1. CommandTypes' BY DEF CommandTypes, C!TypeOK
    <3>2. C!ExitsOnce' BY DEF C!ExitsOnce
    <3>3. Grouped' BY DEF CommandTypes, C!TypeOK, Grouped, Phases
    <3>4. Phases' BY DEF Phases
    <3>5. Saying' BY DEF Saying, Grouped, Phases
    <3>6. Counted' BY DEF Counted, Counts, Sums
    <3>7. Fed' BY DEF Fed
    <3> QED BY <3>1, <3>2, <3>3, <3>4, <3>5, <3>6, <3>7
  <2>2. CASE C!Fails
    <3>1. expired' \in [passed : BOOLEAN, taken : BOOLEAN] BY <2>0 DEF CommandTypes
    <3> QED BY <2>0, <2>2, <3>1, FailsKeeps
  <2> QED BY <1>5, <2>1, <2>2 DEF C!Spawned
<1>6. CASE C!ShellExits
  <2>0. /\ C!Works /\ phase = "running" /\ shell # "lives"
        /\ UNCHANGED <<act, dones, commandLife, expired, pipe, wrote, read, outs, ended, open, fed, took, accepted, closed, writes>>
    BY <1>6 DEF C!ShellExits, C!ShellReady, C!Lives
  <2>1. CASE phase' = "draining" /\ UNCHANGED <<says, shell, helper, group, lifeline, feeding>>
    <3> USE <2>0, <2>1 DEF C!Works
    <3>1. CommandTypes' BY DEF CommandTypes, C!TypeOK
    <3>2. C!ExitsOnce' /\ Grouped' BY DEF C!ExitsOnce, Grouped
    <3>3. Phases' BY DEF Phases
    <3>4. Saying' BY DEF Saying
    <3>5. Counted' BY DEF Counted, Counts, Sums
    <3>6. Fed' BY DEF Fed
    <3> QED BY <3>1, <3>2, <3>3, <3>4, <3>5, <3>6
  <2>2. CASE C!Fails
    <3>1. expired' \in [passed : BOOLEAN, taken : BOOLEAN] BY <2>0 DEF CommandTypes
    <3> QED BY <2>0, <2>2, <3>1, FailsKeeps
  <2> QED BY <1>6, <2>1, <2>2 DEF C!ShellExits, C!procs
<1>7. CASE C!Reads
  <2>0. /\ C!Works /\ phase \in {"running", "draining"}
        /\ UNCHANGED <<act, dones, commandLife, expired, wrote, outs, ended, open, fed, took, accepted, closed, writes>>
    BY <1>7 DEF C!Reads
  <2>1. ASSUME NEW n \in 1 .. pipe, pipe' = pipe - n, read' = read + n, C!Says(<<"out", n>>),
               UNCHANGED <<phase, shell, helper, group, lifeline, feeding>>
        PROVE CommandInv'
    <3> DEFINE x == <<"out", n>>
    <3>0. pipe \in Nat /\ read \in Nat /\ outs \in Nat /\ says \in Seq(SaidItems) /\ pipe + read = wrote
      BY DEF CommandTypes, C!TypeOK
    <3>1. n \in Nat /\ x \in SaidItems /\ x[1] = "out" /\ x[2] = n
      <4>1. n \in Nat BY <3>0
      <4> QED BY <4>1, ItemForms
    <3>2. says' = Append(says, x) BY <2>1 DEF C!Says
    <3> HIDE DEF x
    <3>3. /\ says' \in Seq(SaidItems) /\ Len(says') = Len(says) + 1 /\ Len(says) \in Nat
          /\ says'[Len(says) + 1] = x /\ \A i \in 1 .. Len(says) : says'[i] = says[i]
      BY <3>0, <3>1, <3>2, SaidMore
    <3>4. act = "stands" /\ commandLife = "first" BY <2>0 DEF C!Works
    <3>5. pipe' \in Nat /\ read' \in Nat /\ pipe' + read' = wrote BY <2>1, <3>0, <3>1
    <3>6. CommandTypes' BY <2>0, <2>1, <3>3, <3>5 DEF CommandTypes, C!TypeOK
    <3>7. C!ExitsOnce' /\ Grouped' BY <2>0, <2>1 DEF C!ExitsOnce, Grouped
    <3>8. Phases' BY <2>0, <2>1, <3>4 DEF Phases
    <3>9. Saying'
      <4>1. \A i \in 1 .. Len(says') : says'[i][1] = "out" BY <2>0, <3>1, <3>3, <3>4 DEF Saying
      <4> QED BY <2>0, <2>1, <3>4, <4>1 DEF Saying
    <3>10. Counted'
      <4>1. Counts(says, outs, read) BY <3>4 DEF Counted
      <4>2. Counts(Append(says, x), outs, read + n) BY <3>0, <3>1, <4>1, CountsMore
      <4> QED BY <2>0, <2>1, <3>2, <4>2 DEF Counted
    <3>11. Fed' BY <2>0, <2>1 DEF Fed
    <3> QED BY <3>6, <3>7, <3>8, <3>9, <3>10, <3>11
  <2>2. CASE C!Fails /\ UNCHANGED <<pipe, read>>
    <3>1. expired' \in [passed : BOOLEAN, taken : BOOLEAN] BY <2>0 DEF CommandTypes
    <3> QED BY <2>0, <2>2, <3>1, FailsKeeps
  <2> QED BY <1>7, <2>1, <2>2 DEF C!Reads, C!procs
<1>8. CASE C!Expires
  <2>0. /\ C!Works /\ phase \in {"running", "draining"} /\ expired' = [expired EXCEPT !.taken = TRUE]
        /\ UNCHANGED <<act, dones, commandLife, pipe, wrote, read, outs, ended, open, fed, took, accepted, closed, writes>>
    BY <1>8 DEF C!Expires
  <2>1. expired' \in [passed : BOOLEAN, taken : BOOLEAN] /\ expired'.taken BY <2>0 DEF CommandTypes
  <2>2. CASE C!Slain /\ UNCHANGED <<says, phase, feeding>>
    <3> USE <2>0, <2>1, <2>2 DEF C!Works, C!Slain, C!Killed, C!Lives
    <3>1. CommandTypes' BY DEF CommandTypes, C!TypeOK
    <3>2. C!ExitsOnce' BY DEF C!ExitsOnce
    <3>3. Grouped' BY DEF CommandTypes, C!TypeOK, Grouped, Phases
    <3>4. Phases' BY DEF CommandTypes, C!TypeOK, Grouped, Phases
    <3>5. Saying' BY DEF Saying, Grouped, Phases
    <3>6. Counted' BY DEF Counted, Counts, Sums
    <3>7. Fed' BY DEF Fed
    <3> QED BY <3>1, <3>2, <3>3, <3>4, <3>5, <3>6, <3>7
  <2>3. CASE C!Fails BY <2>0, <2>1, <2>3, FailsKeeps
  <2> QED BY <1>8, <2>2, <2>3 DEF C!Expires
<1>9. CASE C!Drained
  <2> DEFINE x == <<"exit", read, shell, expired.taken>>
  <2>0. /\ C!Works /\ phase = "draining" /\ says' = Append(says, x) /\ phase' = "over" /\ feeding' = FALSE
        /\ group' = (IF group = "held" THEN "free" ELSE group) /\ lifeline' = FALSE /\ UNCHANGED <<shell, helper>>
        /\ UNCHANGED <<act, dones, commandLife, expired, pipe, wrote, read, outs, ended, open, fed, took, accepted, closed, writes>>
    BY <1>9 DEF C!Drained, C!Exits, C!Frees, C!Says
  <2>1. /\ read \in Nat /\ outs \in Nat /\ says \in Seq(SaidItems) /\ expired.taken \in BOOLEAN
        /\ shell \in {"none", "exited", "killed"} /\ act = "stands" /\ commandLife = "first"
    BY <2>0 DEF CommandTypes, C!TypeOK, Phases, C!Works
  <2>2. x \in SaidItems /\ x[1] = "exit" /\ x[2] = read /\ x[4] = expired.taken BY <2>1, ItemForms
  <2> HIDE DEF x
  <2>3. /\ says' \in Seq(SaidItems) /\ Len(says') = Len(says) + 1 /\ says' # <<>> /\ Len(says) \in Nat
        /\ says'[Len(says')] = x /\ \A i \in 1 .. Len(says) : says'[i] = says[i]
    BY <2>0, <2>1, <2>2, SaidMore
  <2>4. group \in {"held", "slain"} BY <2>0 DEF Phases
  <2>5. CommandTypes' BY <2>0, <2>3, <2>4 DEF CommandTypes, C!TypeOK
  <2>6. C!ExitsOnce' BY <2>0 DEF C!ExitsOnce
  <2>7. Grouped' BY <2>0, <2>1, <2>4 DEF Grouped
  <2>8. Phases' BY <2>0, <2>1, <2>4 DEF Phases
  <2>9. Saying'
    <3>1. \A i \in 1 .. Len(says') - 1 : says'[i][1] = "out" BY <2>0, <2>1, <2>3 DEF Saying
    <3>2. LastSaid' = x BY <2>3 DEF LastSaid
    <3>3. "killed" \in {shell, helper} => expired.taken BY <2>0, <2>1 DEF Saying, Grouped
    <3> QED BY <2>0, <2>1, <2>2, <2>3, <3>1, <3>2, <3>3 DEF Saying
  <2>10. Counted'
    <3>1. Counts(says, outs, read) BY <2>1 DEF Counted
    <3>2. Counts(Append(says, x), outs, read) BY <2>1, <2>2, <3>1, CountsMore
    <3> QED BY <2>0, <3>2 DEF Counted
  <2>11. Fed' BY <2>0, <2>1 DEF Fed
  <2> QED BY <2>5, <2>6, <2>7, <2>8, <2>9, <2>10, <2>11
<1>10. CASE C!Feeds
  <2>0. /\ C!Works /\ feeding /\ fed # <<>>
        /\ UNCHANGED <<act, dones, commandLife, phase, shell, helper, group, lifeline, expired, pipe, wrote, read, says, outs,
             ended, open, accepted, closed, writes>>
    BY <1>10 DEF C!Feeds, C!procs, C!streams
  <2>1. /\ fed \in Seq(Nat) /\ took \in Seq(Nat) /\ accepted \in Seq(Nat) /\ Len(fed) \in Nat \ {0} /\ Len(took) \in Nat
        /\ Head(fed) = fed[1] /\ Head(fed) \in Nat /\ act # "none" /\ Tail(fed) \in Seq(Nat) /\ Len(Tail(fed)) = Len(fed) - 1
        /\ Append(took, Head(fed)) \in Seq(Nat) /\ Len(Append(took, Head(fed))) = Len(took) + 1
        /\ \A i \in 1 .. Len(fed) - 1 : Tail(fed)[i] = fed[i + 1]
    BY <2>0 DEF CommandTypes, C!Works
  <2>2. /\ Len(accepted) = Len(took) + Len(fed) /\ \A i \in 1 .. Len(fed) : accepted[Len(took) + i] = fed[i]
        /\ Len(took) <= Len(accepted) /\ \A i \in 1 .. Len(took) : took[i] = accepted[i]
    BY <2>0 DEF Fed
  <2>3. /\ took' \in Seq(Nat) /\ fed' \in Seq(Nat) /\ feeding' \in BOOLEAN
        /\ Len(took') <= Len(accepted) /\ \A i \in 1 .. Len(took') : took'[i] = accepted[i]
        /\ phase = "begun" \/ feeding' =>
             Len(accepted) = Len(took') + Len(fed') /\ \A i \in 1 .. Len(fed') : accepted[Len(took') + i] = fed'[i]
    <3>1. CASE Head(fed) # 0 /\ C!Lives(shell)
      <4>1. took' = Append(took, fed[1]) /\ fed' = Tail(fed) /\ feeding' = feeding BY <1>10, <2>1, <3>1 DEF C!Feeds
      <4>2. Len(took') = Len(took) + 1 /\ took'[Len(took) + 1] = fed[1] /\ \A i \in 1 .. Len(took) : took'[i] = took[i]
        BY <2>1, <4>1
      <4>3. accepted[Len(took) + 1] = fed[1] BY <2>1, <2>2
      <4>4. Len(took') <= Len(accepted) /\ Len(accepted) = Len(took') + Len(fed') BY <2>1, <2>2, <4>1, <4>2
      <4>5. ASSUME NEW i \in 1 .. Len(took') PROVE took'[i] = accepted[i]
        <5>1. CASE i = Len(took) + 1 BY <4>2, <4>3, <5>1
        <5>2. CASE i # Len(took) + 1
          <6>1. i \in 1 .. Len(took) BY <2>1, <4>2, <5>2
          <6> QED BY <2>2, <4>2, <6>1
        <5> QED BY <5>1, <5>2
      <4>6. ASSUME NEW i \in 1 .. Len(fed') PROVE accepted[Len(took') + i] = fed'[i]
        <5>1. i \in 1 .. Len(fed) - 1 /\ i + 1 \in 1 .. Len(fed) /\ Len(took') + i = Len(took) + (i + 1) BY <2>1, <4>1, <4>2
        <5> QED BY <2>1, <2>2, <4>1, <5>1
      <4>7. took' \in Seq(Nat) /\ fed' \in Seq(Nat) /\ feeding' \in BOOLEAN BY <2>1, <4>1 DEF CommandTypes
      <4> QED BY <4>4, <4>5, <4>6, <4>7
    <3>2. CASE ~(Head(fed) # 0 /\ C!Lives(shell))
      <4>1. feeding' = FALSE /\ fed' = <<>> /\ took' = took BY <1>10, <3>2 DEF C!Feeds
      <4>2. phase # "begun"
        <5>1. phase = "begun" => ~feeding BY DEF Fed
        <5> QED BY <2>0, <5>1
      <4>3. Len(fed') = 0 /\ fed' \in Seq(Nat) BY <4>1
      <4> QED BY <2>1, <2>2, <4>1, <4>2, <4>3
    <3> QED BY <3>1, <3>2
  <2>4. CommandTypes' BY <2>0, <2>3 DEF CommandTypes, C!TypeOK
  <2>5. C!ExitsOnce' /\ Grouped' BY <2>0 DEF C!ExitsOnce, Grouped
  <2>6. Phases' /\ Saying' BY <2>0 DEF Phases, Saying, LastSaid
  <2>7. Counted' BY <2>0 DEF Counted, Counts, Sums
  <2>8. Fed' BY <2>0, <2>1, <2>3 DEF Fed
  <2> QED BY <2>4, <2>5, <2>6, <2>7, <2>8
<1>11. CASE C!Writes
  <2> USE <1>11 DEF C!Writes, C!Ends, C!Quiet, C!Works, C!Says, C!Fails, C!Dropped, C!Slain, C!Killed, C!Lives, C!Exits, C!Frees, C!Opens, C!ShellReady, C!procs, C!streams, C!stdin
  <2>1. CommandTypes' BY ItemForms DEF CommandTypes, C!TypeOK
  <2>2. C!ExitsOnce' BY DEF CommandTypes, C!TypeOK, C!ExitsOnce, Phases
  <2>3. Grouped' BY DEF CommandTypes, C!TypeOK, Grouped, Phases
  <2>4. Phases' BY DEF CommandTypes, C!TypeOK, Phases, Grouped
  <2>5. Saying' BY DEF CommandTypes, C!TypeOK, Saying, LastSaid, Grouped, Phases
  <2>6. Counted' BY DEF CommandTypes, C!TypeOK, Counted
  <2>7. Fed' BY DEF CommandTypes, C!TypeOK, Fed, Phases
  <2> QED BY <2>1, <2>2, <2>3, <2>4, <2>5, <2>6, <2>7
<1>12. CASE C!Leaves
  <2> USE <1>12 DEF C!Leaves, C!Ends, C!Quiet, C!Works, C!Says, C!Fails, C!Dropped, C!Slain, C!Killed, C!Lives, C!Exits, C!Frees, C!Opens, C!ShellReady, C!procs, C!streams, C!stdin
  <2>1. CommandTypes' BY ItemForms DEF CommandTypes, C!TypeOK
  <2>2. C!ExitsOnce' BY DEF CommandTypes, C!TypeOK, C!ExitsOnce, Phases
  <2>3. Grouped' BY DEF CommandTypes, C!TypeOK, Grouped, Phases
  <2>4. Phases' BY DEF CommandTypes, C!TypeOK, Phases, Grouped
  <2>5. Saying' BY DEF CommandTypes, C!TypeOK, Saying, LastSaid, Grouped, Phases
  <2>6. Counted' BY DEF CommandTypes, C!TypeOK, Counted
  <2>7. Fed' BY DEF CommandTypes, C!TypeOK, Fed, Phases
  <2> QED BY <2>1, <2>2, <2>3, <2>4, <2>5, <2>6, <2>7
<1>13. CASE C!Late
  <2> USE <1>13 DEF C!Late, C!Ends, C!Quiet, C!Works, C!Says, C!Fails, C!Dropped, C!Slain, C!Killed, C!Lives, C!Exits, C!Frees, C!Opens, C!ShellReady, C!procs, C!streams, C!stdin
  <2>1. CommandTypes' BY ItemForms DEF CommandTypes, C!TypeOK
  <2>2. C!ExitsOnce' BY DEF CommandTypes, C!TypeOK, C!ExitsOnce, Phases
  <2>3. Grouped' BY DEF CommandTypes, C!TypeOK, Grouped, Phases
  <2>4. Phases' BY DEF CommandTypes, C!TypeOK, Phases, Grouped
  <2>5. Saying' BY DEF CommandTypes, C!TypeOK, Saying, LastSaid, Grouped, Phases
  <2>6. Counted' BY DEF CommandTypes, C!TypeOK, Counted
  <2>7. Fed' BY DEF CommandTypes, C!TypeOK, Fed, Phases
  <2> QED BY <2>1, <2>2, <2>3, <2>4, <2>5, <2>6, <2>7
<1>14. CASE C!Dies
  <2> USE <1>14 DEF C!Dies, C!Ends, C!Quiet, C!Works, C!Says, C!Fails, C!Dropped, C!Slain, C!Killed, C!Lives, C!Exits, C!Frees, C!Opens, C!ShellReady, C!procs, C!streams, C!stdin
  <2>1. CommandTypes' BY ItemForms DEF CommandTypes, C!TypeOK
  <2>2. C!ExitsOnce' BY DEF CommandTypes, C!TypeOK, C!ExitsOnce, Phases
  <2>3. Grouped' BY DEF CommandTypes, C!TypeOK, Grouped, Phases
  <2>4. Phases' BY DEF CommandTypes, C!TypeOK, Phases, Grouped
  <2>5. Saying' BY DEF CommandTypes, C!TypeOK, Saying, LastSaid, Grouped, Phases
  <2>6. Counted' BY DEF CommandTypes, C!TypeOK, Counted
  <2>7. Fed' BY DEF CommandTypes, C!TypeOK, Fed, Phases
  <2> QED BY <2>1, <2>2, <2>3, <2>4, <2>5, <2>6, <2>7
<1>15. CASE C!WatchEnds
  <2> USE <1>15 DEF C!WatchEnds, C!Ends, C!Quiet, C!Works, C!Says, C!Fails, C!Dropped, C!Slain, C!Killed, C!Lives, C!Exits, C!Frees, C!Opens, C!ShellReady, C!procs, C!streams, C!stdin
  <2>1. CommandTypes' BY ItemForms DEF CommandTypes, C!TypeOK
  <2>2. C!ExitsOnce' BY DEF CommandTypes, C!TypeOK, C!ExitsOnce, Phases
  <2>3. Grouped' BY DEF CommandTypes, C!TypeOK, Grouped, Phases
  <2>4. Phases' BY DEF CommandTypes, C!TypeOK, Phases, Grouped
  <2>5. Saying' BY DEF CommandTypes, C!TypeOK, Saying, LastSaid, Grouped, Phases
  <2>6. Counted' BY DEF CommandTypes, C!TypeOK, Counted
  <2>7. Fed' BY DEF CommandTypes, C!TypeOK, Fed, Phases
  <2> QED BY <2>1, <2>2, <2>3, <2>4, <2>5, <2>6, <2>7
<1>16. CASE C!Interrupted
  <2> USE <1>16 DEF C!Interrupted, C!Ends, C!Quiet, C!Works, C!Says, C!Fails, C!Dropped, C!Slain, C!Killed, C!Lives, C!Exits, C!Frees, C!Opens, C!ShellReady, C!procs, C!streams, C!stdin
  <2>1. CommandTypes' BY ItemForms DEF CommandTypes, C!TypeOK
  <2>2. C!ExitsOnce' BY DEF CommandTypes, C!TypeOK, C!ExitsOnce, Phases
  <2>3. Grouped' BY DEF CommandTypes, C!TypeOK, Grouped, Phases
  <2>4. Phases' BY DEF CommandTypes, C!TypeOK, Phases, Grouped
  <2>5. Saying' BY DEF CommandTypes, C!TypeOK, Saying, LastSaid, Grouped, Phases
  <2>6. Counted' BY DEF CommandTypes, C!TypeOK, Counted
  <2>7. Fed' BY DEF CommandTypes, C!TypeOK, Fed, Phases
  <2> QED BY <2>1, <2>2, <2>3, <2>4, <2>5, <2>6, <2>7
<1>17. CASE UNCHANGED ofCommands
  <2> USE <1>17 DEF ofCommands
  <2>1. CommandTypes' BY DEF CommandTypes, C!TypeOK
  <2>2. C!ExitsOnce' /\ Grouped' BY DEF C!ExitsOnce, Grouped
  <2>3. Phases' /\ Saying' BY DEF Phases, Saying, LastSaid
  <2>4. Counted' BY DEF Counted, Counts, Sums
  <2>5. Fed' BY DEF Fed
  <2> QED BY <2>1, <2>2, <2>3, <2>4, <2>5
<1> QED BY <1>1, <1>2, <1>3, <1>4, <1>5, <1>6, <1>7, <1>8, <1>9, <1>10, <1>11, <1>12, <1>13, <1>14, <1>15, <1>16, <1>17 DEF C!Next

\* A command is done once, after all that it said, with the stdin that was accepted in its order, and leaves no
\* process that its shell did not leave, whatever its exit, timeout, control and the death of the host do (Bash, Group).
THEOREM CommandsTheorem == Spec => []CommandsEnd
<1>1. Init => CommandInv
  <2> SUFFICES ASSUME C!Init PROVE CommandInv
    BY DEF Init
  <2> USE DEF C!Init
  <2>1. <<>> \in Seq(SaidItems) /\ <<>> \in Seq(Nat) OBVIOUS
  <2>2. C!TypeOK BY DEF C!TypeOK
  <2>7. CommandTypes BY <2>1, <2>2 DEF CommandTypes
  <2>3. C!ExitsOnce /\ Grouped BY DEF C!ExitsOnce, Grouped
  <2>4. Phases /\ Saying BY DEF Phases, Saying
  <2>5. Counted
    <3> DEFINE s == [i \in 0 .. 0 |-> 0]
    <3>1. s \in [0 .. 0 -> Nat] /\ s[0] = 0 /\ Len(<<>>) = 0 OBVIOUS
    <3>2. Sums(<<>>, 0, 0, s) BY <3>1 DEF Sums
    <3> QED BY <3>1, <3>2 DEF Counted, Counts
  <2>6. Fed BY DEF Fed
  <2> QED BY <2>3, <2>4, <2>5, <2>6, <2>7 DEF CommandInv
<1>2. CommandInv /\ [Next]_vars => CommandInv'
  <2>1. [Next]_vars => [C!Next]_ofCommands
    BY DEF Next, Journal, Logs, Provider, Commands, Conversations, Forks, SignIn, vars
  <2> QED BY <2>1, CommandNext
<1>3. CommandInv => CommandsEnd
  <2> SUFFICES ASSUME CommandInv PROVE C!TypeOK /\ C!CommandsEnd
    BY DEF CommandsEnd
  <2> USE DEF CommandInv
  <2>1. C!TypeOK /\ C!ExitsOnce BY DEF CommandTypes
  <2>2. C!NoneOutlives BY <2>1 DEF C!TypeOK, C!NoneOutlives, C!Lives, Grouped, Phases, Saying
  <2>3. C!Watched BY <2>1 DEF C!TypeOK, C!Watched, C!Lives, Grouped
  <2>4. C!ExitIsLast BY <2>1 DEF C!TypeOK, C!ExitIsLast, Phases, Saying
  <2>5. C!StdinInOrder
    <3>1. took \in Seq(Nat) /\ accepted \in Seq(Nat) /\ Len(took) \in Nat /\ Len(accepted) \in Nat BY DEF CommandTypes
    <3>2. Len(took) <= Len(accepted) /\ \A i \in 1 .. Len(took) : took[i] = accepted[i] BY DEF Fed
    <3>3. SubSeq(took, 1, Len(took)) = SubSeq(accepted, 1, Len(took)) BY <3>1, <3>2
    <3>4. C!IsPrefix(took, accepted) BY <3>2, <3>3 DEF C!IsPrefix
    <3>5. \A i \in 1 .. Len(accepted) : accepted[i] = 0 => i = Len(accepted) BY <3>1 DEF Fed
    <3> QED BY <3>4, <3>5 DEF C!StdinInOrder
  <2> QED BY <2>1, <2>2, <2>3, <2>4, <2>5 DEF C!CommandsEnd
<1> QED BY <1>1, <1>2, <1>3, PTL DEF Spec

-----------------------------------------------------------------------------
(* The sign-in of a provider.                                               *)

Credentials == [account : Accounts \cup {""}, refresh : Nat, fresh : BOOLEAN]
Catalogs == [account : Accounts \cup {""}, fresh : BOOLEAN]
FlowStatus == {"disconnected", "connected", "waiting", "connecting", "canceled", "failed", "needs-login"}
Flows == [status : FlowStatus, of : Nat]
SignSteps == {"callback", "trades", "reads", "locks", "rereads", "renews", "keeps", "lists", "asks", "ends", "updates", "over"}
SignEnds == {"connected", "failed", "needs-login"}
AllEnds == SignEnds \cup {""}
SignTasks == [sign : BOOLEAN, step : SignSteps, canceled : BOOLEAN, held : Credentials, end : AllEnds]

SignTypes ==
  /\ S!TypeOK
  /\ tasks \in Seq(SignTasks) /\ begins \in Seq(BOOLEAN) /\ issued \in Nat
  /\ flow \in Flows /\ port \in Nat /\ lock \in Nat
  /\ file \in Credentials /\ catalog \in Catalogs
  /\ expiries \in Nat /\ faults \in Nat

\* A call alone asks a model, and a sign-in that ends has an end to set.
StepsOfTasks ==
  \A t \in S!Tasks :
    /\ tasks[t].step = "asks" => ~tasks[t].sign
    /\ tasks[t].step \in {"ends", "updates"} => tasks[t].end \in SignEnds

\* The lock of the file is of one task, which reads the credential again, renews it and keeps it.
Locked ==
  /\ \A t \in S!Tasks : tasks[t].step \in {"rereads", "renews"} => lock = t
  /\ lock # 0 => tasks[lock].step \in {"rereads", "renews", "keeps"}

\* The server takes what a task is about to keep, which no other task and no disk holds: neither a renewal, which takes
\* a credential out of the server, nor the save of another sign-in can make it stale.
Refreshes ==
  /\ file.refresh <= issued
  /\ file.refresh # 0 => file.refresh \in live \cup lost \/ (lock # 0 /\ tasks[lock].step = "keeps")
  /\ lock # 0 /\ tasks[lock].step \in {"renews", "keeps"} => file.refresh # 0
  /\ \A t \in S!Tasks : tasks[t].step = "renews" => tasks[t].held.refresh \in live \cup lost
  /\ \A t \in S!Tasks : tasks[t].step = "keeps" => tasks[t].held.refresh \in live
  /\ \A t \in S!Tasks : tasks[t].step = "keeps" /\ lock # t => tasks[t].held.refresh # file.refresh
  /\ \A t, o \in S!Tasks : t # o /\ tasks[t].step \in {"renews", "keeps"} /\ tasks[o].step = "keeps" =>
       tasks[t].held.refresh # tasks[o].held.refresh

SignInv == SignTypes /\ StepsOfTasks /\ Locked /\ Refreshes /\ S!FlowsEnd

\* One task changed where it is, what it holds and its end, and no other did.
Changed(t, step, held, end) ==
  /\ tasks' \in Seq(SignTasks) /\ Len(tasks') = Len(tasks) /\ S!Tasks' = S!Tasks
  /\ \A o \in S!Tasks : o # t => tasks'[o] = tasks[o]
  /\ tasks'[t].step = step /\ tasks'[t].held = held /\ tasks'[t].end = end
  /\ tasks'[t].sign = tasks[t].sign /\ tasks'[t].canceled = tasks[t].canceled

\* A task took the lock, holds it, or gave it up, and comes to no step under the lock without it.
Locks(t, step) ==
  /\ (lock \in {0, t} /\ lock' \in {0, t}) \/ (lock # t /\ lock' = lock)
  /\ step \in {"rereads", "renews"} => lock' = t
  /\ lock' = t => step \in {"rereads", "renews", "keeps"}

\* The refresh credentials stay ones that were issued.
Issued ==
  /\ issued' \in Nat /\ issued <= issued'
  /\ \A r \in live' \cup lost' : r \in Nat /\ r # 0 /\ r <= issued'

LEMMA TaskForms ==
  ASSUME SignTypes, NEW t \in S!Tasks
  PROVE  /\ tasks[t] \in SignTasks /\ tasks[t].sign \in BOOLEAN /\ tasks[t].canceled \in BOOLEAN
         /\ tasks[t].step \in SignSteps /\ tasks[t].end \in AllEnds /\ tasks[t].held \in Credentials
         /\ tasks[t].held.refresh \in Nat /\ t \in Nat /\ t # 0 /\ t \in 1 .. Len(tasks) /\ Len(tasks) \in Nat
<1>1. tasks \in Seq(SignTasks) /\ t \in 1 .. Len(tasks) BY DEF SignTypes, S!Tasks
<1>2. tasks[t] \in SignTasks BY <1>1
<1>3. tasks[t].held \in Credentials BY <1>2 DEF SignTasks
<1>4. tasks[t].held.refresh \in Nat BY <1>3 DEF Credentials
<1>5. tasks[t].sign \in BOOLEAN /\ tasks[t].canceled \in BOOLEAN /\ tasks[t].step \in SignSteps /\ tasks[t].end \in AllEnds
  BY <1>2 DEF SignTasks
<1>6. Len(tasks) \in Nat BY <1>1
<1>7. t \in Nat /\ t # 0 BY <1>1, <1>6
<1> QED BY <1>1, <1>2, <1>3, <1>4, <1>5, <1>6, <1>7

\* The tasks that the flow, the port and the lock name, and the refresh credentials that were issued.
LEMMA SignBounds ==
  ASSUME SignTypes
  PROVE  /\ Len(tasks) \in Nat /\ flow.of \in Nat /\ flow.of <= Len(tasks) /\ port \in Nat /\ port <= Len(tasks)
         /\ lock \in Nat /\ lock <= Len(tasks) /\ (lock # 0 => lock \in S!Tasks) /\ (flow.of # 0 => flow.of \in S!Tasks)
         /\ issued \in Nat /\ file.refresh \in Nat /\ \A r \in live \cup lost : r \in Nat /\ r # 0 /\ r <= issued
<1>1. Len(tasks) \in Nat BY DEF SignTypes
<1>2. flow.of \in 0 .. Len(tasks) /\ port \in 0 .. Len(tasks) /\ lock \in 0 .. Len(tasks) /\ live \subseteq 1 .. issued
      /\ lost \subseteq 1 .. issued
  BY DEF SignTypes, S!TypeOK
<1>3. issued \in Nat /\ file.refresh \in Nat
  <2>1. file \in Credentials /\ issued \in Nat BY DEF SignTypes
  <2> QED BY <2>1 DEF Credentials
<1>4. (lock # 0 => lock \in 1 .. Len(tasks)) /\ (flow.of # 0 => flow.of \in 1 .. Len(tasks)) BY <1>1, <1>2
<1>5. \A r \in live \cup lost : r \in Nat /\ r # 0 /\ r <= issued
  <2> SUFFICES ASSUME NEW r \in live \cup lost PROVE r \in Nat /\ r # 0 /\ r <= issued OBVIOUS
  <2>1. r \in 1 .. issued BY <1>2
  <2> QED BY <1>3, <2>1
<1>6. flow.of \in Nat /\ flow.of <= Len(tasks) /\ port \in Nat /\ port <= Len(tasks) /\ lock \in Nat /\ lock <= Len(tasks)
  BY <1>1, <1>2
<1> QED BY <1>1, <1>3, <1>4, <1>5, <1>6 DEF S!Tasks

\* The types hold of a state whose parts have them.
LEMMA SignTyped ==
  ASSUME tasks' \in Seq(SignTasks), begins' \in Seq(BOOLEAN), issued' \in Nat, flow' \in Flows,
         file' \in Credentials, catalog' \in Catalogs,
         expiries' \in Nat, faults' \in Nat, flow'.of <= Len(tasks'), port' \in Nat, port' <= Len(tasks'),
         lock' \in Nat, lock' <= Len(tasks'), \A r \in live' \cup lost' : r \in Nat /\ r # 0 /\ r <= issued'
  PROVE  SignTypes'
<1>1. Len(tasks') \in Nat /\ flow'.of \in Nat BY DEF Flows
<1>2. flow'.of \in 0 .. Len(tasks') /\ port' \in 0 .. Len(tasks') /\ lock' \in 0 .. Len(tasks') BY <1>1
<1>3. live' \subseteq 1 .. issued' /\ lost' \subseteq 1 .. issued' OBVIOUS
<1>4. file'.account \in Accounts \cup {""} BY DEF Credentials
<1>5. S!TypeOK' BY <1>2, <1>3, <1>4 DEF S!TypeOK
<1> QED BY <1>3, <1>5 DEF SignTypes

LEMMA TaskChanges ==
  ASSUME SignTypes, NEW t \in S!Tasks, NEW step \in SignSteps
  PROVE  /\ S!Goes(t, step) => Changed(t, step, tasks[t].held, tasks[t].end)
         /\ \A held \in Credentials : tasks' = [tasks EXCEPT ![t].held = held, ![t].step = step] =>
              Changed(t, step, held, tasks[t].end)
         /\ \A end \in SignEnds : tasks' = [tasks EXCEPT ![t].step = step, ![t].end = end] =>
              Changed(t, step, tasks[t].held, end)
<1>0. tasks \in Seq(SignTasks) /\ tasks[t] \in SignTasks /\ t \in 1 .. Len(tasks) /\ S!Tasks = 1 .. Len(tasks)
  BY TaskForms DEF SignTypes, S!Tasks
<1>1. ASSUME NEW x \in SignTasks, tasks' = [tasks EXCEPT ![t] = x]
      PROVE /\ tasks' \in Seq(SignTasks) /\ Len(tasks') = Len(tasks) /\ S!Tasks' = S!Tasks /\ tasks'[t] = x
            /\ \A o \in S!Tasks : o # t => tasks'[o] = tasks[o]
  <2>1. tasks' \in Seq(SignTasks) /\ Len(tasks') = Len(tasks) BY <1>0, <1>1
  <2>2. tasks'[t] = x /\ \A o \in 1 .. Len(tasks) : o # t => tasks'[o] = tasks[o] BY <1>0, <1>1
  <2> QED BY <1>0, <2>1, <2>2 DEF S!Tasks
<1>2. ASSUME NEW held \in Credentials, NEW end \in AllEnds,
             tasks' = [tasks EXCEPT ![t] = [tasks[t] EXCEPT !.step = step, !.held = held, !.end = end]]
      PROVE Changed(t, step, held, end)
  <2> DEFINE x == [tasks[t] EXCEPT !.step = step, !.held = held, !.end = end]
  <2>1. x \in SignTasks /\ x.step = step /\ x.held = held /\ x.end = end /\ x.sign = tasks[t].sign
        /\ x.canceled = tasks[t].canceled
    BY <1>0, <1>2 DEF SignTasks
  <2>2. tasks' = [tasks EXCEPT ![t] = x] BY <1>2
  <2> HIDE DEF x
  <2> QED BY <1>1, <2>1, <2>2 DEF Changed
<1>3. ASSUME S!Goes(t, step) PROVE Changed(t, step, tasks[t].held, tasks[t].end)
  <2>1. tasks[t].held \in Credentials /\ tasks[t].end \in AllEnds BY TaskForms
  <2>2. [tasks[t] EXCEPT !.step = step, !.held = tasks[t].held, !.end = tasks[t].end] = [tasks[t] EXCEPT !.step = step]
    BY <1>0 DEF SignTasks
  <2>3. tasks' = [tasks EXCEPT ![t] = [tasks[t] EXCEPT !.step = step]] BY <1>3 DEF S!Goes
  <2> QED BY <1>2, <2>1, <2>2, <2>3
<1>4. ASSUME NEW held \in Credentials, tasks' = [tasks EXCEPT ![t].held = held, ![t].step = step]
      PROVE Changed(t, step, held, tasks[t].end)
  <2>1. tasks[t].end \in AllEnds BY TaskForms
  <2>2. [tasks[t] EXCEPT !.step = step, !.held = held, !.end = tasks[t].end]
        = [[tasks[t] EXCEPT !.held = held] EXCEPT !.step = step]
    BY <1>0 DEF SignTasks
  <2>3. tasks' = [tasks EXCEPT ![t] = [[tasks[t] EXCEPT !.held = held] EXCEPT !.step = step]] BY <1>0, <1>4
  <2> QED BY <1>2, <2>1, <2>2, <2>3
<1>5. ASSUME NEW end \in SignEnds, tasks' = [tasks EXCEPT ![t].step = step, ![t].end = end]
      PROVE Changed(t, step, tasks[t].held, end)
  <2>1. tasks[t].held \in Credentials /\ end \in AllEnds BY TaskForms DEF AllEnds
  <2>2. [tasks[t] EXCEPT !.step = step, !.held = tasks[t].held, !.end = end]
        = [[tasks[t] EXCEPT !.step = step] EXCEPT !.end = end]
    BY <1>0 DEF SignTasks
  <2>3. tasks' = [tasks EXCEPT ![t] = [[tasks[t] EXCEPT !.step = step] EXCEPT !.end = end]] BY <1>0, <1>5
  <2> QED BY <1>2, <2>1, <2>2, <2>3
<1> QED BY <1>3, <1>4, <1>5

LEMMA SignSteps0 ==
  /\ \A step \in {"callback", "trades", "reads", "locks", "rereads", "renews", "keeps", "lists", "asks", "ends", "updates", "over"} :
       step \in SignSteps
  /\ \A end \in {"connected", "failed", "needs-login"} : end \in SignEnds /\ end \in AllEnds
  BY DEF SignSteps, SignEnds, AllEnds

\* A step of one task keeps the invariant when it keeps the credentials in their places.
LEMMA TaskKept ==
  ASSUME SignInv, NEW t \in S!Tasks, NEW step \in SignSteps, NEW held \in Credentials, NEW end \in AllEnds,
         Changed(t, step, held, end), Locks(t, step), Issued, UNCHANGED <<begins, expiries>>,
         file' \in Credentials, catalog' \in Catalogs, faults' \in Nat, port' \in {0, port},
         \/ flow' = flow /\ (step = "over" => ~tasks[t].sign \/ tasks[t].canceled)
         \/ flow' \in Flows /\ flow'.of <= Len(tasks) /\ flow'.status \notin S!Running,
         step = "asks" => ~tasks[t].sign, step \in {"ends", "updates"} => end \in SignEnds,
         Refreshes'
  PROVE  SignInv'
<1>0. SignTypes /\ StepsOfTasks /\ Locked /\ S!FlowsEnd BY DEF SignInv
<1>1. /\ t # 0 /\ t \in Nat /\ t <= Len(tasks) /\ Len(tasks) \in Nat /\ \A o \in S!Tasks : o \in Nat /\ o # 0
  <2>1. t \in 1 .. Len(tasks) /\ Len(tasks) \in Nat /\ \A o \in S!Tasks : o \in Nat /\ o # 0 BY <1>0, TaskForms
  <2> QED BY <2>1
<1>2. /\ S!Tasks' = S!Tasks /\ tasks' \in Seq(SignTasks) /\ Len(tasks') = Len(tasks)
      /\ \A o \in S!Tasks : o # t => tasks'[o] = tasks[o]
      /\ tasks'[t].step = step /\ tasks'[t].held = held /\ tasks'[t].end = end
      /\ tasks'[t].sign = tasks[t].sign /\ tasks'[t].canceled = tasks[t].canceled
  BY DEF Changed
<1>3. /\ flow.of <= Len(tasks) /\ port \in Nat /\ port <= Len(tasks) /\ lock \in Nat /\ lock <= Len(tasks)
      /\ (lock # 0 => lock \in S!Tasks)
  BY <1>0, SignBounds
<1>4. /\ (lock \in {0, t} /\ lock' \in {0, t}) \/ (lock # t /\ lock' = lock)
      /\ step \in {"rereads", "renews"} => lock' = t
      /\ lock' = t => step \in {"rereads", "renews", "keeps"}
  BY DEF Locks
<1>5. SignTypes'
  <2>1. flow' \in Flows /\ flow'.of <= Len(tasks) BY <1>0, <1>3 DEF SignTypes
  <2>2. lock' \in Nat /\ lock' <= Len(tasks) /\ port' \in Nat /\ port' <= Len(tasks) BY <1>1, <1>3, <1>4
  <2>3. begins' \in Seq(BOOLEAN) /\ expiries' \in Nat BY <1>0 DEF SignTypes
  <2>4. issued' \in Nat /\ \A r \in live' \cup lost' : r \in Nat /\ r # 0 /\ r <= issued' BY DEF Issued
  <2> QED BY <1>2, <2>1, <2>2, <2>3, <2>4, SignTyped
<1>6. StepsOfTasks' BY <1>0, <1>2 DEF StepsOfTasks
<1>7. Locked'
  <2>1. \A o \in S!Tasks : tasks'[o].step \in {"rereads", "renews"} => lock' = o BY <1>0, <1>1, <1>2, <1>4 DEF Locked
  <2>2. lock' # 0 => tasks'[lock'].step \in {"rereads", "renews", "keeps"} BY <1>0, <1>2, <1>3, <1>4 DEF Locked
  <2> QED BY <1>2, <2>1, <2>2 DEF Locked
<1>8. S!FlowsEnd'
  <2>1. CASE flow' = flow /\ (step = "over" => ~tasks[t].sign \/ tasks[t].canceled)
    BY <1>0, <1>2, <2>1 DEF S!FlowsEnd, S!Signs
  <2>2. CASE flow'.status \notin S!Running BY <2>2 DEF S!FlowsEnd, S!Running
  <2> QED BY <2>1, <2>2
<1> QED BY <1>5, <1>6, <1>7, <1>8 DEF SignInv

\* The credentials stay in their places when a task that is not about to keep one goes on, and what the server takes or
\* lost its renewal of grows but for what is at hand of no task that keeps.
LEMMA Refreshed ==
  ASSUME SignInv, NEW t \in S!Tasks, NEW step, NEW held, NEW end, Changed(t, step, held, end), Locks(t, step), Issued,
         step # "keeps", file'.refresh = file.refresh, live \cup lost \subseteq live' \cup lost',
         \A o \in S!Tasks : o # t /\ tasks[o].step = "keeps" => tasks[o].held.refresh \in live',
         step = "renews" => tasks[t].step = "rereads" /\ lock = t /\ held.refresh = file.refresh /\ file.refresh # 0,
         lock = t /\ tasks[t].step = "keeps" /\ file.refresh # 0 => file.refresh \in live' \cup lost'
  PROVE  Refreshes'
<1>0. SignTypes /\ Locked /\ Refreshes BY DEF SignInv
<1>1. t # 0 /\ t \in Nat /\ \A o \in S!Tasks : o \in Nat /\ o # 0 BY <1>0, TaskForms
<1>2. /\ S!Tasks' = S!Tasks /\ \A o \in S!Tasks : o # t => tasks'[o] = tasks[o]
      /\ tasks'[t].step = step /\ tasks'[t].held = held
  BY DEF Changed
<1>3. lock \in Nat /\ (lock # 0 => lock \in S!Tasks) /\ issued \in Nat /\ file.refresh \in Nat BY <1>0, SignBounds
<1>4. /\ (lock \in {0, t} /\ lock' \in {0, t}) \/ (lock # t /\ lock' = lock)
      /\ lock' = t => step \in {"rereads", "renews", "keeps"}
  BY DEF Locks
<1>5. file.refresh <= issued BY <1>0 DEF Refreshes
<1>6. file'.refresh <= issued' BY <1>3, <1>5 DEF Issued
<1>7. file'.refresh # 0 => file'.refresh \in live' \cup lost' \/ (lock' # 0 /\ tasks'[lock'].step = "keeps")
  <2>1. file.refresh # 0 => file.refresh \in live \cup lost \/ (lock # 0 /\ tasks[lock].step = "keeps") BY <1>0 DEF Refreshes
  <2> QED BY <1>1, <1>2, <1>3, <1>4, <2>1
<1>8. lock' # 0 /\ tasks'[lock'].step \in {"renews", "keeps"} => file'.refresh # 0
  BY <1>0, <1>1, <1>2, <1>3, <1>4 DEF Refreshes
<1>9. ASSUME NEW o \in S!Tasks, tasks'[o].step = "keeps"
      PROVE /\ o # t /\ tasks'[o] = tasks[o] /\ tasks[o].step = "keeps" /\ tasks'[o].held.refresh \in live'
            /\ (lock' # o => lock # o)
  BY <1>1, <1>2, <1>4, <1>9
<1>10. \A o \in S!Tasks : tasks'[o].step = "renews" => tasks'[o].held.refresh \in live' \cup lost'
  <2> SUFFICES ASSUME NEW o \in S!Tasks, tasks'[o].step = "renews" PROVE tasks'[o].held.refresh \in live' \cup lost'
    OBVIOUS
  <2>1. CASE o = t
    <3>1. tasks'[o].held.refresh = file.refresh /\ file.refresh # 0 /\ lock = t /\ tasks[t].step = "rereads"
      BY <1>2, <2>1
    <3> QED BY <1>0, <3>1 DEF Refreshes
  <2>2. CASE o # t BY <1>0, <1>2, <2>2 DEF Refreshes
  <2> QED BY <2>1, <2>2
<1>11. \A o \in S!Tasks : tasks'[o].step = "keeps" /\ lock' # o => tasks'[o].held.refresh # file'.refresh
  BY <1>0, <1>9 DEF Refreshes
<1>12. \A p, o \in S!Tasks : p # o /\ tasks'[p].step \in {"renews", "keeps"} /\ tasks'[o].step = "keeps" =>
         tasks'[p].held.refresh # tasks'[o].held.refresh
  <2> SUFFICES ASSUME NEW p \in S!Tasks, NEW o \in S!Tasks, p # o, tasks'[p].step \in {"renews", "keeps"},
                      tasks'[o].step = "keeps"
               PROVE  tasks'[p].held.refresh # tasks'[o].held.refresh
    OBVIOUS
  <2>1. o # t /\ tasks'[o] = tasks[o] /\ tasks[o].step = "keeps" BY <1>9
  <2>2. CASE p = t
    <3>1. tasks'[p].held.refresh = file.refresh /\ lock = t BY <1>2, <2>2
    <3> QED BY <1>0, <2>1, <3>1 DEF Refreshes
  <2>3. CASE p # t BY <1>0, <1>2, <2>1, <2>3 DEF Refreshes
  <2> QED BY <2>2, <2>3
<1>13. \A o \in S!Tasks : tasks'[o].step = "keeps" => tasks'[o].held.refresh \in live' BY <1>9
<1> QED BY <1>2, <1>6, <1>7, <1>8, <1>10, <1>11, <1>12, <1>13 DEF Refreshes

\* A task that is served goes on with the credential.
LEMMA ServesForms ==
  ASSUME SignTypes, NEW t \in S!Tasks, NEW held \in Credentials, S!Serves(t, held)
  PROVE  \E step \in {"lists", "asks"} : Changed(t, step, held, tasks[t].end) /\ (step = "asks" => ~tasks[t].sign)
<1>1. CASE tasks[t].sign
  <2>1. tasks' = [tasks EXCEPT ![t].held = held, ![t].step = "lists"] BY <1>1 DEF S!Serves
  <2>2. Changed(t, "lists", held, tasks[t].end) BY <2>1, SignSteps0, TaskChanges
  <2> QED BY <2>2
<1>2. CASE ~tasks[t].sign
  <2>1. tasks' = [tasks EXCEPT ![t].held = held, ![t].step = "asks"] BY <1>2 DEF S!Serves
  <2>2. Changed(t, "asks", held, tasks[t].end) BY <2>1, SignSteps0, TaskChanges
  <2> QED BY <1>2, <2>2
<1> QED BY <1>1, <1>2

\* A task comes to a step with a credential, however the two are written.
LEMMA HoldsForms ==
  ASSUME SignTypes, NEW t \in S!Tasks, NEW step \in SignSteps, NEW held \in Credentials,
         tasks' = [tasks EXCEPT ![t].step = step, ![t].held = held]
  PROVE  Changed(t, step, held, tasks[t].end)
<1>1. tasks \in Seq(SignTasks) /\ tasks[t] \in SignTasks /\ t \in 1 .. Len(tasks) BY TaskForms DEF SignTypes
<1>2. [[tasks[t] EXCEPT !.step = step] EXCEPT !.held = held] = [[tasks[t] EXCEPT !.held = held] EXCEPT !.step = step]
  BY <1>1 DEF SignTasks
<1>3. tasks' = [tasks EXCEPT ![t] = [[tasks[t] EXCEPT !.step = step] EXCEPT !.held = held]] BY <1>1
<1>4. [tasks EXCEPT ![t].held = held, ![t].step = step]
      = [tasks EXCEPT ![t] = [[tasks[t] EXCEPT !.held = held] EXCEPT !.step = step]] BY <1>1
<1>5. tasks' = [tasks EXCEPT ![t].held = held, ![t].step = step] BY <1>2, <1>3, <1>4
<1> QED BY <1>5, TaskChanges

\* A task that fails ends, or is over and may ask for a sign-in, and gives up the lock.
LEMMA FailsKept ==
  ASSUME SignInv, NEW t \in S!Tasks, NEW login \in BOOLEAN, S!Fails(t, login), lock' = (IF lock = t THEN 0 ELSE lock),
         port' \in {0, port}, UNCHANGED <<begins, file, catalog, expiries>>, faults' \in Nat, Issued,
         live \cup lost \subseteq live' \cup lost',
         \A o \in S!Tasks : o # t /\ tasks[o].step = "keeps" => tasks[o].held.refresh \in live',
         lock = t /\ tasks[t].step = "keeps" /\ file.refresh # 0 => file.refresh \in live' \cup lost'
  PROVE  SignInv'
<1>0. SignTypes BY DEF SignInv
<1>1. /\ tasks[t] \in SignTasks /\ tasks[t].sign \in BOOLEAN /\ t # 0 /\ t \in Nat /\ Len(tasks) \in Nat
      /\ tasks[t].held \in Credentials /\ tasks[t].end \in AllEnds
  BY <1>0, TaskForms
<1>2. PICK step \in {"ends", "over"}, end \in AllEnds :
        /\ Changed(t, step, tasks[t].held, end) /\ (step = "over" => ~tasks[t].sign) /\ (step = "ends" => end \in SignEnds)
        /\ (flow' = flow \/ flow' = [status |-> "needs-login", of |-> 0])
  <2>1. CASE tasks[t].sign
    <3>1. PICK end \in {"failed", "needs-login"} : tasks' = [tasks EXCEPT ![t].step = "ends", ![t].end = end]
      BY <2>1 DEF S!Fails
    <3>2. end \in SignEnds /\ end \in AllEnds BY <3>1, SignSteps0
    <3>3. Changed(t, "ends", tasks[t].held, end) /\ flow' = flow
      BY <1>0, <2>1, <3>1, <3>2, SignSteps0, TaskChanges DEF S!Fails
    <3> QED BY <3>2, <3>3
  <2>2. CASE ~tasks[t].sign
    <3>1. S!Goes(t, "over") /\ (flow' = flow \/ flow' = S!NeedsLogin) BY <2>2 DEF S!Fails
    <3>2. Changed(t, "over", tasks[t].held, tasks[t].end) BY <1>0, <3>1, SignSteps0, TaskChanges
    <3>3. flow' = flow \/ flow' = [status |-> "needs-login", of |-> 0] BY <3>1 DEF S!NeedsLogin, S!None
    <3> QED BY <1>1, <2>2, <3>2, <3>3
  <2> QED BY <1>1, <2>1, <2>2
<1>3. step \in SignSteps /\ step \notin {"keeps", "renews", "rereads", "asks", "updates"} BY SignSteps0
<1>4. lock \in Nat BY <1>0, SignBounds
<1>5. Locks(t, step) BY <1>1, <1>3, <1>4 DEF Locks
<1>6. flow' = flow \/ (flow' \in Flows /\ flow'.of <= Len(tasks) /\ flow'.status \notin S!Running)
  <2>1. ASSUME flow' = [status |-> "needs-login", of |-> 0]
        PROVE flow' \in Flows /\ flow'.of <= Len(tasks) /\ flow'.status \notin S!Running
    BY <1>1, <2>1 DEF Flows, FlowStatus, S!Running
  <2> QED BY <1>2, <2>1
<1>7. Refreshes' BY <1>2, <1>3, <1>5, Refreshed
<1>8. file' \in Credentials /\ catalog' \in Catalogs BY <1>0 DEF SignTypes
<1> QED BY <1>1, <1>2, <1>3, <1>5, <1>6, <1>7, <1>8, TaskKept

\* A task that goes on and neither leaves nor comes to the keep of its credential.
LEMMA MovesKept ==
  ASSUME SignInv, NEW t \in S!Tasks, NEW step \in SignSteps, NEW held \in Credentials, NEW end \in AllEnds,
         Changed(t, step, held, end), Locks(t, step), UNCHANGED <<begins, file, live, lost, issued, expiries>>,
         port' \in {0, port}, faults' \in Nat, catalog' \in Catalogs,
         \/ flow' = flow /\ (step = "over" => ~tasks[t].sign \/ tasks[t].canceled)
         \/ flow' \in Flows /\ flow'.of <= Len(tasks) /\ flow'.status \notin S!Running,
         tasks[t].step # "keeps" /\ step # "keeps",
         step = "asks" => ~tasks[t].sign, step \in {"ends", "updates"} => end \in SignEnds,
         step = "renews" => tasks[t].step = "rereads" /\ lock = t /\ held.refresh = file.refresh /\ file.refresh # 0
  PROVE  SignInv'
<1>1. SignTypes /\ Refreshes BY DEF SignInv
<1>2. Issued
  <2>1. issued \in Nat /\ \A r \in live \cup lost : r \in Nat /\ r # 0 /\ r <= issued BY <1>1, SignBounds
  <2> QED BY <2>1 DEF Issued
<1>3. \A o \in S!Tasks : o # t /\ tasks[o].step = "keeps" => tasks[o].held.refresh \in live' BY <1>1 DEF Refreshes
<1>4. Refreshes' BY <1>2, <1>3, Refreshed
<1>5. file' \in Credentials BY <1>1 DEF SignTypes
<1> QED BY <1>2, <1>4, <1>5, TaskKept

LEMMA CallbackKept == ASSUME SignInv, NEW t \in S!Tasks, S!Callback(t) PROVE SignInv'
<1>0. SignTypes /\ Locked /\ Refreshes BY DEF SignInv
<1>1. /\ tasks[t].step = "callback" /\ port' = 0
      /\ UNCHANGED <<begins, file, catalog, lock, live, lost, issued, expiries, faults>>
      /\ (S!Goes(t, "trades") /\ flow' = flow) \/ S!Fails(t, FALSE)
  BY DEF S!Callback, S!At, S!None
<1>2. /\ tasks[t].held \in Credentials /\ tasks[t].end \in AllEnds /\ lock # t /\ faults' \in Nat /\ catalog' \in Catalogs
  <2>1. tasks[t].held \in Credentials /\ tasks[t].end \in AllEnds /\ t # 0 BY <1>0, TaskForms
  <2>2. faults \in Nat /\ catalog \in Catalogs BY <1>0 DEF SignTypes
  <2>3. lock # t BY <1>0, <1>1, <2>1 DEF Locked
  <2> QED BY <1>1, <2>1, <2>2, <2>3
<1>3. CASE S!Fails(t, FALSE)
  <2>1. Issued BY <1>0, <1>1, SignBounds DEF Issued
  <2> QED BY <1>0, <1>1, <1>2, <1>3, <2>1, FailsKept DEF Refreshes
<1>4. CASE S!Goes(t, "trades") /\ flow' = flow
  <2>1. Changed(t, "trades", tasks[t].held, tasks[t].end) BY <1>0, <1>4, SignSteps0, TaskChanges
  <2>2. Locks(t, "trades") BY <1>1, <1>2 DEF Locks
  <2> QED BY <1>1, <1>2, <1>4, <2>1, <2>2, SignSteps0, MovesKept
<1> QED BY <1>1, <1>3, <1>4

LEMMA ReadKept == ASSUME SignInv, NEW t \in S!Tasks, S!Read(t) PROVE SignInv'
<1>0. SignTypes /\ Locked /\ Refreshes BY DEF SignInv
<1>1. tasks[t].step = "reads" /\ UNCHANGED <<begins, port, file, catalog, lock, live, lost, issued, expiries, faults>>
  BY DEF S!Read, S!At
<1>2. /\ tasks[t].held \in Credentials /\ tasks[t].end \in AllEnds /\ lock # t /\ faults' \in Nat /\ catalog' \in Catalogs
      /\ file \in Credentials
  <2>1. tasks[t].held \in Credentials /\ tasks[t].end \in AllEnds /\ t # 0 BY <1>0, TaskForms
  <2>2. faults \in Nat /\ catalog \in Catalogs /\ file \in Credentials BY <1>0 DEF SignTypes
  <2>3. lock # t BY <1>0, <1>1, <2>1 DEF Locked
  <2> QED BY <1>1, <2>1, <2>2, <2>3
<1>3. CASE S!Fails(t, FALSE)
  <2>1. Issued BY <1>0, <1>1, SignBounds DEF Issued
  <2> QED BY <1>0, <1>1, <1>2, <1>3, <2>1, FailsKept DEF Refreshes
<1>4. CASE flow' = flow /\ S!Serves(t, file)
  <2>1. PICK step \in {"lists", "asks"} : Changed(t, step, file, tasks[t].end) /\ (step = "asks" => ~tasks[t].sign)
    BY <1>0, <1>2, <1>4, ServesForms
  <2>2. step \in SignSteps BY SignSteps0
  <2>3. Locks(t, step) BY <1>1, <1>2 DEF Locks
  <2> QED BY <1>1, <1>2, <1>4, <2>1, <2>2, <2>3, MovesKept
<1>5. CASE flow' = flow /\ tasks' = [tasks EXCEPT ![t].step = "locks", ![t].held = file]
  <2>1. Changed(t, "locks", file, tasks[t].end) BY <1>0, <1>2, <1>5, SignSteps0, HoldsForms
  <2>2. Locks(t, "locks") BY <1>1, <1>2 DEF Locks
  <2> QED BY <1>1, <1>2, <1>5, <2>1, <2>2, SignSteps0, MovesKept
<1> QED BY <1>3, <1>4, <1>5 DEF S!Read

LEMMA LockKept == ASSUME SignInv, NEW t \in S!Tasks, S!Lock(t) PROVE SignInv'
<1>0. SignTypes BY DEF SignInv
<1>1. /\ tasks[t].step = "locks" /\ lock = 0 /\ lock' = t /\ S!Goes(t, "rereads")
      /\ UNCHANGED <<flow, begins, port, file, catalog, live, lost, issued, expiries, faults>>
  BY DEF S!Lock, S!At, S!None
<1>2. tasks[t].held \in Credentials /\ tasks[t].end \in AllEnds /\ faults' \in Nat /\ catalog' \in Catalogs
  BY <1>0, <1>1, TaskForms DEF SignTypes
<1>3. Changed(t, "rereads", tasks[t].held, tasks[t].end) BY <1>0, <1>1, SignSteps0, TaskChanges
<1>4. Locks(t, "rereads") BY <1>1 DEF Locks
<1> QED BY <1>1, <1>2, <1>3, <1>4, SignSteps0, MovesKept

LEMMA RereadKept == ASSUME SignInv, NEW t \in S!Tasks, S!Reread(t) PROVE SignInv'
<1>0. SignTypes /\ Locked /\ Refreshes BY DEF SignInv
<1>1. tasks[t].step = "rereads" /\ UNCHANGED <<begins, port, file, catalog, live, lost, issued, expiries, faults>>
  BY DEF S!Reread, S!At
<1>2. /\ tasks[t].held \in Credentials /\ tasks[t].end \in AllEnds /\ lock = t /\ faults' \in Nat /\ catalog' \in Catalogs
      /\ file \in Credentials /\ t # 0
  <2>1. tasks[t].held \in Credentials /\ tasks[t].end \in AllEnds /\ t # 0 BY <1>0, TaskForms
  <2>2. faults \in Nat /\ catalog \in Catalogs /\ file \in Credentials BY <1>0 DEF SignTypes
  <2>3. lock = t BY <1>0, <1>1 DEF Locked
  <2> QED BY <1>1, <2>1, <2>2, <2>3
<1>3. CASE lock' = 0 /\ S!Fails(t, FALSE)
  <2>1. Issued BY <1>0, <1>1, SignBounds DEF Issued
  <2> QED BY <1>0, <1>1, <1>2, <1>3, <2>1, FailsKept DEF Refreshes
<1>4. CASE lock' = 0 /\ S!Serves(t, file) /\ flow' = flow
  <2>1. PICK step \in {"lists", "asks"} : Changed(t, step, file, tasks[t].end) /\ (step = "asks" => ~tasks[t].sign)
    BY <1>0, <1>2, <1>4, ServesForms
  <2>2. step \in SignSteps BY SignSteps0
  <2>3. Locks(t, step) BY <1>2, <1>4 DEF Locks
  <2> QED BY <1>1, <1>2, <1>4, <2>1, <2>2, <2>3, MovesKept
<1>5. CASE file.refresh # 0 /\ tasks' = [tasks EXCEPT ![t].step = "renews", ![t].held = file] /\ UNCHANGED <<flow, lock>>
  <2>1. Changed(t, "renews", file, tasks[t].end) BY <1>0, <1>2, <1>5, SignSteps0, HoldsForms
  <2>2. Locks(t, "renews") BY <1>2, <1>5 DEF Locks
  <2> QED BY <1>1, <1>2, <1>5, <2>1, <2>2, SignSteps0, MovesKept
<1> QED BY <1>3, <1>4, <1>5 DEF S!Reread, S!None

LEMMA EndReadsKept == ASSUME SignInv, NEW t \in S!Tasks, S!EndReads(t) PROVE SignInv'
<1>0. SignTypes /\ Locked /\ StepsOfTasks BY DEF SignInv
<1> DEFINE step == IF tasks[t].canceled THEN "over" ELSE "updates"
<1>1. /\ tasks[t].step = "ends" /\ S!Goes(t, step)
      /\ UNCHANGED <<flow, begins, port, file, catalog, lock, live, lost, issued, expiries, faults>>
  BY DEF S!EndReads, S!At
<1>2. /\ tasks[t].held \in Credentials /\ tasks[t].end \in AllEnds /\ lock # t /\ faults' \in Nat /\ catalog' \in Catalogs
      /\ tasks[t].end \in SignEnds
  <2>1. tasks[t].held \in Credentials /\ tasks[t].end \in AllEnds /\ t # 0 BY <1>0, TaskForms
  <2>2. faults \in Nat /\ catalog \in Catalogs BY <1>0 DEF SignTypes
  <2>3. lock # t BY <1>0, <1>1, <2>1 DEF Locked
  <2>4. tasks[t].end \in SignEnds BY <1>0, <1>1 DEF StepsOfTasks
  <2> QED BY <1>1, <2>1, <2>2, <2>3, <2>4
<1>3. step \in SignSteps /\ step \in {"over", "updates"} /\ (step = "over" => tasks[t].canceled) BY SignSteps0
<1> HIDE DEF step
<1>4. Changed(t, step, tasks[t].held, tasks[t].end) BY <1>0, <1>1, <1>3, TaskChanges
<1>5. Locks(t, step) BY <1>1, <1>2, <1>3 DEF Locks
<1> QED BY <1>1, <1>2, <1>3, <1>4, <1>5, MovesKept

LEMMA UpdateKept == ASSUME SignInv, NEW t \in S!Tasks, S!Update(t) PROVE SignInv'
<1>0. SignTypes /\ Locked /\ StepsOfTasks BY DEF SignInv
<1>1. /\ tasks[t].step = "updates" /\ S!Goes(t, "over") /\ flow' = [flow EXCEPT !.status = tasks[t].end]
      /\ UNCHANGED <<begins, port, file, catalog, lock, live, lost, issued, expiries, faults>>
  BY DEF S!Update, S!At
<1>2. /\ tasks[t].held \in Credentials /\ tasks[t].end \in AllEnds /\ lock # t /\ faults' \in Nat /\ catalog' \in Catalogs
      /\ tasks[t].end \in SignEnds
  <2>1. tasks[t].held \in Credentials /\ tasks[t].end \in AllEnds /\ t # 0 BY <1>0, TaskForms
  <2>2. faults \in Nat /\ catalog \in Catalogs BY <1>0 DEF SignTypes
  <2>3. lock # t BY <1>0, <1>1, <2>1 DEF Locked
  <2>4. tasks[t].end \in SignEnds BY <1>0, <1>1 DEF StepsOfTasks
  <2> QED BY <1>1, <2>1, <2>2, <2>3, <2>4
<1>3. flow' \in Flows /\ flow'.of <= Len(tasks) /\ flow'.status \notin S!Running
  <2>1. flow \in Flows /\ flow.of <= Len(tasks) BY <1>0, SignBounds DEF SignTypes
  <2> QED BY <1>1, <1>2, <2>1 DEF Flows, FlowStatus, SignEnds, S!Running
<1>4. Changed(t, "over", tasks[t].held, tasks[t].end) BY <1>0, <1>1, SignSteps0, TaskChanges
<1>5. Locks(t, "over") BY <1>1, <1>2 DEF Locks
<1> QED BY <1>1, <1>2, <1>3, <1>4, <1>5, SignSteps0, MovesKept

LEMMA AskedKept == ASSUME SignInv, NEW t \in S!Tasks, S!Asked(t) PROVE SignInv'
<1>0. SignTypes /\ Locked /\ StepsOfTasks BY DEF SignInv
<1>1. /\ tasks[t].step = "asks" /\ S!Goes(t, "over")
      /\ UNCHANGED <<begins, port, file, catalog, lock, live, lost, issued, expiries>>
      /\ faults' \in {faults, faults + 1} /\ (flow' = flow \/ flow' = S!NeedsLogin)
  BY DEF S!Asked, S!At
<1>2. /\ tasks[t].held \in Credentials /\ tasks[t].end \in AllEnds /\ lock # t /\ faults' \in Nat /\ catalog' \in Catalogs
      /\ ~tasks[t].sign /\ Len(tasks) \in Nat
  <2>1. tasks[t].held \in Credentials /\ tasks[t].end \in AllEnds /\ t # 0 /\ Len(tasks) \in Nat BY <1>0, TaskForms
  <2>2. faults \in Nat /\ catalog \in Catalogs BY <1>0 DEF SignTypes
  <2>3. lock # t BY <1>0, <1>1, <2>1 DEF Locked
  <2>4. ~tasks[t].sign BY <1>0, <1>1 DEF StepsOfTasks
  <2>5. faults' \in Nat BY <1>1, <2>2
  <2> QED BY <1>1, <2>1, <2>2, <2>3, <2>4, <2>5
<1>3. flow' = flow \/ (flow' \in Flows /\ flow'.of <= Len(tasks) /\ flow'.status \notin S!Running)
  <2>1. ASSUME flow' = [status |-> "needs-login", of |-> 0]
        PROVE flow' \in Flows /\ flow'.of <= Len(tasks) /\ flow'.status \notin S!Running
    BY <1>2, <2>1 DEF Flows, FlowStatus, S!Running
  <2> QED BY <1>1, <2>1 DEF S!NeedsLogin, S!None
<1>4. Changed(t, "over", tasks[t].held, tasks[t].end) BY <1>0, <1>1, SignSteps0, TaskChanges
<1>5. Locks(t, "over") BY <1>1, <1>2 DEF Locks
<1> QED BY <1>1, <1>2, <1>3, <1>4, <1>5, SignSteps0, MovesKept

LEMMA ListKept == ASSUME SignInv, NEW t \in S!Tasks, S!List(t) PROVE SignInv'
<1>0. SignTypes /\ Locked /\ Refreshes BY DEF SignInv
<1>1. tasks[t].step = "lists" /\ UNCHANGED <<begins, port, file, lock, live, lost, issued, expiries>>
  BY DEF S!List, S!At
<1>2. /\ tasks[t].held \in Credentials /\ tasks[t].end \in AllEnds /\ lock # t /\ faults \in Nat /\ catalog \in Catalogs
  <2>1. tasks[t].held \in Credentials /\ tasks[t].end \in AllEnds /\ t # 0 BY <1>0, TaskForms
  <2>2. faults \in Nat /\ catalog \in Catalogs BY <1>0 DEF SignTypes
  <2>3. lock # t BY <1>0, <1>1, <2>1 DEF Locked
  <2> QED BY <2>1, <2>2, <2>3
<1>3. ASSUME NEW login \in BOOLEAN, S!Fails(t, login), faults' = faults + 1, catalog' = catalog PROVE SignInv'
  <2>1. faults' \in Nat BY <1>2, <1>3
  <2>2. Issued BY <1>0, <1>1, SignBounds DEF Issued
  <2> QED BY <1>0, <1>1, <1>2, <1>3, <2>1, <2>2, FailsKept DEF Refreshes
<1>4. CASE /\ catalog' = [account |-> tasks[t].held.account, fresh |-> TRUE] /\ UNCHANGED <<flow, faults>>
           /\ tasks' = [tasks EXCEPT ![t].step = "ends", ![t].end = "connected"]
  <2>1. Changed(t, "ends", tasks[t].held, "connected") BY <1>0, <1>4, SignSteps0, TaskChanges
  <2>2. catalog' \in Catalogs BY <1>2, <1>4 DEF Catalogs, Credentials
  <2>3. Locks(t, "ends") BY <1>1, <1>2 DEF Locks
  <2> QED BY <1>1, <1>2, <1>4, <2>1, <2>2, <2>3, SignSteps0, MovesKept
<1> QED BY <1>3, <1>4 DEF S!List

\* A renewal that the server takes: the task holds what it is about to keep.
LEMMA RenewedKept ==
  ASSUME SignInv, NEW t \in S!Tasks, NEW rotates \in BOOLEAN, NEW refresh, tasks[t].step = "renews",
         tasks[t].held.refresh \in live, refresh = (IF rotates THEN issued + 1 ELSE tasks[t].held.refresh),
         tasks' = [tasks EXCEPT ![t].step = "keeps", ![t].held = [tasks[t].held EXCEPT !.refresh = refresh, !.fresh = TRUE]],
         live' = (live \ {tasks[t].held.refresh}) \cup {refresh}, issued' = (IF rotates THEN issued + 1 ELSE issued),
         UNCHANGED <<flow, begins, port, file, catalog, lock, lost, expiries, faults>>
  PROVE  SignInv'
<1>0. SignTypes /\ Locked /\ Refreshes BY DEF SignInv
<1>1. /\ t # 0 /\ tasks[t].held \in Credentials /\ tasks[t].held.refresh \in Nat /\ tasks[t].end \in AllEnds
      /\ \A o \in S!Tasks : tasks[o].held.refresh \in Nat
  BY <1>0, TaskForms
<1>2. issued \in Nat /\ file.refresh \in Nat /\ \A r \in live \cup lost : r \in Nat /\ r # 0 /\ r <= issued
  BY <1>0, SignBounds
<1> DEFINE held == [tasks[t].held EXCEPT !.refresh = refresh, !.fresh = TRUE]
<1>3. /\ lock = t /\ refresh \in Nat /\ refresh # 0 /\ refresh <= issued'
      /\ (refresh = tasks[t].held.refresh \/ refresh = issued + 1)
  <2>1. lock = t BY <1>0 DEF Locked
  <2>2. tasks[t].held.refresh # 0 /\ tasks[t].held.refresh <= issued BY <1>2
  <2>3. CASE rotates BY <1>2, <2>1, <2>3
  <2>4. CASE ~rotates BY <1>1, <1>2, <2>1, <2>2, <2>4
  <2> QED BY <2>3, <2>4
<1>4. Issued
  <2>1. issued' \in Nat /\ issued <= issued' BY <1>2
  <2>2. ASSUME NEW r \in live' \cup lost' PROVE r \in Nat /\ r # 0 /\ r <= issued'
    <3>1. CASE r = refresh BY <1>3, <3>1
    <3>2. CASE r \in live \cup lost
      <4>1. r \in Nat /\ r # 0 /\ r <= issued BY <1>2, <3>2
      <4> QED BY <1>2, <2>1, <4>1
    <3> QED BY <2>2, <3>1, <3>2
  <2> QED BY <2>1, <2>2 DEF Issued
<1>5. held \in Credentials /\ held.refresh = refresh BY <1>1, <1>3 DEF Credentials
<1>6. tasks' = [tasks EXCEPT ![t].step = "keeps", ![t].held = held] OBVIOUS
<1> HIDE DEF held
<1>7. Changed(t, "keeps", held, tasks[t].end) BY <1>0, <1>5, <1>6, SignSteps0, HoldsForms
<1>8. /\ S!Tasks' = S!Tasks /\ \A o \in S!Tasks : o # t => tasks'[o] = tasks[o]
      /\ tasks'[t].step = "keeps" /\ tasks'[t].held = held
  BY <1>7 DEF Changed
<1>9. Locks(t, "keeps") BY <1>3 DEF Locks
<1>10. ASSUME NEW o \in S!Tasks, o # t, tasks'[o].step = "keeps"
       PROVE /\ tasks'[o] = tasks[o] /\ tasks[o].held.refresh \in live' /\ tasks[o].held.refresh # refresh
             /\ tasks[o].held.refresh # file.refresh
  <2>1. tasks'[o] = tasks[o] /\ tasks[o].step = "keeps" BY <1>8, <1>10
  <2>2. tasks[o].held.refresh \in live /\ tasks[o].held.refresh # file.refresh
        /\ tasks[o].held.refresh # tasks[t].held.refresh
    BY <1>0, <1>3, <1>10, <2>1 DEF Refreshes
  <2>3. tasks[o].held.refresh # issued + 1
    <3>1. tasks[o].held.refresh <= issued BY <1>2, <2>2
    <3> QED BY <1>1, <1>2, <3>1
  <2> QED BY <1>3, <2>1, <2>2, <2>3
<1>11. Refreshes'
  <2>1. file'.refresh <= issued'
    <3>1. file.refresh <= issued BY <1>0 DEF Refreshes
    <3> QED BY <1>2, <1>4, <3>1 DEF Issued
  <2>2. lock' # 0 /\ tasks'[lock'].step = "keeps" /\ file'.refresh # 0 BY <1>0, <1>1, <1>3, <1>8 DEF Refreshes
  <2>3. \A o \in S!Tasks : tasks'[o].step # "renews" BY <1>0, <1>3, <1>8 DEF Locked
  <2>4. \A o \in S!Tasks : tasks'[o].step = "keeps" => tasks'[o].held.refresh \in live'
    <3> SUFFICES ASSUME NEW o \in S!Tasks, tasks'[o].step = "keeps" PROVE tasks'[o].held.refresh \in live'
      OBVIOUS
    <3>1. CASE o = t
      <4>1. refresh \in live' OBVIOUS
      <4> QED BY <1>5, <1>8, <3>1, <4>1
    <3>2. CASE o # t BY <1>10, <3>2
    <3> QED BY <3>1, <3>2
  <2>5. \A o \in S!Tasks : tasks'[o].step = "keeps" /\ lock' # o => tasks'[o].held.refresh # file'.refresh
    BY <1>3, <1>10
  <2>6. \A p, o \in S!Tasks : p # o /\ tasks'[p].step \in {"renews", "keeps"} /\ tasks'[o].step = "keeps" =>
          tasks'[p].held.refresh # tasks'[o].held.refresh
    <3> SUFFICES ASSUME NEW p \in S!Tasks, NEW o \in S!Tasks, p # o, tasks'[p].step = "keeps", tasks'[o].step = "keeps"
                 PROVE  tasks'[p].held.refresh # tasks'[o].held.refresh
      BY <2>3
    <3>1. CASE p = t BY <1>5, <1>8, <1>10, <3>1
    <3>2. CASE o = t BY <1>5, <1>8, <1>10, <3>2
    <3>3. CASE p # t /\ o # t
      <4>1. tasks'[p] = tasks[p] /\ tasks'[o] = tasks[o] BY <1>8, <3>3
      <4> QED BY <1>0, <4>1 DEF Refreshes
    <3> QED BY <3>1, <3>2, <3>3
  <2> QED BY <1>8, <2>1, <2>2, <2>3, <2>4, <2>5, <2>6 DEF Refreshes
<1>12. file' \in Credentials /\ catalog' \in Catalogs /\ faults' \in Nat BY <1>0 DEF SignTypes
<1> QED BY <1>1, <1>4, <1>5, <1>7, <1>9, <1>11, <1>12, SignSteps0, TaskKept

LEMMA RenewKept == ASSUME SignInv, NEW t \in S!Tasks, S!Renew(t) PROVE SignInv'
<1>0. SignTypes /\ Locked /\ Refreshes BY DEF SignInv
<1>1. tasks[t].step = "renews" /\ UNCHANGED <<begins, port, file, catalog, expiries>> BY DEF S!Renew, S!At
<1>2. lock = t /\ faults \in Nat /\ tasks[t].held.refresh \in live \cup lost BY <1>0, <1>1 DEF Locked, SignTypes, Refreshes
<1>3. CASE /\ tasks[t].held.refresh \in live /\ UNCHANGED <<flow, lock, lost, faults>>
           /\ \E rotates \in BOOLEAN :
                LET refresh == IF rotates THEN issued + 1 ELSE tasks[t].held.refresh IN
                /\ tasks' = [tasks EXCEPT ![t].step = "keeps",
                                          ![t].held = [tasks[t].held EXCEPT !.refresh = refresh, !.fresh = TRUE]]
                /\ live' = (live \ {tasks[t].held.refresh}) \cup {refresh} /\ issued' = (IF rotates THEN issued + 1 ELSE issued)
  BY <1>1, <1>3, RenewedKept
<1>4. ASSUME NEW login \in BOOLEAN, S!Fails(t, login), lock' = 0, faults' \in {faults, faults + 1}, issued' = issued,
             UNCHANGED <<live, lost>> \/ (live' = live \ {tasks[t].held.refresh} /\ lost' = lost \cup {tasks[t].held.refresh})
      PROVE SignInv'
  <2>1. faults' \in Nat BY <1>2, <1>4
  <2>2. live' \cup lost' \subseteq live \cup lost /\ live \cup lost \subseteq live' \cup lost' BY <1>2, <1>4
  <2>3. Issued BY <1>0, <1>4, <2>2, SignBounds DEF Issued
  <2>4. \A o \in S!Tasks : o # t /\ tasks[o].step = "keeps" => tasks[o].held.refresh \in live'
    BY <1>0, <1>1, <1>4 DEF Refreshes
  <2> QED BY <1>1, <1>2, <1>4, <2>1, <2>2, <2>3, <2>4, FailsKept
<1> QED BY <1>3, <1>4 DEF S!Renew, S!None

\* A code traded for a credential that was never issued before.
LEMMA TradedKept ==
  ASSUME SignInv, NEW t \in S!Tasks, NEW account \in Accounts, tasks[t].step = "trades",
         issued' = issued + 1, live' = live \cup {issued + 1},
         tasks' = [tasks EXCEPT ![t].step = "keeps", ![t].held = [account |-> account, refresh |-> issued + 1, fresh |-> TRUE]],
         UNCHANGED <<flow, begins, port, file, catalog, lock, lost, expiries, faults>>
  PROVE  SignInv'
<1>0. SignTypes /\ Locked /\ Refreshes BY DEF SignInv
<1>1. t # 0 /\ tasks[t].end \in AllEnds /\ \A o \in S!Tasks : tasks[o].held.refresh \in Nat BY <1>0, TaskForms
<1>2. /\ issued \in Nat /\ file.refresh \in Nat /\ (lock # 0 => lock \in S!Tasks)
      /\ \A r \in live \cup lost : r \in Nat /\ r # 0 /\ r <= issued
  BY <1>0, SignBounds
<1>3. lock # t BY <1>0, <1>1 DEF Locked
<1> DEFINE held == [account |-> account, refresh |-> issued + 1, fresh |-> TRUE]
<1>4. held \in Credentials /\ held.refresh = issued + 1 /\ issued + 1 \in Nat
  <2>1. account \in Accounts \cup {""} OBVIOUS
  <2>2. issued + 1 \in Nat BY <1>2
  <2> QED BY <2>1, <2>2 DEF Credentials
<1>5. tasks' = [tasks EXCEPT ![t].step = "keeps", ![t].held = held] OBVIOUS
<1> HIDE DEF held
<1>6. Changed(t, "keeps", held, tasks[t].end) BY <1>0, <1>4, <1>5, SignSteps0, HoldsForms
<1>7. /\ S!Tasks' = S!Tasks /\ \A o \in S!Tasks : o # t => tasks'[o] = tasks[o]
      /\ tasks'[t].step = "keeps" /\ tasks'[t].held = held
  BY <1>6 DEF Changed
<1>8. Issued
  <2>1. ASSUME NEW r \in live' \cup lost' PROVE r \in Nat /\ r # 0 /\ r <= issued'
    <3>1. CASE r = issued + 1 BY <1>2, <3>1
    <3>2. CASE r \in live \cup lost
      <4>1. r \in Nat /\ r # 0 /\ r <= issued BY <1>2, <3>2
      <4> QED BY <1>2, <4>1
    <3> QED BY <2>1, <3>1, <3>2
  <2>2. issued' \in Nat /\ issued <= issued' BY <1>2
  <2> QED BY <2>1, <2>2 DEF Issued
<1>9. Locks(t, "keeps") BY <1>3 DEF Locks
<1>10. \A o \in S!Tasks : tasks[o].step \in {"renews", "keeps"} => tasks[o].held.refresh # issued + 1
  <2> SUFFICES ASSUME NEW o \in S!Tasks, tasks[o].step \in {"renews", "keeps"} PROVE tasks[o].held.refresh # issued + 1
    OBVIOUS
  <2>1. tasks[o].held.refresh \in live \cup lost BY <1>0 DEF Refreshes
  <2>2. tasks[o].held.refresh <= issued BY <1>2, <2>1
  <2> QED BY <1>1, <1>2, <2>2
<1>11. file.refresh <= issued /\ file.refresh # issued + 1
  <2>1. file.refresh <= issued BY <1>0 DEF Refreshes
  <2> QED BY <1>2, <2>1
<1>12. Refreshes'
  <2>1. file'.refresh <= issued' BY <1>2, <1>11
  <2>2. file'.refresh # 0 => file'.refresh \in live' \cup lost' \/ (lock' # 0 /\ tasks'[lock'].step = "keeps")
    BY <1>0, <1>2, <1>3, <1>7 DEF Refreshes
  <2>3. lock' # 0 /\ tasks'[lock'].step \in {"renews", "keeps"} => file'.refresh # 0 BY <1>0, <1>2, <1>3, <1>7 DEF Refreshes
  <2>4. \A o \in S!Tasks : tasks'[o].step = "renews" => tasks'[o].held.refresh \in live' \cup lost'
    <3> SUFFICES ASSUME NEW o \in S!Tasks, tasks'[o].step = "renews" PROVE tasks'[o].held.refresh \in live' \cup lost'
      OBVIOUS
    <3>1. o # t /\ tasks'[o] = tasks[o] BY <1>7
    <3>2. tasks[o].held.refresh \in live \cup lost BY <1>0, <3>1 DEF Refreshes
    <3> QED BY <3>1, <3>2
  <2>5. \A o \in S!Tasks : tasks'[o].step = "keeps" => tasks'[o].held.refresh \in live'
    <3> SUFFICES ASSUME NEW o \in S!Tasks, tasks'[o].step = "keeps" PROVE tasks'[o].held.refresh \in live'
      OBVIOUS
    <3>1. CASE o = t
      <4>1. issued + 1 \in live' OBVIOUS
      <4> QED BY <1>4, <1>7, <3>1, <4>1
    <3>2. CASE o # t
      <4>1. tasks'[o] = tasks[o] BY <1>7, <3>2
      <4>2. tasks[o].held.refresh \in live BY <1>0, <4>1 DEF Refreshes
      <4> QED BY <4>1, <4>2
    <3> QED BY <3>1, <3>2
  <2>6. \A o \in S!Tasks : tasks'[o].step = "keeps" /\ lock' # o => tasks'[o].held.refresh # file'.refresh
    BY <1>0, <1>4, <1>7, <1>11 DEF Refreshes
  <2>7. \A p, o \in S!Tasks : p # o /\ tasks'[p].step \in {"renews", "keeps"} /\ tasks'[o].step = "keeps" =>
          tasks'[p].held.refresh # tasks'[o].held.refresh
    <3> SUFFICES ASSUME NEW p \in S!Tasks, NEW o \in S!Tasks, p # o, tasks'[p].step \in {"renews", "keeps"},
                        tasks'[o].step = "keeps"
                 PROVE  tasks'[p].held.refresh # tasks'[o].held.refresh
      OBVIOUS
    <3>1. CASE p = t BY <1>4, <1>7, <1>10, <3>1
    <3>2. CASE o = t BY <1>4, <1>7, <1>10, <3>2
    <3>3. CASE p # t /\ o # t
      <4>1. tasks'[p] = tasks[p] /\ tasks'[o] = tasks[o] BY <1>7, <3>3
      <4> QED BY <1>0, <4>1 DEF Refreshes
    <3> QED BY <3>1, <3>2, <3>3
  <2> QED BY <1>7, <2>1, <2>2, <2>3, <2>4, <2>5, <2>6, <2>7 DEF Refreshes
<1>13. file' \in Credentials /\ catalog' \in Catalogs /\ faults' \in Nat BY <1>0 DEF SignTypes
<1> QED BY <1>1, <1>4, <1>6, <1>8, <1>9, <1>12, <1>13, SignSteps0, TaskKept

LEMMA TradeKept == ASSUME SignInv, NEW t \in S!Tasks, S!Trade(t) PROVE SignInv'
<1>0. SignTypes /\ Locked /\ Refreshes BY DEF SignInv
<1>1. /\ tasks[t].step = "trades" /\ lock # t /\ faults \in Nat /\ issued \in Nat
      /\ UNCHANGED <<begins, port, file, catalog, lock, expiries>>
  <2>1. t # 0 BY <1>0, TaskForms
  <2> QED BY <1>0, <2>1 DEF S!Trade, S!At, Locked, SignTypes
<1>2. ASSUME NEW login \in BOOLEAN, S!Fails(t, login), faults' \in {faults, faults + 1}, lost' = lost,
             (issued' = issued /\ live' = live) \/ (issued' = issued + 1 /\ live' = live \cup {issued + 1})
      PROVE SignInv'
  <2>1. faults' \in Nat BY <1>1, <1>2
  <2>2. \A r \in live \cup lost : r \in Nat /\ r # 0 /\ r <= issued BY <1>0, SignBounds
  <2>3. Issued
    <3>1. CASE issued' = issued /\ live' = live BY <1>1, <1>2, <2>2, <3>1 DEF Issued
    <3>2. CASE issued' = issued + 1 /\ live' = live \cup {issued + 1}
      <4>1. ASSUME NEW r \in live' \cup lost' PROVE r \in Nat /\ r # 0 /\ r <= issued'
        <5>1. CASE r = issued + 1 BY <1>1, <3>2, <5>1
        <5>2. CASE r \in live \cup lost
          <6>1. r \in Nat /\ r # 0 /\ r <= issued BY <2>2, <5>2
          <6> QED BY <1>1, <3>2, <6>1
        <5> QED BY <1>2, <3>2, <4>1, <5>1, <5>2
      <4>2. issued' \in Nat /\ issued <= issued' BY <1>1, <3>2
      <4> QED BY <4>1, <4>2 DEF Issued
    <3> QED BY <1>2, <3>1, <3>2
  <2>4. live \cup lost \subseteq live' \cup lost' /\ live \subseteq live' BY <1>2
  <2>5. \A o \in S!Tasks : o # t /\ tasks[o].step = "keeps" => tasks[o].held.refresh \in live' BY <1>0, <2>4 DEF Refreshes
  <2> QED BY <1>1, <1>2, <2>1, <2>3, <2>4, <2>5, FailsKept
<1>3. ASSUME NEW account \in Accounts, issued' = issued + 1, live' = live \cup {issued + 1}, lost' = lost, faults' = faults,
             IF tasks[t].canceled THEN S!Fails(t, FALSE)
             ELSE /\ tasks' = [tasks EXCEPT ![t].step = "keeps",
                                            ![t].held = [account |-> account, refresh |-> issued + 1, fresh |-> TRUE]]
                  /\ UNCHANGED flow
      PROVE SignInv'
  <2>1. CASE tasks[t].canceled BY <1>2, <1>3, <2>1
  <2>2. CASE ~tasks[t].canceled BY <1>1, <1>3, <2>2, TradedKept
  <2> QED BY <2>1, <2>2
<1>4. CASE faults' = faults + 1 /\ (\E login \in BOOLEAN : S!Fails(t, login)) /\ UNCHANGED <<live, lost, issued>>
  BY <1>2, <1>4
<1> QED BY <1>3, <1>4 DEF S!Trade

\* A credential that is kept, with the lock or, by a sign-in, without it: no other task holds what the disk comes to hold.
LEMMA KeepKept == ASSUME SignInv, NEW t \in S!Tasks, S!Keep(t) PROVE SignInv'
<1>0. SignTypes /\ Locked /\ Refreshes BY DEF SignInv
<1>1. t # 0 /\ tasks[t].held \in Credentials /\ tasks[t].end \in AllEnds /\ \A o \in S!Tasks : o # 0 BY <1>0, TaskForms
<1>2. /\ issued \in Nat /\ file.refresh \in Nat /\ faults \in Nat /\ lock \in Nat /\ (lock # 0 => lock \in S!Tasks)
      /\ \A r \in live \cup lost : r \in Nat /\ r # 0 /\ r <= issued
  BY <1>0, SignBounds DEF SignTypes
<1>3. /\ tasks[t].step = "keeps" /\ lock' = (IF lock = t THEN 0 ELSE lock)
      /\ UNCHANGED <<begins, port, catalog, live, issued, expiries>>
  BY DEF S!Keep, S!At, S!None
<1>4. CASE file' = tasks[t].held /\ S!Serves(t, tasks[t].held) /\ UNCHANGED <<flow, lost, faults>>
  <2>1. PICK step \in {"lists", "asks"} : Changed(t, step, tasks[t].held, tasks[t].end) /\ (step = "asks" => ~tasks[t].sign)
    BY <1>0, <1>1, <1>4, ServesForms
  <2>2. step \in SignSteps BY SignSteps0
  <2>3. /\ S!Tasks' = S!Tasks /\ \A o \in S!Tasks : o # t => tasks'[o] = tasks[o]
        /\ tasks'[t].step = step
    BY <2>1 DEF Changed
  <2>4. Locks(t, step) BY <1>1, <1>2, <1>3 DEF Locks
  <2>5. Issued BY <1>2, <1>3, <1>4 DEF Issued
  <2>6. file'.refresh \in live BY <1>0, <1>3, <1>4 DEF Refreshes
  <2>7. file'.refresh # 0 /\ file'.refresh <= issued' BY <1>2, <1>3, <2>6
  <2>8. Refreshes'
    <3>1. \A o \in S!Tasks : tasks'[o].step = "keeps" => o # t /\ tasks'[o] = tasks[o] BY <2>3
    <3>2. \A o \in S!Tasks : tasks'[o].step = "keeps" /\ lock' # o => tasks'[o].held.refresh # file'.refresh
      BY <1>0, <1>3, <1>4, <3>1 DEF Refreshes
    <3>3. \A o \in S!Tasks : tasks'[o].step = "renews" => tasks'[o].held.refresh \in live' \cup lost'
      BY <1>0, <1>3, <1>4, <2>3 DEF Refreshes
    <3>4. \A o \in S!Tasks : tasks'[o].step = "keeps" => tasks'[o].held.refresh \in live'
      BY <1>0, <1>3, <3>1 DEF Refreshes
    <3>5. \A p, o \in S!Tasks : p # o /\ tasks'[p].step \in {"renews", "keeps"} /\ tasks'[o].step = "keeps" =>
            tasks'[p].held.refresh # tasks'[o].held.refresh
      BY <1>0, <2>3 DEF Refreshes
    <3> QED BY <1>3, <2>3, <2>6, <2>7, <3>2, <3>3, <3>4, <3>5 DEF Refreshes
  <2>9. file' \in Credentials /\ catalog' \in Catalogs /\ faults' \in Nat BY <1>0, <1>1, <1>3, <1>4 DEF SignTypes
  <2> QED BY <1>1, <1>3, <1>4, <2>1, <2>2, <2>4, <2>5, <2>8, <2>9, TaskKept
<1>5. CASE /\ faults' = faults + 1 /\ S!Fails(t, FALSE) /\ UNCHANGED file
           /\ lost' = (IF lock = t THEN lost \cup ({file.refresh} \ live) ELSE lost)
  <2>1. faults' \in Nat BY <1>2, <1>5
  <2>2. lock = t => file.refresh # 0 /\ file.refresh <= issued BY <1>0, <1>1, <1>3 DEF Refreshes
  <2>3. Issued
    <3>1. ASSUME NEW r \in live' \cup lost' PROVE r \in Nat /\ r # 0 /\ r <= issued'
      <4>1. CASE r \in live \cup lost BY <1>2, <1>3, <4>1
      <4>2. CASE lock = t /\ r = file.refresh BY <1>2, <1>3, <2>2, <4>2
      <4> QED BY <1>3, <1>5, <3>1, <4>1, <4>2
    <3> QED BY <1>2, <1>3, <3>1 DEF Issued
  <2>4. live \cup lost \subseteq live' \cup lost' /\ (lock = t => file.refresh \in live' \cup lost') BY <1>3, <1>5
  <2>5. \A o \in S!Tasks : o # t /\ tasks[o].step = "keeps" => tasks[o].held.refresh \in live' BY <1>0, <1>3 DEF Refreshes
  <2> QED BY <1>3, <1>5, <2>1, <2>3, <2>4, <2>5, FailsKept
<1> QED BY <1>4, <1>5 DEF S!Keep

\* A task more, of a flow that it runs or of a call.
LEMMA AddedKept ==
  ASSUME SignInv, NEW sign \in BOOLEAN, NEW step \in {"reads", "callback"}, tasks' = Append(tasks, S!Task(sign, step)),
         UNCHANGED <<file, catalog, lock, live, lost, issued, expiries, faults>>, begins' \in Seq(BOOLEAN),
         ~sign => UNCHANGED <<flow, port>>,
         sign => flow' \in Flows /\ flow'.of = Len(tasks) + 1 /\ port' \in {port, Len(tasks) + 1}
  PROVE  SignInv'
<1>0. SignTypes /\ StepsOfTasks /\ Locked /\ Refreshes /\ S!FlowsEnd BY DEF SignInv
<1>1. Len(tasks) \in Nat /\ tasks \in Seq(SignTasks)
  <2>1. tasks \in Seq(SignTasks) BY <1>0 DEF SignTypes
  <2> QED BY <2>1
<1>2. /\ flow.of <= Len(tasks) /\ port \in Nat /\ port <= Len(tasks) /\ lock \in Nat /\ lock <= Len(tasks)
      /\ (lock # 0 => lock \in S!Tasks) /\ issued \in Nat /\ file.refresh \in Nat
      /\ \A r \in live \cup lost : r \in Nat /\ r # 0 /\ r <= issued
  BY <1>0, SignBounds
<1> DEFINE t == Len(tasks) + 1
<1>4. /\ S!Task(sign, step) \in SignTasks /\ S!Task(sign, step).step = step /\ S!Task(sign, step).sign = sign
      /\ S!Task(sign, step).canceled = FALSE
  <2>1. S!NoCredential \in Credentials BY DEF S!NoCredential, S!None, Credentials
  <2>2. step \in SignSteps BY SignSteps0
  <2>3. "" \in AllEnds BY DEF AllEnds
  <2> QED BY <2>1, <2>2, <2>3 DEF S!Task, SignTasks
<1>5. /\ tasks' \in Seq(SignTasks) /\ Len(tasks') = t /\ t \in Nat /\ t # 0
      /\ tasks'[t] = S!Task(sign, step) /\ \A o \in S!Tasks : tasks'[o] = tasks[o] /\ o # t
      /\ S!Tasks' = S!Tasks \cup {t} /\ t \notin S!Tasks
  <2>1. /\ tasks' \in Seq(SignTasks) /\ Len(tasks') = t /\ t \in Nat /\ t # 0
        /\ tasks'[t] = S!Task(sign, step) /\ \A o \in 1 .. Len(tasks) : tasks'[o] = tasks[o]
    BY <1>1, <1>4
  <2>2. 1 .. t = (1 .. Len(tasks)) \cup {t} /\ t \notin 1 .. Len(tasks) BY <1>1
  <2> QED BY <2>1, <2>2 DEF S!Tasks
<1>6. tasks'[t].step = step /\ tasks'[t].sign = sign /\ tasks'[t].canceled = FALSE BY <1>4, <1>5
<1>7. Len(tasks) <= t /\ flow.of # t
  <2>1. flow.of \in Nat BY <1>0, SignBounds
  <2> QED BY <1>1, <1>2, <2>1
<1>3. sign => flow'.of = t /\ port' \in {port, t} OBVIOUS
<1> HIDE DEF t
<1>8. SignTypes'
  <2>1. /\ file' \in Credentials /\ catalog' \in Catalogs
        /\ expiries' \in Nat /\ faults' \in Nat /\ flow \in Flows /\ begins' \in Seq(BOOLEAN)
    BY <1>0 DEF SignTypes
  <2>2. flow' \in Flows /\ flow'.of <= t /\ port' \in Nat /\ port' <= t
    <3>1. CASE sign BY <1>2, <1>3, <1>1, <1>5, <1>7, <3>1
    <3>2. CASE ~sign
      <4>1. flow \in Flows /\ flow.of \in Nat BY <2>1 DEF Flows
      <4> QED BY <1>1, <1>2, <1>5, <1>7, <2>1, <3>2, <4>1
    <3> QED BY <3>1, <3>2
  <2>3. lock' \in Nat /\ lock' <= t BY <1>1, <1>2, <1>5, <1>7
  <2>4. issued' \in Nat /\ \A r \in live' \cup lost' : r \in Nat /\ r # 0 /\ r <= issued' BY <1>2
  <2> QED BY <1>5, <2>1, <2>2, <2>3, <2>4, SignTyped
<1>9. StepsOfTasks'
  <2>1. \A o \in S!Tasks' : tasks'[o].step \in {"asks", "ends", "updates"} => o \in S!Tasks /\ tasks'[o] = tasks[o]
    BY <1>5, <1>6
  <2> QED BY <1>0, <2>1 DEF StepsOfTasks
<1>10. Locked'
  <2>1. \A o \in S!Tasks' : tasks'[o].step \in {"rereads", "renews"} => o \in S!Tasks /\ tasks'[o] = tasks[o] BY <1>5, <1>6
  <2>2. lock' = lock /\ (lock # 0 => tasks'[lock] = tasks[lock]) BY <1>2, <1>5
  <2> QED BY <1>0, <2>1, <2>2 DEF Locked
<1>11. Refreshes'
  <2>1. /\ file' = file /\ live' = live /\ lost' = lost /\ lock' = lock /\ issued' = issued
        /\ file.refresh <= issued
    BY <1>0 DEF Refreshes
  <2>2. file'.refresh # 0 => file'.refresh \in live' \cup lost' \/ (lock' # 0 /\ tasks'[lock'].step = "keeps")
    BY <1>0, <1>2, <1>5, <2>1 DEF Refreshes
  <2>3. lock' # 0 /\ tasks'[lock'].step \in {"renews", "keeps"} => file'.refresh # 0 BY <1>0, <1>2, <1>5, <2>1 DEF Refreshes
  <2>4. \A o \in S!Tasks' : tasks'[o].step \in {"renews", "keeps"} => o \in S!Tasks /\ tasks'[o] = tasks[o] BY <1>5, <1>6
  <2>5. \A o \in S!Tasks' :
          /\ tasks'[o].step = "renews" => tasks'[o].held.refresh \in live' \cup lost'
          /\ tasks'[o].step = "keeps" => tasks'[o].held.refresh \in live'
          /\ tasks'[o].step = "keeps" /\ lock' # o => tasks'[o].held.refresh # file'.refresh
    BY <1>0, <2>1, <2>4 DEF Refreshes
  <2>6. \A p, o \in S!Tasks' : p # o /\ tasks'[p].step \in {"renews", "keeps"} /\ tasks'[o].step = "keeps" =>
          tasks'[p].held.refresh # tasks'[o].held.refresh
    <3> SUFFICES ASSUME NEW p \in S!Tasks', NEW o \in S!Tasks', p # o, tasks'[p].step \in {"renews", "keeps"},
                        tasks'[o].step = "keeps"
                 PROVE  tasks'[p].held.refresh # tasks'[o].held.refresh
      OBVIOUS
    <3>1. p \in S!Tasks /\ o \in S!Tasks /\ tasks'[p] = tasks[p] /\ tasks'[o] = tasks[o] BY <2>4
    <3> QED BY <1>0, <3>1 DEF Refreshes
  <2> QED BY <2>1, <2>2, <2>3, <2>5, <2>6 DEF Refreshes
<1>12. S!FlowsEnd'
  <2>1. CASE sign
    <3>1. flow'.of = t /\ tasks'[t].sign /\ tasks'[t].step # "over" /\ ~tasks'[t].canceled BY <1>3, <1>6, <2>1
    <3> QED BY <1>5, <3>1 DEF S!FlowsEnd, S!Signs
  <2>2. CASE ~sign BY <1>0, <1>5, <2>2 DEF S!FlowsEnd, S!Signs, S!Running
  <2> QED BY <2>1, <2>2
<1> QED BY <1>8, <1>9, <1>10, <1>11, <1>12 DEF SignInv

\* The begins that read the flow are of no other part of the invariant than its types.
LEMMA BegunKept ==
  ASSUME SignInv, begins' \in Seq(BOOLEAN), UNCHANGED <<flow, tasks, port, file, catalog, lock, live, lost, issued, expiries, faults>>
  PROVE  SignInv'
<1>1. SignTypes' BY DEF SignInv, SignTypes, S!TypeOK
<1>2. S!Tasks' = S!Tasks BY DEF S!Tasks
<1>3. StepsOfTasks' /\ Locked' BY <1>2 DEF SignInv, StepsOfTasks, Locked
<1>4. Refreshes' BY <1>2 DEF SignInv, Refreshes
<1>5. S!FlowsEnd' BY <1>2 DEF SignInv, S!FlowsEnd, S!Signs, S!Running
<1> QED BY <1>1, <1>3, <1>4, <1>5 DEF SignInv

LEMMA BeginSetsKept == ASSUME SignInv, S!BeginSets PROVE SignInv'
<1>0. SignTypes BY DEF SignInv
<1> DEFINE t == Len(tasks) + 1
<1>1. begins # <<>> /\ begins' = Tail(begins) /\ UNCHANGED <<file, catalog, lock, live, lost, issued, expiries, faults>>
  BY DEF S!BeginSets
<1>2. t \in Nat /\ begins' \in Seq(BOOLEAN)
  <2>1. begins \in Seq(BOOLEAN) /\ tasks \in Seq(SignTasks) BY <1>0 DEF SignTypes
  <2>2. Len(tasks) \in Nat BY <2>1
  <2>3. Tail(begins) \in Seq(BOOLEAN) BY <1>1, <2>1, HeadTailProperties
  <2> QED BY <1>1, <2>2, <2>3
<1>3. CASE tasks' = Append(tasks, S!Task(TRUE, "reads")) /\ flow' = [status |-> "connecting", of |-> t] /\ UNCHANGED port
  <2>1. flow' \in Flows /\ flow'.of = t BY <1>2, <1>3 DEF Flows, FlowStatus
  <2> QED BY <1>1, <1>2, <1>3, <2>1, AddedKept
<1>4. CASE tasks' = Append(tasks, S!Task(TRUE, "callback")) /\ flow' = [status |-> "waiting", of |-> t] /\ port' = t
  <2>1. flow' \in Flows /\ flow'.of = t BY <1>2, <1>4 DEF Flows, FlowStatus
  <2> QED BY <1>1, <1>2, <1>4, <2>1, AddedKept
<1>5. CASE UNCHANGED <<tasks, flow, port>> BY <1>1, <1>2, <1>5, BegunKept
<1> QED BY <1>3, <1>4, <1>5 DEF S!BeginSets

LEMMA BeginReadsKept == ASSUME SignInv, S!BeginReads PROVE SignInv'
<1>1. /\ begins' = Append(begins, flow.status = "needs-login")
      /\ UNCHANGED <<flow, tasks, port, file, catalog, lock, live, lost, issued, expiries, faults>>
  BY DEF S!BeginReads
<1>2. begins' \in Seq(BOOLEAN)
  <2>1. begins \in Seq(BOOLEAN) /\ (flow.status = "needs-login") \in BOOLEAN BY DEF SignInv, SignTypes
  <2> QED BY <1>1, <2>1
<1> QED BY <1>1, <1>2, BegunKept

LEMMA CallKept == ASSUME SignInv, S!Call PROVE SignInv'
<1>1. /\ tasks' = Append(tasks, S!Task(FALSE, "reads"))
      /\ UNCHANGED <<flow, begins, port, file, catalog, lock, live, lost, issued, expiries, faults>>
  BY DEF S!Call
<1>2. begins' \in Seq(BOOLEAN) BY <1>1 DEF SignInv, SignTypes
<1> QED BY <1>1, <1>2, AddedKept

LEMMA ExpireKept == ASSUME SignInv, S!Expire PROVE SignInv'
<1>0. SignTypes BY DEF SignInv
<1>1. /\ expiries' = expiries + 1 /\ file' = [file EXCEPT !.fresh = FALSE] /\ catalog' = [catalog EXCEPT !.fresh = FALSE]
      /\ UNCHANGED <<flow, tasks, begins, port, lock, live, lost, issued, faults>>
  BY DEF S!Expire
<1>2. file' \in Credentials /\ file'.refresh = file.refresh /\ file'.account = file.account
  <2>1. file \in Credentials BY <1>0 DEF SignTypes
  <2> QED BY <1>1, <2>1 DEF Credentials
<1>3. catalog' \in Catalogs
  <2>1. catalog \in Catalogs BY <1>0 DEF SignTypes
  <2> QED BY <1>1, <2>1 DEF Catalogs
<1>4. expiries' \in Nat
  <2>1. expiries \in Nat BY <1>0 DEF SignTypes
  <2> QED BY <1>1, <2>1
<1>5. SignTypes' BY <1>0, <1>1, <1>2, <1>3, <1>4 DEF SignTypes, S!TypeOK
<1>6. S!Tasks' = S!Tasks BY <1>1 DEF S!Tasks
<1>7. StepsOfTasks' /\ Locked' BY <1>1, <1>6 DEF SignInv, StepsOfTasks, Locked
<1>8. Refreshes' BY <1>1, <1>2, <1>6 DEF SignInv, Refreshes
<1>9. S!FlowsEnd' BY <1>1, <1>6 DEF SignInv, S!FlowsEnd, S!Signs, S!Running
<1> QED BY <1>5, <1>7, <1>8, <1>9 DEF SignInv

LEMMA CancelKept == ASSUME SignInv, S!Cancel PROVE SignInv'
<1>0. SignTypes /\ StepsOfTasks /\ Locked /\ Refreshes /\ S!FlowsEnd BY DEF SignInv
<1>1. Len(tasks) \in Nat /\ tasks \in Seq(SignTasks)
  <2>1. tasks \in Seq(SignTasks) BY <1>0 DEF SignTypes
  <2> QED BY <2>1
<1>2. /\ flow.of <= Len(tasks) /\ port \in Nat /\ port <= Len(tasks) /\ lock \in Nat /\ lock <= Len(tasks)
      /\ (lock # 0 => lock \in S!Tasks) /\ issued \in Nat /\ flow.of \in Nat
      /\ \A r \in live \cup lost : r \in Nat /\ r # 0 /\ r <= issued
  BY <1>0, SignBounds
<1> DEFINE t == flow.of
<1>4. /\ flow.status \in S!Running /\ tasks' = [tasks EXCEPT ![t].canceled = TRUE]
      /\ flow' = [flow EXCEPT !.status = "canceled"]
      /\ UNCHANGED <<begins, port, file, catalog, lock, live, lost, issued, expiries, faults>>
  BY DEF S!Cancel
<1>5. t \in S!Tasks /\ tasks[t] \in SignTasks /\ t \in 1 .. Len(tasks)
  <2>1. t \in S!Tasks BY <1>0, <1>4 DEF S!FlowsEnd, S!Signs
  <2> QED BY <1>0, <2>1, TaskForms
<1>6. /\ S!Tasks' = S!Tasks /\ tasks' \in Seq(SignTasks) /\ Len(tasks') = Len(tasks)
      /\ \A o \in S!Tasks : tasks'[o].step = tasks[o].step /\ tasks'[o].held = tasks[o].held
                            /\ tasks'[o].end = tasks[o].end /\ tasks'[o].sign = tasks[o].sign
  <2> DEFINE x == [tasks[t] EXCEPT !.canceled = TRUE]
  <2>1. /\ x \in SignTasks /\ x.step = tasks[t].step /\ x.held = tasks[t].held /\ x.end = tasks[t].end
        /\ x.sign = tasks[t].sign
    BY <1>5 DEF SignTasks
  <2>2. tasks' = [tasks EXCEPT ![t] = x] BY <1>4
  <2> HIDE DEF x, t
  <2>3. tasks' \in Seq(SignTasks) /\ Len(tasks') = Len(tasks) BY <1>1, <1>5, <2>1, <2>2
  <2>4. tasks'[t] = x /\ \A o \in 1 .. Len(tasks) : o # t => tasks'[o] = tasks[o] BY <1>1, <1>5, <2>2
  <2>5. S!Tasks' = S!Tasks /\ S!Tasks = 1 .. Len(tasks) BY <2>3 DEF S!Tasks
  <2> QED BY <2>1, <2>3, <2>4, <2>5
<1>7. flow' \in Flows /\ flow'.of = t /\ flow'.status = "canceled"
  <2>1. flow \in Flows BY <1>0 DEF SignTypes
  <2> QED BY <1>4, <2>1 DEF Flows, FlowStatus
<1> HIDE DEF t
<1>9. SignTypes'
  <2>1. /\ begins' \in Seq(BOOLEAN) /\ file' \in Credentials /\ catalog' \in Catalogs
        /\ expiries' \in Nat /\ faults' \in Nat
    BY <1>0, <1>4 DEF SignTypes
  <2>2. flow'.of <= Len(tasks) BY <1>2, <1>7 DEF t
  <2> QED BY <1>2, <1>4, <1>6, <1>7, <2>1, <2>2, SignTyped
<1>10. StepsOfTasks' BY <1>0, <1>6 DEF StepsOfTasks
<1>11. Locked' BY <1>0, <1>2, <1>4, <1>6 DEF Locked
<1>12. Refreshes' BY <1>0, <1>2, <1>4, <1>6 DEF Refreshes
<1>13. S!FlowsEnd' BY <1>7 DEF S!FlowsEnd, S!Running
<1> QED BY <1>9, <1>10, <1>11, <1>12, <1>13 DEF SignInv

LEMMA SignInit == S!Init => SignInv
<1> SUFFICES ASSUME S!Init PROVE SignInv
  OBVIOUS
<1>1. /\ flow = [status |-> "disconnected", of |-> 0] /\ tasks = <<>> /\ begins = <<>> /\ port = 0 /\ lock = 0 /\ live = {1}
      /\ lost = {} /\ issued = 1 /\ expiries = 0 /\ faults = 0 /\ catalog = [account |-> file.account, fresh |-> FALSE]
  BY DEF S!Init, S!None
<1>2. file \in Credentials /\ file.refresh \in {0, 1}
  <2>1. CASE file = S!NoCredential BY <2>1 DEF S!NoCredential, S!None, Credentials
  <2>2. ASSUME NEW a \in Accounts, file = [account |-> a, refresh |-> 1, fresh |-> FALSE]
        PROVE file \in Credentials /\ file.refresh \in {0, 1}
    <3>1. a \in Accounts \cup {""} OBVIOUS
    <3> QED BY <2>2, <3>1 DEF Credentials
  <2> QED BY <2>1, <2>2 DEF S!Init
<1>3. file.account \in Accounts \cup {""} BY <1>2 DEF Credentials
<1>4. catalog \in Catalogs BY <1>1, <1>3 DEF Catalogs
<1>5. S!Tasks = {} BY <1>1 DEF S!Tasks
<1>6. flow \in Flows /\ flow.of = 0 /\ flow.status = "disconnected" BY <1>1 DEF Flows, FlowStatus
<1>7. SignTypes
  <2>1. <<>> \in Seq(SignTasks) /\ <<>> \in Seq(BOOLEAN) /\ Len(tasks) = 0 BY <1>1
  <2>2. S!TypeOK
    <3>1. live \subseteq 1 .. issued /\ lost \subseteq 1 .. issued /\ 0 \in 0 .. Len(tasks) BY <1>1, <2>1
    <3> QED BY <1>1, <1>3, <1>6, <3>1 DEF S!TypeOK
  <2>3. issued \in Nat /\ expiries \in Nat /\ faults \in Nat /\ port \in Nat /\ lock \in Nat BY <1>1
  <2> QED BY <1>1, <1>2, <1>4, <1>6, <2>1, <2>2, <2>3 DEF SignTypes
<1>8. StepsOfTasks /\ Locked BY <1>1, <1>5 DEF StepsOfTasks, Locked
<1>9. Refreshes
  <2>1. file.refresh <= issued /\ (file.refresh # 0 => file.refresh \in live \cup lost) BY <1>1, <1>2
  <2> QED BY <1>1, <1>5, <2>1 DEF Refreshes
<1>10. S!FlowsEnd BY <1>6 DEF S!FlowsEnd, S!Running
<1> QED BY <1>7, <1>8, <1>9, <1>10 DEF SignInv

LEMMA SignNext == SignInv /\ [S!Next]_ofSignIn => SignInv'
<1> SUFFICES ASSUME SignInv, [S!Next]_ofSignIn PROVE SignInv'
  OBVIOUS
<1>1. CASE UNCHANGED ofSignIn
  <2>1. UNCHANGED <<flow, tasks, begins, port, file, catalog, lock, live, lost, issued, expiries, faults>>
    BY <1>1 DEF ofSignIn
  <2>2. begins' \in Seq(BOOLEAN) BY <2>1 DEF SignInv, SignTypes
  <2> QED BY <2>1, <2>2, BegunKept
<1>2. CASE S!BeginReads \/ S!Refresh BY <1>2, BeginReadsKept DEF S!Refresh
<1>3. CASE S!BeginSets BY <1>3, BeginSetsKept
<1>4. CASE S!Cancel BY <1>4, CancelKept
<1>5. CASE S!Call \/ S!Expire BY <1>5, CallKept, ExpireKept
<1>6. ASSUME NEW t \in S!Tasks, S!Works(t) PROVE SignInv'
  BY <1>6, CallbackKept, TradeKept, KeepKept, ReadKept, LockKept, RereadKept, RenewKept, ListKept, EndReadsKept,
     UpdateKept, AskedKept DEF S!Works
<1> QED BY <1>1, <1>2, <1>3, <1>4, <1>5, <1>6 DEF S!Next

\* No refresh credential that another renewal used up is sent but one whose renewal no task kept, what the disk holds
\* serves but for such a one, and each sign-in that runs has a task that ends it, for any number of sign-ins that race
\* with each other, with their cancels and with the renewals of calls, and any number of expiries and faults
\* (credential, signed, begin, cancel, update).
THEOREM SignInTheorem == Spec => []SignInEnds
<1>1. Init => SignInv
  BY SignInit DEF Init
<1>2. SignInv /\ [Next]_vars => SignInv'
  <2>1. [Next]_vars => [S!Next]_ofSignIn
    BY DEF Next, Journal, Logs, Provider, Commands, Conversations, Forks, SignIn, vars
  <2> QED BY <2>1, SignNext
<1>3. SignInv => SignInEnds
  <2> SUFFICES ASSUME SignInv PROVE S!TypeOK /\ S!SignInHolds
    BY DEF SignInEnds
  <2>1. S!TypeOK /\ S!FlowsEnd BY DEF SignInv, SignTypes
  <2>2. S!RefreshedOnce BY DEF SignInv, Refreshes, S!RefreshedOnce, S!At
  <2>3. S!FileServes
    <3>1. file.refresh # 0 => file.refresh \in live \cup lost \/ (lock # 0 /\ tasks[lock].step = "keeps")
      BY DEF SignInv, Refreshes
    <3>2. lock # 0 => lock \in S!Tasks BY SignBounds DEF SignInv
    <3> QED BY <3>1, <3>2 DEF S!FileServes, S!At, S!None
  <2> QED BY <2>1, <2>2, <2>3 DEF S!SignInHolds
<1> QED BY <1>1, <1>2, <1>3, PTL DEF Spec

-----------------------------------------------------------------------------
(* The replies of models.                                                   *)

Watches == [text : Seq(Nat), given : Nat, whole : BOOLEAN]
Replies ==
  [actor : Actors, again : BOOLEAN, waits : BOOLEAN, streams : BOOLEAN, watch : Watches, hold : BOOLEAN, after : Nat]
Gots == [turned : BOOLEAN, word : Seq(Nat), hard : BOOLEAN]
PipeItems == [kind : {"wrote"}, serial : Nat] \cup [kind : {"retried"}] \cup [kind : {"came"}, got : Gots]
CallForms == [at : {"asked", "asleep", "held", "over"}, serial : Nat, wrote : Nat, fails : Nat, pipe : Seq(PipeItems)]
EndForms ==
  [id : P!Ids, actor : Actors, turned : BOOLEAN, word : Seq(Nat), hard : BOOLEAN, paused : BOOLEAN, after : Nat]

ReplyTypes ==
  /\ providerTaken \in [P!Ids -> Replies \cup {P!NONE}] /\ calls \in [P!Ids -> CallForms]
  /\ gave \in [P!Ids -> Seq(Nat)] /\ providerOver \in [P!Ids -> Nat] /\ ends \in Seq(EndForms)
  /\ mute \in Actors \cup {P!NOBODY} /\ paused \in BOOLEAN
  /\ providerAsked \in 0 .. MaxReplies /\ stands \in 0 .. MaxStands /\ reading \in 0 .. stands

\* From one place of a channel to another, no attempt failed.
SameAttempt(p, i, j) == \A m \in i .. j : p[m].kind # "retried"

\* What a watch holds and what its call told and is not read yet, up to where an attempt failed, is of one attempt.
OneAttempt(w, p) ==
  /\ \A n, m \in 1 .. Len(w.text) : w.text[n] = w.text[m]
  /\ \A i, j \in 1 .. Len(p) :
       i < j /\ p[i].kind = "wrote" /\ p[j].kind = "wrote" /\ SameAttempt(p, i, j) => p[i].serial = p[j].serial
  /\ \A n \in 1 .. Len(w.text), i \in 1 .. Len(p) :
       p[i].kind = "wrote" /\ SameAttempt(p, 1, i) => w.text[n] = p[i].serial

\* What a call told last is of the attempt that goes on, or why none does.
GoesOn(w, c) ==
  LET p == c.pipe IN
  /\ c.at = "asked" =>
       /\ \A i \in 1 .. Len(p) : p[i].kind = "wrote" /\ SameAttempt(p, i, Len(p)) => p[i].serial = c.serial
       /\ SameAttempt(p, 1, Len(p)) => \A n \in 1 .. Len(w.text) : w.text[n] = c.serial
  /\ c.at \in {"asleep", "held"} => IF p = <<>> THEN w.text = <<>> ELSE p[Len(p)].kind = "retried"
  /\ c.at = "over" => p # <<>> /\ p[Len(p)].kind = "came"

\* The Kernel was given what ran of the word, and nothing of a word that is to be asked again or is not given in parts.
GivenOf(r, g) ==
  /\ r.watch.given <= Len(r.watch.text) /\ g = SubSeq(r.watch.text, 1, r.watch.given)
  /\ r.waits \/ ~r.streams => r.watch.text = <<>>

\* A reply that stands: it knows what was refused before it, unless another reply ended since, and whether a pause holds.
Standing1(r, c, g) ==
  /\ OneAttempt(r.watch, c.pipe) /\ GoesOn(r.watch, c) /\ GivenOf(r, g)
  /\ r.hold = paused /\ r.after <= Len(ends) /\ (r.after = Len(ends) => r.again = (mute = r.actor))

Replying ==
  /\ \A id \in P!Took :
       /\ Standing1(providerTaken[id], calls[id], gave[id])
       /\ id <= providerAsked /\ providerOver[id] = 0
  /\ \A id \in P!Ids \ P!Took : providerOver[id] <= 1 /\ (id > providerAsked => providerOver[id] = 0 /\ gave[id] = <<>>)

\* A reply that ended stands no more, and the row is what the last end left.
EndedSo ==
  /\ \A k \in 1 .. Len(ends) : ends[k].id \notin P!Took /\ ends[k].id <= providerAsked
  /\ ends # <<>> => mute = IF ends[Len(ends)].turned THEN P!NOBODY ELSE ends[Len(ends)].actor
  /\ P!TurnHoldsWhatRan /\ P!RowPauses

RepliesInv == ReplyTypes /\ Replying /\ EndedSo

\* What the ear read of a channel goes from its front.
LEMMA PipeTail ==
  ASSUME NEW p \in Seq(PipeItems), p # <<>>
  PROVE /\ Tail(p) \in Seq(PipeItems) /\ Len(Tail(p)) = Len(p) - 1
        /\ \A i \in 1 .. Len(Tail(p)) : i + 1 \in 1 .. Len(p) /\ Tail(p)[i] = p[i + 1]
        /\ \A i, j \in 1 .. Len(Tail(p)) : SameAttempt(Tail(p), i, j) => SameAttempt(p, i + 1, j + 1)
        /\ Head(p) = p[1] /\ Head(p) \in PipeItems
<1>1. Tail(p) \in Seq(PipeItems) /\ Len(Tail(p)) = Len(p) - 1 /\ Head(p) = p[1] /\ Head(p) \in PipeItems
  BY SMT
<1>2. \A i \in 1 .. Len(Tail(p)) : i + 1 \in 1 .. Len(p) /\ Tail(p)[i] = p[i + 1]
  BY <1>1, SMT
<1>3. ASSUME NEW i \in 1 .. Len(Tail(p)), NEW j \in 1 .. Len(Tail(p)), SameAttempt(Tail(p), i, j)
      PROVE SameAttempt(p, i + 1, j + 1)
  <2> SUFFICES ASSUME NEW m \in i + 1 .. j + 1 PROVE p[m].kind # "retried"
    BY DEF SameAttempt
  <2>1. m - 1 \in i .. j /\ m - 1 \in 1 .. Len(Tail(p)) /\ (m - 1) + 1 = m
    BY SMT
  <2>2. Tail(p)[m - 1] = p[m]
    BY <1>2, <2>1
  <2> QED BY <1>3, <2>1, <2>2 DEF SameAttempt
<1> QED BY <1>1, <1>2, <1>3

\* What was read of a channel before, read on: a row of places after the first goes back to it when the first is of the row.
LEMMA FromFirst ==
  ASSUME NEW p \in Seq(PipeItems), NEW j \in Nat, j >= 1, p[1].kind # "retried", SameAttempt(p, 2, j)
  PROVE SameAttempt(p, 1, j)
BY SMT DEF SameAttempt

\* A statement of the word is read.
LEMMA ReadsWrote ==
  ASSUME NEW w \in Watches, NEW c \in CallForms, c.pipe # <<>>, Head(c.pipe).kind = "wrote",
         OneAttempt(w, c.pipe), GoesOn(w, c),
         NEW v \in Watches, v.text = Append(w.text, Head(c.pipe).serial),
         NEW d \in CallForms, d.pipe = Tail(c.pipe), d.at = c.at, d.serial = c.serial
  PROVE OneAttempt(v, d.pipe) /\ GoesOn(v, d)
<1> DEFINE p == c.pipe  q == d.pipe  t == w.text  u == v.text
<1>1. p \in Seq(PipeItems) /\ t \in Seq(Nat) /\ u \in Seq(Nat) /\ q \in Seq(PipeItems)
  BY DEF CallForms, Watches
<1>2. /\ Len(q) = Len(p) - 1 /\ p[1].kind = "wrote" /\ Head(p) = p[1]
      /\ \A i \in 1 .. Len(q) : i + 1 \in 1 .. Len(p) /\ q[i] = p[i + 1]
      /\ \A i, j \in 1 .. Len(q) : SameAttempt(q, i, j) => SameAttempt(p, i + 1, j + 1)
  BY <1>1, PipeTail
<1>3. Len(u) = Len(t) + 1 /\ u[Len(u)] = p[1].serial /\ \A n \in 1 .. Len(u) : n # Len(u) => n \in 1 .. Len(t) /\ u[n] = t[n]
  <2>1. p[1] \in PipeItems /\ Len(p) >= 1 BY <1>1, SMT
  <2>2. p[1].serial \in Nat BY <1>2, <2>1 DEF PipeItems
  <2>3. u = Append(t, p[1].serial) BY <1>2
  <2> HIDE DEF u
  <2> QED BY <1>1, <2>2, <2>3, SMT
<1>4. 1 \in 1 .. Len(p) /\ Len(p) \in Nat /\ Len(t) \in Nat /\ Len(q) \in Nat BY <1>1, SMT
<1>5. SameAttempt(p, 1, 1) BY <1>2 DEF SameAttempt
<1>6. \A n \in 1 .. Len(t) : t[n] = p[1].serial
  BY <1>2, <1>4, <1>5 DEF OneAttempt
<1>7. \A n \in 1 .. Len(u) : u[n] = p[1].serial
  BY <1>3, <1>6
<1>8. \A i \in 1 .. Len(q) : SameAttempt(q, 1, i) => SameAttempt(p, 1, i + 1)
  <2> SUFFICES ASSUME NEW i \in 1 .. Len(q), SameAttempt(q, 1, i) PROVE SameAttempt(p, 1, i + 1)
    OBVIOUS
  <2>1. 1 \in 1 .. Len(q) /\ i + 1 \in Nat /\ i + 1 >= 1 BY <1>2, <1>4, SMT
  <2>2. SameAttempt(p, 1 + 1, i + 1) BY <1>2, <2>1
  <2>3. SameAttempt(p, 2, i + 1) BY <2>2
  <2> QED BY <1>1, <1>2, <2>1, <2>3, FromFirst
<1>9. OneAttempt(v, q)
  <2>1. \A n, m \in 1 .. Len(u) : u[n] = u[m] BY <1>7
  <2>2. ASSUME NEW i \in 1 .. Len(q), NEW j \in 1 .. Len(q), i < j, q[i].kind = "wrote", q[j].kind = "wrote",
               SameAttempt(q, i, j)
        PROVE q[i].serial = q[j].serial
    <3>1. /\ SameAttempt(p, i + 1, j + 1) /\ i + 1 \in 1 .. Len(p) /\ j + 1 \in 1 .. Len(p) /\ i + 1 < j + 1
          /\ q[i] = p[i + 1] /\ q[j] = p[j + 1]
      BY <1>2, <2>2, SMT
    <3> HIDE DEF q
    <3> QED BY <2>2, <3>1 DEF OneAttempt
  <2>3. ASSUME NEW n \in 1 .. Len(u), NEW i \in 1 .. Len(q), q[i].kind = "wrote", SameAttempt(q, 1, i)
        PROVE u[n] = q[i].serial
    <3>1. SameAttempt(p, 1, i + 1) /\ i + 1 \in 1 .. Len(p) /\ 1 < i + 1 /\ q[i] = p[i + 1]
      BY <1>2, <1>8, <2>3, SMT
    <3>2. p[1].serial = p[i + 1].serial
      BY <1>2, <1>4, <2>3, <3>1 DEF OneAttempt
    <3> QED BY <1>7, <3>1, <3>2
  <2> QED BY <2>1, <2>2, <2>3 DEF OneAttempt
<1>10. GoesOn(v, d)
  <2>1. ASSUME d.at = "asked"
        PROVE /\ \A i \in 1 .. Len(q) : q[i].kind = "wrote" /\ SameAttempt(q, i, Len(q)) => q[i].serial = d.serial
              /\ SameAttempt(q, 1, Len(q)) => \A n \in 1 .. Len(u) : u[n] = d.serial
    <3>1. ASSUME NEW i \in 1 .. Len(q), q[i].kind = "wrote", SameAttempt(q, i, Len(q)) PROVE q[i].serial = d.serial
      <4>1. Len(q) \in 1 .. Len(q) /\ Len(q) + 1 = Len(p) BY <1>2, <1>4, SMT
      <4>2. SameAttempt(p, i + 1, Len(q) + 1) BY <1>2, <3>1, <4>1
      <4>3. SameAttempt(p, i + 1, Len(p)) /\ i + 1 \in 1 .. Len(p) /\ q[i] = p[i + 1]
        BY <1>2, <4>1, <4>2
      <4> QED BY <2>1, <3>1, <4>3 DEF GoesOn
    <3>2. ASSUME SameAttempt(q, 1, Len(q)) PROVE p[1].serial = d.serial
      <4>1. SameAttempt(p, 1, Len(p))
        <5>1. CASE Len(q) = 0
          BY <1>2, <1>4, <1>5, <5>1, SMT
        <5>2. CASE Len(q) # 0
          <6>1. Len(q) = Len(p) - 1 BY <1>2
          <6> HIDE DEF p, q
          <6>2. Len(q) \in 1 .. Len(q) /\ Len(q) + 1 = Len(p) BY <1>4, <5>2, <6>1, SMT
          <6> QED BY <1>8, <3>2, <6>2
        <5> QED BY <5>1, <5>2
      <4> QED BY <1>2, <1>4, <2>1, <4>1 DEF GoesOn
    <3> QED BY <1>7, <3>1, <3>2
  <2>2. c.at \in {"asleep", "held"} => p[Len(p)].kind = "retried"
    BY DEF GoesOn
  <2>3. c.at = "over" => p[Len(p)].kind = "came" BY DEF GoesOn
  <2>4. p[Len(p)].kind \in {"retried", "came"} => q # <<>> /\ q[Len(q)] = p[Len(p)]
    <3> SUFFICES ASSUME p[Len(p)].kind \in {"retried", "came"} PROVE q # <<>> /\ q[Len(q)] = p[Len(p)]
      OBVIOUS
    <3>1. Len(p) # 1 BY <1>2
    <3>2. Len(q) = Len(p) - 1 BY <1>2
    <3> HIDE DEF p, q
    <3>5. Len(q) \in 1 .. Len(q) /\ Len(q) + 1 = Len(p) BY <1>4, <3>1, <3>2, SMT
    <3>3. q[Len(q)] = p[Len(p)] BY <1>2, <3>5
    <3>4. q # <<>> BY <3>5, SMT
    <3> QED BY <3>3, <3>4
  <2> QED BY <2>1, <2>2, <2>3, <2>4 DEF GoesOn
<1> QED BY <1>9, <1>10

\* What was told is read, and the word that the watch held goes with it.
LEMMA ReadsAway ==
  ASSUME NEW w \in Watches, NEW c \in CallForms, c.pipe # <<>>, Head(c.pipe).kind # "came",
         OneAttempt(w, c.pipe), GoesOn(w, c),
         NEW v \in Watches, v.text = <<>>,
         NEW d \in CallForms, d.pipe = Tail(c.pipe), d.at = c.at, d.serial = c.serial
  PROVE OneAttempt(v, d.pipe) /\ GoesOn(v, d)
<1> DEFINE p == c.pipe  q == d.pipe
<1>1. p \in Seq(PipeItems) /\ q \in Seq(PipeItems) BY DEF CallForms
<1>2. /\ Len(q) = Len(p) - 1 /\ p[1].kind # "came"
      /\ \A i \in 1 .. Len(q) : i + 1 \in 1 .. Len(p) /\ q[i] = p[i + 1]
      /\ \A i, j \in 1 .. Len(q) : SameAttempt(q, i, j) => SameAttempt(p, i + 1, j + 1)
  BY <1>1, PipeTail
<1>3. Len(p) \in Nat /\ Len(p) # 0 /\ Len(q) \in Nat /\ 1 .. Len(v.text) = {} BY <1>1, SMT
<1>4. ASSUME NEW i \in 1 .. Len(q), NEW j \in 1 .. Len(q), i < j, q[i].kind = "wrote", q[j].kind = "wrote",
             SameAttempt(q, i, j)
      PROVE q[i].serial = q[j].serial
  <2>1. /\ SameAttempt(p, i + 1, j + 1) /\ i + 1 \in 1 .. Len(p) /\ j + 1 \in 1 .. Len(p) /\ i + 1 < j + 1
        /\ q[i] = p[i + 1] /\ q[j] = p[j + 1]
    BY <1>2, <1>4, SMT
  <2> HIDE DEF q
  <2> QED BY <1>4, <2>1 DEF OneAttempt
<1>5. OneAttempt(v, q) BY <1>3, <1>4 DEF OneAttempt
<1>6. ASSUME d.at = "asked", NEW i \in 1 .. Len(q), q[i].kind = "wrote", SameAttempt(q, i, Len(q)) PROVE q[i].serial = d.serial
  <2>1. Len(q) \in 1 .. Len(q) /\ Len(q) + 1 = Len(p) BY <1>2, <1>3, SMT
  <2>2. SameAttempt(p, i + 1, Len(q) + 1) BY <1>2, <1>6, <2>1
  <2>3. SameAttempt(p, i + 1, Len(p)) /\ i + 1 \in 1 .. Len(p) /\ q[i] = p[i + 1]
    BY <1>2, <2>1, <2>2
  <2> QED BY <1>6, <2>3 DEF GoesOn
<1>7. q # <<>> => q[Len(q)] = p[Len(p)]
  <2> SUFFICES ASSUME q # <<>> PROVE q[Len(q)] = p[Len(p)]
    OBVIOUS
  <2>1. Len(q) \in 1 .. Len(q) /\ Len(q) + 1 = Len(p) BY <1>1, <1>2, <1>3, SMT
  <2> QED BY <1>2, <2>1
<1>8. c.at = "over" => q # <<>>
  <2> SUFFICES ASSUME c.at = "over" PROVE q # <<>>
    OBVIOUS
  <2>1. p[Len(p)].kind = "came" BY DEF GoesOn
  <2>2. Len(p) # 1 BY <1>2, <2>1
  <2>3. Len(q) = Len(p) - 1 BY <1>2
  <2> HIDE DEF p, q
  <2> QED BY <1>1, <1>3, <2>2, <2>3, SMT
<1>9. GoesOn(v, d) BY <1>3, <1>6, <1>7, <1>8 DEF GoesOn
<1> QED BY <1>5, <1>9

\* The call tells that its model wrote, that its attempt failed, or what it came to.
LEMMA TellsMore ==
  ASSUME NEW w \in Watches, NEW c \in CallForms, c.at = "asked", OneAttempt(w, c.pipe), GoesOn(w, c),
         NEW item \in PipeItems, NEW d \in CallForms, d.pipe = Append(c.pipe, item), d.serial = c.serial,
         \/ d.at = "asked" /\ item.kind = "wrote" /\ item.serial = c.serial
         \/ d.at = "asleep" /\ item.kind = "retried"
         \/ d.at = "over" /\ item.kind = "came"
  PROVE OneAttempt(w, d.pipe) /\ GoesOn(w, d)
<1> DEFINE p == c.pipe  q == d.pipe  l == Len(c.pipe)
<1>1. p \in Seq(PipeItems) /\ q \in Seq(PipeItems) /\ l \in Nat BY DEF CallForms
<1>2. /\ Len(q) = l + 1 /\ q[l + 1] = item /\ \A i \in 1 .. Len(q) : i # l + 1 => i \in 1 .. l /\ q[i] = p[i]
      /\ q # <<>>
  BY <1>1, SMT
<1> HIDE DEF q
<1>3. \A i \in 1 .. Len(q), j \in 1 .. Len(q) : j # l + 1 /\ SameAttempt(q, i, j) => SameAttempt(p, i, j)
  BY <1>1, <1>2, SMT DEF SameAttempt
<1>4. \A i \in 1 .. Len(q) : SameAttempt(q, i, l + 1) => SameAttempt(p, i, l)
  BY <1>1, <1>2, SMT DEF SameAttempt
<1>5. item.kind = "wrote" => item.serial = c.serial /\ d.at = "asked"
  OBVIOUS
<1>6. \A i \in 1 .. l : p[i].kind = "wrote" /\ SameAttempt(p, i, l) => p[i].serial = c.serial
  BY DEF GoesOn
<1>7. SameAttempt(p, 1, l) => \A n \in 1 .. Len(w.text) : w.text[n] = c.serial
  BY DEF GoesOn
<1>8. ASSUME NEW i \in 1 .. Len(q), NEW j \in 1 .. Len(q), i < j, q[i].kind = "wrote", q[j].kind = "wrote",
             SameAttempt(q, i, j)
      PROVE q[i].serial = q[j].serial
  <2>1. i # l + 1 /\ i \in 1 .. l /\ q[i] = p[i] BY <1>1, <1>2, <1>8, SMT
  <2>2. CASE j = l + 1
    BY <1>2, <1>4, <1>5, <1>6, <1>8, <2>1, <2>2
  <2>3. CASE j # l + 1
    BY <1>2, <1>3, <1>8, <2>1, <2>3 DEF OneAttempt
  <2> QED BY <2>2, <2>3
<1>9. ASSUME NEW n \in 1 .. Len(w.text), NEW i \in 1 .. Len(q), q[i].kind = "wrote", SameAttempt(q, 1, i)
      PROVE w.text[n] = q[i].serial
  <2>1. 1 \in 1 .. Len(q) BY <1>1, <1>2, SMT
  <2>2. CASE i = l + 1
    BY <1>2, <1>4, <1>5, <1>7, <1>9, <2>1, <2>2
  <2>3. CASE i # l + 1
    BY <1>2, <1>3, <1>9, <2>1, <2>3 DEF OneAttempt
  <2> QED BY <2>2, <2>3
<1>10. OneAttempt(w, q)
  <2>1. \A n, m \in 1 .. Len(w.text) : w.text[n] = w.text[m] BY DEF OneAttempt
  <2> QED BY <1>8, <1>9, <2>1 DEF OneAttempt
<1>11. ASSUME d.at = "asked"
       PROVE /\ \A i \in 1 .. Len(q) : q[i].kind = "wrote" /\ SameAttempt(q, i, Len(q)) => q[i].serial = d.serial
             /\ SameAttempt(q, 1, Len(q)) => \A n \in 1 .. Len(w.text) : w.text[n] = d.serial
  <2>1. item.serial = c.serial BY <1>11
  <2>2. ASSUME NEW i \in 1 .. Len(q), q[i].kind = "wrote", SameAttempt(q, i, Len(q)) PROVE q[i].serial = d.serial
    <3>1. CASE i = l + 1 BY <1>2, <2>1, <3>1
    <3>2. CASE i # l + 1 BY <1>2, <1>4, <1>6, <2>2, <3>2
    <3> QED BY <3>1, <3>2
  <2>3. 1 \in 1 .. Len(q) BY <1>1, <1>2, SMT
  <2> QED BY <1>2, <1>4, <1>7, <2>2, <2>3
<1>12. d.at \in {"asleep", "held"} => q[Len(q)].kind = "retried" BY <1>2
<1>13. d.at = "over" => q[Len(q)].kind = "came" BY <1>2
<1>14. GoesOn(w, d) BY <1>2, <1>11, <1>12, <1>13 DEF GoesOn, q
<1> QED BY <1>10, <1>14 DEF q

\* The next attempt waits for a wake, or begins, whose words are its own.
LEMMA NextAttempt ==
  ASSUME NEW w \in Watches, NEW c \in CallForms, NEW d \in CallForms, d.pipe = c.pipe, GoesOn(w, c),
         \/ c.at = "asleep" /\ d.at = "held"
         \/ c.at = "held" /\ d.at = "asked"
  PROVE GoesOn(w, d)
<1> DEFINE p == c.pipe
<1>1. p \in Seq(PipeItems) BY DEF CallForms
<1>2. CASE d.at = "held" BY <1>2 DEF GoesOn
<1>3. CASE d.at = "asked"
  <2>1. CASE p = <<>>
    <3>1. 1 .. Len(p) = {} /\ 1 .. Len(w.text) = {} BY <1>3, <2>1, SMT DEF GoesOn
    <3> QED BY <1>3, <3>1 DEF GoesOn
  <2>2. CASE p # <<>>
    <3>1. p[Len(p)].kind = "retried" BY <1>3, <2>2 DEF GoesOn
    <3>2. \A i \in 1 .. Len(p) : ~SameAttempt(p, i, Len(p)) /\ 1 \in 1 .. Len(p)
      BY <1>1, <2>2, <3>1, SMT DEF SameAttempt
    <3>3. 1 \in 1 .. Len(p) BY <1>1, <2>2, SMT
    <3> QED BY <1>3, <3>2, <3>3 DEF GoesOn
  <2> QED BY <2>1, <2>2
<1> QED BY <1>2, <1>3

\* A call that nothing is written for yet.
LEMMA CallAnew ==
  ASSUME NEW w \in Watches, w.text = <<>>, NEW d \in CallForms, d.pipe = <<>>, d.at \in {"asked", "held"}
  PROVE OneAttempt(w, d.pipe) /\ GoesOn(w, d)
<1>1. 1 .. Len(w.text) = {} /\ 1 .. Len(d.pipe) = {} BY SMT
<1> QED BY <1>1 DEF OneAttempt, GoesOn

\* The actors are names that nobody has.
LEMMA ReplyBounds == P!NOBODY \notin Actors /\ MaxReplies \in Nat /\ MaxStands \in Nat /\ P!NONE \notin Replies
BY WorldAssumption DEF P!ProviderAssumption, P!NONE, Replies

LEMMA ReplyTyped ==
  ASSUME ReplyTypes, NEW id \in P!Took
  PROVE /\ id \in P!Ids /\ providerTaken[id] \in Replies /\ calls[id] \in CallForms /\ gave[id] \in Seq(Nat)
        /\ providerTaken[id].watch \in Watches /\ calls[id].pipe \in Seq(PipeItems)
BY DEF ReplyTypes, P!Took, P!Stands, Replies, CallForms

\* One reply that stands goes on.
LEMMA OneMoves ==
  ASSUME RepliesInv, NEW id \in P!Took, NEW r \in Replies, NEW c \in CallForms, NEW g \in Seq(Nat),
         providerTaken' = [providerTaken EXCEPT ![id] = r], calls' = [calls EXCEPT ![id] = c],
         gave' = [gave EXCEPT ![id] = g],
         UNCHANGED <<mute, paused, providerAsked, ends, providerOver, stands, reading>>,
         Standing1(r, c, g)
  PROVE RepliesInv'
<1>1. id \in P!Ids /\ ReplyTypes BY ReplyTyped DEF RepliesInv
<1>2. ReplyTypes' BY <1>1 DEF ReplyTypes
<1>3. /\ providerTaken'[id] = r /\ calls'[id] = c /\ gave'[id] = g
      /\ \A i \in P!Ids : i # id => providerTaken'[i] = providerTaken[i] /\ calls'[i] = calls[i] /\ gave'[i] = gave[i]
  BY <1>1 DEF ReplyTypes
<1>4. r # P!NONE BY ReplyBounds
<1>5. P!Took' = P!Took
  BY <1>1, <1>3, <1>4 DEF P!Took, P!Stands
<1>6. Replying'
  <2>1. ASSUME NEW i \in P!Took
        PROVE Standing1(providerTaken[i], calls[i], gave[i])' /\ i <= providerAsked' /\ providerOver'[i] = 0
    <3>1. i \in P!Ids /\ i <= providerAsked /\ providerOver[i] = 0 /\ Standing1(providerTaken[i], calls[i], gave[i])
      BY <2>1 DEF RepliesInv, Replying, P!Took
    <3>2. CASE i = id BY <1>3, <3>1, <3>2 DEF Standing1
    <3>3. CASE i # id BY <1>3, <3>1, <3>3 DEF Standing1
    <3> QED BY <3>2, <3>3, <3>1
  <2>2. ASSUME NEW i \in P!Ids \ P!Took
        PROVE providerOver'[i] <= 1 /\ (i > providerAsked' => providerOver'[i] = 0 /\ gave'[i] = <<>>)
    <3>1. i # id BY <2>2
    <3> QED BY <1>3, <2>2, <3>1 DEF RepliesInv, Replying
  <2> QED BY <1>5, <2>1, <2>2 DEF Replying, Standing1, P!Ids
<1>7. EndedSo'
  <2>1. \A k \in 1 .. Len(ends) : ends[k].id \notin P!Took /\ ends[k].id <= providerAsked BY DEF RepliesInv, EndedSo
  <2>2. ends \in Seq(EndForms) BY <1>1 DEF ReplyTypes
  <2>3. \A k \in 1 .. Len(ends) : gave'[ends[k].id] = gave[ends[k].id]
    BY <1>3, <2>1, <2>2, SMT DEF EndForms
  <2>4. P!TurnHoldsWhatRan'
    BY <2>2, <2>3 DEF RepliesInv, EndedSo, P!TurnHoldsWhatRan
  <2>5. P!RowPauses' BY DEF RepliesInv, EndedSo, P!RowPauses
  <2> QED BY <1>5, <2>1, <2>4, <2>5 DEF RepliesInv, EndedSo
<1> QED BY <1>2, <1>6, <1>7 DEF RepliesInv

\* One reply ends as the ear says: the others that stand know of a pause that this brings.
LEMMA OneEnds ==
  ASSUME RepliesInv, NEW id \in P!Took, NEW e \in EndForms,
         e.id = id, e.actor = providerTaken[id].actor, e.after = providerTaken[id].after,
         gave[id] # <<>> => e.turned /\ P!IsPrefix(gave[id], e.word),
         e.hard /\ providerTaken[id].again => e.paused,
         ends' = Append(ends, e), mute' = IF e.turned THEN P!NOBODY ELSE e.actor, paused' \in BOOLEAN,
         providerTaken' = [i \in P!Ids |-> IF i = id \/ providerTaken[i] = P!NONE THEN P!NONE
                                           ELSE [providerTaken[i] EXCEPT !.hold = paused']],
         calls' = [calls EXCEPT ![id] = P!NoCall],
         providerOver' = [providerOver EXCEPT ![id] = @ + 1],
         UNCHANGED <<providerAsked, stands, reading, gave>>
  PROVE RepliesInv'
<1>1. id \in P!Ids /\ ReplyTypes BY ReplyTyped DEF RepliesInv
<1>2. P!NoCall \in CallForms BY SMT DEF P!NoCall, P!Call, CallForms
<1>3. \A i \in P!Took : providerTaken[i] \in Replies /\ [providerTaken[i] EXCEPT !.hold = paused'] \in Replies
  BY <1>1, ReplyTyped DEF Replies
<1>4. ends \in Seq(EndForms) /\ ends' \in Seq(EndForms) /\ Len(ends') = Len(ends) + 1 /\ Len(ends) \in Nat
  BY <1>1, SMT DEF ReplyTypes
<1>5. /\ \A k \in 1 .. Len(ends) : ends'[k] = ends[k] /\ k \in 1 .. Len(ends')
      /\ ends'[Len(ends) + 1] = e /\ Len(ends) + 1 \in 1 .. Len(ends')
      /\ \A k \in 1 .. Len(ends') : k \in 1 .. Len(ends) \/ k = Len(ends) + 1
  BY <1>4, SMT
<1>6. ReplyTypes'
  <2>1. providerTaken' \in [P!Ids -> Replies \cup {P!NONE}]
    BY <1>3 DEF P!Took, P!Stands
  <2>2. mute' \in Actors \cup {P!NOBODY} BY DEF EndForms
  <2>3. providerOver' \in [P!Ids -> Nat] BY <1>1 DEF ReplyTypes
  <2> QED BY <1>1, <1>2, <1>4, <2>1, <2>2, <2>3 DEF ReplyTypes
<1>7. /\ providerTaken'[id] = P!NONE /\ providerOver'[id] = providerOver[id] + 1
      /\ \A i \in P!Took : i # id =>
           /\ providerTaken'[i] = [providerTaken[i] EXCEPT !.hold = paused']
           /\ calls'[i] = calls[i] /\ providerOver'[i] = providerOver[i]
      /\ \A i \in P!Ids \ P!Took : providerTaken'[i] = P!NONE /\ providerOver'[i] = providerOver[i]
  BY <1>1 DEF ReplyTypes, P!Took, P!Stands
<1>8. P!Took' = P!Took \ {id}
  <2>1. ASSUME NEW i \in P!Took, i # id PROVE providerTaken'[i] # P!NONE
    <3>1. [providerTaken[i] EXCEPT !.hold = paused'] \in Replies BY <1>3
    <3>2. providerTaken'[i] = [providerTaken[i] EXCEPT !.hold = paused'] BY <1>7, <2>1
    <3>3. providerTaken'[i] \in Replies BY <3>1, <3>2
    <3> QED BY <3>3, ReplyBounds
  <2> QED BY <1>7, <2>1 DEF P!Took, P!Stands
<1>9. Replying'
  <2>1. ASSUME NEW i \in P!Took, i # id
        PROVE Standing1(providerTaken[i], calls[i], gave[i])' /\ i <= providerAsked' /\ providerOver'[i] = 0
    <3>1. i <= providerAsked /\ providerOver[i] = 0 /\ Standing1(providerTaken[i], calls[i], gave[i])
      BY <2>1 DEF RepliesInv, Replying
    <3> DEFINE r == providerTaken[i]  s == providerTaken'[i]
    <3>2. s = [r EXCEPT !.hold = paused'] /\ r \in Replies BY <1>3, <1>7, <2>1
    <3>3. s.watch = r.watch /\ s.waits = r.waits /\ s.streams = r.streams /\ s.after = r.after /\ s.hold = paused' /\ r.after \in Nat
      BY <3>2 DEF Replies
    <3> HIDE DEF r, s
    <3>4. s.after <= Len(ends') /\ s.after # Len(ends')
      BY <1>4, <3>1, <3>3, SMT DEF Standing1, r
    <3>5. calls'[i] = calls[i] /\ gave' = gave BY <1>7, <2>1
    <3>6. OneAttempt(s.watch, calls'[i].pipe) /\ GoesOn(s.watch, calls'[i]) /\ GivenOf(s, gave'[i])
      BY <3>1, <3>3, <3>5 DEF Standing1, GivenOf, r
    <3> QED BY <1>7, <2>1, <3>1, <3>3, <3>4, <3>6 DEF Standing1, s
  <2>2. ASSUME NEW i \in P!Ids \ P!Took
        PROVE providerOver'[i] <= 1 /\ (i > providerAsked' => providerOver'[i] = 0 /\ gave'[i] = <<>>)
    BY <1>7, <2>2 DEF RepliesInv, Replying
  <2>3. providerOver'[id] <= 1 /\ ~(id > providerAsked')
    <3>1. providerOver[id] = 0 /\ id <= providerAsked BY DEF RepliesInv, Replying
    <3>2. id \in Nat /\ providerAsked \in Nat BY <1>1, ReplyBounds, SMT DEF P!Ids, ReplyTypes
    <3> QED BY <1>7, <3>1, <3>2, SMT
  <2> QED BY <1>8, <2>1, <2>2, <2>3 DEF Replying, Standing1, P!Ids
<1>10. EndedSo'
  <2>1. \A k \in 1 .. Len(ends) : ends[k].id \notin P!Took /\ ends[k].id <= providerAsked BY DEF RepliesInv, EndedSo
  <2>2. id <= providerAsked BY DEF RepliesInv, Replying
  <2>3. \A k \in 1 .. Len(ends') : ends'[k].id \notin P!Took' /\ ends'[k].id <= providerAsked'
    BY <1>5, <1>8, <2>1, <2>2
  <2>4. mute' = IF ends'[Len(ends')].turned THEN P!NOBODY ELSE ends'[Len(ends')].actor
    BY <1>4, <1>5
  <2>5. P!TurnHoldsWhatRan'
    <3>1. DOMAIN ends = 1 .. Len(ends) /\ DOMAIN ends' = 1 .. Len(ends') BY <1>4, SMT
    <3>2. \A k \in 1 .. Len(ends) : gave[ends[k].id] # <<>> => ends[k].turned /\ P!IsPrefix(gave[ends[k].id], ends[k].word)
      BY <3>1 DEF RepliesInv, EndedSo, P!TurnHoldsWhatRan
    <3>3. ASSUME NEW k \in 1 .. Len(ends'), gave[ends'[k].id] # <<>>
          PROVE ends'[k].turned /\ P!IsPrefix(gave[ends'[k].id], ends'[k].word)
      BY <1>5, <3>2, <3>3
    <3> QED BY <3>1, <3>3 DEF P!TurnHoldsWhatRan, P!IsPrefix
  <2>6. P!RowPauses'
    <3>1. DOMAIN ends = 1 .. Len(ends) /\ DOMAIN ends' = 1 .. Len(ends') BY <1>4, SMT
    <3>2. ASSUME NEW k \in 1 .. Len(ends'), ends'[k].hard, k > 1, ends'[k].after >= k - 1, ~ends'[k - 1].turned,
                 ends'[k - 1].actor = ends'[k].actor
          PROVE ends'[k].paused
      <4>1. k - 1 \in 1 .. Len(ends) BY <1>4, <3>2, SMT
      <4>2. ends'[k - 1] = ends[k - 1] BY <1>5, <4>1
      <4>3. CASE k \in 1 .. Len(ends)
        BY <1>5, <3>1, <3>2, <4>2, <4>3 DEF RepliesInv, EndedSo, P!RowPauses
      <4>4. CASE k = Len(ends) + 1
        <5>1. k - 1 = Len(ends) BY <1>4, <4>4, SMT
        <5>2. ends # <<>> BY <1>4, <4>1, <5>1, SMT
        <5>3. mute = e.actor
          BY <1>5, <3>2, <4>2, <4>4, <5>1, <5>2 DEF RepliesInv, EndedSo
        <5>4. providerTaken[id].after <= Len(ends) /\ providerTaken[id].after \in Nat
              /\ (providerTaken[id].after = Len(ends) => providerTaken[id].again = (mute = providerTaken[id].actor))
          BY <1>3 DEF RepliesInv, Replying, Standing1, Replies
        <5>5. e.after >= Len(ends) BY <1>5, <3>2, <4>4, <5>1
        <5>6. providerTaken[id].after = Len(ends) BY <1>4, <5>4, <5>5, SMT
        <5>7. providerTaken[id].again BY <5>3, <5>4, <5>6
        <5> QED BY <1>5, <3>2, <4>4, <5>7
      <4> QED BY <1>5, <4>3, <4>4
    <3> QED BY <3>1, <3>2 DEF P!RowPauses
  <2> QED BY <2>3, <2>4, <2>5, <2>6 DEF EndedSo
<1> QED BY <1>6, <1>9, <1>10 DEF RepliesInv

(* ---- the steps of the ear of a provider ---- *)

LEMMA RepliesInit == P!Init => RepliesInv
<1> SUFFICES ASSUME P!Init PROVE RepliesInv
  OBVIOUS
<1>1. \A i \in P!Ids : providerTaken[i] = P!NONE
  BY DEF P!Init
<1>2. P!Took = {} BY <1>1 DEF P!Took, P!Stands
<1>3. P!NoCall \in CallForms BY SMT DEF P!NoCall, P!Call, CallForms
<1>4. ReplyTypes
  <2>1. ends \in Seq(EndForms)
    <3>1. <<>> \in Seq(EndForms) OBVIOUS
    <3> QED BY <3>1 DEF P!Init
  <2>5. mute \in Actors \cup {P!NOBODY} /\ paused \in BOOLEAN BY DEF P!Init
  <2>2. providerAsked \in 0 .. MaxReplies /\ stands \in 0 .. MaxStands /\ reading \in 0 .. stands
    BY ReplyBounds, SMT DEF P!Init
  <2>3. gave \in [P!Ids -> Seq(Nat)] /\ providerOver \in [P!Ids -> Nat] BY SMT DEF P!Init
  <2>4. providerTaken \in [P!Ids -> Replies \cup {P!NONE}] /\ calls \in [P!Ids -> CallForms] BY <1>3 DEF P!Init
  <2> QED BY <2>1, <2>2, <2>3, <2>4, <2>5 DEF ReplyTypes
<1>5. Replying BY <1>2, SMT DEF Replying, P!Init
<1>6. ends = <<>> /\ DOMAIN ends = {} /\ 1 .. Len(ends) = {} BY SMT DEF P!Init
<1>7. EndedSo BY <1>6 DEF EndedSo, P!TurnHoldsWhatRan, P!RowPauses
<1> QED BY <1>4, <1>5, <1>7 DEF RepliesInv

\* The ear ends a reply with a turn, which begins with what ran.
LEMMA TurnEnds ==
  ASSUME RepliesInv, NEW id \in P!Took, NEW word \in Seq(Nat), gave[id] # <<>> => P!IsPrefix(gave[id], word),
         P!Turned(id, word), UNCHANGED <<paused, providerAsked, stands, reading, gave>>
  PROVE RepliesInv'
<1>1. id \in P!Ids /\ ReplyTypes /\ providerTaken[id] \in Replies BY ReplyTyped DEF RepliesInv
<1> DEFINE e == [id |-> id, actor |-> providerTaken[id].actor, turned |-> TRUE, word |-> word, hard |-> FALSE,
                 paused |-> paused, after |-> providerTaken[id].after]
<1>2. e \in EndForms BY <1>1 DEF EndForms, Replies, ReplyTypes
<1>3. /\ ends' = Append(ends, e) /\ mute' = P!NOBODY /\ providerTaken' = [providerTaken EXCEPT ![id] = P!NONE]
      /\ calls' = [calls EXCEPT ![id] = P!NoCall] /\ providerOver' = [providerOver EXCEPT ![id] = @ + 1]
  BY DEF P!Turned, P!Gone
<1>4. \A i \in P!Took : [providerTaken[i] EXCEPT !.hold = paused'] = providerTaken[i]
  <2> SUFFICES ASSUME NEW i \in P!Took PROVE [providerTaken[i] EXCEPT !.hold = paused'] = providerTaken[i]
    OBVIOUS
  <2>1. providerTaken[i] \in Replies BY <1>1, ReplyTyped
  <2>2. providerTaken[i].hold = paused' BY DEF RepliesInv, Replying, Standing1
  <2> QED BY <2>1, <2>2 DEF Replies
<1>5. providerTaken' = [i \in P!Ids |-> IF i = id \/ providerTaken[i] = P!NONE THEN P!NONE
                                        ELSE [providerTaken[i] EXCEPT !.hold = paused']]
  BY <1>1, <1>3, <1>4 DEF ReplyTypes, P!Took, P!Stands
<1>6. /\ e.id = id /\ e.actor = providerTaken[id].actor /\ e.after = providerTaken[id].after /\ e.turned /\ e.word = word
      /\ ~e.hard
  OBVIOUS
<1>7. paused' \in BOOLEAN BY <1>1 DEF ReplyTypes
<1> HIDE DEF e
<1> QED BY <1>2, <1>3, <1>5, <1>6, <1>7, OneEnds

\* The ear ends a reply that nothing ran of with a refusal.
LEMMA RefusalEnds ==
  ASSUME RepliesInv, NEW id \in P!Took, NEW hard \in BOOLEAN, gave[id] = <<>>,
         P!Refused(id, hard), UNCHANGED <<providerAsked, stands, reading, gave>>
  PROVE RepliesInv'
<1>1. id \in P!Ids /\ ReplyTypes /\ providerTaken[id] \in Replies BY ReplyTyped DEF RepliesInv
<1> DEFINE e == [id |-> id, actor |-> providerTaken[id].actor, turned |-> FALSE, word |-> <<>>, hard |-> hard,
                 paused |-> paused', after |-> providerTaken[id].after]
<1>2. paused' = (paused \/ (hard /\ providerTaken[id].again)) /\ paused' \in BOOLEAN
  BY <1>1, Zenon DEF P!Refused, ReplyTypes
<1>3. e \in EndForms BY <1>1, <1>2, SMT DEF EndForms, Replies
<1>4. /\ ends' = Append(ends, e) /\ mute' = e.actor
      /\ providerTaken' = [i \in P!Ids |-> IF i = id \/ providerTaken[i] = P!NONE THEN P!NONE
                                           ELSE [providerTaken[i] EXCEPT !.hold = paused']]
      /\ calls' = [calls EXCEPT ![id] = P!NoCall] /\ providerOver' = [providerOver EXCEPT ![id] = @ + 1]
  BY DEF P!Refused
<1>5. /\ e.id = id /\ e.actor = providerTaken[id].actor /\ e.after = providerTaken[id].after /\ ~e.turned
      /\ e.hard = hard /\ e.paused = paused'
  OBVIOUS
<1> HIDE DEF e
<1>6. e.hard /\ providerTaken[id].again => e.paused BY <1>2, <1>5, Zenon
<1> QED BY <1>2, <1>3, <1>4, <1>5, <1>6, OneEnds

\* A control ends a reply and leaves the row as it is.
LEMMA ControlledKept == ASSUME RepliesInv, NEW id \in P!Ids, P!Controlled(id) PROVE RepliesInv'
<1>1. id \in P!Took /\ ReplyTypes BY DEF P!Controlled, RepliesInv, P!Took
<1>2. /\ providerTaken' = [providerTaken EXCEPT ![id] = P!NONE]
      /\ calls' = [calls EXCEPT ![id] = P!NoCall] /\ providerOver' = [providerOver EXCEPT ![id] = @ + 1]
      /\ UNCHANGED <<mute, paused, reading, providerAsked, stands, gave, ends>>
  BY DEF P!Controlled, P!Gone
<1>3. P!NoCall \in CallForms BY SMT DEF P!NoCall, P!Call, CallForms
<1>4. ReplyTypes'
  <2>1. providerOver' \in [P!Ids -> Nat] BY <1>1, <1>2 DEF ReplyTypes
  <2> QED BY <1>1, <1>2, <1>3, <2>1 DEF ReplyTypes
<1>5. /\ providerTaken'[id] = P!NONE /\ providerOver'[id] = providerOver[id] + 1
      /\ \A i \in P!Ids : i # id =>
           providerTaken'[i] = providerTaken[i] /\ calls'[i] = calls[i] /\ providerOver'[i] = providerOver[i]
  BY <1>1, <1>2 DEF ReplyTypes
<1>6. P!Took' = P!Took \ {id} BY <1>5 DEF P!Took, P!Stands
<1>7. Replying'
  <2>1. ASSUME NEW i \in P!Took, i # id
        PROVE Standing1(providerTaken[i], calls[i], gave[i])' /\ i <= providerAsked' /\ providerOver'[i] = 0
    <3>1. i \in P!Ids BY DEF P!Took
    <3> QED BY <1>2, <1>5, <2>1, <3>1 DEF RepliesInv, Replying, Standing1
  <2>2. ASSUME NEW i \in P!Ids \ P!Took
        PROVE providerOver'[i] <= 1 /\ (i > providerAsked' => providerOver'[i] = 0 /\ gave'[i] = <<>>)
    <3>1. i # id BY <1>1, <2>2
    <3> QED BY <1>2, <1>5, <2>2, <3>1 DEF RepliesInv, Replying
  <2>3. providerOver'[id] <= 1 /\ ~(id > providerAsked')
    <3>1. providerOver[id] = 0 /\ id <= providerAsked BY <1>1 DEF RepliesInv, Replying
    <3>2. id \in Nat /\ providerAsked \in Nat BY <1>1, ReplyBounds, SMT DEF P!Ids, ReplyTypes
    <3> QED BY <1>2, <1>5, <3>1, <3>2, SMT
  <2> QED BY <1>6, <2>1, <2>2, <2>3 DEF Replying, Standing1, P!Ids
<1>8. EndedSo'
  <2>1. P!TurnHoldsWhatRan' /\ P!RowPauses'
    BY <1>2 DEF RepliesInv, EndedSo, P!TurnHoldsWhatRan, P!RowPauses
  <2> QED BY <1>2, <1>6, <2>1 DEF RepliesInv, EndedSo
<1> QED BY <1>4, <1>7, <1>8 DEF RepliesInv

\* A reply is asked, whose row is of the last refusal.
LEMMA ReplyKept == ASSUME RepliesInv, P!Reply PROVE RepliesInv'
<1>0. PICK id \in P!Ids : id = providerAsked + 1 /\ id > providerAsked /\ id \in 0 .. MaxReplies
  <2>1. providerAsked < MaxReplies /\ providerAsked \in 0 .. MaxReplies BY DEF P!Reply, RepliesInv, ReplyTypes
  <2>2. providerAsked + 1 \in P!Ids /\ providerAsked + 1 > providerAsked /\ providerAsked + 1 \in 0 .. MaxReplies
    BY <2>1, ReplyBounds, SMT DEF P!Ids
  <2> QED BY <2>2
<1>1. PICK actor \in Actors, streams \in BOOLEAN :
        /\ providerTaken' = [providerTaken EXCEPT ![id] = P!Taken(actor, streams)]
        /\ calls' = [calls EXCEPT ![id] = P!Call("asked", 1)]
  BY <1>0 DEF P!Reply
<1> DEFINE r == P!Taken(actor, streams)  c == P!Call("asked", 1)
<1>2. /\ providerAsked < MaxReplies /\ providerAsked' = id
      /\ UNCHANGED <<mute, paused, reading, stands, gave, ends, providerOver>>
  BY <1>0 DEF P!Reply
<1>3. ReplyTypes BY DEF RepliesInv
<1>4. id \in P!Ids /\ id > providerAsked /\ providerAsked \in Nat /\ id \in 0 .. MaxReplies
  BY <1>0, <1>3, ReplyBounds, SMT DEF ReplyTypes
<1>5. id \notin P!Took
  <2>1. \A i \in P!Took : i <= providerAsked BY DEF RepliesInv, Replying
  <2> QED BY <1>4, <2>1, SMT
<1>6. providerOver[id] = 0 /\ gave[id] = <<>> BY <1>4, <1>5 DEF RepliesInv, Replying
<1>7. P!Watch \in Watches /\ P!Watch.text = <<>> /\ P!Watch.given = 0 BY SMT DEF P!Watch, Watches
<1>8. ends \in Seq(EndForms) /\ Len(ends) \in Nat /\ paused \in BOOLEAN BY <1>3, SMT DEF ReplyTypes
<1>9. r \in Replies /\ c \in CallForms
  <2>1. (mute = actor) \in BOOLEAN OBVIOUS
  <2>2. r \in Replies BY <1>7, <1>8, <2>1 DEF P!Taken, Replies
  <2>3. c \in CallForms BY SMT DEF P!Call, CallForms
  <2> QED BY <2>2, <2>3
<1>10. /\ r.watch = P!Watch /\ r.waits = FALSE /\ r.hold = paused /\ r.after = Len(ends) /\ r.actor = actor
       /\ r.again = (mute = actor) /\ c.pipe = <<>> /\ c.at = "asked"
  BY DEF P!Taken, P!Call
<1> HIDE DEF r, c
<1>11. Standing1(r, c, <<>>)
  <2>1. OneAttempt(r.watch, c.pipe) /\ GoesOn(r.watch, c) BY <1>7, <1>9, <1>10, CallAnew
  <2>2. GivenOf(r, <<>>) BY <1>7, <1>10, SMT DEF GivenOf
  <2> QED BY <1>8, <1>10, <2>1, <2>2, SMT DEF Standing1
<1>12. /\ providerTaken'[id] = r /\ calls'[id] = c
       /\ \A i \in P!Ids : i # id => providerTaken'[i] = providerTaken[i] /\ calls'[i] = calls[i]
  BY <1>1, <1>3, <1>4 DEF ReplyTypes, r, c
<1>13. r # P!NONE BY <1>9, ReplyBounds
<1>14. P!Took' = P!Took \cup {id} BY <1>4, <1>12, <1>13 DEF P!Took, P!Stands
<1>15. ReplyTypes' BY <1>1, <1>2, <1>3, <1>4, <1>9 DEF ReplyTypes, r, c
<1>16. \A i \in P!Ids : i \in Nat /\ (i <= providerAsked => i <= id) /\ (i > id => i > providerAsked)
  BY <1>4, ReplyBounds, SMT DEF P!Ids
<1>17. Replying'
  <2>1. ASSUME NEW i \in P!Took
        PROVE Standing1(providerTaken[i], calls[i], gave[i])' /\ i <= providerAsked' /\ providerOver'[i] = 0
    <3>1. i \in P!Ids /\ i # id BY <1>5, <2>1 DEF P!Took
    <3> QED BY <1>2, <1>12, <1>16, <2>1, <3>1 DEF RepliesInv, Replying, Standing1
  <2>2. Standing1(providerTaken[id], calls[id], gave[id])' /\ id <= providerAsked' /\ providerOver'[id] = 0
    <3>1. id <= id BY <1>4, <1>16, SMT DEF P!Ids
    <3>2. Standing1(providerTaken[id], calls[id], gave[id])'
      BY <1>2, <1>6, <1>11, <1>12 DEF Standing1
    <3> QED BY <1>2, <1>6, <3>1, <3>2
  <2>3. ASSUME NEW i \in P!Ids \ P!Took, i # id
        PROVE providerOver'[i] <= 1 /\ (i > providerAsked' => providerOver'[i] = 0 /\ gave'[i] = <<>>)
    BY <1>2, <1>16, <2>3 DEF RepliesInv, Replying
  <2>4. \A i \in P!Took' : Standing1(providerTaken[i], calls[i], gave[i])' /\ i <= providerAsked' /\ providerOver'[i] = 0
    BY <1>14, <2>1, <2>2
  <2>5. \A i \in P!Ids \ P!Took' : providerOver'[i] <= 1 /\ (i > providerAsked' => providerOver'[i] = 0 /\ gave'[i] = <<>>)
    BY <1>14, <2>3
  <2> QED BY <2>4, <2>5 DEF Replying, Standing1, P!Ids
<1>18. EndedSo'
  <2>1. P!TurnHoldsWhatRan' /\ P!RowPauses'
    BY <1>2 DEF RepliesInv, EndedSo, P!TurnHoldsWhatRan, P!RowPauses
  <2>2. ASSUME NEW k \in 1 .. Len(ends) PROVE ends[k].id \notin P!Took' /\ ends[k].id <= id
    <3>1. ends[k].id \notin P!Took /\ ends[k].id <= providerAsked BY DEF RepliesInv, EndedSo
    <3>2. ends[k] \in EndForms /\ ends[k].id \in P!Ids
      <4>1. ends[k] \in EndForms BY <1>8, SMT
      <4> QED BY <4>1 DEF EndForms
    <3>3. ends[k].id # id BY <1>4, <1>16, <3>1, <3>2, SMT
    <3> QED BY <1>14, <1>16, <3>1, <3>2, <3>3
  <2> QED BY <1>2, <2>1, <2>2 DEF RepliesInv, EndedSo
<1> QED BY <1>15, <1>17, <1>18 DEF RepliesInv

\* Every reply that stands goes on.
LEMMA AllMove ==
  ASSUME RepliesInv, P!Took' = P!Took, ReplyTypes',
         \A i \in P!Took : Standing1(providerTaken[i], calls[i], gave[i])',
         UNCHANGED <<mute, providerAsked, gave, ends, providerOver>>
  PROVE RepliesInv'
<1>1. Replying'
  <2>1. \A i \in P!Took' : Standing1(providerTaken[i], calls[i], gave[i])' /\ i <= providerAsked' /\ providerOver'[i] = 0
    BY DEF RepliesInv, Replying
  <2>2. \A i \in P!Ids \ P!Took' : providerOver'[i] <= 1 /\ (i > providerAsked' => providerOver'[i] = 0 /\ gave'[i] = <<>>)
    BY DEF RepliesInv, Replying
  <2> QED BY <2>1, <2>2 DEF Replying, Standing1, P!Ids
<1>2. EndedSo'
  <2>1. P!TurnHoldsWhatRan' /\ P!RowPauses' BY DEF RepliesInv, EndedSo, P!TurnHoldsWhatRan, P!RowPauses
  <2> QED BY <2>1 DEF RepliesInv, EndedSo
<1> QED BY <1>1, <1>2 DEF RepliesInv

\* A pause or a wake is heard by each reply that stands.
LEMMA PauseHeard == ASSUME RepliesInv, P!Pause PROVE RepliesInv'
<1>1. /\ paused' = ~paused /\ providerTaken' = P!Held(~paused)
      /\ UNCHANGED <<mute, calls, reading, providerAsked, stands, gave, ends, providerOver>>
  BY DEF P!Pause
<1>2. ReplyTypes BY DEF RepliesInv
<1>3. paused' \in BOOLEAN BY <1>1
<1>4. \A i \in P!Took : /\ i \in P!Ids /\ providerTaken[i] \in Replies
                        /\ providerTaken'[i] = [providerTaken[i] EXCEPT !.hold = paused']
                        /\ [providerTaken[i] EXCEPT !.hold = paused'] \in Replies
  <2> SUFFICES ASSUME NEW i \in P!Took
               PROVE /\ i \in P!Ids /\ providerTaken[i] \in Replies
                     /\ providerTaken'[i] = [providerTaken[i] EXCEPT !.hold = paused']
                     /\ [providerTaken[i] EXCEPT !.hold = paused'] \in Replies
    OBVIOUS
  <2>1. i \in P!Ids /\ providerTaken[i] \in Replies BY <1>2, ReplyTyped
  <2>2. providerTaken'[i] = [providerTaken[i] EXCEPT !.hold = ~paused] BY <1>1, <2>1 DEF P!Held, P!Took
  <2>3. [providerTaken[i] EXCEPT !.hold = paused'] \in Replies BY <1>3, <2>1 DEF Replies
  <2> QED BY <1>1, <2>1, <2>2, <2>3
<1>5. \A i \in P!Ids \ P!Took : providerTaken'[i] = P!NONE BY <1>1 DEF P!Held, P!Took
<1>6. P!Took' = P!Took
  <2>1. \A i \in P!Took : providerTaken'[i] # P!NONE BY <1>4, ReplyBounds
  <2> QED BY <1>5, <2>1 DEF P!Took, P!Stands
<1>7. ReplyTypes'
  <2>1. providerTaken' \in [P!Ids -> Replies \cup {P!NONE}]
    <3>1. providerTaken' = [i \in P!Ids |-> providerTaken'[i]] BY <1>1 DEF P!Held
    <3>2. \A i \in P!Ids : providerTaken'[i] \in Replies \cup {P!NONE} BY <1>4, <1>5
    <3> HIDE DEF P!Ids
    <3> QED BY <3>1, <3>2
  <2> QED BY <1>1, <1>2, <1>3, <2>1 DEF ReplyTypes
<1>8. ASSUME NEW i \in P!Took PROVE Standing1(providerTaken[i], calls[i], gave[i])'
  <2> DEFINE r == providerTaken[i]  s == providerTaken'[i]
  <2>1. Standing1(r, calls[i], gave[i]) BY DEF RepliesInv, Replying
  <2>2. s = [r EXCEPT !.hold = paused'] /\ r \in Replies BY <1>4
  <2>3. /\ s.watch = r.watch /\ s.waits = r.waits /\ s.streams = r.streams /\ s.after = r.after /\ s.hold = paused'
        /\ s.again = r.again /\ s.actor = r.actor
    BY <2>2 DEF Replies
  <2> QED BY <1>1, <2>1, <2>3 DEF Standing1, GivenOf
<1> QED BY <1>1, <1>6, <1>7, <1>8, AllMove

\* The calls of the replies that wait are made anew, with no word of an attempt before.
LEMMA AskedAgainKept ==
  ASSUME RepliesInv, P!AskedAgain \/ UNCHANGED <<providerTaken, calls>>,
         UNCHANGED <<mute, paused, providerAsked, gave, ends, providerOver>>,
         stands' \in 0 .. MaxStands, reading' \in 0 .. stands'
  PROVE RepliesInv'
<1>1. ReplyTypes BY DEF RepliesInv
<1>2. ASSUME UNCHANGED <<providerTaken, calls>> PROVE RepliesInv'
  <2>1. P!Took' = P!Took /\ ReplyTypes' BY <1>1, <1>2 DEF ReplyTypes, P!Took, P!Stands
  <2>2. \A i \in P!Took : Standing1(providerTaken[i], calls[i], gave[i])'
    BY <1>2 DEF RepliesInv, Replying, Standing1
  <2> QED BY <2>1, <2>2, AllMove
<1>3. ASSUME P!AskedAgain PROVE RepliesInv'
  <2> DEFINE r(i) == [providerTaken[i] EXCEPT !.waits = FALSE, !.watch = P!Watch, !.hold = paused]
             c(i) == P!Call("held", calls[i].serial)
             Waits(i) == P!Stands(i) /\ providerTaken[i].waits
  <2>1. /\ providerTaken' = [i \in P!Ids |-> IF Waits(i) THEN r(i) ELSE providerTaken[i]]
        /\ calls' = [i \in P!Ids |-> IF Waits(i) THEN c(i) ELSE calls[i]]
    BY <1>3 DEF P!AskedAgain
  <2>2. P!Watch \in Watches /\ P!Watch.text = <<>> /\ P!Watch.given = 0 BY SMT DEF P!Watch, Watches
  <2>3. ASSUME NEW i \in P!Took
        PROVE /\ i \in P!Ids /\ providerTaken[i] \in Replies /\ calls[i] \in CallForms
              /\ r(i) \in Replies /\ r(i).watch = P!Watch /\ ~r(i).waits /\ r(i).hold = paused
              /\ r(i).after = providerTaken[i].after /\ r(i).again = providerTaken[i].again
              /\ r(i).actor = providerTaken[i].actor
              /\ c(i) \in CallForms /\ c(i).pipe = <<>> /\ c(i).at = "held"
    <3>1. i \in P!Ids /\ providerTaken[i] \in Replies /\ calls[i] \in CallForms /\ paused \in BOOLEAN
      BY <1>1, ReplyTyped DEF ReplyTypes
    <3>2. /\ r(i) \in Replies /\ r(i).watch = P!Watch /\ ~r(i).waits /\ r(i).hold = paused
          /\ r(i).after = providerTaken[i].after /\ r(i).again = providerTaken[i].again
          /\ r(i).actor = providerTaken[i].actor
      BY <2>2, <3>1 DEF Replies
    <3>3. c(i) \in CallForms /\ c(i).pipe = <<>> /\ c(i).at = "held" BY <3>1, SMT DEF P!Call, CallForms
    <3> QED BY <3>1, <3>2, <3>3
  <2>4. \A i \in P!Ids : i \notin P!Took => ~Waits(i) BY DEF P!Took
  <2> HIDE DEF r, c, Waits
  <2>5. \A i \in P!Ids : providerTaken'[i] = (IF Waits(i) THEN r(i) ELSE providerTaken[i])
                         /\ calls'[i] = (IF Waits(i) THEN c(i) ELSE calls[i])
    BY <2>1
  <2>6. P!Took' = P!Took
    <3>1. ASSUME NEW i \in P!Took PROVE providerTaken'[i] # P!NONE BY <2>3, <2>5, ReplyBounds
    <3>2. ASSUME NEW i \in P!Ids, i \notin P!Took PROVE providerTaken'[i] = P!NONE
      BY <2>4, <2>5, <3>2 DEF P!Took, P!Stands
    <3> QED BY <3>1, <3>2 DEF P!Took, P!Stands
  <2>7. ReplyTypes'
    <3>1. ASSUME NEW i \in P!Ids
          PROVE (IF Waits(i) THEN r(i) ELSE providerTaken[i]) \in Replies \cup {P!NONE}
                /\ (IF Waits(i) THEN c(i) ELSE calls[i]) \in CallForms
      <4>1. providerTaken[i] \in Replies \cup {P!NONE} /\ calls[i] \in CallForms BY <1>1 DEF ReplyTypes
      <4> QED BY <2>3, <2>4, <4>1
    <3>2. providerTaken' \in [P!Ids -> Replies \cup {P!NONE}] /\ calls' \in [P!Ids -> CallForms]
      BY <2>1, <3>1
    <3> QED BY <1>1, <3>2 DEF ReplyTypes
  <2>8. ASSUME NEW i \in P!Took PROVE Standing1(providerTaken[i], calls[i], gave[i])'
    <3>1. Standing1(providerTaken[i], calls[i], gave[i]) BY DEF RepliesInv, Replying
    <3>2. CASE Waits(i)
      <4>1. providerTaken'[i] = r(i) /\ calls'[i] = c(i) /\ gave'[i] = gave[i] BY <2>3, <2>5, <3>2
      <4>2. OneAttempt(r(i).watch, c(i).pipe) /\ GoesOn(r(i).watch, c(i)) BY <2>2, <2>3, CallAnew
      <4>3. gave[i] = <<>>
        <5>1. GivenOf(providerTaken[i], gave[i]) /\ providerTaken[i].waits BY <3>1, <3>2 DEF Standing1, Waits
        <5>2. providerTaken[i].watch.given \in Nat BY <2>3 DEF Replies, Watches
        <5> QED BY <5>1, <5>2, SMT DEF GivenOf
      <4>4. GivenOf(r(i), gave[i]) BY <2>2, <2>3, <4>3, SMT DEF GivenOf
      <4> QED BY <2>3, <3>1, <4>1, <4>2, <4>4 DEF Standing1
    <3>3. CASE ~Waits(i)
      <4>1. providerTaken'[i] = providerTaken[i] /\ calls'[i] = calls[i] /\ gave'[i] = gave[i] BY <2>3, <2>5, <3>3
      <4> QED BY <3>1, <4>1 DEF Standing1
    <3> QED BY <3>2, <3>3
  <2> QED BY <2>6, <2>7, <2>8, AllMove
<1> QED BY <1>2, <1>3

\* A pause holds a call that waits, whichever stand or settings it waits for.
LEMMA StandKept == ASSUME RepliesInv, NEW word \in BOOLEAN, P!Stand(word) PROVE RepliesInv'
<1>1. stands \in 0 .. MaxStands /\ reading \in 0 .. stands BY DEF RepliesInv, ReplyTypes
<1>2. stands' \in 0 .. MaxStands /\ reading' \in 0 .. stands'
  BY <1>1, ReplyBounds, SMT DEF P!Stand
<1>3. P!AskedAgain \/ UNCHANGED <<providerTaken, calls>> BY DEF P!Stand
<1>4. UNCHANGED <<mute, paused, providerAsked, gave, ends, providerOver>> BY DEF P!Stand
<1> QED BY <1>2, <1>3, <1>4, AskedAgainKept

LEMMA RefreshedKept == ASSUME RepliesInv, P!Refreshed PROVE RepliesInv'
<1>1. stands \in 0 .. MaxStands /\ reading \in 0 .. stands BY DEF RepliesInv, ReplyTypes
<1>2. stands' \in 0 .. MaxStands /\ reading' \in 0 .. stands'
  BY <1>1, ReplyBounds, SMT DEF P!Refreshed
<1>3. P!AskedAgain \/ UNCHANGED <<providerTaken, calls>> BY DEF P!Refreshed
<1>4. UNCHANGED <<mute, paused, providerAsked, gave, ends, providerOver>> BY DEF P!Refreshed
<1> QED BY <1>2, <1>3, <1>4, AskedAgainKept

\* One call moves on, and what its reply read of it stays.
LEMMA CallMoves ==
  ASSUME RepliesInv, NEW id \in P!Ids, NEW c \in CallForms, calls' = [calls EXCEPT ![id] = c], P!OfEar' = P!OfEar,
         id \in P!Took => OneAttempt(providerTaken[id].watch, c.pipe) /\ GoesOn(providerTaken[id].watch, c)
  PROVE RepliesInv'
<1>1. UNCHANGED <<providerTaken, mute, paused, reading, providerAsked, stands, gave, ends, providerOver>>
  BY DEF P!OfEar
<1>2. ReplyTypes BY DEF RepliesInv
<1>3. P!Took' = P!Took /\ ReplyTypes' BY <1>1, <1>2 DEF ReplyTypes, P!Took, P!Stands
<1>4. ASSUME NEW i \in P!Took PROVE Standing1(providerTaken[i], calls[i], gave[i])'
  <2>1. i \in P!Ids /\ Standing1(providerTaken[i], calls[i], gave[i]) BY DEF RepliesInv, Replying, P!Took
  <2>2. CASE i = id
    <3>1. calls'[i] = c BY <1>2, <2>2 DEF ReplyTypes
    <3> QED BY <1>1, <2>1, <2>2, <3>1 DEF Standing1
  <2>3. CASE i # id
    <3>1. calls'[i] = calls[i] BY <1>2, <2>1, <2>3 DEF ReplyTypes
    <3> QED BY <1>1, <2>1, <3>1 DEF Standing1
  <2> QED BY <2>2, <2>3
<1> QED BY <1>1, <1>3, <1>4, AllMove

LEMMA WatchOfOne ==
  ASSUME RepliesInv, NEW id \in P!Took
  PROVE /\ OneAttempt(providerTaken[id].watch, calls[id].pipe) /\ GoesOn(providerTaken[id].watch, calls[id])
        /\ providerTaken[id].watch \in Watches
BY ReplyTyped DEF RepliesInv, Replying, Standing1

\* The call tells what its model wrote, that its attempt failed, and what it came to.
LEMMA TellsKept ==
  ASSUME RepliesInv, NEW id \in P!Ids, calls[id].at = "asked", NEW item \in PipeItems, NEW d \in CallForms,
         d.pipe = Append(calls[id].pipe, item), d.serial = calls[id].serial,
         \/ d.at = "asked" /\ item.kind = "wrote" /\ item.serial = calls[id].serial
         \/ d.at = "asleep" /\ item.kind = "retried"
         \/ d.at = "over" /\ item.kind = "came",
         calls' = [calls EXCEPT ![id] = d], P!OfEar' = P!OfEar
  PROVE RepliesInv'
<1>1. calls[id] \in CallForms BY DEF RepliesInv, ReplyTypes
<1>2. ASSUME id \in P!Took
      PROVE OneAttempt(providerTaken[id].watch, d.pipe) /\ GoesOn(providerTaken[id].watch, d)
  <2> DEFINE c == calls[id]  w == providerTaken[id].watch
  <2>1. w \in Watches /\ OneAttempt(w, c.pipe) /\ GoesOn(w, c) BY <1>2, WatchOfOne
  <2> HIDE DEF c, w
  <2>2. c \in CallForms /\ c.at = "asked" /\ d.pipe = Append(c.pipe, item) /\ d.serial = c.serial
        /\ (item.kind = "wrote" => item.serial = c.serial) BY <1>1 DEF c
  <2>3. \/ d.at = "asked" /\ item.kind = "wrote" /\ item.serial = c.serial
        \/ d.at = "asleep" /\ item.kind = "retried"
        \/ d.at = "over" /\ item.kind = "came"
    BY DEF c
  <2>4. OneAttempt(w, d.pipe) /\ GoesOn(w, d) BY <2>1, <2>2, <2>3, TellsMore
  <2> QED BY <2>4 DEF w
<1> QED BY <1>2, CallMoves

\* A call of another place, attempt and channel is a call.
LEMMA CallForm ==
  ASSUME NEW c \in CallForms, NEW at \in {"asked", "asleep", "held", "over"}, NEW serial \in Nat, NEW wr \in Nat,
         NEW fails \in Nat, NEW p \in Seq(PipeItems)
  PROVE /\ [c EXCEPT !.wrote = wr, !.pipe = p] \in CallForms
        /\ [c EXCEPT !.at = at, !.fails = fails, !.pipe = p] \in CallForms
        /\ [c EXCEPT !.at = at, !.pipe = p] \in CallForms
        /\ [c EXCEPT !.at = at, !.serial = serial, !.wrote = wr] \in CallForms
BY DEF CallForms

LEMMA WritesKept == ASSUME RepliesInv, NEW id \in P!Ids, P!Writes(id) PROVE RepliesInv'
<1> DEFINE item == [kind |-> "wrote", serial |-> calls[id].serial]
           d == [calls[id] EXCEPT !.wrote = @ + 1, !.pipe = Append(@, item)]
<1>1. calls[id] \in CallForms /\ calls \in [P!Ids -> CallForms] BY DEF RepliesInv, ReplyTypes
<1>2. item \in PipeItems BY <1>1 DEF CallForms, PipeItems
<1>3. d \in CallForms
  <2>1. calls[id].wrote + 1 \in Nat /\ Append(calls[id].pipe, item) \in Seq(PipeItems) BY <1>1, <1>2, SMT DEF CallForms
  <2> HIDE DEF item
  <2> QED BY <1>1, <2>1, CallForm
<1>4. d.pipe = Append(calls[id].pipe, item) /\ d.serial = calls[id].serial /\ d.at = calls[id].at BY <1>1 DEF CallForms
<1>5. calls' = [calls EXCEPT ![id] = d] /\ P!OfEar' = P!OfEar /\ calls[id].at = "asked"
  BY <1>1 DEF P!Writes, P!Tells, CallForms
<1>6. item.kind = "wrote" /\ item.serial = calls[id].serial OBVIOUS
<1> HIDE DEF item, d
<1> QED BY <1>2, <1>3, <1>4, <1>5, <1>6, TellsKept

LEMMA PassesKept == ASSUME RepliesInv, NEW id \in P!Ids, P!Passes(id) PROVE RepliesInv'
<1> DEFINE item == [kind |-> "retried"]
           d == [calls[id] EXCEPT !.at = "asleep", !.fails = @ + 1, !.pipe = Append(@, item)]
<1>1. calls[id] \in CallForms /\ calls \in [P!Ids -> CallForms] BY DEF RepliesInv, ReplyTypes
<1>2. item \in PipeItems BY DEF PipeItems
<1>3. d \in CallForms
  <2>1. calls[id].fails + 1 \in Nat /\ Append(calls[id].pipe, item) \in Seq(PipeItems) BY <1>1, <1>2, SMT DEF CallForms
  <2> HIDE DEF item
  <2> QED BY <1>1, <2>1, CallForm
<1>4. d.pipe = Append(calls[id].pipe, item) /\ d.serial = calls[id].serial /\ d.at = "asleep" BY <1>1 DEF CallForms
<1>5. calls' = [calls EXCEPT ![id] = d] /\ P!OfEar' = P!OfEar /\ calls[id].at = "asked"
  BY <1>1 DEF P!Passes, P!Tells, CallForms
<1>6. item.kind = "retried" OBVIOUS
<1> HIDE DEF item, d
<1> QED BY <1>2, <1>3, <1>4, <1>5, <1>6, TellsKept

LEMMA AnswersKept == ASSUME RepliesInv, NEW id \in P!Ids, P!Answers(id) PROVE RepliesInv'
<1>1. calls[id] \in CallForms /\ calls \in [P!Ids -> CallForms] BY DEF RepliesInv, ReplyTypes
<1>2. PICK got \in P!Comings(id) :
        calls' = [calls EXCEPT ![id].at = "over", ![id].pipe = Append(calls[id].pipe, [kind |-> "came", got |-> got])]
  BY DEF P!Answers, P!Tells
<1>3. got \in Gots
  <2>1. calls[id].wrote \in Nat /\ calls[id].serial \in Nat BY <1>1 DEF CallForms
  <2>2. [n \in 1 .. calls[id].wrote |-> calls[id].serial] \in Seq(Nat) BY <2>1, SMT
  <2>3. <<0>> \in Seq(Nat) /\ <<>> \in Seq(Nat) BY SMT
  <2> DEFINE w == [n \in 1 .. calls[id].wrote |-> calls[id].serial]
  <2>4. \/ got = [turned |-> TRUE, word |-> w, hard |-> FALSE]
        \/ got = [turned |-> TRUE, word |-> <<0>>, hard |-> FALSE]
        \/ got \in [turned : {FALSE}, word : {<<>>}, hard : BOOLEAN]
    BY DEF P!Comings
  <2>5. w \in Seq(Nat) BY <2>2
  <2> HIDE DEF w
  <2>6. [turned |-> TRUE, word |-> w, hard |-> FALSE] \in Gots BY <2>5 DEF Gots
  <2>7. [turned |-> TRUE, word |-> <<0>>, hard |-> FALSE] \in Gots BY <2>3 DEF Gots
  <2>8. [turned : {FALSE}, word : {<<>>}, hard : BOOLEAN] \subseteq Gots BY <2>3 DEF Gots
  <2> QED BY <2>4, <2>6, <2>7, <2>8
<1> DEFINE item == [kind |-> "came", got |-> got]
           d == [calls[id] EXCEPT !.at = "over", !.pipe = Append(@, item)]
<1>4. item \in PipeItems BY <1>3 DEF PipeItems
<1>5. d \in CallForms
  <2>1. Append(calls[id].pipe, item) \in Seq(PipeItems) BY <1>1, <1>4, SMT DEF CallForms
  <2> HIDE DEF item
  <2> QED BY <1>1, <2>1, CallForm
<1>6. d.pipe = Append(calls[id].pipe, item) /\ d.serial = calls[id].serial /\ d.at = "over" BY <1>1 DEF CallForms
<1>7. calls' = [calls EXCEPT ![id] = d] /\ P!OfEar' = P!OfEar /\ calls[id].at = "asked"
  BY <1>1, <1>2 DEF P!Answers, CallForms
<1>8. item.kind = "came" OBVIOUS
<1> HIDE DEF item, d
<1> QED BY <1>4, <1>5, <1>6, <1>7, <1>8, TellsKept

\* The wait before the next attempt passes, and the attempt begins.
LEMMA AttemptKept == ASSUME RepliesInv, NEW id \in P!Ids, P!Sleeps(id) \/ P!Begins(id) PROVE RepliesInv'
<1>1. calls[id] \in CallForms /\ calls \in [P!Ids -> CallForms] BY DEF RepliesInv, ReplyTypes
<1>2. PICK d \in CallForms : /\ calls' = [calls EXCEPT ![id] = d] /\ d.pipe = calls[id].pipe
                             /\ \/ calls[id].at = "asleep" /\ d.at = "held"
                                \/ calls[id].at = "held" /\ d.at = "asked"
  <2>1. CASE P!Sleeps(id)
    <3> DEFINE d == [calls[id] EXCEPT !.at = "held"]
    <3>1. d \in CallForms /\ d.pipe = calls[id].pipe /\ d.at = "held" BY <1>1, SMT DEF CallForms
    <3>2. calls' = [calls EXCEPT ![id] = d] /\ calls[id].at = "asleep" BY <1>1, <2>1 DEF P!Sleeps
    <3> HIDE DEF d
    <3> QED BY <3>1, <3>2
  <2>2. CASE P!Begins(id)
    <3> DEFINE d == [calls[id] EXCEPT !.at = "asked", !.serial = @ + 1, !.wrote = 0]
    <3>3. calls[id].serial + 1 \in Nat /\ 0 \in Nat BY <1>1, SMT DEF CallForms
    <3>4. d \in CallForms
      <4> DEFINE serial == calls[id].serial + 1
      <4>1. serial \in Nat BY <3>3
      <4> HIDE DEF serial
      <4>2. [calls[id] EXCEPT !.at = "asked", !.serial = serial, !.wrote = 0] \in CallForms
        BY <1>1, <3>3, <4>1 DEF CallForms
      <4> QED BY <4>2 DEF serial, d
    <3>1. d \in CallForms /\ d.pipe = calls[id].pipe /\ d.at = "asked" BY <1>1, <3>4 DEF CallForms
    <3>2. calls' = [calls EXCEPT ![id] = d] /\ calls[id].at = "held" BY <1>1, <2>2 DEF P!Begins, CallForms
    <3> HIDE DEF d
    <3> QED BY <3>1, <3>2
  <2> QED BY <2>1, <2>2
<1>3. P!OfEar' = P!OfEar BY DEF P!Sleeps, P!Begins
<1>4. ASSUME id \in P!Took
      PROVE OneAttempt(providerTaken[id].watch, d.pipe) /\ GoesOn(providerTaken[id].watch, d)
  <2>1. /\ providerTaken[id].watch \in Watches /\ OneAttempt(providerTaken[id].watch, calls[id].pipe)
        /\ GoesOn(providerTaken[id].watch, calls[id])
    BY <1>4, WatchOfOne
  <2>2. GoesOn(providerTaken[id].watch, d) BY <1>1, <1>2, <2>1, NextAttempt
  <2> QED BY <1>2, <2>1, <2>2
<1> QED BY <1>2, <1>3, <1>4, CallMoves

\* The start of a word stays when more of it is written, and a start grows by the part that follows it.
LEMMA StartStays ==
  ASSUME NEW t \in Seq(Nat), NEW x \in Nat, NEW n \in 0 .. Len(t)
  PROVE SubSeq(Append(t, x), 1, n) = SubSeq(t, 1, n)
<1>1. Append(t, x) \in Seq(Nat) /\ Len(Append(t, x)) = Len(t) + 1 BY SMT
<1>2. Len(SubSeq(Append(t, x), 1, n)) = n /\ Len(SubSeq(t, 1, n)) = n BY <1>1, SMT
<1>3. \A i \in 1 .. n : SubSeq(Append(t, x), 1, n)[i] = SubSeq(t, 1, n)[i] BY <1>1, SMT
<1>4. SubSeq(Append(t, x), 1, n) \in Seq(Nat) /\ SubSeq(t, 1, n) \in Seq(Nat) BY <1>1, SMT
<1> QED BY <1>2, <1>3, <1>4, SeqEqual

LEMMA StartGrows ==
  ASSUME NEW t \in Seq(Nat), NEW m \in Nat, NEW n \in 0 .. Len(t), m <= n
  PROVE SubSeq(t, 1, m) \o SubSeq(t, m + 1, n) = SubSeq(t, 1, n)
<1> DEFINE a == SubSeq(t, 1, m)  b == SubSeq(t, m + 1, n)  s == SubSeq(t, 1, n)
<1>1. /\ a \in Seq(Nat) /\ Len(a) = m /\ \A i \in 1 .. m : a[i] = t[i]
      /\ b \in Seq(Nat) /\ Len(b) = n - m /\ \A i \in 1 .. n - m : b[i] = t[m + i]
      /\ s \in Seq(Nat) /\ Len(s) = n /\ \A i \in 1 .. n : s[i] = t[i]
  BY SMT
<1> HIDE DEF a, b, s
<1>2. a \o b \in Seq(Nat) /\ Len(a \o b) = n
  <2>1. a \o b \in Seq(Nat) /\ Len(a \o b) = Len(a) + Len(b) BY <1>1, ConcatProperties
  <2>2. m + (n - m) = n BY SMT
  <2> QED BY <1>1, <2>1, <2>2
<1>3. ASSUME NEW i \in 1 .. n PROVE (a \o b)[i] = t[i]
  <2>1. i \in 1 .. Len(a) + Len(b) BY <1>1, SMT
  <2>2. (a \o b)[i] = IF i <= Len(a) THEN a[i] ELSE b[i - Len(a)] BY <1>1, <2>1, ConcatProperties
  <2>3. CASE i <= m
    <3>1. i \in 1 .. m BY <2>3, SMT
    <3> QED BY <1>1, <2>2, <2>3, <3>1
  <2>4. CASE ~(i <= m)
    <3>1. i - m \in 1 .. n - m /\ m + (i - m) = i BY <2>4, SMT
    <3>2. b[i - m] = t[m + (i - m)] BY <1>1, <3>1
    <3> QED BY <1>1, <2>2, <2>4, <3>1, <3>2
  <2> QED BY <2>3, <2>4
<1>4. a \o b = s BY <1>1, <1>2, <1>3, SeqEqual
<1> QED BY <1>4 DEF a, b, s

LEMMA StartOfItself ==
  ASSUME NEW g \in Seq(Nat) PROVE P!IsPrefix(g, g)
BY SMT DEF P!IsPrefix

\* A word that no reply was given anything of.
LEMMA NothingRan ==
  ASSUME NEW r \in Replies, NEW g, GivenOf(r, g), r.watch.text = <<>> PROVE g = <<>>
<1>1. r.watch.given \in Nat BY DEF Replies, Watches
<1> QED BY <1>1, SMT DEF GivenOf

\* A reply that stands is heard of, with what the Kernel was given of it.
LEMMA ReplyRan ==
  ASSUME RepliesInv, NEW id \in P!Took
  PROVE /\ gave[id] = P!Ran(id) /\ gave[id] \in Seq(Nat) /\ GivenOf(providerTaken[id], gave[id])
        /\ providerTaken[id].watch.given \in 0 .. Len(providerTaken[id].watch.text)
        /\ providerTaken[id].watch.text \in Seq(Nat)
<1>1. Standing1(providerTaken[id], calls[id], gave[id]) BY DEF RepliesInv, Replying
<1>2. providerTaken[id].watch \in Watches /\ gave[id] \in Seq(Nat) BY ReplyTyped DEF RepliesInv
<1>3. providerTaken[id].watch.given \in 0 .. Len(providerTaken[id].watch.text)
  BY <1>1, <1>2, SMT DEF Standing1, GivenOf, Watches
<1> QED BY <1>1, <1>2, <1>3 DEF Standing1, GivenOf, P!Ran, P!RanOf, Watches

\* The Kernel ran a part, or raised, which ends the word with what ran.
LEMMA RanPartKept == ASSUME RepliesInv, NEW id \in P!Ids, NEW raised \in BOOLEAN, P!RanPart(id, raised) PROVE RepliesInv'
<1>1. UNCHANGED <<paused, providerAsked, stands, reading, gave>> BY DEF P!RanPart
<1>2. CASE raised /\ P!Stands(id) /\ P!Ran(id) # <<>>
  <2>1. id \in P!Took BY <1>2 DEF P!Took
  <2>2. P!Turned(id, P!Ran(id)) BY <1>2 DEF P!RanPart
  <2>3. gave[id] = P!Ran(id) /\ gave[id] \in Seq(Nat) BY <2>1, ReplyRan
  <2>4. P!Ran(id) \in Seq(Nat) /\ P!IsPrefix(gave[id], P!Ran(id)) BY <2>3, StartOfItself
  <2> QED BY <1>1, <2>1, <2>2, <2>4, TurnEnds
<1>3. CASE ~(raised /\ P!Stands(id) /\ P!Ran(id) # <<>>)
  <2>1. UNCHANGED <<providerTaken, calls, ends, mute, providerOver>> BY <1>3 DEF P!RanPart
  <2>2. P!Took' = P!Took /\ ReplyTypes' BY <1>1, <2>1 DEF RepliesInv, ReplyTypes, P!Took, P!Stands
  <2>3. \A i \in P!Took : Standing1(providerTaken[i], calls[i], gave[i])'
    BY <1>1, <2>1 DEF RepliesInv, Replying, Standing1
  <2> QED BY <1>1, <2>1, <2>2, <2>3, AllMove
<1> QED BY <1>2, <1>3

\* A reply whose call is told more, with the word that its watch holds now and what the Kernel is given of it.
LEMMA WatchKept ==
  ASSUME RepliesInv, NEW id \in P!Took, calls[id].pipe # <<>>, P!Item(id).kind # "came",
         NEW waits \in BOOLEAN, NEW v \in Watches, NEW g \in Seq(Nat),
         providerTaken' = [providerTaken EXCEPT ![id] = [providerTaken[id] EXCEPT !.waits = waits, !.watch = v]],
         calls' = P!Read(id), gave' = [gave EXCEPT ![id] = g],
         UNCHANGED <<mute, paused, providerAsked, ends, providerOver, stands, reading>>,
         \/ v.text = <<>>
         \/ P!Item(id).kind = "wrote" /\ v.text = Append(providerTaken[id].watch.text, P!Item(id).serial),
         v.given <= Len(v.text), g = SubSeq(v.text, 1, v.given),
         waits \/ ~providerTaken[id].streams => v.text = <<>>
  PROVE RepliesInv'
<1> DEFINE r == [providerTaken[id] EXCEPT !.waits = waits, !.watch = v]
           c == calls[id]
           d == [calls[id] EXCEPT !.pipe = Tail(@)]
           w == providerTaken[id].watch
<1>1. /\ id \in P!Ids /\ providerTaken[id] \in Replies /\ c \in CallForms /\ calls \in [P!Ids -> CallForms]
      /\ c.pipe \in Seq(PipeItems)
  BY ReplyTyped DEF RepliesInv, ReplyTypes
<1>2. r \in Replies /\ r.watch = v /\ r.waits = waits /\ r.streams = providerTaken[id].streams
      /\ r.hold = providerTaken[id].hold /\ r.after = providerTaken[id].after /\ r.again = providerTaken[id].again
      /\ r.actor = providerTaken[id].actor
  BY <1>1 DEF Replies
<1>3. d \in CallForms /\ d.pipe = Tail(c.pipe) /\ d.at = c.at /\ d.serial = c.serial
  <2>1. Tail(c.pipe) \in Seq(PipeItems) BY <1>1, PipeTail
  <2> DEFINE q == Tail(c.pipe)
  <2>2. q \in Seq(PipeItems) BY <2>1
  <2> HIDE DEF q
  <2>3. /\ [c EXCEPT !.pipe = q] \in CallForms /\ [c EXCEPT !.pipe = q].pipe = q
        /\ [c EXCEPT !.pipe = q].at = c.at /\ [c EXCEPT !.pipe = q].serial = c.serial
    BY <1>1, <2>2 DEF CallForms
  <2> QED BY <2>3 DEF q
<1>4. providerTaken' = [providerTaken EXCEPT ![id] = r] /\ calls' = [calls EXCEPT ![id] = d]
  BY <1>1 DEF P!Read
<1>5. w \in Watches /\ OneAttempt(w, c.pipe) /\ GoesOn(w, c) BY WatchOfOne
<1>6. P!Item(id) = Head(c.pipe) BY DEF P!Item
<1> HIDE DEF r, c, d, w
<1>7. OneAttempt(v, d.pipe) /\ GoesOn(v, d)
  <2>1. c.pipe # <<>> /\ Head(c.pipe).kind # "came" BY <1>6 DEF c
  <2>2. CASE v.text = <<>>
    BY <1>1, <1>3, <1>5, <2>1, <2>2, ReadsAway
  <2>3. CASE Head(c.pipe).kind = "wrote" /\ v.text = Append(w.text, Head(c.pipe).serial)
    BY <1>1, <1>3, <1>5, <2>1, <2>3, ReadsWrote
  <2> QED BY <1>6, <2>2, <2>3 DEF w
<1>8. GivenOf(r, g) BY <1>2 DEF GivenOf
<1>9. Standing1(r, d, g)
  <2>1. Standing1(providerTaken[id], calls[id], gave[id]) BY DEF RepliesInv, Replying
  <2> QED BY <1>2, <1>7, <1>8, <2>1 DEF Standing1
<1>10. r \in Replies /\ d \in CallForms BY <1>2, <1>3
<1> QED BY <1>4, <1>9, <1>10, OneMoves, Zenon

\* An attempt failed: a reply of which nothing ran waits for the next, and another ends with what ran.
LEMMA RetriedKept == ASSUME RepliesInv, NEW id \in P!Ids, P!Retried(id) PROVE RepliesInv'
<1>1. id \in P!Took /\ calls[id].pipe # <<>> /\ P!Item(id).kind = "retried" BY DEF P!Retried, P!Comes, P!Took
<1>2. UNCHANGED <<paused, providerAsked, stands, reading, gave>> BY DEF P!Retried
<1>3. gave[id] = P!Ran(id) /\ gave[id] \in Seq(Nat) BY <1>1, ReplyRan
<1>4. CASE P!Ran(id) # <<>>
  <2>1. P!Turned(id, P!Ran(id)) BY <1>4 DEF P!Retried
  <2>2. P!Ran(id) \in Seq(Nat) /\ P!IsPrefix(gave[id], P!Ran(id)) BY <1>3, StartOfItself
  <2> QED BY <1>1, <1>2, <2>1, <2>2, TurnEnds
<1>5. CASE P!Ran(id) = <<>>
  <2>1. P!Watch \in Watches /\ P!Watch.text = <<>> /\ P!Watch.given = 0 BY SMT DEF P!Watch, Watches
  <2>2. /\ providerTaken' = [providerTaken EXCEPT ![id].waits = TRUE, ![id].watch = P!Watch]
        /\ calls' = P!Read(id) /\ UNCHANGED <<ends, mute, providerOver>>
    BY <1>5 DEF P!Retried
  <2>3. providerTaken' = [providerTaken EXCEPT ![id] = [providerTaken[id] EXCEPT !.waits = TRUE, !.watch = P!Watch]]
    BY <1>1, <2>2 DEF RepliesInv, ReplyTypes, P!Took
  <2>4. gave' = [gave EXCEPT ![id] = <<>>] BY <1>1, <1>2, <1>3, <1>5 DEF RepliesInv, ReplyTypes
  <2>5. P!Watch.given <= Len(P!Watch.text) /\ <<>> = SubSeq(P!Watch.text, 1, P!Watch.given) /\ <<>> \in Seq(Nat)
    BY <2>1, SMT
  <2> HIDE DEF P!Watch
  <2> QED BY <1>1, <1>2, <2>1, <2>2, <2>3, <2>4, <2>5, WatchKept
<1> QED BY <1>4, <1>5

\* The model gave its turn or none: the reply ends with it, with what ran of it, or with a refusal when nothing ran.
LEMMA CameKept == ASSUME RepliesInv, NEW id \in P!Ids, P!Came(id) PROVE RepliesInv'
<1>1. id \in P!Took /\ calls[id].pipe # <<>> /\ P!Item(id).kind = "came" BY DEF P!Came, P!Comes, P!Took
<1>2. UNCHANGED <<providerAsked, stands, reading, gave>> BY DEF P!Came
<1>3. gave[id] = P!Ran(id) /\ gave[id] \in Seq(Nat) BY <1>1, ReplyRan
<1> DEFINE got == P!Item(id).got
<1>4. got \in Gots
  <2>1. P!Item(id) \in PipeItems
    <3>1. calls[id].pipe \in Seq(PipeItems) BY <1>1, ReplyTyped DEF RepliesInv
    <3> QED BY <1>1, <3>1, PipeTail DEF P!Item
  <2> QED BY <1>1, <2>1 DEF PipeItems
<1>5. \/ P!Keeps(id, got) /\ IF got.turned THEN P!Turned(id, got.word) /\ UNCHANGED paused ELSE P!Refused(id, got.hard)
      \/ P!Ran(id) # <<>> /\ P!Turned(id, P!Ran(id)) /\ UNCHANGED paused
  BY DEF P!Came
<1>6. got.word \in Seq(Nat) /\ got.hard \in BOOLEAN BY <1>4 DEF Gots
<1> HIDE DEF got
<1>7. CASE P!Keeps(id, got) /\ got.turned /\ P!Turned(id, got.word) /\ UNCHANGED paused
  <2>1. gave[id] # <<>> => P!IsPrefix(gave[id], got.word) BY <1>3, <1>7 DEF P!Keeps
  <2> QED BY <1>1, <1>2, <1>6, <1>7, <2>1, TurnEnds
<1>8. CASE P!Keeps(id, got) /\ ~got.turned /\ P!Refused(id, got.hard)
  <2>1. gave[id] = <<>> BY <1>3, <1>8 DEF P!Keeps
  <2> QED BY <1>1, <1>2, <1>6, <1>8, <2>1, RefusalEnds
<1>9. CASE P!Turned(id, P!Ran(id)) /\ UNCHANGED paused
  <2>1. P!Ran(id) \in Seq(Nat) /\ P!IsPrefix(gave[id], P!Ran(id)) BY <1>3, StartOfItself
  <2> QED BY <1>1, <1>2, <1>9, <2>1, TurnEnds
<1> QED BY <1>5, <1>7, <1>8, <1>9

\* What a model wrote is read, and parts of it are given, held or stopped.
LEMMA WroteKept == ASSUME RepliesInv, NEW id \in P!Ids, P!Wrote(id) PROVE RepliesInv'
<1> DEFINE x == P!Item(id).serial  w == providerTaken[id].watch
           v == [w EXCEPT !.text = Append(@, x)]
<1>1. id \in P!Took /\ calls[id].pipe # <<>> /\ P!Item(id).kind = "wrote" BY DEF P!Wrote, P!Comes, P!Took
<1>2. UNCHANGED <<paused, providerAsked, stands, reading>> BY DEF P!Wrote
<1>3. /\ gave[id] = P!Ran(id) /\ gave[id] \in Seq(Nat) /\ GivenOf(providerTaken[id], gave[id])
      /\ w.given \in 0 .. Len(w.text) /\ w.text \in Seq(Nat) /\ w.given \in Nat
  BY <1>1, ReplyRan, SMT
<1>4. w \in Watches BY <1>1, WatchOfOne
<1>5. x \in Nat
  <2>1. P!Item(id) \in PipeItems
    <3>1. calls[id].pipe \in Seq(PipeItems) BY <1>1, ReplyTyped DEF RepliesInv
    <3> QED BY <1>1, <3>1, PipeTail DEF P!Item
  <2> QED BY <1>1, <2>1 DEF PipeItems
<1>6. providerTaken \in [P!Ids -> Replies \cup {P!NONE}] /\ gave \in [P!Ids -> Seq(Nat)] BY DEF RepliesInv, ReplyTypes
<1>7. providerTaken[id] \in Replies BY <1>1, ReplyTyped DEF RepliesInv
<1>8. gave[id] = SubSeq(w.text, 1, w.given) BY <1>3 DEF GivenOf
<1>9. CASE ~providerTaken[id].streams
  <2>1. P!Watch \in Watches /\ P!Watch.text = <<>> /\ P!Watch.given = 0 BY SMT DEF P!Watch, Watches
  <2>2. /\ providerTaken' = [providerTaken EXCEPT ![id].waits = FALSE, ![id].watch = P!Watch]
        /\ calls' = P!Read(id) /\ UNCHANGED <<ends, mute, providerOver, gave>>
    BY <1>9 DEF P!Wrote
  <2>3. providerTaken' = [providerTaken EXCEPT ![id] = [providerTaken[id] EXCEPT !.waits = FALSE, !.watch = P!Watch]]
    BY <1>6, <2>2
  <2>4. gave[id] = <<>>
    BY <1>3, <1>7, <1>9, NothingRan DEF GivenOf
  <2>5. gave' = [gave EXCEPT ![id] = <<>>] BY <1>6, <2>2, <2>4
  <2>6. P!Watch.given <= Len(P!Watch.text) /\ <<>> = SubSeq(P!Watch.text, 1, P!Watch.given) /\ <<>> \in Seq(Nat)
    BY <2>1, SMT
  <2> HIDE DEF P!Watch
  <2> QED BY <1>1, <1>2, <2>1, <2>2, <2>3, <2>5, <2>6, WatchKept
<1>10. CASE providerTaken[id].streams
  <2>1. v.text = Append(w.text, x) /\ v.given = w.given /\ v.whole = w.whole /\ v \in Watches
    <3>1. Append(w.text, x) \in Seq(Nat) BY <1>3, <1>5, SMT
    <3> QED BY <1>4, <3>1 DEF Watches
  <2>2. v.text \in Seq(Nat) /\ Len(v.text) = Len(w.text) + 1 /\ Len(w.text) \in Nat BY <1>3, <1>5, <2>1, SMT
  <2>3. SubSeq(v.text, 1, w.given) = gave[id] BY <1>3, <1>5, <1>8, <2>1, StartStays
  <2>4. \/ /\ providerTaken' = [providerTaken EXCEPT ![id].waits = FALSE, ![id].watch = v] /\ calls' = P!Read(id)
           /\ UNCHANGED <<ends, mute, providerOver, gave>>
        \/ \E n \in P!Whole(v.text) : P!Gives(id, v, n)
        \/ \E line \in 1 .. Len(v.text) - 1 : P!Stops(id, v, line)
    BY <1>10 DEF P!Wrote
  <2> HIDE DEF v
  <2>5. ASSUME NEW u \in Watches, NEW g \in Seq(Nat), u.text = v.text, u.given <= Len(u.text),
               g = SubSeq(u.text, 1, u.given),
               providerTaken' = [providerTaken EXCEPT ![id].waits = FALSE, ![id].watch = u], calls' = P!Read(id),
               gave' = [gave EXCEPT ![id] = g], UNCHANGED <<ends, mute, providerOver>>
        PROVE RepliesInv'
    <3>1. providerTaken' = [providerTaken EXCEPT ![id] = [providerTaken[id] EXCEPT !.waits = FALSE, !.watch = u]]
      BY <1>6, <2>5
    <3>2. u.text = Append(providerTaken[id].watch.text, P!Item(id).serial) BY <2>1, <2>5
    <3> QED BY <1>1, <1>2, <1>10, <2>5, <3>1, <3>2, WatchKept
  <2>6. CASE /\ providerTaken' = [providerTaken EXCEPT ![id].waits = FALSE, ![id].watch = v] /\ calls' = P!Read(id)
             /\ UNCHANGED <<ends, mute, providerOver, gave>>
    <3>1. gave' = [gave EXCEPT ![id] = gave[id]] BY <1>6, <2>6
    <3>2. v.given <= Len(v.text) BY <1>3, <2>1, <2>2, SMT
    <3> QED BY <1>3, <2>1, <2>3, <2>5, <2>6, <3>1, <3>2
  <2>7. ASSUME NEW n \in P!Whole(v.text), P!Gives(id, v, n) PROVE RepliesInv'
    <3>1. n \in Nat /\ n \in 0 .. Len(v.text) BY <2>2, <2>7, SMT DEF P!Whole
    <3> DEFINE gives == n > v.given /\ ~v.whole /\ ~paused
               u == IF gives THEN [v EXCEPT !.given = n]
                    ELSE IF n > v.given /\ ~v.whole /\ v.given = 0 THEN [v EXCEPT !.whole = TRUE] ELSE v
               g == SubSeq(u.text, 1, u.given)
    <3>2. /\ providerTaken' = [providerTaken EXCEPT ![id].waits = FALSE, ![id].watch = u]
          /\ calls' = P!Read(id) /\ UNCHANGED <<ends, mute, providerOver>>
          /\ gave' = IF gives THEN [gave EXCEPT ![id] = @ \o P!PartTo(v, n)] ELSE gave
      BY <2>7 DEF P!Gives
    <3>3. /\ u \in Watches /\ u.text = v.text /\ u.given = IF gives THEN n ELSE v.given
      <4>1. [v EXCEPT !.given = n] \in Watches /\ [v EXCEPT !.whole = TRUE] \in Watches
            /\ [v EXCEPT !.given = n].text = v.text /\ [v EXCEPT !.whole = TRUE].text = v.text
            /\ [v EXCEPT !.given = n].given = n /\ [v EXCEPT !.whole = TRUE].given = v.given
        BY <2>1, <3>1 DEF Watches
      <4> QED BY <2>1, <4>1
    <3> HIDE DEF u, g
    <3>4. u.given <= Len(u.text) BY <1>3, <2>1, <2>2, <3>1, <3>3, SMT
    <3>5. g \in Seq(Nat) /\ gave' = [gave EXCEPT ![id] = g]
      <4>1. CASE gives
        <5>1. g = SubSeq(v.text, 1, n) BY <3>3, <4>1 DEF g
        <5>2. gave[id] \o P!PartTo(v, n) = g
          <6>1. w.given <= n /\ w.given \in Nat BY <1>3, <2>1, <3>1, <4>1, SMT
          <6>2. SubSeq(v.text, 1, w.given) \o SubSeq(v.text, w.given + 1, n) = SubSeq(v.text, 1, n)
            BY <2>2, <3>1, <6>1, StartGrows
          <6> QED BY <2>1, <2>3, <5>1, <6>2 DEF P!PartTo
        <5>3. g \in Seq(Nat) BY <2>2, <3>1, <5>1, SMT
        <5> QED BY <1>6, <3>2, <4>1, <5>2, <5>3
      <4>2. CASE ~gives
        <5>1. g = gave[id] BY <2>1, <2>3, <3>3, <4>2 DEF g
        <5> QED BY <1>3, <1>6, <3>2, <4>2, <5>1
      <4> QED BY <4>1, <4>2
    <3>6. g = SubSeq(u.text, 1, u.given) BY DEF g
    <3> HIDE DEF gives
    <3> QED BY <2>5, <3>2, <3>3, <3>4, <3>5, <3>6
  <2>8. ASSUME NEW line \in 1 .. Len(v.text) - 1, P!Stops(id, v, line) PROVE RepliesInv'
    <3> DEFINE word == IF v.given > 0 THEN P!RanOf(v) ELSE SubSeq(v.text, 1, line)
    <3>1. P!Turned(id, word) /\ UNCHANGED gave BY <2>8 DEF P!Stops
    <3>2. P!RanOf(v) = gave[id] BY <2>1, <2>3 DEF P!RanOf
    <3>3. SubSeq(v.text, 1, line) \in Seq(Nat) BY <2>2, <2>8, SMT
    <3>4. ~(v.given > 0) => gave[id] = <<>>
      <4>1. ~(v.given > 0) => w.given = 0 BY <1>3, <2>1, SMT
      <4>2. SubSeq(w.text, 1, 0) = <<>> BY <1>3, SMT
      <4> QED BY <1>8, <4>1, <4>2
    <3>5. word \in Seq(Nat) /\ (gave[id] # <<>> => P!IsPrefix(gave[id], word))
      <4>1. CASE v.given > 0 BY <1>3, <3>2, <4>1, StartOfItself
      <4>2. CASE ~(v.given > 0) BY <3>3, <3>4, <4>2
      <4> QED BY <4>1, <4>2
    <3> HIDE DEF word
    <3> QED BY <1>1, <1>2, <3>1, <3>5, TurnEnds
  <2> QED BY <2>4, <2>6, <2>7, <2>8
<1> QED BY <1>7, <1>9, <1>10 DEF Replies

LEMMA RepliesNext == RepliesInv /\ [P!Next]_ofProvider => RepliesInv'
<1> SUFFICES ASSUME RepliesInv, [P!Next]_ofProvider PROVE RepliesInv'
  OBVIOUS
<1>1. CASE UNCHANGED ofProvider
  BY <1>1 DEF ofProvider, RepliesInv, ReplyTypes, Replying, Standing1, EndedSo, P!Took, P!Stands, P!TurnHoldsWhatRan,
              P!RowPauses, P!Ids
<1>2. CASE P!Reply BY <1>2, ReplyKept
<1>3. CASE P!Pause BY <1>3, PauseHeard
<1>4. CASE P!Refreshed BY <1>4, RefreshedKept
<1>5. ASSUME NEW word \in BOOLEAN, P!Stand(word) PROVE RepliesInv' BY <1>5, StandKept
<1>6. ASSUME NEW id \in P!Ids, P!Controlled(id) PROVE RepliesInv' BY <1>6, ControlledKept
<1>7. ASSUME NEW id \in P!Ids, NEW raised \in BOOLEAN, P!RanPart(id, raised) PROVE RepliesInv' BY <1>7, RanPartKept
<1>8. ASSUME NEW id \in P!Ids, P!Work(id) PROVE RepliesInv' BY <1>8, WroteKept, RetriedKept, CameKept DEF P!Work
<1>9. ASSUME NEW id \in P!Ids, P!Model(id) PROVE RepliesInv'
  BY <1>9, WritesKept, PassesKept, AnswersKept, AttemptKept DEF P!Model
<1> QED BY <1>1, <1>2, <1>3, <1>4, <1>5, <1>6, <1>7, <1>8, <1>9 DEF P!Next

\* A reply is done once at most, with every statement of it that the Kernel ran, which is the start of one word of one
\* attempt; one that stands has a call that goes on, or waits for the wake of the pause that holds it; and a second refusal
\* of an actor in a row pauses the chain: for any number of replies, attempts, pauses and stands (Hearer, Watch).
THEOREM RepliesTheorem == Spec => []RepliesHold
<1>1. Init => RepliesInv
  BY RepliesInit DEF Init
<1>2. RepliesInv /\ [Next]_vars => RepliesInv'
  <2>1. [Next]_vars => [P!Next]_ofProvider
    BY DEF Next, Journal, Logs, Provider, Commands, Conversations, Forks, SignIn, vars
  <2> QED BY <2>1, RepliesNext
<1>3. RepliesInv => RepliesHold
  <2> SUFFICES ASSUME RepliesInv PROVE P!TypeOK /\ P!RepliesHold
    BY DEF RepliesHold
  <2>1. P!TypeOK
    <3>1. ASSUME NEW id \in P!Took
          PROVE /\ providerTaken[id].actor \in Actors
                /\ {providerTaken[id].waits, providerTaken[id].again, providerTaken[id].hold} \subseteq BOOLEAN
                /\ providerTaken[id].watch.given \in 0 .. Len(providerTaken[id].watch.text)
      <4>1. providerTaken[id] \in Replies BY ReplyTyped DEF RepliesInv
      <4> QED BY <4>1, ReplyRan DEF Replies
    <3>2. /\ mute \in Actors \cup {P!NOBODY} /\ paused \in BOOLEAN /\ providerAsked \in 0 .. MaxReplies
          /\ stands \in 0 .. MaxStands /\ reading \in 0 .. stands
      BY DEF RepliesInv, ReplyTypes
    <3>3. reading \in 0 .. MaxStands BY <3>2, ReplyBounds, SMT
    <3> QED BY <3>1, <3>2, <3>3 DEF P!TypeOK
  <2>2. P!TurnHoldsWhatRan /\ P!RowPauses BY DEF RepliesInv, EndedSo
  <2>3. P!GivenOnce
    <3> SUFFICES ASSUME NEW id \in P!Took
                 PROVE gave[id] = P!Ran(id) /\ \A i, j \in DOMAIN gave[id] : gave[id][i] = gave[id][j]
      BY DEF P!GivenOnce
    <3> DEFINE w == providerTaken[id].watch
    <3>1. gave[id] = SubSeq(w.text, 1, w.given) /\ w.given \in 0 .. Len(w.text) /\ w.text \in Seq(Nat) /\ gave[id] = P!Ran(id)
      BY ReplyRan DEF P!Ran, P!RanOf
    <3>2. \A n, m \in 1 .. Len(w.text) : w.text[n] = w.text[m] BY WatchOfOne DEF OneAttempt
    <3> HIDE DEF w
    <3>3. \A n \in DOMAIN gave[id] : n \in 1 .. Len(w.text) /\ gave[id][n] = w.text[n] BY <3>1, SMT
    <3> QED BY <3>1, <3>2, <3>3
  <2>4. P!DoneOnce
    <3>1. \A id \in P!Took : providerOver[id] <= 1 BY SMT DEF RepliesInv, Replying
    <3> QED BY <3>1 DEF P!DoneOnce, RepliesInv, Replying
  <2>5. P!NoneIsForgotten
    <3> SUFFICES ASSUME NEW id \in P!Took
                 PROVE \/ calls[id].at \in {"asked", "asleep"} \/ calls[id].pipe # <<>>
                       \/ calls[id].at = "held" /\ P!Released(id) = ~paused
      BY DEF P!NoneIsForgotten
    <3>1. calls[id].at \in {"asked", "asleep", "held", "over"} BY ReplyTyped DEF RepliesInv, CallForms
    <3>2. GoesOn(providerTaken[id].watch, calls[id]) /\ providerTaken[id].hold = paused
      BY DEF RepliesInv, Replying, Standing1
    <3>3. P!Released(id) = ~paused BY <3>2 DEF P!Released
    <3>4. calls[id].at = "over" => calls[id].pipe # <<>> BY <3>2 DEF GoesOn
    <3> QED BY <3>1, <3>3, <3>4
  <2> QED BY <2>1, <2>2, <2>3, <2>4, <2>5 DEF P!RepliesHold
<1> QED BY <1>1, <1>2, <1>3, PTL DEF Spec
=============================================================================
