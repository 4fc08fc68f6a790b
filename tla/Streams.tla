------------------------------ MODULE Streams ------------------------------
(***************************************************************************)
(* One stream of a command: read to its end in chunks of any size, decoded  *)
(* as utf-8, said as far as its head holds, and kept at its head and its     *)
(* tail, by bytes, at whole characters.                                     *)
(*                                                                         *)
(* A byte is one of three: ascii, the lead of a character of two bytes, and *)
(* the byte that continues one.                                             *)
(***************************************************************************)
EXTENDS Naturals, Sequences, SequencesExt

CONSTANTS HEAD, TAIL, MaxBytes

VARIABLES
  bytes,  \* all that the command wrote
  at,     \* how many of them were read
  held,   \* the bytes read of a character that is not whole
  kept,   \* Kept: head, tail, whether the head is full, how many bytes between them were cut
  said,   \* the text said as it came
  over    \* whether the stream was read to its end

vars == <<bytes, at, held, kept, said, over>>

Bytes == {"a", "lead", "next"}

\* How many bytes a character of a text is: an ascii one, one of two bytes, and the one that replaces a bad byte.
Size == [a |-> 1, pair |-> 2, bad |-> 3]
Width(text) == FoldLeft(LAMBDA n, c : n + Size[c], 0, text)

\* The line that says a stream passed its head.
NOTICE == "notice"

Empty == [head |-> <<>>, tail |-> <<>>, full |-> FALSE, cut |-> 0]

Init == bytes = <<>> /\ at = 0 /\ held = <<>> /\ kept = Empty /\ said = <<>> /\ over = FALSE

\* The text of the bytes held that is whole, and the bytes that wait for the rest of their character.
RECURSIVE Whole(_, _)
Whole(hold, last) ==
  LET then(char, n) == LET rest == Whole(SubSeq(hold, n + 1, Len(hold)), last) IN [rest EXCEPT !.text = <<char>> \o @]
      lead == hold[1] = "lead"
  IN IF hold = <<>> \/ (lead /\ Len(hold) = 1 /\ ~last) THEN [text |-> <<>>, held |-> hold]
     ELSE IF hold[1] = "a" THEN then("a", 1)
     ELSE IF lead /\ Len(hold) > 1 /\ hold[2] = "next" THEN then("pair", 2)
     ELSE then("bad", 1)

\* The longest start, and the longest end, of a text that this many bytes hold at whole characters.
Start(text, n) == LET k == CHOOSE k \in 0 .. Len(text) :
                             /\ Width(SubSeq(text, 1, k)) <= n /\ (k < Len(text) => Width(SubSeq(text, 1, k + 1)) > n)
                  IN SubSeq(text, 1, k)
End(text, n) == Reverse(Start(Reverse(text), n))

\* A form that counts what a trim leaves, not what it cuts.
TrimCountingLeft(k) ==
  IF Width(k.tail) <= TAIL THEN k ELSE [k EXCEPT !.tail = End(k.tail, TAIL), !.cut = @ + Width(End(k.tail, TAIL))]

Trim(k) ==
  IF Width(k.tail) <= TAIL THEN k
  ELSE LET end == End(k.tail, TAIL) IN [k EXCEPT !.tail = end, !.cut = @ + Width(k.tail) - Width(end)]

\* A form whose head takes more once a character did not fit it.
PushInGaps(k, text) ==
  LET now  == Start(text, HEAD - Width(k.head))
      rest == SubSeq(text, Len(now) + 1, Len(text))
      tail == [k EXCEPT !.head = @ \o now, !.full = @ \/ rest # <<>>, !.tail = @ \o rest]
  IN [kept |-> IF Width(tail.tail) > 2 * TAIL THEN Trim(tail) ELSE tail,
      said |-> now \o (IF rest = <<>> \/ k.full THEN <<>> ELSE <<NOTICE>>)]

\* A new text: what its head takes is said, then once that the rest is cut, and the rest goes to the tail.
Push(k, text) ==
  LET now  == IF k.full THEN <<>> ELSE Start(text, HEAD - Width(k.head))
      rest == SubSeq(text, Len(now) + 1, Len(text))
      tail == [k EXCEPT !.head = @ \o now, !.full = @ \/ rest # <<>>, !.tail = @ \o rest]
  IN [kept |-> IF rest # <<>> /\ Width(tail.tail) > 2 * TAIL THEN Trim(tail) ELSE tail,
      said |-> now \o (IF rest = <<>> \/ k.full THEN <<>> ELSE <<NOTICE>>)]

\* The text of the exit: its start, the bytes cut, its end.
Finish(k) == LET t == IF k.full THEN Trim(k) ELSE k IN <<t.head, t.cut, t.tail>>

Writes == ~over /\ Len(bytes) < MaxBytes /\ \E b \in Bytes : bytes' = Append(bytes, b)
          /\ UNCHANGED <<at, held, kept, said, over>>

\* One read of the pipe, which gives nothing at its end alone.
Read ==
  /\ ~over
  /\ \E to \in at .. Len(bytes) :
       LET whole == Whole(held \o SubSeq(bytes, at + 1, to), to = at)
           push  == IF whole.text = <<>> THEN [kept |-> kept, said |-> <<>>] ELSE Push(kept, whole.text)
       IN /\ to = at => at = Len(bytes)
          /\ over' = (to = at) /\ at' = to
          /\ held' = whole.held /\ kept' = push.kept /\ said' = said \o push.said
  /\ UNCHANGED bytes

Next == Writes \/ Read

Spec == Init /\ [][Next]_vars

-----------------------------------------------------------------------------
TypeOK == at \in 0 .. Len(bytes) /\ Len(held) <= 1 /\ over \in BOOLEAN

\* The text of a stream, however its bytes came.
Text == Whole(bytes, TRUE).text

\* The exit of a command gives the stream whole, or its longest start and end that fit with a true count of
\* the bytes between them; and what was said as it came is that start, then once that the rest is cut (push,
\* trim, finish, whole).
ExitIsTheStream ==
  over =>
    LET fits == Width(Text) <= HEAD
        head == Start(Text, HEAD)
        rest == SubSeq(Text, Len(head) + 1, Len(Text))
        tail == End(rest, TAIL)
    IN /\ Finish(kept) = IF fits THEN <<Text, 0, <<>>>> ELSE <<head, Width(rest) - Width(tail), tail>>
       /\ said = IF fits THEN Text ELSE Append(head, NOTICE)
=============================================================================
