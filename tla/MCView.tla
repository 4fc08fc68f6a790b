------------------------------- MODULE MCView -------------------------------
(***************************************************************************)
(* What is read of a life beside it, each part checked by itself: the fold    *)
(* of its facts to the rows that a window shows, the threads that are made of  *)
(* them, the reader of its record, and the stream of a command as it is read.  *)
(* A behaviour is one of one part, chosen at its start.                       *)
(***************************************************************************)
EXTENDS Naturals, Sequences

CONSTANTS Kinds, Shapes, MaxFolded, MaxHolds, MaxThreaded, Makers, MaxActs, MaxControls, HEAD, TAIL, MaxBytes

VARIABLES
  part,
  acts, chains, ran, refused, live, kept, held, controls,
  threadsActs, made,
  whole, readerActs, paused, readerControls, reader, told,
  bytes, at, streamHeld, streamKept, said, over

F == INSTANCE Fold
T == INSTANCE Threads WITH acts <- threadsActs
R == INSTANCE Reader WITH acts <- readerActs, controls <- readerControls
S == INSTANCE Streams WITH held <- streamHeld, kept <- streamKept

ofFold    == <<acts, chains, ran, refused, live, kept, held, controls>>
ofThreads == <<threadsActs, made>>
ofReader  == <<whole, readerActs, paused, readerControls, reader, told>>
ofStreams == <<bytes, at, streamHeld, streamKept, said, over>>

vars == <<part, ofFold, ofThreads, ofReader, ofStreams>>

Init ==
  /\ part \in {"fold", "threads", "reader", "stream"}
  /\ F!Init /\ T!Init /\ R!Init /\ S!Init
  /\ part # "threads" => threadsActs = T!Started
  /\ part # "reader" => whole = TRUE

Fold    == part = "fold" /\ F!Next /\ UNCHANGED <<part, ofThreads, ofReader, ofStreams>>
Threads == part = "threads" /\ T!Next /\ UNCHANGED <<part, ofFold, ofReader, ofStreams>>
Reader  == part = "reader" /\ R!Next /\ UNCHANGED <<part, ofFold, ofThreads, ofStreams>>
Streams == part = "stream" /\ S!Next /\ UNCHANGED <<part, ofFold, ofThreads, ofReader>>

Next == Fold \/ Threads \/ Reader \/ Streams

Spec == Init /\ [][Next]_vars

\* The rows of a window show each act as the engine has it, however the events are joined (Fold, Threads).
ViewsAreTrue ==
  /\ part = "fold" => F!TypeOK /\ F!FoldHolds
  /\ part = "threads" => T!TypeOK /\ T!ThreadsHold

\* A reader of a record tells the ends, the findings and the runs that its facts show, each once and of the act that
\* they are of, but for a rung whose gate or place it took for that of another (Reader); and what is read of a command is its stream whole, or its start and end around a true count (Kept).
RecordIsRead ==
  /\ part = "reader" => R!TypeOK /\ R!ReaderHolds
  /\ part = "stream" => S!TypeOK /\ S!ExitIsTheStream
=============================================================================
