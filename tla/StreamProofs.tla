---------------------------- MODULE StreamProofs ----------------------------
(***************************************************************************)
(* Theorems about what is read of a run, for any runs and any length of a  *)
(* search: as GETs of it, as a stream, and as the page draws the stream;   *)
(* and of the pipeline, for any requests, loads and hold periods.          *)
(*                                                                         *)
(* What every reader may rely on: an ended run does not move and a log     *)
(* only grows.  The three reads of a GET are not one transaction, and that *)
(* is what saves them.                                                     *)
(*                                                                         *)
(* A GET of the pipeline looks into two caches at four times, and its      *)
(* caller may give the answer back for another: what saves it is that      *)
(* every payload anywhere is a function of a load and a hold period, which *)
(* its tag names.  What is kept of a load, under a hold period, is the     *)
(* value of a function of the two: a cache is a sequence of such entries.  *)
(***************************************************************************)
EXTENDS ResultReader, SearchPage, PipelineCache, SequenceTheorems, TLAPS

Statuses == Unfinished \cup Stopped \cup {"absent"}

\* The history as a reader sees it: the record of an ended run serves its log,
\* and a success is a whole search.
HistoryOK ==
    /\ status \in [RunIds -> Statuses]
    /\ logged \in [RunIds -> 0 .. Planned]
    /\ served \in [RunIds -> 0 .. Planned]
    /\ \A r \in RunIds : status[r] \in Stopped => served[r] = logged[r]
    /\ \A r \in RunIds : status[r] = "succeeded" => logged[r] = Planned

\* What one step leaves of each run.
NothingIsTakenBack ==
    /\ \A r \in RunIds : logged[r] <= logged'[r]
    /\ \A r \in RunIds : status[r] \in Stopped =>
          /\ status'[r] = status[r]
          /\ logged'[r] = logged[r]
          /\ served'[r] = served[r]

LEMMA HistoryHoldsInitially == HistoryInit => HistoryOK
  BY PlannedIsPositive DEF HistoryInit, HistoryOK, Statuses, Stopped

LEMMA HistoryIsKept ==
    ASSUME HistoryOK, HistoryNext
    PROVE  HistoryOK' /\ NothingIsTakenBack
<1> PICK r \in RunIds : HistoryStep(r)
    BY DEF HistoryNext
<1> USE DEF HistoryOK, NothingIsTakenBack, Statuses, Stopped, Unfinished
<1>1. CASE Accept(r)
    BY <1>1 DEF Accept
<1>2. CASE Begin(r)
    BY <1>2 DEF Begin
<1>3. CASE Progress(r)
    BY <1>3, PlannedIsPositive DEF Progress
<1>4. ASSUME NEW outcome \in Stopped, End(r, outcome)
      PROVE  HistoryOK' /\ NothingIsTakenBack
    BY <1>4 DEF End, MayEndAs
<1> QED
    BY <1>1, <1>2, <1>3, <1>4 DEF HistoryStep

-----------------------------------------------------------------------------
(* The reads of one GET.                                                   *)

\* What is between the reads, and was in the answers: an end that was seen.
ReadingOK ==
    /\ reading.at = "pulse" /\ ServesStored(reading.status)
          => status[Watched] = reading.status
    /\ latest \in Int /\ latest <= logged[Watched]
    /\ \A a \in answers : a.kind \in {"result", "stopped"} => a.status \in Stopped

ReaderInv == HistoryOK /\ ReadingOK /\ ImmutableAnswersAreFinal

-----------------------------------------------------------------------------
(* Steps of the run.                                                       *)

LEMMA HistoryKeepsReaderInv ==
    ASSUME ReaderInv, HistoryNext, UNCHANGED reader
    PROVE  ReaderInv'
<1>1. /\ HistoryOK'
      /\ logged[Watched] <= logged'[Watched]
      /\ status[Watched] \in Stopped =>
            status'[Watched] = status[Watched] /\ served'[Watched] = served[Watched]
    BY HistoryIsKept, WatchedIsARun DEF ReaderInv, NothingIsTakenBack
<1>2. ReadingOK'
  <2>1. latest' <= logged'[Watched]
      BY <1>1, WatchedIsARun DEF ReaderInv, ReadingOK, HistoryOK, reader
  <2> QED
      BY <1>1, <2>1 DEF ReaderInv, ReadingOK, ServesStored, reader
<1>3. ImmutableAnswersAreFinal'
  <2>1. \A a \in answers : a.kind \in {"result", "stopped"} => status[Watched] \in Stopped
      BY DEF ReaderInv, ReadingOK, ImmutableAnswersAreFinal
  <2> QED
      BY <1>1, <2>1 DEF ReaderInv, ImmutableAnswersAreFinal, reader
<1> QED
    BY <1>1, <1>2, <1>3 DEF ReaderInv
-----------------------------------------------------------------------------
(* Steps of the reader.                                                    *)

\* The generation an answer reports is no less than any before it.
LEMMA AnswersGoOn ==
    ASSUME ReaderInv, AnswerFinished \/ AnswerInFlight
    PROVE  \A a \in answers' \ answers :
              /\ a.generation >= latest
              /\ a.generation \in Int /\ a.generation <= logged[Watched]
<1>1. logged[Watched] \in Int /\ latest \in Int /\ latest <= logged[Watched]
    BY WatchedIsARun, PlannedIsPositive DEF ReaderInv, HistoryOK, ReadingOK
<1>2. CASE AnswerFinished
  <2>1. status[Watched] \in Stopped
      BY <1>2 DEF AnswerFinished, ServesStored, ReaderInv, ReadingOK
  <2>2. served[Watched] = logged[Watched]
      BY <2>1, WatchedIsARun DEF ReaderInv, HistoryOK
  <2> QED
      BY <1>1, <1>2, <2>2 DEF AnswerFinished, Give, Answer
<1>3. CASE AnswerInFlight
    BY <1>1, <1>3 DEF AnswerInFlight, Give, Answer
<1> QED
    BY <1>2, <1>3

LEMMA FinishedKeepsReaderInv ==
    ASSUME ReaderInv, AnswerFinished
    PROVE  ReaderInv'
<1>1. status[Watched] = reading.status /\ status[Watched] \in Stopped
    BY DEF AnswerFinished, ServesStored, ReaderInv, ReadingOK
<1>2. HistoryOK'
    BY DEF AnswerFinished, history, ReaderInv, HistoryOK
<1>3. ImmutableAnswersAreFinal'
    BY <1>1 DEF AnswerFinished, Give, Answer, history, ReaderInv, ImmutableAnswersAreFinal
<1>4. latest' \in Int /\ latest' <= logged'[Watched]
  <2>1. served[Watched] = logged[Watched] /\ logged[Watched] \in Int
      BY <1>1, WatchedIsARun, PlannedIsPositive DEF ReaderInv, HistoryOK
  <2> QED
      BY <2>1 DEF AnswerFinished, Give, Answer, history, ReaderInv, ReadingOK
<1>5. ReadingOK'
    BY <1>1, <1>4 DEF AnswerFinished, Give, Answer, Idle, Reading, ReaderInv, ReadingOK
<1> QED
    BY <1>2, <1>3, <1>5 DEF ReaderInv

LEMMA InFlightKeepsReaderInv ==
    ASSUME ReaderInv, AnswerInFlight
    PROVE  ReaderInv'
<1>1. HistoryOK'
    BY DEF AnswerInFlight, history, ReaderInv, HistoryOK
<1>2. ImmutableAnswersAreFinal'
    BY DEF AnswerInFlight, Give, Answer, history, ReaderInv, ImmutableAnswersAreFinal
<1>3. latest' \in Int /\ latest' <= logged'[Watched]
  <2>1. logged[Watched] \in Int
      BY WatchedIsARun, PlannedIsPositive DEF ReaderInv, HistoryOK
  <2> QED
      BY <2>1 DEF AnswerInFlight, Give, Answer, history, ReaderInv, ReadingOK
<1>4. ReadingOK'
    BY <1>3 DEF AnswerInFlight, Give, Answer, Idle, Reading, ReaderInv, ReadingOK
<1> QED
    BY <1>1, <1>2, <1>4 DEF ReaderInv

LEMMA ReadingKeepsReaderInv ==
    ASSUME ReaderInv, ReadPulse \/ LoadRun
    PROVE  ReaderInv'
<1>1. UNCHANGED <<history, answers, latest>>
    BY DEF ReadPulse, LoadRun
<1>2. ReadingOK'
    BY <1>1 DEF ReadPulse, LoadRun, Reading, history, ReaderInv, ReadingOK, ServesStored
<1> QED
    BY <1>1, <1>2 DEF history, ReaderInv, HistoryOK, ImmutableAnswersAreFinal

-----------------------------------------------------------------------------
(* The theorems.                                                           *)

LEMMA ReaderInvHoldsInitially == ReaderInit => ReaderInv
<1> SUFFICES ASSUME ReaderInit PROVE ReaderInv
    OBVIOUS
<1>1. HistoryOK /\ logged[Watched] = 0
    BY HistoryHoldsInitially, WatchedIsARun DEF ReaderInit, HistoryInit
<1> QED
    BY <1>1 DEF ReaderInit, Idle, Reading, ReaderInv, ReadingOK,
                ImmutableAnswersAreFinal

LEMMA ReaderInvIsKept == ReaderInv /\ [ReaderNext]_<<history, reader>> => ReaderInv'
<1> SUFFICES ASSUME ReaderInv, [ReaderNext]_<<history, reader>> PROVE ReaderInv'
    OBVIOUS
<1>1. CASE HistoryNext /\ UNCHANGED reader
    BY <1>1, HistoryKeepsReaderInv
<1>2. CASE ReadPulse \/ LoadRun
    BY <1>2, ReadingKeepsReaderInv
<1>3. CASE AnswerFinished
    BY <1>3, FinishedKeepsReaderInv
<1>4. CASE AnswerInFlight
    BY <1>4, InFlightKeepsReaderInv
<1>5. CASE UNCHANGED <<history, reader>>
    BY <1>5 DEF history, reader, ReaderInv, HistoryOK, ReadingOK,
                ImmutableAnswersAreFinal, ServesStored
<1> QED
    BY <1>1, <1>2, <1>3, <1>4, <1>5 DEF ReaderNext

LEMMA ReaderInvAlways == ReaderSpec => []ReaderInv
  BY ReaderInvHoldsInitially, ReaderInvIsKept, PTL DEF ReaderSpec

\* What is served as immutable is what the run has then and for ever, though
\* the outcome and the record are read after the decision to serve them.
THEOREM Final == ReaderSpec => []ImmutableAnswersAreFinal
<1>1. ReaderInv => ImmutableAnswersAreFinal
    BY DEF ReaderInv
<1> QED
    BY <1>1, ReaderInvAlways, PTL

\* No answer reports less than one before it, wherever the run ends between
\* the reads.
THEOREM Monotone == ReaderSpec => ProgressNeverGoesBack
<1>1. ReaderInv /\ [ReaderNext]_<<history, reader>>
        => [answers' # answers
              => \A a \in answers' \ answers : a.generation >= latest]_<<history, reader>>
  <2> SUFFICES ASSUME ReaderInv, ReaderNext, answers' # answers
               PROVE  \A a \in answers' \ answers : a.generation >= latest
      OBVIOUS
  <2>1. AnswerFinished \/ AnswerInFlight
      BY DEF ReaderNext, reader, ReadPulse, LoadRun
  <2> QED
      BY <2>1, AnswersGoOn
<1> QED
    BY <1>1, ReaderInvAlways, PTL DEF ReaderSpec, ProgressNeverGoesBack

-----------------------------------------------------------------------------
(***************************************************************************)
(* What a subscriber is sent is the log and then the outcome, for any      *)
(* back-pressure and any number of lost connections.  The invariant says   *)
(* what is on the wire at any moment: the status frame if it is still      *)
(* there, then the generations after the last one dispatched up to the     *)
(* cursor, then the terminal frame if it is out; and what the generator    *)
(* may conclude from the reads it has done.                                *)
(***************************************************************************)

StatusAhead == IF wire # <<>> /\ wire[1].event = "status" THEN 1 ELSE 0
EndQueued == IF wire # <<>> /\ wire[Len(wire)].event \in Stopped THEN 1 ELSE 0

\* How many generation frames are on the wire.
InFlight == Len(wire) - StatusAhead - EndQueued

ConnectionOK ==
    /\ wire \in Seq(Frames)
    /\ \A i \in 1 .. InFlight : wire[StatusAhead + i] = Frame("generation", lastId + i)
    /\ EndQueued = 1 => phase = "returned" /\ wire[Len(wire)] = TerminalFrame(pulse)
    /\ client = "open" => cursor = lastId + InFlight
    /\ client # "open" => wire = <<>> /\ phase = "none"

\* The status is read before the last drain, so a drain that follows the read
\* of an end is of the whole log.
GeneratorOK ==
    /\ cursor \in Nat /\ upto \in Nat
    /\ cursor <= upto /\ upto <= logged[Watched]
    /\ phase \in {"draining", "last batch", "returned"} =>
          pulse \in Stopped /\ status[Watched] = pulse
    /\ phase \in {"last batch", "returned"} => upto = logged[Watched]
    /\ phase = "returned" => cursor = logged[Watched]

BrowserOK ==
    /\ lastId \in Nat /\ lastId <= logged[Watched]
    /\ seen \in Seq(Nat) /\ Len(seen) = lastId
    /\ NoGapNoRepeat
    /\ \A outcome \in told : /\ outcome \in Stopped /\ outcome = status[Watched]
                             /\ lastId = logged[Watched]

StreamInv == HistoryOK /\ ConnectionOK /\ GeneratorOK /\ BrowserOK

LEMMA Bounds ==
    ASSUME HistoryOK
    PROVE  /\ logged[Watched] \in Nat /\ logged[Watched] <= Planned
           /\ Planned \in Nat
  BY PlannedIsPositive, WatchedIsARun, StreamConstants DEF HistoryOK

-----------------------------------------------------------------------------
(* Steps of the run and of the connection.                                 *)

LEMMA RunKeepsStreamInv ==
    ASSUME StreamInv, HistoryNext, UNCHANGED stream
    PROVE  StreamInv'
<1>1. HistoryOK'
    BY HistoryIsKept DEF StreamInv
<1>2. /\ logged[Watched] <= logged'[Watched]
      /\ status[Watched] \in Stopped => /\ status'[Watched] = status[Watched]
                                        /\ logged'[Watched] = logged[Watched]
    BY HistoryIsKept, WatchedIsARun, StreamConstants DEF StreamInv, NothingIsTakenBack
<1>3. logged[Watched] \in Nat /\ logged'[Watched] \in Nat
    BY <1>1, WatchedIsARun, StreamConstants, PlannedIsPositive DEF StreamInv, HistoryOK
<1> USE DEF stream, generator, browser, StreamInv
<1>4. ConnectionOK'
    BY DEF ConnectionOK, InFlight, StatusAhead, EndQueued
<1>5. GeneratorOK'
  <2>1. UNCHANGED <<phase, pulse, cursor, upto>>
      OBVIOUS
  <2>2. upto \in Nat /\ upto <= logged[Watched] /\ logged[Watched] <= logged'[Watched]
      BY <1>2 DEF GeneratorOK
  <2>3. upto' <= logged'[Watched]
      BY <2>1, <2>2, <1>3
  <2> QED
      BY <2>1, <2>3, <1>2 DEF GeneratorOK, Stopped
<1>6. BrowserOK'
    BY <1>2, <1>3 DEF BrowserOK, NoGapNoRepeat
<1> QED
    BY <1>1, <1>4, <1>5, <1>6

\* A connection that is gone takes what was on it and the generator with it,
\* and leaves what the browser has.
LEMMA LossKeepsStreamInv ==
    ASSUME StreamInv,
           UNCHANGED <<history, cursor, upto, lastId, seen, told>>,
           client' # "open", wire' = <<>>, phase' = "none"
    PROVE  StreamInv'
<1>1. HistoryOK'
    BY DEF StreamInv, HistoryOK, history
<1>2. ConnectionOK'
    BY DEF ConnectionOK, InFlight, StatusAhead, EndQueued
<1>3. GeneratorOK'
    BY DEF StreamInv, GeneratorOK, history
<1>4. BrowserOK'
    BY DEF StreamInv, BrowserOK, NoGapNoRepeat, history
<1> QED
    BY <1>1, <1>2, <1>3, <1>4 DEF StreamInv

LEMMA ConnectKeepsStreamInv ==
    ASSUME StreamInv, Connect
    PROVE  StreamInv'
<1>1. HistoryOK'
    BY DEF Connect, StreamInv, HistoryOK, history
<1>2. ConnectionOK'
  <2>1. Frame("status", 0) \in Frames
      BY PlannedIsPositive DEF Frame, Frames
  <2>2. /\ wire' \in Seq(Frames) /\ wire' # <<>>
        /\ Len(wire') = 1 /\ wire'[1].event = "status"
      BY <2>1 DEF Connect, Frame
  <2>3. StatusAhead' = 1 /\ EndQueued' = 0 /\ InFlight' = 0
      BY <2>2 DEF StatusAhead, EndQueued, InFlight, Stopped
  <2> QED
      BY <2>2, <2>3 DEF Connect, ResumeFrom, ConnectionOK, StreamInv, BrowserOK
<1>3. GeneratorOK'
  <2>1. lastId \in Nat /\ lastId <= logged[Watched]
      BY DEF StreamInv, BrowserOK
  <2>2. /\ cursor' = lastId /\ upto' = lastId /\ phase' = "polling"
        /\ logged' = logged
      BY DEF Connect, ResumeFrom, history
  <2> QED
      BY <2>1, <2>2 DEF GeneratorOK
<1>4. BrowserOK'
    BY DEF Connect, StreamInv, BrowserOK, NoGapNoRepeat, history
<1> QED
    BY <1>1, <1>2, <1>3, <1>4 DEF StreamInv

LEMMA TroubleKeepsStreamInv ==
    ASSUME StreamInv, NEW after,
           ConnectFails(after) \/ ConnectRefused(after) \/ Drop(after)
              \/ EndOfResponse(after) \/ Close \/ Subscribe
    PROVE  StreamInv'
<1>1. UNCHANGED <<history, cursor, upto, lastId, seen, told>>
    BY DEF ConnectFails, ConnectRefused, Drop, EndOfResponse, Close, Subscribe,
           generator, browser
<1>2. client' # "open" /\ wire' = <<>> /\ phase' = "none"
    BY DEF ConnectFails, ConnectRefused, Drop, EndOfResponse, Close, Subscribe,
           HandledIn, generator, StreamInv, ConnectionOK
<1> QED
    BY <1>1, <1>2, LossKeepsStreamInv

-----------------------------------------------------------------------------
(* A frame is dispatched.                                                  *)

LEMMA Counts ==
    ASSUME ConnectionOK
    PROVE  /\ StatusAhead \in {0, 1} /\ EndQueued \in {0, 1}
           /\ Len(wire) \in Nat /\ InFlight \in Int
           /\ Len(wire) = StatusAhead + InFlight + EndQueued
<1>1. StatusAhead \in {0, 1} /\ EndQueued \in {0, 1}
    BY DEF StatusAhead, EndQueued
<1>2. Len(wire) \in Nat
    BY DEF ConnectionOK
<1> QED
    BY <1>1, <1>2 DEF InFlight

\* The head of the wire is the status frame, the next generation, or the end
\* alone.
LEMMA HeadOfTheWire ==
    ASSUME ConnectionOK, wire # <<>>
    PROVE  /\ wire[1].event = "status" => StatusAhead = 1
           /\ wire[1].event = "generation" =>
                 /\ StatusAhead = 0 /\ InFlight > 0
                 /\ wire[1] = Frame("generation", lastId + 1)
           /\ wire[1].event \in Stopped =>
                 /\ Len(wire) = 1 /\ InFlight = 0 /\ EndQueued = 1
                 /\ wire[1] = TerminalFrame(pulse)
<1> USE Counts
<1>1. Len(wire) > 0
    BY DEF ConnectionOK
<1>2. ASSUME wire[1].event = "generation"
      PROVE  StatusAhead = 0 /\ InFlight > 0 /\ wire[1] = Frame("generation", lastId + 1)
  <2>1. StatusAhead = 0
      BY <1>2 DEF StatusAhead
  <2>2. Len(wire) = 1 => EndQueued = 0
      BY <1>2 DEF EndQueued, Stopped
  <2>3. InFlight > 0
      BY <1>1, <2>1, <2>2
  <2> QED
      BY <2>1, <2>3 DEF ConnectionOK
<1>3. ASSUME wire[1].event \in Stopped
      PROVE  Len(wire) = 1 /\ InFlight = 0 /\ EndQueued = 1 /\ wire[1] = TerminalFrame(pulse)
  <2>1. StatusAhead = 0
      BY <1>3 DEF StatusAhead, Stopped
  <2>2. ~(InFlight > 0)
    <3>1. InFlight > 0 => wire[1] = Frame("generation", lastId + 1)
        BY <2>1 DEF ConnectionOK
    <3> QED
        BY <3>1, <1>3 DEF Frame, Stopped
  <2>3. Len(wire) = 1 /\ InFlight = 0 /\ EndQueued = 1
      BY <1>1, <2>1, <2>2
  <2> QED
      BY <2>3 DEF ConnectionOK
<1>4. wire[1].event = "status" => StatusAhead = 1
    BY DEF StatusAhead
<1> QED
    BY <1>2, <1>3, <1>4

\* Behind a status or a generation frame there is no status frame, and the
\* end stays where it is.
LEMMA TailOfTheWire ==
    ASSUME ConnectionOK, wire # <<>>, wire' = Tail(wire),
           wire[1].event \in {"status", "generation"}
    PROVE  /\ wire' \in Seq(Frames) /\ Len(wire') = Len(wire) - 1
           /\ \A i \in 1 .. Len(wire) - 1 : wire'[i] = wire[i + 1]
           /\ StatusAhead' = 0 /\ EndQueued' = EndQueued
<1> USE Counts
<1>1. Len(wire) > 0
    BY DEF ConnectionOK
<1>2. /\ wire' \in Seq(Frames) /\ Len(wire') = Len(wire) - 1
      /\ \A i \in 1 .. Len(wire) - 1 : wire'[i] = wire[i + 1]
    BY <1>1 DEF ConnectionOK
<1>3. Len(wire) = 1 => EndQueued = 0
    BY DEF EndQueued, Stopped
<1>4. EndQueued' = EndQueued
  <2>1. CASE Len(wire) = 1
      BY <2>1, <1>2, <1>3 DEF EndQueued
  <2>2. CASE Len(wire) > 1
    <3>1. wire'[Len(wire')] = wire[Len(wire)] /\ wire' # <<>>
        BY <1>2, <2>2
    <3> QED
        BY <3>1 DEF EndQueued
  <2> QED
      BY <1>1, <2>1, <2>2
<1>5. StatusAhead' = 0
  <2>1. CASE Len(wire) = 1
      BY <2>1, <1>2 DEF StatusAhead
  <2>2. ASSUME Len(wire) > 1
        PROVE  wire[2].event # "status"
    <3>1. CASE InFlight >= 2 - StatusAhead
      <4>1. 2 - StatusAhead \in 1 .. InFlight /\ StatusAhead + (2 - StatusAhead) = 2
          BY <3>1
      <4>2. wire[2] = Frame("generation", lastId + (2 - StatusAhead))
          BY <4>1 DEF ConnectionOK
      <4> QED
          BY <4>2 DEF Frame
    <3>2. CASE InFlight < 2 - StatusAhead
      <4>1. wire[1].event = "generation" => StatusAhead = 0 /\ InFlight > 0
          BY HeadOfTheWire
      <4>2. wire[1].event = "status" => StatusAhead = 1
          BY HeadOfTheWire
      <4>3. Len(wire) = 2 /\ EndQueued = 1
          BY <3>2, <2>2, <4>1, <4>2
      <4> QED
          BY <4>3 DEF EndQueued, Stopped
    <3> QED
        BY <3>1, <3>2
  <2>3. CASE Len(wire) > 1
      BY <2>2, <2>3, <1>2 DEF StatusAhead
  <2> QED
      BY <1>1, <2>1, <2>3
<1> QED
    BY <1>2, <1>4, <1>5

LEMMA DispatchKeepsBrowserOK ==
    ASSUME StreamInv, NEW frame, NEW after, Dispatch(frame, after)
    PROVE  BrowserOK'
<1>1. /\ client = "open" /\ wire # <<>> /\ frame = wire[1]
      /\ logged' = logged /\ status' = status
    BY DEF Dispatch, history, StreamInv, ConnectionOK
<1>2. /\ cursor = lastId + InFlight /\ lastId \in Nat /\ cursor \in Nat
      /\ cursor <= logged[Watched] /\ logged[Watched] \in Nat
      /\ InFlight \in Int
  <2>1. cursor = lastId + InFlight
      BY <1>1 DEF StreamInv, ConnectionOK
  <2>2. /\ lastId \in Nat /\ cursor \in Nat /\ upto \in Nat
        /\ cursor <= upto /\ upto <= logged[Watched]
      BY DEF StreamInv, BrowserOK, GeneratorOK
  <2> QED
      BY <2>1, <2>2, Counts, Bounds DEF StreamInv
<1>3. CASE frame.event = "generation"
  <2>1. InFlight > 0 /\ frame.generation = lastId + 1
      BY <1>1, <1>3, HeadOfTheWire DEF StreamInv, Frame
  <2>2. /\ lastId' = lastId + 1 /\ seen' = Append(seen, lastId + 1) /\ told' = told
      BY <1>3, <2>1 DEF Dispatch, Stopped
  <2>3. lastId' \in Nat /\ lastId < logged[Watched] /\ lastId' <= logged'[Watched]
      BY <1>1, <1>2, <2>1, <2>2
  <2>4. seen' \in Seq(Nat) /\ Len(seen') = lastId' /\ NoGapNoRepeat'
      BY <1>2, <2>2 DEF StreamInv, BrowserOK, NoGapNoRepeat
  <2>5. told = {}
      BY <1>2, <2>3 DEF StreamInv, BrowserOK
  <2> QED
      BY <2>2, <2>3, <2>4, <2>5 DEF BrowserOK
<1>4. CASE frame.event \in Stopped
  <2>1. /\ InFlight = 0 /\ phase = "returned" /\ frame.event = pulse
      BY <1>1, <1>4, HeadOfTheWire DEF StreamInv, ConnectionOK, TerminalFrame, Frame
  <2>2. lastId = logged[Watched] /\ status[Watched] = frame.event
      BY <1>2, <2>1 DEF StreamInv, GeneratorOK
  <2>3. /\ lastId' = lastId /\ seen' = seen /\ told' = told \cup {frame.event}
      BY <1>4 DEF Dispatch, Stopped
  <2> QED
      BY <1>1, <1>4, <2>2, <2>3 DEF StreamInv, BrowserOK, NoGapNoRepeat
<1>5. CASE frame.event # "generation" /\ frame.event \notin Stopped
    BY <1>1, <1>5 DEF Dispatch, StreamInv, BrowserOK, NoGapNoRepeat
<1> QED
    BY <1>3, <1>4, <1>5

\* What is left on the wire follows what has just been dispatched.
LEMMA DispatchKeepsConnectionOK ==
    ASSUME StreamInv, NEW frame, Dispatch(frame, "open")
    PROVE  ConnectionOK'
<1>1. /\ client = "open" /\ client' = "open" /\ wire # <<>> /\ frame = wire[1]
      /\ wire' = Tail(wire) /\ UNCHANGED <<phase, pulse, cursor>>
    BY DEF Dispatch, HandledIn, StreamInv, ConnectionOK
<1>2. /\ cursor = lastId + InFlight /\ lastId \in Nat /\ ConnectionOK
    BY <1>1 DEF StreamInv, BrowserOK, ConnectionOK
<1> USE Counts
<1>3. CASE frame.event \in Stopped
  <2>1. wire' = <<>> /\ InFlight = 0
      BY <1>1, <1>2, <1>3, HeadOfTheWire DEF ConnectionOK
  <2>2. StatusAhead' = 0 /\ EndQueued' = 0 /\ InFlight' = 0
      BY <2>1 DEF StatusAhead, EndQueued, InFlight
  <2>3. lastId' = lastId
      BY <1>3 DEF Dispatch, Stopped
  <2> QED
      BY <1>1, <1>2, <2>1, <2>2, <2>3 DEF ConnectionOK
<1>4. CASE frame.event \in {"status", "generation"}
  <2>1. /\ wire' \in Seq(Frames) /\ Len(wire') = Len(wire) - 1
        /\ \A i \in 1 .. Len(wire) - 1 : wire'[i] = wire[i + 1]
        /\ StatusAhead' = 0 /\ EndQueued' = EndQueued
      BY <1>1, <1>2, <1>4, TailOfTheWire
  <2>2. EndQueued' = 1 => phase' = "returned" /\ wire'[Len(wire')] = TerminalFrame(pulse')
    <3>1. ASSUME EndQueued' = 1
          PROVE  wire'[Len(wire')] = wire[Len(wire)]
      <4>1. wire' # <<>>
          BY <3>1 DEF EndQueued
      <4>2. Len(wire') > 0
          BY <2>1, <4>1
      <4> QED
          BY <1>2, <2>1, <4>2
    <3> QED
        BY <1>1, <1>2, <2>1, <3>1 DEF ConnectionOK
  <2>3. CASE frame.event = "status"
    <3>1. StatusAhead = 1 /\ lastId' = lastId
        BY <1>1, <1>2, <2>3, HeadOfTheWire DEF Dispatch
    <3>2. InFlight' = InFlight
        BY <1>2, <2>1, <3>1 DEF InFlight
    <3>3. \A i \in 1 .. InFlight : wire'[i] = Frame("generation", lastId + i)
      <4> TAKE i \in 1 .. InFlight
      <4>1. i \in 1 .. Len(wire) - 1
          BY <1>2, <3>1
      <4>2. wire[StatusAhead + i] = Frame("generation", lastId + i)
          BY <1>2 DEF ConnectionOK
      <4>3. StatusAhead + i = i + 1
          BY <3>1
      <4> QED
          BY <2>1, <4>1, <4>2, <4>3
    <3>4. cursor' = lastId' + InFlight'
        BY <1>1, <1>2, <3>1, <3>2
    <3>5. \A i \in 1 .. InFlight' : wire'[StatusAhead' + i] = Frame("generation", lastId' + i)
        BY <2>1, <3>1, <3>2, <3>3
    <3> QED
        BY <1>1, <2>1, <2>2, <3>4, <3>5 DEF ConnectionOK
  <2>4. CASE frame.event = "generation"
    <3>1. StatusAhead = 0 /\ lastId' = lastId + 1
        BY <1>1, <1>2, <2>4, HeadOfTheWire DEF Dispatch, Frame
    <3>2. InFlight' = InFlight - 1
        BY <1>2, <2>1, <3>1 DEF InFlight
    <3>3. \A i \in 1 .. InFlight - 1 : wire'[i] = Frame("generation", lastId + 1 + i)
      <4> TAKE i \in 1 .. InFlight - 1
      <4>1. i \in 1 .. Len(wire) - 1 /\ i + 1 \in 1 .. InFlight
          BY <1>2, <3>1
      <4>2. wire[StatusAhead + (i + 1)] = Frame("generation", lastId + (i + 1))
          BY <1>2, <4>1 DEF ConnectionOK
      <4>3. StatusAhead + (i + 1) = i + 1 /\ lastId + (i + 1) = lastId + 1 + i
          BY <1>2, <3>1
      <4> QED
          BY <2>1, <4>1, <4>2, <4>3
    <3>4. cursor' = lastId' + InFlight'
        BY <1>1, <1>2, <3>1, <3>2
    <3>5. \A i \in 1 .. InFlight' : wire'[StatusAhead' + i] = Frame("generation", lastId' + i)
        BY <2>1, <3>1, <3>2, <3>3
    <3> QED
        BY <1>1, <2>1, <2>2, <3>4, <3>5 DEF ConnectionOK
  <2> QED
      BY <1>4, <2>3, <2>4
<1>5. frame.event \in {"status", "generation"} \cup Stopped
  <2>1. wire \in Seq(Frames) /\ Len(wire) > 0
      BY <1>1, <1>2 DEF ConnectionOK
  <2>2. frame \in Frames
      BY <1>1, <2>1
  <2> QED
      BY <2>2 DEF Frames
<1> QED
    BY <1>3, <1>4, <1>5

LEMMA DispatchKeepsStreamInv ==
    ASSUME StreamInv, NEW frame, NEW after, Dispatch(frame, after)
    PROVE  StreamInv'
<1>1. HistoryOK' /\ BrowserOK'
    BY DispatchKeepsBrowserOK DEF Dispatch, StreamInv, HistoryOK, history
<1>2. CASE after = "open"
  <2>1. GeneratorOK'
      BY <1>2 DEF Dispatch, StreamInv, GeneratorOK, history
  <2> QED
      BY <1>1, <1>2, <2>1, DispatchKeepsConnectionOK DEF StreamInv
<1>3. CASE after # "open"
  <2>1. client' # "open" /\ wire' = <<>> /\ phase' = "none"
      BY <1>3 DEF Dispatch, HandledIn
  <2>2. ConnectionOK'
      BY <2>1 DEF ConnectionOK, InFlight, StatusAhead, EndQueued
  <2>3. GeneratorOK'
      BY <2>1 DEF Dispatch, StreamInv, GeneratorOK, history
  <2> QED
      BY <1>1, <2>2, <2>3 DEF StreamInv
<1> QED
    BY <1>2, <1>3

-----------------------------------------------------------------------------
(* Steps of the generator.                                                 *)

LEMMA SentLast ==
    ASSUME ConnectionOK, NEW frame \in Frames, frame.event # "status",
           wire' = Append(wire, frame)
    PROVE  /\ wire' \in Seq(Frames) /\ Len(wire') = Len(wire) + 1
           /\ wire'[Len(wire')] = frame
           /\ \A i \in 1 .. Len(wire) : wire'[i] = wire[i]
           /\ StatusAhead' = StatusAhead
           /\ EndQueued' = IF frame.event \in Stopped THEN 1 ELSE 0
<1>1. /\ wire \in Seq(Frames) /\ Len(wire) \in Nat
      /\ wire' \in Seq(Frames) /\ Len(wire') = Len(wire) + 1
      /\ wire'[Len(wire) + 1] = frame
      /\ \A i \in 1 .. Len(wire) : wire'[i] = wire[i]
    BY DEF ConnectionOK
<1>2. wire' # <<>> /\ wire'[Len(wire')] = frame
    BY <1>1
<1>3. StatusAhead' = StatusAhead
  <2>1. CASE wire = <<>>
      BY <1>1, <1>2, <2>1 DEF StatusAhead
  <2>2. CASE wire # <<>>
    <3>1. wire'[1] = wire[1]
        BY <1>1, <2>2
    <3> QED
        BY <1>2, <2>2, <3>1 DEF StatusAhead
  <2> QED
      BY <2>1, <2>2
<1>4. EndQueued' = IF frame.event \in Stopped THEN 1 ELSE 0
    BY <1>2 DEF EndQueued
<1> QED
    BY <1>1, <1>2, <1>3, <1>4

\* Where the generator stands it has a client, and its end is not yet out.
LEMMA GeneratorRuns ==
    ASSUME StreamInv, phase # "none"
    PROVE  client = "open" /\ cursor = lastId + InFlight
  BY DEF StreamInv, ConnectionOK

LEMMA YieldKeepsStreamInv ==
    ASSUME StreamInv, Yield
    PROVE  StreamInv'
<1>1. HistoryOK' /\ BrowserOK'
    BY DEF Yield, StreamInv, HistoryOK, BrowserOK, NoGapNoRepeat, history, browser
<1>2. /\ cursor \in Nat /\ upto \in Nat /\ cursor < upto /\ upto <= logged[Watched]
      /\ ConnectionOK
    BY DEF Yield, StreamInv, GeneratorOK
<1>3. /\ phase' = phase /\ phase \in {"yielding", "last batch"}
      /\ cursor' = cursor + 1 /\ upto' = upto /\ pulse' = pulse
      /\ logged' = logged /\ status' = status
      /\ wire' = Append(wire, Frame("generation", cursor + 1))
      /\ client' = client /\ lastId' = lastId
    BY DEF Yield, history, browser
<1>4. GeneratorOK'
  <2>1. cursor \in Nat /\ upto \in Nat /\ cursor < upto
      BY <1>2
  <2>2. cursor' = cursor + 1 /\ upto' = upto
      BY <1>3
  <2>3. cursor' \in Nat /\ cursor' <= upto' /\ upto' \in Nat
      BY <2>1, <2>2
  <2>4. upto' <= logged'[Watched]
      BY <1>2, <1>3
  <2> QED
      BY <1>3, <2>3, <2>4 DEF StreamInv, GeneratorOK
<1>5. ConnectionOK'
  <2>1. Frame("generation", cursor + 1) \in Frames
      BY <1>2, Bounds DEF Frame, Frames, StreamInv
  <2>2. /\ wire' \in Seq(Frames) /\ Len(wire') = Len(wire) + 1
        /\ wire'[Len(wire')] = Frame("generation", cursor + 1)
        /\ \A i \in 1 .. Len(wire) : wire'[i] = wire[i]
        /\ StatusAhead' = StatusAhead /\ EndQueued' = 0
      BY <1>2, <1>3, <2>1, SentLast DEF Frame, Stopped
  <2>3. EndQueued = 0
      BY <1>2, <1>3, Counts DEF ConnectionOK
  <2>4. InFlight' = InFlight + 1 /\ StatusAhead + InFlight = Len(wire)
      BY <1>2, <2>2, <2>3, Counts DEF InFlight
  <2>5. client = "open" /\ cursor = lastId + InFlight /\ lastId \in Nat
      BY <1>3, GeneratorRuns DEF StreamInv, BrowserOK
  <2>6. cursor' = lastId' + InFlight'
    <3>1. cursor' = cursor + 1 /\ lastId' = lastId
        BY <1>3
    <3>2. InFlight \in Int
        BY <1>2, Counts
    <3> QED
        BY <2>4, <2>5, <3>1, <3>2
  <2>7. \A i \in 1 .. InFlight' : wire'[StatusAhead' + i] = Frame("generation", lastId' + i)
    <3> TAKE i \in 1 .. InFlight'
    <3>1. CASE i \in 1 .. InFlight
      <4>1. wire[StatusAhead + i] = Frame("generation", lastId + i)
          BY <1>2, <3>1 DEF ConnectionOK
      <4>2. StatusAhead + i \in 1 .. Len(wire)
          BY <1>2, <2>4, <3>1, Counts
      <4> QED
          BY <1>3, <2>2, <4>1, <4>2
    <3>2. CASE i = InFlight + 1
      <4>1. StatusAhead + i = Len(wire') /\ lastId + i = cursor + 1
          BY <1>2, <2>2, <2>4, <2>5, <3>2, Counts
      <4> QED
          BY <1>3, <2>2, <4>1
    <3> QED
        BY <1>2, <2>4, <3>1, <3>2, Counts
  <2>8. client' = "open"
      BY <1>3, <2>5
  <2> QED
      BY <2>2, <2>6, <2>7, <2>8 DEF ConnectionOK
<1> QED
    BY <1>1, <1>4, <1>5 DEF StreamInv

LEMMA FinishKeepsStreamInv ==
    ASSUME StreamInv, Finish
    PROVE  StreamInv'
<1>1. HistoryOK' /\ BrowserOK'
    BY DEF Finish, StreamInv, HistoryOK, BrowserOK, NoGapNoRepeat, history, browser
<1>2. /\ pulse \in Stopped /\ status[Watched] = pulse /\ upto = logged[Watched]
      /\ cursor \in Nat /\ cursor = upto
      /\ ConnectionOK
  <2>1. /\ cursor \in Nat /\ upto \in Nat /\ cursor <= upto /\ cursor >= upto
      BY DEF Finish, StreamInv, GeneratorOK
  <2>2. cursor = upto
      BY <2>1
  <2> QED
      BY <2>1, <2>2 DEF Finish, StreamInv, GeneratorOK
<1>3. /\ phase = "last batch" /\ phase' = "returned"
      /\ cursor' = cursor /\ upto' = upto /\ pulse' = pulse
      /\ logged' = logged /\ status' = status
      /\ wire' = Append(wire, TerminalFrame(pulse))
      /\ client' = client /\ lastId' = lastId
    BY DEF Finish, history, browser
<1>4. GeneratorOK'
    BY <1>2, <1>3 DEF GeneratorOK, StreamInv
<1>5. ConnectionOK'
  <2>1. TerminalFrame(pulse) \in Frames /\ TerminalFrame(pulse).event = pulse
      BY <1>2, PlannedIsPositive DEF TerminalFrame, Frame, Frames
  <2>2. /\ wire' \in Seq(Frames) /\ Len(wire') = Len(wire) + 1
        /\ wire'[Len(wire')] = TerminalFrame(pulse)
        /\ \A i \in 1 .. Len(wire) : wire'[i] = wire[i]
        /\ StatusAhead' = StatusAhead /\ EndQueued' = 1
    <3>1. pulse # "status"
        BY <1>2 DEF Stopped
    <3> QED
        BY <1>2, <1>3, <2>1, <3>1, SentLast
  <2>3. EndQueued = 0
      BY <1>2, <1>3, Counts DEF ConnectionOK
  <2>4. InFlight' = InFlight /\ StatusAhead + InFlight = Len(wire)
      BY <1>2, <2>2, <2>3, Counts DEF InFlight
  <2>5. client = "open" /\ cursor = lastId + InFlight
      BY <1>3, GeneratorRuns
  <2>6. \A i \in 1 .. InFlight' : wire'[StatusAhead' + i] = Frame("generation", lastId' + i)
    <3> TAKE i \in 1 .. InFlight'
    <3>1. i \in 1 .. InFlight /\ StatusAhead + i \in 1 .. Len(wire)
        BY <1>2, <2>4, Counts
    <3>2. wire[StatusAhead + i] = Frame("generation", lastId + i)
        BY <1>2, <3>1 DEF ConnectionOK
    <3> QED
        BY <1>3, <2>2, <3>1, <3>2
  <2> QED
      BY <1>3, <2>2, <2>4, <2>5, <2>6 DEF ConnectionOK
<1> QED
    BY <1>1, <1>4, <1>5 DEF StreamInv

\* Poll, Check and Drain read the store and send nothing.
LEMMA ReadsKeepStreamInv ==
    ASSUME StreamInv, Poll \/ Check \/ Drain
    PROVE  StreamInv'
<1>1. /\ UNCHANGED <<status, logged, served, cursor, wire, client, lastId, seen, told>>
      /\ phase \in {"polling", "yielding", "draining"}
      /\ phase' \in {"polling", "yielding", "draining", "last batch"}
    BY DEF Poll, Check, Drain, history, browser
<1>2. HistoryOK' /\ BrowserOK'
    BY <1>1 DEF StreamInv, HistoryOK, BrowserOK, NoGapNoRepeat
<1>3. ConnectionOK'
  <2>1. client = "open" /\ EndQueued = 0
      BY <1>1, Counts DEF StreamInv, ConnectionOK
  <2>2. StatusAhead' = StatusAhead /\ EndQueued' = 0 /\ InFlight' = InFlight
      BY <1>1, <2>1 DEF StatusAhead, EndQueued, InFlight
  <2> QED
      BY <1>1, <2>1, <2>2 DEF StreamInv, ConnectionOK
<1>4. GeneratorOK'
  <2>1. /\ cursor \in Nat /\ cursor <= upto /\ upto \in Nat
        /\ upto <= logged[Watched] /\ logged[Watched] \in Nat
      BY Bounds DEF StreamInv, GeneratorOK
  <2>2. cursor <= logged[Watched]
      BY <2>1
  <2>3. CASE Poll
      BY <1>1, <2>1, <2>2, <2>3 DEF Poll, GeneratorOK
  <2>4. CASE Check
      BY <1>1, <2>1, <2>4 DEF Check, GeneratorOK
  <2>5. CASE Drain
    <3>1. /\ phase' = "last batch" /\ upto' = logged[Watched] /\ pulse' = pulse
          /\ pulse \in Stopped /\ status[Watched] = pulse
        BY <2>5 DEF Drain, StreamInv, GeneratorOK
    <3>2. upto' \in Nat /\ cursor' \in Nat /\ cursor' <= upto'
        BY <1>1, <2>1, <2>2, <3>1
    <3>3. upto' = logged'[Watched]
        BY <1>1, <3>1
    <3>4. upto' <= logged'[Watched]
        BY <3>2, <3>3
    <3> QED
        BY <1>1, <3>1, <3>2, <3>3, <3>4 DEF GeneratorOK
  <2> QED
      BY <2>3, <2>4, <2>5
<1> QED
    BY <1>2, <1>3, <1>4 DEF StreamInv

-----------------------------------------------------------------------------
(* The theorem.                                                            *)

LEMMA StreamInvHoldsInitially == StreamInit => StreamInv
<1> SUFFICES ASSUME StreamInit PROVE StreamInv
    OBVIOUS
<1>1. HistoryOK /\ logged[Watched] = 0
    BY HistoryHoldsInitially, WatchedIsARun, StreamConstants DEF StreamInit, HistoryInit
<1>2. ConnectionOK
    BY DEF StreamInit, ConnectionOK, InFlight, StatusAhead, EndQueued
<1>3. GeneratorOK /\ BrowserOK
    BY <1>1 DEF StreamInit, GeneratorOK, BrowserOK, NoGapNoRepeat
<1> QED
    BY <1>1, <1>2, <1>3 DEF StreamInv

LEMMA StreamStepKeepsStreamInv ==
    ASSUME StreamInv, StreamNext
    PROVE  StreamInv'
<1>1. CASE RunGoesOn
    BY <1>1, RunKeepsStreamInv DEF RunGoesOn
<1>2. CASE Connect
    BY <1>2, ConnectKeepsStreamInv
<1>3. CASE Subscribe \/ Close
    BY <1>3, TroubleKeepsStreamInv
<1>4. ASSUME NEW after \in Clients,
             \/ ConnectFails(after) \/ ConnectRefused(after)
             \/ Drop(after) \/ EndOfResponse(after)
      PROVE  StreamInv'
    BY <1>4, TroubleKeepsStreamInv
<1>5. ASSUME NEW after \in Clients, NEW frame \in Frames, Dispatch(frame, after)
      PROVE  StreamInv'
    BY <1>5, DispatchKeepsStreamInv
<1>6. CASE Generator
    BY <1>6, ReadsKeepStreamInv, YieldKeepsStreamInv, FinishKeepsStreamInv DEF Generator
<1> QED
    BY <1>1, <1>2, <1>3, <1>4, <1>5, <1>6 DEF StreamNext

LEMMA StutterKeepsStreamInv ==
    ASSUME StreamInv, UNCHANGED <<history, stream>>
    PROVE  StreamInv'
  BY DEF history, stream, generator, browser, StreamInv, HistoryOK, ConnectionOK,
         InFlight, StatusAhead, EndQueued, GeneratorOK, BrowserOK, NoGapNoRepeat

\* What was dispatched is the log up to some generation; once the outcome is
\* told it is all of the log, and the outcome the one on record.
LEMMA StreamInvIsEnough == StreamInv => StreamIsTheLog
<1> SUFFICES ASSUME StreamInv, NEW outcome \in told
             PROVE  /\ outcome = status[Watched]
                    /\ Len(seen) = logged[Watched]
                    /\ served[Watched] = logged[Watched]
    BY DEF StreamInv, BrowserOK, StreamIsTheLog, TerminalFrameIsLast
<1>1. /\ outcome \in Stopped /\ outcome = status[Watched]
      /\ Len(seen) = logged[Watched]
    BY DEF StreamInv, BrowserOK
<1> QED
    BY <1>1, WatchedIsARun, StreamConstants DEF StreamInv, HistoryOK

\* Whatever was lost on the way, and wherever between two reads of the
\* generator the run ended, the subscriber has the log and then the outcome.
THEOREM SentIsLogged == StreamSpec => []StreamIsTheLog
<1>1. StreamInv /\ [StreamNext]_<<history, stream>> => StreamInv'
    BY StreamStepKeepsStreamInv, StutterKeepsStreamInv
<1> QED
    BY <1>1, StreamInvHoldsInitially, StreamInvIsEnough, PTL DEF StreamSpec

(***************************************************************************)
(* What screen 02 draws is the search, for any length of it: every step of *)
(* the page takes the stream as above, what is drawn and what waits are    *)
(* what was dispatched, and the page does not leave before it has drawn    *)
(* all of a search that succeeded.                                         *)
(***************************************************************************)
DrawingOK ==
    /\ waiting \in Seq(Nat) /\ shown \in Seq(Nat)
    /\ DrawnInOrder

\* A page that has moved on has closed its stream, so nothing arrives after.
LeavingOK ==
    /\ finished => "succeeded" \in told
    /\ note = "moved on" => /\ finished /\ waiting = <<>> /\ readable
                            /\ client = "closed"

PageInv == StreamInv /\ DrawingOK /\ LeavingOK

-----------------------------------------------------------------------------
(* Sequences.                                                              *)

LEMMA DrawOne ==
    ASSUME NEW drawn \in Seq(Nat), NEW queue \in Seq(Nat), queue # <<>>
    PROVE  /\ Append(drawn, Head(queue)) \o Tail(queue) = drawn \o queue
           /\ Append(drawn, Head(queue)) \in Seq(Nat) /\ Tail(queue) \in Seq(Nat)
<1>1. /\ Len(queue) \in Nat /\ Len(queue) > 0
      /\ Head(queue) = queue[1] /\ Head(queue) \in Nat /\ Tail(queue) \in Seq(Nat)
      /\ <<Head(queue)>> \in Seq(Nat)
    BY HeadTailProperties
<1>2. queue = <<Head(queue)>> \o Tail(queue)
    BY <1>1, SubSeqFull, SubSeqRecursiveFirst, TailIsSubSeq
<1>3. Append(drawn, Head(queue)) = drawn \o <<Head(queue)>>
    BY <1>1, AppendIsConcat
<1>4. (drawn \o <<Head(queue)>>) \o Tail(queue) = drawn \o (<<Head(queue)>> \o Tail(queue))
    BY <1>1, ConcatAssociative
<1>5. Append(drawn, Head(queue)) \o Tail(queue) = drawn \o queue
    BY <1>2, <1>3, <1>4, Zenon
<1> QED
    BY <1>1, <1>5, AppendProperties

LEMMA QueueOne ==
    ASSUME NEW drawn \in Seq(Nat), NEW queue \in Seq(Nat), NEW n \in Nat
    PROVE  drawn \o Append(queue, n) = Append(drawn \o queue, n)
  OBVIOUS

-----------------------------------------------------------------------------
(* Steps that draw nothing.                                                *)

\* The stream keeps its promise under every step of the page.
LEMMA PageStepKeepsStreamInv ==
    ASSUME StreamInv, PageNext
    PROVE  StreamInv'
<1>1. CASE RunGoesOn \/ Connect \/ Generator
    BY <1>1, StreamStepKeepsStreamInv DEF StreamNext
<1>2. CASE Start
    BY <1>2, TroubleKeepsStreamInv DEF Start
<1>3. CASE ResultArrives \/ MinimumPasses
    BY <1>3, StutterKeepsStreamInv DEF ResultArrives, MinimumPasses
<1>4. CASE ResultFails \/ Tick \/ HoldEnds \/ Cancel
  <2>1. Close \/ UNCHANGED <<history, stream>>
      BY <1>4 DEF ResultFails, Tick, HoldEnds, Cancel, Settle
  <2> QED
      BY <2>1, TroubleKeepsStreamInv, StutterKeepsStreamInv
<1>5. CASE Listens
  <2>1. PICK frame, after : Dispatch(frame, after)
      BY <1>5 DEF Listens, StatusArrives, Arrive, DoneArrives, FailedArrives
  <2> QED
      BY <2>1, DispatchKeepsStreamInv
<1>6. CASE Dropped
  <2>1. PICK after : Dropping(after)
      BY <1>6 DEF Dropped
  <2> QED
      BY <2>1, TroubleKeepsStreamInv DEF Dropping
<1> QED
    BY <1>1, <1>2, <1>3, <1>4, <1>5, <1>6 DEF PageNext

\* A step that neither draws, nor queues, nor moves on.
LEMMA QuietKeepsPageInv ==
    ASSUME DrawingOK, LeavingOK,
           UNCHANGED <<waiting, shown, seen, finished>>,
           told \subseteq told',
           readable => readable',
           note' = "moved on" => note = "moved on",
           client = "closed" => client' = "closed"
    PROVE  DrawingOK' /\ LeavingOK'
  BY DEF DrawingOK, DrawnInOrder, LeavingOK

LEMMA QuietSteps ==
    ASSUME PageInv,
           \/ (RunGoesOn \/ Connect \/ Generator) /\ UNCHANGED page
           \/ Start \/ ResultArrives \/ ResultFails \/ MinimumPasses \/ Cancel
    PROVE  DrawingOK' /\ LeavingOK'
<1>1. CASE (RunGoesOn \/ Connect \/ Generator) /\ UNCHANGED page
  <2>1. /\ UNCHANGED <<waiting, shown, seen, finished, told, readable, note>>
        /\ client = "closed" => client' = "closed"
      BY <1>1 DEF RunGoesOn, Connect, Generator, Poll, Yield, Check, Drain, Finish,
                  page, stream, browser
  <2> QED
      BY <2>1, QuietKeepsPageInv DEF PageInv
<1>2. CASE Start
  <2>1. /\ UNCHANGED <<waiting, shown, seen, finished, told, readable>>
        /\ note' = "searching" /\ client = "absent"
      BY <1>2 DEF Start, Subscribe
  <2> QED
      BY <2>1, QuietKeepsPageInv DEF PageInv
<1>3. CASE ResultArrives
    BY <1>3, QuietKeepsPageInv DEF ResultArrives, stream, browser, PageInv
<1>4. CASE ResultFails \/ Cancel
  <2>1. /\ UNCHANGED <<waiting, shown, seen, finished, told, readable>>
        /\ note' = "moved on" => note = "moved on"
        /\ client = "closed" => client' = "closed"
      BY <1>4 DEF ResultFails, Cancel, Stop, Close, stream, browser
  <2> QED
      BY <2>1, QuietKeepsPageInv DEF PageInv
<1>5. CASE MinimumPasses
    BY <1>5, QuietKeepsPageInv DEF MinimumPasses, stream, browser, PageInv
<1> QED
    BY <1>1, <1>2, <1>3, <1>4, <1>5

LEMMA LostConnections ==
    ASSUME PageInv, Dropped
    PROVE  DrawingOK' /\ LeavingOK'
<1>1. /\ UNCHANGED <<waiting, shown, seen, finished, told, readable>>
      /\ note' = note \/ note' = "lost"
      /\ client # "closed"
    BY DEF Dropped, Dropping, Drop, EndOfResponse, ConnectFails, ConnectRefused, Stop
<1> QED
    BY <1>1, QuietKeepsPageInv DEF PageInv

-----------------------------------------------------------------------------
(* Frames and drawing.                                                     *)

LEMMA QuietFrames ==
    ASSUME PageInv, StatusArrives \/ FailedArrives
    PROVE  DrawingOK' /\ LeavingOK'
<1>1. /\ UNCHANGED <<waiting, shown, seen, finished, readable>>
      /\ told \subseteq told'
      /\ note' = note \/ note' = "failed"
      /\ client # "closed"
    BY DEF StatusArrives, FailedArrives, Dispatch, Frame, TerminalFrame, Stopped, Stop
<1> QED
    BY <1>1, QuietKeepsPageInv DEF PageInv

LEMMA ARoundArrives ==
    ASSUME PageInv, NEW n \in 1 .. Planned, Arrive(n)
    PROVE  DrawingOK' /\ LeavingOK'
<1>1. /\ seen' = Append(seen, n) /\ waiting' = Append(waiting, n)
      /\ client = "open"
      /\ UNCHANGED <<shown, finished, readable, note>>
      /\ told \subseteq told'
    BY DEF Arrive, Dispatch, Frame, Stopped
<1>2. DrawingOK'
  <2>1. n \in Nat
      BY PlannedIsPositive
  <2>2. shown \o Append(waiting, n) = Append(shown \o waiting, n)
      BY <2>1, QueueOne DEF PageInv, DrawingOK
  <2>3. waiting' \in Seq(Nat) /\ shown' \in Seq(Nat)
      BY <1>1, <2>1, AppendProperties DEF PageInv, DrawingOK
  <2>4. shown' \o waiting' = seen'
      BY <1>1, <2>2, Zenon DEF PageInv, DrawingOK, DrawnInOrder
  <2> QED
      BY <2>3, <2>4 DEF DrawingOK, DrawnInOrder
<1>3. LeavingOK'
    BY <1>1 DEF PageInv, LeavingOK
<1> QED
    BY <1>2, <1>3

LEMMA TheEndArrives ==
    ASSUME PageInv, DoneArrives
    PROVE  DrawingOK' /\ LeavingOK'
<1>1. /\ UNCHANGED <<waiting, shown, seen, readable>>
      /\ client = "open" /\ finished' = TRUE
      /\ told' = told \cup {"succeeded"}
    BY DEF DoneArrives, Dispatch, Frame, TerminalFrame, Stopped
<1>2. DrawingOK'
    BY <1>1 DEF PageInv, DrawingOK, DrawnInOrder
<1>3. CASE MovesOn(TRUE, waiting)
  <2>1. waiting = <<>> /\ readable /\ client' = "closed"
      BY <1>3 DEF DoneArrives, MovesOn, Settles, Dispatch, HandledIn
  <2> QED
      BY <1>1, <1>2, <2>1 DEF LeavingOK
<1>4. CASE ~MovesOn(TRUE, waiting)
  <2>1. note' = note
      BY <1>4 DEF DoneArrives, Hold
  <2> QED
      BY <1>1, <1>2, <2>1 DEF PageInv, LeavingOK
<1> QED
    BY <1>3, <1>4

LEMMA TimersFire ==
    ASSUME PageInv, Tick \/ HoldEnds
    PROVE  DrawingOK' /\ LeavingOK'
<1>1. UNCHANGED <<seen, told, finished, readable>>
    BY DEF Tick, HoldEnds, Settle, Close, stream, browser
<1>2. DrawingOK'
  <2>1. CASE waiting' = waiting /\ shown' = shown
      BY <1>1, <2>1 DEF PageInv, DrawingOK, DrawnInOrder
  <2>2. CASE ~(waiting' = waiting /\ shown' = shown)
    <3>1. /\ waiting # <<>> /\ waiting' = Tail(waiting)
          /\ shown' = Append(shown, Head(waiting))
        BY <2>2 DEF Tick, HoldEnds
    <3>2. /\ shown' \o waiting' = shown \o waiting
          /\ shown' \in Seq(Nat) /\ waiting' \in Seq(Nat)
        BY <3>1, DrawOne DEF PageInv, DrawingOK
    <3> QED
        BY <1>1, <3>2 DEF PageInv, DrawingOK, DrawnInOrder
  <2> QED
      BY <2>1, <2>2
<1>3. LeavingOK'
  <2>1. CASE note' = "moved on" /\ client' = "closed"
            /\ finished /\ waiting' = <<>> /\ readable
      BY <1>1, <2>1 DEF PageInv, LeavingOK
  <2>2. CASE note' = note /\ client' = client
    <3>1. waiting = <<>> => waiting' = <<>>
        BY DEF Tick, HoldEnds
    <3> QED
        BY <1>1, <2>2, <3>1 DEF PageInv, LeavingOK
  <2>3. \/ /\ note' = "moved on" /\ client' = "closed"
           /\ finished /\ waiting' = <<>> /\ readable
        \/ note' = note /\ client' = client
      BY DEF Tick, HoldEnds, Settle, MovesOn, Settles, Stop, Hold, Close, stream, browser
  <2> QED
      BY <2>1, <2>2, <2>3
<1> QED
    BY <1>2, <1>3

-----------------------------------------------------------------------------
(* The theorems.                                                           *)

LEMMA PageInvHoldsInitially == PageInit => PageInv
<1> SUFFICES ASSUME PageInit PROVE PageInv
    OBVIOUS
<1>1. StreamInv
    BY StreamInvHoldsInitially DEF PageInit
<1>2. /\ waiting = <<>> /\ shown = <<>> /\ seen = <<>>
      /\ finished = FALSE /\ note = "unopened"
    BY DEF PageInit, StreamInit
<1>3. <<>> \o <<>> = <<>>
    OBVIOUS
<1>4. DrawingOK
    BY <1>2, <1>3 DEF DrawingOK, DrawnInOrder
<1> QED
    BY <1>1, <1>2, <1>4 DEF PageInv, LeavingOK

LEMMA PageInvIsKept == PageInv /\ [PageNext]_all => PageInv'
<1> SUFFICES ASSUME PageInv, [PageNext]_all PROVE PageInv'
    OBVIOUS
<1>1. CASE PageNext
  <2>1. StreamInv'
      BY <1>1, PageStepKeepsStreamInv DEF PageInv
  <2>2. DrawingOK' /\ LeavingOK'
    <3>1. CASE Listens
        BY <3>1, QuietFrames, ARoundArrives, TheEndArrives DEF Listens
    <3>2. CASE Dropped
        BY <3>2, LostConnections
    <3>3. CASE Tick \/ HoldEnds
        BY <3>3, TimersFire
    <3>4. CASE ~(Listens \/ Dropped \/ Tick \/ HoldEnds)
        BY <1>1, <3>4, QuietSteps DEF PageNext
    <3> QED
        BY <3>1, <3>2, <3>3, <3>4
  <2> QED
      BY <2>1, <2>2 DEF PageInv
<1>2. CASE UNCHANGED all
  <2>1. StreamInv'
      BY <1>2, StutterKeepsStreamInv DEF all, PageInv
  <2>2. DrawingOK' /\ LeavingOK'
      BY <1>2, QuietKeepsPageInv DEF all, page, stream, browser, PageInv
  <2> QED
      BY <2>1, <2>2 DEF PageInv
<1> QED
    BY <1>1, <1>2

LEMMA PageInvAlways == PageSpec => []PageInv
  BY PageInvHoldsInitially, PageInvIsKept, PTL DEF PageSpec

\* When the page has moved on, the outcome was told, so all of the log was
\* dispatched before it; nothing waits, so all of it is drawn.
LEMMA LeftMeansDrawn == PageInv => MovesOnWhenAllIsDrawn
<1> SUFFICES ASSUME PageInv, note = "moved on"
             PROVE  /\ status[Watched] = "succeeded"
                    /\ shown = [i \in 1 .. Planned |-> i]
                    /\ readable
    BY DEF MovesOnWhenAllIsDrawn
<1>1. /\ "succeeded" \in told /\ waiting = <<>> /\ readable
    BY DEF PageInv, LeavingOK
<1>2. /\ status[Watched] = "succeeded" /\ Len(seen) = logged[Watched]
      /\ seen \in Seq(Nat) /\ NoGapNoRepeat
    BY <1>1 DEF PageInv, StreamInv, BrowserOK
<1>3. Len(seen) = Planned
    BY <1>2, WatchedIsARun, StreamConstants DEF PageInv, StreamInv, HistoryOK
<1>4. shown = seen
    BY <1>1, ConcatEmptySeq DEF PageInv, DrawingOK, DrawnInOrder
<1>5. seen = [i \in 1 .. Planned |-> i]
  <2>1. seen \in [1 .. Planned -> Nat] /\ \A i \in 1 .. Planned : seen[i] = i
      BY <1>2, <1>3, LenProperties DEF NoGapNoRepeat
  <2> QED
      BY <2>1
<1> QED
    BY <1>1, <1>2, <1>4, <1>5

\* The page draws the whole search as it was sent, and leaves when it has.
THEOREM DrawnIsSent == PageSpec => []PageShowsTheSearch
<1>1. PageInv => PageShowsTheSearch
    BY LeftMeansDrawn DEF PageInv, DrawingOK, PageShowsTheSearch
<1> QED
    BY <1>1, PageInvAlways, PTL

\* And what it was sent is the log: the page is a subscriber like any other.
THEOREM PageIsASubscriber == PageSpec => []StreamIsTheLog
<1>1. PageInv => StreamIsTheLog
    BY StreamInvIsEnough DEF PageInv
<1> QED
    BY <1>1, PageInvAlways, PTL

-----------------------------------------------------------------------------
(* The pipeline through its caches (PipelineCache).                        *)

EntriesOf(value) == {[hold |-> h, value |-> value[h]] : h \in Holds}

OncePerHold(cache) ==
    \A i, j \in DOMAIN cache : cache[i].hold = cache[j].hold => i = j

CacheOf(value, cache) ==
    /\ cache \in Seq(EntriesOf(value))
    /\ Len(cache) <= CacheEntries
    /\ OncePerHold(cache)

LEMMA EntryFound ==
    ASSUME NEW value, NEW cache, CacheOf(value, cache), NEW h, h \in Keys(cache)
    PROVE  /\ PlaceOf(cache, h) \in 1 .. Len(cache)
           /\ EntryAt(cache, h) \in EntriesOf(value)
           /\ EntryAt(cache, h).hold = h /\ EntryAt(cache, h).value = value[h]
<1>1. cache \in Seq(EntriesOf(value))
  BY DEF CacheOf
<1>2. \E i \in DOMAIN cache : cache[i].hold = h
  BY DEF Keys
<1>3. PlaceOf(cache, h) \in DOMAIN cache /\ cache[PlaceOf(cache, h)].hold = h
  BY <1>2 DEF PlaceOf
<1>4. EntryAt(cache, h) \in EntriesOf(value) /\ EntryAt(cache, h).hold = h
  BY <1>1, <1>3 DEF EntryAt
<1>5. EntryAt(cache, h).value = value[h]
  BY <1>4 DEF EntriesOf
<1>. QED  BY <1>1, <1>3, <1>4, <1>5

LEMMA ElementsOfConcat ==
    ASSUME NEW E, NEW low \in Seq(E), NEW high \in Seq(E)
    PROVE  /\ low \o high \in Seq(E) /\ Len(low \o high) = Len(low) + Len(high)
           /\ \A j \in 1 .. Len(low) : (low \o high)[j] = low[j]
           /\ \A j \in Len(low) + 1 .. Len(low) + Len(high) :
                 (low \o high)[j] = high[j - Len(low)]
<1>1. /\ low \o high \in Seq(E) /\ Len(low \o high) = Len(low) + Len(high)
  OBVIOUS
<1>2. \A j \in 1 .. Len(low) : (low \o high)[j] = low[j]
  OBVIOUS
<1>3. ASSUME NEW j \in Len(low) + 1 .. Len(low) + Len(high)
      PROVE  (low \o high)[j] = high[j - Len(low)]
  OBVIOUS
<1>. QED  BY <1>1, <1>2, <1>3

\* Where the entries go when one of them is moved to the end.
MovedFrom(p, cache, new) ==
    /\ Len(new) = Len(cache)
    /\ new[Len(cache)] = cache[p]
    /\ \A j \in 1 .. p - 1 : new[j] = cache[j]
    /\ \A j \in p .. Len(cache) - 1 : new[j] = cache[j + 1]

LEMMA MovedToTheEnd ==
    ASSUME NEW E, NEW cache \in Seq(E), NEW p \in 1 .. Len(cache),
           NEW new, new = Append(RemoveAt(cache, p), cache[p])
    PROVE  new \in Seq(E) /\ MovedFrom(p, cache, new)
<1>. DEFINE low == SubSeq(cache, 1, p - 1)
            high == SubSeq(cache, p + 1, Len(cache))
            left == low \o high
<1>1. Len(cache) \in Nat /\ p \in Int
  OBVIOUS
<1>2. /\ low \in Seq(E) /\ Len(low) = p - 1
      /\ \A j \in 1 .. p - 1 : low[j] = cache[j]
  <2>1. \A i \in 1 .. p - 1 : cache[i] \in E
    BY <1>1
  <2>. QED  BY <1>1, <2>1, SubSeqProperties
<1>3. /\ high \in Seq(E) /\ Len(high) = Len(cache) - p
      /\ \A j \in 1 .. Len(cache) - p : high[j] = cache[p + j]
  <2>1. \A i \in p + 1 .. Len(cache) : cache[i] \in E
    BY <1>1
  <2>. QED  BY <1>1, <2>1, SubSeqProperties
<1>. HIDE DEF low, high
<1>4. /\ left \in Seq(E) /\ Len(left) = Len(cache) - 1
      /\ \A j \in 1 .. Len(cache) - 1 :
            left[j] = IF j < p THEN cache[j] ELSE cache[j + 1]
  <2>1. /\ left \in Seq(E) /\ Len(left) = Len(low) + Len(high)
        /\ \A j \in 1 .. Len(low) : left[j] = low[j]
        /\ \A j \in Len(low) + 1 .. Len(low) + Len(high) : left[j] = high[j - Len(low)]
    BY <1>2, <1>3, ElementsOfConcat, Zenon
  <2>. HIDE DEF left
  <2>2. Len(left) = Len(cache) - 1
    BY <1>1, <1>2, <1>3, <2>1
  <2>3. ASSUME NEW j \in 1 .. Len(cache) - 1, j < p
        PROVE  left[j] = cache[j]
    BY <1>1, <1>2, <2>1, <2>3
  <2>4. ASSUME NEW j \in 1 .. Len(cache) - 1, ~(j < p)
        PROVE  left[j] = cache[j + 1]
    <3>1. j \in Len(low) + 1 .. Len(low) + Len(high) /\ j - Len(low) = j - (p - 1)
      BY <1>1, <1>2, <1>3, <2>4
    <3>2. j - (p - 1) \in 1 .. Len(cache) - p
      BY <1>1, <2>4
    <3>3. high[j - (p - 1)] = cache[p + (j - (p - 1))]
      BY <1>3, <3>2
    <3>4. p + (j - (p - 1)) = j + 1
      BY <1>1
    <3>. QED  BY <2>1, <3>1, <3>3, <3>4
  <2>. QED  BY <2>1, <2>2, <2>3, <2>4
<1>5. new = Append(left, cache[p]) /\ cache[p] \in E
  BY DEF RemoveAt, low, high
<1>. HIDE DEF left
<1>6. /\ new \in Seq(E) /\ Len(new) = Len(left) + 1
      /\ \A i \in 1 .. Len(left) : new[i] = left[i]
      /\ new[Len(left) + 1] = cache[p]
  BY <1>4, <1>5, AppendProperties
<1>7. Len(new) = Len(cache) /\ new[Len(cache)] = cache[p]
  BY <1>1, <1>4, <1>6
<1>8. ASSUME NEW j \in 1 .. p - 1 PROVE new[j] = cache[j]
  BY <1>1, <1>4, <1>6
<1>9. ASSUME NEW j \in p .. Len(cache) - 1 PROVE new[j] = cache[j + 1]
  BY <1>1, <1>4, <1>6
<1>. QED  BY <1>6, <1>7, <1>8, <1>9 DEF MovedFrom

LEMMA TouchedCache ==
    ASSUME NEW value, NEW cache, CacheOf(value, cache), NEW h, h \in Keys(cache)
    PROVE  CacheOf(value, Touched(cache, h))
<1>. DEFINE E == EntriesOf(value)
            p == PlaceOf(cache, h)
            new == Touched(cache, h)
<1>1. cache \in Seq(E) /\ p \in 1 .. Len(cache)
      /\ new = Append(RemoveAt(cache, p), cache[p])
  BY EntryFound DEF CacheOf, Touched, EntryAt
<1>. HIDE DEF E, p, new
<1>2. new \in Seq(E) /\ MovedFrom(p, cache, new)
  BY <1>1, MovedToTheEnd, Zenon
<1>3. OncePerHold(new)
  <2>1. \A i, j \in 1 .. Len(cache) : cache[i].hold = cache[j].hold => i = j
    BY <1>1 DEF CacheOf, OncePerHold
  <2>. SUFFICES ASSUME NEW i \in 1 .. Len(cache), NEW j \in 1 .. Len(cache),
                       new[i].hold = new[j].hold
                PROVE  i = j
    BY <1>1, <1>2 DEF MovedFrom, OncePerHold
  <2>. DEFINE from(k) == IF k = Len(cache) THEN p ELSE IF k < p THEN k ELSE k + 1
  <2>2. from(i) \in 1 .. Len(cache) /\ from(j) \in 1 .. Len(cache)
    BY <1>1
  <2>3. ASSUME NEW k \in 1 .. Len(cache) PROVE new[k] = cache[from(k)]
    <3>1. Len(cache) \in Nat /\ p \in 1 .. Len(cache)
      BY <1>1
    <3>2. CASE k = Len(cache)
      BY <1>2, <3>2 DEF MovedFrom
    <3>3. CASE k < p
      BY <1>2, <3>1, <3>3 DEF MovedFrom
    <3>4. CASE ~(k < p) /\ k # Len(cache)
      <4>1. k \in p .. Len(cache) - 1
        BY <3>1, <3>4
      <4>. QED  BY <1>2, <3>4, <4>1 DEF MovedFrom
    <3>. QED  BY <3>2, <3>3, <3>4
  <2>4. from(i) = from(j)
    BY <2>1, <2>2, <2>3
  <2>. QED  BY <1>1, <2>4
<1>. QED  BY <1>2, <1>3 DEF CacheOf, MovedFrom, E, new

LEMMA TrimmedOne ==
    ASSUME NEW E, NEW cache \in Seq(E), Len(cache) <= CacheEntries + 1
    PROVE  /\ TrimmedCache(cache) \in Seq(E)
           /\ Len(TrimmedCache(cache)) <= CacheEntries
           /\ OncePerHold(cache) => OncePerHold(TrimmedCache(cache))
<1>1. CacheEntries \in Nat /\ Len(cache) \in Nat
  BY CacheConstants
<1>2. CASE Len(cache) <= CacheEntries
  BY <1>2 DEF TrimmedCache
<1>3. CASE Len(cache) = CacheEntries + 1
  <2>1. TrimmedCache(cache) = SubSeq(cache, 2, Len(cache))
    BY <1>1, <1>3 DEF TrimmedCache
  <2>2. \A i \in 2 .. Len(cache) : cache[i] \in E
    OBVIOUS
  <2>3. /\ SubSeq(cache, 2, Len(cache)) \in Seq(E)
        /\ Len(SubSeq(cache, 2, Len(cache))) = CacheEntries
        /\ \A i \in 1 .. CacheEntries : SubSeq(cache, 2, Len(cache))[i] = cache[i + 1]
    BY <1>1, <1>3, <2>2, SubSeqProperties
  <2>4. OncePerHold(cache) => OncePerHold(TrimmedCache(cache))
    <3>. DEFINE trimmed == TrimmedCache(cache)
    <3>1. \A i \in DOMAIN trimmed : i + 1 \in DOMAIN cache /\ trimmed[i] = cache[i + 1]
      BY <1>1, <1>3, <2>1, <2>3
    <3>2. DOMAIN trimmed \subseteq Int
      BY <2>1, <2>3
    <3>. HIDE DEF trimmed
    <3>. QED  BY <3>1, <3>2 DEF OncePerHold, trimmed
  <2>. QED  BY <1>1, <2>1, <2>3, <2>4
<1>. QED  BY <1>1, <1>2, <1>3

LEMMA KeptCache ==
    ASSUME NEW value, NEW cache, CacheOf(value, cache), NEW h \in Holds
    PROVE  CacheOf(value, Kept(cache, h, value[h]))
<1>. DEFINE e == [hold |-> h, value |-> value[h]]
<1>1. e \in EntriesOf(value) /\ cache \in Seq(EntriesOf(value))
  BY DEF EntriesOf, CacheOf
<1>2. CASE h \in Keys(cache)
  <2>1. ASSUME NEW i \in DOMAIN cache, cache[i].hold = h PROVE cache[i] = e
    BY <1>1, <2>1 DEF EntriesOf
  <2>2. Kept(cache, h, value[h])
          = [i \in DOMAIN cache |-> IF cache[i].hold = h THEN e ELSE cache[i]]
    BY <1>2, Zenon DEF Kept
  <2>3. Kept(cache, h, value[h]) = [i \in DOMAIN cache |-> cache[i]]
    BY <2>1, <2>2
  <2>. QED  BY <1>1, <2>3
<1>3. CASE h \notin Keys(cache)
  <2>. DEFINE more == Append(cache, e)
  <2>1. Kept(cache, h, value[h]) = TrimmedCache(more)
    BY <1>3 DEF Kept
  <2>. HIDE DEF e
  <2>2. /\ more \in Seq(EntriesOf(value)) /\ Len(more) = Len(cache) + 1
        /\ \A i \in 1 .. Len(cache) : more[i] = cache[i]
        /\ more[Len(cache) + 1] = e
    BY <1>1, AppendProperties
  <2>3. e.hold = h
    BY DEF e
  <2>4. OncePerHold(more)
    BY <1>1, <1>3, <2>2, <2>3 DEF OncePerHold, CacheOf, Keys
  <2>5. Len(more) <= CacheEntries + 1
    BY <1>1, <2>2, CacheConstants DEF CacheOf
  <2>. HIDE DEF more
  <2>. QED  BY <2>1, <2>2, <2>4, <2>5, TrimmedOne DEF CacheOf
<1>. QED  BY <1>2, <1>3

-----------------------------------------------------------------------------
(* The loads of a server.                                                  *)

\* What a load says of itself under a hold period.
Computed(content) == [h \in Holds |-> ReturnsOf(content, h)]
Exact(content, h) == Payload(content, h, ReturnsOf(content, h))
Rendered(content) == [h \in Holds |-> Exact(content, h)]

CachesOf(value) == {cache \in Seq(EntriesOf(value)) :
                       Len(cache) <= CacheEntries /\ OncePerHold(cache)}

\* Its caches hold nothing else.
HonestLoads ==
    UNION {{[content |-> c, returns |-> a, rendered |-> b] :
               a \in CachesOf(Computed(c)), b \in CachesOf(Rendered(c))} :
                  c \in LoadContents}

LEMMA HonestLoad ==
    ASSUME NEW l \in HonestLoads
    PROVE  /\ l.content \in LoadContents
           /\ CacheOf(Computed(l.content), l.returns)
           /\ CacheOf(Rendered(l.content), l.rendered)
           /\ \A x : CacheOf(Computed(l.content), x) =>
                 /\ [l EXCEPT !.returns = x] \in HonestLoads
                 /\ [l EXCEPT !.returns = x].content = l.content
           /\ \A x : CacheOf(Rendered(l.content), x) =>
                 /\ [l EXCEPT !.rendered = x] \in HonestLoads
                 /\ [l EXCEPT !.rendered = x].content = l.content
<1>0. PICK c \in LoadContents :
         \E a \in CachesOf(Computed(c)), b \in CachesOf(Rendered(c)) :
            l = [content |-> c, returns |-> a, rendered |-> b]
  BY DEF HonestLoads
<1>1. PICK a \in CachesOf(Computed(c)), b \in CachesOf(Rendered(c)) :
         l = [content |-> c, returns |-> a, rendered |-> b]
  BY <1>0
<1>2. l.content = c /\ l.returns = a /\ l.rendered = b
  BY <1>1
<1>3. CacheOf(Computed(c), a) /\ CacheOf(Rendered(c), b)
  BY DEF CachesOf, CacheOf
<1>4. ASSUME NEW x, CacheOf(Computed(c), x)
      PROVE  [l EXCEPT !.returns = x] \in HonestLoads
             /\ [l EXCEPT !.returns = x].content = c
  <2>1. [l EXCEPT !.returns = x] = [content |-> c, returns |-> x, rendered |-> b]
    BY <1>1
  <2>2. x \in CachesOf(Computed(c))
    BY <1>4 DEF CachesOf, CacheOf
  <2>. QED  BY <2>1, <2>2 DEF HonestLoads
<1>5. ASSUME NEW x, CacheOf(Rendered(c), x)
      PROVE  [l EXCEPT !.rendered = x] \in HonestLoads
             /\ [l EXCEPT !.rendered = x].content = c
  <2>1. [l EXCEPT !.rendered = x] = [content |-> c, returns |-> a, rendered |-> x]
    BY <1>1
  <2>2. x \in CachesOf(Rendered(c))
    BY <1>5 DEF CachesOf, CacheOf
  <2>. QED  BY <2>1, <2>2 DEF HonestLoads
<1>. QED  BY <1>2, <1>3, <1>4, <1>5

LEMMA FreshIsHonest ==
    ASSUME NEW c \in LoadContents
    PROVE  FreshLoad(c) \in HonestLoads /\ FreshLoad(c).content = c
<1>1. \A value : <<>> \in CachesOf(value)
  BY CacheConstants DEF CachesOf, OncePerHold
<1>. QED  BY <1>1 DEF FreshLoad, HonestLoads

\* A load is never another one later.
ContentsKept(before, after) ==
    /\ Len(before) <= Len(after)
    /\ \A n \in 1 .. Len(before) : after[n].content = before[n].content

LEMMA OneLoadReplaced ==
    ASSUME NEW ls \in Seq(HonestLoads), NEW n \in 1 .. Len(ls),
           NEW l \in HonestLoads, l.content = ls[n].content
    PROVE  /\ [ls EXCEPT ![n] = l] \in Seq(HonestLoads)
           /\ Len([ls EXCEPT ![n] = l]) = Len(ls)
           /\ ContentsKept(ls, [ls EXCEPT ![n] = l])
<1>1. /\ [ls EXCEPT ![n] = l] \in Seq(HonestLoads)
      /\ Len([ls EXCEPT ![n] = l]) = Len(ls)
      /\ \A j \in 1 .. Len(ls) : [ls EXCEPT ![n] = l][j] = IF j = n THEN l ELSE ls[j]
  BY ExceptSeq
<1>. QED  BY <1>1 DEF ContentsKept

-----------------------------------------------------------------------------
(* The requests.                                                           *)

ReturnsSet == [content : LoadContents, hold : Holds]
Payloads == [content : LoadContents, hold : Holds, returns : ReturnsSet]
OnServer == {"taken", "building", "computing", "built", "rendered"}

Places == [at : OnServer \cup {"idle", "sent", "resolved"},
           hold : Holds \cup {Nothing}, kept : Payloads \cup {Nothing},
           since : Nat, load : Nat, returns : ReturnsSet \cup {Nothing},
           payload : Payloads \cup {Nothing}]

\* A payload of any load, under its own hold period.
Genuine(payload, h) ==
    payload # Nothing => \E c \in LoadContents : payload = Exact(c, h)

RequestOK(r, ls) ==
    /\ r \in Places
    /\ r.at # "idle" => /\ r.hold \in Holds /\ r.since \in 1 .. Len(ls)
                        /\ Genuine(r.kept, r.hold)
    /\ r.at \in OnServer => r.load \in r.since .. Len(ls)
    /\ r.at = "built" => r.returns = ReturnsOf(ls[r.load].content, r.hold)
    /\ r.at = "rendered" => r.payload = Exact(ls[r.load].content, r.hold)
    /\ r.at = "resolved" => \E n \in r.since .. Len(ls) :
                               r.payload = Exact(ls[n].content, r.hold)

TrafficInv ==
    /\ loads \in Seq(HonestLoads) /\ Len(loads) >= 1
    /\ request \in [Requests -> Places]
    /\ \A q \in Requests : RequestOK(request[q], loads)
    /\ pipelineCache \in [Holds -> Payloads \cup {Nothing}]
    /\ \A h \in Holds : Genuine(pipelineCache[h], h)

LEMMA ExactType ==
    ASSUME NEW c \in LoadContents, NEW h \in Holds
    PROVE  /\ ReturnsOf(c, h) \in ReturnsSet /\ Exact(c, h) \in Payloads
           /\ Exact(c, h).content = c /\ Exact(c, h).hold = h
           /\ Exact(c, h).returns = ReturnsOf(c, h)
           /\ Computed(c)[h] = ReturnsOf(c, h) /\ Rendered(c)[h] = Exact(c, h)
           /\ Genuine(Exact(c, h), h)
BY DEF ReturnsOf, Exact, Payload, ReturnsSet, Payloads, Computed, Rendered, Genuine

\* A request does not notice that a cache has changed or a load has come.
LEMMA RequestUndisturbed ==
    ASSUME NEW r, NEW before \in Seq(HonestLoads), NEW after \in Seq(HonestLoads),
           RequestOK(r, before), ContentsKept(before, after)
    PROVE  RequestOK(r, after)
<1>1. r \in Places /\ r.since \in Nat /\ r.load \in Nat
  BY DEF RequestOK, Places
<1>2. Len(before) \in Nat /\ Len(after) \in Nat /\ Len(before) <= Len(after)
  BY DEF ContentsKept
<1>3. r.at # "idle" => r.since \in 1 .. Len(before)
  BY DEF RequestOK
<1>4. ASSUME r.at \in OnServer
      PROVE  /\ r.load \in r.since .. Len(after)
             /\ after[r.load].content = before[r.load].content
  <2>1. r.at # "idle"
    BY <1>4 DEF OnServer
  <2>2. r.load \in 1 .. Len(before) /\ r.load \in r.since .. Len(before)
    BY <1>1, <1>2, <1>3, <1>4, <2>1 DEF RequestOK
  <2>. QED  BY <1>1, <1>2, <2>2 DEF ContentsKept
<1>5. r.at = "resolved" => \E n \in r.since .. Len(after) :
                              r.payload = Exact(after[n].content, r.hold)
  <2>. SUFFICES ASSUME r.at = "resolved"
                PROVE  \E n \in r.since .. Len(after) :
                          r.payload = Exact(after[n].content, r.hold)
    OBVIOUS
  <2>1. PICK n \in r.since .. Len(before) : r.payload = Exact(before[n].content, r.hold)
    BY DEF RequestOK
  <2>2. n \in 1 .. Len(before) /\ n \in r.since .. Len(after)
    BY <1>1, <1>2, <1>3
  <2>. QED  BY <2>1, <2>2 DEF ContentsKept
<1>6. "built" \in OnServer /\ "rendered" \in OnServer
  BY DEF OnServer
<1>. QED
  BY <1>1, <1>2, <1>3, <1>4, <1>5, <1>6 DEF RequestOK

\* A step of one request, with what it does to the loads.
LEMMA OneRequestMoves ==
    ASSUME TrafficInv, loads' \in Seq(HonestLoads), ContentsKept(loads, loads'),
           NEW q \in Requests, NEW r, RequestOK(r, loads'),
           request' = [request EXCEPT ![q] = r]
    PROVE  /\ request' \in [Requests -> Places]
           /\ \A p \in Requests : RequestOK(request'[p], loads')
           /\ Len(loads') >= 1
<1>1. r \in Places /\ request \in [Requests -> Places] /\ loads \in Seq(HonestLoads)
  BY DEF RequestOK, TrafficInv
<1>2. request' \in [Requests -> Places]
  BY <1>1
<1>3. ASSUME NEW p \in Requests PROVE RequestOK(request'[p], loads')
  <2>1. CASE p = q
    BY <1>1, <2>1
  <2>2. CASE p # q
    <3>1. request'[p] = request[p] /\ RequestOK(request[p], loads)
      BY <1>1, <2>2 DEF TrafficInv
    <3>. QED  BY <1>1, <3>1, RequestUndisturbed
  <2>. QED  BY <2>1, <2>2
<1>4. Len(loads) \in Nat /\ Len(loads') \in Nat
  BY <1>1
<1>. QED  BY <1>2, <1>3, <1>4 DEF TrafficInv, ContentsKept

LEMMA ContentsStay ==
    ASSUME NEW ls \in Seq(HonestLoads)
    PROVE  ContentsKept(ls, ls)
BY DEF ContentsKept

LEMMA TrafficInitInv == CacheInit => TrafficInv
<1>. SUFFICES ASSUME CacheInit PROVE TrafficInv
  OBVIOUS
<1>1. PICK c \in LoadContents : loads = <<FreshLoad(c)>>
  BY DEF CacheInit
<1>2. loads \in Seq(HonestLoads) /\ Len(loads) = 1
  BY <1>1, FreshIsHonest
<1>3. At("idle") \in Places /\ At("idle").at = "idle"
  BY DEF At, Places
<1>4. RequestOK(At("idle"), loads)
  BY <1>3 DEF RequestOK, OnServer
<1>. QED
  BY <1>2, <1>3, <1>4 DEF CacheInit, TrafficInv, Genuine

\* A new load comes to the end of them.
LEMMA ReloadStep == TrafficInv /\ Reload => TrafficInv'
<1>. SUFFICES ASSUME TrafficInv, Reload PROVE TrafficInv'
  OBVIOUS
<1>1. PICK c \in LoadContents : loads' = Append(loads, FreshLoad(c))
  BY DEF Reload
<1>2. FreshLoad(c) \in HonestLoads /\ loads \in Seq(HonestLoads)
  BY FreshIsHonest DEF TrafficInv
<1>3. /\ loads' \in Seq(HonestLoads) /\ Len(loads') = Len(loads) + 1
      /\ \A n \in 1 .. Len(loads) : loads'[n] = loads[n]
  BY <1>1, <1>2, AppendProperties
<1>4. ContentsKept(loads, loads') /\ Len(loads') >= 1
  BY <1>2, <1>3 DEF ContentsKept
<1>5. UNCHANGED <<request, pipelineCache>>
  BY DEF Reload
<1>6. \A q \in Requests : RequestOK(request[q], loads')
  BY <1>2, <1>3, <1>4, RequestUndisturbed DEF TrafficInv
<1>. QED  BY <1>3, <1>4, <1>5, <1>6 DEF TrafficInv

LEMMA ForgetStep == TrafficInv /\ Forget => TrafficInv'
BY DEF TrafficInv, Forget, Genuine

\* What is known of a request that is being answered.
LEMMA OnTheServer ==
    ASSUME TrafficInv, NEW q \in Requests, request[q].at \in OnServer
    PROVE  LET n == request[q].load
               h == request[q].hold
           IN  /\ n \in 1 .. Len(loads) /\ n \in request[q].since .. Len(loads)
               /\ h \in Holds /\ loads[n] \in HonestLoads
               /\ loads[n].content \in LoadContents
               /\ request[q].since \in 1 .. Len(loads)
<1>1. /\ RequestOK(request[q], loads) /\ loads \in Seq(HonestLoads)
      /\ request[q] \in Places
  BY DEF TrafficInv
<1>2. request[q].at # "idle"
  BY DEF OnServer
<1>3. /\ request[q].since \in 1 .. Len(loads) /\ request[q].hold \in Holds
      /\ request[q].load \in request[q].since .. Len(loads)
  BY <1>1, <1>2 DEF RequestOK
<1>4. request[q].load \in 1 .. Len(loads)
  BY <1>1, <1>3
<1>. QED  BY <1>1, <1>3, <1>4, HonestLoad

LEMMA AskStep ==
    ASSUME TrafficInv, NEW q \in Requests, NEW h \in Holds, Ask(q, h)
    PROVE  TrafficInv'
<1>. DEFINE r == [At("sent") EXCEPT !.hold = h, !.kept = pipelineCache[h],
                                    !.since = Len(loads)]
<1>1. request' = [request EXCEPT ![q] = r] /\ UNCHANGED <<loads, pipelineCache>>
  BY DEF Ask
<1>2. loads \in Seq(HonestLoads) /\ Len(loads) \in Nat /\ Len(loads) >= 1
  BY DEF TrafficInv
<1>3. pipelineCache[h] \in Payloads \cup {Nothing} /\ Genuine(pipelineCache[h], h)
  BY DEF TrafficInv
<1>4. At("sent") \in Places /\ At("sent").at = "sent"
  BY DEF At, Places
<1>5. /\ r \in Places /\ r.at = "sent" /\ r.hold = h /\ r.kept = pipelineCache[h]
      /\ r.since = Len(loads)
  BY <1>2, <1>3, <1>4 DEF Places
<1>. HIDE DEF r
<1>6. RequestOK(r, loads)
  BY <1>2, <1>3, <1>4, <1>5 DEF RequestOK, OnServer
<1>7. /\ request' \in [Requests -> Places]
      /\ \A p \in Requests : RequestOK(request'[p], loads')
  BY <1>1, <1>2, <1>6, ContentsStay, OneRequestMoves
<1>. QED  BY <1>1, <1>7 DEF TrafficInv

LEMMA TakeStep ==
    ASSUME TrafficInv, NEW q \in Requests, Take(q)
    PROVE  TrafficInv'
<1>. DEFINE r == [request[q] EXCEPT !.at = "taken", !.load = Len(loads)]
<1>1. /\ request' = [request EXCEPT ![q] = r] /\ UNCHANGED <<loads, pipelineCache>>
      /\ request[q].at = "sent"
  BY DEF Take, TrafficInv
<1>2. loads \in Seq(HonestLoads) /\ Len(loads) \in Nat
      /\ request[q] \in Places /\ RequestOK(request[q], loads)
  BY DEF TrafficInv
<1>3. /\ r \in Places /\ r.at = "taken" /\ r.load = Len(loads)
      /\ r.hold = request[q].hold /\ r.since = request[q].since
      /\ r.kept = request[q].kept
  BY <1>2 DEF Places, OnServer
<1>. HIDE DEF r
<1>4. RequestOK(r, loads)
  BY <1>1, <1>2, <1>3 DEF RequestOK, OnServer
<1>5. /\ request' \in [Requests -> Places]
      /\ \A p \in Requests : RequestOK(request'[p], loads')
  BY <1>1, <1>2, <1>4, ContentsStay, OneRequestMoves
<1>. QED  BY <1>1, <1>5 DEF TrafficInv

\* A request goes on with the load it has taken, and may leave a cache of that
\* load other than it was.
LEMMA AnswerGoesOn ==
    ASSUME TrafficInv, NEW q \in Requests, request[q].at \in OnServer,
           NEW l \in HonestLoads, l.content = loads[request[q].load].content,
           \/ loads' = [loads EXCEPT ![request[q].load] = l]
           \/ loads' = loads,
           NEW r \in Places, request' = [request EXCEPT ![q] = r],
           r.at \in OnServer, r.at # "taken",
           r.hold = request[q].hold, r.since = request[q].since,
           r.kept = request[q].kept, r.load = request[q].load,
           r.at = "built" => r.returns = ReturnsOf(l.content, r.hold),
           r.at = "rendered" => r.payload = Exact(l.content, r.hold),
           UNCHANGED pipelineCache
    PROVE  TrafficInv'
<1>. DEFINE n == request[q].load
<1>1. /\ n \in 1 .. Len(loads) /\ n \in request[q].since .. Len(loads)
      /\ request[q].since \in 1 .. Len(loads) /\ loads[n] \in HonestLoads
  BY OnTheServer
<1>2. loads \in Seq(HonestLoads) /\ RequestOK(request[q], loads)
  BY DEF TrafficInv
<1>3. /\ loads' \in Seq(HonestLoads) /\ Len(loads') = Len(loads)
      /\ ContentsKept(loads, loads')
  BY <1>1, <1>2, OneLoadReplaced, ContentsStay
<1>4. loads'[n].content = l.content
  BY <1>1, <1>3 DEF ContentsKept
<1>5. request[q].at # "idle" /\ r.at # "idle" /\ r.at # "resolved"
  BY DEF OnServer
<1>6. RequestOK(r, loads')
  BY <1>1, <1>2, <1>3, <1>4, <1>5 DEF RequestOK
<1>7. /\ request' \in [Requests -> Places]
      /\ \A p \in Requests : RequestOK(request'[p], loads')
      /\ Len(loads') >= 1
  BY <1>3, <1>6, OneRequestMoves
<1>. QED  BY <1>3, <1>7 DEF TrafficInv

LEMMA LookUpReturnsStep ==
    ASSUME TrafficInv, NEW q \in Requests, LookUpReturns(q)
    PROVE  TrafficInv'
<1>. DEFINE n == request[q].load
            h == request[q].hold
            cache == loads[n].returns
            c == loads[n].content
<1>1. request[q].at = "building" /\ request[q].at \in OnServer /\ UNCHANGED pipelineCache
      /\ request[q] \in Places /\ request \in [Requests -> Places]
  BY DEF LookUpReturns, OnServer, TrafficInv
<1>2. /\ h \in Holds /\ loads[n] \in HonestLoads /\ c \in LoadContents
      /\ n \in 1 .. Len(loads) /\ loads \in Seq(HonestLoads)
  BY <1>1, OnTheServer DEF TrafficInv
<1>3. CacheOf(Computed(c), cache)
  BY <1>2, HonestLoad
<1>4. CASE h \in Keys(cache)
  <2>. DEFINE l == [loads[n] EXCEPT !.returns = Touched(cache, h)]
              r == [request[q] EXCEPT !.at = "built", !.returns = EntryAt(cache, h).value]
  <2>1. loads' = [loads EXCEPT ![n] = l] /\ request' = [request EXCEPT ![q] = r]
    BY <1>1, <1>2, <1>4 DEF LookUpReturns
  <2>2. l \in HonestLoads /\ l.content = c
    BY <1>2, <1>3, <1>4, TouchedCache, HonestLoad
  <2>3. EntryAt(cache, h).value = ReturnsOf(c, h) /\ ReturnsOf(c, h) \in ReturnsSet
    BY <1>2, <1>3, <1>4, EntryFound, ExactType
  <2>4. /\ r \in Places /\ r.at = "built" /\ r.hold = h /\ r.since = request[q].since
        /\ r.kept = request[q].kept /\ r.load = n /\ r.returns = ReturnsOf(c, h)
    BY <1>1, <2>3 DEF Places, OnServer
  <2>. HIDE DEF l, r
  <2>5. r.at \in OnServer /\ r.at # "taken" /\ r.at # "rendered"
    BY <2>4 DEF OnServer
  <2>. QED  BY <1>1, <2>1, <2>2, <2>4, <2>5, AnswerGoesOn
<1>5. CASE h \notin Keys(cache)
  <2>. DEFINE r == [request[q] EXCEPT !.at = "computing"]
  <2>1. loads' = loads /\ request' = [request EXCEPT ![q] = r]
    BY <1>1, <1>5 DEF LookUpReturns
  <2>2. /\ r \in Places /\ r.at = "computing" /\ r.hold = h /\ r.since = request[q].since
        /\ r.kept = request[q].kept /\ r.load = n
    BY <1>1 DEF Places, OnServer
  <2>. HIDE DEF r
  <2>3. r.at \in OnServer /\ r.at \notin {"taken", "built", "rendered"}
    BY <2>2 DEF OnServer
  <2>. QED  BY <1>1, <1>2, <2>1, <2>2, <2>3, AnswerGoesOn
<1>. QED  BY <1>4, <1>5

LEMMA LookUpRenderedStep ==
    ASSUME TrafficInv, NEW q \in Requests, LookUpRendered(q)
    PROVE  TrafficInv'
<1>. DEFINE n == request[q].load
            h == request[q].hold
            cache == loads[n].rendered
            c == loads[n].content
<1>1. request[q].at = "taken" /\ request[q].at \in OnServer /\ UNCHANGED pipelineCache
      /\ request[q] \in Places /\ request \in [Requests -> Places]
  BY DEF LookUpRendered, OnServer, TrafficInv
<1>2. /\ h \in Holds /\ loads[n] \in HonestLoads /\ c \in LoadContents
      /\ n \in 1 .. Len(loads) /\ loads \in Seq(HonestLoads)
  BY <1>1, OnTheServer DEF TrafficInv
<1>3. CacheOf(Rendered(c), cache)
  BY <1>2, HonestLoad
<1>4. CASE h \in Keys(cache)
  <2>. DEFINE l == [loads[n] EXCEPT !.rendered = Touched(cache, h)]
              r == [request[q] EXCEPT !.at = "rendered", !.payload = EntryAt(cache, h).value]
  <2>1. loads' = [loads EXCEPT ![n] = l] /\ request' = [request EXCEPT ![q] = r]
    BY <1>1, <1>2, <1>4 DEF LookUpRendered
  <2>2. l \in HonestLoads /\ l.content = c
    BY <1>2, <1>3, <1>4, TouchedCache, HonestLoad
  <2>3. EntryAt(cache, h).value = Exact(c, h) /\ Exact(c, h) \in Payloads
    BY <1>2, <1>3, <1>4, EntryFound, ExactType
  <2>4. /\ r \in Places /\ r.at = "rendered" /\ r.hold = h /\ r.since = request[q].since
        /\ r.kept = request[q].kept /\ r.load = n /\ r.payload = Exact(c, h)
    BY <1>1, <2>3 DEF Places, OnServer
  <2>. HIDE DEF l, r
  <2>5. r.at \in OnServer /\ r.at # "taken" /\ r.at # "built"
    BY <2>4 DEF OnServer
  <2>. QED  BY <1>1, <2>1, <2>2, <2>4, <2>5, AnswerGoesOn
<1>5. CASE h \notin Keys(cache)
  <2>. DEFINE r == [request[q] EXCEPT !.at = "building"]
  <2>1. loads' = loads /\ request' = [request EXCEPT ![q] = r]
    BY <1>1, <1>5 DEF LookUpRendered
  <2>2. /\ r \in Places /\ r.at = "building" /\ r.hold = h /\ r.since = request[q].since
        /\ r.kept = request[q].kept /\ r.load = n
    BY <1>1 DEF Places, OnServer
  <2>. HIDE DEF r
  <2>3. r.at \in OnServer /\ r.at \notin {"taken", "built", "rendered"}
    BY <2>2 DEF OnServer
  <2>. QED  BY <1>1, <1>2, <2>1, <2>2, <2>3, AnswerGoesOn
<1>. QED  BY <1>4, <1>5

LEMMA KeepReturnsStep ==
    ASSUME TrafficInv, NEW q \in Requests, KeepReturns(q)
    PROVE  TrafficInv'
<1>. DEFINE n == request[q].load
            h == request[q].hold
            c == loads[n].content
            computed == ReturnsOf(c, h)
            l == [loads[n] EXCEPT !.returns = Kept(loads[n].returns, h, computed)]
            r == [request[q] EXCEPT !.at = "built", !.returns = computed]
<1>1. request[q].at = "computing" /\ request[q].at \in OnServer /\ UNCHANGED pipelineCache
      /\ request[q] \in Places /\ request \in [Requests -> Places]
  BY DEF KeepReturns, OnServer, TrafficInv
<1>2. /\ h \in Holds /\ loads[n] \in HonestLoads /\ c \in LoadContents
      /\ n \in 1 .. Len(loads) /\ loads \in Seq(HonestLoads)
  BY <1>1, OnTheServer DEF TrafficInv
<1>3. loads' = [loads EXCEPT ![n] = l] /\ request' = [request EXCEPT ![q] = r]
  BY <1>1, <1>2 DEF KeepReturns
<1>4. computed \in ReturnsSet /\ Computed(c)[h] = computed
  BY <1>2, ExactType
<1>5. CacheOf(Computed(c), Kept(loads[n].returns, h, computed))
  BY <1>2, <1>4, HonestLoad, KeptCache
<1>6. l \in HonestLoads /\ l.content = c
  BY <1>2, <1>5, HonestLoad
<1>7. /\ r \in Places /\ r.at = "built" /\ r.hold = h /\ r.since = request[q].since
      /\ r.kept = request[q].kept /\ r.load = n /\ r.returns = ReturnsOf(c, h)
  BY <1>1, <1>4 DEF Places, OnServer
<1>. HIDE DEF l, r
<1>8. r.at \in OnServer /\ r.at # "taken" /\ r.at # "rendered"
  BY <1>7 DEF OnServer
<1>. QED  BY <1>1, <1>3, <1>6, <1>7, <1>8, AnswerGoesOn

LEMMA KeepRenderedStep ==
    ASSUME TrafficInv, NEW q \in Requests, KeepRendered(q)
    PROVE  TrafficInv'
<1>. DEFINE n == request[q].load
            h == request[q].hold
            c == loads[n].content
            built == Exact(c, h)
            l == [loads[n] EXCEPT !.rendered = Kept(loads[n].rendered, h, built)]
            r == [request[q] EXCEPT !.at = "rendered", !.payload = built]
<1>1. request[q].at = "built" /\ request[q].at \in OnServer /\ UNCHANGED pipelineCache
      /\ request[q] \in Places /\ request \in [Requests -> Places]
      /\ RequestOK(request[q], loads)
  BY DEF KeepRendered, OnServer, TrafficInv
<1>2. /\ h \in Holds /\ loads[n] \in HonestLoads /\ c \in LoadContents
      /\ n \in 1 .. Len(loads) /\ loads \in Seq(HonestLoads)
  BY <1>1, OnTheServer DEF TrafficInv
<1>3. Payload(c, h, request[q].returns) = built
  BY <1>1 DEF RequestOK, Exact
<1>. HIDE DEF built
<1>4. loads' = [loads EXCEPT ![n] = l] /\ request' = [request EXCEPT ![q] = r]
  BY <1>1, <1>2, <1>3 DEF KeepRendered
<1>5. built \in Payloads /\ Rendered(c)[h] = built
  BY <1>2, ExactType DEF built
<1>6. CacheOf(Rendered(c), Kept(loads[n].rendered, h, built))
  BY <1>2, <1>5, HonestLoad, KeptCache
<1>7. l \in HonestLoads /\ l.content = c
  BY <1>2, <1>6, HonestLoad
<1>8. /\ r \in Places /\ r.at = "rendered" /\ r.hold = h /\ r.since = request[q].since
      /\ r.kept = request[q].kept /\ r.load = n /\ r.payload = built
  BY <1>1, <1>5 DEF Places, OnServer
<1>. HIDE DEF l, r
<1>9. r.at \in OnServer /\ r.at # "taken" /\ r.at # "built" /\ r.payload = Exact(c, h)
  BY <1>8 DEF OnServer, built
<1>. QED  BY <1>1, <1>4, <1>7, <1>8, <1>9, AnswerGoesOn

\* A tag names a payload: that is what makes a 304 safe.
LEMMA TagNamesThePayload ==
    ASSUME NEW c \in LoadContents, NEW d \in LoadContents, NEW h \in Holds,
           Tag(Exact(c, h)) = Tag(Exact(d, h))
    PROVE  Exact(c, h) = Exact(d, h)
<1>1. c = d
  BY ExactType DEF Tag
<1>. QED  BY <1>1

LEMMA ResolveStep ==
    ASSUME TrafficInv, NEW q \in Requests, Resolve(q)
    PROVE  TrafficInv'
<1>. DEFINE n == request[q].load
            h == request[q].hold
            c == loads[n].content
            r == [request[q] EXCEPT !.at = "resolved", !.payload = Exact(c, h)]
<1>1. request[q].at = "rendered" /\ request[q].at \in OnServer /\ UNCHANGED loads
      /\ request[q] \in Places /\ request \in [Requests -> Places]
      /\ RequestOK(request[q], loads)
  BY DEF Resolve, OnServer, TrafficInv
<1>2. /\ h \in Holds /\ c \in LoadContents /\ loads \in Seq(HonestLoads)
      /\ n \in request[q].since .. Len(loads) /\ request[q].since \in 1 .. Len(loads)
  BY <1>1, OnTheServer DEF TrafficInv
<1>3. /\ request[q].payload = Exact(c, h) /\ Exact(c, h) \in Payloads
      /\ Exact(c, h).hold = h
  BY <1>1, <1>2, ExactType DEF RequestOK
<1>4. /\ r \in Places /\ r.at = "resolved" /\ r.hold = h /\ r.since = request[q].since
      /\ r.kept = request[q].kept /\ r.payload = Exact(c, h)
  BY <1>1, <1>3 DEF Places, OnServer
<1>5. request' = [request EXCEPT ![q] = r]
  <2>1. CASE NotModified(q) /\ request' = [request EXCEPT ![q].at = "resolved",
                                             ![q].payload = request[q].kept]
    <3>1. /\ request[q].kept # Nothing
          /\ Tag(request[q].kept) = Tag(Exact(c, h))
      BY <1>3, <2>1 DEF NotModified
    <3>2. "rendered" # "idle" /\ Genuine(request[q].kept, h)
      BY <1>1 DEF RequestOK
    <3>3. PICK d \in LoadContents : request[q].kept = Exact(d, h)
      BY <3>1, <3>2 DEF Genuine
    <3>4. request[q].kept = Exact(c, h)
      BY <1>2, <3>1, <3>3, TagNamesThePayload
    <3>. QED  BY <1>1, <2>1, <3>4
  <2>2. CASE request' = [request EXCEPT ![q].at = "resolved"]
    BY <1>1, <1>3, <2>2 DEF Places
  <2>. QED  BY <2>1, <2>2 DEF Resolve
<1>. HIDE DEF r
<1>6. RequestOK(r, loads)
  BY <1>1, <1>2, <1>4 DEF RequestOK, OnServer
<1>7. /\ request' \in [Requests -> Places]
      /\ \A p \in Requests : RequestOK(request'[p], loads')
  BY <1>1, <1>2, <1>5, <1>6, ContentsStay, OneRequestMoves
<1>8. /\ pipelineCache' \in [Holds -> Payloads \cup {Nothing}]
      /\ \A g \in Holds : Genuine(pipelineCache'[g], g)
  <2>1. pipelineCache \in [Holds -> Payloads \cup {Nothing}]
        /\ \A g \in Holds : Genuine(pipelineCache[g], g)
    BY DEF TrafficInv
  <2>2. CASE UNCHANGED pipelineCache
    BY <2>1, <2>2
  <2>3. CASE pipelineCache' = [pipelineCache EXCEPT ![h] = Exact(c, h)]
    <3>1. Genuine(Exact(c, h), h)
      BY <1>2, ExactType
    <3>. QED  BY <1>2, <1>3, <2>1, <2>3, <3>1
  <2>. QED  BY <1>3, <2>2, <2>3 DEF Resolve
<1>. QED  BY <1>1, <1>7, <1>8 DEF TrafficInv

LEMMA ReturnStep ==
    ASSUME TrafficInv, NEW q \in Requests, Return(q)
    PROVE  TrafficInv'
<1>1. request' = [request EXCEPT ![q] = At("idle")] /\ UNCHANGED <<loads, pipelineCache>>
  BY DEF Return
<1>2. At("idle") \in Places /\ At("idle").at = "idle"
  BY DEF At, Places
<1>3. RequestOK(At("idle"), loads) /\ loads \in Seq(HonestLoads)
  BY <1>2 DEF RequestOK, OnServer, TrafficInv
<1>4. /\ request' \in [Requests -> Places]
      /\ \A p \in Requests : RequestOK(request'[p], loads')
  BY <1>1, <1>3, ContentsStay, OneRequestMoves
<1>. QED  BY <1>1, <1>4 DEF TrafficInv

LEMMA TrafficStep == TrafficInv /\ [CacheNext]_traffic => TrafficInv'
<1>. SUFFICES ASSUME TrafficInv, [CacheNext]_traffic PROVE TrafficInv'
  OBVIOUS
<1>1. ASSUME UNCHANGED traffic PROVE TrafficInv'
  BY <1>1 DEF traffic, TrafficInv
<1>. QED
  BY <1>1, ReloadStep, ForgetStep, AskStep, TakeStep, LookUpRenderedStep,
     LookUpReturnsStep, KeepReturnsStep, KeepRenderedStep, ResolveStep, ReturnStep
  DEF CacheNext

LEMMA TrafficInvAlways == CacheSpec => []TrafficInv
BY TrafficInitInv, TrafficStep, PTL DEF CacheSpec

\* Whatever overtakes it, a load or an answer, a 304 included, what a caller of
\* getPipeline is given is a pipeline that was in force after it had asked, at
\* the hold period it asked for.
THEOREM AskedPipeline == CacheSpec => []AnswersAreOfTheAskedPipeline
<1>1. ASSUME TrafficInv PROVE AnswersAreOfTheAskedPipeline
  <2>. SUFFICES ASSUME NEW q \in Requests, request[q].at = "resolved"
                PROVE  LET payload == request[q].payload
                       IN  /\ payload.hold = request[q].hold
                           /\ payload.returns = ReturnsOf(payload.content, request[q].hold)
                           /\ \E n \in request[q].since .. Len(loads) :
                                 loads[n].content = payload.content
    BY DEF AnswersAreOfTheAskedPipeline
  <2>1. /\ RequestOK(request[q], loads) /\ loads \in Seq(HonestLoads)
        /\ request[q] \in Places
    BY <1>1 DEF TrafficInv
  <2>2. request[q].hold \in Holds /\ request[q].since \in 1 .. Len(loads)
    BY <2>1 DEF RequestOK
  <2>3. PICK n \in request[q].since .. Len(loads) :
           request[q].payload = Exact(loads[n].content, request[q].hold)
    BY <2>1 DEF RequestOK
  <2>4. loads[n].content \in LoadContents
    <3>1. n \in 1 .. Len(loads)
      BY <2>1, <2>2
    <3>. QED  BY <2>1, <3>1, HonestLoad
  <2>. QED  BY <2>2, <2>3, <2>4, ExactType
<1>. QED  BY <1>1, TrafficInvAlways, PTL

\* Each of the two caches of a load is of that load, has at most CACHE_ENTRIES
\* entries, and none twice, however lookups and keeps of many requests fall
\* between each other.
CachesAreOfTheirLoad ==
    \A n \in 1 .. Len(loads) :
        /\ CacheOf(Computed(loads[n].content), loads[n].returns)
        /\ CacheOf(Rendered(loads[n].content), loads[n].rendered)

\* The caches of a load stay its own and bounded, for any requests and loads.
THEOREM BoundedCaches == CacheSpec => []CachesAreOfTheirLoad
<1>1. TrafficInv => CachesAreOfTheirLoad
  BY HonestLoad DEF TrafficInv, CachesAreOfTheirLoad
<1>. QED  BY <1>1, TrafficInvAlways, PTL

=============================================================================
