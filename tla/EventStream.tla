---------------------------- MODULE EventStream -----------------------------
(***************************************************************************)
(* One subscriber of GET /optimisations/{id}/stream: the generator that    *)
(* tails the log of a run (api/sse.py), the connection, and the browser's  *)
(* EventSource at the other end (openStream in web/js/api.js), which       *)
(* reconnects by itself with the id of the last frame it dispatched.  The  *)
(* run goes on underneath, as RunHistory promises.                         *)
(***************************************************************************)
EXTENDS WatchedRun, Sequences

CONSTANTS
    MaxDrops,   \* bound: connections lost or attempts failed
    MaxWire,    \* bound: frames sent and not yet dispatched (back-pressure)
    MayRefuse   \* an attempt to connect may be answered with an HTTP error

ASSUME StreamConstants ==
    /\ MaxDrops \in Nat /\ MaxWire \in Nat \ {0}
    /\ MayRefuse \in BOOLEAN

VARIABLES
    phase,    \* where event_stream stands between two of its reads
    pulse,    \* the status it read last
    cursor,   \* the generation it yielded last
    upto,     \* the last generation of the batch it is yielding
    fresh,    \* the batch was not empty
    wire,     \* the frames on their way
    client,   \* the state of the EventSource
    lastId,   \* its last event id: 0 before the first
    seen,     \* every generation it dispatched, over all its connections
    told,     \* the terminal statuses it dispatched
    drops

generator == <<phase, pulse, cursor, upto, fresh>>
browser   == <<client, lastId, seen, told>>
stream    == <<generator, wire, browser, drops>>

Phases  == {"none", "polling", "yielding", "draining", "last batch", "returned"}
Clients == {"absent", "connecting", "open", "refused", "closed"}

Frame(event, n) == [event |-> event, generation |-> n]
TerminalFrame(s) == Frame(s, 0)
Frames == [event : {"status", "generation"} \cup Stopped, generation : 0 .. Planned]

StreamInit ==
    /\ HistoryInit
    /\ phase = "none" /\ pulse = "absent"
    /\ cursor = 0 /\ upto = 0 /\ fresh = FALSE
    /\ wire = <<>>
    /\ client = "absent" /\ lastId = 0 /\ seen = <<>> /\ told = {}
    /\ drops = 0

-----------------------------------------------------------------------------
(* The EventSource.                                                        *)

\* new EventSource; the run exists, the browser having its id from the 202.
Subscribe ==
    /\ client = "absent" /\ status[Watched] # "absent"
    /\ client' = "connecting"
    /\ UNCHANGED <<history, generator, wire, lastId, seen, told, drops>>

\* Mutant: the Last-Event-ID header is ignored.
ResumeAtStart(id) == 0

\* resume_from: no header, or the generation the client saw last.
ResumeFrom(id) == id

\* The route answers, and the generator reads the pulse for the status frame.
Connect ==
    /\ client = "connecting"
    /\ client' = "open"
    /\ phase' = "polling"
    /\ pulse' = status[Watched]
    /\ cursor' = ResumeFrom(lastId)
    /\ upto' = cursor' /\ fresh' = FALSE
    /\ wire' = <<Frame("status", 0)>>
    /\ UNCHANGED <<history, lastId, seen, told, drops>>

\* An event reaches its handler, which leaves the EventSource as it is, in
\* the state now, or closes it: the connection goes, and the generator.
HandledIn(now, after) ==
    /\ after \in {now, "closed"}
    /\ client' = after

\* The network fails before an answer: the EventSource will try again.
ConnectFails(after) ==
    /\ client = "connecting" /\ drops < MaxDrops
    /\ drops' = drops + 1
    /\ HandledIn("connecting", after)
    /\ UNCHANGED <<history, generator, wire, lastId, seen, told>>

\* An answer that is not a 200: the EventSource gives up for good.
ConnectRefused(after) ==
    /\ MayRefuse /\ client = "connecting"
    /\ HandledIn("refused", after)
    /\ UNCHANGED <<history, generator, wire, lastId, seen, told, drops>>

\* One frame is dispatched.  Only a generation frame carries an id.
Dispatch(frame, after) ==
    /\ client = "open" /\ wire # <<>> /\ frame = Head(wire)
    /\ HandledIn("open", after)
    /\ wire' = IF after = "open" THEN Tail(wire) ELSE <<>>
    /\ phase' = IF after = "open" THEN phase ELSE "none"
    /\ IF frame.event = "generation"
       THEN /\ lastId' = frame.generation
            /\ seen' = Append(seen, frame.generation)
       ELSE UNCHANGED <<lastId, seen>>
    /\ told' = IF frame.event \in Stopped THEN told \cup {frame.event} ELSE told
    /\ UNCHANGED <<history, pulse, cursor, upto, fresh, drops>>

\* The connection is lost with whatever was on it, and the generator with it.
Drop(after) ==
    /\ client = "open" /\ drops < MaxDrops
    /\ drops' = drops + 1
    /\ HandledIn("connecting", after)
    /\ wire' = <<>>
    /\ phase' = "none"
    /\ UNCHANGED <<history, pulse, cursor, upto, fresh, lastId, seen, told>>

\* The generator has returned and the response has ended, which an
\* EventSource takes for a lost connection like any other.
EndOfResponse(after) ==
    /\ client = "open" /\ phase = "returned" /\ wire = <<>>
    /\ HandledIn("connecting", after)
    /\ phase' = "none"
    /\ UNCHANGED <<history, pulse, cursor, upto, fresh, wire, lastId, seen, told,
                   drops>>

\* source.close(), outside any handler of its own.
Close ==
    /\ client' = "closed"
    /\ wire' = <<>>
    /\ phase' = "none"
    /\ UNCHANGED <<history, pulse, cursor, upto, fresh, lastId, seen, told, drops>>

-----------------------------------------------------------------------------
(* event_stream.  Each read is a statement of its own, in autocommit.      *)

Poll ==
    /\ phase = "polling"
    /\ upto' = logged[Watched]
    /\ fresh' = (logged[Watched] > cursor)
    /\ phase' = "yielding"
    /\ UNCHANGED <<history, pulse, cursor, wire, browser, drops>>

Yield ==
    /\ phase \in {"yielding", "last batch"}
    /\ cursor < upto
    /\ Len(wire) < MaxWire
    /\ cursor' = cursor + 1
    /\ wire' = Append(wire, Frame("generation", cursor + 1))
    /\ UNCHANGED <<history, phase, pulse, upto, fresh, browser, drops>>

\* Mutant: the terminal frame is sent without a last drain.
CheckWithoutDrain ==
    /\ phase = "yielding" /\ cursor >= upto
    /\ pulse' = status[Watched]
    /\ phase' = IF pulse' \in Stopped /\ ~fresh THEN "last batch" ELSE "polling"
    /\ UNCHANGED <<history, cursor, upto, fresh, wire, browser, drops>>

\* Mutant: only a success ends the stream.
CheckForSuccess ==
    /\ phase = "yielding" /\ cursor >= upto
    /\ pulse' = status[Watched]
    /\ phase' = IF pulse' = "succeeded" /\ ~fresh THEN "draining" ELSE "polling"
    /\ UNCHANGED <<history, cursor, upto, fresh, wire, browser, drops>>

\* The batch is out: has the run ended meanwhile?
Check ==
    /\ phase = "yielding" /\ cursor >= upto
    /\ pulse' = status[Watched]
    /\ phase' = IF pulse' \in Stopped /\ ~fresh THEN "draining" ELSE "polling"
    /\ UNCHANGED <<history, cursor, upto, fresh, wire, browser, drops>>

Drain ==
    /\ phase = "draining"
    /\ upto' = logged[Watched]
    /\ phase' = "last batch"
    /\ UNCHANGED <<history, pulse, cursor, fresh, wire, browser, drops>>

Finish ==
    /\ phase = "last batch" /\ cursor >= upto
    /\ Len(wire) < MaxWire
    /\ wire' = Append(wire, TerminalFrame(pulse))
    /\ phase' = "returned"
    /\ UNCHANGED <<history, pulse, cursor, upto, fresh, browser, drops>>

Generator == Poll \/ Yield \/ Check \/ Drain \/ Finish

-----------------------------------------------------------------------------

RunGoesOn == HistoryNext /\ UNCHANGED stream

\* Whatever the subscriber does with an event, it may close on it.
StreamNext ==
    \/ RunGoesOn
    \/ Subscribe \/ Connect
    \/ \E after \in Clients :
          \/ ConnectFails(after) \/ ConnectRefused(after)
          \/ \E frame \in Frames : Dispatch(frame, after)
          \/ Drop(after) \/ EndOfResponse(after)
    \/ client \in {"connecting", "open"} /\ Close
    \/ Generator

\* The event loop resumes the generator, the network delivers what it does
\* not drop, the browser retries.  The run owes this spec nothing.
StreamFairness ==
    /\ WF_<<history, stream>>(Generator)
    /\ WF_<<history, stream>>(\E frame \in Frames, after \in Clients :
                                 Dispatch(frame, after))
    /\ WF_<<history, stream>>(Connect)
    /\ WF_<<history, stream>>(\E after \in Clients : EndOfResponse(after))

StreamSpec == StreamInit /\ [][StreamNext]_<<history, stream>> /\ StreamFairness

-----------------------------------------------------------------------------
(* Properties.                                                             *)

StreamTypeOK ==
    /\ phase \in Phases
    /\ pulse \in {"absent"} \cup Unfinished \cup Stopped
    /\ cursor \in 0 .. Planned /\ upto \in 0 .. Planned /\ fresh \in BOOLEAN
    /\ wire \in Seq(Frames) /\ Len(wire) <= MaxWire
    /\ client \in Clients
    /\ lastId \in 0 .. Planned /\ seen \in Seq(1 .. Planned)
    /\ told \subseteq Stopped
    /\ drops \in 0 .. MaxDrops

\* Over all its connections a subscriber dispatches generations 1, 2, 3, ...:
\* none is skipped, repeated or out of order, wherever a connection broke
\* (docs/api.md 7: the log is the source of truth; resume_from, read_events).
NoGapNoRepeat == \A i \in DOMAIN seen : seen[i] = i

\* A terminal frame comes after the whole log and tells the outcome on
\* record: no subscriber closes a curve that is missing its last points
\* because the run ended between two of the generator's reads (sse.py, the
\* last drain before the terminal frame).
TerminalFrameIsLast ==
    \A outcome \in told :
        /\ outcome = status[Watched]
        /\ Len(seen) = logged[Watched]
        /\ served[Watched] = logged[Watched]

\* What a subscriber sees is the log and then the outcome, nothing missing,
\* repeated or out of order, whatever was lost on the way and whenever the
\* run ended: the two parts above.
StreamIsTheLog == NoGapNoRepeat /\ TerminalFrameIsLast

\* A subscriber that stays is told how the run ended, whether it subscribed
\* before or after, and however often its connection was lost.
SubscriberIsTold ==
    status[Watched] \in Stopped /\ client # "absent"
        ~> told # {} \/ client \in {"closed", "refused"}
=============================================================================
