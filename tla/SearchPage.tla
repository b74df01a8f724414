----------------------------- MODULE SearchPage -----------------------------
(***************************************************************************)
(* Screen 02 (web/js/search.js): a subscriber of EventStream that queues   *)
(* the rounds it is sent, draws one per tick, and moves on to the          *)
(* portfolio once the run is done, everything is drawn and the screen has  *)
(* been readable for MINIMUM_MS.  Each handler runs to completion on the   *)
(* page's one thread, so each is one action.                               *)
(***************************************************************************)
EXTENDS EventStream

VARIABLES
    waiting,     \* rounds received and not drawn
    shown,       \* rounds drawn
    total,       \* page.total, 0 while it is not known
    asked,       \* getResult is outstanding
    ticker,      \* the interval runs
    finished,    \* the done frame has arrived
    holding,     \* the timer that waits for MINIMUM_MS is set
    readable,    \* MINIMUM_MS have passed since the start
    lostAt,      \* the stream has dropped and not spoken since
    note         \* what has become of the page

page == <<waiting, shown, total, asked, ticker, finished, holding, readable,
          lostAt, note>>
all  == <<history, stream, page>>

Notes == {"unopened", "searching", "moved on", "failed", "no result", "lost", "left"}

PageInit ==
    /\ StreamInit
    /\ waiting = <<>> /\ shown = <<>> /\ total = 0
    /\ asked = FALSE /\ ticker = FALSE
    /\ finished = FALSE /\ holding = FALSE /\ readable = FALSE /\ lostAt = FALSE
    /\ note = "unopened"

\* start: the total comes from the steering if that is about this run, and
\* from getResult otherwise.
Start ==
    /\ Subscribe
    /\ total' \in {0, Planned}
    /\ asked' = (total' = 0)
    /\ ticker' = (total' > 0)
    /\ note' = "searching"
    /\ UNCHANGED <<waiting, shown, finished, holding, readable, lostAt>>

\* stop, and what the page says from then on.
Stop(why) ==
    /\ note' = why
    /\ ticker' = FALSE /\ holding' = FALSE

\* showTotal: a total starts the ticker, 0 is ignored.
ShowTotal(n) ==
    /\ total' = IF n = 0 THEN total ELSE n
    /\ ticker' = (ticker \/ (n > 0 /\ note = "searching"))

\* totalOf: a run in flight says its total, a finished one has its trace.
ResultArrives ==
    /\ asked
    /\ asked' = FALSE
    /\ ShowTotal(IF status[Watched] \in Unfinished THEN Planned ELSE served[Watched])
    /\ UNCHANGED <<history, stream, waiting, shown, finished, holding, readable,
                   lostAt, note>>

ResultFails ==
    /\ asked
    /\ asked' = FALSE
    /\ IF note = "searching" THEN Stop("no result") /\ Close
                             ELSE UNCHANGED <<history, stream, note, ticker, holding>>
    /\ UNCHANGED <<waiting, shown, total, finished, readable, lostAt>>

-----------------------------------------------------------------------------
(* Frames.                                                                 *)

StatusArrives ==
    /\ Dispatch(Frame("status", 0), "open")
    /\ lostAt' = FALSE
    /\ UNCHANGED <<waiting, shown, total, asked, ticker, finished, holding,
                   readable, note>>

\* arrive: the round is queued, and carries the total.
Arrive(n) ==
    /\ Dispatch(Frame("generation", n), "open")
    /\ lostAt' = FALSE
    /\ waiting' = Append(waiting, n)
    /\ ShowTotal(Planned)
    /\ UNCHANGED <<shown, asked, finished, holding, readable, note>>

\* Mutant: the page moves on as soon as the screen has been readable.
SettlesUndrawn(done, undrawn) == done

\* settle: not before every round that arrived is drawn ...
Settles(done, undrawn) == done /\ undrawn = <<>>

\* ... and not before the minimum: a timer waits for the rest of it.
Hold(done, undrawn) ==
    /\ holding' = (holding \/ (Settles(done, undrawn) /\ ~readable))
    /\ UNCHANGED <<note, ticker>>

MovesOn(done, undrawn) == Settles(done, undrawn) /\ readable

DoneArrives ==
    /\ finished' = TRUE
    /\ IF MovesOn(TRUE, waiting)
       THEN Dispatch(TerminalFrame("succeeded"), "closed") /\ Stop("moved on")
       ELSE Dispatch(TerminalFrame("succeeded"), "open") /\ Hold(TRUE, waiting)
    /\ UNCHANGED <<waiting, shown, total, asked, readable, lostAt>>

\* Mutant: the page listens for the failed frame and not for the cancelled.
OnlyFailedArrives ==
    /\ \/ Dispatch(TerminalFrame("failed"), "closed") /\ Stop("failed")
       \/ /\ Dispatch(TerminalFrame("cancelled"), "open")
          /\ UNCHANGED <<note, ticker, holding>>
    /\ UNCHANGED <<waiting, shown, total, asked, finished, readable, lostAt>>

FailedArrives ==
    /\ \E outcome \in Stopped \ {"succeeded"} :
          Dispatch(TerminalFrame(outcome), "closed")
    /\ Stop("failed")
    /\ UNCHANGED <<waiting, shown, total, asked, finished, readable, lostAt>>

-----------------------------------------------------------------------------
(* Timers.                                                                 *)

Settle(undrawn) ==
    IF MovesOn(finished, undrawn)
    THEN Stop("moved on") /\ Close
    ELSE Hold(finished, undrawn) /\ UNCHANGED <<history, stream>>

\* Mutant: the newest round is drawn first.
TickNewest ==
    /\ ticker
    /\ IF waiting = <<>>
       THEN UNCHANGED <<waiting, shown>>
       ELSE /\ waiting' = SubSeq(waiting, 1, Len(waiting) - 1)
            /\ shown' = Append(shown, waiting[Len(waiting)])
    /\ Settle(waiting')
    /\ UNCHANGED <<total, asked, finished, readable, lostAt>>

Tick ==
    /\ ticker
    /\ IF waiting = <<>>
       THEN UNCHANGED <<waiting, shown>>
       ELSE /\ waiting' = Tail(waiting)
            /\ shown' = Append(shown, Head(waiting))
    /\ Settle(waiting')
    /\ UNCHANGED <<total, asked, finished, readable, lostAt>>

HoldEnds ==
    /\ holding /\ readable
    /\ IF MovesOn(finished, waiting)
       THEN Stop("moved on") /\ Close
       ELSE holding' = FALSE /\ UNCHANGED <<history, stream, note, ticker>>
    /\ UNCHANGED <<waiting, shown, total, asked, finished, readable, lostAt>>

MinimumPasses ==
    /\ note = "searching" /\ ~readable
    /\ readable' = TRUE
    /\ UNCHANGED <<history, stream, waiting, shown, total, asked, ticker, finished,
                   holding, lostAt, note>>

-----------------------------------------------------------------------------
(* lost, on every error of the EventSource: silent on the first, and the   *)
(* end of the page once RECONNECT_GRACE_MS have passed since the first.    *)

Dropping(after) == Drop(after) \/ EndOfResponse(after)
                      \/ ConnectFails(after) \/ ConnectRefused(after)

Dropped ==
    /\ \/ /\ \E after \in Clients \ {"closed"} : Dropping(after)
          /\ lostAt' = (lostAt \/ ~finished)
          /\ UNCHANGED <<note, ticker, holding>>
       \/ /\ lostAt /\ ~finished
          /\ Dropping("closed")
          /\ Stop("lost")
          /\ UNCHANGED lostAt
    /\ UNCHANGED <<waiting, shown, total, asked, finished, readable>>

\* The cancel link.
Cancel ==
    /\ note = "searching"
    /\ Stop("left") /\ Close
    /\ UNCHANGED <<waiting, shown, total, asked, finished, readable, lostAt>>

-----------------------------------------------------------------------------

Listens == StatusArrives \/ (\E n \in 1 .. Planned : Arrive(n))
              \/ DoneArrives \/ FailedArrives

PageNext ==
    \/ (RunGoesOn \/ Connect \/ Generator) /\ UNCHANGED page
    \/ Start \/ ResultArrives \/ ResultFails
    \/ Listens \/ Dropped
    \/ Tick \/ HoldEnds \/ MinimumPasses
    \/ Cancel

\* Time passes, timers fire, frames are delivered and requests answered.
PageFairness ==
    /\ WF_all(Generator /\ UNCHANGED page)
    /\ WF_all(Connect /\ UNCHANGED page)
    /\ WF_all(Listens)
    /\ WF_all(Tick)
    /\ WF_all(HoldEnds)
    /\ WF_all(MinimumPasses)
    /\ WF_all(ResultArrives \/ ResultFails)

PageSpec == PageInit /\ [][PageNext]_all /\ PageFairness

-----------------------------------------------------------------------------
(* Properties.                                                             *)

PageTypeOK ==
    /\ StreamTypeOK
    /\ waiting \in Seq(1 .. Planned) /\ shown \in Seq(1 .. Planned)
    /\ total \in 0 .. Planned
    /\ {asked, ticker, finished, holding, readable, lostAt} \subseteq BOOLEAN
    /\ note \in Notes

\* Up to the moment the page moves on, what it has drawn and what it still
\* holds are the rounds it was sent, in their order, across every
\* reconnection (search.js, "No datum is invented, dropped or reordered").
DrawnInOrder == shown \o waiting = seen

\* The page leaves for the portfolio only when the run has succeeded, the
\* whole search is drawn and the screen has been readable (settle).
MovesOnWhenAllIsDrawn ==
    note = "moved on" =>
        /\ status[Watched] = "succeeded"
        /\ shown = [i \in 1 .. Planned |-> i]
        /\ readable

\* The page draws the whole search as it was sent, and leaves when it has: the
\* two parts above.
PageShowsTheSearch == DrawnInOrder /\ MovesOnWhenAllIsDrawn

\* A page whose run has ended does not go on searching: it moves on, or says
\* what happened (search.js, RECONNECT_GRACE_MS and lost: "the alternative is
\* a screen that spins for ever saying nothing").  The one exception is a
\* connection that is answered with an HTTP error: the EventSource reports it
\* once and gives up, and lost waits for a second report.
NoPageSpinsForEver ==
    status[Watched] \in Stopped /\ note = "searching"
        ~> note # "searching" \/ client = "refused"
=============================================================================
