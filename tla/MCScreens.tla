----------------------------- MODULE MCScreens ------------------------------
(* Small instances for TLC of what the browser keeps of a mandate and of a  *)
(* result: the session over its three screens, the mandate page and what is *)
(* stored of it, the holdings table with its drawer.  They share no state;  *)
(* a behaviour is one of one of them, its screen.                           *)
EXTENDS Steering, HoldingsScreen, MandatePage, TLC

CONSTANTS m1, m2, a, Subjects, MaxMoves

VARIABLES subject, moves

\* A run of the other mandate, with one project locked.
MCShared == Submission(m2, [EmptySteering EXCEPT !.locked = {a}])

ScreensInit ==
    /\ subject \in Subjects
    /\ moves = 0
    /\ subject # "session" => form = m1
    /\ SteeringInit
    /\ subject # "holdings" => marks = [locked |-> RunLocked, excluded |-> {}]
    /\ HoldingsInit
    /\ MandateInit

\* The user makes at most MaxMoves moves on the holdings; the page any number.
ScreensNext ==
    \/ /\ subject = "session" /\ SteeringNext
       /\ UNCHANGED <<holdings, page, moves>>
    \/ /\ subject = "holdings"
       /\ \/ moves < MaxMoves /\ UserMoves /\ moves' = moves + 1
          \/ PageMoves /\ UNCHANGED moves
       /\ UNCHANGED <<session, page>>
    \/ /\ subject = "mandate" /\ MandateNext
       /\ UNCHANGED <<session, holdings, moves>>

screens == <<session, holdings, page, subject, moves>>

ScreensSpec == ScreensInit /\ [][ScreensNext /\ UNCHANGED subject]_screens

-----------------------------------------------------------------------------
(* Three holdings, two of them in the portfolio, one without a rate.        *)

MCFigure == [irr      |-> 1 :> 5 @@ 2 :> Null @@ 3 :> 5,
             capacity |-> 1 :> 2 @@ 2 :> 1 @@ 3 :> 3]

MCLabelOf == [stage |-> 1 :> "permitted" @@ 2 :> "construction" @@ 3 :> "permitted"]

MCHits == "" :> {1, 2, 3} @@ "x" :> {2, 3}
=============================================================================
