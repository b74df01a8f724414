--------------------------- MODULE HoldingsScreen ---------------------------
(***************************************************************************)
(* Screen 03 over one stored run: the holdings table with its search box,  *)
(* selects, toggle and sortable header, and the project drawer with its    *)
(* two steering buttons (web/js/portfolio.js, table.js, controls.js).      *)
(* The controls, the view, the header component and the rows are separate  *)
(* copies of one state, kept together by handlers and a timer.             *)
(***************************************************************************)
EXTENDS Integers, Sequences, FiniteSets, SequencesExt

CONSTANTS
    Holdings,      \* the candidates of the run, as numbers in id order
    Selected,      \* those the optimiser chose
    Columns,       \* the columns the header sorts on
    FirstColumn,   \* equityIrr, the column of a fresh table
    Figure,        \* [Columns -> [Holdings -> Int \cup {Null}]]
    Selects,       \* the filters with a list: country, technology, stage
    Labels,        \* the values such a list offers
    LabelOf,       \* [Selects -> [Holdings -> Labels]]
    Queries,       \* what may be typed in the search box
    Hits,          \* [Queries -> SUBSET Holdings]: whose haystack holds it
    NoQuery,       \* the empty search box
    RunLocked, RunExcluded,   \* the steering the run was submitted with
    MaxAsked,      \* bound: statements requested and not answered
    Null           \* null

ASSUME HoldingsConstants ==
    /\ Holdings \subseteq Nat /\ IsFiniteSet(Holdings)
    /\ Selected \subseteq Holdings
    /\ FirstColumn \in Columns
    /\ Figure \in [Columns -> [Holdings -> Int \cup {Null}]]
    /\ LabelOf \in [Selects -> [Holdings -> Labels]]
    /\ Hits \in [Queries -> SUBSET Holdings]
    /\ NoQuery \in Queries /\ Hits[NoQuery] = Holdings
    /\ Null \notin Queries
    /\ RunLocked \cup RunExcluded \subseteq Holdings
    /\ RunLocked \cap RunExcluded = {}

VARIABLES
    controls,   \* what the page shows: typed, chosen, showingAll
    timer,      \* the debounced value of the search box, or Null
    tableView,  \* table.js: entries (a set: resolve sorts), query, facets,
                \* selectedOnly, sort
    table,      \* the component: rows, its own sort, and the count beside it
    marks,      \* page.locks
    arrived,    \* the run is on the page
    drawer,     \* page.openProject and what the drawer's regions hold
    asked       \* statements requested, by project

holdings == <<controls, timer, tableView, table, marks, arrived, drawer, asked>>

All == Null                \* a select on its first option filters nothing

FreshSort == [column |-> FirstColumn, descending |-> TRUE]
Row(p, l) == [id |-> p, locked |-> p \in l]

-----------------------------------------------------------------------------
(* The rows of a view.                                                     *)

\* compare: absent figures last in both directions, ties by id.
Before(a, b, sort) ==
    LET x == Figure[sort.column][a]
        y == Figure[sort.column][b]
    IN  \/ x = y /\ a < b
        \/ x # Null /\ y = Null
        \/ /\ x # Null /\ y # Null
           /\ IF sort.descending THEN y < x ELSE x < y

InBase(v, p) == v.selectedOnly => p \in Selected

Keeps(v, p) ==
    /\ InBase(v, p)
    /\ \A s \in Selects : v.facets[s] \in {All, LabelOf[s][p]}
    /\ p \in Hits[v.query]

\* The order is total: sorted, a row stands after exactly those before it.
Sorted(kept, sort) ==
    LET under(r) == {q \in kept : Before(q.id, r.id, sort)}
    IN  [n \in 1 .. Cardinality(kept) |->
            CHOOSE r \in kept : Cardinality(under(r)) = n - 1]

\* resolve: filter, then sort, then count.
Resolve(v) ==
    LET kept == {r \in v.entries : Keeps(v, r.id)}
    IN  [rows |-> Sorted(kept, v.sort),
         shown |-> Cardinality(kept),
         total |-> Cardinality({r \in v.entries : InBase(v, r.id)})]

\* refresh: the component's rows are assigned once, its sort is its own.
Refreshed(v, t) ==
    LET r == Resolve(v)
    IN  [t EXCEPT !.rows = r.rows, !.shown = r.shown, !.total = r.total]

HoldingsInit ==
    /\ controls = [typed |-> NoQuery, chosen |-> [s \in Selects |-> All],
                   showingAll |-> FALSE]
    /\ timer = Null
    /\ tableView = [entries |-> {}, query |-> NoQuery,
               facets |-> [s \in Selects |-> All],
               selectedOnly |-> TRUE, sort |-> FreshSort]
    /\ table = [rows |-> <<>>, sort |-> FreshSort, shown |-> 0, total |-> 0]
    /\ \E l, x \in SUBSET Holdings :
           l \cap x = {} /\ marks = [locked |-> l, excluded |-> x]
    /\ arrived = FALSE
    /\ drawer = [open |-> FALSE, project |-> Null, head |-> Null, groups |-> Null,
                 status |-> Null, locked |-> FALSE,
                 lock |-> FALSE, exclude |-> FALSE, provenance |-> Null]
    /\ asked = [p \in Holdings |-> 0]

Refresh(v) == tableView' = v /\ table' = Refreshed(v, table)

-----------------------------------------------------------------------------
(* The controls of the table.                                              *)

\* input: the value waits for the burst of typing to end.
Type(q) ==
    /\ q # controls.typed
    /\ controls' = [controls EXCEPT !.typed = q]
    /\ timer' = q
    /\ UNCHANGED <<tableView, table, marks, arrived, drawer, asked>>

SearchSettles ==
    /\ timer # Null
    /\ timer' = Null
    /\ Refresh([tableView EXCEPT !.query = timer])
    /\ UNCHANGED <<controls, marks, arrived, drawer, asked>>

\* A select offers what countryOptions and the markup put in it.
Choose(s, label) ==
    /\ controls' = [controls EXCEPT !.chosen[s] = label]
    /\ Refresh([tableView EXCEPT !.facets[s] = label])
    /\ UNCHANGED <<timer, marks, arrived, drawer, asked>>

ToggleAll ==
    /\ controls' = [controls EXCEPT !.showingAll = tableView.selectedOnly]
    /\ Refresh([tableView EXCEPT !.selectedOnly = ~@])
    /\ UNCHANGED <<timer, marks, arrived, drawer, asked>>

\* sortBy: the header moves and tells the view by tf:change.
SortBy(column) ==
    LET sort == IF table.sort.column = column
                THEN [table.sort EXCEPT !.descending = ~@]
                ELSE [column |-> column, descending |-> TRUE]
        v == [tableView EXCEPT !.sort = sort]
    IN  /\ tableView' = v
        /\ table' = Refreshed(v, [table EXCEPT !.sort = sort])
        /\ UNCHANGED <<controls, timer, marks, arrived, drawer, asked>>

-----------------------------------------------------------------------------
(* The run and its steering.                                               *)

\* applyLocks: the rows of the run are made again, and the table with them.
LockedRows(l) == {Row(p, l.locked) : p \in Holdings}

\* Mutant: the rows on the page keep the flags they were made with.
ApplyLocksToTheStore(l) ==
    /\ marks' = l
    /\ IF arrived THEN UNCHANGED <<tableView, table>>
       ELSE Refresh([tableView EXCEPT !.entries = LockedRows(l)])

ApplyLocks(l) ==
    /\ marks' = l
    /\ Refresh([tableView EXCEPT !.entries = LockedRows(l)])

\* adoptSteering: a session with no steering of its own takes the run's.
Adopt(l) == IF l.locked \cup l.excluded = {}
            THEN [locked |-> RunLocked, excluded |-> RunExcluded] ELSE l

\* start, getResult, show: the run is asked for once and drawn when it comes.
RunArrives ==
    /\ ~arrived
    /\ arrived' = TRUE
    /\ ApplyLocks(Adopt(marks))
    /\ UNCHANGED <<controls, timer, drawer, asked>>

\* store.steer: the second instruction about a project is the one meant.
Steered(p, set, present) ==
    LET other == IF set = "locked" THEN "excluded" ELSE "locked"
        moved == [marks EXCEPT ![set] = IF present THEN @ \cup {p} ELSE @ \ {p}]
    IN  IF present THEN [moved EXCEPT ![other] = @ \ {p}] ELSE moved

\* steeringButtons
Buttons(d, p, l) == [d EXCEPT !.lock = p \in l.locked, !.exclude = p \in l.excluded]

\* steer: a button asks for the opposite of what it is pressed to.
Press(set, pressed) ==
    LET p == drawer.project
        l == Steered(p, set, ~pressed)
    IN  /\ arrived /\ drawer.open
        /\ ApplyLocks(l)
        /\ drawer' = Buttons(drawer, p, l)
        /\ UNCHANGED <<controls, timer, arrived, asked>>

SteerHolding == Press("locked", drawer.lock) \/ Press("excluded", drawer.exclude)

-----------------------------------------------------------------------------
(* The drawer.  An open one hides the page from the mouse and not from the  *)
(* keyboard: the focus may come back to any control by the address bar.     *)

\* statusIn
Status(p, l) == IF p \in l.excluded THEN "Excluded"
                ELSE IF p \in Selected THEN "Selected" ELSE "Not selected"

\* openDrawer: header, groups (which clears the provenance) and buttons.
Filled(p, l) ==
    Buttons([drawer EXCEPT !.project = p, !.head = p, !.groups = p,
                           !.status = Status(p, l), !.locked = p \in l.locked,
                           !.provenance = Null], p, l)

\* The click opens the overlay and fills the drawer, whatever was open, for a
\* holding that findHolding finds: one of the run on the page.
OpenDrawer(p) ==
    /\ arrived /\ \E i \in DOMAIN table.rows : table.rows[i].id = p
    /\ asked[p] < MaxAsked
    /\ drawer' = [Filled(p, marks) EXCEPT !.open = TRUE]
    /\ asked' = [asked EXCEPT ![p] = @ + 1]
    /\ UNCHANGED <<controls, timer, tableView, table, marks, arrived>>

\* hide, by the button, the scrim or the key: what it held stays in it.
CloseDrawer ==
    /\ drawer.open
    /\ drawer' = [drawer EXCEPT !.open = FALSE]
    /\ UNCHANGED <<controls, timer, tableView, table, marks, arrived, asked>>

\* Mutant: the answer is drawn whatever the drawer shows by then.
ForAnyProject(p) == TRUE

\* The answer of getProjectStatements is for the project it was asked for.
StillOpen(p) == drawer.project = p

StatementsArrive(p) ==
    /\ asked[p] > 0
    /\ asked' = [asked EXCEPT ![p] = @ - 1]
    /\ drawer' = IF StillOpen(p) THEN [drawer EXCEPT !.provenance = p] ELSE drawer
    /\ UNCHANGED <<controls, timer, tableView, table, marks, arrived>>

StatementsRefused(p) ==
    /\ asked[p] > 0
    /\ asked' = [asked EXCEPT ![p] = @ - 1]
    /\ UNCHANGED <<controls, timer, tableView, table, marks, arrived, drawer>>

\* What the user does, and what the page does by itself.
UserMoves ==
    \/ \E q \in Queries : Type(q)
    \/ \E s \in Selects, label \in Labels \cup {All} : Choose(s, label)
    \/ ToggleAll
    \/ \E c \in Columns : SortBy(c)
    \/ SteerHolding
    \/ \E p \in Holdings : OpenDrawer(p)
    \/ CloseDrawer

PageMoves ==
    \/ SearchSettles
    \/ RunArrives
    \/ \E p \in Holdings : StatementsArrive(p) \/ StatementsRefused(p)

HoldingsNext == UserMoves \/ PageMoves

HoldingsSpec == HoldingsInit /\ [][HoldingsNext]_holdings

-----------------------------------------------------------------------------
(* Properties.                                                             *)

\* What the page's own controls ask for, read off the controls alone.
Asked(p) ==
    /\ controls.showingAll \/ p \in Selected
    /\ \A s \in Selects : controls.chosen[s] \in {All, LabelOf[s][p]}
    /\ p \in Hits[controls.typed]

InHeaderOrder(a, b) ==
    LET x == Figure[table.sort.column][a]
        y == Figure[table.sort.column][b]
    IN  CASE x = Null \/ y = Null -> y = Null /\ (x = Null => a < b)
          [] x = y -> a < b
          [] OTHER -> table.sort.descending <=> x > y

\* Once the burst of typing has settled, the table shows exactly the projects
\* the search box, the selects and the toggle ask for, each once, in the order
\* the header's arrow says with absent figures last, each with the lock mark
\* of the session's steering; in whatever order the run, the filters, the sort
\* and the steering came (table.js and portfolio.js: view, controls and rows
\* are copies that four kinds of handler keep together).
RowsAnswerTheControls ==
    arrived /\ timer = Null =>
        LET ids == [i \in DOMAIN table.rows |-> table.rows[i].id]
        IN  /\ ToSet(ids) = {p \in Holdings : Asked(p)}
            /\ \A i, j \in DOMAIN ids : i < j => InHeaderOrder(ids[i], ids[j])
            /\ \A i \in DOMAIN ids : table.rows[i].locked <=> ids[i] \in marks.locked
            /\ table.shown = Len(ids)
            /\ table.total = Cardinality({p \in Holdings :
                                 controls.showingAll \/ p \in Selected})

\* Every part of an open drawer is of one project, the one its buttons steer,
\* though statements are answered late and in any order; and the buttons say
\* what a press of them would undo (openDrawer, provenance, steer).
DrawerIsOfItsProject ==
    drawer.open =>
        /\ drawer.head = drawer.project /\ drawer.groups = drawer.project
        /\ drawer.provenance \in {Null, drawer.project}
        /\ drawer.lock <=> drawer.project \in marks.locked
        /\ drawer.exclude <=> drawer.project \in marks.excluded

\* The drawer's Risk rows say what the steering is: "Status in portfolio" and
\* "Locked" (docs/ui-contract.md 5.5).  The code does not keep this promise:
\* steer renders the buttons again and not the rows.
DrawerShowsTheSteering ==
    drawer.open =>
        /\ drawer.locked <=> drawer.project \in marks.locked
        /\ drawer.status = Status(drawer.project, marks)
=============================================================================
