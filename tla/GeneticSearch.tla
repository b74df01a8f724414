--------------------------- MODULE GeneticSearch ----------------------------
(***************************************************************************)
(* The search a worker runs: evolve (optimiser/ga.py) with its operators   *)
(* (operators.py) and the budget repair (repair.py).  A chromosome is the  *)
(* set of projects it holds; every draw of the generator is a choice; the  *)
(* objective is a function of the chromosome, quantised, so that equal     *)
(* fitness is common.                                                      *)
(***************************************************************************)
EXTENDS Integers, FiniteSets, Functions

CONSTANTS
    Candidates,    \* the eligible projects
    Equity,        \* what each of them costs
    Budget,        \* available_capital_eur
    EquityTolerance,  \* equity_cap_tolerance_eur
    Locked,        \* the projects every portfolio must hold
    Landscapes,    \* the objective: functions from chromosomes to scores
    Size,          \* population
    Elites,        \* elite_count
    Generations    \* generations

Chromosomes == SUBSET Candidates
Cost(c) == SumFunctionOnSet(Equity, c)

ASSUME SearchConstants ==
    /\ IsFiniteSet(Candidates)
    /\ Equity \in [Candidates -> Nat]
    /\ Budget \in Nat /\ EquityTolerance \in Nat
    /\ Locked \subseteq Candidates
    /\ Landscapes \subseteq [Chromosomes -> Int]
    /\ Size \in Nat \ {0} /\ Elites \in 1 .. Size
    /\ Generations \in Nat \ {0}

\* POST /optimisations refuses locks that exceed the capital.
ASSUME LocksFit == Cost(Locked) <= Budget

VARIABLES
    objective,     \* the landscape of this run
    population,    \* chromosomes, the elites of the last generation first
    generation,    \* generations scored
    best,          \* best_selection
    event,         \* the portfolio the last event described
    phase          \* "bred" before a generation is scored, "scored" after

search == <<objective, population, generation, best, event, phase>>

Fitness(i) == objective[population[i]]
Individuals == 1 .. Size

-----------------------------------------------------------------------------
(* repair_to_budget.                                                       *)

\* A priority is one random order of the candidates; the locks come before all
\* of it, and need no order among themselves: they fit.
Priorities == Injection(Candidates, 1 .. Cardinality(Candidates))

Key(priority, p) == IF p \in Locked THEN 0 ELSE priority[p]

\* What is spent once a holding has been kept.
Cumulative(c, priority, p) == Cost({q \in c : Key(priority, q) <= Key(priority, p)})

\* Mutant: the holding that crosses the budget is kept.
TrimmedLate(c, priority) ==
    {p \in c : Cumulative(c \ {p}, priority, p) < Budget}

Trimmed(c, priority) == {p \in c : Cumulative(c, priority, p) <= Budget}

\* A row inside its budget by the tolerance is left alone.
Repair(c, priority) ==
    IF Cost(c) > Budget - EquityTolerance THEN Trimmed(c, priority) ELSE c

-----------------------------------------------------------------------------
(* The operators.                                                          *)

ForceLocks(c) == c \cup Locked

\* What locking and repairing may make of a draw.
Feasible == [c \in Chromosomes |-> {Repair(ForceLocks(c), priority) : priority \in Priorities}]

\* elite_order is stable: equals keep their order.
Before(i, j) == Fitness(i) > Fitness(j) \/ (Fitness(i) = Fitness(j) /\ i < j)

\* Mutant: equals are reordered.
UnstableOrder ==
    LET after(i, j) == Fitness(i) > Fitness(j) \/ (Fitness(i) = Fitness(j) /\ i > j)
        place(i) == 1 + Cardinality({j \in Individuals : after(j, i)})
    IN  [k \in Individuals |-> CHOOSE i \in Individuals : place(i) = k]

Place(i) == 1 + Cardinality({j \in Individuals : Before(j, i)})

EliteOrder == [k \in Individuals |-> CHOOSE i \in Individuals : Place(i) = k]

\* A contest of two; ties go to the later draw.
Winner(first, second) ==
    IF Fitness(second) >= Fitness(first) THEN second ELSE first

\* Per gene, one parent or the other.
Crossover(coin, mother, father) == (coin \cap mother) \cup (father \ coin)

\* Each gene flips where the draw says so.
Mutate(flips, c) == (c \ flips) \cup (flips \ c)

\* Every child the five draws of one generation can give.
Parents == {population[Winner(i, j)] : i \in Individuals, j \in Individuals}
Crossed == {Crossover(coin, mother, father) :
               coin \in Chromosomes, mother \in Parents, father \in Parents}
Mutated == {Mutate(flips, c) : flips \in Chromosomes, c \in Crossed}
Offspring == UNION {Feasible[c] : c \in Mutated}

-----------------------------------------------------------------------------
(* evolve.                                                                 *)

InitialPopulation == UNION {Feasible[draw] : draw \in Chromosomes}

SearchInit ==
    /\ objective \in Landscapes
    /\ population \in [Individuals -> InitialPopulation]
    /\ generation = 0
    /\ best = population[1]
    /\ event = population[1]
    /\ phase = "bred"

\* The leader is yielded; it becomes the best only if it is strictly better
\* than every leader before.
Score ==
    /\ phase = "bred"
    /\ LET leader == population[EliteOrder[1]]
       IN  /\ event' = leader
           /\ best' = IF generation = 0 \/ objective[leader] > objective[best]
                      THEN leader ELSE best
    /\ generation' = generation + 1
    /\ phase' = "scored"
    /\ UNCHANGED <<objective, population>>

\* The elites, and a child in every other place.
Breed ==
    /\ phase = "scored"
    /\ generation < Generations
    /\ LET order == EliteOrder
       IN  \E children \in [1 .. Size - Elites -> Offspring] :
             population' = [i \in Individuals |->
                               IF i <= Elites THEN population[order[i]]
                                              ELSE children[i - Elites]]
    /\ phase' = "bred"
    /\ UNCHANGED <<objective, generation, best, event>>

SearchNext == Score \/ Breed

SearchSpec == SearchInit /\ [][SearchNext]_search

-----------------------------------------------------------------------------
(* Properties.                                                             *)

SearchTypeOK ==
    /\ objective \in Landscapes
    /\ population \in [Individuals -> Chromosomes]
    /\ generation \in 0 .. Generations
    /\ best \in Chromosomes /\ event \in Chromosomes
    /\ phase \in {"bred", "scored"}

\* No chromosome of any generation costs more than the capital or misses a
\* lock, whatever crossover and mutation did to it (repair.py, "locked
\* holdings survive"; the reward for utilisation parks them on the boundary).
EveryChromosomeIsFeasible ==
    \A i \in Individuals : Locked \subseteq population[i]
                              /\ Cost(population[i]) <= Budget

\* The portfolio the run ends with is the one its last event described, and
\* nothing in the population beats it: the leader of a generation is the
\* running best (GenerationEvent), equals included.
WinnerIsTheOneShown ==
    phase = "scored" =>
        /\ best = event
        /\ \A i \in Individuals : Fitness(i) <= objective[best]

=============================================================================
