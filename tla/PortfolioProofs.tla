--------------------------- MODULE PortfolioProofs ---------------------------
(***************************************************************************)
(* Theorems about a run from its search to its documents, for any loads,   *)
(* mandates and weights.                                                   *)
(*                                                                         *)
(* The portfolio of a run is the one its mandate asks for because the      *)
(* score puts every selection over the budget below none, and every other  *)
(* above; and its tiles are judged on the figures that were scored.  Both  *)
(* are about sums over any selection of any load.                          *)
(*                                                                         *)
(* The record joins what the worker summed to what the server kept, by     *)
(* position: the n-th bit of a mask is the n-th candidate in every one of  *)
(* its readers, and a sum over the ones is a sum over the others.          *)
(***************************************************************************)
EXTENDS RunDocuments, SumLemmas, TLAPS

-----------------------------------------------------------------------------
(* The rate of a series (Returns).                                        *)

\* Without the power of two, which the provers do not read.
LEMMA RatesAreIntegers ==
    RateLow \in Int /\ RateHigh \in Int /\ Halvings \in Nat
  BY ReturnsConstants, Zenon

LEMMA BracketOfRates ==
    /\ RateLow \in Int /\ RateHigh \in Int
    /\ -100 < RateLow /\ -100 < RateHigh
<1>1. RateLow \in Int /\ RateHigh \in Int
  BY ReturnsConstants, Zenon
<1>2. -100 < RateLow /\ RateLow < RateHigh
  BY ReturnsConstants, Zenon
<1>. QED  BY <1>1, <1>2

IsBracket(b) == b = <<b[1], b[2]>> /\ b[1] \in Int /\ b[2] \in Int

\* A half of a bracket is one.
LEMMA HalfIsABracket ==
    ASSUME NEW series, NEW b, IsBracket(b)
    PROVE  IsBracket(Halved(series, b))
<1>. DEFINE middle == (b[1] + b[2]) \div 2
<1>1. middle \in Int
  BY DivBounds DEF IsBracket
<1>2. Halved(series, b) \in {<<b[1], middle>>, <<middle, b[2]>>}
  BY DEF Halved
<1>. HIDE DEF middle
<1>. QED  BY <1>1, <1>2 DEF IsBracket

Turn(series, g, i) == IF i = 0 THEN <<RateLow, RateHigh>> ELSE Halved(series, g[i - 1])

Bisection(series, g) == g = [i \in 0 .. Halvings |-> Turn(series, g, i)]

\* The recursive function is one: the turns can be taken one by one.
LEMMA BisectionExists ==
    ASSUME NEW series
    PROVE  \E g : Bisection(series, g)
<1>. DEFINE UpTo(g, n) == g = [i \in 0 .. Halvings |->
                                  IF i <= n THEN Turn(series, g, i) ELSE 0]
            P == {n \in Nat : \E g : UpTo(g, n)}
<1>0. Halvings \in Nat
  BY RatesAreIntegers
<1>1. 0 \in P
  <2>. DEFINE g == [i \in 0 .. Halvings |-> IF i <= 0 THEN <<RateLow, RateHigh>> ELSE 0]
  <2>1. UpTo(g, 0)
    BY <1>0 DEF Turn
  <2>. QED  BY <2>1
<1>2. ASSUME NEW n \in P PROVE n + 1 \in P
  <2>1. PICK g : UpTo(g, n)
    BY <1>2
  <2>. DEFINE h == [i \in 0 .. Halvings |-> IF i <= n + 1 THEN Turn(series, g, i) ELSE 0]
  <2>2. ASSUME NEW i \in 0 .. Halvings, i <= n + 1
        PROVE  Turn(series, h, i) = Turn(series, g, i)
    <3>1. CASE i = 0
      BY <3>1 DEF Turn
    <3>2. CASE i # 0
      <4>1. i - 1 \in 0 .. Halvings /\ i - 1 <= n /\ i - 1 <= n + 1
        BY <1>0, <2>2, <3>2
      <4>2. h[i - 1] = Turn(series, g, i - 1)
        BY <4>1
      <4>3. g[i - 1] = Turn(series, g, i - 1)
        BY <2>1, <4>1
      <4>. HIDE DEF h
      <4>. QED  BY <3>2, <4>2, <4>3 DEF Turn
    <3>. QED  BY <3>1, <3>2
  <2>3. h = [i \in 0 .. Halvings |-> IF i <= n + 1 THEN Turn(series, g, i) ELSE 0]
    OBVIOUS
  <2>. HIDE DEF h
  <2>4. UpTo(h, n + 1)
    BY <2>2, <2>3
  <2>. QED  BY <2>4
<1>3. P = Nat
  <2>. HIDE DEF P
  <2>1. P \in SUBSET Nat
    BY DEF P
  <2>. QED  BY <1>1, <1>2, <2>1, SetInduction
<1>4. PICK g : UpTo(g, Halvings)
  BY <1>0, <1>3
<1>5. Bisection(series, g)
  BY <1>0, <1>4 DEF Bisection
<1>. QED  BY <1>5

\* A rate of return is an integer, or cannot be said.
LEMMA IrrIsARate ==
    ASSUME NEW series
    PROVE  Irr(series) \in Int \cup {Undefined}
<1>. DEFINE g == CHOOSE b : Bisection(series, b)
            P == {n \in Nat : n <= Halvings => IsBracket(g[n])}
<1>0. Halvings \in Nat
  BY RatesAreIntegers
<1>1. Bisection(series, g)
  BY BisectionExists
<1>2. Irr(series) \in {g[Halvings][1] + 1, Undefined}
  BY DEF Irr, Bisection, Turn
<1>. HIDE DEF g
<1>3. 0 \in P
  <2>1. g[0] = <<RateLow, RateHigh>>
    BY <1>0, <1>1 DEF Bisection, Turn
  <2>. QED  BY <2>1, RatesAreIntegers DEF IsBracket
<1>4. ASSUME NEW n \in P PROVE n + 1 \in P
  <2>. SUFFICES ASSUME n + 1 <= Halvings PROVE IsBracket(g[n + 1])
    OBVIOUS
  <2>1. g[n + 1] = Halved(series, g[n])
    BY <1>0, <1>1 DEF Bisection, Turn
  <2>2. IsBracket(g[n])
    BY <1>0
  <2>. QED  BY <2>1, <2>2, HalfIsABracket
<1>5. P = Nat
  <2>. HIDE DEF P
  <2>1. P \in SUBSET Nat
    BY DEF P
  <2>. QED  BY <1>3, <1>4, <2>1, SetInduction
<1>6. g[Halvings][1] \in Int
  BY <1>0, <1>5 DEF IsBracket
<1>. QED  BY <1>2, <1>6

\* What npv walks through, from the last year back.
Walk(rate, series, g) ==
    g = [k \in 0 .. Len(series) |->
            IF k = 0 THEN <<0, 1>>
            ELSE <<100 * g[k - 1][1] + series[Len(series) + 1 - k] * g[k - 1][2],
                   (100 + rate) * g[k - 1][2]>>]

LEMMA WalkExists ==
    ASSUME NEW rate \in Int, NEW series, Len(series) \in Nat,
           \A y \in 1 .. Len(series) : series[y] \in Int
    PROVE  \E g : Walk(rate, series, g)
<1>. DEFINE n == Len(series)
            T == Int \X Int
            next == [p \in (1 .. n) \X T |->
                       <<100 * p[2][1] + series[n + 1 - p[1]] * p[2][2],
                         (100 + rate) * p[2][2]>>]
<1>1. ASSUME NEW i \in 1 .. n, NEW v \in T PROVE next[<<i, v>>] \in T
  <2>. DEFINE a == v[1]
              b == v[2]
              c == series[n + 1 - i]
  <2>1. a \in Int /\ b \in Int /\ n + 1 - i \in 1 .. n
    OBVIOUS
  <2>2. c \in Int
    BY <2>1
  <2>3. next[<<i, v>>] = <<100 * a + c * b, (100 + rate) * b>>
    OBVIOUS
  <2>. HIDE DEF a, b, c, next
  <2>4. 100 * a + c * b \in Int /\ (100 + rate) * b \in Int
    BY <2>1, <2>2
  <2>. QED  BY <2>3, <2>4
<1>2. <<0, 1>> \in T
  OBVIOUS
<1>. HIDE DEF next
<1>3. PICK g : Follows(g, n, T, <<0, 1>>, next)
  <2>1. n \in Nat
    OBVIOUS
  <2>. HIDE DEF T, n
  <2>. QED  BY <1>1, <1>2, <2>1, RecursionExists
<1>4. /\ g \in [0 .. n -> T] /\ g[0] = <<0, 1>>
      /\ \A i \in 1 .. n : g[i] = next[<<i, g[i - 1]>>]
  BY <1>3, Zenon DEF Follows
<1>5. ASSUME NEW i \in 1 .. n
      PROVE  g[i] = <<100 * g[i - 1][1] + series[n + 1 - i] * g[i - 1][2],
                      (100 + rate) * g[i - 1][2]>>
  <2>1. g[i - 1] \in T /\ <<i, g[i - 1]>> \in (1 .. n) \X T
    <3>1. i - 1 \in 0 .. n
      OBVIOUS
    <3>. HIDE DEF T, n
    <3>. QED  BY <1>4, <3>1
  <2>. HIDE DEF T
  <2>2. next[<<i, g[i - 1]>>] = <<100 * g[i - 1][1] + series[n + 1 - i] * g[i - 1][2],
                                  (100 + rate) * g[i - 1][2]>>
    BY <2>1 DEF next
  <2>. QED  BY <1>4, <2>2
<1>6. Walk(rate, series, g)
  <2>. DEFINE f == [k \in 0 .. n |->
                IF k = 0 THEN <<0, 1>>
                ELSE <<100 * g[k - 1][1] + series[n + 1 - k] * g[k - 1][2],
                       (100 + rate) * g[k - 1][2]>>]
  <2>1. ASSUME NEW k \in 0 .. n PROVE g[k] = f[k]
    <3>1. CASE k = 0
      BY <1>4, <3>1
    <3>2. CASE k # 0
      BY <1>5, <3>2
    <3>. QED  BY <3>1, <3>2
  <2>2. g = f
    <3>1. g = [k \in 0 .. n |-> g[k]]
      <4>. HIDE DEF T, n
      <4>. QED  BY <1>4
    <3>2. f = [k \in 0 .. n |-> f[k]]
      <4>. HIDE DEF n
      <4>. QED  OBVIOUS
    <3>. HIDE DEF f
    <3>. QED  BY <2>1, <3>1, <3>2
  <2>. QED  BY <2>2 DEF Walk
<1>. QED  BY <1>6

\* Above a total loss, what only ever pays is worth something today.
LEMMA GainsAreWorth ==
    ASSUME NEW rate \in Int, -100 < rate, NEW series, Len(series) \in Nat,
           \A y \in 1 .. Len(series) : series[y] \in Nat,
           NEW paid \in 1 .. Len(series), series[paid] > 0
    PROVE  Npv(rate, series) \in Int /\ Npv(rate, series) > 0
<1>. DEFINE n == Len(series)
            g == CHOOSE w : Walk(rate, series, w)
            Worth(k) == /\ g[k][1] \in Nat /\ g[k][2] \in Nat \ {0}
                        /\ n + 1 - k <= paid => g[k][1] > 0
            P == {k \in Nat : k <= n => Worth(k)}
<1>1. Walk(rate, series, g)
  <2>1. \E w : Walk(rate, series, w)
    BY WalkExists
  <2>. QED  BY <2>1
<1>2. Npv(rate, series) = g[n][1]
  BY Zenon DEF Npv, Walk
<1>. HIDE DEF g
<1>3. 0 \in P
  <2>1. g[0] = <<0, 1>>
    BY <1>1 DEF Walk
  <2>. QED  BY <2>1
<1>4. ASSUME NEW k \in P PROVE k + 1 \in P
  <2>. SUFFICES ASSUME k + 1 <= n PROVE Worth(k + 1)
    OBVIOUS
  <2>. DEFINE a == g[k][1]
              b == g[k][2]
              y == n - k
              c == series[y]
  <2>1. k \in Nat /\ k + 1 \in 0 .. n /\ k + 1 - 1 = k /\ n + 1 - (k + 1) = y /\ y \in 1 .. n
    OBVIOUS
  <2>2. g[k + 1] = <<100 * a + c * b, (100 + rate) * b>>
    <3>. HIDE DEF P, Worth, n
    <3>1. g[k + 1] = <<100 * g[k + 1 - 1][1] + series[n + 1 - (k + 1)] * g[k + 1 - 1][2],
                       (100 + rate) * g[k + 1 - 1][2]>>
      BY <1>1, <2>1 DEF Walk, n
    <3>. QED  BY <2>1, <3>1
  <2>3. a \in Nat /\ b \in Nat \ {0} /\ (y + 1 <= paid => a > 0)
    BY <2>1
  <2>4. c \in Nat /\ (y = paid => c > 0)
    BY <2>1
  <2>. HIDE DEF a, b, c, y, P, g
  <2>5. /\ 100 * a \in Nat /\ (a > 0 => 100 * a > 0)
    BY <2>3
  <2>6. c * b \in Nat /\ (c > 0 => c * b > 0)
    BY <2>3, <2>4
  <2>7. (100 + rate) \in Nat \ {0}
    OBVIOUS
  <2>8. (100 + rate) * b \in Nat \ {0}
    BY <2>3, <2>7
  <2>9. y <= paid => a > 0 \/ c > 0
    BY <2>1, <2>3, <2>4
  <2>. QED  BY <2>1, <2>2, <2>5, <2>6, <2>8, <2>9
<1>5. P = Nat
  <2>. HIDE DEF P
  <2>1. P \in SUBSET Nat
    BY DEF P
  <2>. QED  BY <1>3, <1>4, <2>1, SetInduction
<1>6. Worth(n)
  BY <1>5
<1>. QED  BY <1>2, <1>6

\* What only ever pays has no rate of return: no rate makes it worth nothing.
LEMMA NoRateOfGains ==
    ASSUME NEW series, Len(series) \in Nat, DOMAIN series = 1 .. Len(series),
           \A y \in DOMAIN series : series[y] \in Nat
    PROVE  Irr(series) = Undefined
<1>1. CASE \A y \in DOMAIN series : series[y] = 0
  BY <1>1 DEF Irr
<1>2. ASSUME NEW y \in DOMAIN series, series[y] # 0 PROVE Irr(series) = Undefined
  <2>1. series[y] > 0 /\ RateLow \in Int /\ RateHigh \in Int /\ -100 < RateLow /\ -100 < RateHigh
    BY <1>2, BracketOfRates
  <2>2. /\ Npv(RateLow, series) \in Int /\ Npv(RateLow, series) > 0
        /\ Npv(RateHigh, series) \in Int /\ Npv(RateHigh, series) > 0
    BY <2>1, GainsAreWorth
  <2>3. ~Opposed(series, RateLow, RateHigh)
    BY <2>2 DEF Opposed, Sign
  <2>. QED  BY <2>3 DEF Irr
<1>. QED  BY <1>1, <1>2

-----------------------------------------------------------------------------
(* The levelised cost (Returns).                                           *)

Discounting(start, amounts, g) ==
    g = [y \in 0 .. Years |-> IF y = 0 THEN start ELSE 2 * g[y - 1] + amounts[y]]

LEMMA DiscountingExists ==
    ASSUME NEW start \in Nat, NEW amounts, \A y \in 1 .. Years : amounts[y] \in Nat
    PROVE  \E g : Discounting(start, amounts, g)
<1>. DEFINE next == [p \in (1 .. Years) \X Nat |-> 2 * p[2] + amounts[p[1]]]
<1>0. Years \in Nat
  BY ReturnsConstants, Zenon
<1>1. ASSUME NEW i \in 1 .. Years, NEW v \in Nat
      PROVE  next[<<i, v>>] = 2 * v + amounts[i] /\ next[<<i, v>>] \in Nat
  OBVIOUS
<1>. HIDE DEF next
<1>2. PICK g : Follows(g, Years, Nat, start, next)
  BY <1>0, <1>1, RecursionExists
<1>3. /\ g \in [0 .. Years -> Nat] /\ g[0] = start
      /\ \A i \in 1 .. Years : g[i] = next[<<i, g[i - 1]>>]
  BY <1>2 DEF Follows
<1>4. ASSUME NEW i \in 1 .. Years PROVE g[i] = 2 * g[i - 1] + amounts[i]
  <2>1. g[i - 1] \in Nat
    BY <1>0, <1>3
  <2>. QED  BY <1>1, <1>3, <2>1
<1>5. \A y \in 0 .. Years : g[y] = IF y = 0 THEN start ELSE 2 * g[y - 1] + amounts[y]
  BY <1>0, <1>3, <1>4
<1>6. Discounting(start, amounts, g)
  BY <1>3, <1>5 DEF Discounting
<1>. QED  BY <1>6

\* What is discounted of amounts that are not negative is not, and is more
\* than nothing when one of them is.
LEMMA DiscountedIsNatural ==
    ASSUME NEW start \in Nat, NEW amounts, \A y \in 1 .. Years : amounts[y] \in Nat
    PROVE  /\ Discounted(start, amounts) \in Nat
           /\ (\E y \in 1 .. Years : amounts[y] > 0) => Discounted(start, amounts) > 0
<1>. DEFINE g == CHOOSE v : Discounting(start, amounts, v)
            Worth(k) == g[k] \in Nat /\ \A y \in 1 .. k : amounts[y] > 0 => g[k] > 0
            P == {k \in Nat : k <= Years => Worth(k)}
<1>0. Years \in Nat
  BY ReturnsConstants, Zenon
<1>1. Discounting(start, amounts, g)
  <2>1. \E v : Discounting(start, amounts, v)
    BY DiscountingExists
  <2>. QED  BY <2>1
<1>2. Discounted(start, amounts) = g[Years]
  BY Zenon DEF Discounted, Discounting
<1>. HIDE DEF g
<1>3. 0 \in P
  <2>1. g[0] = start
    BY <1>0, <1>1 DEF Discounting
  <2>. QED  BY <2>1
<1>4. ASSUME NEW k \in P PROVE k + 1 \in P
  <2>. SUFFICES ASSUME k + 1 <= Years PROVE Worth(k + 1)
    OBVIOUS
  <2>1. k \in Nat /\ k + 1 \in 1 .. Years /\ k + 1 - 1 = k
    BY <1>0
  <2>2. g[k + 1] = 2 * g[k] + amounts[k + 1]
    BY <1>0, <1>1, <2>1 DEF Discounting
  <2>3. Worth(k)
    BY <1>0, <2>1
  <2>4. amounts[k + 1] \in Nat
    BY <2>1
  <2>5. g[k + 1] \in Nat /\ (g[k] > 0 \/ amounts[k + 1] > 0 => g[k + 1] > 0)
    BY <2>2, <2>3, <2>4
  <2>6. ASSUME NEW y \in 1 .. k + 1, amounts[y] > 0 PROVE g[k + 1] > 0
    <3>1. CASE y = k + 1
      BY <2>5, <2>6, <3>1
    <3>2. CASE y # k + 1
      <4>1. y \in 1 .. k
        BY <2>1, <3>2
      <4>2. g[k] > 0
        BY <2>3, <2>6, <4>1
      <4>. QED  BY <2>5, <4>2
    <3>. QED  BY <3>1, <3>2
  <2>. QED  BY <2>5, <2>6
<1>5. P = Nat
  <2>. HIDE DEF P
  <2>1. P \in SUBSET Nat
    BY DEF P
  <2>. QED  BY <1>3, <1>4, <2>1, SetInduction
<1>6. Worth(Years)
  BY <1>0, <1>5
<1>. QED  BY <1>2, <1>6

\* A plant that generates has a levelised cost.
LEMMA CostOfGeneration ==
    ASSUME NEW load \in Loads, NEW i \in DOMAIN load, Generates(load[i])
    PROVE  Lcoe(load[i]) \in Int /\ Lcoe(load[i]) # Undefined
<1>. DEFINE p == load[i]
            opex == [y \in 1 .. Years |-> IF PlantAge(p, y) >= 0 THEN p.opex ELSE 0]
            cost == Discounted(p.capex, opex)
            produced == Discounted(0, p.generation)
<1>1. p.capex \in Nat /\ p.opex \in Nat /\ p.generation \in [1 .. Years -> Nat]
  BY LoadsAreOfPlants
<1>2. \A y \in 1 .. Years : opex[y] \in Nat
  <2>. HIDE DEF p
  <2>. QED  BY <1>1
<1>3. Lcoe(p) = IF produced > 0 THEN (1000 * cost) \div produced ELSE Undefined
  BY DEF Lcoe
<1>4. \E y \in 1 .. Years : p.generation[y] > 0
  BY DEF Generates
<1>. HIDE DEF p, opex
<1>5. cost \in Nat
  BY <1>1, <1>2, DiscountedIsNatural
<1>6. produced \in Nat /\ produced > 0
  <2>1. \A y \in 1 .. Years : p.generation[y] \in Nat
    BY <1>1
  <2>. QED  BY <1>4, <2>1, DiscountedIsNatural
<1>. HIDE DEF cost, produced
<1>7. (1000 * cost) \div produced \in Int
  BY <1>5, <1>6, DivBounds
<1>8. Lcoe(p) \in Int
  BY <1>3, <1>6, <1>7
<1>9. Undefined \notin Int
  BY ReturnsConstants, Zenon
<1>. QED  BY <1>8, <1>9 DEF p

-----------------------------------------------------------------------------
(* The totals of a selection (Portfolio).                                  *)

PlantOK(p) ==
    /\ p.capacity \in Nat \ {0} /\ p.capex \in Nat \ {0}
    /\ p.debt \in Nat /\ p.debt <= p.capex
    /\ p.risk \in 1 .. 5 /\ p.ppa \in Thousandths /\ p.country \in Nat

\* What any selection of a load is made of.
LEMMA PlantsOfALoad ==
    ASSUME NEW load \in Loads, NEW held \in SUBSET DOMAIN load
    PROVE  /\ IsFiniteSet(held)
           /\ \A i \in held : PlantOK(load[i]) /\ Equity(load[i]) \in Nat
           /\ IsFiniteSet(DOMAIN load)
<1>1. Len(load) \in Nat /\ DOMAIN load = 1 .. Len(load)
  BY LoadsAreOfPlants
<1>2. IsFiniteSet(DOMAIN load) /\ IsFiniteSet(held)
  <2>1. IsFiniteSet(1 .. Len(load))
    BY <1>1, FS_Interval
  <2>. QED  BY <1>1, <2>1, FS_Subset
<1>3. ASSUME NEW i \in held PROVE PlantOK(load[i]) /\ Equity(load[i]) \in Nat
  <2>1. PlantOK(load[i])
    BY LoadsAreOfPlants DEF PlantOK
  <2>2. load[i].capex - load[i].debt \in Nat
    BY <2>1 DEF PlantOK
  <2>. QED  BY <2>1, <2>2 DEF Equity
<1>. QED  BY <1>2, <1>3

\* A column is a sum of the lemmas.
LEMMA ColumnIsASum ==
    ASSUME NEW load, NEW held, NEW field
    PROVE  Column(load, held, field) = SumOf([i \in held |-> load[i][field]], held)
  BY DEF Column, SumFunction, SumOf

\* So is the equity.
LEMMA EquityIsASum ==
    ASSUME NEW load, NEW held
    PROVE  EquityOf(load, held) = SumOf([i \in held |-> Equity(load[i])], held)
  BY DEF EquityOf, SumFunction, SumOf

\* The totals of a selection of a load.
LEMMA ColumnsOfALoad ==
    ASSUME NEW load \in Loads, NEW held \in SUBSET DOMAIN load
    PROVE  /\ Column(load, held, "capacity") \in Nat
           /\ Column(load, held, "debt") \in Nat
           /\ Column(load, held, "capex") \in Nat
           /\ EquityOf(load, held) \in Nat
           /\ held = {} => EquityOf(load, held) = 0 /\ Column(load, held, "capex") = 0
           /\ held # {} => Column(load, held, "capex") > 0
<1>. DEFINE of(field) == [i \in held |-> load[i][field]]
            equity == [i \in held |-> Equity(load[i])]
<1>0. IsFiniteSet(held) /\ held \in SUBSET held
  BY PlantsOfALoad
<1>1. /\ Natural(of("capacity"), held) /\ Natural(of("debt"), held)
      /\ Natural(of("capex"), held) /\ Natural(equity, held)
  BY PlantsOfALoad DEF Natural, PlantOK
<1>2. \A i \in held : of("capex")[i] # 0
  BY PlantsOfALoad DEF PlantOK
<1>3. held = {} => \A i \in held : equity[i] = 0 /\ of("capex")[i] = 0
  OBVIOUS
<1>4. /\ Column(load, held, "capacity") = SumOf(of("capacity"), held)
      /\ Column(load, held, "debt") = SumOf(of("debt"), held)
      /\ Column(load, held, "capex") = SumOf(of("capex"), held)
      /\ EquityOf(load, held) = SumOf(equity, held)
  BY ColumnIsASum, EquityIsASum, Zenon
<1>. HIDE DEF of, equity
<1>5. /\ SumOf(of("capacity"), held) \in Nat /\ SumOf(of("debt"), held) \in Nat
      /\ SumOf(of("capex"), held) \in Nat /\ SumOf(equity, held) \in Nat
  BY <1>0, <1>1, SumOfGrows
<1>6. held = {} => SumOf(equity, held) = 0
  BY <1>0, <1>1, <1>3, SumOfNoughts
<1>7. SumOf(of("capex"), held) = 0 <=> held = {}
  BY <1>0, <1>1, <1>2, SumOfNoughts
<1>. QED  BY <1>4, <1>5, <1>6, <1>7

\* A share in thousandths, of a whole that may be nothing.
LEMMA ShareIsNatural ==
    ASSUME NEW a \in Nat, NEW b \in Nat
    PROVE  Share(a, b) \in Nat /\ b * Share(a, b) <= 1000 * a
<1>1. CASE b > 0
  <2>1. 1000 * a \in Nat /\ b \in Nat \ {0} /\ Share(a, b) = (1000 * a) \div b
    BY <1>1 DEF Share
  <2>2. 0 <= (1000 * a) \div b
    BY <2>1, DivAtLeast
  <2>. QED  BY <2>1, <2>2, DivBounds
<1>2. CASE b = 0
  BY <1>2 DEF Share
<1>. QED  BY <1>1, <1>2

\* A sum of what is at most k thousandths of each cost is at most k of them all.
LEMMA WeightedShare ==
    ASSUME NEW load \in Loads, NEW held \in SUBSET DOMAIN load, held # {},
           NEW f, DOMAIN f = held, Natural(f, held),
           NEW n \in Nat, \A i \in held : f[i] <= n * load[i].capex
    PROVE  SumFunction(f) \in Nat /\ SumFunction(f) <= n * Column(load, held, "capex")
<1>. DEFINE costs == [i \in held |-> load[i].capex]
<1>0. IsFiniteSet(held)
  BY PlantsOfALoad
<1>1. Natural(costs, held)
  BY PlantsOfALoad DEF Natural, PlantOK
<1>2. Integral(f, held) /\ Integral(costs, held)
  BY <1>1 DEF Natural, Integral
<1>3. \A i \in held : 1 * f[i] <= n * costs[i]
  BY DEF Natural
<1>4. Column(load, held, "capex") = SumOf(costs, held) /\ SumFunction(f) = SumOf(f, held)
  BY DEF Column, SumFunction, SumOf
<1>. HIDE DEF costs
<1>5. 1 * SumOf(f, held) <= n * SumOf(costs, held)
  BY <1>0, <1>2, <1>3, SumOfBounds
<1>6. SumOf(f, held) \in Nat
  BY <1>0, SumOfGrows
<1>. QED  BY <1>4, <1>5, <1>6

\* The merchant exposure, in thousandths of the cost.
LEMMA MerchantIsAShare ==
    ASSUME NEW load \in Loads, NEW held \in SUBSET DOMAIN load, held # {}, NEW hold
    PROVE  Aggregate(load, held, hold).merchant \in Thousandths
<1>. DEFINE f == [i \in held |-> load[i].capex * (1000 - load[i].ppa)]
            capex == Column(load, held, "capex")
<1>1. ASSUME NEW i \in held PROVE f[i] \in Nat /\ f[i] <= 1000 * load[i].capex
  <2>. DEFINE c == load[i].capex
              w == load[i].ppa
              q == 1000 - w
  <2>0. PlantOK(load[i])
    BY PlantsOfALoad
  <2>1. c \in Nat /\ w \in Thousandths
    BY <2>0 DEF PlantOK
  <2>2. f[i] = c * q
    OBVIOUS
  <2>. HIDE DEF c, w, f
  <2>4. q \in Nat /\ q <= 1000
    BY <2>1, SMT DEF Thousandths
  <2>. HIDE DEF q
  <2>3. c * q \in Nat /\ c * q <= c * 1000
    BY <2>1, <2>4, TimesGrows
  <2>. QED  BY <2>1, <2>2, <2>3 DEF c
<1>2. Natural(f, held) /\ DOMAIN f = held
  BY <1>1 DEF Natural
<1>3. Aggregate(load, held, hold).merchant = IF capex > 0 THEN SumFunction(f) \div capex ELSE 0
  BY DEF Aggregate
<1>. HIDE DEF f, capex
<1>4. SumFunction(f) \in Nat /\ SumFunction(f) <= 1000 * capex
  BY <1>1, <1>2, WeightedShare DEF capex
<1>5. capex \in Nat \ {0}
  BY ColumnsOfALoad DEF capex
<1>6. SumFunction(f) \div capex \in Int /\ 0 <= SumFunction(f) \div capex
      /\ SumFunction(f) \div capex <= 1000
  BY <1>4, <1>5, DivBounds, DivAtMost, DivAtLeast
<1>. QED  BY <1>3, <1>5, <1>6 DEF Thousandths

\* The mean of the risk scores, weighted by the cost, in thousandths.
LEMMA RiskIsBounded ==
    ASSUME NEW load \in Loads, NEW held \in SUBSET DOMAIN load, held # {}, NEW hold
    PROVE  Aggregate(load, held, hold).risk \in RiskScores
<1>. DEFINE f == [i \in held |-> load[i].capex * load[i].risk]
            capex == Column(load, held, "capex")
<1>1. ASSUME NEW i \in held PROVE f[i] \in Nat /\ f[i] <= 5 * load[i].capex
  <2>. DEFINE c == load[i].capex
              q == load[i].risk
  <2>1. c \in Nat /\ q \in Nat /\ q <= 5
    BY PlantsOfALoad DEF PlantOK
  <2>2. f[i] = c * q
    OBVIOUS
  <2>. HIDE DEF c, q, f
  <2>3. c * q \in Nat /\ c * q <= c * 5
    BY <2>1, TimesGrows
  <2>. QED  BY <2>1, <2>2, <2>3 DEF c
<1>2. Natural(f, held) /\ DOMAIN f = held
  BY <1>1 DEF Natural
<1>3. Aggregate(load, held, hold).risk = Share(SumFunction(f), capex)
  BY DEF Aggregate
<1>. HIDE DEF f, capex
<1>4. SumFunction(f) \in Nat /\ SumFunction(f) <= 5 * capex
  BY <1>1, <1>2, WeightedShare DEF capex
<1>5. capex \in Nat \ {0}
  BY ColumnsOfALoad DEF capex
<1>6. Share(SumFunction(f), capex) = (1000 * SumFunction(f)) \div capex
  BY <1>5 DEF Share
<1>7. (1000 * SumFunction(f)) \div capex <= 5000
  <2>. DEFINE a == 1000 * SumFunction(f)
              n == 5000
  <2>1. a \in Int /\ n \in Int /\ a <= n * capex
    BY <1>4, <1>5, SMT
  <2>. HIDE DEF a, n
  <2>2. a \div capex <= n
    BY <1>5, <2>1, DivAtMost
  <2>. QED  BY <2>2 DEF a, n
<1>8. Share(SumFunction(f), capex) \in Nat
  <2>. DEFINE a == SumFunction(f)
  <2>1. a \in Nat /\ capex \in Nat
    BY <1>4, <1>5
  <2>. HIDE DEF a
  <2>2. Share(a, capex) \in Nat
    BY <2>1, ShareIsNatural
  <2>. QED  BY <2>2 DEF a
<1>9. Share(SumFunction(f), capex) <= 5000
  BY <1>6, <1>7
<1>10. Share(SumFunction(f), capex) \in RiskScores
  <2>. DEFINE risk == Share(SumFunction(f), capex)
  <2>1. risk \in Nat /\ risk <= 5000
    BY <1>8, <1>9
  <2>. HIDE DEF risk
  <2>2. risk \in RiskScores
    BY <2>1, SMT DEF RiskScores
  <2>. QED  BY <2>2 DEF risk
<1>. QED  BY <1>3, <1>10, Zenon

\* The excess of all the shares over the cap is no more than the shares, and
\* nothing only when none is over it.
LEMMA ConcentrationIsBounded ==
    ASSUME NEW shares, IsFiniteSet(DOMAIN shares), Natural(shares, DOMAIN shares),
           NEW cap \in Nat
    PROVE  /\ Concentration(shares, cap) \in Nat
           /\ Concentration(shares, cap) <= SumOf(shares, DOMAIN shares)
           /\ SumOf(shares, DOMAIN shares) \in Nat
           /\ Concentration(shares, cap) = 0 <=> \A x \in DOMAIN shares : shares[x] <= cap
<1>. DEFINE D == DOMAIN shares
            over == [x \in D |-> Excess(shares[x], cap)]
<1>1. ASSUME NEW x \in D
      PROVE  over[x] \in Nat /\ shares[x] \in Nat /\ over[x] <= shares[x]
             /\ (over[x] = 0 <=> shares[x] <= cap)
  <2>1. shares[x] \in Nat
    BY DEF Natural
  <2>2. over[x] = Excess(shares[x], cap)
    OBVIOUS
  <2>3. /\ Excess(shares[x], cap) \in Nat
        /\ Excess(shares[x], cap) = 0 <=> shares[x] <= cap
        /\ Excess(shares[x], cap) <= shares[x]
    BY <2>1 DEF Excess, Larger
  <2>. QED  BY <2>1, <2>2, <2>3, Zenon
<1>2. Natural(over, D)
  BY <1>1 DEF Natural
<1>3. Integral(over, D) /\ Integral(shares, D)
  BY <1>1 DEF Integral
<1>4. Concentration(shares, cap) = SumOf(over, D)
  BY DEF Concentration, SumFunction, SumOf
<1>. HIDE DEF over
<1>5. \A x \in D : 1 * over[x] <= 1 * shares[x]
  BY <1>1
<1>6. 1 * SumOf(over, D) <= 1 * SumOf(shares, D)
  <2>. HIDE DEF D
  <2>1. IsFiniteSet(D)
    BY DEF D
  <2>. QED  BY <1>3, <1>5, <2>1, SumOfBounds
<1>7. SumOf(over, D) \in Nat /\ SumOf(shares, D) \in Nat
  BY <1>2, SumOfGrows
<1>8. SumOf(over, D) = 0 <=> \A x \in D : over[x] = 0
  BY <1>2, SumOfNoughts
<1>9. SumOf(over, D) <= SumOf(shares, D)
  BY <1>6, <1>7
<1>. QED  BY <1>1, <1>4, <1>7, <1>8, <1>9

\* Shares of a whole, in thousandths: together they are no more than it.
LEMMA SharesAddUp ==
    ASSUME NEW D, IsFiniteSet(D), NEW parts, Natural(parts, D),
           NEW whole \in Nat \ {0}, SumOf(parts, D) <= whole,
           NEW shares, \A x \in D : shares[x] = Share(parts[x], whole)
    PROVE  Natural(shares, D) /\ SumOf(shares, D) <= 1000
<1>1. ASSUME NEW x \in D PROVE shares[x] \in Nat /\ whole * shares[x] <= 1000 * parts[x]
  <2>1. parts[x] \in Nat /\ shares[x] = Share(parts[x], whole) /\ whole \in Nat
    BY DEF Natural
  <2>. DEFINE a == parts[x]
  <2>2. a \in Nat /\ whole \in Nat /\ shares[x] = Share(a, whole)
    BY <2>1
  <2>3. Share(a, whole) \in Nat /\ whole * Share(a, whole) <= 1000 * a
    <3>. HIDE DEF a
    <3>. QED  BY ONLY <2>2, ShareIsNatural
  <2>4. shares[x] \in Nat
    BY ONLY <2>2, <2>3, Zenon
  <2>5. whole * shares[x] <= 1000 * a
    BY ONLY <2>2, <2>3, Zenon
  <2>. QED  BY ONLY <2>4, <2>5
<1>2. Natural(shares, D)
  BY <1>1 DEF Natural
<1>3. Integral(shares, D) /\ Integral(parts, D)
  BY <1>2 DEF Natural, Integral
<1>4. whole * SumOf(shares, D) <= 1000 * SumOf(parts, D)
  BY <1>1, <1>3, SumOfBounds
<1>5. SumOf(shares, D) \in Nat /\ SumOf(parts, D) \in Nat
  BY <1>2, SumOfGrows
<1>. DEFINE s == SumOf(shares, D)
<1>6. s <= 1000
  <2>1. s \in Nat /\ whole * s <= whole * 1000
    BY <1>4, <1>5
  <2>. HIDE DEF s
  <2>2. CASE s >= 1001
    <3>1. whole * 1001 <= whole * s
      BY <2>1, <2>2, TimesGrows
    <3>. QED  BY <2>1, <3>1
  <2>. QED  BY <2>1, <2>2
<1>. QED  BY <1>2, <1>6

\* The shares of the projects are of one whole.
LEMMA ProjectShares ==
    ASSUME NEW load \in Loads, NEW held \in SUBSET DOMAIN load, held # {}, NEW hold,
           NEW shares, shares = Aggregate(load, held, hold).projects
    PROVE  /\ IsFiniteSet(DOMAIN shares) /\ Natural(shares, DOMAIN shares)
           /\ SumOf(shares, DOMAIN shares) <= 1000
<1>. DEFINE costs == [i \in held |-> load[i].capex]
            capex == Column(load, held, "capex")
<1>0. IsFiniteSet(held)
  BY PlantsOfALoad
<1>1. shares = [i \in held |-> Share(load[i].capex, capex)]
  BY DEF Aggregate
<1>2. \A i \in held : shares[i] = Share(costs[i], capex)
  BY <1>1
<1>3. DOMAIN shares = held
  BY <1>1
<1>4. Natural(costs, held)
  BY PlantsOfALoad DEF Natural, PlantOK
<1>5. SumOf(costs, held) = capex
  BY ColumnIsASum
<1>6. capex \in Nat \ {0}
  BY ColumnsOfALoad
<1>. HIDE DEF costs, capex
<1>7. SumOf(costs, held) <= capex
  BY <1>5, <1>6
<1>8. Natural(shares, held) /\ SumOf(shares, held) <= 1000
  BY <1>0, <1>2, <1>4, <1>6, <1>7, SharesAddUp
<1>. QED  BY <1>0, <1>3, <1>8

\* The countries of a load are finitely many.
LEMMA CountriesAreFinite ==
    ASSUME NEW load \in Loads
    PROVE  IsFiniteSet(Countries(load)) /\ Countries(load) \in SUBSET Nat
<1>. DEFINE f == [i \in DOMAIN load |-> load[i].country]
<1>1. f \in Surjection(DOMAIN load, Countries(load))
  BY DEF Surjection, Countries
<1>2. IsFiniteSet(DOMAIN load)
  BY PlantsOfALoad
<1>3. Countries(load) \in SUBSET Nat
  BY LoadsAreOfPlants DEF Countries
<1>. QED  BY <1>1, <1>2, <1>3, FS_Surjection

\* The shares of the countries are natural numbers, of no selection too.
LEMMA SharesAreNatural ==
    ASSUME NEW load \in Loads, NEW held \in SUBSET DOMAIN load
    PROVE  /\ DOMAIN CountryShares(load, held) = Countries(load)
           /\ Natural(CountryShares(load, held), Countries(load))
<1>. DEFINE in(c) == {i \in held : load[i].country = c}
            capex == Column(load, held, "capex")
<1>1. CountryShares(load, held) =
        [c \in Countries(load) |-> Share(Column(load, in(c), "capex"), capex)]
  BY DEF CountryShares
<1>2. ASSUME NEW c \in Countries(load)
      PROVE  Column(load, in(c), "capex") \in Nat /\ capex \in Nat
  <2>1. in(c) \in SUBSET DOMAIN load
    OBVIOUS
  <2>. HIDE DEF in
  <2>. QED  BY <2>1, ColumnsOfALoad
<1>. HIDE DEF in, capex
<1>3. \A c \in Countries(load) : CountryShares(load, held)[c] \in Nat
  BY <1>1, <1>2, ShareIsNatural
<1>. QED  BY <1>1, <1>3 DEF Natural

\* They are of one whole: the countries part the selection.
LEMMA SharesOfCountries ==
    ASSUME NEW load \in Loads, NEW held \in SUBSET DOMAIN load, held # {},
           NEW shares, shares = CountryShares(load, held)
    PROVE  /\ DOMAIN shares = Countries(load)
           /\ IsFiniteSet(DOMAIN shares) /\ Natural(shares, DOMAIN shares)
           /\ SumOf(shares, DOMAIN shares) <= 1000
<1>. DEFINE costs == [i \in held |-> load[i].capex]
            class == [i \in held |-> load[i].country]
            capex == Column(load, held, "capex")
            C == Countries(load)
            in(c) == {i \in held : load[i].country = c}
            parts == [c \in C |-> SumOf(costs, {i \in held : class[i] = c})]
<1>0. IsFiniteSet(held) /\ IsFiniteSet(C)
  BY PlantsOfALoad, CountriesAreFinite
<1>1. Natural(costs, held)
  BY PlantsOfALoad DEF Natural, PlantOK
<1>2. Integral(costs, held)
  BY <1>1 DEF Natural, Integral
<1>3. class \in [held -> C]
  BY DEF Countries
<1>4. SumOf(parts, C) = SumOf(costs, held)
  <2>. HIDE DEF costs, class, C
  <2>. QED  BY <1>0, <1>2, <1>3, SumOfClasses
<1>5. ASSUME NEW c \in C
      PROVE  parts[c] \in Nat /\ parts[c] = Column(load, in(c), "capex")
  <2>1. in(c) \in SUBSET held /\ in(c) = {i \in held : class[i] = c}
    OBVIOUS
  <2>2. parts[c] = SumOf(costs, in(c))
    BY <2>1
  <2>. DEFINE some == [i \in in(c) |-> load[i]["capex"]]
  <2>3. \A i \in in(c) : some[i] = costs[i]
    OBVIOUS
  <2>4. Column(load, in(c), "capex") = SumOf(some, in(c))
    BY ColumnIsASum
  <2>. HIDE DEF in, some, costs, parts, C
  <2>5. IsFiniteSet(in(c)) /\ Integral(costs, in(c))
    BY <1>0, <1>2, <2>1, FS_Subset DEF Integral
  <2>6. SumOf(some, in(c)) = SumOf(costs, in(c))
    BY <2>3, <2>5, SumOfTheSame
  <2>7. SumOf(costs, in(c)) \in Nat
    BY <1>0, <1>1, <2>1, SumOfGrows
  <2>. QED  BY <2>2, <2>4, <2>6, <2>7
<1>6. Natural(parts, C)
  BY <1>5 DEF Natural
<1>7. shares = [c \in C |-> Share(Column(load, in(c), "capex"), capex)]
  BY DEF CountryShares
<1>8. \A c \in C : shares[c] = Share(parts[c], capex)
  BY <1>5, <1>7
<1>9. DOMAIN shares = C
  BY <1>7
<1>10. SumOf(costs, held) = capex
  BY ColumnIsASum
<1>11. capex \in Nat \ {0}
  BY ColumnsOfALoad
<1>. HIDE DEF costs, capex, parts, C, in, class
<1>12. SumOf(parts, C) <= capex
  BY <1>4, <1>10, <1>11
<1>13. Natural(shares, C) /\ SumOf(shares, C) <= 1000
  BY <1>0, <1>6, <1>8, <1>11, <1>12, SharesAddUp
<1>. QED  BY <1>0, <1>9, <1>13 DEF C

\* The blended return is a rate, or cannot be said.
LEMMA BlendIsARate ==
    ASSUME NEW load \in Loads, NEW held \in SUBSET DOMAIN load, NEW hold
    PROVE  Blend(load, held, hold) \in Int \cup {Undefined}
<1>. DEFINE rate(i) == Irr(HoldSeries(load[i], hold))
            priced == {i \in held : rate(i) # Undefined}
            weight == EquityOf(load, priced)
            f == [i \in priced |-> Equity(load[i]) * 10 * rate(i)]
<1>0. priced \in SUBSET DOMAIN load
  OBVIOUS
<1>1. ASSUME NEW i \in priced PROVE f[i] \in Int
  <2>1. rate(i) \in Int
    BY IrrIsARate
  <2>2. Equity(load[i]) \in Int
    BY PlantsOfALoad
  <2>3. f[i] = Equity(load[i]) * 10 * rate(i)
    OBVIOUS
  <2>. HIDE DEF rate, f
  <2>. QED  BY <2>1, <2>2, <2>3
<1>2. Integral(f, priced)
  BY <1>1 DEF Integral
<1>3. SumFunction(f) = SumOf(f, priced)
  BY DEF SumFunction, SumOf
<1>4. Blend(load, held, hold) \in {SumFunction(f) \div weight, Undefined}
      /\ (~(weight > 0) => Blend(load, held, hold) = Undefined)
  BY DEF Blend
<1>. HIDE DEF f, weight, priced, rate
<1>5. IsFiniteSet(priced) /\ weight \in Nat
  BY <1>0, PlantsOfALoad, ColumnsOfALoad DEF weight
<1>6. SumFunction(f) \in Int
  BY <1>2, <1>3, <1>5, SumOfAdds
<1>7. weight > 0 => SumFunction(f) \div weight \in Int
  BY <1>5, <1>6, DivBounds
<1>. QED  BY <1>4, <1>7

TermNames == {"capacity", "techMix", "returns", "utilisation", "leverage",
              "merchant", "risk", "country", "project"}

\* The nine terms, one by one.
LEMMA SumOfTerms ==
    ASSUME NEW f, DOMAIN f = TermNames, Integral(f, TermNames)
    PROVE  TermSum(f) = f.capacity + f.techMix + f.returns + f.utilisation + f.leverage
                          + f.merchant + f.risk + f.country + f.project
<1>. DEFINE sum(s) == SumOf(f, s)
            N1 == {"project"}
            N2 == {"country", "project"}
            N3 == {"risk", "country", "project"}
            N4 == {"merchant", "risk", "country", "project"}
            N5 == {"leverage", "merchant", "risk", "country", "project"}
            N6 == {"utilisation", "leverage", "merchant", "risk", "country", "project"}
            N7 == {"returns", "utilisation", "leverage", "merchant", "risk", "country", "project"}
            N8 == {"techMix", "returns", "utilisation", "leverage", "merchant", "risk",
                   "country", "project"}
<1>1. IsFiniteSet(TermNames)
  <2>1. IsFiniteSet(N1)
    BY FS_Singleton
  <2>2. IsFiniteSet(N1 \cup {"country"})
    BY <2>1, FS_AddElement
  <2>3. IsFiniteSet(N1 \cup {"country"} \cup {"risk"})
    BY <2>2, FS_AddElement
  <2>4. IsFiniteSet(N1 \cup {"country"} \cup {"risk"} \cup {"merchant"})
    BY <2>3, FS_AddElement
  <2>5. IsFiniteSet(N1 \cup {"country"} \cup {"risk"} \cup {"merchant"} \cup {"leverage"})
    BY <2>4, FS_AddElement
  <2>6. IsFiniteSet(N1 \cup {"country"} \cup {"risk"} \cup {"merchant"} \cup {"leverage"}
                       \cup {"utilisation"})
    BY <2>5, FS_AddElement
  <2>7. IsFiniteSet(N1 \cup {"country"} \cup {"risk"} \cup {"merchant"} \cup {"leverage"}
                       \cup {"utilisation"} \cup {"returns"})
    BY <2>6, FS_AddElement
  <2>8. IsFiniteSet(N1 \cup {"country"} \cup {"risk"} \cup {"merchant"} \cup {"leverage"}
                       \cup {"utilisation"} \cup {"returns"} \cup {"techMix"})
    BY <2>7, FS_AddElement
  <2>9. IsFiniteSet(N1 \cup {"country"} \cup {"risk"} \cup {"merchant"} \cup {"leverage"}
                       \cup {"utilisation"} \cup {"returns"} \cup {"techMix"} \cup {"capacity"})
    BY <2>8, FS_AddElement
  <2>. QED  BY <2>9 DEF TermNames
<1>2. /\ TermNames \ {"capacity"} = N8 /\ N8 \ {"techMix"} = N7 /\ N7 \ {"returns"} = N6
      /\ N6 \ {"utilisation"} = N5 /\ N5 \ {"leverage"} = N4 /\ N4 \ {"merchant"} = N3
      /\ N3 \ {"risk"} = N2 /\ N2 \ {"country"} = N1 /\ N1 \ {"project"} = {}
  BY DEF TermNames
<1>3. /\ N1 \in SUBSET TermNames /\ N2 \in SUBSET TermNames /\ N3 \in SUBSET TermNames
      /\ N4 \in SUBSET TermNames /\ N5 \in SUBSET TermNames /\ N6 \in SUBSET TermNames
      /\ N7 \in SUBSET TermNames /\ N8 \in SUBSET TermNames /\ TermNames \in SUBSET TermNames
  BY DEF TermNames
<1>4. /\ "capacity" \in TermNames /\ "techMix" \in N8 /\ "returns" \in N7
      /\ "utilisation" \in N6 /\ "leverage" \in N5 /\ "merchant" \in N4
      /\ "risk" \in N3 /\ "country" \in N2 /\ "project" \in N1
  BY DEF TermNames
<1>. HIDE DEF N1, N2, N3, N4, N5, N6, N7, N8
<1>5. /\ sum({}) = 0
      /\ \A s \in SUBSET TermNames : \A x \in s : sum(s) = f[x] + sum(s \ {x})
  BY <1>1, SumOfAdds
<1>6. \A x \in TermNames : f[x] \in Int
  BY DEF Integral
<1>7. TermSum(f) = sum(TermNames)
  BY DEF TermSum, SumFunction, SumOf
<1>. HIDE DEF sum
<1>8. /\ sum(TermNames) = f["capacity"] + sum(N8) /\ sum(N8) = f["techMix"] + sum(N7)
      /\ sum(N7) = f["returns"] + sum(N6) /\ sum(N6) = f["utilisation"] + sum(N5)
      /\ sum(N5) = f["leverage"] + sum(N4) /\ sum(N4) = f["merchant"] + sum(N3)
      /\ sum(N3) = f["risk"] + sum(N2) /\ sum(N2) = f["country"] + sum(N1)
      /\ sum(N1) = f["project"] + sum({})
  BY <1>2, <1>3, <1>4, <1>5
<1>9. /\ f["capacity"] \in Int /\ f["techMix"] \in Int /\ f["returns"] \in Int
      /\ f["utilisation"] \in Int /\ f["leverage"] \in Int /\ f["merchant"] \in Int
      /\ f["risk"] \in Int /\ f["country"] \in Int /\ f["project"] \in Int
  BY <1>6 DEF TermNames
<1>. QED  BY <1>5, <1>7, <1>8, <1>9

\* A penalty is stated signed, so more of a breach scores less.
LEMMA PenaltyGrows ==
    ASSUME NEW w \in Int, w < 0, NEW a \in Int, NEW b \in Int, a <= b
    PROVE  w * a \in Int /\ w * b <= w * a /\ (w * a = 0 <=> a = 0)
  OBVIOUS

\* The figures of a selection that is not empty.
LEMMA TotalsOfASelection ==
    ASSUME NEW load \in Loads, NEW held \in SUBSET DOMAIN load, held # {}, NEW hold,
           NEW t, t = Aggregate(load, held, hold)
    PROVE  /\ t.count \in Nat \ {0} /\ t.equity = EquityOf(load, held) /\ t.equity \in Nat
           /\ t.capacity \in Nat /\ t.solar \in Nat /\ t.gearing \in Nat
           /\ t.merchant \in Thousandths /\ t.risk \in RiskScores
           /\ t.blended \in Int \cup {Undefined}
<1>1. t.count \in Nat \ {0}
  <2>1. t.count = Cardinality(held)
    BY DEF Aggregate
  <2>2. IsFiniteSet(held)
    BY PlantsOfALoad
  <2>. QED  BY <2>1, <2>2, FS_CardinalityType, FS_EmptySet
<1>2. t.equity = EquityOf(load, held) /\ t.equity \in Nat
  <2>1. t.equity = EquityOf(load, held)
    BY DEF Aggregate
  <2>. QED  BY <2>1, ColumnsOfALoad
<1>3. t.capacity = Column(load, held, "capacity")
  BY DEF Aggregate
<1>4. t.gearing = Share(Column(load, held, "debt"), Column(load, held, "capex"))
  BY DEF Aggregate
<1>5. t.solar \in Nat
  <2>. DEFINE solar == {i \in held : load[i].solar}
  <2>1. t.solar = Share(Column(load, solar, "capacity"), Column(load, held, "capacity"))
    BY DEF Aggregate
  <2>2. solar \in SUBSET DOMAIN load
    OBVIOUS
  <2>. HIDE DEF solar
  <2>3. Column(load, solar, "capacity") \in Nat /\ Column(load, held, "capacity") \in Nat
    BY <2>2, ColumnsOfALoad
  <2>. QED  BY <2>1, <2>3, ShareIsNatural
<1>6. t.gearing \in Nat /\ t.capacity \in Nat
  <2>1. /\ Column(load, held, "debt") \in Nat /\ Column(load, held, "capex") \in Nat
        /\ Column(load, held, "capacity") \in Nat
    BY ColumnsOfALoad
  <2>. QED  BY <1>3, <1>4, <2>1, ShareIsNatural
<1>7. t.merchant \in Thousandths /\ t.risk \in RiskScores
  BY MerchantIsAShare, RiskIsBounded
<1>8. t.blended \in Int \cup {Undefined}
  <2>1. t.blended = Blend(load, held, hold)
    BY DEF Aggregate
  <2>. QED  BY <2>1, BlendIsARate
<1>. QED  BY <1>1, <1>2, <1>5, <1>6, <1>7, <1>8

\* The bounds of a mandate, one by one.
LEMMA BoundsOfAnAsk ==
    ASSUME NEW m \in Asks
    PROVE  /\ m.capital \in Nat \ {0} /\ m.capacity \in Nat \ {0}
           /\ m.solar \in Nat /\ m.targetIrr \in Int
           /\ m.minLeverage \in Nat
           /\ m.maxMerchant \in Nat /\ m.maxMerchant <= 1000
           /\ m.riskCap \in Nat /\ m.riskCap <= 5000
           /\ m.maxCountry \in Nat /\ m.maxProject \in Nat
<1>1. /\ m.capital \in Nat \ {0} /\ m.capacity \in Nat \ {0}
      /\ m.solar \in Thousandths /\ m.targetIrr \in Int
      /\ m.minLeverage \in Thousandths /\ m.maxMerchant \in Thousandths
      /\ m.maxCountry \in Thousandths /\ m.maxProject \in Thousandths
      /\ m.riskCap \in RiskScores
  BY AsksAreBounded
<1>2. \A x \in Thousandths : x \in Nat /\ x <= 1000
  BY DEF Thousandths
<1>3. \A x \in RiskScores : x \in Nat /\ x <= 5000
  BY DEF RiskScores
<1>. QED  BY <1>1, <1>2, <1>3

\* What a reward earns at least.
LEMMA RewardsHaveAFloor ==
    ASSUME NEW m \in Asks, NEW t,
           t.capacity \in Nat, t.solar \in Nat, t.equity \in Nat,
           t.blended \in Int \cup {Undefined}
    PROVE  LET f == Terms(t, m)
           IN  /\ f.capacity \in Int /\ f.capacity >= Weights.capacity * Weights.capacityFloor
               /\ f.techMix \in Int /\ f.techMix >= Weights.techSplit * Weights.splitFloor
               /\ f.returns \in Int /\ f.returns >= -(Weights.return * Weights.returnClamp)
               /\ f.utilisation \in Int /\ f.utilisation >= 0
<1>0. /\ m.capital \in Nat \ {0} /\ m.capacity \in Nat \ {0} /\ m.solar \in Nat
      /\ m.targetIrr \in Int
  BY BoundsOfAnAsk
<1>. DEFINE hurdled == IF t.blended = Undefined THEN m.targetIrr ELSE t.blended
            near == Larger(1000 - (1000 * Gap(t.capacity, m.capacity)) \div m.capacity,
                           Weights.capacityFloor)
            mixed == Larger(1000 - (1000 * Gap(t.solar, m.solar)) \div Weights.splitTolerance,
                            Weights.splitFloor)
            scaled == (1000 * (hurdled - m.targetIrr)) \div Weights.returnScale
            clamped == Smaller(Larger(scaled, -Weights.returnClamp), Weights.returnClamp)
            used == (1000 * t.equity) \div m.capital
            f == Terms(t, m)
<1>1. /\ f.capacity = Weights.capacity * near /\ f.techMix = Weights.techSplit * mixed
      /\ f.returns = Weights.return * clamped /\ f.utilisation = Weights.utilisation * used
  BY DEF Terms
<1>2. near \in Int /\ near >= Weights.capacityFloor
  <2>1. 1000 * Gap(t.capacity, m.capacity) \in Int
    BY <1>0 DEF Gap, Larger
  <2>2. (1000 * Gap(t.capacity, m.capacity)) \div m.capacity \in Int
    BY <1>0, <2>1, DivBounds
  <2>. QED  BY <2>2, WeightsAreSigned DEF Larger
<1>3. mixed \in Int /\ mixed >= Weights.splitFloor
  <2>1. 1000 * Gap(t.solar, m.solar) \in Int
    BY <1>0 DEF Gap, Larger
  <2>2. (1000 * Gap(t.solar, m.solar)) \div Weights.splitTolerance \in Int
    BY <2>1, DivBounds, WeightsAreSigned
  <2>. QED  BY <2>2, WeightsAreSigned DEF Larger
<1>4. clamped \in Int /\ clamped >= -Weights.returnClamp
  <2>1. 1000 * (hurdled - m.targetIrr) \in Int
    BY <1>0
  <2>2. scaled \in Int
    BY <2>1, DivBounds, WeightsAreSigned
  <2>. HIDE DEF scaled
  <2>. QED  BY <2>2, WeightsAreSigned DEF Larger, Smaller
<1>5. used \in Int /\ used >= 0
  <2>1. 1000 * t.equity \in Int /\ 0 * m.capital <= 1000 * t.equity
    BY <1>0
  <2>. QED  BY <1>0, <2>1, DivBounds, DivAtLeast
<1>. HIDE DEF near, mixed, clamped, used, f
<1>6. f.capacity \in Int /\ f.capacity >= Weights.capacity * Weights.capacityFloor
  BY <1>1, <1>2, WeightsAreSigned, TimesGrows
<1>7. f.techMix \in Int /\ f.techMix >= Weights.techSplit * Weights.splitFloor
  BY <1>1, <1>3, WeightsAreSigned, TimesGrows
<1>8. f.returns \in Int /\ f.returns >= -(Weights.return * Weights.returnClamp)
  <2>1. Weights.return \in Nat /\ Weights.returnClamp \in Nat
    BY WeightsAreSigned
  <2>2. Weights.return * (-Weights.returnClamp) <= Weights.return * clamped
    BY <1>4, <2>1, TimesGrows
  <2>3. Weights.return * (-Weights.returnClamp) = -(Weights.return * Weights.returnClamp)
    BY <2>1
  <2>. QED  BY <1>1, <1>4, <2>1, <2>2, <2>3
<1>9. f.utilisation \in Int /\ f.utilisation >= 0
  <2>1. Weights.utilisation \in Nat
    BY WeightsAreSigned
  <2>2. Weights.utilisation * 0 <= Weights.utilisation * used
    BY <1>5, <2>1, TimesGrows
  <2>. QED  BY <1>1, <1>5, <2>1, <2>2
<1>. QED  BY <1>6, <1>7, <1>8, <1>9 DEF f

\* What a penalty takes at most.
LEMMA PenaltiesHaveALimit ==
    ASSUME NEW load \in Loads, NEW held \in SUBSET DOMAIN load, held # {},
           NEW m \in Asks, NEW t, t = Aggregate(load, held, m.hold)
    PROVE  LET f == Terms(t, m)
           IN  /\ f.leverage \in Int /\ f.leverage >= Weights.leverage * m.minLeverage
               /\ f.merchant \in Int /\ f.merchant >= Weights.merchant * (1000 - m.maxMerchant)
               /\ f.risk \in Int /\ f.risk >= Weights.risk * (5000 - m.riskCap)
               /\ f.country \in Int /\ f.country >= Weights.country * 1000
               /\ f.project \in Int /\ f.project >= Weights.project * 1000
<1>0. /\ m.minLeverage \in Nat /\ m.maxMerchant \in Nat /\ m.maxMerchant <= 1000
      /\ m.riskCap \in Nat /\ m.riskCap <= 5000
      /\ m.maxCountry \in Nat /\ m.maxProject \in Nat
  BY BoundsOfAnAsk
<1>1. /\ Weights.leverage \in Int /\ Weights.leverage < 0
      /\ Weights.merchant \in Int /\ Weights.merchant < 0
      /\ Weights.risk \in Int /\ Weights.risk < 0
      /\ Weights.country \in Int /\ Weights.country < 0
      /\ Weights.project \in Int /\ Weights.project < 0
  BY WeightsAreSigned
<1>2. /\ t.gearing \in Nat /\ t.merchant \in Nat /\ t.merchant <= 1000
      /\ t.risk \in Nat /\ t.risk <= 5000
  <2>1. t.gearing \in Nat /\ t.merchant \in Thousandths /\ t.risk \in RiskScores
    BY TotalsOfASelection
  <2>2. \A x \in Thousandths : x \in Nat /\ x <= 1000
    BY DEF Thousandths
  <2>3. \A x \in RiskScores : x \in Nat /\ x <= 5000
    BY DEF RiskScores
  <2>. QED  BY <2>1, <2>2, <2>3
<1>. DEFINE short == Excess(m.minLeverage, t.gearing)
            exposed == Excess(t.merchant, m.maxMerchant)
            risked == Excess(t.risk, m.riskCap)
            byCountry == Concentration(t.countries, m.maxCountry)
            byProject == Concentration(t.projects, m.maxProject)
            f == Terms(t, m)
<1>3. /\ f.leverage = Weights.leverage * short /\ f.merchant = Weights.merchant * exposed
      /\ f.risk = Weights.risk * risked /\ f.country = Weights.country * byCountry
      /\ f.project = Weights.project * byProject
  BY DEF Terms
<1>4. /\ short \in Int /\ short <= m.minLeverage
      /\ exposed \in Int /\ exposed <= 1000 - m.maxMerchant
      /\ risked \in Int /\ risked <= 5000 - m.riskCap
  BY <1>0, <1>2 DEF Excess, Larger
<1>5. byCountry \in Int /\ byCountry <= 1000
  <2>1. t.countries = CountryShares(load, held)
    BY DEF Aggregate
  <2>2. /\ IsFiniteSet(DOMAIN t.countries) /\ Natural(t.countries, DOMAIN t.countries)
        /\ SumOf(t.countries, DOMAIN t.countries) <= 1000
    BY <2>1, SharesOfCountries
  <2>. QED  BY <1>0, <2>2, ConcentrationIsBounded
<1>6. byProject \in Int /\ byProject <= 1000
  <2>1. /\ IsFiniteSet(DOMAIN t.projects) /\ Natural(t.projects, DOMAIN t.projects)
        /\ SumOf(t.projects, DOMAIN t.projects) <= 1000
    BY ProjectShares
  <2>. QED  BY <1>0, <2>1, ConcentrationIsBounded
<1>. HIDE DEF f, short, exposed, risked, byCountry, byProject
<1>7. /\ 1000 - m.maxMerchant \in Int /\ 5000 - m.riskCap \in Int /\ m.minLeverage \in Int
  BY <1>0
<1>8. f.leverage \in Int /\ f.leverage >= Weights.leverage * m.minLeverage
  BY <1>1, <1>3, <1>4, <1>7, PenaltyGrows
<1>9. f.merchant \in Int /\ f.merchant >= Weights.merchant * (1000 - m.maxMerchant)
  BY <1>1, <1>3, <1>4, <1>7, PenaltyGrows
<1>10. f.risk \in Int /\ f.risk >= Weights.risk * (5000 - m.riskCap)
  BY <1>1, <1>3, <1>4, <1>7, PenaltyGrows
<1>11. f.country \in Int /\ f.country >= Weights.country * 1000
  BY <1>1, <1>3, <1>5, PenaltyGrows
<1>12. f.project \in Int /\ f.project >= Weights.project * 1000
  BY <1>1, <1>3, <1>6, PenaltyGrows
<1>. QED  BY <1>8, <1>9, <1>10, <1>11, <1>12 DEF f

-----------------------------------------------------------------------------
(* The score of a selection, and the run.                                  *)

\* Rounding keeps the order of two scores.
LEMMA QuantisedGrows ==
    ASSUME NEW a \in Int, NEW b \in Int, a <= b
    PROVE  Quantised(a) \in Int /\ Quantised(b) \in Int /\ Quantised(a) <= Quantised(b)
<1>. DEFINE half == Quantum \div 2
            x == (a + half) \div Quantum
            y == (b + half) \div Quantum
<1>1. Quantum \in Nat \ {0}
  BY WeightsAreSigned
<1>2. half \in Int
  BY <1>1, DivBounds
<1>3. Quantised(a) = Quantum * x /\ Quantised(b) = Quantum * y
  BY DEF Quantised
<1>. HIDE DEF half
<1>4. x \in Int /\ y \in Int /\ x <= y
  <2>1. a + half \in Int /\ b + half \in Int /\ a + half <= b + half
    BY <1>2
  <2>. QED  BY <1>1, <2>1, DivBounds, DivGrows
<1>. HIDE DEF x, y
<1>. QED  BY <1>1, <1>3, <1>4, TimesGrows

\* A selection within the budget.
Within(t, m) == t.equity <= m.capital + Weights.capTolerance

\* It scores the nine terms, which together are not below the worst.
LEMMA FeasibleScores ==
    ASSUME NEW load \in Loads, NEW held \in SUBSET DOMAIN load, held # {},
           NEW m \in Asks, NEW t, t = Aggregate(load, held, m.hold), Within(t, m)
    PROVE  Score(t, m) \in Int /\ WorstScore(m) \in Int /\ WorstScore(m) <= Score(t, m)
<1>. DEFINE f == Terms(t, m)
<1>1. /\ t.count # 0 /\ t.capacity \in Nat /\ t.solar \in Nat /\ t.equity \in Nat
      /\ t.blended \in Int \cup {Undefined}
  BY TotalsOfASelection
<1>2. m.capital \in Nat \ {0} /\ Weights.capTolerance \in Nat
  BY BoundsOfAnAsk, WeightsAreSigned
<1>3. Score(t, m) = TermSum(f)
  BY <1>1, <1>2 DEF Score, Within
<1>4. /\ f.capacity \in Int /\ f.capacity >= Weights.capacity * Weights.capacityFloor
      /\ f.techMix \in Int /\ f.techMix >= Weights.techSplit * Weights.splitFloor
      /\ f.returns \in Int /\ f.returns >= -(Weights.return * Weights.returnClamp)
      /\ f.utilisation \in Int /\ f.utilisation >= 0
  BY <1>1, RewardsHaveAFloor
<1>5. /\ f.leverage \in Int /\ f.leverage >= Weights.leverage * m.minLeverage
      /\ f.merchant \in Int /\ f.merchant >= Weights.merchant * (1000 - m.maxMerchant)
      /\ f.risk \in Int /\ f.risk >= Weights.risk * (5000 - m.riskCap)
      /\ f.country \in Int /\ f.country >= Weights.country * 1000
      /\ f.project \in Int /\ f.project >= Weights.project * 1000
  BY PenaltiesHaveALimit
<1>6. DOMAIN f = TermNames
  BY DEF Terms, TermNames
<1>7. Integral(f, TermNames)
  <2>. HIDE DEF f
  <2>1. ASSUME NEW x \in TermNames PROVE f[x] \in Int
    BY <1>4, <1>5 DEF TermNames
  <2>. QED  BY <2>1 DEF Integral
<1>. HIDE DEF f
<1>8. TermSum(f) = f.capacity + f.techMix + f.returns + f.utilisation + f.leverage
                     + f.merchant + f.risk + f.country + f.project
  BY <1>6, <1>7, SumOfTerms
<1>9. /\ Weights.capacity * Weights.capacityFloor \in Int
      /\ Weights.techSplit * Weights.splitFloor \in Int
      /\ Weights.return * Weights.returnClamp \in Int
      /\ Weights.leverage * m.minLeverage \in Int
      /\ Weights.merchant * (1000 - m.maxMerchant) \in Int
      /\ Weights.risk * (5000 - m.riskCap) \in Int
      /\ Weights.country * 1000 \in Int /\ Weights.project * 1000 \in Int
  BY BoundsOfAnAsk, WeightsAreSigned
<1>10. (Weights.country + Weights.project) * 1000
          = Weights.country * 1000 + Weights.project * 1000
  BY WeightsAreSigned
<1>11. WorstScore(m) =
          Weights.capacity * Weights.capacityFloor + Weights.techSplit * Weights.splitFloor
            - Weights.return * Weights.returnClamp
            + Weights.leverage * m.minLeverage + Weights.merchant * (1000 - m.maxMerchant)
            + Weights.risk * (5000 - m.riskCap)
            + (Weights.country * 1000 + Weights.project * 1000)
  BY <1>10 DEF WorstScore
<1>. QED  BY <1>3, <1>4, <1>5, <1>8, <1>9, <1>11

\* A selection over it scores at most the base of the rejections, and less the
\* more it is over.
LEMMA RejectedScores ==
    ASSUME NEW load \in Loads, NEW held \in SUBSET DOMAIN load, held # {},
           NEW m \in Asks, NEW t, t = Aggregate(load, held, m.hold), ~Within(t, m)
    PROVE  /\ Score(t, m) = Graded(t, m)
           /\ Graded(t, m) \in Int /\ Graded(t, m) <= Weights.rejectBase
<1>1. t.count # 0 /\ t.equity \in Nat
  BY TotalsOfASelection
<1>2. m.capital \in Nat \ {0} /\ Weights.capTolerance \in Nat
  BY BoundsOfAnAsk, WeightsAreSigned
<1>3. Score(t, m) = Graded(t, m)
  BY <1>1, <1>2 DEF Score, Within
<1>. DEFINE used == (1000 * t.equity) \div m.capital
<1>4. used \in Int /\ 1000 <= used
  <2>1. 1000 * t.equity \in Int /\ 1000 * m.capital <= 1000 * t.equity
    BY <1>1, <1>2 DEF Within
  <2>. QED  BY <1>2, <2>1, DivBounds, DivAtLeast
<1>5. Graded(t, m) = Weights.rejectBase + Weights.rejectSlope * (used - 1000)
  BY DEF Graded
<1>. HIDE DEF used
<1>6. /\ Weights.rejectSlope \in Int /\ Weights.rejectSlope <= 0
      /\ Weights.rejectBase \in Int
  BY WeightsAreSigned
<1>7. /\ Weights.rejectSlope * (used - 1000) \in Int
      /\ Weights.rejectSlope * (used - 1000) <= 0
  <2>1. used - 1000 \in Nat
    BY <1>4
  <2>2. ASSUME NEW a \in Int, a <= 0, NEW n \in Nat PROVE a * n \in Int /\ a * n <= 0
    BY <2>2
  <2>. QED  BY <1>6, <2>1, <2>2
<1>. QED  BY <1>3, <1>5, <1>6, <1>7

\* More equity is not graded higher.
LEMMA GradeFalls ==
    ASSUME NEW m \in Asks, NEW t, NEW u, t.equity \in Nat, u.equity \in Nat,
           t.equity <= u.equity
    PROVE  Graded(t, m) \in Int /\ Graded(u, m) \in Int /\ Graded(u, m) <= Graded(t, m)
<1>. DEFINE a == (1000 * t.equity) \div m.capital
            b == (1000 * u.equity) \div m.capital
            slope == Weights.rejectSlope
<1>1. m.capital \in Nat \ {0}
  BY BoundsOfAnAsk
<1>2. a \in Int /\ b \in Int /\ a <= b
  <2>1. 1000 * t.equity \in Int /\ 1000 * u.equity \in Int /\ 1000 * t.equity <= 1000 * u.equity
    OBVIOUS
  <2>. QED  BY <1>1, <2>1, DivBounds, DivGrows
<1>3. /\ Graded(t, m) = Weights.rejectBase + slope * (a - 1000)
      /\ Graded(u, m) = Weights.rejectBase + slope * (b - 1000)
  BY DEF Graded
<1>4. slope \in Int /\ slope <= 0 /\ Weights.rejectBase \in Int
  BY WeightsAreSigned
<1>. HIDE DEF a, b, slope
<1>5. /\ slope * (a - 1000) \in Int /\ slope * (b - 1000) \in Int
      /\ slope * (b - 1000) <= slope * (a - 1000)
  <2>1. a - 1000 \in Int /\ b - 1000 \in Int /\ a - 1000 <= b - 1000
    BY <1>2
  <2>2. ASSUME NEW w \in Int, w <= 0, NEW c \in Int, NEW d \in Int, c <= d
        PROVE  w * c \in Int /\ w * d \in Int /\ w * d <= w * c
    BY <2>2
  <2>. QED  BY <1>4, <2>1, <2>2
<1>. QED  BY <1>3, <1>4, <1>5

\* An empty selection scores what it is given.
LEMMA NothingScoresEmpty ==
    ASSUME NEW load, NEW m, NEW t, t = Aggregate(load, {}, m.hold)
    PROVE  Score(t, m) = Weights.empty
<1>1. t.count = 0
  BY FS_EmptySet DEF Aggregate
<1>. QED  BY <1>1 DEF Score

RunOK(run) ==
    /\ run.candidates \in Loads /\ run.mandate \in Asks
    /\ run.eligible \in Masks(run.candidates) /\ run.locked \in Masks(run.candidates)

Winners(run) == [1 .. Cardinality(Held(run.eligible)) -> BOOLEAN]

\* The outcome is of what was submitted, for some winner of the search.
OutcomeOf(run, o) ==
    /\ o.eligible = run.eligible /\ o.locked = run.locked
    /\ \E winner \in Winners(run) :
          o.result = BuildResult(run.candidates, run.mandate, run.eligible, winner)

\* What a run was submitted with stays, its outcome is of that, and its record
\* of the outcome, whatever was loaded in between.
PortfolioInv ==
    /\ inForce \in Loads
    /\ pending # None => RunOK(pending)
    /\ outcome # None => pending # None /\ OutcomeOf(pending, outcome)
    /\ record # None =>
        /\ outcome # None
        /\ record = IF Storable(Succeeded(outcome)) THEN Succeeded(outcome) ELSE Failed

\* A step that leaves the run and its outcome alone leaves the record true.
LEMMA RecordStays ==
    ASSUME UNCHANGED <<pending, outcome>>
    PROVE  /\ Succeeded(outcome)' = Succeeded(outcome)
           /\ Storable(Succeeded(outcome))' = Storable(Succeeded(outcome))
<1>1. Succeeded(outcome)' = Succeeded(outcome)
  BY DEF Succeeded, HoldingRecords
<1>2. Storable(Succeeded(outcome))' = Storable(Succeeded(outcome)')
  BY DEF Storable
<1>. QED  BY <1>1, <1>2

\* A reload changes the load in force, and nothing of the run.
LEMMA PortfolioInvAlways == PortfolioSpec => []PortfolioInv
<1>1. PortfolioInit => PortfolioInv
  BY DEF PortfolioInit, PortfolioInv
<1>2. ASSUME PortfolioInv, [PortfolioNext]_portfolio PROVE PortfolioInv'
  <2>1. ASSUME NEW m \in Asks, NEW eligible \in Masks(inForce), NEW locked \in Masks(inForce),
               SubmitRun(m, eligible, locked)
        PROVE  PortfolioInv'
    <3>1. /\ pending' = [candidates |-> inForce, mandate |-> m,
                         eligible |-> eligible, locked |-> locked]
          /\ pending = None /\ inForce' = inForce /\ outcome' = outcome /\ record' = record
      BY <2>1 DEF SubmitRun
    <3>2. inForce \in Loads /\ outcome = None /\ record = None
      BY <1>2, <3>1 DEF PortfolioInv
    <3>3. RunOK(pending')
      BY <3>1, <3>2 DEF RunOK
    <3>4. RunOK(pending)'
      BY <3>3 DEF RunOK, Masks
    <3>. QED  BY <3>1, <3>2, <3>4 DEF PortfolioInv
  <2>2. ASSUME NEW load \in Loads, ReloadUnder(load) PROVE PortfolioInv'
    <3>1. inForce' \in Loads /\ UNCHANGED <<pending, outcome>> /\ record' = record
      BY <2>2 DEF ReloadUnder
    <3>2. RunOK(pending)' = RunOK(pending) /\ OutcomeOf(pending, outcome)' = OutcomeOf(pending, outcome)
      BY <3>1
    <3>. QED  BY <1>2, <3>1, <3>2, RecordStays DEF PortfolioInv
  <2>3. ASSUME pending # None, NEW winner \in Winners(pending), SearchEnds(winner)
        PROVE  PortfolioInv'
    <3>. DEFINE result == BuildResult(pending.candidates, pending.mandate,
                                      pending.eligible, winner)
    <3>1. /\ outcome' = [eligible |-> pending.eligible, locked |-> pending.locked,
                         result |-> result]
          /\ outcome = None /\ pending' = pending /\ inForce' = inForce /\ record' = record
      BY <2>3 DEF SearchEnds
    <3>2. outcome'.result = result /\ outcome'.eligible = pending.eligible
          /\ outcome'.locked = pending.locked
      BY <3>1
    <3>3. OutcomeOf(pending, outcome')
      BY <3>2 DEF OutcomeOf
    <3>4. inForce \in Loads /\ RunOK(pending) /\ record = None
      BY <1>2, <2>3, <3>1 DEF PortfolioInv
    <3>5. OutcomeOf(pending, outcome)' = OutcomeOf(pending, outcome') /\ RunOK(pending)' = RunOK(pending)
      BY <3>1
    <3>. QED  BY <2>3, <3>1, <3>3, <3>4, <3>5 DEF PortfolioInv
  <2>4. CASE Recorded
    <3>1. /\ inForce' = inForce /\ UNCHANGED <<pending, outcome>> /\ outcome # None
          /\ record' = IF Storable(Succeeded(outcome)) THEN Succeeded(outcome) ELSE Failed
      BY <2>4 DEF Recorded
    <3>2. RunOK(pending)' = RunOK(pending) /\ OutcomeOf(pending, outcome)' = OutcomeOf(pending, outcome)
      BY <3>1
    <3>. QED  BY <1>2, <3>1, <3>2, RecordStays DEF PortfolioInv
  <2>5. CASE UNCHANGED portfolio
    <3>1. inForce' = inForce /\ UNCHANGED <<pending, outcome>> /\ record' = record
      BY <2>5 DEF portfolio
    <3>2. RunOK(pending)' = RunOK(pending) /\ OutcomeOf(pending, outcome)' = OutcomeOf(pending, outcome)
      BY <3>1
    <3>. QED  BY <1>2, <3>1, <3>2, RecordStays DEF PortfolioInv
  <2>. QED  BY <1>2, <2>1, <2>2, <2>3, <2>4, <2>5 DEF PortfolioNext, Winners
<1>. QED  BY <1>1, <1>2, PTL DEF PortfolioSpec

\* Whatever the plants, the mandate and the weights, if the three scores are
\* apart for one selection they are for any: every selection over the budget
\* ranks below none at all, lower the further over it is, and every one within
\* it above (objective.py, the check order and the grade).
THEOREM RejectsAreLast == PortfolioSpec => []RejectsRankLast
<1>1. ASSUME PortfolioInv PROVE RejectsRankLast
  <2>. SUFFICES ASSUME pending # None, outcome = None, inForce = pending.candidates
                PROVE  RejectsRankLast
    BY DEF RejectsRankLast
  <2>. DEFINE m == pending.mandate
              t(s) == Aggregate(inForce, s, m.hold)
              over(s) == t(s).equity > m.capital + Weights.capTolerance
              fitness(s) == Quantised(Score(t(s), m))
  <2>1. inForce \in Loads /\ m \in Asks
    BY <1>1 DEF PortfolioInv, RunOK
  <2>. HIDE DEF m
  <2>2. /\ m.capital \in Nat \ {0} /\ Weights.capTolerance \in Nat
        /\ Weights.rejectBase \in Int /\ Weights.empty \in Int
    BY <2>1, BoundsOfAnAsk, WeightsAreSigned
  <2>3. fitness({}) = Quantised(Weights.empty)
    BY NothingScoresEmpty
  <2>4. /\ Quantised(Weights.rejectBase) < Quantised(Weights.empty)
        /\ Quantised(Weights.empty) < Quantised(WorstScore(m))
    BY <2>1, ScoresAreApart
  <2>5. Quantised(Weights.empty) \in Int
    BY <2>2, QuantisedGrows
  <2>6. ASSUME NEW s \in SUBSET DOMAIN inForce
        PROVE  t(s).equity \in Nat /\ (s = {} => t(s).equity = 0)
    <3>1. t(s).equity = EquityOf(inForce, s)
      BY DEF Aggregate
    <3>. HIDE DEF t
    <3>. QED  BY <2>1, <3>1, ColumnsOfALoad
  <2>7. ASSUME NEW s \in SUBSET DOMAIN inForce, s # {}, ~over(s)
        PROVE  fitness(s) > fitness({})
    <3>. DEFINE u == t(s)
    <3>1. Within(u, m)
      BY <2>2, <2>6, <2>7 DEF Within
    <3>2. Score(u, m) \in Int /\ WorstScore(m) \in Int /\ WorstScore(m) <= Score(u, m)
      BY <2>1, <2>7, <3>1, FeasibleScores
    <3>3. /\ Quantised(WorstScore(m)) <= Quantised(Score(u, m))
          /\ Quantised(WorstScore(m)) \in Int /\ Quantised(Score(u, m)) \in Int
      BY <3>2, QuantisedGrows
    <3>. HIDE DEF t
    <3>. QED  BY <2>3, <2>4, <2>5, <3>3
  <2>8. ASSUME NEW s \in SUBSET DOMAIN inForce, over(s)
        PROVE  s # {} /\ fitness(s) = Quantised(Graded(t(s), m))
               /\ Graded(t(s), m) \in Int /\ Graded(t(s), m) <= Weights.rejectBase
    <3>1. s # {} /\ ~Within(t(s), m)
      <4>. HIDE DEF t
      <4>. QED  BY <2>2, <2>6, <2>8 DEF Within
    <3>2. /\ Score(t(s), m) = Graded(t(s), m)
          /\ Graded(t(s), m) \in Int /\ Graded(t(s), m) <= Weights.rejectBase
      BY <2>1, <3>1, RejectedScores
    <3>. HIDE DEF t
    <3>. QED  BY <3>1, <3>2
  <2>9. ASSUME NEW s \in SUBSET DOMAIN inForce, over(s)
        PROVE  fitness(s) < fitness({})
    <3>1. /\ Quantised(Graded(t(s), m)) <= Quantised(Weights.rejectBase)
          /\ Quantised(Graded(t(s), m)) \in Int /\ Quantised(Weights.rejectBase) \in Int
      BY <2>2, <2>8, <2>9, QuantisedGrows
    <3>. HIDE DEF t
    <3>2. fitness(s) = Quantised(Graded(t(s), m))
      BY <2>8, <2>9
    <3>. HIDE DEF fitness
    <3>. QED  BY <2>3, <2>4, <2>5, <3>1, <3>2
  <2>10. ASSUME NEW s \in SUBSET DOMAIN inForce, over(s),
                NEW r \in SUBSET DOMAIN inForce, t(r).equity > t(s).equity
         PROVE  fitness(r) <= fitness(s)
    <3>. HIDE DEF t
    <3>1. t(s).equity \in Nat /\ t(r).equity \in Nat
      BY <2>6
    <3>2. over(r) /\ t(s).equity <= t(r).equity
      BY <2>2, <2>10, <3>1
    <3>3. /\ Graded(t(s), m) \in Int /\ Graded(t(r), m) \in Int
          /\ Graded(t(r), m) <= Graded(t(s), m)
      BY <2>1, <3>1, <3>2, GradeFalls
    <3>4. /\ fitness(s) = Quantised(Graded(t(s), m))
          /\ fitness(r) = Quantised(Graded(t(r), m))
      BY <2>8, <2>10, <3>2
    <3>. QED  BY <3>3, <3>4, QuantisedGrows
  <2>11. \A s \in (SUBSET DOMAIN inForce) \ {{}} :
            IF over(s)
            THEN /\ fitness(s) < fitness({})
                 /\ \A r \in SUBSET DOMAIN inForce :
                        t(r).equity > t(s).equity => fitness(r) <= fitness(s)
            ELSE fitness(s) > fitness({})
    <3>. HIDE DEF t, fitness, over
    <3>. QED  BY <2>7, <2>9, <2>10
  <2>. QED  BY <2>11 DEF RejectsRankLast, m
<1>. QED  BY <1>1, PortfolioInvAlways, PTL

\* A finite set of countries with shares has the largest of them, the last by
\* code among equals.
LEMMA LargestExists ==
    ASSUME NEW C \in SUBSET Nat, IsFiniteSet(C), C # {},
           NEW shares, Natural(shares, C)
    PROVE  \E c \in C : \A d \in C :
              shares[c] > shares[d] \/ (shares[c] = shares[d] /\ c >= d)
<1>. DEFINE values == {shares[c] : c \in C}
            f == [c \in C |-> shares[c]]
<1>1. f \in Surjection(C, values)
  BY DEF Surjection
<1>2. values \in SUBSET Nat /\ values # {}
  BY DEF Natural
<1>3. IsFiniteSet(values)
  <2>. HIDE DEF f, values
  <2>. QED  BY <1>1, FS_Surjection
<1>4. PICK v \in values : \A x \in values : v >= x
  <2>. HIDE DEF values
  <2>. QED  BY <1>2, <1>3, FiniteHasALast
<1>. DEFINE first == {c \in C : shares[c] = v}
<1>5. first \in SUBSET Nat /\ first # {} /\ first \in SUBSET C
  BY <1>4
<1>6. IsFiniteSet(first)
  <2>. HIDE DEF first
  <2>. QED  BY <1>5, FS_Subset
<1>7. PICK c \in first : \A d \in first : c >= d
  <2>. HIDE DEF first
  <2>. QED  BY <1>5, <1>6, FiniteHasALast
<1>8. c \in C /\ shares[c] = v /\ v \in Nat
  BY <1>2, <1>4, <1>7
<1>9. ASSUME NEW d \in C
      PROVE  shares[c] > shares[d] \/ (shares[c] = shares[d] /\ c >= d)
  <2>1. shares[d] \in Nat /\ v >= shares[d]
    BY <1>4 DEF Natural
  <2>2. CASE shares[d] = v
    <3>1. c >= d
      BY <1>7, <2>2
    <3>. QED  BY <1>8, <2>2, <3>1
  <2>3. CASE shares[d] # v
    BY <1>8, <2>1, <2>3
  <2>. QED  BY <2>2, <2>3
<1>. QED  BY <1>8, <1>9

\* What the country tile shows is the largest share, and it is within a cap
\* exactly when all are.
LEMMA LargestIsTheMost ==
    ASSUME NEW C \in SUBSET Nat, IsFiniteSet(C),
           NEW shares, DOMAIN shares = C, Natural(shares, C), NEW cap \in Nat,
           NEW top, top = Largest(shares),
           NEW share, share = IF top = Undefined THEN 0 ELSE shares[top]
    PROVE  share \in Nat /\ (share <= cap <=> \A c \in C : shares[c] <= cap)
<1>1. CASE C = {}
  <2>1. top = Undefined
    BY <1>1 DEF Largest
  <2>. QED  BY <1>1, <2>1
<1>2. CASE C # {}
  <2>. DEFINE leads(c) == \A d \in C :
                 shares[c] > shares[d] \/ (shares[c] = shares[d] /\ c >= d)
  <2>1. top = CHOOSE c \in C : leads(c)
    BY <1>2 DEF Largest
  <2>2. \E c \in C : leads(c)
    BY <1>2, LargestExists
  <2>3. top \in C /\ leads(top)
    <3>. HIDE DEF leads
    <3>. QED  BY <2>1, <2>2
  <2>4. top # Undefined
    BY <2>3, ReturnsConstants, SMT
  <2>5. share = shares[top] /\ share \in Nat
    BY <2>3, <2>4 DEF Natural
  <2>6. \A c \in C : shares[c] \in Nat /\ shares[c] <= share
    BY <2>3, <2>5 DEF Natural
  <2>. HIDE DEF leads
  <2>. QED  BY <2>3, <2>5, <2>6
<1>. QED  BY <1>1, <1>2

\* The countries that are held are some of those of the load, and the others
\* have no share: the largest share is that of them all.
LEMMA LargestOfThoseHeld ==
    ASSUME NEW load \in Loads, NEW held \in SUBSET DOMAIN load, NEW cap \in Nat,
           NEW t, t.countries = CountryShares(load, held),
           NEW shares, shares = HeldShares(load, held, t),
           NEW top, top = Largest(shares),
           NEW share, share = IF top = Undefined THEN 0 ELSE shares[top]
    PROVE  share \in Nat
           /\ (share <= cap <=> \A c \in Countries(load) : t.countries[c] <= cap)
<1>. DEFINE D == DOMAIN shares
            C == Countries(load)
            all == t.countries
<1>1. D = {load[i].country : i \in held} /\ \A c \in D : shares[c] = all[c]
  BY DEF HeldShares
<1>2. D \in SUBSET C
  BY <1>1 DEF Countries
<1>3. IsFiniteSet(C) /\ C \in SUBSET Nat
  BY CountriesAreFinite
<1>4. IsFiniteSet(D) /\ D \in SUBSET Nat
  BY <1>2, <1>3, FS_Subset
<1>5. Natural(all, C)
  BY SharesAreNatural
<1>6. Natural(shares, D)
  BY <1>1, <1>2, <1>5 DEF Natural
<1>7. ASSUME NEW c \in C \ D PROVE all[c] = 0
  <2>. DEFINE in == {i \in held : load[i].country = c}
              whole == Column(load, held, "capex")
  <2>1. in = {}
    BY <1>1, <1>7
  <2>2. all[c] = Share(Column(load, in, "capex"), whole)
    BY DEF CountryShares
  <2>3. in \in SUBSET DOMAIN load /\ whole \in Nat
    BY ColumnsOfALoad
  <2>. HIDE DEF in, whole, all
  <2>4. Column(load, in, "capex") = 0
    BY <2>1, <2>3, ColumnsOfALoad
  <2>. QED  BY <2>2, <2>3, <2>4 DEF Share
<1>. HIDE DEF C, D, all
<1>8. share \in Nat /\ (share <= cap <=> \A c \in D : shares[c] <= cap)
  BY <1>4, <1>6, LargestIsTheMost DEF D
<1>9. (\A c \in D : shares[c] <= cap) <=> (\A c \in C : all[c] <= cap)
  BY <1>1, <1>2, <1>7
<1>. QED  BY <1>8, <1>9 DEF C, all

\* The figures behind the tiles, of any selection: none of a load too.
LEMMA FiguresOfTheTiles ==
    ASSUME NEW load \in Loads, NEW held \in SUBSET DOMAIN load, NEW hold,
           NEW t, t = Aggregate(load, held, hold)
    PROVE  t.gearing \in Nat /\ t.merchant \in Int
<1>1. t.gearing \in Nat
  <2>1. t.gearing = Share(Column(load, held, "debt"), Column(load, held, "capex"))
    BY DEF Aggregate
  <2>2. Column(load, held, "debt") \in Nat /\ Column(load, held, "capex") \in Nat
    BY ColumnsOfALoad
  <2>. QED  BY <2>1, <2>2, ShareIsNatural
<1>2. t.merchant \in Int
  <2>1. CASE held = {}
    <3>1. Column(load, held, "capex") = 0
      BY <2>1, ColumnsOfALoad
    <3>2. ~(Column(load, held, "capex") > 0)
      BY <3>1
    <3>3. t.merchant = 0
      BY <3>2 DEF Aggregate
    <3>. QED  BY <3>3
  <2>2. CASE held # {}
    <3>1. t.merchant \in Thousandths
      BY <2>2, MerchantIsAShare
    <3>. QED  BY <3>1 DEF Thousandths
  <2>. QED  BY <2>1, <2>2
<1>. QED  BY <1>1, <1>2

\* The verdicts and the terms of one result.
LEMMA TilesOfAResult ==
    ASSUME NEW load \in Loads, NEW m \in Asks, NEW eligible \in Masks(load), NEW winner,
           NEW r, r = BuildResult(load, m, eligible, winner),
           NEW f, f = Terms(r.totals, m)
    PROVE  /\ r.verdicts.leverage = "compliant" <=> f.leverage = 0
           /\ r.verdicts.merchant = "compliant" <=> f.merchant = 0
           /\ r.verdicts.country = "compliant" <=> f.country = 0
           /\ r.terms # Undefined => Quantised(TermSum(r.terms)) = r.fitness
<1>. DEFINE held == Held(Scatter(eligible, winner))
            t == Aggregate(load, held, m.hold)
            C == Countries(load)
            shares == HeldShares(load, held, t)
            largest == Largest(shares)
            share == IF largest = Undefined THEN 0 ELSE shares[largest]
<1>1. held \in SUBSET DOMAIN load
  <2>1. DOMAIN load = 1 .. Len(load)
    BY LoadsAreOfPlants
  <2>. QED  BY <2>1 DEF Held, Scatter, Masks
<1>2. r.totals = t
  BY DEF BuildResult
<1>3. /\ r.verdicts.leverage = Verdict(t.gearing >= m.minLeverage)
      /\ r.verdicts.merchant = Verdict(t.merchant <= m.maxMerchant)
      /\ r.verdicts.country = Verdict(share <= m.maxCountry)
  BY DEF BuildResult
<1>4. r.terms # Undefined => Quantised(TermSum(r.terms)) = r.fitness
  BY DEF BuildResult
<1>. HIDE DEF held
<1>5. t.countries = CountryShares(load, held)
  BY DEF Aggregate
<1>6. t.gearing \in Nat /\ t.merchant \in Int
  BY <1>1, FiguresOfTheTiles
<1>. HIDE DEF t
<1>7. /\ m.minLeverage \in Nat /\ m.maxMerchant \in Nat /\ m.maxCountry \in Nat
  BY BoundsOfAnAsk
<1>8. /\ f.leverage = Weights.leverage * Excess(m.minLeverage, t.gearing)
      /\ f.merchant = Weights.merchant * Excess(t.merchant, m.maxMerchant)
      /\ f.country = Weights.country * Concentration(t.countries, m.maxCountry)
  BY <1>2 DEF Terms
<1>9. /\ Weights.leverage \in Int /\ Weights.leverage < 0
      /\ Weights.merchant \in Int /\ Weights.merchant < 0
      /\ Weights.country \in Int /\ Weights.country < 0
  BY WeightsAreSigned
<1>10. ASSUME NEW w \in Int, w < 0, NEW a \in Int PROVE w * a = 0 <=> a = 0
  BY <1>10
<1>11. /\ r.verdicts.leverage = "compliant" <=> t.gearing >= m.minLeverage
       /\ r.verdicts.merchant = "compliant" <=> t.merchant <= m.maxMerchant
       /\ r.verdicts.country = "compliant" <=> share <= m.maxCountry
  <2>. HIDE DEF share, largest
  <2>. QED  BY <1>3 DEF Verdict
<1>12. r.verdicts.leverage = "compliant" <=> f.leverage = 0
  <2>1. /\ Excess(m.minLeverage, t.gearing) \in Int
        /\ Excess(m.minLeverage, t.gearing) = 0 <=> t.gearing >= m.minLeverage
    BY <1>6, <1>7 DEF Excess, Larger
  <2>2. f.leverage = 0 <=> Excess(m.minLeverage, t.gearing) = 0
    BY <1>8, <1>9, <1>10, <2>1
  <2>. QED  BY <1>11, <2>1, <2>2
<1>13. r.verdicts.merchant = "compliant" <=> f.merchant = 0
  <2>1. /\ Excess(t.merchant, m.maxMerchant) \in Int
        /\ Excess(t.merchant, m.maxMerchant) = 0 <=> t.merchant <= m.maxMerchant
    BY <1>6, <1>7 DEF Excess, Larger
  <2>2. f.merchant = 0 <=> Excess(t.merchant, m.maxMerchant) = 0
    BY <1>8, <1>9, <1>10, <2>1
  <2>. QED  BY <1>11, <2>1, <2>2
<1>14. r.verdicts.country = "compliant" <=> f.country = 0
  <2>1. /\ DOMAIN t.countries = C /\ Natural(t.countries, C)
    BY <1>1, <1>5, SharesAreNatural
  <2>2. IsFiniteSet(C) /\ C \in SUBSET Nat
    BY CountriesAreFinite
  <2>. HIDE DEF C
  <2>3. share \in Nat /\ (share <= m.maxCountry <=> \A c \in C : t.countries[c] <= m.maxCountry)
    <3>. DEFINE cap == m.maxCountry
    <3>1. shares = HeldShares(load, held, t)
      OBVIOUS
    <3>. HIDE DEF shares
    <3>2. cap \in Nat
      BY <1>7
    <3>. HIDE DEF cap
    <3>. QED  BY <1>1, <1>5, <3>1, <3>2, LargestOfThoseHeld DEF C, cap
  <2>4. /\ Concentration(t.countries, m.maxCountry) \in Int
        /\ Concentration(t.countries, m.maxCountry) = 0
             <=> \A c \in C : t.countries[c] <= m.maxCountry
    <3>. DEFINE weights == t.countries
                all == \A c \in DOMAIN weights : weights[c] <= m.maxCountry
    <3>1. IsFiniteSet(DOMAIN weights) /\ Natural(weights, DOMAIN weights)
      BY <2>1, <2>2
    <3>. HIDE DEF weights
    <3>2. /\ Concentration(weights, m.maxCountry) \in Nat
          /\ Concentration(weights, m.maxCountry) = 0 <=> all
      BY <1>7, <3>1, ConcentrationIsBounded
    <3>. QED  BY <2>1, <3>2 DEF weights
  <2>. HIDE DEF share, largest
  <2>5. f.country = 0 <=> Concentration(t.countries, m.maxCountry) = 0
    BY <1>8, <1>9, <1>10, <2>4
  <2>. QED  BY <1>11, <2>3, <2>4, <2>5
<1>. QED  BY <1>4, <1>12, <1>13, <1>14

\* A tile is compliant exactly when its term costs nothing, for any selection
\* of any load, the empty one too: the largest share is the one that decides
\* (result.py, _country_shares and the verdicts; objective.py, the penalties).
THEOREM TilesAgree == PortfolioSpec => []TilesAgreeWithPenalties
<1>1. ASSUME PortfolioInv PROVE TilesAgreeWithPenalties
  <2>. SUFFICES ASSUME outcome # None PROVE TilesAgreeWithPenalties
    BY DEF TilesAgreeWithPenalties
  <2>1. PICK winner : outcome.result = BuildResult(pending.candidates, pending.mandate,
                                                   pending.eligible, winner)
    BY <1>1 DEF PortfolioInv, OutcomeOf
  <2>2. /\ pending.candidates \in Loads /\ pending.mandate \in Asks
        /\ pending.eligible \in Masks(pending.candidates)
    BY <1>1 DEF PortfolioInv, RunOK
  <2>. DEFINE r == outcome.result
              f == Terms(r.totals, pending.mandate)
  <2>3. /\ r.verdicts.leverage = "compliant" <=> f.leverage = 0
        /\ r.verdicts.merchant = "compliant" <=> f.merchant = 0
        /\ r.verdicts.country = "compliant" <=> f.country = 0
        /\ r.terms # Undefined => Quantised(TermSum(r.terms)) = r.fitness
    BY <2>1, <2>2, TilesOfAResult
  <2>4. ASSUME NEW name \in {"leverage", "merchant", "country"}
        PROVE  r.verdicts[name] = "compliant" <=> f[name] = 0
    <3>. HIDE DEF r, f
    <3>. QED  BY <2>3
  <2>. HIDE DEF f
  <2>. QED  BY <2>3, <2>4 DEF TilesAgreeWithPenalties, f
<1>. QED  BY <1>1, PortfolioInvAlways, PTL

-----------------------------------------------------------------------------
(* The join by position (Portfolio).                                       *)

\* The rows of a mask are what it holds, in order.
LEMMA RowsOfAMask ==
    ASSUME NEW n \in Nat, NEW mask, DOMAIN mask = 1 .. n
    PROVE  /\ Held(mask) \in SUBSET Int /\ IsFiniteSet(Held(mask))
           /\ Cardinality(Held(mask)) \in Nat
           /\ FlatNonzero(mask) = InOrder(Held(mask))
           /\ DOMAIN FlatNonzero(mask) = 1 .. Cardinality(Held(mask))
           /\ Enumerates(FlatNonzero(mask), Cardinality(Held(mask)), Held(mask))
<1>1. Held(mask) \in SUBSET (1 .. n)
  BY DEF Held
<1>2. Held(mask) \in SUBSET Int /\ IsFiniteSet(Held(mask))
  BY <1>1, FS_Interval, FS_Subset
<1>3. FlatNonzero(mask) = InOrder(Held(mask))
  BY Zenon DEF FlatNonzero, InOrder
<1>. QED  BY <1>2, <1>3, NumbersInOrder

\* The candidates that the selection keeps, by their places.
Kept(eligible, selection) ==
    LET rows == FlatNonzero(eligible)
    IN  {k \in DOMAIN rows : selection[rows[k]]}

\* The two sides of the join, of n candidates: the places that the server kept
\* are its rows, and the places it flags are those that the worker selects.
Joins(n, eligible, winner, selection, rows, K) ==
    /\ n \in Nat /\ eligible \in [1 .. n -> BOOLEAN]
    /\ winner \in [1 .. Cardinality(Held(eligible)) -> BOOLEAN]
    /\ selection = Scatter(eligible, winner)
    /\ rows = FlatNonzero(eligible) /\ K = Kept(eligible, selection)

\* What the worker selects and what the server flags are the same candidates,
\* and in the same order.
LEMMA CandidatesByPosition ==
    ASSUME NEW n, NEW eligible, NEW winner, NEW selection, NEW rows, NEW K,
           Joins(n, eligible, winner, selection, rows, K)
    PROVE  /\ selection \in [1 .. n -> BOOLEAN] /\ Held(selection) \in SUBSET Held(eligible)
           /\ K \in SUBSET DOMAIN rows /\ K \in SUBSET Int /\ IsFiniteSet(K)
           /\ \A k \in K : rows[k] \in Held(selection)
           /\ Matches(rows, K, Held(selection))
           /\ Cardinality(K) \in Nat /\ Cardinality(Held(selection)) = Cardinality(K)
           /\ DOMAIN FlatNonzero(selection) = 1 .. Cardinality(K)
           /\ \A j \in 1 .. Cardinality(K) :
                 InOrder(K)[j] \in K /\ FlatNonzero(selection)[j] = rows[InOrder(K)[j]]
<1>. DEFINE H == Held(eligible)
            N == Cardinality(H)
<1>0. /\ n \in Nat /\ eligible \in [1 .. n -> BOOLEAN]
      /\ winner \in [1 .. Cardinality(Held(eligible)) -> BOOLEAN]
      /\ selection = Scatter(eligible, winner)
      /\ rows = FlatNonzero(eligible) /\ K = Kept(eligible, selection)
  BY DEF Joins
<1>1. DOMAIN eligible = 1 .. n
  BY <1>0
<1>2. /\ H \in SUBSET Int /\ IsFiniteSet(H) /\ N \in Nat
      /\ DOMAIN rows = 1 .. N /\ Enumerates(rows, N, H)
  BY <1>0, <1>1, RowsOfAMask
<1>3. selection = [i \in 1 .. n |-> \E k \in DOMAIN rows : rows[k] = i /\ winner[k]]
  BY <1>0, <1>1 DEF Scatter
<1>4. selection \in [1 .. n -> BOOLEAN]
  BY <1>0, <1>3
<1>5. Held(selection) \in SUBSET H
  BY <1>2, <1>3 DEF Held, Enumerates
<1>6. K = {k \in 1 .. N : selection[rows[k]]}
  BY <1>0, <1>2 DEF Kept
<1>7. K \in SUBSET Int /\ K \in SUBSET (1 .. N) /\ IsFiniteSet(K)
  <2>1. K \in SUBSET (1 .. N)
    BY <1>6
  <2>. HIDE DEF N
  <2>2. IsFiniteSet(1 .. N)
    BY <1>2, FS_Interval
  <2>3. IsFiniteSet(K)
    BY <2>1, <2>2, FS_Subset
  <2>4. K \in SUBSET Int
    BY <1>2, <2>1
  <2>. QED  BY <2>1, <2>3, <2>4
<1>8. H \in SUBSET (1 .. n)
  BY <1>1 DEF Held
<1>9. Held(selection) = {rows[k] : k \in K}
  <2>1. ASSUME NEW i \in Held(selection) PROVE i \in {rows[k] : k \in K}
    <3>1. selection[i] /\ i \in H
      BY <1>5 DEF Held
    <3>2. PICK k \in 1 .. N : rows[k] = i
      BY <1>2, <3>1 DEF Enumerates
    <3>. QED  BY <1>6, <3>1, <3>2
  <2>2. ASSUME NEW k \in K PROVE rows[k] \in Held(selection)
    <3>1. rows[k] \in 1 .. n /\ selection[rows[k]]
      BY <1>2, <1>6, <1>7, <1>8 DEF Enumerates
    <3>. QED  BY <1>4, <3>1 DEF Held
  <2>. QED  BY <2>1, <2>2
<1>10. \A j, k \in K : j < k => rows[j] < rows[k]
  BY <1>2, <1>7 DEF Enumerates
<1>11. Held(selection) \in SUBSET Int
  BY <1>2, <1>5
<1>12. /\ Matches(rows, K, Held(selection))
       /\ Cardinality(Held(selection)) = Cardinality(K)
       /\ \A j \in 1 .. Cardinality(K) : InOrder(Held(selection))[j] = rows[InOrder(K)[j]]
  <2>. DEFINE S == Held(selection)
  <2>1. /\ S \in SUBSET Int /\ \A k \in K : rows[k] \in S
        /\ \A i \in S : \E k \in K : rows[k] = i
    BY <1>9, <1>11
  <2>. HIDE DEF S, H, N
  <2>2. \A j, k \in K : j < k => rows[j] < rows[k]
    BY <1>10
  <2>3. K \in SUBSET Int /\ IsFiniteSet(K)
    BY <1>7
  <2>4. Matches(rows, K, S)
    BY <2>1, <2>2, <2>3, SameOrder
  <2>5. Cardinality(S) = Cardinality(K)
    BY <2>1, <2>2, <2>3, <2>4, SameOrder
  <2>6. \A j \in 1 .. Cardinality(K) : InOrder(S)[j] = rows[InOrder(K)[j]]
    BY <2>1, <2>2, <2>3, <2>4, SameOrder
  <2>. QED  BY <2>4, <2>5, <2>6 DEF S
<1>13. /\ FlatNonzero(selection) = InOrder(Held(selection))
       /\ DOMAIN FlatNonzero(selection) = 1 .. Cardinality(Held(selection))
  <2>1. DOMAIN selection = 1 .. n
    BY <1>4
  <2>. QED  BY <1>0, <2>1, RowsOfAMask
<1>14. Cardinality(K) \in Nat /\ \A j \in 1 .. Cardinality(K) : InOrder(K)[j] \in K
  BY <1>7, NumbersInOrder DEF Enumerates
<1>15. \A k \in K : rows[k] \in Held(selection)
  BY <1>9
<1>16. K \in SUBSET DOMAIN rows
  BY <1>2, <1>7
<1>. HIDE DEF H, N
<1>. QED  BY <1>4, <1>5, <1>7, <1>12, <1>13, <1>14, <1>15, <1>16 DEF H

-----------------------------------------------------------------------------
(* Millions.                                                               *)

\* Whole millions stay whole, and their sum in millions is the sum of them in
\* millions.
LEMMA MillionsAddUp ==
    ASSUME NEW S, IsFiniteSet(S), NEW f, NEW g,
           \A x \in S : f[x] \in Int /\ f[x] % Million = 0 /\ g[x] = Millions(f[x])
    PROVE  /\ Integral(g, S) /\ SumOf(f, S) \in Int /\ SumOf(f, S) % Million = 0
           /\ SumOf(g, S) = Millions(SumOf(f, S))
<1>0. Million \in Nat \ {0}
  BY AmountsAreInMillions
<1>1. ASSUME NEW x \in S PROVE g[x] \in Int /\ f[x] = Million * g[x]
  BY <1>0, DivExact DEF Millions
<1>2. Integral(g, S) /\ Integral(f, S)
  BY <1>1 DEF Integral
<1>3. SumOf(f, S) = Million * SumOf(g, S)
  BY <1>0, <1>1, <1>2, SumOfMultiples
<1>4. SumOf(g, S) \in Int /\ SumOf(f, S) \in Int
  BY <1>2, SumOfAdds
<1>. QED  BY <1>0, <1>2, <1>3, <1>4, DivExact DEF Millions

\* The series of a file, and what is made of them, are of integers.
LEMMA SeriesOfALoad ==
    ASSUME NEW load \in Loads, NEW i \in DOMAIN load, NEW hold \in Nat \ {0}
    PROVE  /\ load[i].fcfe \in [1 .. Years -> Int]
           /\ ExitYear(hold) \in 1 .. Years
           /\ HoldSeries(load[i], hold) \in [1 .. ExitYear(hold) -> Int]
<1>. DEFINE p == load[i]
            exit == ExitYear(hold)
            value == TerminalValue(p, hold)
<1>0. Years \in Nat \ {0} /\ ExitMultiple \in [BOOLEAN -> Nat]
  BY ReturnsConstants, Zenon
<1>1. /\ p.fcfe \in [1 .. Years -> Int] /\ p.ebitda \in [1 .. Years -> Int]
      /\ p.closing \in [1 .. Years -> Int] /\ p.solar \in BOOLEAN
  BY LoadsAreOfPlants
<1>2. exit \in 1 .. Years
  BY <1>0 DEF ExitYear, Smaller
<1>. HIDE DEF p, exit
<1>3. value \in Int
  <2>. DEFINE k == ExitMultiple[p.solar]
              a == p.ebitda[exit]
              b == p.closing[exit]
  <2>1. k \in Nat /\ a \in Int /\ b \in Int
    BY <1>0, <1>1, <1>2
  <2>2. value = Larger(k * a - b, 0)
    BY DEF TerminalValue, exit
  <2>. HIDE DEF k, a, b, value
  <2>3. k * a \in Int
    BY <2>1
  <2>. QED  BY <2>1, <2>2, <2>3 DEF Larger
<1>4. HoldSeries(p, hold) = [y \in 1 .. exit |-> p.fcfe[y] + (IF y = exit THEN value ELSE 0)]
  BY DEF HoldSeries, exit
<1>. HIDE DEF value
<1>5. ASSUME NEW y \in 1 .. exit
      PROVE  p.fcfe[y] + (IF y = exit THEN value ELSE 0) \in Int
  <2>1. p.fcfe[y] \in Int
    BY <1>0, <1>1, <1>2
  <2>. QED  BY <1>3, <2>1
<1>. QED  BY <1>1, <1>2, <1>4, <1>5 DEF p, exit

\* What has a rate of return has a multiple: something was paid in.
LEMMA RateHasAMultiple ==
    ASSUME NEW n \in Nat, NEW series \in [1 .. n -> Int], Irr(series) # Undefined
    PROVE  Moic(series) # Undefined
<1>. DEFINE in == [y \in DOMAIN series |-> Larger(-series[y], 0)]
            out == [y \in DOMAIN series |-> Larger(series[y], 0)]
<1>0. DOMAIN series = 1 .. n /\ IsFiniteSet(1 .. n) /\ Len(series) = n
  BY FS_Interval
<1>1. Natural(in, 1 .. n) /\ Natural(out, 1 .. n) /\ DOMAIN in = 1 .. n /\ DOMAIN out = 1 .. n
  BY <1>0 DEF Larger, Natural
<1>2. Moic(series) = IF Total(in) > 0 THEN (100 * Total(out)) \div Total(in) ELSE Undefined
  BY DEF Moic
<1>3. \A y \in 1 .. n : in[y] = 0 => series[y] \in Nat
  BY <1>0 DEF Larger
<1>. HIDE DEF in, out
<1>4. Total(in) = SumOf(in, 1 .. n) /\ Total(out) = SumOf(out, 1 .. n)
  BY <1>1 DEF Total, SumFunction, SumOf
<1>5. Total(in) \in Nat /\ Total(out) \in Nat
  BY <1>0, <1>1, <1>4, SumOfGrows
<1>6. Total(in) # 0
  <2>. SUFFICES ASSUME Total(in) = 0 PROVE FALSE
    OBVIOUS
  <2>1. \A y \in 1 .. n : in[y] = 0
    BY <1>0, <1>1, <1>4, SumOfNoughts
  <2>2. \A y \in DOMAIN series : series[y] \in Nat
    BY <1>0, <1>3, <2>1
  <2>. QED  BY <1>0, <2>2, NoRateOfGains
<1>7. (100 * Total(out)) \div Total(in) \in Int
  BY <1>5, <1>6, DivBounds
<1>8. Undefined \notin Int
  BY ReturnsConstants, Zenon
<1>. QED  BY <1>2, <1>5, <1>6, <1>7, <1>8

\* A part is no more than a thousand thousandths of the whole.
LEMMA ShareOfAPart ==
    ASSUME NEW a \in Nat, NEW b \in Nat, a <= b
    PROVE  Share(a, b) \in 0 .. 1000
<1>1. CASE b > 0
  <2>1. 1000 * a \in Int /\ 1000 * a <= 1000 * b /\ b \in Nat \ {0}
    BY <1>1
  <2>2. (1000 * a) \div b <= 1000
    BY <2>1, DivAtMost
  <2>3. Share(a, b) = (1000 * a) \div b
    BY <1>1 DEF Share
  <2>4. Share(a, b) \in Nat
    BY ShareIsNatural
  <2>. QED  BY <2>2, <2>3, <2>4
<1>2. CASE b = 0
  BY <1>2 DEF Share
<1>. QED  BY <1>1, <1>2

\* A column over some of what is held.
LEMMA ColumnOfSome ==
    ASSUME NEW load \in Loads, NEW held \in SUBSET DOMAIN load, NEW some \in SUBSET held,
           NEW field \in {"capacity", "capex"}
    PROVE  /\ Column(load, some, field) \in Nat /\ Column(load, held, field) \in Nat
           /\ Column(load, some, field) <= Column(load, held, field)
<1>. DEFINE of(s) == [i \in s |-> load[i][field]]
<1>0. IsFiniteSet(held) /\ IsFiniteSet(some)
  BY PlantsOfALoad
<1>1. Natural(of(held), held)
  BY PlantsOfALoad DEF Natural, PlantOK
<1>2. \A i \in some : of(some)[i] = of(held)[i]
  OBVIOUS
<1>3. /\ Column(load, some, field) = SumOf(of(some), some)
      /\ Column(load, held, field) = SumOf(of(held), held)
  BY ColumnIsASum, Zenon
<1>. HIDE DEF of
<1>4. Integral(of(held), some)
  BY <1>1 DEF Natural, Integral
<1>5. SumOf(of(some), some) = SumOf(of(held), some)
  BY <1>0, <1>2, <1>4, SumOfTheSame
<1>6. /\ SumOf(of(held), held) \in Nat /\ SumOf(of(held), some) \in Nat
      /\ SumOf(of(held), some) <= SumOf(of(held), held)
  BY <1>0, <1>1, SumOfGrows
<1>. QED  BY <1>3, <1>5, <1>6

\* The shares of a record are within its bounds, of any selection.
LEMMA SharesAreBounded ==
    ASSUME NEW load \in Loads, NEW held \in SUBSET DOMAIN load, NEW hold,
           NEW t, t = Aggregate(load, held, hold)
    PROVE  /\ t.solar \in Thousandths /\ t.gearing \in Thousandths
           /\ t.merchant \in Thousandths
           /\ t.countries = CountryShares(load, held)
           /\ \A c \in Countries(load) : t.countries[c] <= 1000
<1>1. t.solar \in 0 .. 1000
  <2>. DEFINE solar == {i \in held : load[i].solar}
  <2>1. t.solar = Share(Column(load, solar, "capacity"), Column(load, held, "capacity"))
    BY DEF Aggregate
  <2>2. solar \in SUBSET held
    OBVIOUS
  <2>. DEFINE a == Column(load, solar, "capacity")
              b == Column(load, held, "capacity")
  <2>. HIDE DEF solar
  <2>3. a \in Nat /\ b \in Nat /\ a <= b
    BY <2>2, ColumnOfSome
  <2>. HIDE DEF a, b
  <2>4. Share(a, b) \in 0 .. 1000
    BY <2>3, ShareOfAPart
  <2>. QED  BY <2>1, <2>4 DEF a, b
<1>2. t.gearing \in 0 .. 1000
  <2>. DEFINE debt == [i \in held |-> load[i]["debt"]]
              capex == [i \in held |-> load[i]["capex"]]
  <2>1. /\ Integral(debt, held) /\ Integral(capex, held)
        /\ \A i \in held : 1 * debt[i] <= 1 * capex[i]
    BY PlantsOfALoad DEF PlantOK, Integral
  <2>2. /\ Column(load, held, "debt") = SumOf(debt, held)
        /\ Column(load, held, "capex") = SumOf(capex, held)
    BY ColumnIsASum, Zenon
  <2>3. IsFiniteSet(held)
    BY PlantsOfALoad
  <2>. HIDE DEF debt, capex
  <2>4. 1 * SumOf(debt, held) <= 1 * SumOf(capex, held)
    BY <2>1, <2>3, SumOfBounds
  <2>5. Column(load, held, "debt") \in Nat /\ Column(load, held, "capex") \in Nat
    BY ColumnsOfALoad
  <2>6. Column(load, held, "debt") <= Column(load, held, "capex")
    BY <2>2, <2>4, <2>5
  <2>7. t.gearing = Share(Column(load, held, "debt"), Column(load, held, "capex"))
    BY DEF Aggregate
  <2>. DEFINE a == Column(load, held, "debt")
              b == Column(load, held, "capex")
  <2>8. a \in Nat /\ b \in Nat /\ a <= b
    BY <2>5, <2>6
  <2>. HIDE DEF a, b
  <2>9. Share(a, b) \in 0 .. 1000
    BY <2>8, ShareOfAPart
  <2>. QED  BY <2>7, <2>9 DEF a, b
<1>3. t.merchant \in 0 .. 1000
  <2>1. CASE held = {}
    <3>1. Column(load, held, "capex") = 0
      BY <2>1, ColumnsOfALoad
    <3>2. t.merchant = 0
      BY <3>1 DEF Aggregate
    <3>. QED  BY <3>2
  <2>2. CASE held # {}
    BY <2>2, MerchantIsAShare DEF Thousandths
  <2>. QED  BY <2>1, <2>2
<1>4. t.countries = CountryShares(load, held)
  BY DEF Aggregate
<1>5. ASSUME NEW c \in Countries(load) PROVE t.countries[c] <= 1000
  <2>. DEFINE in == {i \in held : load[i].country = c}
  <2>1. t.countries[c] = Share(Column(load, in, "capex"), Column(load, held, "capex"))
    BY <1>4 DEF CountryShares
  <2>2. in \in SUBSET held
    OBVIOUS
  <2>. HIDE DEF in
  <2>. DEFINE a == Column(load, in, "capex")
              b == Column(load, held, "capex")
  <2>3. a \in Nat /\ b \in Nat /\ a <= b
    BY <2>2, ColumnOfSome
  <2>. HIDE DEF a, b
  <2>4. Share(a, b) \in 0 .. 1000
    BY <2>3, ShareOfAPart
  <2>5. Share(a, b) <= 1000
    BY <2>4
  <2>. QED  BY <2>1, <2>5 DEF a, b
<1>. QED  BY <1>1, <1>2, <1>3, <1>4, <1>5 DEF Thousandths

-----------------------------------------------------------------------------
(* The record of a run (Portfolio).                                        *)

Thirty(load, held) ==
    [y \in 1 .. Years |-> SumFunction([i \in held |-> load[i].fcfe[y]])]

Truncated(load, held, hold) ==
    [y \in 1 .. ExitYear(hold) |->
        SumFunction([i \in held |-> HoldSeries(load[i], hold)[y]])]

\* The pooled series of a hold is of integers.
LEMMA TruncatedYears ==
    ASSUME NEW load \in Loads, NEW held \in SUBSET DOMAIN load, NEW hold \in Nat \ {0}
    PROVE  /\ ExitYear(hold) \in Nat
           /\ Truncated(load, held, hold) \in [1 .. ExitYear(hold) -> Int]
<1>. DEFINE exit == ExitYear(hold)
<1>1. exit \in Nat
  <2>1. Years \in Nat \ {0}
    BY ReturnsConstants, Zenon
  <2>. QED  BY <2>1 DEF ExitYear, Smaller
<1>2. IsFiniteSet(held)
  BY PlantsOfALoad
<1>3. ASSUME NEW y \in 1 .. exit PROVE Truncated(load, held, hold)[y] \in Int
  <2>. DEFINE f == [i \in held |-> HoldSeries(load[i], hold)[y]]
  <2>1. ASSUME NEW i \in held PROVE HoldSeries(load[i], hold)[y] \in Int
    <3>1. HoldSeries(load[i], hold) \in [1 .. exit -> Int]
      BY SeriesOfALoad
    <3>. QED  BY <3>1
  <2>2. Integral(f, held) /\ DOMAIN f = held
    BY <2>1 DEF Integral
  <2>3. Truncated(load, held, hold)[y] = SumFunction(f)
    BY DEF Truncated
  <2>. HIDE DEF f
  <2>4. SumOf(f, held) \in Int
    BY <1>2, <2>2, SumOfAdds
  <2>. QED  BY <2>2, <2>3, <2>4 DEF SumFunction, SumOf
<1>4. Truncated(load, held, hold) = [y \in 1 .. exit |-> Truncated(load, held, hold)[y]]
  BY DEF Truncated
<1>. HIDE DEF exit
<1>. QED  BY <1>1, <1>3, <1>4 DEF exit

\* What was submitted, and what the search made of it.
Searched(load, m, eligible, locked, winner) ==
    /\ load \in Loads /\ m \in Asks /\ eligible \in Masks(load) /\ locked \in Masks(load)
    /\ winner \in [1 .. Cardinality(Held(eligible)) -> BOOLEAN]

\* The fields of its record, by where they come from: the totals from the
\* worker's selection, the holdings from the server's candidates.
RecordOf(s, load, m, eligible, locked, selection) ==
    LET held == Held(selection)
        t    == Aggregate(load, held, m.hold)
        a    == s.aggregates
        rows == FlatNonzero(eligible)
        kept == FlatNonzero(selection)
        shares  == HeldShares(load, held, t)
        largest == Largest(shares)
    IN  /\ s.mandate = m
        /\ s.ids = [k \in DOMAIN kept |-> load[kept[k]].id]
        /\ s.holdings = [k \in DOMAIN rows |->
              Holding(load, m, rows[k], selection[rows[k]], locked[rows[k]])]
        /\ a.count = Cardinality(held) /\ a.capacity = Column(load, held, "capacity")
        /\ a.capex_m = Millions(Column(load, held, "capex"))
        /\ a.equity_m = Millions(EquityOf(load, held))
        /\ a.solar = t.solar /\ a.gearing = t.gearing /\ a.merchant = t.merchant
        /\ a.largestShare = IF largest = Undefined THEN 0 ELSE shares[largest]
        /\ a.irr = Irr(Truncated(load, held, m.hold))
        /\ a.moic = Moic(Truncated(load, held, m.hold))
        /\ a.cover = WorstCover(load, held)
        /\ a.fcfe_m = Millions(Total(Thirty(load, held)))
        /\ s.countries = shares
        /\ s.thirty_m = [y \in 1 .. Years |-> Millions(Thirty(load, held)[y])]
        /\ s.truncated_m = [y \in 1 .. ExitYear(m.hold) |->
              Millions(Truncated(load, held, m.hold)[y])]

Stored(s, load, m, eligible, locked, winner, selection) ==
    /\ Searched(load, m, eligible, locked, winner)
    /\ selection = Scatter(eligible, winner)
    /\ RecordOf(s, load, m, eligible, locked, selection)

\* A run that succeeds has such a record, of what was pending.
LEMMA RecordOfARun ==
    ASSUME PortfolioInv, outcome # None
    PROVE  \E winner :
              Stored(Succeeded(outcome), pending.candidates, pending.mandate, pending.eligible,
                     pending.locked, winner, Scatter(pending.eligible, winner))
<1>. DEFINE load == pending.candidates
            m == pending.mandate
            eligible == pending.eligible
            locked == pending.locked
            r == outcome.result
            s == Succeeded(outcome)
<1>1. /\ RunOK(pending) /\ OutcomeOf(pending, outcome)
  BY DEF PortfolioInv
<1>2. PICK winner \in Winners(pending) : r = BuildResult(load, m, eligible, winner)
  BY <1>1 DEF OutcomeOf
<1>3. outcome.eligible = eligible /\ outcome.locked = locked
  BY <1>1 DEF OutcomeOf
<1>4. Searched(load, m, eligible, locked, winner)
  BY <1>1 DEF Searched, RunOK, Winners
<1>. DEFINE selection == Scatter(eligible, winner)
            held == Held(selection)
            t == Aggregate(load, held, m.hold)
            kept == FlatNonzero(selection)
            shares == HeldShares(load, held, t)
            largest == Largest(shares)
<1>5. /\ r.ids = [k \in DOMAIN kept |-> load[kept[k]].id]
      /\ r.selection = selection /\ r.totals = t
      /\ r.thirty = Thirty(load, held)
      /\ r.truncated = Truncated(load, held, m.hold)
      /\ r.irr = Irr(Truncated(load, held, m.hold))
      /\ r.moic = Moic(Truncated(load, held, m.hold))
      /\ r.cover = WorstCover(load, held)
      /\ r.shares = shares
      /\ r.largestShare = IF largest = Undefined THEN 0 ELSE shares[largest]
  BY <1>2 DEF BuildResult, Pooled, Thirty, Truncated
<1>6. /\ t.count = Cardinality(held) /\ t.capacity = Column(load, held, "capacity")
      /\ t.capex = Column(load, held, "capex") /\ t.equity = EquityOf(load, held)
  BY DEF Aggregate
<1>. HIDE DEF t, selection, held, shares, largest, kept
<1>7. /\ s.mandate = m /\ s.ids = r.ids
      /\ s.holdings = HoldingRecords(outcome)
      /\ s.countries = r.shares
      /\ s.thirty_m = [y \in DOMAIN r.thirty |-> Millions(r.thirty[y])]
      /\ s.truncated_m = [y \in DOMAIN r.truncated |-> Millions(r.truncated[y])]
  BY DEF Succeeded
<1>8. /\ s.aggregates.count = r.totals.count /\ s.aggregates.capacity = r.totals.capacity
      /\ s.aggregates.capex_m = Millions(r.totals.capex)
      /\ s.aggregates.equity_m = Millions(r.totals.equity)
      /\ s.aggregates.solar = r.totals.solar /\ s.aggregates.gearing = r.totals.gearing
      /\ s.aggregates.merchant = r.totals.merchant
      /\ s.aggregates.largestShare = r.largestShare
      /\ s.aggregates.irr = r.irr /\ s.aggregates.moic = r.moic
      /\ s.aggregates.cover = r.cover
      /\ s.aggregates.fcfe_m = Millions(Total(r.thirty))
  BY DEF Succeeded
<1>9. HoldingRecords(outcome) =
        [k \in DOMAIN FlatNonzero(eligible) |->
            Holding(load, m, FlatNonzero(eligible)[k], r.selection[FlatNonzero(eligible)[k]],
                    locked[FlatNonzero(eligible)[k]])]
  BY <1>3 DEF HoldingRecords
<1>10. DOMAIN r.thirty = 1 .. Years /\ DOMAIN r.truncated = 1 .. ExitYear(m.hold)
  BY <1>5 DEF Thirty, Truncated
<1>. HIDE DEF s, r, load, m, eligible, locked
<1>11. RecordOf(s, load, m, eligible, locked, selection)
  BY <1>5, <1>6, <1>7, <1>8, <1>9, <1>10, Zenon DEF RecordOf, t, held, kept, shares, largest
<1>12. Stored(s, load, m, eligible, locked, winner, selection)
  BY <1>4, <1>11 DEF Stored, selection
<1>. QED  BY <1>12 DEF load, m, eligible, locked, selection, s

\* The places of the holdings that carry the flag.
FlaggedPlaces(s) == {k \in DOMAIN s.holdings : s.holdings[k].selected}

\* The holdings of a record are the candidates, by their places, and what is
\* flagged is what is held.
LEMMA HoldingsOfARecord ==
    ASSUME NEW s, NEW load, NEW m, NEW eligible, NEW locked, NEW winner, NEW selection,
           Stored(s, load, m, eligible, locked, winner, selection),
           NEW rows, rows = FlatNonzero(eligible)
    PROVE  /\ load \in Loads /\ m \in Asks /\ Len(load) \in Nat /\ DOMAIN load = 1 .. Len(load)
           /\ Held(selection) \in SUBSET DOMAIN load /\ IsFiniteSet(Held(selection))
           /\ DOMAIN s.holdings = DOMAIN rows
           /\ DOMAIN rows = 1 .. Cardinality(Held(eligible))
           /\ Cardinality(Held(eligible)) \in Nat
           /\ \A k \in DOMAIN rows :
                /\ rows[k] \in Held(eligible) /\ rows[k] \in DOMAIN load
                /\ s.holdings[k] = Holding(load, m, rows[k], selection[rows[k]], locked[rows[k]])
                /\ s.holdings[k].selected = selection[rows[k]]
           /\ \A j, k \in DOMAIN rows : j < k => rows[j] < rows[k]
           /\ Joins(Len(load), eligible, winner, selection, rows, FlaggedPlaces(s))
<1>. DEFINE n == Len(load)
            N == Cardinality(Held(eligible))
<1>1. /\ load \in Loads /\ m \in Asks /\ eligible \in Masks(load)
      /\ winner \in [1 .. N -> BOOLEAN] /\ selection = Scatter(eligible, winner)
  BY DEF Stored, Searched
<1>2. n \in Nat /\ DOMAIN load = 1 .. n
  BY <1>1, LoadsAreOfPlants
<1>3. eligible \in [1 .. n -> BOOLEAN] /\ DOMAIN eligible = 1 .. n
  BY <1>1 DEF Masks
<1>4. /\ N \in Nat /\ DOMAIN rows = 1 .. N /\ Enumerates(rows, N, Held(eligible))
  BY <1>2, <1>3, RowsOfAMask
<1>5. Held(eligible) \in SUBSET DOMAIN load
  BY <1>2, <1>3 DEF Held
<1>6. Held(selection) \in SUBSET Held(eligible)
  <2>1. Joins(n, eligible, winner, selection, rows, Kept(eligible, selection))
    BY <1>1, <1>2, <1>3 DEF Joins
  <2>. QED  BY <2>1, CandidatesByPosition
<1>7. Held(selection) \in SUBSET DOMAIN load /\ IsFiniteSet(Held(selection))
  BY <1>1, <1>5, <1>6, PlantsOfALoad
<1>8. s.holdings = [k \in DOMAIN rows |->
          Holding(load, m, rows[k], selection[rows[k]], locked[rows[k]])]
  BY DEF Stored, RecordOf
<1>9. ASSUME NEW k \in DOMAIN rows
      PROVE  /\ rows[k] \in Held(eligible) /\ rows[k] \in DOMAIN load
             /\ s.holdings[k] = Holding(load, m, rows[k], selection[rows[k]], locked[rows[k]])
             /\ s.holdings[k].selected = selection[rows[k]]
  <2>1. rows[k] \in Held(eligible)
    BY <1>4 DEF Enumerates
  <2>2. s.holdings[k] = Holding(load, m, rows[k], selection[rows[k]], locked[rows[k]])
    BY <1>8
  <2>3. s.holdings[k].selected = selection[rows[k]]
    BY <2>2 DEF Holding
  <2>. QED  BY <1>5, <2>1, <2>2, <2>3
<1>10. \A j, k \in DOMAIN rows : j < k => rows[j] < rows[k]
  BY <1>4 DEF Enumerates
<1>11. DOMAIN s.holdings = DOMAIN rows
  BY <1>8
<1>12. Joins(n, eligible, winner, selection, rows, FlaggedPlaces(s))
  <2>1. FlaggedPlaces(s) = Kept(eligible, selection)
    BY <1>9, <1>11 DEF Kept, FlaggedPlaces
  <2>. QED  BY <1>1, <1>2, <1>3, <2>1 DEF Joins
<1>. HIDE DEF n, N
<1>. QED  BY <1>1, <1>2, <1>4, <1>7, <1>9, <1>10, <1>11, <1>12 DEF n, N

\* The field of a holding is that of the plant in its place.
LEMMA FieldsOfAHolding ==
    ASSUME NEW load, NEW m, NEW i, NEW selected, NEW locked,
           NEW h, h = Holding(load, m, i, selected, locked)
    PROVE  /\ h.id = load[i].id /\ h.country = load[i].country /\ h.capacity = load[i].capacity
           /\ h.capex_m = Millions(load[i].capex) /\ h.debt_m = Millions(load[i].debt)
           /\ h.equity_m = Millions(Equity(load[i])) /\ h.fcfe_m = Millions(Total(load[i].fcfe))
           /\ h.lcoe = Lcoe(load[i]) /\ h.cover = load[i].cover
  BY DEF Holding

\* The amounts of what is held are whole millions, and so are their sums.
LEMMA AmountsOfASelection ==
    ASSUME NEW load \in Loads, NEW held \in SUBSET DOMAIN load
    PROVE  /\ \A i \in held :
                /\ load[i].capex \in Int /\ load[i].capex % Million = 0
                /\ Equity(load[i]) \in Int /\ Equity(load[i]) % Million = 0
                /\ Total(load[i].fcfe) = SumOf(load[i].fcfe, 1 .. Years)
                /\ Total(load[i].fcfe) \in Int /\ Total(load[i].fcfe) % Million = 0
           /\ \A y \in 1 .. Years :
                /\ Thirty(load, held)[y] \in Int /\ Thirty(load, held)[y] % Million = 0
                /\ Thirty(load, held)[y] = SumOf([i \in held |-> load[i].fcfe[y]], held)
           /\ DOMAIN Thirty(load, held) = 1 .. Years
<1>0. Years \in Nat /\ Million \in Nat \ {0} /\ IsFiniteSet(1 .. Years)
  <2>1. Years \in Nat
    BY ReturnsConstants, Zenon
  <2>. QED  BY <2>1, AmountsAreInMillions, FS_Interval
<1>1. ASSUME NEW i \in held
      PROVE  /\ load[i].capex \in Int /\ load[i].capex % Million = 0
             /\ load[i].debt \in Int /\ load[i].debt % Million = 0
             /\ load[i].fcfe \in [1 .. Years -> Int]
             /\ \A y \in 1 .. Years : load[i].fcfe[y] % Million = 0
  BY LoadsAreOfPlants, AmountsAreInMillions
<1>2. ASSUME NEW i \in held
      PROVE  Equity(load[i]) \in Int /\ Equity(load[i]) % Million = 0
  <2>. DEFINE a == load[i].capex
              b == load[i].debt
              q == a \div Million
              p == b \div Million
  <2>1. a \in Int /\ a % Million = 0 /\ b \in Int /\ b % Million = 0
    BY <1>1
  <2>2. Equity(load[i]) = a - b
    BY DEF Equity
  <2>. HIDE DEF a, b
  <2>3. a = Million * q /\ b = Million * p /\ q \in Int /\ p \in Int
    BY <1>0, <2>1, DivExact
  <2>. HIDE DEF q, p
  <2>4. a - b = Million * (q - p) /\ q - p \in Int
    BY <1>0, <2>3
  <2>5. (Million * (q - p)) % Million = 0
    BY <1>0, <2>4, DivExact
  <2>. QED  BY <2>1, <2>2, <2>4, <2>5
<1>3. ASSUME NEW i \in held
      PROVE  /\ Total(load[i].fcfe) = SumOf(load[i].fcfe, 1 .. Years)
             /\ Total(load[i].fcfe) \in Int /\ Total(load[i].fcfe) % Million = 0
  <2>. DEFINE f == load[i].fcfe
              g == [y \in 1 .. Years |-> Millions(f[y])]
  <2>1. f \in [1 .. Years -> Int] /\ \A y \in 1 .. Years : f[y] % Million = 0
    BY <1>1
  <2>. HIDE DEF f
  <2>2. Total(f) = SumOf(f, 1 .. Years)
    BY <2>1 DEF Total, SumFunction, SumOf
  <2>3. \A y \in 1 .. Years : f[y] \in Int /\ f[y] % Million = 0 /\ g[y] = Millions(f[y])
    BY <2>1
  <2>. HIDE DEF g
  <2>4. SumOf(f, 1 .. Years) \in Int /\ SumOf(f, 1 .. Years) % Million = 0
    BY <1>0, <2>3, MillionsAddUp
  <2>. QED  BY <2>2, <2>4 DEF f
<1>4. IsFiniteSet(held)
  BY PlantsOfALoad
<1>5. ASSUME NEW y \in 1 .. Years
      PROVE  /\ Thirty(load, held)[y] \in Int /\ Thirty(load, held)[y] % Million = 0
             /\ Thirty(load, held)[y] = SumOf([i \in held |-> load[i].fcfe[y]], held)
  <2>. DEFINE f == [i \in held |-> load[i].fcfe[y]]
              g == [i \in held |-> Millions(f[i])]
  <2>1. \A i \in held : f[i] \in Int /\ f[i] % Million = 0 /\ g[i] = Millions(f[i])
    <3>1. ASSUME NEW i \in held PROVE f[i] \in Int /\ f[i] % Million = 0
      BY <1>1
    <3>. HIDE DEF f
    <3>. QED  BY <3>1
  <2>2. Thirty(load, held)[y] = SumFunction(f) /\ DOMAIN f = held
    BY DEF Thirty
  <2>. HIDE DEF f, g
  <2>3. SumOf(f, held) \in Int /\ SumOf(f, held) % Million = 0
    BY <1>4, <2>1, MillionsAddUp
  <2>4. Thirty(load, held)[y] = SumOf(f, held)
    BY <2>2 DEF SumFunction, SumOf
  <2>. QED  BY <2>3, <2>4 DEF f
<1>6. DOMAIN Thirty(load, held) = 1 .. Years
  BY DEF Thirty
<1>. QED  BY <1>1, <1>2, <1>3, <1>5, <1>6

\* The cash flow of a portfolio is that of its plants, by years or by plants.
LEMMA YearsAndPlants ==
    ASSUME NEW load \in Loads, NEW held \in SUBSET DOMAIN load
    PROVE  /\ Total(Thirty(load, held)) = SumOf(Thirty(load, held), 1 .. Years)
           /\ Total(Thirty(load, held))
                = SumOf([i \in held |-> Total(load[i].fcfe)], held)
<1>. DEFINE f == [i \in held |-> load[i].fcfe]
            T == 1 .. Years
            byYear == [y \in T |-> SumOf([i \in held |-> f[i][y]], held)]
            byPlant == [i \in held |-> SumOf(f[i], T)]
            totals == [i \in held |-> Total(load[i].fcfe)]
            thirty == Thirty(load, held)
<1>1. IsFiniteSet(held)
  BY PlantsOfALoad
<1>2. Years \in Nat
  BY ReturnsConstants, Zenon
<1>3. IsFiniteSet(T)
  BY <1>2, FS_Interval
<1>4. \A i \in held : f[i] \in [T -> Int]
  BY LoadsAreOfPlants
<1>5. \A i \in held : totals[i] = byPlant[i]
  BY AmountsOfASelection
<1>6. ASSUME NEW y \in T PROVE thirty[y] = byYear[y]
  <2>1. thirty[y] = SumOf([i \in held |-> load[i].fcfe[y]], held)
    BY AmountsOfASelection
  <2>2. [i \in held |-> load[i].fcfe[y]] = [i \in held |-> f[i][y]]
    OBVIOUS
  <2>. HIDE DEF f, thirty
  <2>. QED  BY <2>1, <2>2
<1>7. DOMAIN thirty = T /\ Integral(thirty, T)
  BY AmountsOfASelection DEF Integral
<1>8. Total(thirty) = SumOf(thirty, T)
  <2>. HIDE DEF thirty, T
  <2>. QED  BY <1>7 DEF Total, SumFunction, SumOf
<1>9. \A i \in held : Integral(f[i], T)
  BY <1>4 DEF Integral
<1>. HIDE DEF f, T, thirty, totals
<1>10. SumOf(byPlant, held) = SumOf(byYear, T)
  BY <1>1, <1>3, <1>9, SumsSwap
<1>11. Integral(byPlant, held)
  BY <1>3, <1>9, SumOfAdds DEF Integral
<1>12. \A y \in T : byYear[y] = thirty[y]
  BY <1>6
<1>. HIDE DEF byPlant, byYear
<1>13. SumOf(totals, held) = SumOf(byPlant, held)
  BY <1>1, <1>5, <1>11, SumOfTheSame
<1>14. SumOf(byYear, T) = SumOf(thirty, T)
  BY <1>3, <1>7, <1>12, SumOfTheSame
<1>. QED  BY <1>8, <1>10, <1>13, <1>14 DEF thirty, totals, T

\* What is summed over the flagged holdings is the worker's total.
LEMMA TotalsOfTheHoldings ==
    ASSUME NEW s, NEW load, NEW m, NEW eligible, NEW locked, NEW winner, NEW selection,
           Stored(s, load, m, eligible, locked, winner, selection),
           NEW K, K = FlaggedPlaces(s),
           NEW sum, sum = [field \in {"capacity", "capex_m", "equity_m", "fcfe_m"} |->
                             SumFunction([k \in K |-> s.holdings[k][field]])]
    PROVE  /\ s.aggregates.count = Cardinality(K)
           /\ s.aggregates.capacity = sum["capacity"]
           /\ s.aggregates.capex_m = sum["capex_m"]
           /\ s.aggregates.equity_m = sum["equity_m"]
           /\ s.aggregates.fcfe_m = sum["fcfe_m"]
<1>. DEFINE held == Held(selection)
            rows == FlatNonzero(eligible)
            a == s.aggregates
            column(field) == [k \in K |-> s.holdings[k][field]]
<1>1. /\ load \in Loads /\ held \in SUBSET DOMAIN load /\ IsFiniteSet(held)
      /\ Joins(Len(load), eligible, winner, selection, rows, K)
  BY HoldingsOfARecord
<1>2. ASSUME NEW k \in K
      PROVE  /\ s.holdings[k].capacity = load[rows[k]].capacity
             /\ s.holdings[k].capex_m = Millions(load[rows[k]].capex)
             /\ s.holdings[k].equity_m = Millions(Equity(load[rows[k]]))
             /\ s.holdings[k].fcfe_m = Millions(Total(load[rows[k]].fcfe))
  <2>1. k \in DOMAIN rows
    BY <1>1, CandidatesByPosition
  <2>2. s.holdings[k] = Holding(load, m, rows[k], selection[rows[k]], locked[rows[k]])
    BY <2>1, HoldingsOfARecord
  <2>. QED  BY <2>2, FieldsOfAHolding
<1>3. IsFiniteSet(K) /\ Matches(rows, K, held)
  BY <1>1, CandidatesByPosition
<1>4. Cardinality(held) = Cardinality(K)
  BY <1>3, MatchedSets
<1>5. /\ a.count = Cardinality(held) /\ a.capacity = Column(load, held, "capacity")
      /\ a.capex_m = Millions(Column(load, held, "capex"))
      /\ a.equity_m = Millions(EquityOf(load, held))
      /\ a.fcfe_m = Millions(Total(Thirty(load, held)))
  BY DEF Stored, RecordOf
<1>6. /\ sum["capacity"] = SumFunction(column("capacity"))
      /\ sum["capex_m"] = SumFunction(column("capex_m"))
      /\ sum["equity_m"] = SumFunction(column("equity_m"))
      /\ sum["fcfe_m"] = SumFunction(column("fcfe_m"))
  OBVIOUS
<1>7. \A field : DOMAIN column(field) = K /\ \A k \in K : column(field)[k] = s.holdings[k][field]
  OBVIOUS
<1>. HIDE DEF held, rows, a, column
<1>8. ASSUME NEW f, Integral(f, held), NEW field,
              \A k \in K : column(field)[k] = f[rows[k]]
       PROVE  SumFunction(column(field)) = SumOf(f, held)
  <2>. DEFINE g == column(field)
  <2>1. DOMAIN g = K /\ \A k \in K : g[k] = f[rows[k]]
    BY <1>7, <1>8
  <2>. HIDE DEF g
  <2>2. SumFunction(g) = SumOf(g, K)
    BY <2>1 DEF SumFunction, SumOf
  <2>3. SumOf(g, K) = SumOf(f, held)
    BY <1>3, <1>8, <2>1, SumsCorrespond
  <2>. QED  BY <2>2, <2>3 DEF g
<1>9. a.capacity = sum["capacity"]
  <2>. DEFINE f == [i \in held |-> load[i]["capacity"]]
  <2>1. Integral(f, held)
    BY <1>1, PlantsOfALoad DEF PlantOK, Integral
  <2>2. \A k \in K : rows[k] \in held
    BY <1>1, CandidatesByPosition DEF rows, held
  <2>3. \A k \in K : column("capacity")[k] = f[rows[k]]
    BY <1>2, <1>7, <2>2
  <2>4. Column(load, held, "capacity") = SumOf(f, held)
    BY ColumnIsASum
  <2>. HIDE DEF f
  <2>5. SumFunction(column("capacity")) = SumOf(f, held)
    BY <1>8, <2>1, <2>3
  <2>. QED  BY <1>5, <1>6, <2>4, <2>5
<1>10. \A k \in K : rows[k] \in held
  BY <1>1, CandidatesByPosition DEF rows, held
<1>11. a.capex_m = sum["capex_m"]
  <2>. DEFINE f == [i \in held |-> load[i]["capex"]]
              g == [i \in held |-> Millions(load[i]["capex"])]
  <2>1. \A i \in held : f[i] \in Int /\ f[i] % Million = 0 /\ g[i] = Millions(f[i])
    BY <1>1, AmountsOfASelection
  <2>2. \A k \in K : column("capex_m")[k] = g[rows[k]]
    BY <1>2, <1>7, <1>10
  <2>3. Column(load, held, "capex") = SumOf(f, held)
    BY ColumnIsASum
  <2>. HIDE DEF f, g
  <2>4. Integral(g, held) /\ SumOf(g, held) = Millions(SumOf(f, held))
    BY <1>1, <2>1, MillionsAddUp
  <2>5. SumFunction(column("capex_m")) = SumOf(g, held)
    BY <1>8, <2>2, <2>4
  <2>. QED  BY <1>5, <1>6, <2>3, <2>4, <2>5
<1>12. a.equity_m = sum["equity_m"]
  <2>. DEFINE f == [i \in held |-> Equity(load[i])]
              g == [i \in held |-> Millions(Equity(load[i]))]
  <2>1. \A i \in held : f[i] \in Int /\ f[i] % Million = 0 /\ g[i] = Millions(f[i])
    BY <1>1, AmountsOfASelection
  <2>2. \A k \in K : column("equity_m")[k] = g[rows[k]]
    BY <1>2, <1>7, <1>10
  <2>3. EquityOf(load, held) = SumOf(f, held)
    BY EquityIsASum
  <2>. HIDE DEF f, g
  <2>4. Integral(g, held) /\ SumOf(g, held) = Millions(SumOf(f, held))
    BY <1>1, <2>1, MillionsAddUp
  <2>5. SumFunction(column("equity_m")) = SumOf(g, held)
    BY <1>8, <2>2, <2>4
  <2>. QED  BY <1>5, <1>6, <2>3, <2>4, <2>5
<1>13. a.fcfe_m = sum["fcfe_m"]
  <2>. DEFINE f == [i \in held |-> Total(load[i].fcfe)]
              g == [i \in held |-> Millions(Total(load[i].fcfe))]
  <2>1. \A i \in held : f[i] \in Int /\ f[i] % Million = 0 /\ g[i] = Millions(f[i])
    BY <1>1, AmountsOfASelection
  <2>2. \A k \in K : column("fcfe_m")[k] = g[rows[k]]
    BY <1>2, <1>7, <1>10
  <2>3. Total(Thirty(load, held)) = SumOf(f, held)
    BY <1>1, YearsAndPlants
  <2>. HIDE DEF f, g
  <2>4. Integral(g, held) /\ SumOf(g, held) = Millions(SumOf(f, held))
    BY <1>1, <2>1, MillionsAddUp
  <2>5. SumFunction(column("fcfe_m")) = SumOf(g, held)
    BY <1>8, <2>2, <2>4
  <2>. QED  BY <1>5, <1>6, <2>3, <2>4, <2>5
<1>. QED  BY <1>4, <1>5, <1>9, <1>11, <1>12, <1>13 DEF a

\* The schedule of the thirty years, in millions, sums to the total in millions.
LEMMA ScheduleAddsUp ==
    ASSUME NEW load \in Loads, NEW held \in SUBSET DOMAIN load,
           NEW thirty_m, thirty_m = [y \in 1 .. Years |-> Millions(Thirty(load, held)[y])]
    PROVE  /\ Total(thirty_m) = Millions(Total(Thirty(load, held)))
           /\ thirty_m \in [1 .. Years -> Int]
<1>. DEFINE f == Thirty(load, held)
            T == 1 .. Years
<1>1. \A y \in T : f[y] \in Int /\ f[y] % Million = 0 /\ thirty_m[y] = Millions(f[y])
  BY AmountsOfASelection
<1>2. Total(f) = SumOf(f, T)
  BY YearsAndPlants
<1>3. IsFiniteSet(T) /\ DOMAIN thirty_m = T
  <2>1. Years \in Nat
    BY ReturnsConstants, Zenon
  <2>. QED  BY <2>1, FS_Interval
<1>. HIDE DEF f, T
<1>4. Integral(thirty_m, T) /\ SumOf(thirty_m, T) = Millions(SumOf(f, T))
  BY <1>1, <1>3, MillionsAddUp
<1>5. Total(thirty_m) = SumOf(thirty_m, T)
  BY <1>3 DEF Total, SumFunction, SumOf
<1>6. thirty_m = [y \in T |-> thirty_m[y]]
  BY DEF T
<1>7. thirty_m \in [T -> Int]
  BY <1>4, <1>6 DEF Integral
<1>. QED  BY <1>2, <1>4, <1>5, <1>7 DEF f, T

\* The flagged holdings are in the order of the ids.
LEMMA FlaggedOfARecord ==
    ASSUME NEW s, NEW load, NEW m, NEW eligible, NEW locked, NEW winner, NEW selection,
           Stored(s, load, m, eligible, locked, winner, selection)
    PROVE  /\ Cardinality(FlaggedPlaces(s)) \in Nat
           /\ DOMAIN Flagged(s.holdings) = 1 .. Cardinality(FlaggedPlaces(s))
           /\ \A j \in 1 .. Cardinality(FlaggedPlaces(s)) :
                 /\ InOrder(FlaggedPlaces(s))[j] \in FlaggedPlaces(s)
                 /\ Flagged(s.holdings)[j] = s.holdings[InOrder(FlaggedPlaces(s))[j]]
           /\ \A k \in FlaggedPlaces(s) : \E j \in 1 .. Cardinality(FlaggedPlaces(s)) :
                 InOrder(FlaggedPlaces(s))[j] = k
           /\ [j \in DOMAIN Flagged(s.holdings) |-> Flagged(s.holdings)[j].id] = s.ids
<1>. DEFINE K == FlaggedPlaces(s)
            flagged == Flagged(s.holdings)
            N == Cardinality(Held(eligible))
            rows == FlatNonzero(eligible)
            kept == FlatNonzero(selection)
            mask == [k \in DOMAIN s.holdings |-> s.holdings[k].selected]
<1>1. /\ N \in Nat /\ DOMAIN s.holdings = 1 .. N /\ DOMAIN rows = 1 .. N
      /\ Joins(Len(load), eligible, winner, selection, rows, K)
  BY HoldingsOfARecord
<1>2. DOMAIN mask = 1 .. N /\ Held(mask) = K
  BY <1>1 DEF Held, FlaggedPlaces
<1>3. /\ K \in SUBSET Int /\ IsFiniteSet(K) /\ Cardinality(K) \in Nat
      /\ FlatNonzero(mask) = InOrder(K)
      /\ DOMAIN InOrder(K) = 1 .. Cardinality(K) /\ Enumerates(InOrder(K), Cardinality(K), K)
  <2>. HIDE DEF mask, N
  <2>1. /\ Held(mask) \in SUBSET Int /\ IsFiniteSet(Held(mask))
        /\ FlatNonzero(mask) = InOrder(Held(mask))
    BY <1>1, <1>2, RowsOfAMask
  <2>2. K \in SUBSET Int /\ IsFiniteSet(K) /\ FlatNonzero(mask) = InOrder(K)
    BY <1>2, <2>1
  <2>. QED  BY <2>2, NumbersInOrder
<1>4. flagged = [j \in DOMAIN FlatNonzero(mask) |-> s.holdings[FlatNonzero(mask)[j]]]
  BY DEF Flagged
<1>. HIDE DEF mask
<1>5. /\ DOMAIN flagged = 1 .. Cardinality(K)
      /\ \A j \in 1 .. Cardinality(K) : flagged[j] = s.holdings[InOrder(K)[j]]
  BY <1>3, <1>4
<1>6. /\ \A j \in 1 .. Cardinality(K) : InOrder(K)[j] \in K
      /\ \A k \in K : \E j \in 1 .. Cardinality(K) : InOrder(K)[j] = k
  BY <1>3 DEF Enumerates
<1>7. /\ DOMAIN kept = 1 .. Cardinality(K)
      /\ \A j \in 1 .. Cardinality(K) : kept[j] = rows[InOrder(K)[j]]
  BY <1>1, CandidatesByPosition
<1>8. ASSUME NEW j \in 1 .. Cardinality(K) PROVE flagged[j].id = load[kept[j]].id
  <2>. DEFINE k == InOrder(K)[j]
  <2>1. k \in DOMAIN rows
    BY <1>1, <1>6, CandidatesByPosition
  <2>. HIDE DEF k
  <2>2. s.holdings[k] = Holding(load, m, rows[k], selection[rows[k]], locked[rows[k]])
    BY <2>1, HoldingsOfARecord
  <2>3. s.holdings[k].id = load[rows[k]].id
    BY <2>2, FieldsOfAHolding
  <2>. QED  BY <1>5, <1>7, <2>3 DEF k
<1>9. s.ids = [j \in DOMAIN kept |-> load[kept[j]].id]
  BY DEF Stored, RecordOf
<1>. HIDE DEF kept, rows, N
<1>10. [j \in DOMAIN flagged |-> flagged[j].id] = s.ids
  BY <1>5, <1>7, <1>8, <1>9
<1>. QED  BY <1>3, <1>5, <1>6, <1>10

\* The validators accept the record of a search among plants that generate.
LEMMA RecordIsStorable ==
    ASSUME NEW s, NEW load, NEW m, NEW eligible, NEW locked, NEW winner, NEW selection,
           Stored(s, load, m, eligible, locked, winner, selection),
           \A i \in Held(eligible) : Generates(load[i])
    PROVE  Storable(s)
<1>. DEFINE rows == FlatNonzero(eligible)
            held == Held(selection)
            a == s.aggregates
            flagged == Flagged(s.holdings)
            hold == m.hold
<1>1. /\ load \in Loads /\ m \in Asks
      /\ held \in SUBSET DOMAIN load /\ IsFiniteSet(held)
      /\ DOMAIN s.holdings = DOMAIN rows /\ DOMAIN rows = 1 .. Cardinality(Held(eligible))
      /\ Cardinality(Held(eligible)) \in Nat
  BY HoldingsOfARecord
<1>2. ASSUME NEW k \in DOMAIN rows
      PROVE  /\ rows[k] \in Held(eligible) /\ rows[k] \in DOMAIN load
             /\ s.holdings[k].id = load[rows[k]].id /\ s.holdings[k].lcoe = Lcoe(load[rows[k]])
             /\ s.holdings[k].debt_m = Millions(load[rows[k]].debt)
             /\ s.holdings[k].capex_m = Millions(load[rows[k]].capex)
  <2>1. /\ rows[k] \in Held(eligible) /\ rows[k] \in DOMAIN load
        /\ s.holdings[k] = Holding(load, m, rows[k], selection[rows[k]], locked[rows[k]])
    BY HoldingsOfARecord
  <2>. QED  BY <2>1, FieldsOfAHolding
<1>3. \A j, k \in DOMAIN rows : j < k => rows[j] < rows[k]
  BY HoldingsOfARecord
<1>4. ASSUME NEW k \in DOMAIN s.holdings
      PROVE  /\ s.holdings[k].lcoe # Undefined
             /\ s.holdings[k].debt_m <= s.holdings[k].capex_m
             /\ k > 1 => s.holdings[k - 1].id < s.holdings[k].id
  <2>. DEFINE i == rows[k]
  <2>1. /\ i \in Held(eligible) /\ i \in DOMAIN load
        /\ s.holdings[k].id = load[i].id /\ s.holdings[k].lcoe = Lcoe(load[i])
        /\ s.holdings[k].debt_m = Millions(load[i].debt)
        /\ s.holdings[k].capex_m = Millions(load[i].capex)
    BY <1>1, <1>2
  <2>2. Generates(load[i])
    BY <2>1
  <2>3. s.holdings[k].lcoe # Undefined
    BY <1>1, <2>1, <2>2, CostOfGeneration
  <2>4. /\ load[i].debt \in Int /\ load[i].capex \in Int /\ load[i].debt <= load[i].capex
        /\ Million \in Nat \ {0}
    BY <1>1, <2>1, LoadsAreOfPlants, AmountsAreInMillions
  <2>5. s.holdings[k].debt_m <= s.holdings[k].capex_m
    BY <2>1, <2>4, DivGrows DEF Millions
  <2>6. ASSUME k > 1 PROVE s.holdings[k - 1].id < s.holdings[k].id
    <3>1. k - 1 \in DOMAIN rows /\ k \in DOMAIN rows /\ k - 1 < k
      BY <1>1, <2>6
    <3>2. rows[k - 1] < i /\ rows[k - 1] \in DOMAIN load
      BY <1>2, <1>3, <3>1
    <3>3. load[rows[k - 1]].id < load[i].id
      BY <1>1, <2>1, <3>2, LoadsAreOfPlants
    <3>4. s.holdings[k - 1].id = load[rows[k - 1]].id
      BY <1>2, <3>1
    <3>. QED  BY <2>1, <3>3, <3>4
  <2>. QED  BY <2>3, <2>5, <2>6
<1>5. a.solar \in 0 .. 1000 /\ a.gearing \in 0 .. 1000 /\ a.merchant \in 0 .. 1000
  <2>. DEFINE t == Aggregate(load, held, hold)
  <2>1. a.solar = t.solar /\ a.gearing = t.gearing /\ a.merchant = t.merchant
    BY DEF Stored, RecordOf
  <2>2. t = Aggregate(load, held, hold)
    OBVIOUS
  <2>. HIDE DEF t, held, hold
  <2>3. load \in Loads /\ held \in SUBSET DOMAIN load
    BY <1>1
  <2>4. t.solar \in Thousandths
    BY <2>2, <2>3, SharesAreBounded
  <2>5. t.gearing \in Thousandths
    BY <2>2, <2>3, SharesAreBounded
  <2>6. t.merchant \in Thousandths
    BY <2>2, <2>3, SharesAreBounded
  <2>. QED  BY <2>1, <2>4, <2>5, <2>6 DEF Thousandths
<1>6. a.largestShare \in 0 .. 1000
  <2>. DEFINE t == Aggregate(load, held, hold)
              shares == HeldShares(load, held, t)
              top == Largest(shares)
              share == IF top = Undefined THEN 0 ELSE shares[top]
  <2>1. a.largestShare = share
    BY DEF Stored, RecordOf
  <2>2. /\ t.countries = CountryShares(load, held)
        /\ \A c \in Countries(load) : t.countries[c] <= 1000
    BY <1>1, SharesAreBounded
  <2>. HIDE DEF t
  <2>3. share \in Nat /\ (share <= 1000 <=> \A c \in Countries(load) : t.countries[c] <= 1000)
    <3>1. shares = HeldShares(load, held, t) /\ 1000 \in Nat
      OBVIOUS
    <3>. HIDE DEF shares
    <3>. QED  BY <1>1, <2>2, <3>1, LargestOfThoseHeld
  <2>. HIDE DEF share
  <2>. QED  BY <2>1, <2>2, <2>3
<1>7. Len(s.thirty_m) = Years
  <2>1. s.thirty_m = [y \in 1 .. Years |-> Millions(Thirty(load, held)[y])]
    BY DEF Stored, RecordOf
  <2>2. s.thirty_m \in [1 .. Years -> Int]
    BY <1>1, <2>1, ScheduleAddsUp
  <2>3. Years \in Nat
    BY ReturnsConstants, Zenon
  <2>. QED  BY <2>2, <2>3
<1>8. Len(s.truncated_m) = Smaller(s.mandate.hold, Years)
  <2>. DEFINE exit == ExitYear(hold)
  <2>1. /\ s.truncated_m = [y \in 1 .. exit |-> Millions(Truncated(load, held, hold)[y])]
        /\ s.mandate = m
    BY DEF Stored, RecordOf
  <2>2. exit = Smaller(s.mandate.hold, Years)
    BY <2>1 DEF ExitYear
  <2>3. hold \in Nat \ {0}
    BY <1>1, AsksAreBounded
  <2>4. exit \in Nat
    <3>1. Years \in Nat \ {0}
      BY ReturnsConstants, Zenon
    <3>. QED  BY <2>3, <3>1 DEF ExitYear, Smaller
  <2>. HIDE DEF exit
  <2>5. Len(s.truncated_m) = exit
    BY <2>1, <2>4
  <2>. QED  BY <2>2, <2>5
<1>9. [j \in DOMAIN flagged |-> flagged[j].id] = s.ids
  BY FlaggedOfARecord
<1>. HIDE DEF flagged, a, rows, held, hold
<1>10. \A x \in {"solar", "gearing", "merchant", "largestShare"} : a[x] \in 0 .. 1000
  BY <1>5, <1>6
<1>. QED  BY <1>4, <1>7, <1>8, <1>9, <1>10 DEF Storable, flagged, a

\* The tile of the thirty years is the sum of their schedule.
LEMMA TotalOfTheSchedule ==
    ASSUME NEW s, NEW load, NEW m, NEW eligible, NEW locked, NEW winner, NEW selection,
           Stored(s, load, m, eligible, locked, winner, selection)
    PROVE  s.aggregates.fcfe_m = Total(s.thirty_m) /\ s.thirty_m \in [1 .. Years -> Int]
<1>. DEFINE held == Held(selection)
<1>1. load \in Loads /\ held \in SUBSET DOMAIN load
  BY HoldingsOfARecord
<1>2. /\ s.thirty_m = [y \in 1 .. Years |-> Millions(Thirty(load, held)[y])]
      /\ s.aggregates.fcfe_m = Millions(Total(Thirty(load, held)))
  BY DEF Stored, RecordOf
<1>. QED  BY <1>1, <1>2, ScheduleAddsUp

\* A pooled series with a rate of return has a multiple.
LEMMA RateOfARecord ==
    ASSUME NEW s, NEW load, NEW m, NEW eligible, NEW locked, NEW winner, NEW selection,
           Stored(s, load, m, eligible, locked, winner, selection)
    PROVE  s.aggregates.irr # Undefined => s.aggregates.moic # Undefined
<1>. DEFINE held == Held(selection)
            pooled == Truncated(load, held, m.hold)
<1>1. load \in Loads /\ m \in Asks /\ held \in SUBSET DOMAIN load
  BY HoldingsOfARecord
<1>2. m.hold \in Nat \ {0}
  BY <1>1, AsksAreBounded
<1>3. ExitYear(m.hold) \in Nat /\ pooled \in [1 .. ExitYear(m.hold) -> Int]
  BY <1>1, <1>2, TruncatedYears
<1>4. s.aggregates.irr = Irr(pooled) /\ s.aggregates.moic = Moic(pooled)
  BY DEF Stored, RecordOf
<1>. HIDE DEF pooled
<1>. QED  BY <1>3, <1>4, RateHasAMultiple

\* A record is not the record of a failure.
LEMMA SuccessIsNoFailure == Succeeded(outcome) # Failed
<1>1. "mandate" \in DOMAIN Succeeded(outcome) /\ "mandate" \notin DOMAIN Failed
  BY DEF Succeeded, Failed
<1>. QED  BY <1>1

\* Whatever the loads, the mandate and the search, and whatever is loaded in
\* between: a search among plants that generate leaves a record that the
\* validators accept, and its flagged holdings, which the server made of its
\* candidates, add up to the totals that the worker made of its selection
\* (records.py, PendingRun.candidates; result.py, totals; results.py,
\* RunRecord).
THEOREM HoldingsSumToTotals == PortfolioSpec => []HoldingsAddUp
<1>1. ASSUME PortfolioInv PROVE HoldingsAddUp
  <2>. SUFFICES ASSUME record # None,
                       \A i \in Held(pending.eligible) : Generates(pending.candidates[i])
                PROVE  HoldingsAddUp
    BY DEF HoldingsAddUp
  <2>. DEFINE s == Succeeded(outcome)
              K == FlaggedPlaces(s)
              sum(field) == SumFunction([k \in K |-> s.holdings[k][field]])
              sums == [field \in {"capacity", "capex_m", "equity_m", "fcfe_m"} |-> sum(field)]
              a == s.aggregates
  <2>1. outcome # None /\ record = IF Storable(s) THEN s ELSE Failed
    BY <1>1 DEF PortfolioInv
  <2>2. s # Failed
    BY SuccessIsNoFailure
  <2>3. PICK winner :
          Stored(s, pending.candidates, pending.mandate, pending.eligible,
                 pending.locked, winner, Scatter(pending.eligible, winner))
    BY <1>1, <2>1, RecordOfARun
  <2>. HIDE DEF s
  <2>4. Storable(s)
    BY <2>3, RecordIsStorable
  <2>5. record = s /\ record # Failed
    BY <2>1, <2>2, <2>4
  <2>6. /\ a.count = Cardinality(K) /\ a.capacity = sums["capacity"]
        /\ a.capex_m = sums["capex_m"] /\ a.equity_m = sums["equity_m"]
        /\ a.fcfe_m = sums["fcfe_m"]
    <3>1. sums = [field \in {"capacity", "capex_m", "equity_m", "fcfe_m"} |->
                    SumFunction([k \in K |-> s.holdings[k][field]])]
      OBVIOUS
    <3>2. K = FlaggedPlaces(s)
      OBVIOUS
    <3>. HIDE DEF sums, K
    <3>. QED  BY <2>3, <3>1, <3>2, TotalsOfTheHoldings
  <2>7. a.fcfe_m = Total(s.thirty_m)
    BY <2>3, TotalOfTheSchedule
  <2>8. a.irr # Undefined => a.moic # Undefined
    BY <2>3, RateOfARecord
  <2>9. /\ a.capacity = sum("capacity") /\ a.capex_m = sum("capex_m")
        /\ a.equity_m = sum("equity_m") /\ a.fcfe_m = sum("fcfe_m")
    <3>. HIDE DEF sum, K, a
    <3>. QED  BY <2>6
  <2>10. K = {k \in DOMAIN record.holdings : record.holdings[k].selected}
    BY <2>5 DEF FlaggedPlaces
  <2>. QED  BY <2>5, <2>6, <2>7, <2>8, <2>9, <2>10, Zenon DEF HoldingsAddUp
<1>. QED  BY <1>1, PortfolioInvAlways, PTL

-----------------------------------------------------------------------------
(* The documents of a record (RunDocuments).                               *)

\* The rows of the documents are the plants that are held.
LEMMA SelectedOfARecord ==
    ASSUME NEW s, NEW load, NEW m, NEW eligible, NEW locked, NEW winner, NEW selection,
           Stored(s, load, m, eligible, locked, winner, selection),
           NEW rows, rows = Selected(s)
    PROVE  /\ s.aggregates.count \in Nat /\ DOMAIN rows = 1 .. s.aggregates.count
           /\ rows = [j \in 1 .. s.aggregates.count |-> rows[j]]
           /\ \A j \in DOMAIN rows : \E i \in Held(selection) :
                 /\ rows[j].country = load[i].country /\ rows[j].cover = load[i].cover
                 /\ rows[j].capacity = load[i].capacity
           /\ \A i \in Held(selection) : \E j \in DOMAIN rows :
                 rows[j].country = load[i].country /\ rows[j].cover = load[i].cover
<1>. DEFINE K == FlaggedPlaces(s)
            N == Cardinality(K)
            places == FlatNonzero(eligible)
            held == Held(selection)
<1>1. /\ N \in Nat /\ DOMAIN rows = 1 .. N
      /\ \A j \in 1 .. N : InOrder(K)[j] \in K
      /\ \A j \in 1 .. N : rows[j] = s.holdings[InOrder(K)[j]]
      /\ \A k \in K : \E j \in 1 .. N : InOrder(K)[j] = k
  <2>1. rows = Flagged(s.holdings)
    BY DEF Selected
  <2>2. N \in Nat /\ DOMAIN rows = 1 .. N
    BY <2>1, FlaggedOfARecord
  <2>3. \A j \in 1 .. N : InOrder(K)[j] \in K
    BY FlaggedOfARecord
  <2>5. \A j \in 1 .. N : rows[j] = s.holdings[InOrder(K)[j]]
    <3>1. \A j \in 1 .. N : Flagged(s.holdings)[j] = s.holdings[InOrder(K)[j]]
      BY FlaggedOfARecord
    <3>. QED  BY <2>1, <3>1, Zenon
  <2>4. \A k \in K : \E j \in 1 .. N : InOrder(K)[j] = k
    BY <2>1, FlaggedOfARecord
  <2>. QED  BY <2>2, <2>3, <2>4, <2>5
<1>2. Joins(Len(load), eligible, winner, selection, places, K)
  BY HoldingsOfARecord
<1>3. Matches(places, K, held)
  BY <1>2, CandidatesByPosition
<1>4. s.aggregates.count = N
  <2>1. s.aggregates.count = Cardinality(held)
    BY DEF Stored, RecordOf
  <2>2. IsFiniteSet(K)
    BY <1>2, CandidatesByPosition
  <2>. QED  BY <1>3, <2>1, <2>2, MatchedSets
<1>5. ASSUME NEW k \in K
      PROVE  /\ s.holdings[k].country = load[places[k]].country
             /\ s.holdings[k].cover = load[places[k]].cover
             /\ s.holdings[k].capacity = load[places[k]].capacity
  <2>1. k \in DOMAIN places
    BY <1>2, CandidatesByPosition
  <2>2. s.holdings[k] = Holding(load, m, places[k], selection[places[k]], locked[places[k]])
    BY <2>1, HoldingsOfARecord
  <2>. QED  BY <2>2, FieldsOfAHolding
<1>6. rows = [j \in 1 .. N |-> rows[j]]
  <2>1. rows = [n \in DOMAIN rows |-> rows[n]]
    BY DEF Selected, Flagged
  <2>. QED  BY <1>1, <2>1
<1>. HIDE DEF K, N, places, held
<1>7. ASSUME NEW j \in DOMAIN rows
      PROVE  \E i \in held : /\ rows[j].country = load[i].country /\ rows[j].cover = load[i].cover
                             /\ rows[j].capacity = load[i].capacity
  <2>. DEFINE k == InOrder(K)[j]
  <2>1. k \in K /\ rows[j] = s.holdings[k]
    BY <1>1
  <2>. HIDE DEF k
  <2>2. places[k] \in held
    BY <1>3, <2>1 DEF Matches
  <2>. QED  BY <1>5, <2>1, <2>2
<1>8. ASSUME NEW i \in held
      PROVE  \E j \in DOMAIN rows : rows[j].country = load[i].country
                                    /\ rows[j].cover = load[i].cover
  <2>1. PICK k \in K : places[k] = i
    BY <1>3 DEF Matches
  <2>2. PICK j \in 1 .. N : InOrder(K)[j] = k
    BY <1>1
  <2>3. rows[j] = s.holdings[k] /\ j \in DOMAIN rows
    BY <1>1, <2>2
  <2>. QED  BY <1>5, <2>1, <2>3
<1>. QED  BY <1>1, <1>4, <1>6, <1>7, <1>8 DEF held

\* The pack and the screen round the same shortfall.
LEMMA ShortfallsAgree ==
    ASSUME NEW r
    PROVE  PackShortfall(r) = ScreenShortfall(r)
<1>1. WholeMw(0) = 0
  BY DEF WholeMw
<1>. QED  BY <1>1, Zenon DEF PackShortfall, ScreenShortfall

\* Every tile but the multiple is the same figure or verdict.
LEMMA TilesOfTheDocuments ==
    ASSUME NEW r
    PROVE  \A tile \in DOMAIN PackTiles(r) \ {"multiple"} :
              PackTiles(r)[tile] = ScreenTiles(r)[tile]
<1>1. PackShortfall(r) = ScreenShortfall(r)
  BY ShortfallsAgree
<1>. QED  BY <1>1 DEF PackTiles, ScreenTiles

\* The charts are drawn to the same scale when there is something to draw.
LEMMA ChartsAgree ==
    ASSUME NEW r, NEW base, r.thirty_m \in [1 .. Years -> Int],
           NEW year \in DOMAIN r.thirty_m, r.thirty_m[year] # 0
    PROVE  PackChart(r, base) = ScreenChart(r, base)
<1>. DEFINE v == r.thirty_m
            S == {0} \cup {v[y] : y \in DOMAIN v}
            top == Max(S)
            foot == Min(S)
<1>0. DOMAIN v = 1 .. Years /\ \A y \in DOMAIN v : v[y] \in Int
  OBVIOUS
<1>1. S \in SUBSET Int /\ S # {} /\ 0 \in S /\ v[year] \in S /\ v[year] \in Int /\ v[year] # 0
  <2>1. year \in DOMAIN v /\ v[year] # 0
    OBVIOUS
  <2>. HIDE DEF v
  <2>. QED  BY <1>0, <2>1
<1>2. IsFiniteSet(S)
  <2>. DEFINE f == [y \in 1 .. Years |-> v[y]]
              V == {v[y] : y \in DOMAIN v}
  <2>1. Years \in Nat
    BY ReturnsConstants, Zenon
  <2>2. IsFiniteSet(1 .. Years)
    BY <2>1, FS_Interval
  <2>3. f \in Surjection(1 .. Years, V)
    BY DEF Surjection
  <2>4. S = V \cup {0}
    OBVIOUS
  <2>. HIDE DEF f, V, S
  <2>5. IsFiniteSet(V)
    BY <2>2, <2>3, FS_Surjection
  <2>. QED  BY <2>4, <2>5, FS_AddElement
<1>3. /\ PackChart(r, base) =
           LET span == IF top = foot THEN 1 ELSE top - foot
           IN  [zero |-> (1000 * top) \div span, total |-> Total(v),
                bars |-> [y \in DOMAIN v |->
                   [year |-> base + y - 1, negative |-> v[y] < 0,
                    height |-> (1000 * Gap(v[y], 0)) \div span]]]
      /\ ScreenChart(r, base) =
           LET span == top - foot
           IN  [zero |-> IF span > 0 THEN (1000 * top) \div span ELSE 1000, total |-> Total(v),
                bars |-> [y \in DOMAIN v |->
                   [year |-> base + y - 1, negative |-> v[y] < 0,
                    height |-> IF span > 0 THEN (1000 * Gap(v[y], 0)) \div span ELSE 0]]]
  BY Zenon DEF PackChart, ScreenChart
<1>. HIDE DEF S
<1>4. /\ top \in Int /\ foot \in Int /\ 0 <= top /\ v[year] <= top
      /\ foot <= 0 /\ foot <= v[year]
  BY <1>1, <1>2, NumbersHaveEnds
<1>. HIDE DEF top, foot
<1>5. top # foot /\ top - foot > 0
  <2>. DEFINE a == v[year]
  <2>1. a \in Int /\ a # 0 /\ a <= top /\ foot <= a
    BY <1>1, <1>4
  <2>. HIDE DEF a
  <2>. QED  BY <1>4, <2>1
<1>6. (IF top = foot THEN 1 ELSE top - foot) = top - foot
  BY <1>5
<1>. HIDE DEF v
<1>. QED  BY <1>3, <1>5, <1>6

\* The sites of the map are the rows of the table, in another order.
LEMMA SitesOfTheMap ==
    ASSUME NEW rows, NEW n \in Nat, DOMAIN rows = 1 .. n,
           \A j \in 1 .. n : rows[j].capacity \in Nat
    PROVE  ToSet(LargerFirst(rows)) = ToSet(rows)
<1>. DEFINE S == 1 .. n
            before(j, i) == \/ rows[j].capacity > rows[i].capacity
                            \/ rows[j].capacity = rows[i].capacity /\ j < i
            R == {p \in S \X S : before(p[1], p[2])}
            sites == LargerFirst(rows)
<1>1. IsFiniteSet(S) /\ Cardinality(S) = n
  BY FS_Interval
<1>2. \A j, i \in S : <<j, i>> \in R <=> before(j, i)
  OBVIOUS
<1>3. Orders(R, S)
  <2>. HIDE DEF R
  <2>1. \A x \in S : <<x, x>> \notin R
    BY <1>2
  <2>2. \A x, y, z \in S : <<x, y>> \in R /\ <<y, z>> \in R => <<x, z>> \in R
    BY <1>2
  <2>3. \A x, y \in S : x = y \/ <<x, y>> \in R \/ <<y, x>> \in R
    <3>. SUFFICES ASSUME NEW x \in S, NEW y \in S
                  PROVE  x = y \/ <<x, y>> \in R \/ <<y, x>> \in R
      OBVIOUS
    <3>1. x \in Int /\ y \in Int /\ rows[x].capacity \in Int /\ rows[y].capacity \in Int
      OBVIOUS
    <3>2. x = y \/ before(x, y) \/ before(y, x)
      BY <3>1
    <3>. HIDE DEF before, S
    <3>. QED  BY <1>2, <3>2
  <2>. QED  BY <2>1, <2>2, <2>3 DEF Orders
<1>4. ASSUME NEW i \in S PROVE Beneath(R, S, i) = {j \in S : before(j, i)}
  <2>. HIDE DEF R, before
  <2>. QED  BY <1>2 DEF Beneath
<1>5. sites = [k \in S |-> rows[InPlace(R, S, k)]]
  <2>1. sites = [k \in S |->
            rows[CHOOSE i \in S : Cardinality({j \in S : before(j, i)}) = k - 1]]
    BY DEF LargerFirst
  <2>. HIDE DEF R, before, sites, S
  <2>2. ASSUME NEW k
        PROVE  (CHOOSE i \in S : Cardinality({j \in S : before(j, i)}) = k - 1)
                    = InPlace(R, S, k)
    <3>1. \A i \in S : (Cardinality({j \in S : before(j, i)}) = k - 1)
                          <=> (Cardinality(Beneath(R, S, i)) = k - 1)
      BY <1>4
    <3>. QED  BY <3>1 DEF InPlace
  <2>3. DOMAIN sites = S
    BY <2>1
  <2>4. ASSUME NEW k \in S PROVE sites[k] = rows[InPlace(R, S, k)]
    <3>1. sites[k] = rows[CHOOSE i \in S : Cardinality({j \in S : before(j, i)}) = k - 1]
      BY <2>1
    <3>. QED  BY <2>2, <3>1, Zenon
  <2>5. sites = [k \in S |-> sites[k]]
    BY <2>1, <2>3
  <2>. QED  BY <2>4, <2>5
<1>. HIDE DEF R, before, sites, S
<1>6. /\ \A k \in 1 .. n : InPlace(R, S, k) \in S
      /\ \A i \in S : \E k \in 1 .. n : InPlace(R, S, k) = i
  BY <1>1, <1>3, EveryPlaceIsTaken
<1>7. ASSUME NEW k \in S PROVE sites[k] = rows[InPlace(R, S, k)]
  BY <1>5
<1>8. DOMAIN sites = S /\ S = 1 .. n
  BY <1>5 DEF S
<1>9. \A k \in DOMAIN sites : \E i \in DOMAIN rows : sites[k] = rows[i]
  BY <1>6, <1>7, <1>8
<1>10. \A i \in DOMAIN rows : \E k \in DOMAIN sites : rows[i] = sites[k]
  BY <1>6, <1>7, <1>8
<1>. QED  BY <1>9, <1>10 DEF sites, ToSet

\* Some cover is below the floor when the worst of them is.
LEMMA WorstCoverIsTheLeast ==
    ASSUME NEW load \in Loads, NEW held \in SUBSET DOMAIN load, NEW floor \in Int
    PROVE  (WorstCover(load, held) # Undefined /\ WorstCover(load, held) < floor)
              <=> \E i \in held : load[i].cover # Undefined /\ load[i].cover < floor
<1>. DEFINE cover == [i \in held |-> load[i].cover]
            C == {cover[i] : i \in held}
            covers == C \ {Undefined}
            worst == WorstCover(load, held)
<1>1. \A i \in held : cover[i] \in Int \cup {Undefined}
  BY LoadsAreOfPlants
<1>2. IsFiniteSet(held)
  BY PlantsOfALoad
<1>3. worst = IF covers = {} THEN Undefined ELSE Min(covers)
  BY DEF WorstCover
<1>4. Undefined \notin Int
  BY ReturnsConstants, Zenon
<1>5. IsFiniteSet(covers) /\ covers \in SUBSET Int
  <2>. HIDE DEF cover
  <2>1. [i \in held |-> cover[i]] \in Surjection(held, C)
    BY DEF Surjection
  <2>. HIDE DEF C
  <2>2. IsFiniteSet(C)
    BY <1>2, <2>1, FS_Surjection
  <2>3. IsFiniteSet(covers)
    BY <2>2, FS_Subset
  <2>4. covers \in SUBSET Int
    BY <1>1 DEF C
  <2>. QED  BY <2>3, <2>4
<1>6. (\E i \in held : load[i].cover # Undefined /\ load[i].cover < floor)
         <=> \E c \in covers : c < floor
  OBVIOUS
<1>. HIDE DEF covers, worst
<1>7. CASE covers = {}
  BY <1>3, <1>6, <1>7 DEF worst
<1>8. CASE covers # {}
  <2>1. worst \in covers /\ worst \in Int /\ \A c \in covers : worst <= c
    BY <1>3, <1>5, <1>8, NumbersHaveEnds
  <2>2. worst # Undefined
    BY <1>4, <2>1
  <2>3. (\E c \in covers : c < floor) <=> worst < floor
    BY <1>5, <2>1
  <2>. QED  BY <1>6, <2>2, <2>3 DEF worst
<1>. QED  BY <1>7, <1>8

\* The rows of the table are the selected holdings.
LEMMA RowsOfTheTable ==
    ASSUME NEW r, NEW n \in Nat, DOMAIN Selected(r) = 1 .. n,
           Selected(r) = [j \in 1 .. n |-> Selected(r)[j]]
    PROVE  /\ [k \in DOMAIN PackRows(r) |-> PackRows(r)[k].holding] = HoldingsCsv(r)
           /\ PackCaption(r).selected = n
           /\ (\E k \in DOMAIN PackRows(r) : PackRows(r)[k].alert)
                  <=> \E k \in 1 .. n : /\ Selected(r)[k].cover # Undefined
                                        /\ Selected(r)[k].cover < r.mandate.minDscr
<1>. DEFINE rows == Selected(r)
            below(k) == rows[k].cover # Undefined /\ rows[k].cover < r.mandate.minDscr
            table == PackRows(r)
<1>1. table = [k \in 1 .. n |-> [holding |-> rows[k], alert |-> below(k)]]
  BY DEF PackRows
<1>2. rows = [j \in 1 .. n |-> rows[j]]
  OBVIOUS
<1>3. HoldingsCsv(r) = rows
  BY DEF HoldingsCsv
<1>4. PackCaption(r).selected = Len(table)
  BY DEF PackCaption
<1>. HIDE DEF rows, below, table
<1>5. DOMAIN table = 1 .. n /\ Len(table) = n
  BY <1>1
<1>6. ASSUME NEW k \in 1 .. n PROVE table[k].holding = rows[k] /\ table[k].alert = below(k)
  BY <1>1
<1>7. [k \in DOMAIN table |-> table[k].holding] = rows
  BY <1>2, <1>5, <1>6
<1>8. (\E k \in DOMAIN table : table[k].alert) <=> \E k \in 1 .. n : below(k)
  BY <1>5, <1>6
<1>. QED  BY <1>3, <1>4, <1>5, <1>7, <1>8 DEF rows, below, table

\* The floor is marked in the table when the tile is below it.
LEMMA AlertsOfARecord ==
    ASSUME NEW s, NEW load, NEW m, NEW eligible, NEW locked, NEW winner, NEW selection,
           Stored(s, load, m, eligible, locked, winner, selection)
    PROVE  (\E k \in DOMAIN PackRows(s) : PackRows(s)[k].alert)
              <=> s.aggregates.cover # Undefined /\ s.aggregates.cover < s.mandate.minDscr
<1>. DEFINE rows == Selected(s)
            held == Held(selection)
            n == s.aggregates.count
            floor == m.minDscr
<1>1. /\ n \in Nat /\ DOMAIN rows = 1 .. n /\ rows = [j \in 1 .. n |-> rows[j]]
      /\ \A j \in DOMAIN rows : \E i \in held : rows[j].cover = load[i].cover
      /\ \A i \in held : \E j \in DOMAIN rows : rows[j].cover = load[i].cover
  BY SelectedOfARecord
<1>2. load \in Loads /\ held \in SUBSET DOMAIN load /\ floor \in Int
  <2>1. load \in Loads /\ m \in Asks /\ held \in SUBSET DOMAIN load
    BY HoldingsOfARecord
  <2>. QED  BY <2>1, AsksAreBounded
<1>3. s.mandate = m /\ s.aggregates.cover = WorstCover(load, held)
  BY DEF Stored, RecordOf
<1>4. (\E k \in DOMAIN PackRows(s) : PackRows(s)[k].alert)
          <=> \E k \in 1 .. n : rows[k].cover # Undefined /\ rows[k].cover < floor
  <2>1. (\E k \in DOMAIN PackRows(s) : PackRows(s)[k].alert)
          <=> \E k \in 1 .. n : rows[k].cover # Undefined /\ rows[k].cover < s.mandate.minDscr
    BY <1>1, RowsOfTheTable
  <2>. QED  BY <1>3, <2>1
<1>. HIDE DEF rows, held, n, floor
<1>5. (\E k \in 1 .. n : rows[k].cover # Undefined /\ rows[k].cover < floor)
          <=> \E i \in held : load[i].cover # Undefined /\ load[i].cover < floor
  BY <1>1
<1>6. (WorstCover(load, held) # Undefined /\ WorstCover(load, held) < floor)
          <=> \E i \in held : load[i].cover # Undefined /\ load[i].cover < floor
  BY <1>2, WorstCoverIsTheLeast
<1>7. s.mandate.minDscr = floor
  BY <1>3 DEF floor
<1>. QED  BY <1>3, <1>4, <1>5, <1>6, <1>7

\* The table and the totals name the same countries.
LEMMA CountriesOfARecord ==
    ASSUME NEW s, NEW load, NEW m, NEW eligible, NEW locked, NEW winner, NEW selection,
           Stored(s, load, m, eligible, locked, winner, selection)
    PROVE  {h.country : h \in ToSet(Selected(s))} = DOMAIN s.countries
<1>. DEFINE rows == Selected(s)
            held == Held(selection)
<1>1. /\ \A j \in DOMAIN rows : \E i \in held : rows[j].country = load[i].country
      /\ \A i \in held : \E j \in DOMAIN rows : rows[j].country = load[i].country
  BY SelectedOfARecord
<1>2. DOMAIN s.countries = {load[i].country : i \in held}
  BY DEF Stored, RecordOf, HeldShares
<1>. HIDE DEF rows, held
<1>3. {h.country : h \in ToSet(rows)} = {rows[j].country : j \in DOMAIN rows}
  BY DEF ToSet
<1>4. {rows[j].country : j \in DOMAIN rows} = {load[i].country : i \in held}
  BY <1>1
<1>. QED  BY <1>2, <1>3, <1>4 DEF rows

\* The sites of a record are its selected holdings.
LEMMA SitesOfARecord ==
    ASSUME NEW s, NEW load, NEW m, NEW eligible, NEW locked, NEW winner, NEW selection,
           Stored(s, load, m, eligible, locked, winner, selection)
    PROVE  ToSet(PackMap(s).sites) = ToSet(HoldingsCsv(s))
<1>. DEFINE rows == Selected(s)
            held == Held(selection)
            n == s.aggregates.count
<1>1. /\ n \in Nat /\ DOMAIN rows = 1 .. n
      /\ \A j \in DOMAIN rows : \E i \in held : rows[j].capacity = load[i].capacity
  BY SelectedOfARecord
<1>2. load \in Loads /\ held \in SUBSET DOMAIN load
  BY HoldingsOfARecord
<1>3. \A i \in held : load[i].capacity \in Nat
  BY <1>2, LoadsAreOfPlants
<1>4. PackMap(s).sites = LargerFirst(rows) /\ HoldingsCsv(s) = rows
  BY DEF PackMap, HoldingsCsv
<1>. HIDE DEF rows, held, n
<1>5. \A j \in 1 .. n : rows[j].capacity \in Nat
  BY <1>1, <1>3
<1>. QED  BY <1>1, <1>4, <1>5, SitesOfTheMap

\* The schedule is the series, a year for each of its bars.
LEMMA ScheduleOfARecord ==
    ASSUME NEW r, NEW base, r.thirty_m \in [1 .. Years -> Int]
    PROVE  /\ [y \in DOMAIN CashflowCsv(r, base) |-> CashflowCsv(r, base)[y].amount] = r.thirty_m
           /\ [y \in DOMAIN CashflowCsv(r, base) |-> CashflowCsv(r, base)[y].year]
                 = [y \in DOMAIN PackChart(r, base).bars |-> PackChart(r, base).bars[y].year]
           /\ PackChart(r, base).total = Total(r.thirty_m)
           /\ ScreenChart(r, base).total = Total(r.thirty_m)
<1>. DEFINE v == r.thirty_m
            csv == CashflowCsv(r, base)
            bars == PackChart(r, base).bars
<1>1. csv = [y \in DOMAIN v |-> [year |-> base + y - 1, amount |-> v[y]]]
  BY DEF CashflowCsv
<1>2. /\ DOMAIN bars = DOMAIN v
      /\ \A y \in DOMAIN v : bars[y].year = base + y - 1
  BY DEF PackChart
<1>3. PackChart(r, base).total = Total(v) /\ ScreenChart(r, base).total = Total(v)
  BY DEF PackChart, ScreenChart
<1>4. v = [y \in 1 .. Years |-> v[y]] /\ DOMAIN v = 1 .. Years
  OBVIOUS
<1>. HIDE DEF v, bars, csv
<1>5. /\ DOMAIN csv = DOMAIN v
      /\ \A y \in DOMAIN v : csv[y].year = base + y - 1 /\ csv[y].amount = v[y]
  BY <1>1
<1>6. [y \in DOMAIN csv |-> csv[y].amount] = v
  BY <1>4, <1>5
<1>7. [y \in DOMAIN csv |-> csv[y].year] = [y \in DOMAIN bars |-> bars[y].year]
  BY <1>2, <1>5
<1>. QED  BY <1>3, <1>6, <1>7 DEF v, csv, bars

\* Whatever was pooled, searched and reloaded, the screen, the pack and the
\* two files say the same of a record: one verdict to a tile, one total of
\* thirty years, one list of holdings, one count of countries, and a floor
\* marked in the table when the tile is below it (committee.py, _tiles,
\* _document; portfolio.js, tiles; csv.py).
THEOREM DocumentsOfARecord == PortfolioSpec => []DocumentsAgree
<1>1. ASSUME PortfolioInv PROVE DocumentsAgree
  <2>. SUFFICES ASSUME Readable(record) PROVE DocumentsAgree
    BY DEF DocumentsAgree
  <2>. DEFINE base == StoredBaseYear
              pack == PackTiles(record)
              screen == ScreenTiles(record)
              csv == CashflowCsv(record, base)
              chart == PackChart(record, base)
              shown == ScreenChart(record, base)
              a == record.aggregates
              v == record.thirty_m
              rows == Selected(record)
  <2>1. outcome # None /\ record = Succeeded(outcome)
    BY <1>1 DEF PortfolioInv, Readable
  <2>2. PICK winner :
          Stored(record, pending.candidates, pending.mandate, pending.eligible,
                 pending.locked, winner, Scatter(pending.eligible, winner))
    BY <1>1, <2>1, RecordOfARun
  <2>3. pack.thirty = a.fcfe_m /\ pack.coverage = a.cover
    BY DEF PackTiles
  <2>4. a.fcfe_m = Total(v) /\ v \in [1 .. Years -> Int]
    BY <2>2, TotalOfTheSchedule
  <2>5. /\ [y \in DOMAIN csv |-> csv[y].amount] = v
        /\ [y \in DOMAIN csv |-> csv[y].year]
               = [y \in DOMAIN chart.bars |-> chart.bars[y].year]
        /\ chart.total = Total(v) /\ shown.total = Total(v)
    BY <2>4, ScheduleOfARecord
  <2>6. (\E y \in DOMAIN v : v[y] # 0) => chart = shown
    BY <2>4, ChartsAgree
  <2>7. a.count \in Nat /\ DOMAIN rows = 1 .. a.count /\ rows = [j \in 1 .. a.count |-> rows[j]]
    BY <2>2, SelectedOfARecord
  <2>8. /\ [k \in DOMAIN PackRows(record) |-> PackRows(record)[k].holding] = HoldingsCsv(record)
        /\ PackCaption(record).selected = a.count
    BY <2>7, RowsOfTheTable
  <2>9. ToSet(PackMap(record).sites) = ToSet(HoldingsCsv(record))
    BY <2>2, SitesOfARecord
  <2>10. (\E k \in DOMAIN PackRows(record) : PackRows(record)[k].alert)
             <=> a.cover # Undefined /\ a.cover < record.mandate.minDscr
    BY <2>2, AlertsOfARecord
  <2>11. PackCountries(record) = ScreenCountries(record)
    <3>1. {h.country : h \in ToSet(Selected(record))} = DOMAIN record.countries
      BY <2>2, CountriesOfARecord
    <3>. QED  BY <3>1 DEF PackCountries, ScreenCountries
  <2>12. Cardinality(PackMap(record).lit) = PackCountries(record)
    BY DEF PackMap, PackCountries
  <2>13. \A tile \in DOMAIN pack \ {"multiple"} : pack[tile] = screen[tile]
    BY TilesOfTheDocuments
  <2>. HIDE DEF pack, screen, csv, chart, shown, a, v, rows, base
  <2>14. Total([y \in DOMAIN csv |-> csv[y].amount]) = pack.thirty
    BY <2>3, <2>4, <2>5
  <2>15. chart.total = pack.thirty /\ shown.total = pack.thirty
    BY <2>3, <2>4, <2>5
  <2>16. (\E k \in DOMAIN PackRows(record) : PackRows(record)[k].alert)
             <=> pack.coverage # Undefined /\ pack.coverage < record.mandate.minDscr
    BY <2>3, <2>10
  <2>17. [y \in DOMAIN csv |-> csv[y].year]
               = [y \in DOMAIN chart.bars |-> chart.bars[y].year]
    BY <2>5
  <2>. QED  BY <2>6, <2>8, <2>9, <2>11, <2>12, <2>13, <2>14, <2>15, <2>16, <2>17, Zenon
       DEF DocumentsAgree, pack, screen, csv, chart, shown, a, v, base
<1>. QED  BY <1>1, PortfolioInvAlways, PTL
=============================================================================
