--------------------------- MODULE DocumentsProofs ---------------------------
(***************************************************************************)
(* Proofs about Documents, for any characters, any lengths and ratings,    *)
(* any keys and bytes of any width.                                        *)
(*                                                                         *)
(* Every property of Documents is about one call and the answer to it, so  *)
(* the invariant IInv is short: the call is one that can be asked, and the *)
(* answer one that the functions give to it.  The work is in what those    *)
(* functions compute.  The loops of the code are recursive functions here, *)
(* on 0..n for n rounds: Iteration says that there is such a function, and *)
(* UpTo and SeqInd carry what one round keeps to all of them, from the     *)
(* library's theorem that a set with a well-founded ordering has a least   *)
(* element.  The facts that the loops keep:                                *)
(*    a sum of ratings lies between multiples of the bounds of those given *)
(*    (TotalBetween);                                                      *)
(*    a byte is chained with the one before it, which decryption has when  *)
(*    it needs it (Chained, XorTwice);                                     *)
(*    formatPhone only inserts what nobody dials (InsertKeeps);            *)
(*    escapeString removes only control characters, and when they are      *)
(*    spread the next one is never behind where it goes on searching       *)
(*    (EscapeState).                                                       *)
(***************************************************************************)
EXTENDS Documents, FiniteSetTheorems, SequenceTheorems, WellFoundedInduction, TLAPS

-----------------------------------------------------------------------------
(* Induction                                                               *)

\* A set of numbers has a least one: the initial segments up to its members are finite
\* sets, which strict inclusion orders well.
LEMMA LeastNat ==
  ASSUME NEW T \in SUBSET Nat, NEW k \in T
  PROVE  \E n \in T : \A m \in T : n <= m
<1> DEFINE R == StrictSubsetOrdering(Nat)
           Below == {0..m : m \in T}
<1>1. IsWellFoundedOn(R, FiniteSubsetsOf(Nat))
  BY FS_StrictSubsetOrderingWellFounded
<1>2. Below \subseteq FiniteSubsetsOf(Nat)
  <2> SUFFICES ASSUME NEW m \in T
               PROVE  0..m \in FiniteSubsetsOf(Nat)
    OBVIOUS
  <2>1. IsFiniteSet(0..m)
    <3>1. 0 \in Int /\ m \in Int
      OBVIOUS
    <3> QED
      BY <3>1, FS_Interval, Zenon
  <2>2. 0..m \in SUBSET Nat
    OBVIOUS
  <2> QED
    BY <2>1, <2>2, Zenon DEF FiniteSubsetsOf
<1>3. Below # {}
  OBVIOUS
<1>4. PICK x \in Below : \A y \in Below : <<y, x>> \notin R
  <2> HIDE DEF R, Below
  <2> QED BY <1>1, <1>2, <1>3, WFMin
<1>5. PICK n \in T : x = 0..n
  OBVIOUS
<1>6. ASSUME NEW m \in T, m < n PROVE FALSE
  <2>1. 0..m \subseteq 0..n /\ 0..m # 0..n
    BY <1>6
  <2>2. <<0..m, 0..n>> \in R
    BY <2>1 DEF StrictSubsetOrdering
  <2> QED
    BY <2>2, <1>4, <1>5
<1> QED
  BY <1>6

\* Induction, for a set instead of a formula.
LEMMA NatInd ==
  ASSUME NEW T, 0 \in T, \A n \in Nat : n \in T => n + 1 \in T
  PROVE  Nat \subseteq T
<1>1. SUFFICES ASSUME NEW k \in Nat, k \notin T PROVE FALSE
  OBVIOUS
<1>2. PICK n \in Nat \ T : \A m \in Nat \ T : n <= m
  <2>1. Nat \ T \in SUBSET Nat /\ k \in Nat \ T
    BY <1>1
  <2> QED BY <2>1, LeastNat
<1>3. n # 0 /\ n - 1 \in Nat
  BY <1>2
<1>4. n - 1 \in T
  BY <1>2, <1>3
<1> QED
  BY <1>2, <1>3, <1>4

\* Induction over the rounds of a loop.
LEMMA UpTo ==
  ASSUME NEW N \in Nat, NEW T, 0 \in T,
         \A i \in 1..N : i - 1 \in T => i \in T
  PROVE  0..N \subseteq T
<1> DEFINE U == T \cup {n \in Nat : n > N}
<1>1. 0 \in U
  OBVIOUS
<1>2. \A n \in Nat : n \in U => n + 1 \in U
  OBVIOUS
<1>3. Nat \subseteq U
  <2> HIDE DEF U
  <2> QED
    BY <1>1, <1>2, NatInd
<1> QED
  BY <1>3

\* What comes out of going from base, by step after step.
Iterates(f, N, S, base, step) ==
  f \in [0..N -> S] /\ f[0] = base /\ \A i \in 1..N : f[i] = step[<<i, f[i - 1]>>]

\* Whatever the step is, there is what it leads to: a recursive function is one.
LEMMA Iteration ==
  ASSUME NEW N \in Nat, NEW S, NEW base \in S, NEW step \in [(1..N) \X S -> S]
  PROVE  \E f : Iterates(f, N, S, base, step)
<1> DEFINE Is(f, n) == \A i \in 1..n : f[i] = step[<<i, f[i - 1]>>]
           T == {n \in 0..N : \E f \in [0..n -> S] : f[0] = base /\ Is(f, n)}
<1>1. 0 \in T
  <2> DEFINE f == [i \in 0..0 |-> base]
  <2>1. f \in [0..0 -> S] /\ f[0] = base /\ Is(f, 0)
    OBVIOUS
  <2> HIDE DEF f
  <2> QED
    BY <2>1
<1>2. ASSUME NEW n \in 1..N, n - 1 \in T
      PROVE  n \in T
  <2>1. PICK f \in [0..(n - 1) -> S] : f[0] = base /\ Is(f, n - 1)
    BY <1>2
  <2>2. f[n - 1] \in S /\ <<n, f[n - 1]>> \in (1..N) \X S
    BY <2>1
  <2> DEFINE x == step[<<n, f[n - 1]>>]
             g == [i \in 0..n |-> IF i = n THEN x ELSE f[i]]
  <2>3. x \in S
    BY <2>2
  <2> HIDE DEF x
  <2>4. g \in [0..n -> S] /\ g[0] = base
    BY <2>1, <2>3
  <2>5. \A i \in 1..n : g[i] = step[<<i, g[i - 1]>>]
    <3> SUFFICES ASSUME NEW i \in 1..n
                 PROVE  g[i] = step[<<i, g[i - 1]>>]
      OBVIOUS
    <3>1. CASE i = n
      <4>1. g[i] = x /\ g[i - 1] = f[n - 1]
        BY <3>1
      <4> QED
        BY <4>1, <3>1 DEF x
    <3>2. CASE i # n
      <4>1. i \in 1..(n - 1) /\ g[i] = f[i] /\ g[i - 1] = f[i - 1]
        BY <3>2
      <4> QED
        BY <4>1, <2>1
    <3> QED
      BY <3>1, <3>2
  <2> HIDE DEF g
  <2> QED
    BY <2>4, <2>5
<1>3. N \in T
  <2> HIDE DEF T
  <2>1. 0..N \subseteq T
    BY <1>1, <1>2, UpTo
  <2> QED
    BY <2>1
<1>4. PICK f \in [0..N -> S] : f[0] = base /\ Is(f, N)
  BY <1>3
<1>5. Iterates(f, N, S, base, step)
  BY <1>4 DEF Iterates
<1> QED
  BY <1>5

-----------------------------------------------------------------------------
(* Averages                                                                *)

\* What Total computes, round by round.
LEMMA TotalIs ==
  ASSUME NEW s \in Seq(Int)
  PROVE  \E sum \in [0..Len(s) -> Int] :
           /\ sum[0] = 0
           /\ \A i \in 1..Len(s) : sum[i] = sum[i - 1] + s[i]
           /\ Total(s) = sum[Len(s)]
<1> DEFINE n == Len(s)
           step == [p \in (1..n) \X Int |-> p[2] + s[p[1]]]
           Is(f) == f = [i \in 0..n |-> IF i = 0 THEN 0 ELSE f[i - 1] + s[i]]
           sum == CHOOSE f : Is(f)
<1>1. n \in Nat /\ \A i \in 1..n : s[i] \in Int
  OBVIOUS
<1>2. Total(s) = sum[n]
  BY Zenon DEF Total
<1> HIDE DEF n
<1>3. step \in [(1..n) \X Int -> Int]
  BY <1>1
<1>4. PICK f : Iterates(f, n, Int, 0, step)
  <2> HIDE DEF step
  <2>1. 0 \in Int
    OBVIOUS
  <2> QED
    BY <1>1, <1>3, <2>1, Iteration, Zenon
<1>5. f \in [0..n -> Int] /\ f[0] = 0
  BY <1>4 DEF Iterates
<1>6. \A i \in 1..n : f[i - 1] \in Int /\ f[i] = f[i - 1] + s[i]
  <2> SUFFICES ASSUME NEW i \in 1..n
               PROVE  f[i - 1] \in Int /\ f[i] = f[i - 1] + s[i]
    OBVIOUS
  <2>1. f[i - 1] \in Int
    BY <1>1, <1>5
  <2>2. step[<<i, f[i - 1]>>] = f[i - 1] + s[i]
    BY <2>1
  <2> HIDE DEF step
  <2> QED
    BY <1>4, <2>1, <2>2 DEF Iterates
<1>7. Is(f)
  BY <1>1, <1>5, <1>6
<1>8. Is(sum)
  BY <1>7, Zenon
<1> HIDE DEF sum
<1>9. sum[0] = 0 /\ \A i \in 1..n : sum[i] = sum[i - 1] + s[i]
  BY <1>1, <1>8
<1>10. \A i \in 0..n : sum[i] \in Int
  <2> DEFINE T == {i \in 0..n : sum[i] \in Int}
  <2>1. 0 \in T
    BY <1>1, <1>9
  <2>2. \A i \in 1..n : i - 1 \in T => i \in T
    BY <1>1, <1>9
  <2> HIDE DEF T
  <2>3. 0..n \subseteq T
    BY <1>1, <2>1, <2>2, UpTo
  <2> QED
    BY <2>3 DEF T
<1>11. sum \in [0..n -> Int]
  BY <1>8, <1>10
<1> QED
  BY <1>2, <1>9, <1>11 DEF n

LEMMA OneMore ==
  ASSUME NEW a \in Int, NEW c \in Nat
  PROVE  a * c \in Int /\ a * (c + 1) = a * c + a
OBVIOUS

\* A sum of what is in C, and of zeros, lies between multiples of what bounds them.
LEMMA TotalBetween ==
  ASSUME NEW s \in Seq(Int), NEW C \in SUBSET (1..Len(s)), NEW low \in Int, NEW high \in Int,
         \A i \in (1..Len(s)) \ C : s[i] = 0
  PROVE  /\ Total(s) \in Int
         /\ IsFiniteSet(C) /\ Cardinality(C) \in Nat
         /\ (\A i \in C : low <= s[i]) => low * Cardinality(C) <= Total(s)
         /\ (\A i \in C : s[i] <= high) => Total(s) <= high * Cardinality(C)
<1> DEFINE n == Len(s)
           Least == \A i \in C : low <= s[i]
           Most == \A i \in C : s[i] <= high
           Fits(B, x) == /\ IsFiniteSet(B) /\ Cardinality(B) \in Nat
                         /\ Least => low * Cardinality(B) <= x
                         /\ Most => x <= high * Cardinality(B)
           Below(k) == {i \in C : i <= k}
<1>1. /\ n \in Nat /\ \A i \in 1..n : s[i] \in Int
      /\ \A i \in 1..n : i \notin C => s[i] = 0
      /\ \A i \in C : i \in Int /\ i >= 1 /\ i <= n
  OBVIOUS
<1>2. PICK sum \in [0..n -> Int] :
        /\ sum[0] = 0
        /\ \A i \in 1..n : sum[i] = sum[i - 1] + s[i]
        /\ Total(s) = sum[n]
  BY TotalIs
<1> HIDE DEF n
<1> DEFINE T == {k \in 0..n : Fits(Below(k), sum[k])}
<1>3. 0 \in T
  <2>1. Below(0) = {}
    <3>1. \A i \in C : ~(i <= 0)
      BY <1>1
    <3> QED
      BY <3>1, Zenon
  <2>2. IsFiniteSet({}) /\ Cardinality({}) = 0
    BY FS_EmptySet
  <2> HIDE DEF Below
  <2>3. Fits({}, 0)
    <3>1. low * 0 = 0 /\ high * 0 = 0
      OBVIOUS
    <3> QED
      BY <2>2, <3>1
  <2> HIDE DEF Fits
  <2>4. Fits(Below(0), sum[0])
    BY <1>2, <2>1, <2>3, Zenon
  <2>5. 0 \in 0..n
    BY <1>1
  <2> QED
    BY <2>4, <2>5, Zenon
<1>4. ASSUME NEW k \in 1..n, k - 1 \in T
      PROVE  k \in T
  <2> DEFINE B == Below(k - 1)
             x == sum[k - 1]
  <2>1. x \in Int /\ s[k] \in Int /\ sum[k] = x + s[k]
    BY <1>1, <1>2
  <2>2. Fits(B, x)
    BY <1>4
  <2>3. Fits(Below(k), x + s[k])
    <3>1. CASE k \in C
      <4>1. Below(k) = B \cup {k} /\ k \notin B
        <5>1. /\ \A i \in C : i <= k <=> i <= k - 1 \/ i = k
              /\ ~(k <= k - 1) /\ k <= k
          BY <1>1
        <5> QED
          BY <3>1, <5>1, Zenon
      <4>2. (Least => low <= s[k]) /\ (Most => s[k] <= high)
        BY <3>1
      <4> HIDE DEF B, Below, x, Least, Most
      <4>3. IsFiniteSet(B \cup {k}) /\ Cardinality(B \cup {k}) = Cardinality(B) + 1
        BY <2>2, <4>1, FS_AddElement
      <4> DEFINE c == Cardinality(B)
                 d == Cardinality(Below(k))
      <4>4. c \in Nat /\ (Least => low * c <= x) /\ (Most => x <= high * c)
        BY <2>2
      <4>5. IsFiniteSet(Below(k)) /\ d = c + 1
        BY <4>1, <4>3
      <4> HIDE DEF c, d
      <4>6. /\ low * c \in Int /\ low * d = low * c + low
            /\ high * c \in Int /\ high * d = high * c + high
        BY <4>4, <4>5, OneMore
      <4>7. d \in Nat /\ (Least => low * d <= x + s[k]) /\ (Most => x + s[k] <= high * d)
        BY <2>1, <4>2, <4>4, <4>5, <4>6
      <4> QED
        BY <4>5, <4>7 DEF d
    <3>2. CASE k \notin C
      <4>1. Below(k) = B
        <5>1. \A i \in C : i # k => (i <= k <=> i <= k - 1)
          BY <1>1
        <5> QED
          BY <3>2, <5>1, Zenon
      <4>2. x + s[k] = x
        <5>1. s[k] = 0
          BY <1>1, <3>2, Zenon
        <5> HIDE DEF x
        <5> QED
          BY <2>1, <5>1
      <4> HIDE DEF B, Below, x, Fits
      <4> QED
        BY <2>2, <4>1, <4>2
    <3> QED
      BY <3>1, <3>2
  <2> HIDE DEF Fits, Below
  <2> QED
    BY <2>1, <2>3
<1>5. Fits(Below(n), sum[n])
  <2> HIDE DEF T
  <2>1. 0..n \subseteq T
    BY <1>1, <1>3, <1>4, UpTo
  <2>2. n \in T
    BY <1>1, <2>1
  <2> QED
    BY <2>2 DEF T
<1>6. Below(n) = C
  BY <1>1
<1> HIDE DEF Below
<1>7. Fits(C, Total(s)) /\ Total(s) \in Int
  BY <1>1, <1>2, <1>5, <1>6
<1> QED
  BY <1>7

\* A quotient that is rounded down is not below a bound of what is divided, nor above.
LEMMA Quotient ==
  ASSUME NEW t \in Int, NEW c \in Nat \ {0}
  PROVE  t \div c \in Int /\ c * (t \div c) <= t /\ t < c * ((t \div c) + 1)
OBVIOUS

\* The average of ratings lies between two of them.
LEMMA AverageBetween ==
  ASSUME NEW r \in Seq(Nat)
  PROVE  /\ Rated(r) = {} => Average(r) = 0
         /\ Rated(r) # {} =>
              \E i, j \in Rated(r) : r[i] <= Average(r) /\ Average(r) <= r[j]
<1> DEFINE C == Rated(r)
           s == [i \in DOMAIN r |-> IF i \in Rated(r) THEN r[i] ELSE 0]
           c == Cardinality(C)
           a == Average(r)
<1>1. Rated(r) = {} => Average(r) = 0
  BY DEF Average
<1>2. ASSUME Rated(r) # {}
      PROVE  \E i, j \in C : r[i] <= a /\ a <= r[j]
  <2>1. /\ s \in Seq(Int) /\ Len(s) = Len(r) /\ C \in SUBSET (1..Len(s))
        /\ \A i \in C : s[i] = r[i] /\ r[i] \in Int
        /\ \A i \in (1..Len(s)) \ C : s[i] = 0
    BY DEF Rated
  <2>2. a = Total(s) \div c
    BY <1>2 DEF Average, TotalRated
  <2> HIDE DEF s, C
  <2>3. Total(s) \in Int /\ IsFiniteSet(C) /\ c \in Nat
    <3>1. 0 \in Int
      OBVIOUS
    <3> QED
      BY <2>1, <3>1, TotalBetween, Zenon
  <2>4. c # 0
    BY <1>2, <2>3, FS_EmptySet DEF C
  <2> HIDE DEF c, a
  <2>5. a \in Int /\ c * a <= Total(s) /\ Total(s) < c * (a + 1)
    BY <2>2, <2>3, <2>4, Quotient
  <2>6. ASSUME \A i \in C : ~(r[i] <= a)
        PROVE  FALSE
    <3>1. \A i \in C : a + 1 <= s[i]
      BY <2>1, <2>5, <2>6
    <3>2. a + 1 \in Int
      BY <2>5
    <3> DEFINE b == a + 1
    <3> HIDE DEF b
    <3>3. b * c <= Total(s)
      BY <2>1, <3>1, <3>2, TotalBetween DEF b, c
    <3> QED
      BY <2>3, <2>5, <3>2, <3>3 DEF b
  <2>7. ASSUME \A j \in C : ~(a <= r[j])
        PROVE  FALSE
    <3>1. \A i \in C : s[i] <= a - 1
      BY <2>1, <2>5, <2>7
    <3> DEFINE b == a - 1
    <3>2. b \in Int /\ a = b + 1
      BY <2>5
    <3> HIDE DEF b
    <3>3. Total(s) <= b * c
      BY <2>1, <3>1, <3>2, TotalBetween DEF b, c
    <3> QED
      BY <2>3, <2>4, <2>5, <3>2, <3>3
  <2> QED
    BY <2>6, <2>7, Zenon
<1> QED
  BY <1>1, <1>2

\* A percentage of zeros and ones is one.
LEMMA PercentBetween ==
  ASSUME NEW r \in Seq({0, 1})
  PROVE  Percent(r) \in 0..100
<1> DEFINE n == Len(r)
           t == Total(r)
<1>1. CASE r = <<>>
  BY <1>1 DEF Percent
<1>2. CASE r # <<>>
  <2>1. /\ r \in Seq(Int) /\ n \in Nat \ {0} /\ 1..n \in SUBSET (1..n)
        /\ \A i \in 1..n : 0 <= r[i] /\ r[i] <= 1
        /\ (1..n) \ (1..n) = {}
    BY <1>2
  <2>2. Cardinality(1..n) = n
    <3>1. 1 \in Int /\ n \in Int /\ ~(1 > n)
      BY <2>1
    <3>2. Cardinality(1..n) = n - 1 + 1
      BY <3>1, FS_Interval, Zenon
    <3> QED
      BY <2>1, <3>2
  <2>3. t \in Int /\ 0 * n <= t /\ t <= 1 * n
    <3>1. 0 \in Int /\ 1 \in Int
      OBVIOUS
    <3>2. \A i \in (1..n) \ (1..n) : r[i] = 0
      OBVIOUS
    <3> QED
      BY <2>1, <2>2, <3>1, <3>2, TotalBetween, Zenon
  <2>4. Percent(r) = (t * 100) \div n
    BY <1>2 DEF Percent
  <2> HIDE DEF n, t
  <2>5. n * 100 <= 100 * n /\ 0 <= t * 100 /\ t * 100 <= 100 * n /\ t * 100 \in Int
    BY <2>1, <2>3
  <2> DEFINE u == t * 100
             q == u \div n
  <2>6. q \in Int /\ n * q <= u /\ u < n * (q + 1)
    <3> HIDE DEF u
    <3> QED
      BY <2>1, <2>5, Quotient DEF u
  <2>9. Percent(r) = q
    BY <2>4
  <2> HIDE DEF u, q
  <2>7. q >= 0
    BY <2>1, <2>5, <2>6 DEF u
  <2>8. q <= 100
    BY <2>1, <2>5, <2>6 DEF u
  <2> QED
    BY <2>6, <2>7, <2>8, <2>9
<1> QED
  BY <1>1, <1>2

\* A cell of a page is a number or left out.
LEMMA CellIs ==
  ASSUME NEW cell \in Cell
  PROVE  /\ cell # <<>> => toInt(cell) \in Nat /\ toInt(cell) # NONE
         /\ cell = <<>> \/ cell # <<>>
<1>1. CASE cell = <<>>
  BY <1>1
<1>2. CASE cell = <<BLANK>>
  BY <1>2 DEF toInt, NONE
<1>3. ASSUME NEW n \in Ratings, cell = <<n>>
      PROVE  toInt(cell) \in Nat /\ toInt(cell) # NONE
  <2>1. n \in Nat /\ n # NONE
    BY DocumentsAssumption
  <2>2. cell # <<BLANK>> /\ cell[1] = n
    BY <1>3, <2>1 DEF BLANK
  <2> QED
    BY <2>1, <2>2 DEF toInt
<1> QED
  BY <1>1, <1>2, <1>3 DEF Cell

\* What the client reads in the averages of a page.
LEMMA StatsBetween ==
  ASSUME NEW page \in Page
  PROVE  LET ratings == {page[i].engsat : i \in 1..(Len(page) - 1)} \ {<<>>}
             given == {toInt(c) : c \in ratings}
         IN /\ stats(page).rtsavg \in 0..100
            /\ IF given = {} THEN stats(page).engavg = 0
               ELSE \E low, high \in given :
                      low <= stats(page).engavg /\ stats(page).engavg <= high
<1> DEFINE ratings == {page[i].engsat : i \in 1..(Len(page) - 1)} \ {<<>>}
           given == {toInt(c) : c \in ratings}
           n == Len(Lines(page))
           csat == [i \in DOMAIN Lines(page) |-> Survey(page[i])]
           eng == [i \in DOMAIN csat |-> csat[i].engsat]
           rts == [i \in DOMAIN csat |-> csat[i].rts]
<1>1. /\ n \in Nat /\ DOMAIN Lines(page) = 1..n /\ 1..(Len(page) - 1) = 1..n
      /\ \A i \in 1..n : page[i] \in Line
  <2>1. CASE page = <<>>
    BY <2>1 DEF Lines
  <2>2. CASE page # <<>>
    <3>1. PICK lines \in Seq(Line) : page = Append(lines, "end")
      BY <2>2 DEF Page, BoundedSeq, SeqOf
    <3>2. Lines(page) = lines
      BY <3>1 DEF Lines
    <3> QED
      BY <3>1, <3>2
  <2> QED
    BY <2>1, <2>2
<1>2. /\ eng = [i \in 1..n |-> Rating(page[i].engsat)]
      /\ rts = [i \in 1..n |-> toInt(page[i].rts)]
  BY <1>1 DEF Survey
<1>3. stats(page).engavg = Average(eng) /\ stats(page).rtsavg = Percent(rts)
  BY DEF stats
<1> HIDE DEF n, eng, rts
<1>4. \A i \in 1..n : page[i].engsat \in Cell /\ toInt(page[i].rts) \in {0, 1}
  <2> SUFFICES ASSUME NEW i \in 1..n
               PROVE  page[i].engsat \in Cell /\ toInt(page[i].rts) \in {0, 1}
    OBVIOUS
  <2>1. page[i].engsat \in Cell /\ page[i].rts \in {<<0>>, <<1>>}
    BY <1>1 DEF Line
  <2>2. toInt(<<0>>) = 0 /\ toInt(<<1>>) = 1
    BY DEF toInt, BLANK
  <2> QED
    BY <2>1, <2>2
<1>5. rts \in Seq({0, 1})
  BY <1>1, <1>2, <1>4
<1>6. eng \in Seq(Nat) /\ Len(eng) = n /\ \A i \in 1..n : eng[i] = Rating(page[i].engsat)
  <2>1. \A i \in 1..n : Rating(page[i].engsat) \in Nat
    BY <1>4, CellIs DEF Rating, NONE
  <2> QED
    BY <1>1, <1>2, <2>1
<1>7. Rated(eng) = {i \in 1..n : page[i].engsat # <<>>}
  <2>1. \A i \in 1..n : eng[i] # NONE <=> page[i].engsat # <<>>
    BY <1>4, <1>6, CellIs DEF Rating
  <2> QED
    BY <1>6, <2>1 DEF Rated
<1>8. \A i \in Rated(eng) : eng[i] \in given
  <2> SUFFICES ASSUME NEW i \in Rated(eng)
               PROVE  eng[i] \in given
    OBVIOUS
  <2>1. i \in 1..n /\ page[i].engsat # <<>>
    BY <1>7
  <2>2. eng[i] = toInt(page[i].engsat)
    BY <1>6, <2>1 DEF Rating
  <2> QED
    BY <1>1, <2>1, <2>2
<1>9. given = {} <=> Rated(eng) = {}
  <2>1. ASSUME Rated(eng) = {}
        PROVE  given = {}
    BY <1>1, <1>7, <2>1
  <2> QED
    BY <1>8, <2>1
<1> HIDE DEF given
<1>10. IF given = {} THEN Average(eng) = 0
       ELSE \E low, high \in given : low <= Average(eng) /\ Average(eng) <= high
  BY <1>6, <1>8, <1>9, AverageBetween
<1>11. Percent(rts) \in 0..100
  BY <1>5, PercentBetween
<1> QED
  BY <1>3, <1>10, <1>11 DEF given

-----------------------------------------------------------------------------
(* The password                                                            *)

\* What is combined twice with the same bytes is what it was.
LEMMA XorTwice ==
  ASSUME NEW b, NEW x, NEW l
  PROVE  Xor(Xor(Xor(Xor(b, x), l), l), x) = b
BY DEF Xor

LEMMA XorBytes ==
  ASSUME NEW a \in Byte, NEW b \in Byte
  PROVE  Xor(a, b) \in Byte
BY DEF Xor, Byte

LEMMA PartBytes ==
  ASSUME NEW key, NEW i \in Nat \ {0}
  PROVE  Part(splitKey(key), i) \in Byte
<1>1. ((i - 1) % KeyBytes) + 1 \in 1..KeyBytes
  BY SimpleCryptAssumption
<1> DEFINE k == ((i - 1) % KeyBytes) + 1
<1> HIDE DEF k
<1>2. splitKey(key)[k] \in Byte
  BY <1>1 DEF k, splitKey, Byte
<1> QED
  BY <1>2 DEF k, Part

\* The check that decryption skips is as long as what encryption put there.
LEMMA IntegrityBytes ==
  ASSUME NEW mode \in Mode, NEW ba
  PROVE  /\ Integrity(mode, ba) \in Seq(Byte)
         /\ Length(mode) \in Nat /\ Len(Integrity(mode, ba)) = Length(mode)
<1>1. Length(mode) \in Nat
  BY DEF Length, Mode
<1> DEFINE F(i) == {b \in Bit :
                      Cardinality({j \in DOMAIN ba : (b + i * j) % Width \in ba[j]}) % 2 = 1}
<1>2. Integrity(mode, ba) = [i \in 1..Length(mode) |-> F(i)]
  BY DEF Integrity
<1>3. \A i \in 1..Length(mode) : F(i) \in Byte
  BY DEF Byte
<1> HIDE DEF F
<1> QED
  BY <1>1, <1>2, <1>3

\* The bytes that are encrypted.
Sent(plaintext, random, mode) == <<random>> \o Integrity(mode, plaintext) \o plaintext

\* Each byte of ba with the key's, and with the one before it.
Chain(f, ba, key) ==
  /\ f[0] = {}
  /\ \A i \in 1..Len(ba) : f[i] = Xor(Xor(ba[i], Part(splitKey(key), i)), f[i - 1])

\* The record that encryption makes of them.
Cypher(c, ba, mode, f) ==
  c.version = 3 /\ c.flags = mode /\ c.ba = [i \in 1..Len(ba) |-> f[i]]

\* What is written, byte by byte.
LEMMA Chained ==
  ASSUME NEW plaintext, NEW key, NEW random, NEW mode,
         Sent(plaintext, random, mode) \in Seq(Byte)
  PROVE  \E f : /\ Chain(f, Sent(plaintext, random, mode), key)
                /\ Cypher(encryptToByteArray(plaintext, key, random, mode),
                          Sent(plaintext, random, mode), mode, f)
<1> DEFINE ba == Sent(plaintext, random, mode)
           c == encryptToByteArray(plaintext, key, random, mode)
           n == Len(ba)
           next(i, l) == Xor(Xor(ba[i], Part(splitKey(key), i)), l)
           step == [p \in (1..n) \X Byte |-> next(p[1], p[2])]
           Is(f) == f = [i \in 0..n |-> IF i = 0 THEN {} ELSE next(i, f[i - 1])]
           loop == CHOOSE f : Is(f)
<1>1. c = [version |-> 3, flags |-> mode, ba |-> [i \in DOMAIN ba |-> loop[i]]]
  BY Zenon DEF encryptToByteArray, Sent
<1> HIDE DEF ba, c, loop
<1>2. n \in Nat /\ DOMAIN ba = 1..n /\ \A i \in 1..n : ba[i] \in Byte
  BY DEF ba
<1> HIDE DEF n
<1>3. \A i \in 1..n : \A l \in Byte : next(i, l) \in Byte
  <2> SUFFICES ASSUME NEW i \in 1..n, NEW l \in Byte
               PROVE  next(i, l) \in Byte
    OBVIOUS
  <2>1. i \in Nat \ {0}
    BY <1>2
  <2> QED
    BY <1>2, <2>1, PartBytes, XorBytes
<1> HIDE DEF next
<1>4. step \in [(1..n) \X Byte -> Byte]
  BY <1>3
<1>5. PICK f : Iterates(f, n, Byte, {}, step)
  <2> HIDE DEF step
  <2>1. {} \in Byte
    BY DEF Byte
  <2> QED
    BY <1>2, <1>4, <2>1, Iteration, Zenon
<1>6. f \in [0..n -> Byte] /\ f[0] = {}
  BY <1>5 DEF Iterates
<1>7. \A i \in 1..n : f[i] = next(i, f[i - 1])
  <2> SUFFICES ASSUME NEW i \in 1..n
               PROVE  f[i] = next(i, f[i - 1])
    OBVIOUS
  <2>1. f[i - 1] \in Byte
    BY <1>2, <1>6
  <2>2. step[<<i, f[i - 1]>>] = next(i, f[i - 1])
    BY <2>1
  <2> HIDE DEF step
  <2> QED
    BY <1>5, <2>1, <2>2 DEF Iterates
<1>8. Is(f)
  BY <1>2, <1>6, <1>7
<1>9. Is(loop)
  BY <1>8, Zenon DEF loop
<1>10. loop[0] = {} /\ \A i \in 1..n : loop[i] = next(i, loop[i - 1])
  <2>1. \A i \in 0..n : loop[i] = IF i = 0 THEN {} ELSE next(i, loop[i - 1])
    BY <1>9, Zenon
  <2>2. 0 \in 0..n /\ \A i \in 1..n : i \in 0..n /\ i # 0
    BY <1>2
  <2> QED
    BY <2>1, <2>2, Zenon
<1>11. Chain(loop, ba, key)
  BY <1>10, Zenon DEF Chain, next, n
<1>12. Cypher(c, ba, mode, loop)
  BY <1>1, <1>2 DEF Cypher, n
<1> QED
  BY <1>11, <1>12, Zenon DEF ba, c

LEMMA TailOf ==
  ASSUME NEW S, NEW a \in S, NEW s \in Seq(S), NEW t \in Seq(S)
  PROVE  Tail(<<a>> \o s \o t) = s \o t
<1>1. <<a>> \o s \o t \in Seq(S) /\ s \o t \in Seq(S)
  OBVIOUS
<1>2. Len(Tail(<<a>> \o s \o t)) = Len(s \o t)
  OBVIOUS
<1>3. \A i \in 1..Len(s \o t) : Tail(<<a>> \o s \o t)[i] = (s \o t)[i]
  OBVIOUS
<1> QED
  BY <1>1, <1>2, <1>3

\* Whatever is encrypted can be decrypted with the same key.
LEMMA DecryptsBack ==
  ASSUME NEW plain \in Seq(Byte), NEW key, NEW random \in Byte, NEW mode \in Mode
  PROVE  decryptToByteArray(encryptToByteArray(plain, key, random, mode), key) = plain
<1> DEFINE sum == Integrity(mode, plain)
           ba == Sent(plain, random, mode)
           c == encryptToByteArray(plain, key, random, mode)
           m == Length(mode)
           x(i) == Part(splitKey(key), i)
<1>1. sum \in Seq(Byte) /\ m \in Nat /\ Len(sum) = m
  BY IntegrityBytes
<1> HIDE DEF sum, m
<1>2. ba \in Seq(Byte) /\ ba = <<random>> \o sum \o plain
  BY <1>1 DEF Sent, sum
<1>3. PICK f : Chain(f, ba, key) /\ Cypher(c, ba, mode, f)
  BY <1>2, Chained, Zenon
<1> HIDE DEF c, ba
<1>4. c.version = 3 /\ c.flags = mode
  BY <1>3 DEF Cypher
<1>5. Unchain(c.ba, splitKey(key)) = ba
  <2> DEFINE n == Len(ba)
             before(i) == IF i = 1 THEN {} ELSE c.ba[i - 1]
  <2>1. n \in Nat /\ ba \in [1..n -> Byte]
    BY <1>2, LenProperties, Zenon
  <2>2. c.ba = [i \in 1..n |-> f[i]] /\ f[0] = {}
    BY <1>3 DEF Cypher, Chain
  <2>3. \A i \in 1..n : f[i] = Xor(Xor(ba[i], x(i)), f[i - 1])
    BY <1>3, Zenon DEF Chain
  <2> HIDE DEF n, x
  <2>4. ASSUME NEW i \in 1..n
        PROVE  Xor(Xor(c.ba[i], before(i)), x(i)) = ba[i]
    <3>1. before(i) = f[i - 1]
      <4>1. CASE i = 1
        BY <2>2, <4>1
      <4>2. CASE i # 1
        <5>1. i - 1 \in 1..n
          BY <2>1, <4>2
        <5>2. c.ba[i - 1] = f[i - 1]
          BY <2>2, <5>1
        <5> QED
          BY <4>2, <5>2
      <4> QED
        BY <4>1, <4>2
    <3>2. c.ba[i] = Xor(Xor(ba[i], x(i)), f[i - 1])
      BY <2>2, <2>3
    <3>3. Xor(Xor(Xor(Xor(ba[i], x(i)), f[i - 1]), f[i - 1]), x(i)) = ba[i]
      BY XorTwice, Zenon
    <3> HIDE DEF before
    <3> QED
      BY <3>1, <3>2, <3>3, Zenon
  <2>5. DOMAIN c.ba = 1..n
    BY <2>2
  <2>6. Unchain(c.ba, splitKey(key)) = [i \in 1..n |-> Xor(Xor(c.ba[i], before(i)), x(i))]
    BY <2>5, Zenon DEF Unchain, x
  <2> HIDE DEF before
  <2> QED
    BY <2>1, <2>4, <2>6
<1> DEFINE body == Tail(ba)
<1>6. body = sum \o plain /\ Len(body) = m + Len(plain)
  <2>1. sum \o plain \in Seq(Byte) /\ Len(sum \o plain) = m + Len(plain)
    BY <1>1
  <2>2. body = sum \o plain
    BY <1>1, <1>2, TailOf, Zenon
  <2> QED
    BY <2>1, <2>2, Zenon
<1>7. SubSeq(body, 1, m) = sum /\ SubSeq(body, m + 1, Len(body)) = plain
  <2> HIDE DEF body
  <2>1. SubSeq(sum \o plain, 1, m) = sum
    BY <1>1
  <2>2. SubSeq(sum \o plain, m + 1, m + Len(plain)) = plain
    BY <1>1
  <2> QED
    BY <1>6, <2>1, <2>2
<1> HIDE DEF body, m
<1>8. Len(body) >= m
  BY <1>1, <1>6
<1> QED
  BY <1>4, <1>5, <1>7, <1>8 DEF decryptToByteArray, body, sum, m, c


-----------------------------------------------------------------------------
(* Texts without some of their characters                                  *)

\* Induction over sequences, from the empty one by Append.
LEMMA SeqInd ==
  ASSUME NEW S, NEW T, <<>> \in T, \A s \in Seq(S) : \A x \in S : s \in T => Append(s, x) \in T
  PROVE  Seq(S) \subseteq T
<1> DEFINE U == {n \in Nat : \A s \in Seq(S) : Len(s) = n => s \in T}
<1>1. 0 \in U
  OBVIOUS
<1>2. ASSUME NEW n \in Nat, n \in U
      PROVE  n + 1 \in U
  <2> SUFFICES ASSUME NEW s \in Seq(S), Len(s) = n + 1
               PROVE  s \in T
    OBVIOUS
  <2>1. s # <<>>
    OBVIOUS
  <2>2. PICK r \in Seq(S), x \in S : s = Append(r, x)
    BY <2>1, SequenceEmptyOrAppend, Zenon
  <2>3. Len(r) = n
    BY <2>2
  <2> QED
    BY <1>2, <2>2, <2>3
<1>3. Nat \subseteq U
  <2> HIDE DEF U
  <2> QED
    BY <1>1, <1>2, NatInd
<1> SUFFICES ASSUME NEW s \in Seq(S)
             PROVE  s \in T
  OBVIOUS
<1>4. Len(s) \in Nat
  OBVIOUS
<1> QED
  BY <1>3, <1>4

\* What Without keeps of t, round by round.
Keeps(kept, t, drop) ==
  /\ kept[0] = <<>>
  /\ \A i \in 1..Len(t) :
       kept[i] = IF t[i] \in drop THEN kept[i - 1] ELSE Append(kept[i - 1], t[i])
  /\ Without(t, drop) = kept[Len(t)]

LEMMA WithoutIs ==
  ASSUME NEW S, NEW t \in Seq(S), NEW drop
  PROVE  \E kept \in [0..Len(t) -> Seq(S)] : Keeps(kept, t, drop)
<1> DEFINE n == Len(t)
           next(i, l) == IF t[i] \in drop THEN l ELSE Append(l, t[i])
           step == [p \in (1..n) \X Seq(S) |-> next(p[1], p[2])]
           Is(f) == f = [i \in 0..n |-> IF i = 0 THEN <<>> ELSE next(i, f[i - 1])]
           kept == CHOOSE f : Is(f)
<1>1. Without(t, drop) = kept[n]
  BY Zenon DEF Without
<1>2. n \in Nat /\ \A i \in 1..n : t[i] \in S
  OBVIOUS
<1> HIDE DEF n, kept
<1>3. \A i \in 1..n : \A l \in Seq(S) : next(i, l) \in Seq(S)
  BY <1>2
<1> HIDE DEF next
<1>4. step \in [(1..n) \X Seq(S) -> Seq(S)]
  BY <1>3
<1>5. PICK f : Iterates(f, n, Seq(S), <<>>, step)
  <2> HIDE DEF step
  <2>1. <<>> \in Seq(S)
    OBVIOUS
  <2> QED
    BY <1>2, <1>4, <2>1, Iteration, Zenon
<1>6. f \in [0..n -> Seq(S)] /\ f[0] = <<>>
  BY <1>5 DEF Iterates
<1>7. \A i \in 1..n : f[i] = next(i, f[i - 1])
  <2> SUFFICES ASSUME NEW i \in 1..n
               PROVE  f[i] = next(i, f[i - 1])
    OBVIOUS
  <2>1. f[i - 1] \in Seq(S)
    BY <1>2, <1>6
  <2>2. step[<<i, f[i - 1]>>] = next(i, f[i - 1])
    BY <2>1
  <2> HIDE DEF step
  <2> QED
    BY <1>5, <2>1, <2>2 DEF Iterates
<1>8. Is(f)
  BY <1>2, <1>6, <1>7
<1>9. Is(kept)
  BY <1>8, Zenon DEF kept
<1>10. kept[0] = <<>> /\ \A i \in 1..n : kept[i] = next(i, kept[i - 1])
  <2>1. \A i \in 0..n : kept[i] = IF i = 0 THEN <<>> ELSE next(i, kept[i - 1])
    BY <1>9, Zenon
  <2>2. 0 \in 0..n /\ \A i \in 1..n : i \in 0..n /\ i # 0
    BY <1>2
  <2> QED
    BY <2>1, <2>2, Zenon
<1>11. \A i \in 0..n : kept[i] \in Seq(S)
  <2> DEFINE T == {i \in 0..n : kept[i] \in Seq(S)}
  <2>1. 0 \in T
    <3>1. 0 \in 0..n /\ <<>> \in Seq(S)
      BY <1>2
    <3> QED
      BY <1>10, <3>1, Zenon
  <2>2. \A i \in 1..n : i - 1 \in T => i \in T
    BY <1>2, <1>3, <1>10
  <2> HIDE DEF T
  <2>3. 0..n \subseteq T
    BY <1>2, <2>1, <2>2, UpTo
  <2> QED
    BY <2>3 DEF T
<1>12. kept \in [0..n -> Seq(S)]
  <2> DEFINE e(i) == IF i = 0 THEN <<>> ELSE next(i, kept[i - 1])
  <2>1. kept = [i \in 0..n |-> e(i)]
    BY <1>9
  <2> HIDE DEF e
  <2> QED
    BY <1>11, <2>1
<1>13. Keeps(kept, t, drop)
  BY <1>1, <1>10, Zenon DEF Keeps, n, next
<1> QED
  BY <1>12, <1>13, Zenon DEF n

LEMMA WithoutAppend ==
  ASSUME NEW S, NEW s \in Seq(S), NEW x \in S, NEW drop
  PROVE  /\ Without(s, drop) \in Seq(S)
         /\ Without(Append(s, x), drop) =
              IF x \in drop THEN Without(s, drop) ELSE Append(Without(s, drop), x)
<1> DEFINE n == Len(s)
           t == Append(s, x)
<1>1. PICK f \in [0..n -> Seq(S)] : Keeps(f, s, drop)
  BY WithoutIs
<1>2. /\ t \in Seq(S) /\ n \in Nat /\ Len(t) = n + 1 /\ t[n + 1] = x
      /\ \A i \in 1..n : t[i] = s[i]
  OBVIOUS
<1> HIDE DEF t
<1>3. PICK g \in [0..Len(t) -> Seq(S)] : Keeps(g, t, drop)
  BY <1>2, WithoutIs, Zenon
<1>4. /\ f[0] = <<>> /\ f[n] = Without(s, drop)
      /\ \A i \in 1..n : f[i] = IF s[i] \in drop THEN f[i - 1] ELSE Append(f[i - 1], s[i])
  BY <1>1 DEF Keeps
<1>5. /\ g[0] = <<>> /\ g[n + 1] = Without(t, drop)
      /\ \A i \in 1..(n + 1) : g[i] = IF t[i] \in drop THEN g[i - 1] ELSE Append(g[i - 1], t[i])
  BY <1>2, <1>3 DEF Keeps
<1> HIDE DEF n
<1>6. f[n] = g[n]
  <2> DEFINE T == {i \in 0..n : f[i] = g[i]}
  <2>1. 0 \in T
    BY <1>2, <1>4, <1>5
  <2>2. ASSUME NEW i \in 1..n, i - 1 \in T
        PROVE  i \in T
    <3>1. f[i - 1] = g[i - 1] /\ t[i] = s[i] /\ i \in 1..(n + 1) /\ i \in 0..n
      BY <1>2, <2>2
    <3>2. f[i] = g[i]
      BY <1>4, <1>5, <3>1, Zenon
    <3> QED
      BY <3>1, <3>2
  <2> HIDE DEF T
  <2>3. 0..n \subseteq T
    BY <1>2, <2>1, <2>2, UpTo
  <2> QED
    BY <1>2, <2>3 DEF T
<1>7. Without(t, drop) = IF x \in drop THEN g[n] ELSE Append(g[n], x)
  <2>1. n + 1 \in 1..(n + 1) /\ (n + 1) - 1 = n
    BY <1>2
  <2> QED
    BY <1>2, <1>5, <2>1
<1>8. f[n] \in Seq(S)
  <2>1. n \in 0..n
    BY <1>2
  <2> QED
    BY <1>1, <2>1 DEF n
<1> QED
  BY <1>4, <1>6, <1>7, <1>8, Zenon DEF t

LEMMA WithoutEmpty ==
  ASSUME NEW drop
  PROVE  Without(<<>>, drop) = <<>>
<1>1. <<>> \in Seq({}) /\ Len(<<>>) = 0
  OBVIOUS
<1>2. PICK f \in [0..Len(<<>>) -> Seq({})] : Keeps(f, <<>>, drop)
  BY <1>1, WithoutIs, Zenon
<1> QED
  BY <1>1, <1>2, Zenon DEF Keeps

LEMMA ConcatAppend ==
  ASSUME NEW S, NEW s \in Seq(S), NEW t \in Seq(S), NEW x \in S
  PROVE  s \o Append(t, x) = Append(s \o t, x) /\ s \o t \in Seq(S)
OBVIOUS

LEMMA WithoutConcat ==
  ASSUME NEW S, NEW s \in Seq(S), NEW drop
  PROVE  \A t \in Seq(S) : Without(s \o t, drop) = Without(s, drop) \o Without(t, drop)
<1> DEFINE W(t) == Without(t, drop)
           T == {t \in Seq(S) : W(s \o t) = W(s) \o W(t)}
<1>1. <<>> \in T
  <2>1. s \o <<>> = s /\ <<>> \in Seq(S)
    OBVIOUS
  <2>2. W(s) \in Seq(S)
    <3>1. CASE S = {}
      <4>1. s = <<>>
        BY <3>1
      <4> QED
        BY <2>1, <4>1, WithoutEmpty
    <3>2. CASE S # {}
      BY <3>2, WithoutAppend
    <3> QED
      BY <3>1, <3>2
  <2> DEFINE w == W(s)
  <2> HIDE DEF w
  <2>3. w \in Seq(S)
    BY <2>2 DEF w
  <2>4. w \o <<>> = w
    BY <2>3
  <2> QED
    BY <2>1, <2>4, WithoutEmpty, Zenon DEF w
<1>2. ASSUME NEW t \in Seq(S), NEW x \in S, t \in T
      PROVE  Append(t, x) \in T
  <2>1. s \o Append(t, x) = Append(s \o t, x) /\ s \o t \in Seq(S) /\ Append(t, x) \in Seq(S)
    OBVIOUS
  <2> DEFINE a == W(s)
             b == W(t)
             c == W(s \o t)
  <2>2. a \in Seq(S) /\ b \in Seq(S) /\ c = a \o b
    BY <1>2, WithoutAppend
  <2>3. /\ W(Append(t, x)) = IF x \in drop THEN b ELSE Append(b, x)
        /\ W(Append(s \o t, x)) = IF x \in drop THEN c ELSE Append(c, x)
    <3>1. W(Append(t, x)) = IF x \in drop THEN b ELSE Append(b, x)
      BY WithoutAppend
    <3> DEFINE st == s \o t
    <3> HIDE DEF st
    <3>2. st \in Seq(S)
      BY <2>1 DEF st
    <3>3. W(Append(st, x)) = IF x \in drop THEN W(st) ELSE Append(W(st), x)
      BY <3>2, WithoutAppend
    <3> HIDE DEF W
    <3> QED
      BY <3>1, <3>3, Zenon DEF st
  <2> HIDE DEF a, b, c
  <2>4. a \o Append(b, x) = Append(a \o b, x)
    <3>1. a \in Seq(S) /\ b \in Seq(S)
      BY <2>2
    <3> QED
      BY <3>1, ConcatAppend, SMT
  <2>5. W(s \o Append(t, x)) = a \o W(Append(t, x))
    BY <2>1, <2>2, <2>3, <2>4, Zenon
  <2> HIDE DEF W
  <2> QED
    BY <2>1, <2>5, Zenon DEF a
<1>3. Seq(S) \subseteq T
  <2> HIDE DEF T
  <2> QED
    BY <1>1, <1>2, SeqInd
<1> QED
  BY <1>3

LEMMA WithoutAll ==
  ASSUME NEW drop
  PROVE  \A t \in Seq(drop) : Without(t, drop) = <<>>
<1> DEFINE T == {t \in Seq(drop) : Without(t, drop) = <<>>}
<1>1. <<>> \in T
  BY WithoutEmpty
<1>2. ASSUME NEW t \in Seq(drop), NEW x \in drop, t \in T
      PROVE  Append(t, x) \in T
  BY <1>2, WithoutAppend
<1>3. Seq(drop) \subseteq T
  <2> HIDE DEF T
  <2> QED
    BY <1>1, <1>2, SeqInd
<1> QED
  BY <1>3

\* What is put between two parts and dropped changes nothing.
LEMMA WithoutBetween ==
  ASSUME NEW S, NEW a \in Seq(S), NEW b \in Seq(S), NEW m \in Seq(S), NEW drop,
         m \in Seq(drop)
  PROVE  Without(a \o m \o b, drop) = Without(a \o b, drop)
<1>1. a \o m \in Seq(S)
  OBVIOUS
<1> DEFINE am == a \o m
           w == Without(a, drop)
<1>2. Without(a, drop) \in Seq(S) \/ S = {}
  BY WithoutAppend
<1>8. am \in Seq(S)
  BY <1>1
<1> HIDE DEF am
<1>3. Without(am \o b, drop) = Without(am, drop) \o Without(b, drop)
  BY <1>8, WithoutConcat
<1>4. Without(am, drop) = w \o Without(m, drop)
  BY WithoutConcat DEF am
<1>5. Without(m, drop) = <<>>
  BY WithoutAll
<1>6. w \o <<>> = w
  <2> HIDE DEF w
  <2>1. CASE w \in Seq(S)
    BY <2>1
  <2>2. CASE S = {}
    <3>1. a = <<>>
      BY <2>2
    <3> QED
      BY <3>1, WithoutEmpty DEF w
  <2> QED
    BY <1>2, <2>1, <2>2 DEF w
<1>7. Without(a \o b, drop) = w \o Without(b, drop)
  BY WithoutConcat
<1> QED
  BY <1>3, <1>4, <1>5, <1>6, <1>7, Zenon DEF am

-----------------------------------------------------------------------------
(* Phone numbers                                                           *)

\* QString::insert, also beyond the end, where it fills with blanks.
LEMMA InsertKeeps ==
  ASSUME NEW S, NEW drop, NEW p \in Seq(S), NEW pos \in Int, NEW c \in S, c \in drop,
         Space \in S, Space \in drop
  PROVE  Insert(p, pos, c) \in Seq(S) /\ Without(Insert(p, pos, c), drop) = Without(p, drop)
<1> DEFINE spot == IF pos < 0 THEN pos + Len(p) ELSE pos
<1>1. spot \in Int /\ Len(p) \in Nat
  OBVIOUS
<1>2. Insert(p, pos, c) = IF spot < 0 THEN p
                          ELSE IF spot <= Len(p) THEN InsertAt(p, spot + 1, c)
                          ELSE p \o [i \in 1..(spot - Len(p)) |-> Space] \o <<c>>
  BY DEF Insert
<1> HIDE DEF spot
<1>3. CASE spot < 0
  BY <1>2, <1>3
<1>4. CASE ~(spot < 0) /\ spot <= Len(p)
  <2> DEFINE a == SubSeq(p, 1, spot)
             b == SubSeq(p, spot + 1, Len(p))
             m == <<c>>
  <2>1. Insert(p, pos, c) = a \o m \o b
    <3> DEFINE k == spot + 1
    <3>1. k - 1 = spot
      BY <1>1
    <3>2. Insert(p, pos, c) = InsertAt(p, k, c) /\ b = SubSeq(p, k, Len(p))
      BY <1>2, <1>4
    <3> HIDE DEF k
    <3>3. InsertAt(p, k, c) = SubSeq(p, 1, k - 1) \o m \o SubSeq(p, k, Len(p))
      BY DEF InsertAt
    <3> HIDE DEF b, m
    <3> QED
      BY <3>1, <3>2, <3>3
  <2>2. a \in Seq(S) /\ b \in Seq(S) /\ m \in Seq(S) /\ m \in Seq(drop)
    BY <1>1, <1>4
  <2>3. a \o b = p
    <3>1. 1 \in 1..(Len(p) + 1) /\ spot \in (1 - 1)..Len(p) /\ Len(p) \in spot..Len(p)
      BY <1>1, <1>4
    <3>2. SubSeq(p, 1, spot) \o SubSeq(p, spot + 1, Len(p)) = SubSeq(p, 1, Len(p))
      BY <3>1, ConcatAdjacentSubSeq
    <3>3. SubSeq(p, 1, Len(p)) = p
      BY SubSeqFull
    <3> QED
      BY <3>2, <3>3, Zenon
  <2> HIDE DEF a, b, m
  <2>4. a \o m \o b \in Seq(S)
    BY <2>2
  <2>5. Without(a \o m \o b, drop) = Without(a \o b, drop)
    BY <2>2, WithoutBetween
  <2> QED
    BY <2>1, <2>3, <2>4, <2>5, Zenon
<1>5. CASE spot > Len(p)
  <2> DEFINE blanks == [i \in 1..(spot - Len(p)) |-> Space]
             m == <<c>>
  <2>1. blanks \in Seq(S) /\ blanks \in Seq(drop) /\ m \in Seq(S) /\ m \in Seq(drop)
    BY <1>1, <1>5
  <2>2. Insert(p, pos, c) = p \o blanks \o m
    <3>1. ~(spot < 0) /\ ~(spot <= Len(p))
      BY <1>1, <1>5
    <3> QED
      BY <1>2, <3>1
  <2> HIDE DEF blanks, m
  <2>3. p \o blanks \o m \in Seq(S)
    BY <2>1
  <2>4. Without(p \o blanks \o m, drop) = Without(p \o m, drop)
    BY <2>1, WithoutBetween
  <2>5. Without(p \o m, drop) = Without(p, drop)
    <3>1. p \o m = Append(p, c)
      BY AppendIsConcat DEF m
    <3> QED
      BY <3>1, WithoutAppend
  <2> QED
    BY <2>2, <2>3, <2>4, <2>5, Zenon
<1> QED
  BY <1>1, <1>3, <1>4, <1>5

\* Whatever the format and the offset, only blanks and what the format has are added.
LEMMA FormatKeeps ==
  ASSUME NEW S, NEW drop, NEW p \in Seq(S), NEW f \in Seq(S), f # <<>>, NEW off \in Int,
         Space \in S, Space \in drop, \A i \in 1..Len(f) : f[i] = "0" \/ f[i] \in drop
  PROVE  Without(formatPhone(p, f, off), drop) = Without(p, drop)
<1> DEFINE n == Len(f) - 1
           R == [p : {q \in Seq(S) : Without(q, drop) = Without(p, drop)}, off : Int]
           start == IF p # <<>> /\ p[1] = "+"
                      THEN [p |-> Insert(p, 3, Space), off |-> 4]
                      ELSE [p |-> p, off |-> off]
           next(i, l) == IF f[i] = "0" THEN l
                         ELSE [p |-> Insert(l.p, l.off + i - 1, f[i]), off |-> l.off + 1]
           step == [q \in (1..n) \X R |-> next(q[1], q[2])]
           Is(g) == g = [i \in 0..n |-> IF i = 0 THEN start ELSE next(i, g[i - 1])]
           loop == CHOOSE g : Is(g)
<1>1. formatPhone(p, f, off) = loop[n].p
  BY Zenon DEF formatPhone
<1>2. n \in Nat /\ \A i \in 1..n : f[i] \in S /\ (f[i] = "0" \/ f[i] \in drop)
  OBVIOUS
<1> HIDE DEF n, loop
<1>3. start \in R
  <2>1. CASE p # <<>> /\ p[1] = "+"
    <3> DEFINE q == Insert(p, 3, Space)
    <3>1. 3 \in Int /\ 4 \in Int
      OBVIOUS
    <3>2. q \in Seq(S) /\ Without(q, drop) = Without(p, drop)
      BY <3>1, InsertKeeps
    <3> HIDE DEF q
    <3>3. [p |-> q, off |-> 4] \in R
      BY <3>1, <3>2
    <3> QED
      BY <2>1, <3>3, Zenon DEF q
  <2>2. CASE ~(p # <<>> /\ p[1] = "+")
    <3>1. [p |-> p, off |-> off] \in R
      OBVIOUS
    <3> QED
      BY <2>2, <3>1, Zenon
  <2> QED
    BY <2>1, <2>2, Zenon
<1>4. \A i \in 1..n : \A l \in R : next(i, l) \in R
  <2> SUFFICES ASSUME NEW i \in 1..n, NEW l \in R
               PROVE  next(i, l) \in R
    OBVIOUS
  <2>1. CASE f[i] = "0"
    BY <2>1, Zenon
  <2>2. CASE f[i] # "0"
    <3>1. f[i] \in S /\ f[i] \in drop
      BY <1>2, <2>2
    <3>2. l.p \in Seq(S) /\ Without(l.p, drop) = Without(p, drop) /\ l.off \in Int
      OBVIOUS
    <3> DEFINE pos == l.off + i - 1
               q == Insert(l.p, pos, f[i])
    <3>3. pos \in Int /\ l.off + 1 \in Int
      BY <1>2, <3>2
    <3> HIDE DEF pos
    <3>4. q \in Seq(S) /\ Without(q, drop) = Without(l.p, drop)
      BY <3>1, <3>2, <3>3, InsertKeeps
    <3> HIDE DEF q
    <3>5. [p |-> q, off |-> l.off + 1] \in R
      BY <3>2, <3>3, <3>4
    <3> QED
      BY <2>2, <3>5, Zenon DEF q, pos
  <2> QED
    BY <2>1, <2>2, Zenon
<1> HIDE DEF start, next, R
<1>5. step \in [(1..n) \X R -> R]
  BY <1>4
<1>6. PICK g : Iterates(g, n, R, start, step)
  <2> HIDE DEF step
  <2> QED
    BY <1>2, <1>3, <1>5, Iteration, Zenon
<1>7. g \in [0..n -> R] /\ g[0] = start
  BY <1>6 DEF Iterates
<1>8. \A i \in 1..n : g[i] = next(i, g[i - 1])
  <2> SUFFICES ASSUME NEW i \in 1..n
               PROVE  g[i] = next(i, g[i - 1])
    OBVIOUS
  <2>1. g[i - 1] \in R
    BY <1>2, <1>7
  <2>2. step[<<i, g[i - 1]>>] = next(i, g[i - 1])
    BY <2>1
  <2> HIDE DEF step
  <2> QED
    BY <1>6, <2>1, <2>2 DEF Iterates
<1>9. Is(g)
  BY <1>2, <1>7, <1>8
<1>10. Is(loop)
  BY <1>9, Zenon DEF loop
<1>11. loop[0] = start /\ \A i \in 1..n : loop[i] = next(i, loop[i - 1])
  <2>1. \A i \in 0..n : loop[i] = IF i = 0 THEN start ELSE next(i, loop[i - 1])
    BY <1>10, Zenon
  <2>2. 0 \in 0..n /\ \A i \in 1..n : i \in 0..n /\ i # 0
    BY <1>2
  <2> QED
    BY <2>1, <2>2, Zenon
<1>12. loop[n] \in R
  <2> DEFINE T == {i \in 0..n : loop[i] \in R}
  <2>1. 0 \in T
    BY <1>2, <1>3, <1>11
  <2>2. \A i \in 1..n : i - 1 \in T => i \in T
    BY <1>2, <1>4, <1>11
  <2> HIDE DEF T
  <2>3. 0..n \subseteq T
    BY <1>2, <2>1, <2>2, UpTo
  <2> QED
    BY <1>2, <2>3 DEF T
<1>13. Without(loop[n].p, drop) = Without(p, drop)
  <2> DEFINE l == loop[n]
  <2>1. l \in R
    BY <1>12
  <2> HIDE DEF l
  <2>2. Without(l.p, drop) = Without(p, drop)
    BY <2>1 DEF R
  <2> QED
    BY <2>2 DEF l
<1> QED
  BY <1>1, <1>13, Zenon

LEMMA AtMostOne ==
  ASSUME NEW S, NEW x \in S
  PROVE  <<>> \in Seq(S) /\ <<x>> \in Seq(S)
OBVIOUS

\* What the calls of formatPhone dial.
LEMMA PhoneKeeps ==
  ASSUME NEW n \in 0..5, NEW plus \in {<<>>, <<"+">>}, NEW off \in Garbage,
         NEW f \in BoundedSeq({"0", "-", Space}, MaxFormat)
  PROVE  LET p == plus \o SubSeq(Number, 1, n) IN
         Without(Phone(p, f, off), {"-", Space}) = Without(p, {"-", Space})
<1> DEFINE S == {"+", "1", "2", "3", "4", "5", "0", "-", Space}
           drop == {"-", Space}
           p == plus \o SubSeq(Number, 1, n)
<1>1. f \in Seq({"0", "-", Space})
  BY DEF BoundedSeq, SeqOf
<1>2. f \in Seq(S) /\ \A i \in 1..Len(f) : f[i] = "0" \/ f[i] \in drop
  BY <1>1
<1>3. p \in Seq(S)
  <2>1. Number \in Seq(S) /\ Len(Number) = 5
    BY DEF Number
  <2>2. SubSeq(Number, 1, n) \in Seq(S)
    <3> HIDE DEF S
    <3> QED
      BY <2>1
  <2>3. plus \in Seq(S)
    <3> DEFINE x == "+"
    <3>1. plus = <<>> \/ plus = <<x>>
      OBVIOUS
    <3>2. x \in S
      OBVIOUS
    <3> HIDE DEF S, x
    <3> QED
      BY <3>1, <3>2, AtMostOne, Zenon
  <2> HIDE DEF S
  <2> QED
    BY <2>2, <2>3
<1>4. off \in Int
  BY DocumentsAssumption
<1>5. Space \in S /\ Space \in drop
  OBVIOUS
<1> HIDE DEF S, drop, p
<1>6. Without(Phone(p, f, off), drop) = Without(p, drop)
  <2>1. CASE p # f /\ f # <<>>
    <3>1. Phone(p, f, off) = formatPhone(p, f, off)
      BY <2>1, Zenon DEF Phone
    <3> QED
      BY <1>2, <1>3, <1>4, <1>5, <2>1, <3>1, FormatKeeps
  <2>2. CASE ~(p # f /\ f # <<>>)
    BY <2>2, Zenon DEF Phone
  <2> QED
    BY <2>1, <2>2
<1> QED
  BY <1>6, Zenon DEF drop, p

-----------------------------------------------------------------------------
(* The calls                                                               *)

\* What can be asked.
IsDocument(c) ==
  \E d \in Document, row \in Row : (d # "srinfo" => row.found) /\ c = [of |-> d, row |-> row]

IsPhone(c) ==
  \E n \in 0..5, plus \in {<<>>, <<"+">>}, off \in Garbage,
     f \in BoundedSeq({"0", "-", Space}, MaxFormat) :
    c = [of |-> "phone", p |-> plus \o SubSeq(Number, 1, n), f |-> f, off |-> off]

IsNumbers(c) == \E page \in Page : c = [of |-> "numbers", page |-> page]

IsPassword(c) ==
  \E plain \in BoundedSeq(Byte, MaxPlain), key \in Keys, random \in Byte, mode \in Mode :
    c = [of |-> "password", plain |-> plain, key |-> key,
         cypher |-> encryptToByteArray(plain, key, random, mode)]

IsCall(c) == IsDocument(c) \/ IsPhone(c) \/ IsNumbers(c) \/ IsPassword(c)

\* A call stays what was asked, and the answer is one to it.
IInv ==
  /\ pc # "idle" => IsCall(call)
  /\ pc = "answered" => answer \in AnswersTo(call)

\* One call after the other: what is asked can be asked, and what is answered is made from
\* the row, page, number or cypher of the call.
THEOREM Invariant == Spec => []IInv
<1>1. Init => IInv
  BY DEF Init, IInv
<1>2. IInv /\ [Next]_vars => IInv'
  <2> SUFFICES ASSUME IInv, [Next]_vars
               PROVE  IInv'
    OBVIOUS
  <2>1. CASE AskDocument
    BY <2>1, Zenon DEF AskDocument, Ask, IInv, IsCall, IsDocument
  <2>2. CASE AskPhone
    <3>1. IsPhone(call') /\ pc' = "asked"
      BY <2>2, Zenon DEF AskPhone, Ask, IsPhone
    <3> QED
      BY <3>1 DEF IInv, IsCall
  <2>3. CASE AskStats
    <3>1. IsNumbers(call') /\ pc' = "asked"
      BY <2>3, Zenon DEF AskStats, Ask, IsNumbers
    <3> QED
      BY <3>1 DEF IInv, IsCall
  <2>4. CASE AskPassword
    <3>1. IsPassword(call') /\ pc' = "asked"
      BY <2>4, Zenon DEF AskPassword, Ask, IsPassword
    <3> QED
      BY <3>1 DEF IInv, IsCall
  <2>5. CASE Answer
    <3> HIDE DEF IsCall
    <3>1. IsCall(call) /\ call' = call /\ answer' \in AnswersTo(call)
      BY <2>5 DEF Answer, IInv
    <3> QED
      BY <3>1, Zenon DEF IInv
  <2>6. CASE Done
    BY <2>6 DEF Done, IInv
  <2>7. CASE UNCHANGED vars
    BY <2>7, Zenon DEF vars, IInv
  <2> QED
    BY <2>1, <2>2, <2>3, <2>4, <2>5, <2>6, <2>7, Zenon DEF Next
<1> QED
  BY <1>1, <1>2, PTL DEF Spec

\* Which call an answer is to.
LEMMA CallOf ==
  ASSUME NEW c, IsCall(c)
  PROVE  /\ c.of \in Document => IsDocument(c)
         /\ c.of = "phone" => IsPhone(c)
         /\ c.of = "numbers" => IsNumbers(c)
         /\ c.of = "password" => IsPassword(c)
<1>1. IsDocument(c) => c.of \in Document
  BY DEF IsDocument
<1>2. IsPhone(c) => c.of = "phone"
  BY DEF IsPhone
<1>3. IsNumbers(c) => c.of = "numbers"
  BY DEF IsNumbers
<1>4. IsPassword(c) => c.of = "password"
  BY DEF IsPassword
<1>5. \A d \in Document : d \notin {"phone", "numbers", "password"}
  BY DEF Document
<1> QED
  BY <1>1, <1>2, <1>3, <1>4, <1>5 DEF IsCall

-----------------------------------------------------------------------------
(* Numbers, phone numbers and the password                                 *)

\* XML::stats: the averages of any page of surveys lie between the lowest and the
\* highest rating that was given, left out cells counting neither in the sum nor in the
\* divisor, and no page makes it divide by zero.
THEOREM AveragesStayInRange == Spec => []AveragesInRange
<1>1. IInv => AveragesInRange
  <2> SUFFICES ASSUME IInv, Answered({"numbers"})
               PROVE  AveragesInRange
    BY DEF AveragesInRange
  <2>1. call.of = "numbers" /\ IsCall(call) /\ answer \in AnswersTo(call)
    BY DEF Answered, IInv
  <2>2. PICK page \in Page : call = [of |-> "numbers", page |-> page]
    BY <2>1, CallOf, Zenon DEF IsNumbers
  <2>3. answer = stats(page) /\ call.page = page
    BY <2>1, <2>2 DEF AnswersTo, Document
  <2> QED
    BY <2>3, StatsBetween, Zenon DEF AveragesInRange
<1> QED
  BY <1>1, Invariant, PTL

\* Database::formatPhone adds blanks and what the format has to a number, and takes
\* nothing away and reorders nothing, also where the offset is what the stack had.
THEOREM PhonesDial == Spec => []PhoneDials
<1>1. IInv => PhoneDials
  <2> SUFFICES ASSUME IInv, Answered({"phone"})
               PROVE  PhoneDials
    BY DEF PhoneDials
  <2>1. call.of = "phone" /\ IsCall(call) /\ answer \in AnswersTo(call)
    BY DEF Answered, IInv
  <2>2. PICK n \in 0..5, plus \in {<<>>, <<"+">>}, off \in Garbage,
             f \in BoundedSeq({"0", "-", Space}, MaxFormat) :
          call = [of |-> "phone", p |-> plus \o SubSeq(Number, 1, n), f |-> f, off |-> off]
    BY <2>1, CallOf, Zenon DEF IsPhone
  <2> DEFINE p == plus \o SubSeq(Number, 1, n)
  <2>3. Without(Phone(p, f, off), {"-", Space}) = Without(p, {"-", Space})
    BY PhoneKeeps, Zenon
  <2> HIDE DEF p
  <2>4. answer = Phone(p, f, off) /\ call.p = p
    <3>1. call.p = p /\ call.f = f /\ call.off = off
      BY <2>2 DEF p
    <3> QED
      BY <2>1, <3>1 DEF AnswersTo, Document
  <2> QED
    BY <2>3, <2>4, Zenon DEF PhoneDials
<1> QED
  BY <1>1, Invariant, PTL

\* SimpleCrypt: what encryptToByteArray made with a key, decryptToByteArray reads with the
\* same key, whatever the random byte and the protection are.
THEOREM PasswordsReadBack == Spec => []PasswordReadsBack
<1>1. IInv => PasswordReadsBack
  <2> SUFFICES ASSUME IInv, Answered({"password"})
               PROVE  PasswordReadsBack
    BY DEF PasswordReadsBack
  <2>1. call.of = "password" /\ IsCall(call) /\ answer \in AnswersTo(call)
    BY DEF Answered, IInv
  <2>2. PICK plain \in BoundedSeq(Byte, MaxPlain), key \in Keys, random \in Byte, mode \in Mode :
          call = [of |-> "password", plain |-> plain, key |-> key,
                  cypher |-> encryptToByteArray(plain, key, random, mode)]
    <3>1. IsPassword(call)
      BY <2>1, CallOf, Zenon
    <3> QED
      BY <3>1, Zenon DEF IsPassword
  <2>3. plain \in Seq(Byte)
    BY DEF BoundedSeq, SeqOf
  <2> DEFINE c == encryptToByteArray(plain, key, random, mode)
  <2>4. decryptToByteArray(c, key) = plain
    BY <2>3, DecryptsBack, Zenon
  <2> HIDE DEF c
  <2>5. answer = decryptToByteArray(c, key) /\ call.plain = plain
    <3>1. call.plain = plain /\ call.key = key /\ call.cypher = c
      BY <2>2 DEF c
    <3> QED
      BY <2>1, <3>1 DEF AnswersTo, Document
  <2> QED
    BY <2>4, <2>5, Zenon DEF PasswordReadsBack
<1> QED
  BY <1>1, Invariant, PTL

-----------------------------------------------------------------------------
(* Texts that parse                                                        *)

\* What may stand in CDATA, and what may stand without it.
Clean(t) == Controls(t) = {} /\ ~Holds(t, Cdend)

Bare(t) == Clean(t) /\ ~Holds(t, <<"<">>)

\* The end of CDATA, at its first character.
EndsAt(t, i) == t[i] = "]" /\ t[i + 1] = "]" /\ t[i + 2] = ">"

LEMMA HoldsCdend ==
  ASSUME NEW S, NEW t \in Seq(S)
  PROVE  Holds(t, Cdend) <=> \E i \in 1..(Len(t) - 2) : EndsAt(t, i)
<1>1. \A i \in 1..(Len(t) - 2) : SubSeq(t, i, i + 2) = Cdend <=> EndsAt(t, i)
  <2> SUFFICES ASSUME NEW i \in 1..(Len(t) - 2)
               PROVE  SubSeq(t, i, i + 2) = Cdend <=> EndsAt(t, i)
    OBVIOUS
  <2> DEFINE u == SubSeq(t, i, i + 2)
  <2>1. /\ u \in Seq(S) /\ Len(u) = 3
        /\ u[1] = t[i] /\ u[2] = t[i + 1] /\ u[3] = t[i + 2]
    OBVIOUS
  <2> HIDE DEF u
  <2>2. u = Cdend <=> u[1] = "]" /\ u[2] = "]" /\ u[3] = ">"
    BY <2>1 DEF Cdend
  <2> QED
    BY <2>1, <2>2 DEF EndsAt, u
<1>2. Len(Cdend) = 3
  BY DEF Cdend
<1>3. \A i \in 1..(Len(t) - 3 + 1) : i + 3 - 1 = i + 2 /\ i \in 1..(Len(t) - 2)
  OBVIOUS
<1>4. \A i \in 1..(Len(t) - 2) : i + 3 - 1 = i + 2 /\ i \in 1..(Len(t) - 3 + 1)
  OBVIOUS
<1> QED
  BY <1>1, <1>2, <1>3, <1>4, Zenon DEF Holds

LEMMA HoldsMarkup ==
  ASSUME NEW S, NEW t \in Seq(S), \A i \in 1..Len(t) : t[i] # "<"
  PROVE  ~Holds(t, <<"<">>)
<1>1. \A i \in 1..Len(t) : SubSeq(t, i, i) = <<t[i]>>
  <2> SUFFICES ASSUME NEW i \in 1..Len(t)
               PROVE  SubSeq(t, i, i) = <<t[i]>>
    OBVIOUS
  <2> DEFINE u == SubSeq(t, i, i)
  <2>1. u \in Seq(S) /\ Len(u) = 1 /\ u[1] = t[i]
    OBVIOUS
  <2> HIDE DEF u
  <2>2. u = <<t[i]>>
    BY <2>1
  <2> QED
    BY <2>2 DEF u
<1>2. \A i \in 1..Len(t) : <<t[i]>> # <<"<">>
  OBVIOUS
<1>3. Len(<<"<">>) = 1
  OBVIOUS
<1>4. \A i \in 1..(Len(t) - 1 + 1) : i + 1 - 1 = i /\ i \in 1..Len(t)
  OBVIOUS
<1> QED
  BY <1>1, <1>2, <1>3, <1>4, Zenon DEF Holds

\* .replace( "]]>", "]]&gt;" ): no end of CDATA is left, and no control character added.
LEMMA ProtectIs ==
  ASSUME NEW S, NEW t \in Seq(S)
  PROVE  /\ Protect(t) \in Seq(S \cup {"gt"}) /\ Len(Protect(t)) = Len(t)
         /\ \A i \in 1..Len(t) :
              Protect(t)[i] = IF i > 2 /\ EndsAt(t, i - 2) THEN "gt" ELSE t[i]
         /\ Controls(Protect(t)) = Controls(t) /\ Escapes(Protect(t)) = Escapes(t)
         /\ ~Holds(Protect(t), Cdend)
<1> DEFINE at(i) == i > 2 /\ SubSeq(t, i - 2, i) = Cdend
           P == Protect(t)
<1>1. P = [i \in 1..Len(t) |-> IF at(i) THEN "gt" ELSE t[i]]
  <2>1. DOMAIN t = 1..Len(t)
    OBVIOUS
  <2> QED
    BY <2>1, Zenon DEF Protect
<1>2. \A i \in 1..Len(t) : at(i) <=> i > 2 /\ EndsAt(t, i - 2)
  <2> SUFFICES ASSUME NEW i \in 1..Len(t), i > 2
               PROVE  SubSeq(t, i - 2, i) = Cdend <=> EndsAt(t, i - 2)
    OBVIOUS
  <2> DEFINE u == SubSeq(t, i - 2, i)
  <2>1. /\ u \in Seq(S) /\ Len(u) = 3
        /\ u[1] = t[i - 2] /\ u[2] = t[i - 1] /\ u[3] = t[i]
    OBVIOUS
  <2> HIDE DEF u
  <2>2. u = Cdend <=> u[1] = "]" /\ u[2] = "]" /\ u[3] = ">"
    BY <2>1 DEF Cdend
  <2>3. (i - 2) + 1 = i - 1 /\ (i - 2) + 2 = i
    OBVIOUS
  <2> QED
    BY <2>1, <2>2, <2>3 DEF EndsAt, u
<1> HIDE DEF at, P
<1>3. P \in Seq(S \cup {"gt"}) /\ Len(P) = Len(t)
  BY <1>1
<1>4. \A i \in 1..Len(t) : P[i] = IF i > 2 /\ EndsAt(t, i - 2) THEN "gt" ELSE t[i]
  BY <1>1, <1>2
<1>5. \A i \in 1..Len(t) : (P[i] = "esc" <=> t[i] = "esc") /\ (P[i] = "ctl" <=> t[i] = "ctl")
  <2> SUFFICES ASSUME NEW i \in 1..Len(t)
               PROVE  (P[i] = "esc" <=> t[i] = "esc") /\ (P[i] = "ctl" <=> t[i] = "ctl")
    OBVIOUS
  <2>1. EndsAt(t, i - 2) => t[i] = ">"
    BY DEF EndsAt
  <2> QED
    BY <1>4, <2>1
<1>6. Controls(P) = Controls(t) /\ Escapes(P) = Escapes(t)
  <2>1. DOMAIN P = 1..Len(t) /\ DOMAIN t = 1..Len(t)
    BY <1>1
  <2> QED
    BY <1>5, <2>1 DEF Controls, Escapes
<1>7. ~Holds(P, Cdend)
  <2> SUFFICES ASSUME NEW i \in 1..(Len(t) - 2), EndsAt(P, i)
               PROVE  FALSE
    BY <1>3, HoldsCdend
  <2>1. /\ i \in 1..Len(t) /\ i + 1 \in 1..Len(t) /\ i + 2 \in 1..Len(t)
        /\ i + 2 > 2 /\ (i + 2) - 2 = i
    OBVIOUS
  <2>2. P[i] = "]" /\ P[i + 1] = "]" /\ P[i + 2] = ">"
    BY DEF EndsAt
  <2>3. t[i] = "]" /\ t[i + 1] = "]" /\ t[i + 2] = ">"
    BY <1>4, <2>1, <2>2
  <2>4. P[i + 2] = "gt"
    BY <1>4, <2>1, <2>3 DEF EndsAt
  <2> QED
    BY <2>2, <2>4
<1> QED
  BY <1>3, <1>4, <1>6, <1>7, Zenon DEF P

\* Texts of one character, and of none.
LEMMA OneIsBare ==
  ASSUME NEW c, c \notin {"<", "esc", "ctl"}
  PROVE  Bare(<<c>>)
<1> DEFINE t == <<c>>
<1>1. t \in Seq({c}) /\ Len(t) = 1 /\ t[1] = c
  OBVIOUS
<1> HIDE DEF t
<1>2. Controls(t) = {}
  BY <1>1 DEF Controls
<1>3. ~Holds(t, Cdend)
  <2>1. Holds(t, Cdend) <=> \E i \in 1..(Len(t) - 2) : EndsAt(t, i)
    BY <1>1, HoldsCdend, Zenon
  <2>2. \A i \in 1..(Len(t) - 2) : FALSE
    BY <1>1
  <2> QED
    BY <2>1, <2>2, Zenon
<1>4. \A i \in 1..Len(t) : t[i] # "<"
  BY <1>1
<1>5. ~Holds(t, <<"<">>)
  BY <1>1, <1>4, HoldsMarkup
<1> QED
  BY <1>2, <1>3, <1>5, Zenon DEF Bare, Clean, t

LEMMA NoneIsBare == Bare(<<>>)
<1> DEFINE t == <<>>
<1>1. t \in Seq({}) /\ Len(t) = 0
  OBVIOUS
<1> HIDE DEF t
<1>2. Controls(t) = {}
  BY <1>1 DEF Controls
<1>3. ~Holds(t, Cdend)
  <2>1. Holds(t, Cdend) <=> \E i \in 1..(Len(t) - 2) : EndsAt(t, i)
    BY <1>1, HoldsCdend, Zenon
  <2>2. \A i \in 1..(Len(t) - 2) : FALSE
    BY <1>1
  <2> QED
    BY <2>1, <2>2, Zenon
<1>4. \A i \in 1..Len(t) : t[i] # "<"
  BY <1>1
<1>5. ~Holds(t, <<"<">>)
  BY <1>1, <1>4, HoldsMarkup
<1> QED
  BY <1>2, <1>3, <1>5, Zenon DEF Bare, Clean, t

LEMMA PlainIsBare ==
  /\ \A c \in Column : Bare(Plain(c))
  /\ \A t : Bare(convertTime(t))
  /\ Bare(<<"1">>) /\ Bare(<<"sr">>) /\ Bare(<<"cr">>) /\ Bare(<<>>)
<1>1. /\ Bare(<<"us">>) /\ Bare(<<"iso">>) /\ Bare(<<"bug">>) /\ Bare(<<"x">>)
      /\ Bare(<<"first">>) /\ Bare(<<"second">>)
  BY OneIsBare
<1>2. Bare(<<"1">>) /\ Bare(<<"sr">>) /\ Bare(<<"cr">>)
  BY OneIsBare
<1>3. \A c \in Column : Bare(Plain(c))
  BY <1>1, Zenon DEF Plain
<1>4. \A t : Bare(convertTime(t))
  BY <1>1, NoneIsBare, Zenon DEF convertTime
<1> QED
  BY <1>2, <1>3, <1>4, NoneIsBare

-----------------------------------------------------------------------------
(* Control characters                                                      *)

\* QString::remove of one character.
LEMMA RemoveIs ==
  ASSUME NEW S, NEW t \in Seq(S), NEW m \in 1..Len(t)
  PROVE  /\ RemoveAt(t, m) \in Seq(S) /\ Len(RemoveAt(t, m)) = Len(t) - 1
         /\ \A i \in 1..(Len(t) - 1) : RemoveAt(t, m)[i] = IF i < m THEN t[i] ELSE t[i + 1]
<1> DEFINE a == SubSeq(t, 1, m - 1)
           b == SubSeq(t, m + 1, Len(t))
<1>1. RemoveAt(t, m) = a \o b
  BY DEF RemoveAt
<1>2. /\ a \in Seq(S) /\ b \in Seq(S) /\ Len(a) = m - 1 /\ Len(b) = Len(t) - m
      /\ \A i \in 1..(m - 1) : a[i] = t[i]
      /\ \A i \in 1..(Len(t) - m) : b[i] = t[m + i]
  OBVIOUS
<1> HIDE DEF a, b
<1>3. /\ a \o b \in Seq(S) /\ Len(a \o b) = Len(a) + Len(b)
      /\ \A i \in 1..(Len(a) + Len(b)) :
           (a \o b)[i] = IF i <= Len(a) THEN a[i] ELSE b[i - Len(a)]
  BY <1>2, ConcatProperties, Zenon
<1> DEFINE q == a \o b
<1> HIDE DEF q
<1>4. /\ q \in Seq(S) /\ Len(q) = Len(t) - 1
      /\ \A i \in 1..(Len(t) - 1) : q[i] = IF i <= m - 1 THEN a[i] ELSE b[i - (m - 1)]
  BY <1>2, <1>3 DEF q
<1>5. ASSUME NEW i \in 1..(Len(t) - 1)
      PROVE  q[i] = IF i < m THEN t[i] ELSE t[i + 1]
  <2>1. CASE i < m
    <3>1. i \in 1..(m - 1) /\ i <= m - 1
      BY <2>1
    <3> QED
      BY <1>2, <1>4, <2>1, <3>1
  <2>2. CASE ~(i < m)
    <3>1. i - (m - 1) \in 1..(Len(t) - m) /\ ~(i <= m - 1) /\ m + (i - (m - 1)) = i + 1
      BY <2>2
    <3> QED
      BY <1>2, <1>4, <2>2, <3>1
  <2> QED
    BY <2>1, <2>2
<1> QED
  BY <1>1, <1>4, <1>5, Zenon DEF q

LEMMA WithoutRemove ==
  ASSUME NEW S, NEW t \in Seq(S), NEW m \in 1..Len(t), NEW drop, t[m] \in drop
  PROVE  Without(RemoveAt(t, m), drop) = Without(t, drop)
<1> DEFINE a == SubSeq(t, 1, m - 1)
           b == SubSeq(t, m + 1, Len(t))
           c == <<t[m]>>
<1>1. RemoveAt(t, m) = a \o b
  BY DEF RemoveAt
<1>2. /\ a \in Seq(S) /\ b \in Seq(S) /\ c \in Seq(S) /\ c \in Seq(drop)
      /\ Len(a) = m - 1 /\ Len(b) = Len(t) - m /\ Len(c) = 1 /\ c[1] = t[m]
      /\ \A i \in 1..(m - 1) : a[i] = t[i]
      /\ \A i \in 1..(Len(t) - m) : b[i] = t[m + i]
  OBVIOUS
<1> HIDE DEF a, b, c
<1>3. a \o c \o b = t
  <2>1. SubSeq(t, 1, m - 1) \o SubSeq(t, (m - 1) + 1, m) = SubSeq(t, 1, m)
    <3>1. 1 \in 1..(Len(t) + 1) /\ m - 1 \in (1 - 1)..Len(t) /\ m \in (m - 1)..Len(t)
      OBVIOUS
    <3> QED
      BY <3>1, ConcatAdjacentSubSeq
  <2>2. SubSeq(t, 1, m) \o SubSeq(t, m + 1, Len(t)) = SubSeq(t, 1, Len(t))
    <3>1. 1 \in 1..(Len(t) + 1) /\ m \in (1 - 1)..Len(t) /\ Len(t) \in m..Len(t)
      OBVIOUS
    <3> QED
      BY <3>1, ConcatAdjacentSubSeq
  <2>3. SubSeq(t, 1, Len(t)) = t
    BY SubSeqFull
  <2>4. (m - 1) + 1 = m
    OBVIOUS
  <2>5. SubSeq(t, m, m) = c
    <3> DEFINE u == SubSeq(t, m, m)
    <3>1. u \in Seq(S) /\ Len(u) = 1 /\ u[1] = t[m]
      OBVIOUS
    <3> HIDE DEF u
    <3>2. u = c
      BY <1>2, <3>1
    <3> QED
      BY <3>2 DEF u
  <2> QED
    BY <2>1, <2>2, <2>3, <2>4, <2>5, Zenon DEF a, b
<1>4. Without(a \o c \o b, drop) = Without(a \o b, drop)
  BY <1>2, WithoutBetween
<1> QED
  BY <1>1, <1>3, <1>4, Zenon

LEMMA UnprotectIs ==
  ASSUME NEW S, NEW t \in Seq(S)
  PROVE  /\ Unprotect(t) \in Seq(S \cup {">"}) /\ Len(Unprotect(t)) = Len(t)
         /\ \A i \in 1..Len(t) : Unprotect(t)[i] = IF t[i] = "gt" THEN ">" ELSE t[i]
BY DEF Unprotect

\* No character that escapeString looks for comes right after or two after another.
Spread(t) == \A i, j \in Escapes(t) : i < j => j - i > 2

\* A removal of any of them leaves the visible text.
LEMMA RemoveKeeps ==
  ASSUME NEW S, NEW t \in Seq(S), NEW m \in Escapes(t)
  PROVE  /\ m \in 1..Len(t)
         /\ RemoveAt(t, m) \in Seq(S) /\ Len(RemoveAt(t, m)) = Len(t) - 1
         /\ Visible(Unprotect(RemoveAt(t, m))) = Visible(Unprotect(t))
<1> DEFINE q == RemoveAt(t, m)
           u == Unprotect(t)
<1>1. m \in 1..Len(t) /\ t[m] = "esc"
  BY DEF Escapes
<1>2. /\ q \in Seq(S) /\ Len(q) = Len(t) - 1
      /\ \A i \in 1..(Len(t) - 1) : q[i] = IF i < m THEN t[i] ELSE t[i + 1]
  BY <1>1, RemoveIs
<1> HIDE DEF q
<1>3. /\ u \in Seq(S \cup {">"}) /\ Len(u) = Len(t)
      /\ \A i \in 1..Len(t) : u[i] = IF t[i] = "gt" THEN ">" ELSE t[i]
  BY UnprotectIs
<1> HIDE DEF u
<1>4. /\ Unprotect(q) \in Seq(S \cup {">"}) /\ Len(Unprotect(q)) = Len(q)
      /\ \A i \in 1..Len(q) : Unprotect(q)[i] = IF q[i] = "gt" THEN ">" ELSE q[i]
  BY <1>2, UnprotectIs
<1> DEFINE v == Unprotect(q)
           w == RemoveAt(u, m)
<1>5. v = w
  <2>1. /\ w \in Seq(S \cup {">"}) /\ Len(w) = Len(t) - 1
        /\ \A i \in 1..(Len(t) - 1) : w[i] = IF i < m THEN u[i] ELSE u[i + 1]
    BY <1>1, <1>3, RemoveIs
  <2> HIDE DEF v, w
  <2>2. /\ v \in Seq(S \cup {">"}) /\ Len(v) = Len(t) - 1
        /\ \A i \in 1..(Len(t) - 1) : v[i] = IF q[i] = "gt" THEN ">" ELSE q[i]
    BY <1>2, <1>4 DEF v
  <2>3. ASSUME NEW i \in 1..(Len(t) - 1)
        PROVE  v[i] = w[i]
    <3>1. i \in 1..Len(t) /\ i + 1 \in 1..Len(t)
      OBVIOUS
    <3>2. CASE i < m
      BY <1>2, <1>3, <2>1, <2>2, <3>1, <3>2
    <3>3. CASE ~(i < m)
      BY <1>2, <1>3, <2>1, <2>2, <3>1, <3>3
    <3> QED
      BY <3>2, <3>3
  <2> QED
    BY <2>1, <2>2, <2>3
<1>6. Visible(v) = Visible(u)
  <2>1. u[m] \in {"esc"} /\ m \in 1..Len(u)
    BY <1>1, <1>3
  <2>2. Without(w, {"esc"}) = Without(u, {"esc"})
    BY <1>3, <2>1, WithoutRemove
  <2> QED
    BY <1>5, <2>2, Zenon DEF Visible
<1> QED
  BY <1>1, <1>2, <1>6, Zenon DEF q, u

\* After the first one the next is at least two places behind, if they are spread.
LEMMA RemoveControl ==
  ASSUME NEW S, NEW t \in Seq(S), NEW m \in Escapes(t), \A i \in Escapes(t) : m <= i,
         Spread(t)
  PROVE  Spread(RemoveAt(t, m)) /\ \A i \in Escapes(RemoveAt(t, m)) : i >= m + 2
<1> DEFINE q == RemoveAt(t, m)
<1>1. m \in 1..Len(t) /\ t[m] = "esc"
  BY DEF Escapes
<1>2. /\ q \in Seq(S) /\ Len(q) = Len(t) - 1
      /\ \A i \in 1..(Len(t) - 1) : q[i] = IF i < m THEN t[i] ELSE t[i + 1]
  BY <1>1, RemoveIs
<1> HIDE DEF q
<1>3. /\ \A i \in Escapes(t) : i \in Int
      /\ \A i \in Escapes(q) : i \in Int /\ i >= m /\ i + 1 \in Escapes(t)
  <2>1. DOMAIN q = 1..(Len(t) - 1) /\ DOMAIN t = 1..Len(t)
    BY <1>2
  <2>2. \A i \in Escapes(t) : i \in Int
    BY <2>1 DEF Escapes
  <2>3. ASSUME NEW i \in Escapes(q)
        PROVE  i \in Int /\ i >= m /\ i + 1 \in Escapes(t)
    <3>1. i \in 1..(Len(t) - 1) /\ q[i] = "esc"
      BY <2>1 DEF Escapes
    <3>2. CASE i < m
      <4>1. i \in Escapes(t)
        BY <1>2, <2>1, <3>1, <3>2 DEF Escapes
      <4> QED
        BY <1>1, <3>1, <3>2, <4>1
    <3>3. CASE ~(i < m)
      <4>1. i + 1 \in Escapes(t)
        BY <1>2, <2>1, <3>1, <3>3 DEF Escapes
      <4> QED
        BY <1>1, <3>1, <3>3, <4>1
    <3> QED
      BY <3>2, <3>3
  <2> QED
    BY <2>2, <2>3
<1>4. Spread(q) /\ \A i \in Escapes(q) : i >= m + 2
  <2>1. \A i \in Escapes(q) : i >= m + 2
    BY <1>1, <1>3 DEF Spread
  <2>2. Spread(q)
    <3> SUFFICES ASSUME NEW i \in Escapes(q), NEW j \in Escapes(q), i < j
                 PROVE  j - i > 2
      BY DEF Spread
    <3>1. i + 1 \in Escapes(t) /\ j + 1 \in Escapes(t) /\ i \in Int /\ j \in Int
      BY <1>3
    <3> QED
      BY <3>1 DEF Spread
  <2> QED
    BY <2>1, <2>2
<1> QED
  BY <1>4, Zenon DEF q

\* What escapeString has after some of its rounds.
EscapeState(S, t) ==
  {l \in [str : Seq(S), s : Nat] :
     /\ Visible(Unprotect(l.str)) = Visible(Unprotect(t))
     /\ Len(l.str) <= Len(t)
     /\ Escapes(t) = {} => l.str = t
     /\ Spread(t) => Spread(l.str) /\ \A i \in Escapes(l.str) : i >= l.s}

\* One round of escapeString: it finds the next character, takes it out and goes on
\* two places further.
EscapeFound(l) == {i \in Escapes(l.str) : i >= l.s}

EscapeNext(l) ==
  IF EscapeFound(l) = {} THEN l
  ELSE [str |-> RemoveAt(l.str, Min(EscapeFound(l))), s |-> Min(EscapeFound(l)) + 2]

\* A round keeps what EscapeState says.
LEMMA EscapeStep ==
  ASSUME NEW S, NEW t \in Seq(S), NEW l \in EscapeState(S, t)
  PROVE  /\ EscapeNext(l) \in EscapeState(S, t)
         /\ EscapeFound(l) = {} => EscapeNext(l) = l
         /\ EscapeFound(l) # {} => EscapeNext(l).s >= l.s + 2
<1>1. CASE EscapeFound(l) = {}
  BY <1>1, Zenon DEF EscapeNext
<1>2. CASE EscapeFound(l) # {}
  <2> DEFINE F == EscapeFound(l)
             m == Min(F)
             q == RemoveAt(l.str, m)
  <2>1. /\ l.str \in Seq(S) /\ l.s \in Nat /\ Len(l.str) <= Len(t)
        /\ Visible(Unprotect(l.str)) = Visible(Unprotect(t))
        /\ Escapes(t) = {} => l.str = t
        /\ Spread(t) => Spread(l.str) /\ \A i \in Escapes(l.str) : i >= l.s
    BY DEF EscapeState
  <2>2. F \in SUBSET Nat
    <3>1. DOMAIN l.str = 1..Len(l.str)
      BY <2>1
    <3> QED
      BY <3>1 DEF EscapeFound, Escapes
  <2>3. m \in F /\ \A i \in F : m <= i
    <3> HIDE DEF F
    <3>1. PICK k \in F : TRUE
      BY <1>2 DEF F
    <3>2. \E n \in F : \A i \in F : n <= i
      BY <2>2, <3>1, LeastNat
    <3> QED
      BY <3>2, Zenon DEF Min
  <2> HIDE DEF m
  <2>4. m \in Escapes(l.str) /\ m >= l.s /\ m \in Nat
    BY <2>2, <2>3 DEF EscapeFound
  <2>5. /\ q \in Seq(S) /\ Len(q) = Len(l.str) - 1
        /\ Visible(Unprotect(q)) = Visible(Unprotect(l.str))
    BY <2>1, <2>4, RemoveKeeps, Zenon DEF q
  <2>6. ASSUME Spread(t)
        PROVE  Spread(q) /\ \A i \in Escapes(q) : i >= m + 2
    <3>1. Spread(l.str) /\ \A i \in Escapes(l.str) : i >= l.s
      BY <2>1, <2>6, Zenon
    <3>2. \A i \in Escapes(l.str) : m <= i
      BY <2>3, <3>1, Zenon DEF EscapeFound
    <3> QED
      BY <2>1, <2>4, <3>1, <3>2, RemoveControl, Zenon DEF q
  <2> HIDE DEF q
  <2>7. Len(q) <= Len(t)
    BY <2>1, <2>5
  <2>8. Escapes(t) # {}
    <3> SUFFICES ASSUME Escapes(t) = {}
                 PROVE  FALSE
      OBVIOUS
    <3> QED
      BY <2>1, <2>4
  <2> DEFINE r == [str |-> q, s |-> m + 2]
  <2>9. EscapeNext(l) = r
    BY <1>2, Zenon DEF EscapeNext, q, m
  <2>10. m + 2 \in Nat /\ m + 2 >= l.s + 2
    BY <2>1, <2>4
  <2>11. r \in [str : Seq(S), s : Nat] /\ r.str = q /\ r.s = m + 2
    BY <2>5, <2>10
  <2> HIDE DEF r
  <2>12. r \in EscapeState(S, t)
    BY <2>1, <2>5, <2>6, <2>7, <2>8, <2>11, Zenon DEF EscapeState
  <2> QED
    BY <1>2, <2>9, <2>10, <2>11, <2>12
<1> QED
  BY <1>1, <1>2

\* escapeString leaves the visible text, and a text without what it looks for, as it
\* is, and nothing of that if it is spread.
LEMMA EscapeIs ==
  ASSUME NEW S, NEW t \in Seq(S)
  PROVE  /\ escapeString(t) \in Seq(S)
         /\ Visible(Unprotect(escapeString(t))) = Visible(Unprotect(t))
         /\ Escapes(t) = {} => escapeString(t) = t
         /\ Spread(t) => Escapes(escapeString(t)) = {}
<1> DEFINE n == Len(t)
           R == EscapeState(S, t)
           start == [str |-> t, s |-> 1]
           step == [p \in (1..n) \X R |-> EscapeNext(p[2])]
           Is(g) == g = [i \in 0..n |->
                      IF i = 0 THEN start
                      ELSE LET last  == g[i - 1]
                               found == {j \in Escapes(last.str) : j >= last.s}
                           IN IF found = {} THEN last
                              ELSE [str |-> RemoveAt(last.str, Min(found)), s |-> Min(found) + 2]]
           loop == CHOOSE g : Is(g)
<1>1. escapeString(t) = loop[n].str
  BY Zenon DEF escapeString
<1>2. n \in Nat
  OBVIOUS
<1>3. start \in R
  <2>1. start \in [str : Seq(S), s : Nat] /\ start.str = t /\ start.s = 1
    OBVIOUS
  <2>2. \A i \in Escapes(t) : i >= 1
    BY DEF Escapes
  <2>3. Len(t) <= Len(t)
    BY <1>2
  <2> HIDE DEF start
  <2> QED
    BY <2>1, <2>2, <2>3, Zenon DEF EscapeState
<1>4. \A l \in R : EscapeNext(l) \in R
  BY EscapeStep, Zenon
<1> HIDE DEF n, loop, start, R
<1>5. step \in [(1..n) \X R -> R]
  BY <1>4
<1>6. PICK g : Iterates(g, n, R, start, step)
  <2> HIDE DEF step
  <2> QED
    BY <1>2, <1>3, <1>5, Iteration, Zenon
<1>7. g \in [0..n -> R] /\ g[0] = start
  BY <1>6 DEF Iterates
<1>8. \A i \in 1..n : g[i] = EscapeNext(g[i - 1])
  <2> SUFFICES ASSUME NEW i \in 1..n
               PROVE  g[i] = EscapeNext(g[i - 1])
    OBVIOUS
  <2>1. g[i - 1] \in R
    BY <1>2, <1>7
  <2>2. step[<<i, g[i - 1]>>] = EscapeNext(g[i - 1])
    BY <2>1
  <2> HIDE DEF step
  <2> QED
    BY <1>6, <2>1, <2>2 DEF Iterates
<1>9. \A g2 : Is(g2) <=> g2 = [i \in 0..n |-> IF i = 0 THEN start ELSE EscapeNext(g2[i - 1])]
  BY Zenon DEF EscapeNext, EscapeFound
<1> HIDE DEF Is
<1>10. g = [i \in 0..n |-> IF i = 0 THEN start ELSE EscapeNext(g[i - 1])]
  BY <1>2, <1>7, <1>8
<1>11. Is(g)
  BY <1>9, <1>10, Zenon
<1>12. Is(loop)
  BY <1>11, Zenon DEF loop
<1>13. loop[0] = start /\ \A i \in 1..n : loop[i] = EscapeNext(loop[i - 1])
  <2>1. loop = [i \in 0..n |-> IF i = 0 THEN start ELSE EscapeNext(loop[i - 1])]
    BY <1>9, <1>12, Zenon
  <2>2. \A i \in 0..n : loop[i] = IF i = 0 THEN start ELSE EscapeNext(loop[i - 1])
    BY <2>1, Zenon
  <2>3. 0 \in 0..n /\ \A i \in 1..n : i \in 0..n /\ i # 0
    BY <1>2
  <2> QED
    BY <2>2, <2>3, Zenon
<1> DEFINE T == {i \in 0..n : loop[i] \in R /\ (EscapeFound(loop[i]) = {} \/ loop[i].s > i)}
<1>14. 0 \in T
  <2>1. start.s > 0 /\ 0 \in 0..n
    BY <1>2 DEF start
  <2> QED
    BY <1>3, <1>13, <2>1, Zenon
<1>15. ASSUME NEW i \in 1..n, i - 1 \in T
       PROVE  i \in T
  <2> DEFINE l == loop[i - 1]
  <2>1. l \in R /\ (EscapeFound(l) = {} \/ l.s > i - 1) /\ loop[i] = EscapeNext(l)
    BY <1>13, <1>15
  <2>2. i \in 0..n /\ i \in Int
    BY <1>2
  <2> HIDE DEF l
  <2>3. l.s \in Nat
    BY <2>1 DEF R, EscapeState
  <2>4. /\ EscapeNext(l) \in R
        /\ EscapeFound(l) = {} => EscapeNext(l) = l
        /\ EscapeFound(l) # {} => EscapeNext(l).s >= l.s + 2
    BY <2>1, EscapeStep, Zenon DEF R
  <2>5. CASE EscapeFound(l) = {}
    BY <2>1, <2>2, <2>4, <2>5, Zenon
  <2>6. CASE EscapeFound(l) # {}
    <3> DEFINE m == EscapeNext(l)
    <3>1. m \in R /\ m.s >= l.s + 2 /\ loop[i] = m
      BY <2>1, <2>4, <2>6
    <3> HIDE DEF m
    <3>2. m.s \in Nat
      BY <3>1 DEF R, EscapeState
    <3>3. m.s > i
      BY <2>1, <2>2, <2>3, <2>6, <3>1, <3>2
    <3> QED
      BY <2>2, <3>1, <3>3, Zenon
  <2> QED
    BY <2>5, <2>6
<1>16. n \in T
  <2> HIDE DEF T
  <2>1. 0..n \subseteq T
    BY <1>2, <1>14, <1>15, UpTo
  <2> QED
    BY <1>2, <2>1
<1> DEFINE l == loop[n]
<1>17. l \in R /\ (EscapeFound(l) = {} \/ l.s > n)
  BY <1>16, Zenon
<1> HIDE DEF l
<1>18. /\ l.str \in Seq(S) /\ l.s \in Nat /\ Len(l.str) <= n
       /\ Visible(Unprotect(l.str)) = Visible(Unprotect(t))
       /\ Escapes(t) = {} => l.str = t
       /\ Spread(t) => Spread(l.str) /\ \A i \in Escapes(l.str) : i >= l.s
  BY <1>17 DEF R, EscapeState, n
<1>19. ASSUME Spread(t), NEW i \in Escapes(l.str)
       PROVE  FALSE
  <2>1. i >= l.s
    BY <1>18, <1>19, Zenon
  <2>2. i \in EscapeFound(l)
    BY <2>1, Zenon DEF EscapeFound
  <2>3. l.s > n
    BY <1>17, <2>2, Zenon
  <2>4. i \in 1..Len(l.str)
    BY <1>18 DEF Escapes
  <2> QED
    BY <1>2, <1>18, <2>1, <2>3, <2>4
<1> QED
  BY <1>1, <1>18, <1>19, Zenon DEF l

\* It adds no other control character.
LEMMA EscapeAddsNone ==
  ASSUME NEW S, NEW t \in Seq(S), Controls(t) = Escapes(t)
  PROVE  Controls(escapeString(t)) = Escapes(escapeString(t))
<1> DEFINE S2 == S \ {"ctl"}
           f == escapeString(t)
<1>1. \A i \in 1..Len(t) : t[i] \in S2
  <2>1. DOMAIN t = 1..Len(t) /\ \A i \in 1..Len(t) : t[i] \in S
    OBVIOUS
  <2> QED
    BY <2>1 DEF Controls, Escapes
<1> HIDE DEF S2
<1>2. t \in Seq(S2)
  BY <1>1
<1>3. f \in Seq(S2)
  BY <1>2, EscapeIs, Zenon
<1> HIDE DEF f
<1>4. \A i \in DOMAIN f : f[i] # "ctl"
  BY <1>3 DEF S2
<1>5. Controls(f) = Escapes(f)
  BY <1>4 DEF Controls, Escapes
<1> QED
  BY <1>5, Zenon DEF f

-----------------------------------------------------------------------------
(* Documents that parse                                                    *)

\* What the texts of rows are made of.
Letters == Characters \cup {"us", "iso", "bug", Space}

Descriptions == {"brief_desc", "detailed_desc"}

LEMMA TextOfIs ==
  ASSUME NEW c \in Column, NEW t \in TextOf(c)
  PROVE  t \in Seq(Letters) /\ (c \in Descriptions => t \in Seq(Characters))
<1>1. /\ <<>> \in Seq(Letters) /\ <<"us">> \in Seq(Letters) /\ <<"iso">> \in Seq(Letters)
      /\ <<"<">> \in Seq(Letters) /\ <<"bug">> \in Seq(Letters) /\ <<"x">> \in Seq(Letters)
  <2>1. "us" \in Letters /\ "iso" \in Letters /\ "bug" \in Letters /\ "x" \in Letters /\ "<" \in Letters
    BY DEF Letters, Characters
  <2> QED
    BY <2>1, AtMostOne, Zenon
<1>2. <<Space, "bug">> \in Seq(Letters)
  <2>1. Space \in Letters /\ "bug" \in Letters
    BY DEF Letters
  <2> DEFINE b == "bug"
  <2> HIDE DEF b
  <2>2. b \in Letters
    BY <2>1 DEF b
  <2>3. <<Space, b>> \in Seq(Letters)
    BY <2>1, <2>2
  <2> QED
    BY <2>3 DEF b
<1>3. CASE c \in Dates
  <2>1. t \in {<<>>, <<"us">>, <<"iso">>, <<"<">>}
    BY <1>3, Zenon DEF TextOf, Dates
  <2>2. c \notin Descriptions
    BY <1>3 DEF Descriptions, Dates
  <2> QED
    BY <1>1, <2>1, <2>2, Zenon
<1>4. CASE c = "bug"
  <2>1. c \notin Dates /\ c \notin Descriptions
    BY <1>4 DEF Descriptions, Dates
  <2>2. t \in {<<>>, <<"bug">>, <<Space, "bug">>, <<"x">>}
    BY <1>4, <2>1, Zenon DEF TextOf
  <2> QED
    BY <1>1, <1>2, <2>1, <2>2, Zenon
<1>5. CASE c \notin Dates \cup {"bug"}
  <2>1. t \in BoundedSeq(Characters, MaxText)
    BY <1>5, Zenon DEF TextOf
  <2>2. t \in Seq(Characters)
    <3> DEFINE C == Characters
    <3> HIDE DEF C
    <3>1. \A u \in BoundedSeq(C, MaxText) : u \in Seq(C)
      BY DocumentsAssumption DEF BoundedSeq, SeqOf
    <3> QED
      BY <2>1, <3>1, Zenon DEF C
  <2>3. Characters \subseteq Letters
    BY DEF Letters
  <2> HIDE DEF Letters
  <2>4. t \in Seq(Letters)
    BY <2>2, <2>3
  <2> QED
    BY <2>2, <2>4
<1> QED
  BY <1>3, <1>4, <1>5

LEMMA RowIs ==
  ASSUME NEW row \in Row
  PROVE  /\ row.odd \in Column
         /\ row.text \in Seq(Letters)
         /\ row.odd \in Descriptions => row.text \in Seq(Characters)
         /\ row.cr \in BOOLEAN /\ row.critsit \in BOOLEAN
         /\ row.odd # "name" => row.found
<1>1. CASE \E c \in Column :
             row \in [odd: {c}, text: TextOf(c), cr: BOOLEAN, critsit: {FALSE}, high: {FALSE},
                     chat: {TRUE}, found: {TRUE}]
  <2>1. PICK c \in Column :
          /\ row.odd = c /\ row.text \in TextOf(c) /\ row.found
          /\ row.cr \in BOOLEAN /\ row.critsit \in BOOLEAN
    BY <1>1
  <2> QED
    BY <2>1, TextOfIs, Zenon
<1>2. CASE row \in [odd: {"name"}, text: {<<"x">>}, cr: BOOLEAN, critsit: BOOLEAN, high: BOOLEAN,
                   chat: BOOLEAN, found: BOOLEAN]
  <2>1. /\ row.odd = "name" /\ row.text = <<"x">>
        /\ row.cr \in BOOLEAN /\ row.critsit \in BOOLEAN
    BY <1>2
  <2>2. "x" \in Letters /\ "name" \in Column /\ "name" \notin Descriptions
    BY DEF Letters, Characters, Column, Descriptions
  <2> QED
    BY <2>1, <2>2, AtMostOne, Zenon
<1> QED
  BY <1>1, <1>2, Zenon DEF Row

\* What xml.cpp does not quote, in any document and in that of /qmon_date.
Unquoted == {"creator", "crsr", "bomgar", "created", "last_update"}

UnquotedDate == Unquoted \cup {"crsrcust", "crsrdesc"}

\* Texts of an item that can be read in a document, which does not quote those of raw.
TextsParse(text, raw) == \A c \in Field : Clean(text[c]) /\ (c \in raw => Bare(text[c]))

\* Which texts the elements of xml.cpp can have.
LEMMA ElementsParse ==
  /\ \A tag, t : Bare(t) => Parses(Raw(tag, t))
  /\ \A tag, t : Clean(t) => Parses(CData(tag, t)) /\ Parses(Given(tag, t))
  /\ \A tag, flag : Parses(Flag(tag, flag))
<1>1. ASSUME NEW tag, NEW t, Bare(t)
      PROVE  Parses(Raw(tag, t))
  <2> DEFINE e == [tag |-> tag, cdata |-> FALSE, text |-> t]
  <2>1. e.cdata = FALSE /\ e.text = t
    OBVIOUS
  <2>2. Raw(tag, t) = {e}
    BY DEF Raw
  <2> HIDE DEF e
  <2> QED
    BY <1>1, <2>1, <2>2, Zenon DEF Bare, Clean, Parses, ElementParses
<1>2. ASSUME NEW tag, NEW t, Clean(t)
      PROVE  Parses(CData(tag, t))
  <2> DEFINE e == [tag |-> tag, cdata |-> TRUE, text |-> t]
  <2>1. e.cdata = TRUE /\ e.text = t
    OBVIOUS
  <2>2. CData(tag, t) = {e}
    BY DEF CData
  <2> HIDE DEF e
  <2> QED
    BY <1>2, <2>1, <2>2, Zenon DEF Clean, Parses, ElementParses
<1>3. ASSUME NEW tag, NEW t, Clean(t)
      PROVE  Parses(Given(tag, t))
  <2>1. Parses({})
    BY DEF Parses
  <2>2. Given(tag, t) = CData(tag, t) \/ Given(tag, t) = {}
    BY Zenon DEF Given, Only
  <2> QED
    BY <1>2, <1>3, <2>1, <2>2, Zenon
<1>4. ASSUME NEW tag, NEW flag
      PROVE  Parses(Flag(tag, flag))
  <2>1. Parses({})
    BY DEF Parses
  <2>2. Parses(Raw(tag, <<"1">>))
    BY <1>1, PlainIsBare, Zenon
  <2>3. Flag(tag, flag) = Raw(tag, <<"1">>) \/ Flag(tag, flag) = {}
    BY Zenon DEF Flag, Only
  <2> QED
    BY <2>1, <2>2, <2>3, Zenon
<1> QED
  BY <1>1, <1>2, <1>3, <1>4, Zenon

LEMMA OnlyParses ==
  ASSUME NEW cond, NEW A, cond => Parses(A)
  PROVE  Parses(Only(cond, A))
BY DEF Parses, Only

LEMMA BothParse ==
  ASSUME NEW A, NEW B, Parses(A), Parses(B)
  PROVE  Parses(A \cup B)
BY DEF Parses

\* The documents of an item can be read if its texts can.
LEMMA ItemParses ==
  ASSUME NEW i
  PROVE  /\ TextsParse(i.text, Unquoted) => Parses(sr(i)) /\ Parses(qmon(i))
         /\ TextsParse(i.text, UnquotedDate) => Parses(qmonDate(i))
<1> DEFINE t == i.text
<1> SUFFICES ASSUME TextsParse(t, Unquoted)
             PROVE  /\ Parses(sr(i)) /\ Parses(qmon(i))
                    /\ Bare(t.crsrcust) /\ Bare(t.crsrdesc) => Parses(qmonDate(i))
  BY DEF TextsParse, UnquotedDate, Field, Column, Dates
<1>1. /\ Clean(t.name) /\ Clean(t.customer) /\ Clean(t.contact)
      /\ Clean(t.crsrcust) /\ Clean(t.crsrdesc) /\ Clean(t.bug) /\ Clean(t.bugdesc)
      /\ Clean(t.alt_contact) /\ Clean(t.owner) /\ Clean(t.subowner)
      /\ Clean(t.brief_desc) /\ Clean(t.detailed_desc)
  BY DEF TextsParse, Field, Column, Dates
<1>2. /\ Bare(t.creator) /\ Bare(t.crsr) /\ Bare(t.bomgar) /\ Bare(t.created)
      /\ Bare(t.last_update)
  BY DEF TextsParse, Field, Column, Dates, Unquoted
<1> HIDE DEF t
<1>4. Parses(Body(i))
  BY <1>1, <1>2, ElementsParse, BothParse, Zenon DEF Body, t
<1>5. Parses(Chat(i))
  BY <1>2, ElementsParse, OnlyParses, Zenon DEF Chat, t
<1>6. Parses(Customer(t)) /\ Parses(AltContact(t))
  BY <1>1, ElementsParse, OnlyParses, BothParse, PlainIsBare, Zenon DEF Customer, AltContact
<1>7. Parses(Cr(t)) /\ (Bare(t.crsrcust) /\ Bare(t.crsrdesc) => Parses(CrDate(t)))
  BY <1>1, <1>2, ElementsParse, BothParse, PlainIsBare, Zenon DEF Cr, CrDate
<1>8. Parses(Subowner(t)) /\ Parses(CData("owner", t.owner)) /\ Parses(CData("bug", t.bug))
      /\ Parses(CData("bug_desc", t.bugdesc))
  BY <1>1, ElementsParse, OnlyParses, Zenon DEF Subowner
<1>9. Bare(t.crsrcust) /\ Bare(t.crsrdesc) => Parses(qmonDate(i))
  BY <1>4, <1>5, <1>6, <1>7, BothParse, Zenon DEF qmonDate, t
<1>10. Parses(qmon(i))
  BY <1>4, <1>5, <1>6, <1>7, <1>8, BothParse, OnlyParses, Zenon DEF qmon, t
<1>11. Parses(sr(i))
  BY <1>4, <1>6, <1>7, <1>8, BothParse, OnlyParses, Zenon DEF sr, t
<1> QED
  BY <1>9, <1>10, <1>11

LEMMA ValueIs ==
  ASSUME NEW row \in Row, NEW c \in Descriptions
  PROVE  Value(row, c) \in Seq(Characters)
<1>1. CASE c = row.odd
  BY <1>1, RowIs, Zenon DEF Value
<1>2. CASE c # row.odd
  <2>1. Value(row, c) = Plain(c)
    BY <1>2, Zenon DEF Value
  <2>2. c \notin Dates \cup {"bug"}
    BY DEF Descriptions, Dates
  <2>3. Plain(c) = <<"x">>
    BY <2>2, Zenon DEF Plain, Dates
  <2>4. "x" \in Characters
    BY DEF Characters
  <2> QED
    BY <2>1, <2>3, <2>4, AtMostOne, Zenon
<1> QED
  BY <1>1, <1>2

\* An odd text that has no control character, and no end of CDATA where that is not
\* replaced.
Fits(row) ==
  /\ Controls(row.text) = {}
  /\ row.odd \in Descriptions \cup Dates \/ ~Holds(row.text, Cdend)

\* One column is odd, the others are plain.
LEMMA TextParses ==
  ASSUME NEW row \in Row, Fits(row), NEW c \in Column
  PROVE  /\ Clean(Text(row, c))
         /\ c \in Dates => Bare(Text(row, c))
         /\ c \notin Descriptions /\ (c = row.odd => ~Holds(row.text, <<"<">>))
              => Bare(Text(row, c))
         /\ c \in Descriptions => Controls(Value(row, c)) = {}
<1>1. CASE c \in Descriptions
  <2> DEFINE v == Value(row, c)
  <2>1. v \in Seq(Characters)
    BY <1>1, ValueIs
  <2>2. Controls(v) = {}
    <3>1. CASE c = row.odd
      BY <3>1, Zenon DEF Value, Fits
    <3>2. CASE c # row.odd
      BY <3>2, PlainIsBare, Zenon DEF Value, Bare, Clean
    <3> QED
      BY <3>1, <3>2
  <2>3. Text(row, c) = Protect(v)
    BY <1>1, Zenon DEF Text, Descriptions, Dates
  <2> HIDE DEF v
  <2>4. Controls(Protect(v)) = {} /\ ~Holds(Protect(v), Cdend)
    BY <2>1, <2>2, ProtectIs, Zenon
  <2>5. c \notin Dates
    BY <1>1 DEF Descriptions, Dates
  <2> QED
    BY <1>1, <2>2, <2>3, <2>4, <2>5, Zenon DEF Clean, v
<1>2. CASE c \in Dates
  <2>1. c \notin Descriptions
    BY <1>2 DEF Descriptions, Dates
  <2>2. Text(row, c) = convertTime(Value(row, c))
    BY <1>2, <2>1, Zenon DEF Text, Descriptions
  <2> QED
    BY <2>1, <2>2, PlainIsBare, Zenon DEF Bare
<1>3. CASE c \notin Descriptions \cup Dates
  <2>1. Text(row, c) = Value(row, c)
    BY <1>3, Zenon DEF Text, Descriptions
  <2>2. CASE c = row.odd
    <3>1. Text(row, c) = row.text
      BY <2>1, <2>2, Zenon DEF Value
    <3>2. Clean(row.text)
      BY <1>3, <2>2, Zenon DEF Fits, Clean
    <3> QED
      BY <1>3, <2>2, <3>1, <3>2, Zenon DEF Bare
  <2>3. CASE c # row.odd
    BY <1>3, <2>1, <2>3, PlainIsBare, Zenon DEF Value, Bare
  <2> QED
    BY <2>2, <2>3
<1> QED
  BY <1>1, <1>2, <1>3

\* Which item a document is made of.
LEMMA DocumentIs ==
  ASSUME IInv, NEW of \in SUBSET Document, Answered(of)
  PROVE  /\ call.of \in of /\ call.row \in Row /\ (call.of # "srinfo" => call.row.found)
         /\ call.of = "userqueue" => answer = sr(getUserQueue(call.row))
         /\ call.of = "srinfo" => \E i \in getSrInfo(call.row) : answer = sr(i)
         /\ call.of = "qmon" => answer = qmon(getSrsForQueue(call.row))
         /\ call.of = "qmon_date" => answer = qmonDate(getSrsForQueue(call.row))
<1>1. call.of \in Document /\ IsCall(call) /\ answer \in AnswersTo(call) /\ call.of \in of
  BY DEF Answered, IInv
<1>2. PICK d \in Document, row \in Row :
        (d # "srinfo" => row.found) /\ call = [of |-> d, row |-> row]
  <2>1. IsDocument(call)
    BY <1>1, CallOf, Zenon
  <2> QED
    BY <2>1, Zenon DEF IsDocument
<1>3. call.of = d /\ call.row = row
  BY <1>2
<1>4. answer \in DocumentOf(d, row)
  BY <1>1, <1>3 DEF AnswersTo, Document
<1>5. d = "userqueue" => answer = sr(getUserQueue(row))
  BY <1>4, Zenon DEF DocumentOf
<1>6. d = "srinfo" => \E i \in getSrInfo(row) : answer = sr(i)
  BY <1>4, Zenon DEF DocumentOf
<1>7. d = "qmon" => answer = qmon(getSrsForQueue(row))
  BY <1>4, Zenon DEF DocumentOf
<1>8. d = "qmon_date" => answer = qmonDate(getSrsForQueue(row))
  BY <1>4, Zenon DEF DocumentOf
<1> QED
  BY <1>1, <1>2, <1>3, <1>5, <1>6, <1>7, <1>8, Zenon

\* What the items of a row have.
LEMMA ItemIs ==
  ASSUME NEW row
  PROVE  /\ getUserQueue(row).text = UserQueueText(row)
         /\ row.found => getSrInfo(row) =
              {Item(SrInfoText(row), row.cr, row.critsit, row.high, FALSE)}
         /\ row.found => \A i \in getSrInfo(row) : i.text = SrInfoText(row)
         /\ ~row.found => \A i \in getSrInfo(row) : i.text = [c \in Field |-> <<>>]
<1>1. getUserQueue(row).text = UserQueueText(row)
  BY DEF getUserQueue, Item
<1> DEFINE one == {Item(SrInfoText(row), row.cr, row.critsit, row.high, FALSE)}
           none == [c \in Field |-> <<>>]
           any == {Item(none, f.cr, f.critsit, f.high, FALSE) :
                     f \in [cr : BOOLEAN, critsit : BOOLEAN, high : BOOLEAN]}
<1>6. getSrInfo(row) = IF row.found THEN one ELSE any
  BY SMT DEF getSrInfo
<1> HIDE DEF one, any
<1>2. (row.found => getSrInfo(row) = one) /\ (~row.found => getSrInfo(row) = any)
  BY <1>6, Zenon
<1>3. Item(SrInfoText(row), row.cr, row.critsit, row.high, FALSE).text = SrInfoText(row)
  BY DEF Item
<1> HIDE DEF none
<1>5. \A i \in any : i.text = none
  <2> SUFFICES ASSUME NEW i \in any
               PROVE  i.text = none
    OBVIOUS
  <2>1. PICK f \in [cr : BOOLEAN, critsit : BOOLEAN, high : BOOLEAN] :
          i = Item(none, f.cr, f.critsit, f.high, FALSE)
    BY Zenon DEF any
  <2> QED
    BY <2>1 DEF Item
<1>7. \A i \in one : i.text = SrInfoText(row)
  BY <1>3, Zenon DEF one
<1> QED
  BY <1>1, <1>2, <1>5, <1>7, Zenon DEF one, none

\* The items of a row whose odd text fits have texts that parse.
LEMMA ItemsParse ==
  ASSUME NEW row \in Row, Fits(row), NEW raw, raw \cap Descriptions = {},
         row.odd \in raw \ Dates => ~Holds(row.text, <<"<">>)
  PROVE  /\ TextsParse(getUserQueue(row).text, raw)
         /\ \A i \in getSrInfo(row) : TextsParse(i.text, raw)
         /\ TextsParse(getSrsForQueue(row).text, raw)
<1>1. \A c \in Column : Clean(Text(row, c)) /\ (c \in raw => Bare(Text(row, c)))
  <2> SUFFICES ASSUME NEW c \in Column
               PROVE  Clean(Text(row, c)) /\ (c \in raw => Bare(Text(row, c)))
    OBVIOUS
  <2>1. Clean(Text(row, c)) /\ (c \in Dates => Bare(Text(row, c)))
    BY TextParses, Zenon
  <2>2. ASSUME c \in raw, c \notin Dates
        PROVE  Bare(Text(row, c))
    <3>1. c \notin Descriptions /\ (c = row.odd => ~Holds(row.text, <<"<">>))
      BY <2>2
    <3> QED
      BY <3>1, TextParses, Zenon
  <2> QED
    BY <2>1, <2>2
<1>2. Bare(<<>>) /\ Clean(<<>>)
  BY NoneIsBare DEF Bare
<1>6. Field \subseteq Column /\ "actl_resp_ts" \in Column /\ "actl_resp_ts" \in Dates
  BY DEF Field, Column, Dates
<1>3. TextsParse(getUserQueue(row).text, raw)
  <2>1. getUserQueue(row).text = UserQueueText(row)
    BY ItemIs, Zenon
  <2>2. \A c \in Field : \/ UserQueueText(row)[c] \in {<<>>, Text(row, c)}
                         \/ UserQueueText(row)[c] = Text(row, "actl_resp_ts")
    BY Zenon DEF UserQueueText
  <2>3. Bare(Text(row, "actl_resp_ts")) /\ Clean(Text(row, "actl_resp_ts"))
    BY <1>1, <1>6, TextParses, Zenon
  <2> QED
    BY <1>1, <1>2, <1>6, <2>1, <2>2, <2>3, Zenon DEF TextsParse
<1>4. TextsParse(getSrsForQueue(row).text, raw)
  <2> DEFINE t == getSrsForQueue(row).text
  <2>1. \A c \in Field : t[c] = <<>> \/ t[c] = Text(row, c)
    <3> DEFINE notRead == {"bug", "bugdesc", "alt_contact", "owner"}
                            \cup (IF row.chat THEN {} ELSE {"bomgar"})
               u == [c \in Field |-> IF c \in notRead THEN <<>> ELSE Text(row, c)]
    <3>1. t = u
      <4>1. getSrsForQueue(row) = Item(u, row.cr, row.critsit, row.high, row.chat)
        BY Zenon DEF getSrsForQueue
      <4> HIDE DEF u
      <4> QED
        BY <4>1 DEF Item
    <3> HIDE DEF notRead
    <3>2. \A c \in Field : u[c] = <<>> \/ u[c] = Text(row, c)
      BY Zenon
    <3> QED
      BY <3>1, <3>2, Zenon
  <2> HIDE DEF t
  <2>2. TextsParse(t, raw)
    BY <1>1, <1>2, <1>6, <2>1, Zenon DEF TextsParse
  <2> QED
    BY <2>2, Zenon DEF t
<1>5. ASSUME NEW i \in getSrInfo(row)
      PROVE  TextsParse(i.text, raw)
  <2>1. CASE row.found
    <3>1. i.text = SrInfoText(row)
      BY <2>1, ItemIs, Zenon
    <3>2. \A c \in Field : \/ SrInfoText(row)[c] = <<>>
                           \/ SrInfoText(row)[c] = Text(row, c)
                           \/ c = "detailed_desc" /\ SrInfoText(row)[c] = escapeString(Text(row, c))
      BY Zenon DEF SrInfoText
    <3>3. escapeString(Text(row, "detailed_desc")) = Text(row, "detailed_desc")
      <4> DEFINE v == Value(row, "detailed_desc")
      <4>1. "detailed_desc" \in Descriptions /\ "detailed_desc" \in Column
        BY DEF Descriptions, Column
      <4>2. Controls(v) = {} /\ v \in Seq(Characters)
        BY <4>1, TextParses, ValueIs, Zenon
      <4>3. Text(row, "detailed_desc") = Protect(v)
        BY Zenon DEF Text, Dates
      <4> HIDE DEF v
      <4>4. Escapes(v) = {}
        BY <4>2 DEF Controls, Escapes
      <4> QED
        BY <4>2, <4>3, <4>4, ProtectIs, EscapeIs, Zenon
    <3> QED
      BY <1>1, <1>2, <1>6, <3>1, <3>2, <3>3, Zenon DEF TextsParse
  <2>2. CASE ~row.found
    <3>1. i.text = [c \in Field |-> <<>>]
      BY <2>2, ItemIs, Zenon
    <3>2. \A c \in Field : i.text[c] = <<>>
      BY <3>1, Zenon
    <3> QED
      BY <1>2, <3>2, Zenon DEF TextsParse
  <2> QED
    BY <2>1, <2>2
<1> QED
  BY <1>3, <1>4, <1>5

\* /userqueue, /srinfo, /qmon and /qmon_date: a text without control characters leaves
\* the document readable, but for an end of CDATA where Protect does not replace it, and
\* mark-up where xml.cpp does not quote it.
THEOREM OddTextsAreReadable == Spec => []OddTextsParse
<1>1. IInv => OddTextsParse
  <2> DEFINE row == call.row
             raw == IF call.of = "qmon_date" THEN UnquotedDate ELSE Unquoted
             unquoted == {"creator", "crsr", "bomgar"}
                    \cup (IF call.of = "qmon_date" THEN {"crsrcust", "crsrdesc"} ELSE {})
  <2> SUFFICES ASSUME IInv, Answered(Document \ {"stats"}), Controls(row.text) = {},
                      Holds(row.text, Cdend) => Odd({"brief_desc", "detailed_desc"} \cup Dates),
                      Holds(row.text, <<"<">>) => ~Odd(unquoted)
               PROVE  Parses(answer)
    BY Zenon DEF OddTextsParse
  <2>1. Document \ {"stats"} \in SUBSET Document
    OBVIOUS
  <2>2. /\ call.of \in Document \ {"stats"} /\ row \in Row
        /\ call.of = "userqueue" => answer = sr(getUserQueue(row))
        /\ call.of = "srinfo" => \E i \in getSrInfo(row) : answer = sr(i)
        /\ call.of = "qmon" => answer = qmon(getSrsForQueue(row))
        /\ call.of = "qmon_date" => answer = qmonDate(getSrsForQueue(row))
    BY <2>1, DocumentIs, Zenon
  <2>3. Fits(row)
    BY Zenon DEF Fits, Odd, Descriptions
  <2>4. raw \cap Descriptions = {} /\ raw \ Dates \subseteq unquoted
    BY DEF Unquoted, UnquotedDate, Descriptions, Dates
  <2>5. row.odd \in raw \ Dates => ~Holds(row.text, <<"<">>)
    BY <2>4 DEF Odd
  <2> HIDE DEF raw, row
  <2>6. /\ TextsParse(getUserQueue(row).text, raw)
        /\ \A i \in getSrInfo(row) : TextsParse(i.text, raw)
        /\ TextsParse(getSrsForQueue(row).text, raw)
    BY <2>2, <2>3, <2>4, <2>5, ItemsParse, Zenon
  <2> QED
    BY <2>2, <2>6, ItemParses, Zenon DEF Document, raw
<1> QED
  BY <1>1, Invariant, PTL

-----------------------------------------------------------------------------
(* /qmon and /qmon_date                                                    *)

LEMMA PartsParse ==
  ASSUME NEW A, NEW B, Parses(A \cup B)
  PROVE  Parses(A) /\ Parses(B)
BY DEF Parses

LEMMA RawQuoted ==
  ASSUME NEW tag, NEW t, Parses(Raw(tag, t))
  PROVE  Parses(CData(tag, t))
<1> DEFINE e == [tag |-> tag, cdata |-> FALSE, text |-> t]
<1>1. e.text = t
  OBVIOUS
<1>2. e \in Raw(tag, t)
  BY DEF Raw
<1> HIDE DEF e
<1>3. Clean(t)
  BY <1>1, <1>2, Zenon DEF Parses, ElementParses, Clean
<1> QED
  BY <1>3, ElementsParse, Zenon

\* A CR's elements are quoted in /qmon if not in /qmon_date.
LEMMA CrParses ==
  ASSUME NEW t, Parses(CrDate(t))
  PROVE  Parses(Cr(t))
<1> DEFINE A == Raw("srtype", <<"cr">>) \cup Raw("creator", t.creator) \cup Raw("crsr", t.crsr)
           b == t.crsrcust
           c == t.crsrdesc
<1>1. CrDate(t) = (A \cup Raw("crsr_cust", b)) \cup Raw("crsr_desc", c)
  BY Zenon DEF CrDate
<1>2. Cr(t) = (A \cup CData("crsr_cust", b)) \cup CData("crsr_desc", c)
  BY Zenon DEF Cr
<1> HIDE DEF A, b, c
<1>3. Parses(A) /\ Parses(Raw("crsr_cust", b)) /\ Parses(Raw("crsr_desc", c))
  BY <1>1, PartsParse, Zenon
<1>4. Parses(CData("crsr_cust", b)) /\ Parses(CData("crsr_desc", c))
  BY <1>3, RawQuoted, Zenon
<1> QED
  BY <1>2, <1>3, <1>4, BothParse, Zenon

\* An item of a queue has no bug and no second contact, which /qmon writes unquoted or
\* /qmon_date does not write.
LEMMA QmonParses ==
  ASSUME NEW i, Parses(qmonDate(i)), i.text.bug = <<>>, i.text.alt_contact = <<>>,
         Parses(CData("subowner", i.text.subowner))
  PROVE  Parses(qmon(i))
<1> DEFINE item == IF i.isCr THEN CrDate(i.text) ELSE Customer(i.text)
           own  == IF i.isCr THEN Cr(i.text) ELSE Customer(i.text) \cup AltContact(i.text)
<1>1. qmonDate(i) = Body(i) \cup Chat(i) \cup item
  BY Zenon DEF qmonDate
<1>2. Parses(Body(i)) /\ Parses(Chat(i)) /\ Parses(item)
  BY <1>1, PartsParse, Zenon
<1>3. Parses(AltContact(i.text)) /\ Parses(Subowner(i.text))
  BY OnlyParses, Zenon DEF AltContact, Subowner
<1>4. Parses(own)
  BY <1>2, <1>3, CrParses, BothParse, Zenon
<1>5. Parses(Only(i.text.bug # <<>>, CData("bug", i.text.bug)))
  BY OnlyParses, Zenon
<1>6. qmon(i) = ((Body(i) \cup Chat(i)) \cup own)
                  \cup Only(i.text.bug # <<>>, CData("bug", i.text.bug)) \cup Subowner(i.text)
  BY Zenon DEF qmon
<1> HIDE DEF own
<1> QED
  BY <1>2, <1>3, <1>4, <1>5, <1>6, BothParse, Zenon

LEMMA QueueItemIs ==
  ASSUME NEW row
  PROVE  /\ getSrsForQueue(row).text.bug = <<>>
         /\ getSrsForQueue(row).text.alt_contact = <<>>
         /\ getSrsForQueue(row).text.subowner = Value(row, "subowner")
         /\ getSrsForQueue(row).text.detailed_desc = Protect(Value(row, "detailed_desc"))
<1> DEFINE notRead == {"bug", "bugdesc", "alt_contact", "owner"}
                        \cup (IF row.chat THEN {} ELSE {"bomgar"})
           u == [c \in Field |-> IF c \in notRead THEN <<>> ELSE Text(row, c)]
<1>1. getSrsForQueue(row).text = u
  <2>1. getSrsForQueue(row) = Item(u, row.cr, row.critsit, row.high, row.chat)
    BY Zenon DEF getSrsForQueue
  <2> HIDE DEF u
  <2> QED
    BY <2>1 DEF Item
<1>2. /\ "bug" \in notRead /\ "alt_contact" \in notRead
      /\ "subowner" \notin notRead /\ "detailed_desc" \notin notRead
  BY Zenon
<1>3. {"bug", "alt_contact", "subowner", "detailed_desc"} \subseteq Field
  BY DEF Field, Column, Dates
<1> HIDE DEF notRead
<1>4. /\ u["bug"] = <<>> /\ u["alt_contact"] = <<>>
      /\ u["subowner"] = Text(row, "subowner") /\ u["detailed_desc"] = Text(row, "detailed_desc")
  BY <1>2, <1>3, Zenon
<1>5. /\ Text(row, "subowner") = Value(row, "subowner")
      /\ Text(row, "detailed_desc") = Protect(Value(row, "detailed_desc"))
  BY Zenon DEF Text, Dates
<1> QED
  BY <1>1, <1>4, <1>5, Zenon

\* XML::qmon quotes what XML::qmonDate quotes: whoever reads one can read the other, but
\* for a subowner, which only the first has.
THEOREM QmonStaysReadable == Spec => []QmonIsReadable
<1>1. IInv => QmonIsReadable
  <2> DEFINE row == call.row
             i == getSrsForQueue(row)
  <2> SUFFICES ASSUME IInv, Answered({"qmon"}), Parses(qmonDate(i)),
                      Odd({"subowner"}) => Parses(CData("subowner", row.text))
               PROVE  Parses(answer)
    BY Zenon DEF QmonIsReadable
  <2>1. {"qmon"} \in SUBSET Document
    BY DEF Document
  <2>2. answer = qmon(i)
    BY <2>1, DocumentIs, Zenon
  <2>3. Parses(CData("subowner", Value(row, "subowner")))
    <3>1. CASE row.odd = "subowner"
      BY <3>1, Zenon DEF Value, Odd
    <3>2. CASE row.odd # "subowner"
      <4>1. Value(row, "subowner") = Plain("subowner") /\ "subowner" \in Column
        BY <3>2, Zenon DEF Value, Column
      <4> QED
        BY <4>1, PlainIsBare, ElementsParse, Zenon DEF Bare
    <3> QED
      BY <3>1, <3>2
  <2> HIDE DEF row
  <2>4. i.text.bug = <<>> /\ i.text.alt_contact = <<>> /\ i.text.subowner = Value(row, "subowner")
    BY QueueItemIs, Zenon
  <2> HIDE DEF i
  <2> QED
    BY <2>2, <2>3, <2>4, QmonParses, Zenon
<1> QED
  BY <1>1, Invariant, PTL

-----------------------------------------------------------------------------
(* /srinfo and /userqueue                                                  *)

\* Elements that nobody compares; documents that are the same but for them.
Dropped(doc, drop) == \A e \in doc : e.tag \in drop

Same(a, b, drop) == {e \in a : e.tag \notin drop} = {e \in b : e.tag \notin drop}

LEMMA DroppedElements ==
  ASSUME NEW drop, NEW tag \in drop, NEW t
  PROVE  /\ Dropped(Raw(tag, t), drop) /\ Dropped(CData(tag, t), drop)
         /\ Dropped(Given(tag, t), drop) /\ Dropped(Flag(tag, t), drop)
         /\ \A cond : Dropped(Only(cond, CData(tag, t)), drop)
BY DEF Dropped, Raw, CData, Given, Flag, Only

LEMMA DroppedOnly ==
  ASSUME NEW drop, NEW A, Dropped(A, drop)
  PROVE  /\ \A cond : Dropped(Only(cond, A), drop)
         /\ \A B : Dropped(B, drop) => Dropped(A \cup B, drop) /\ Same(A, B, drop)
BY DEF Dropped, Only, Same

LEMMA SameUnion ==
  ASSUME NEW drop, NEW A, NEW B, NEW C, NEW D, Same(A, C, drop), Same(B, D, drop)
  PROVE  Same(A \cup B, C \cup D, drop)
BY DEF Same

LEMMA SameSelf ==
  ASSUME NEW drop, NEW A
  PROVE  Same(A, A, drop)
BY DEF Same

\* What SameSr does not compare.
NotAlike(row) ==
  {"crsr", "crsr_cust", "crsr_desc", "owner", "subowner", "lastupdate"}
    \cup (IF row.cr THEN {"critsit"} ELSE {})
    \cup (IF isBugID(Value(row, "bug")) THEN {} ELSE {"bug", "bug_desc"})
    \cup (IF Escapes(Value(row, "detailed_desc")) = {} THEN {} ELSE {"ddesc"})

\* getSrInfo and getUserQueue read the same columns but for the last update, and format
\* them alike.
LEMMA SameTexts ==
  ASSUME NEW row \in Row
  PROVE  LET x == SrInfoText(row)
             y == UserQueueText(row)
         IN /\ x.name = y.name /\ x.customer = y.customer /\ x.contact = y.contact
            /\ x.creator = y.creator /\ x.brief_desc = y.brief_desc /\ x.created = y.created
            /\ x.alt_contact = y.alt_contact
            /\ Escapes(Value(row, "detailed_desc")) = {} => x.detailed_desc = y.detailed_desc
            /\ isBugID(Value(row, "bug")) => x.bug = y.bug /\ x.bugdesc = y.bugdesc
<1> DEFINE x == SrInfoText(row)
           y == UserQueueText(row)
           bug == isBugID(Value(row, "bug"))
           notRead == {"crsr", "crsrcust", "crsrdesc", "owner", "subowner"}
                        \cup (IF bug THEN {} ELSE {"bug", "bugdesc"})
           alike == {"name", "customer", "contact", "creator", "brief_desc", "created",
                     "alt_contact"}
<1>1. \A c \in Field : x[c] = CASE c \in notRead -> <<>>
                                [] c = "detailed_desc" -> escapeString(Text(row, c))
                                [] OTHER -> Text(row, c)
  BY Zenon DEF SrInfoText
<1>2. \A c \in Field : c # "last_update" =>
        y[c] = IF c = "bugdesc" /\ ~bug THEN <<>> ELSE Text(row, c)
  BY Zenon DEF UserQueueText
<1>3. /\ \A c \in alike : /\ c \in Field /\ c \notin notRead
                           /\ c \notin {"detailed_desc", "bugdesc", "last_update"}
      /\ "detailed_desc" \in Field /\ "detailed_desc" \notin notRead
      /\ "bug" \in Field /\ "bugdesc" \in Field
      /\ bug => "bug" \notin notRead /\ "bugdesc" \notin notRead
  BY DEF Field, Column, Dates
<1> HIDE DEF x, y, notRead, alike
<1>4. \A c \in alike : x[c] = y[c]
  BY <1>1, <1>2, <1>3, Zenon
<1>5. bug => x["bug"] = y["bug"] /\ x["bugdesc"] = y["bugdesc"]
  <2>1. "bug" # "detailed_desc" /\ "bugdesc" # "detailed_desc" /\ "bug" # "bugdesc"
        /\ "bug" # "last_update" /\ "bugdesc" # "last_update"
    OBVIOUS
  <2> HIDE DEF bug
  <2> QED
    BY <1>1, <1>2, <1>3, <2>1, Zenon
<1>6. Escapes(Value(row, "detailed_desc")) = {} => x["detailed_desc"] = y["detailed_desc"]
  <2> SUFFICES ASSUME Escapes(Value(row, "detailed_desc")) = {}
               PROVE  x["detailed_desc"] = y["detailed_desc"]
    OBVIOUS
  <2> DEFINE v == Value(row, "detailed_desc")
  <2>1. v \in Seq(Characters)
    BY ValueIs, Zenon DEF Descriptions
  <2>2. Text(row, "detailed_desc") = Protect(v)
    BY Zenon DEF Text, Dates
  <2>3. Escapes(v) = {}
    OBVIOUS
  <2> HIDE DEF v
  <2>4. escapeString(Protect(v)) = Protect(v)
    BY <2>1, <2>3, ProtectIs, EscapeIs, Zenon
  <2>5. x["detailed_desc"] = escapeString(Text(row, "detailed_desc"))
    BY <1>1, <1>3, Zenon
  <2>6. y["detailed_desc"] = Text(row, "detailed_desc")
    <3>1. "detailed_desc" # "bugdesc" /\ "detailed_desc" # "last_update"
      OBVIOUS
    <3> QED
      BY <1>2, <1>3, <3>1, Zenon
  <2> QED
    BY <2>2, <2>4, <2>5, <2>6, Zenon
<1> QED
  BY <1>4, <1>5, <1>6 DEF alike, x, y, bug

\* Two items with the same texts make the same elements.
LEMMA SameItems ==
  ASSUME NEW i, NEW j, NEW drop,
         {"crsr", "crsr_cust", "crsr_desc", "owner", "subowner", "lastupdate"} \subseteq drop,
         i.isCr = j.isCr, i.high_value = j.high_value,
         "critsit" \in drop \/ i.critsit = j.critsit,
         i.text.name = j.text.name, i.text.customer = j.text.customer,
         i.text.contact = j.text.contact, i.text.creator = j.text.creator,
         i.text.brief_desc = j.text.brief_desc, i.text.created = j.text.created,
         i.text.alt_contact = j.text.alt_contact,
         "ddesc" \in drop \/ i.text.detailed_desc = j.text.detailed_desc,
         \/ {"bug", "bug_desc"} \subseteq drop
         \/ i.text.bug = j.text.bug /\ i.text.bugdesc = j.text.bugdesc
  PROVE  Same(sr(i), sr(j), drop)
<1>1. Same(Body(i), Body(j), drop)
  <2>1. Same(Given("ddesc", i.text.detailed_desc), Given("ddesc", j.text.detailed_desc), drop)
    <3>1. CASE "ddesc" \in drop
      BY <3>1, DroppedElements, DroppedOnly, Zenon
    <3>2. CASE i.text.detailed_desc = j.text.detailed_desc
      BY <3>2, SameSelf, Zenon
    <3> QED
      BY <3>1, <3>2
  <2>2. Same(Flag("critsit", i.critsit), Flag("critsit", j.critsit), drop)
    <3>1. CASE "critsit" \in drop
      BY <3>1, DroppedElements, DroppedOnly, Zenon
    <3>2. CASE i.critsit = j.critsit
      BY <3>2, SameSelf, Zenon
    <3> QED
      BY <3>1, <3>2
  <2> DEFINE A == CData("name", i.text.name) \cup CData("bdesc", i.text.brief_desc)
             B == Raw("created", i.text.created)
             C(k) == Raw("lastupdate", k.text.last_update)
             D == Flag("highvalue", i.high_value)
             G(k) == Given("ddesc", k.text.detailed_desc)
             F(k) == Flag("critsit", k.critsit)
             P(k) == A \cup G(k)
             Q(k) == P(k) \cup B \cup C(k) \cup D
  <2>3. Body(i) = Q(i) \cup F(i)
    BY Zenon DEF Body
  <2>4. Body(j) = Q(j) \cup F(j)
    BY Zenon DEF Body
  <2>5. Same(G(i), G(j), drop) /\ Same(F(i), F(j), drop) /\ Same(C(i), C(j), drop)
    <3>1. \A k : Dropped(C(k), drop)
      BY DroppedElements, Zenon
    <3> QED
      BY <2>1, <2>2, <3>1, DroppedOnly, Zenon
  <2> HIDE DEF A, B, C, D, G, F
  <2>6. Same(P(i), P(j), drop)
    BY <2>5, SameSelf, SameUnion, Zenon
  <2> HIDE DEF P
  <2>7. Same(Q(i), Q(j), drop)
    <3>1. Same(P(i) \cup B, P(j) \cup B, drop)
      BY <2>6, SameSelf, SameUnion, Zenon
    <3>2. Same(P(i) \cup B \cup C(i), P(j) \cup B \cup C(j), drop)
      BY <2>5, <3>1, SameUnion, Zenon
    <3> QED
      BY <3>2, SameSelf, SameUnion, Zenon
  <2> HIDE DEF Q
  <2>8. Same(Q(i) \cup F(i), Q(j) \cup F(j), drop)
    BY <2>5, <2>7, SameUnion, Zenon
  <2> QED
    BY <2>3, <2>4, <2>8, Zenon
<1> DEFINE Own(k) == IF k.isCr THEN Cr(k.text) ELSE Customer(k.text) \cup AltContact(k.text)
<1>2. Same(Own(i), Own(j), drop)
  <2>1. CASE i.isCr
    <3> DEFINE A == Raw("srtype", <<"cr">>) \cup Raw("creator", i.text.creator)
               R(k) == Raw("crsr", k.text.crsr)
               S(k) == CData("crsr_cust", k.text.crsrcust)
               T(k) == CData("crsr_desc", k.text.crsrdesc)
    <3>1. Own(i) = ((A \cup R(i)) \cup S(i)) \cup T(i) /\ Own(j) = ((A \cup R(j)) \cup S(j)) \cup T(j)
      BY <2>1, Zenon DEF Cr
    <3>2. /\ \A k : Dropped(R(k), drop)
          /\ \A k : Dropped(S(k), drop)
          /\ \A k : Dropped(T(k), drop)
      BY DroppedElements, Zenon
    <3> HIDE DEF A, R, S, T, Own
    <3>3. Same(R(i), R(j), drop) /\ Same(S(i), S(j), drop) /\ Same(T(i), T(j), drop)
      BY <3>2, DroppedOnly, Zenon
    <3>4. Same(A \cup R(i), A \cup R(j), drop)
      BY <3>3, SameSelf, SameUnion, Zenon
    <3>5. Same(A \cup R(i) \cup S(i), A \cup R(j) \cup S(j), drop)
      BY <3>3, <3>4, SameUnion, Zenon
    <3>6. Same(A \cup R(i) \cup S(i) \cup T(i), A \cup R(j) \cup S(j) \cup T(j), drop)
      BY <3>3, <3>5, SameUnion, Zenon
    <3> QED
      BY <3>1, <3>6, Zenon
  <2>2. CASE ~i.isCr
    <3>1. Own(i) = Own(j)
      BY <2>2, Zenon DEF Customer, AltContact
    <3> QED
      BY <3>1, SameSelf, Zenon
  <2> QED
    BY <2>1, <2>2
<1> DEFINE Owner(k) == CData("owner", k.text.owner)
           Bug(k) == Only(k.text.bug # <<>>,
                          CData("bug", k.text.bug)
                            \cup Only(k.text.bugdesc # <<>>, CData("bug_desc", k.text.bugdesc)))
<1>3. Same(Owner(i), Owner(j), drop) /\ Same(Subowner(i.text), Subowner(j.text), drop)
  BY DroppedElements, DroppedOnly, Zenon DEF Subowner
<1>4. Same(Bug(i), Bug(j), drop)
  <2>1. CASE {"bug", "bug_desc"} \subseteq drop
    <3>1. \A k : Dropped(CData("bug", k.text.bug), drop)
      BY <2>1, DroppedElements, Zenon
    <3>2. \A k : Dropped(Only(k.text.bugdesc # <<>>, CData("bug_desc", k.text.bugdesc)), drop)
      BY <2>1, DroppedElements, Zenon
    <3>3. \A k : Dropped(Bug(k), drop)
      BY <3>1, <3>2, DroppedOnly, Zenon
    <3> QED
      BY <3>3, DroppedOnly, Zenon
  <2>2. CASE i.text.bug = j.text.bug /\ i.text.bugdesc = j.text.bugdesc
    <3>1. Bug(i) = Bug(j)
      BY <2>2, Zenon
    <3> QED
      BY <3>1, SameSelf, Zenon
  <2> QED
    BY <2>1, <2>2
<1>5. \A k : sr(k) = (((Body(k) \cup Own(k)) \cup Owner(k)) \cup Subowner(k.text)) \cup Bug(k)
  BY Zenon DEF sr
<1> HIDE DEF Own, Owner, Bug
<1> QED
  BY <1>1, <1>2, <1>3, <1>4, <1>5, SameUnion, Zenon

\* /srinfo and /userqueue ask Siebel each in its own query, and tell the same of an SR but
\* for what SameSr lists.
THEOREM BothTellTheSame == Spec => []SameSr
<1>1. IInv => SameSr
  <2> DEFINE row == call.row
             i == Item(SrInfoText(row), row.cr, row.critsit, row.high, FALSE)
             j == getUserQueue(row)
             drop == NotAlike(row)
  <2> SUFFICES ASSUME IInv, Answered({"srinfo"}), row.found
               PROVE  Same(answer, sr(j), drop)
    BY Zenon DEF SameSr, Same, NotAlike
  <2>1. {"srinfo"} \in SUBSET Document
    BY DEF Document
  <2>2. answer = sr(i) /\ row \in Row
    <3>1. call.of = "srinfo" /\ \E k \in getSrInfo(row) : answer = sr(k)
      BY <2>1, DocumentIs, Zenon
    <3>2. getSrInfo(row) = {i}
      BY ItemIs, Zenon
    <3>3. row \in Row
      BY <2>1, DocumentIs, Zenon
    <3> QED
      BY <3>1, <3>2, <3>3, Zenon
  <2> HIDE DEF row
  <2>3. /\ i.text = SrInfoText(row) /\ i.isCr = row.cr
        /\ i.high_value = row.high /\ i.critsit = row.critsit
    BY DEF Item
  <2>4. /\ j.text = UserQueueText(row) /\ j.isCr = row.cr
        /\ j.high_value = row.high /\ (~row.cr => j.critsit = row.critsit)
    <3>1. row.critsit \in BOOLEAN
      BY <2>2, RowIs, Zenon
    <3> QED
      BY <3>1 DEF getUserQueue, Item
  <2>5. /\ {"crsr", "crsr_cust", "crsr_desc", "owner", "subowner", "lastupdate"} \subseteq drop
        /\ row.cr => "critsit" \in drop
        /\ ~isBugID(Value(row, "bug")) => {"bug", "bug_desc"} \subseteq drop
        /\ Escapes(Value(row, "detailed_desc")) # {} => "ddesc" \in drop
    BY Zenon DEF NotAlike
  <2> HIDE DEF i, j, drop
  <2>6. /\ "critsit" \in drop \/ i.critsit = j.critsit
        /\ "ddesc" \in drop \/ i.text.detailed_desc = j.text.detailed_desc
        /\ {"bug", "bug_desc"} \subseteq drop \/ (i.text.bug = j.text.bug /\ i.text.bugdesc = j.text.bugdesc)
    BY <2>2, <2>3, <2>4, <2>5, SameTexts, Zenon
  <2>7. /\ i.text.name = j.text.name /\ i.text.customer = j.text.customer
        /\ i.text.contact = j.text.contact /\ i.text.creator = j.text.creator
        /\ i.text.brief_desc = j.text.brief_desc /\ i.text.created = j.text.created
        /\ i.text.alt_contact = j.text.alt_contact
        /\ i.isCr = j.isCr /\ i.high_value = j.high_value
    BY <2>2, <2>3, <2>4, SameTexts, Zenon
  <2> QED
    BY <2>2, <2>5, <2>6, <2>7, SameItems, Zenon
<1> QED
  BY <1>1, Invariant, PTL

-----------------------------------------------------------------------------
(* Descriptions                                                            *)

\* Nothing is dropped from a text that has nothing of it.
LEMMA WithoutNone ==
  ASSUME NEW drop, NEW S
  PROVE  \A t \in Seq(S) : (\A i \in 1..Len(t) : t[i] \notin drop) => Without(t, drop) = t
<1> DEFINE Kept(t) == \A i \in 1..Len(t) : t[i] \notin drop
           T == {t \in Seq(S) : Kept(t) => Without(t, drop) = t}
<1>1. <<>> \in T
  BY WithoutEmpty
<1>2. ASSUME NEW t \in Seq(S), NEW x \in S, t \in T
      PROVE  Append(t, x) \in T
  <2>1. /\ Append(t, x) \in Seq(S) /\ Len(Append(t, x)) = Len(t) + 1
        /\ \A i \in 1..Len(t) : Append(t, x)[i] = t[i] /\ i \in 1..(Len(t) + 1)
        /\ Append(t, x)[Len(t) + 1] = x /\ Len(t) + 1 \in 1..(Len(t) + 1)
    OBVIOUS
  <2> DEFINE u == Append(t, x)
  <2> HIDE DEF u
  <2>2. Kept(u) => Kept(t) /\ x \notin drop
    BY <2>1, Zenon DEF u
  <2>3. Without(u, drop) = IF x \in drop THEN Without(t, drop) ELSE Append(Without(t, drop), x)
    BY WithoutAppend DEF u
  <2>4. Kept(u) => Without(u, drop) = u
    BY <1>2, <2>2, <2>3, Zenon DEF u
  <2> QED
    BY <2>1, <2>4, Zenon DEF u
<1>3. Seq(S) \subseteq T
  <2> HIDE DEF T
  <2> QED
    BY <1>1, <1>2, SeqInd
<1> QED
  BY <1>3

\* A client that reads "&gt;" as ">" gets back what Protect was given.
LEMMA UnprotectProtect ==
  ASSUME NEW t \in Seq(Characters)
  PROVE  Unprotect(Protect(t)) = t
<1> DEFINE p == Protect(t)
           u == Unprotect(p)
           S == Characters \cup {"gt"}
<1>1. /\ p \in Seq(S) /\ Len(p) = Len(t)
      /\ \A i \in 1..Len(t) : p[i] = IF i > 2 /\ EndsAt(t, i - 2) THEN "gt" ELSE t[i]
  BY ProtectIs, Zenon
<1> HIDE DEF p, S
<1>2. /\ u \in Seq(S \cup {">"}) /\ Len(u) = Len(p)
      /\ \A i \in 1..Len(p) : u[i] = IF p[i] = "gt" THEN ">" ELSE p[i]
  BY <1>1, UnprotectIs, Zenon
<1> HIDE DEF u
<1>3. ASSUME NEW i \in 1..Len(t)
      PROVE  u[i] = t[i]
  <2>1. EndsAt(t, i - 2) => t[i] = ">"
    BY DEF EndsAt
  <2>2. t[i] # "gt"
    <3>1. t[i] \in Characters
      OBVIOUS
    <3> QED
      BY <3>1 DEF Characters
  <2> QED
    BY <1>1, <1>2, <2>1, <2>2
<1>4. u = t
  <2> DEFINE C == Characters
  <2> HIDE DEF C
  <2>1. t \in Seq(C)
    BY DEF C
  <2> QED
    BY <1>1, <1>2, <1>3, <2>1
<1> QED
  BY <1>4, Zenon DEF u, p

\* What /srinfo shows of a description.
LEMMA EscapedIs ==
  ASSUME NEW t \in Seq(Characters)
  PROVE  LET f == escapeString(Protect(t)) IN
         /\ f \in Seq(Characters \cup {"gt"})
         /\ Visible(Unprotect(f)) = Visible(t)
         /\ Escapes(t) = {} => f = Protect(t)
         /\ Controls(t) = Escapes(t) /\ Spread(t)
              /\ (Escapes(t) = {} \/ ~Holds(Visible(t), Cdend)) => Clean(f)
<1> DEFINE S == Characters \cup {"gt"}
           p == Protect(t)
           f == escapeString(p)
           u == Unprotect(f)
<1>1. /\ p \in Seq(S) /\ ~Holds(p, Cdend)
      /\ Controls(p) = Controls(t) /\ Escapes(p) = Escapes(t)
  BY ProtectIs, Zenon
<1>2. Unprotect(p) = t
  BY UnprotectProtect, Zenon
<1> HIDE DEF p, S
<1>3. /\ f \in Seq(S) /\ Visible(Unprotect(f)) = Visible(Unprotect(p))
      /\ Escapes(p) = {} => f = p
      /\ Spread(p) => Escapes(f) = {}
      /\ Controls(p) = Escapes(p) => Controls(f) = Escapes(f)
  BY <1>1, EscapeIs, EscapeAddsNone, Zenon
<1> HIDE DEF f
<1>4. Visible(u) = Visible(t)
  BY <1>2, <1>3, Zenon
<1>5. /\ u \in Seq(S \cup {">"}) /\ Len(u) = Len(f)
      /\ \A i \in 1..Len(f) : u[i] = IF f[i] = "gt" THEN ">" ELSE f[i]
  BY <1>3, UnprotectIs, Zenon
<1> HIDE DEF u
<1>6. ASSUME Spread(t), Controls(t) = Escapes(t)
      PROVE  Controls(f) = {}
  BY <1>1, <1>3, <1>6, Zenon DEF Spread
<1>7. ASSUME Controls(f) = {}, Holds(f, Cdend)
      PROVE  Holds(Visible(t), Cdend)
  <2>1. \A i \in 1..Len(f) : f[i] # "esc"
    <3>1. DOMAIN f = 1..Len(f)
      BY <1>3
    <3> QED
      BY <1>7, <3>1 DEF Controls
  <2>2. \A i \in 1..Len(u) : u[i] \notin {"esc"}
    BY <1>5, <2>1
  <2>3. Visible(u) = u
    BY <1>5, <2>2, WithoutNone, Zenon DEF Visible
  <2>4. PICK i \in 1..(Len(f) - 2) : EndsAt(f, i)
    BY <1>3, <1>7, HoldsCdend, Zenon
  <2>5. /\ i \in 1..Len(f) /\ i + 1 \in 1..Len(f) /\ i + 2 \in 1..Len(f)
    BY <1>3
  <2>6. EndsAt(u, i) /\ i \in 1..(Len(u) - 2)
    BY <1>5, <2>4, <2>5 DEF EndsAt
  <2>7. Holds(u, Cdend)
    BY <1>5, <2>6, HoldsCdend, Zenon
  <2> QED
    BY <1>4, <2>3, <2>7, Zenon
<1>8. ASSUME Controls(t) = Escapes(t), Spread(t),
             Escapes(t) = {} \/ ~Holds(Visible(t), Cdend)
      PROVE  Clean(f)
  <2>1. Controls(f) = {}
    BY <1>6, <1>8
  <2>2. CASE Escapes(t) = {}
    BY <1>1, <1>3, <2>1, <2>2, Zenon DEF Clean
  <2>3. CASE ~Holds(Visible(t), Cdend)
    BY <1>7, <2>1, <2>3, Zenon DEF Clean
  <2> QED
    BY <1>8, <2>2, <2>3
<1> QED
  BY <1>1, <1>3, <1>4, <1>8, Zenon DEF f, u, p, S

\* The texts of /srinfo, if the description is odd.
LEMMA DescriptionParses ==
  ASSUME NEW row \in Row, row.odd = "detailed_desc",
         Controls(row.text) = Escapes(row.text), Spread(row.text),
         Escapes(row.text) = {} \/ ~Holds(Visible(row.text), Cdend)
  PROVE  TextsParse(SrInfoText(row), Unquoted)
<1> DEFINE t == row.text
           x == SrInfoText(row)
<1>1. t \in Seq(Characters)
  BY RowIs, Zenon DEF Descriptions
<1>2. \A c \in Field : \/ x[c] = <<>>
                       \/ c # "detailed_desc" /\ x[c] = Text(row, c)
                       \/ c = "detailed_desc" /\ x[c] = escapeString(Text(row, c))
  BY Zenon DEF SrInfoText
<1>3. Text(row, "detailed_desc") = Protect(t)
  BY Zenon DEF Text, Value, Dates
<1>4. Clean(escapeString(Protect(t)))
  BY <1>1, EscapedIs, Zenon
<1>5. \A c \in Column : c # "detailed_desc" =>
        Clean(Text(row, c)) /\ (c \notin Descriptions => Bare(Text(row, c)))
  <2> SUFFICES ASSUME NEW c \in Column, c # "detailed_desc"
               PROVE  Clean(Text(row, c)) /\ (c \notin Descriptions => Bare(Text(row, c)))
    OBVIOUS
  <2>1. Value(row, c) = Plain(c)
    BY Zenon DEF Value
  <2>2. CASE c = "brief_desc"
    <3>1. c \in Descriptions /\ Text(row, c) = Protect(Plain(c))
      BY <2>1, <2>2, Zenon DEF Text, Descriptions, Dates
    <3>2. Plain(c) \in Seq(Characters) /\ Controls(Plain(c)) = {}
      BY <2>1, <3>1, ValueIs, PlainIsBare, Zenon DEF Bare, Clean
    <3>3. Clean(Protect(Plain(c)))
      BY <3>2, ProtectIs, Zenon DEF Clean
    <3> QED
      BY <3>1, <3>3, Zenon
  <2>3. CASE c \in Dates
    <3>1. c # "brief_desc"
      BY <2>3 DEF Dates
    <3>2. Text(row, c) = convertTime(Value(row, c))
      BY <2>3, <3>1, Zenon DEF Text
    <3> QED
      BY <3>2, PlainIsBare, Zenon DEF Bare
  <2>4. CASE c # "brief_desc" /\ c \notin Dates
    <3>1. Text(row, c) = Plain(c)
      BY <2>1, <2>4, Zenon DEF Text
    <3> QED
      BY <3>1, PlainIsBare, Zenon DEF Bare
  <2> QED
    BY <2>2, <2>3, <2>4
<1>6. Bare(<<>>) /\ Clean(<<>>)
  BY NoneIsBare DEF Bare
<1> HIDE DEF t, x
<1>9. Field \subseteq Column
  BY DEF Field
<1>7. \A c \in Field : Clean(x[c])
  BY <1>2, <1>3, <1>4, <1>5, <1>6, <1>9, Zenon
<1>8. \A c \in Field \ Descriptions : Bare(x[c])
  <2>1. "detailed_desc" \in Descriptions
    BY DEF Descriptions
  <2> QED
    BY <1>2, <1>5, <1>6, <1>9, <2>1, Zenon
<1>10. Unquoted \cap Descriptions = {}
  BY DEF Unquoted, Descriptions
<1> QED
  BY <1>7, <1>8, <1>10 DEF TextsParse, x

\* No other element has the tag of the description.
Others(doc) == \A e \in doc : e.tag # "ddesc"

LEMMA OtherElements ==
  ASSUME NEW tag, tag # "ddesc", NEW t
  PROVE  /\ Others(Raw(tag, t)) /\ Others(CData(tag, t))
         /\ Others(Given(tag, t)) /\ Others(Flag(tag, t))
BY DEF Others, Raw, CData, Given, Flag, Only

LEMMA OtherOnly ==
  ASSUME NEW cond, NEW A, Others(A)
  PROVE  Others(Only(cond, A))
BY DEF Others, Only

LEMMA OtherUnion ==
  ASSUME NEW A, NEW B, Others(A), Others(B)
  PROVE  Others(A \cup B)
BY DEF Others

\* The description of doc is x.
ShownIn(doc, x) == \A e : e \in doc /\ e.tag = "ddesc" <=> e \in Given("ddesc", x)

LEMMA ShownBesides ==
  ASSUME NEW A, NEW B, NEW x, ShownIn(A, x), Others(B)
  PROVE  ShownIn(A \cup B, x)
BY DEF ShownIn, Others

\* The description is shown once, in the item's part that all documents have.
LEMMA ShownIs ==
  ASSUME NEW i
  PROVE  /\ ShownIn(sr(i), i.text.detailed_desc)
         /\ ShownIn(qmon(i), i.text.detailed_desc)
         /\ ShownIn(qmonDate(i), i.text.detailed_desc)
<1> DEFINE t == i.text
           x == t.detailed_desc
<1>1. ShownIn(Body(i), x)
  <2> DEFINE A == CData("name", t.name) \cup CData("bdesc", t.brief_desc)
             B == Raw("created", t.created)
             C == Raw("lastupdate", t.last_update)
             D == Flag("highvalue", i.high_value)
             E == Flag("critsit", i.critsit)
             R == A \cup B \cup C \cup D \cup E
             G == Given("ddesc", x)
  <2>1. Body(i) = A \cup G \cup B \cup C \cup D \cup E
    BY Zenon DEF Body
  <2>2. Others(A) /\ Others(B) /\ Others(C) /\ Others(D) /\ Others(E)
    BY OtherElements, OtherUnion, Zenon
  <2>3. \A e \in G : e.tag = "ddesc"
    BY DEF Given, Only, CData
  <2> HIDE DEF A, B, C, D, E, G
  <2>4. Body(i) = G \cup R
    BY <2>1
  <2>5. Others(R)
    <3>1. Others(A \cup B)
      BY <2>2, OtherUnion, Zenon
    <3>2. Others(A \cup B \cup C)
      BY <2>2, <3>1, OtherUnion, Zenon
    <3>3. Others(A \cup B \cup C \cup D)
      BY <2>2, <3>2, OtherUnion, Zenon
    <3> QED
      BY <2>2, <3>3, OtherUnion, Zenon
  <2> HIDE DEF R
  <2>6. ShownIn(G, x)
    BY <2>3, Zenon DEF ShownIn, G
  <2> QED
    BY <2>4, <2>5, <2>6, ShownBesides, Zenon
<1> DEFINE Own == IF i.isCr THEN Cr(t) ELSE Customer(t) \cup AltContact(t)
           OwnDate == IF i.isCr THEN CrDate(t) ELSE Customer(t)
           Bug == Only(t.bug # <<>>,
                       CData("bug", t.bug) \cup Only(t.bugdesc # <<>>, CData("bug_desc", t.bugdesc)))
           BugNumber == Only(t.bug # <<>>, CData("bug", t.bug))
           Owner == CData("owner", t.owner)
<1>2. Others(Chat(i)) /\ Others(Subowner(t)) /\ Others(Owner) /\ Others(BugNumber)
  BY OtherElements, OtherOnly, Zenon DEF Chat, Subowner
<1>3. Others(Bug)
  BY OtherElements, OtherOnly, OtherUnion, Zenon
<1>4. Others(Customer(t)) /\ Others(AltContact(t))
  BY OtherElements, OtherOnly, OtherUnion, Zenon DEF Customer, AltContact
<1>5. Others(Cr(t))
  BY OtherElements, OtherUnion, Zenon DEF Cr
<1>6. Others(CrDate(t))
  BY OtherElements, OtherUnion, Zenon DEF CrDate
<1>7. Others(Own) /\ Others(OwnDate)
  BY <1>4, <1>5, <1>6, OtherUnion, Zenon
<1>8. /\ sr(i) = Body(i) \cup Own \cup Owner \cup Subowner(t) \cup Bug
      /\ qmon(i) = Body(i) \cup Chat(i) \cup Own \cup BugNumber \cup Subowner(t)
      /\ qmonDate(i) = Body(i) \cup Chat(i) \cup OwnDate
  BY Zenon DEF sr, qmon, qmonDate
<1> HIDE DEF Own, OwnDate, Bug, BugNumber, Owner, x
<1>9. ShownIn(Body(i) \cup Own, x) /\ ShownIn(Body(i) \cup Chat(i), x)
  BY <1>1, <1>2, <1>7, ShownBesides, Zenon
<1>10. ShownIn(sr(i), x)
  <2>1. ShownIn(Body(i) \cup Own \cup Owner, x)
    BY <1>2, <1>9, ShownBesides, Zenon
  <2>2. ShownIn(Body(i) \cup Own \cup Owner \cup Subowner(t), x)
    BY <1>2, <2>1, ShownBesides, Zenon
  <2>3. ShownIn(Body(i) \cup Own \cup Owner \cup Subowner(t) \cup Bug, x)
    BY <1>3, <2>2, ShownBesides, Zenon
  <2> QED
    BY <1>8, <2>3, Zenon
<1>11. ShownIn(qmon(i), x)
  <2>1. ShownIn(Body(i) \cup Chat(i) \cup Own, x)
    BY <1>7, <1>9, ShownBesides, Zenon
  <2>2. ShownIn(Body(i) \cup Chat(i) \cup Own \cup BugNumber, x)
    BY <1>2, <2>1, ShownBesides, Zenon
  <2>3. ShownIn(Body(i) \cup Chat(i) \cup Own \cup BugNumber \cup Subowner(t), x)
    BY <1>2, <2>2, ShownBesides, Zenon
  <2> QED
    BY <1>8, <2>3, Zenon
<1>12. ShownIn(qmonDate(i), x)
  <2>1. ShownIn(Body(i) \cup Chat(i) \cup OwnDate, x)
    BY <1>7, <1>9, ShownBesides, Zenon
  <2> QED
    BY <1>8, <2>1, Zenon
<1> QED
  BY <1>10, <1>11, <1>12, Zenon DEF x

\* The text that a document shows of a description t.
Shown(of, t) == IF of = "srinfo" THEN escapeString(Protect(t)) ELSE Protect(t)

\* Whichever document it is, and on whichever way the description came to it.
LEMMA ShownText ==
  ASSUME IInv, Answered({"userqueue", "srinfo", "qmon", "qmon_date"}), Odd({"detailed_desc"})
  PROVE  /\ call.row.text \in Seq(Characters)
         /\ ShownIn(answer, Shown(call.of, call.row.text))
<1> DEFINE row == call.row
           t == row.text
           of == {"userqueue", "srinfo", "qmon", "qmon_date"}
<1>1. /\ call.of \in of /\ row \in Row
      /\ call.of = "userqueue" => answer = sr(getUserQueue(row))
      /\ call.of = "srinfo" => \E i \in getSrInfo(row) : answer = sr(i)
      /\ call.of = "qmon" => answer = qmon(getSrsForQueue(row))
      /\ call.of = "qmon_date" => answer = qmonDate(getSrsForQueue(row))
  <2>1. of \in SUBSET Document
    BY DEF Document
  <2> QED
    BY <2>1, DocumentIs, Zenon
<1>2. row.odd = "detailed_desc"
  BY DEF Odd
<1> HIDE DEF row
<1>3. t \in Seq(Characters) /\ row.found
  <2>1. "detailed_desc" \in Descriptions /\ "detailed_desc" # "name"
    BY DEF Descriptions
  <2> QED
    BY <1>1, <1>2, <2>1, RowIs, Zenon
<1>4. Value(row, "detailed_desc") = t /\ Text(row, "detailed_desc") = Protect(t)
  BY <1>2, Zenon DEF Value, Text, Dates
<1>5. "detailed_desc" \in Field /\ "detailed_desc" \notin {"bugdesc", "last_update"}
  BY DEF Field, Column, Dates
<1>6. CASE call.of = "userqueue"
  <2>1. UserQueueText(row)["detailed_desc"] = Protect(t)
    BY <1>4, <1>5, Zenon DEF UserQueueText
  <2>2. getUserQueue(row).text = UserQueueText(row)
    BY ItemIs, Zenon
  <2>3. Shown(call.of, t) = Protect(t)
    BY <1>6 DEF Shown
  <2> QED
    BY <1>1, <1>3, <1>6, <2>1, <2>2, <2>3, ShownIs, Zenon DEF row
<1>7. CASE call.of \in {"qmon", "qmon_date"}
  <2>1. getSrsForQueue(row).text.detailed_desc = Protect(t)
    BY <1>4, QueueItemIs, Zenon
  <2>2. Shown(call.of, t) = Protect(t)
    BY <1>7 DEF Shown
  <2> QED
    BY <1>1, <1>3, <1>7, <2>1, <2>2, ShownIs, Zenon DEF row
<1>8. CASE call.of = "srinfo"
  <2>1. PICK i \in getSrInfo(row) : answer = sr(i)
    BY <1>1, <1>8
  <2>2. i.text = SrInfoText(row)
    BY <1>3, ItemIs, Zenon
  <2>3. SrInfoText(row)["detailed_desc"] = escapeString(Protect(t))
    <3>1. SrInfoText(row)["detailed_desc"] = escapeString(Text(row, "detailed_desc"))
      BY <1>5, Zenon DEF SrInfoText
    <3> QED
      BY <1>4, <3>1, Zenon
  <2>4. Shown(call.of, t) = escapeString(Protect(t))
    BY <1>8 DEF Shown
  <2> QED
    BY <1>3, <2>1, <2>2, <2>3, <2>4, ShownIs, Zenon DEF row
<1> QED
  BY <1>1, <1>6, <1>7, <1>8

\* escapeString: a description with U+001B or U+0011 in it is in /srinfo in one piece, and
\* readable if they are spread and there is no other control character; and in no document
\* of an SR is a description escaped twice or cut.
THEOREM DescriptionsArrive == Spec => []DescriptionArrives
<1>1. IInv => ControlsAreEscaped
  <2> DEFINE row == call.row
             t == row.text
  <2> SUFFICES ASSUME IInv, Answered({"srinfo"}), Odd({"detailed_desc"}),
                      Controls(t) = Escapes(t), Spread(t),
                      Escapes(t) = {} \/ ~Holds(Visible(t), Cdend)
               PROVE  Parses(answer)
    BY Zenon DEF ControlsAreEscaped, Spread
  <2>1. {"srinfo"} \in SUBSET Document
    BY DEF Document
  <2>2. row \in Row /\ row.odd = "detailed_desc" /\ \E i \in getSrInfo(row) : answer = sr(i)
    BY <2>1, DocumentIs, Zenon DEF Odd
  <2>3. TextsParse(SrInfoText(row), Unquoted)
    BY <2>2, DescriptionParses, Zenon
  <2> HIDE DEF row
  <2>4. row.found
    <3>1. "detailed_desc" # "name"
      OBVIOUS
    <3> QED
      BY <2>2, <3>1, RowIs, Zenon
  <2> QED
    BY <2>2, <2>3, <2>4, ItemIs, ItemParses, Zenon
<1>2. IInv => TextIsKept
  <2> DEFINE t == call.row.text
             x == Shown(call.of, t)
             C == Characters
             S == C \cup {"gt"}
  <2> SUFFICES ASSUME IInv, Answered({"userqueue", "srinfo", "qmon", "qmon_date"}),
                      Odd({"detailed_desc"})
               PROVE  IF t = <<>> THEN ~Shows("ddesc")
                      ELSE IF Shows("ddesc") THEN Visible(Unprotect(TextAt("ddesc"))) = Visible(t)
                      ELSE call.of = "srinfo" /\ Visible(t) = <<>>
    BY Zenon DEF TextIsKept
  <2>1. t \in Seq(C) /\ ShownIn(answer, x)
    BY ShownText, Zenon
  <2>2. Protect(t) \in Seq(S) /\ Len(Protect(t)) = Len(t) /\ Visible(Unprotect(Protect(t))) = Visible(t)
    <3>1. Unprotect(Protect(t)) = t
      BY <2>1, UnprotectProtect, Zenon
    <3> QED
      BY <2>1, <3>1, ProtectIs, Zenon
  <2>3. /\ escapeString(Protect(t)) \in Seq(S)
        /\ Visible(Unprotect(escapeString(Protect(t)))) = Visible(t)
        /\ Escapes(t) = {} => escapeString(Protect(t)) = Protect(t)
    BY <2>1, EscapedIs, Zenon
  <2>4. x \in Seq(S) /\ Visible(Unprotect(x)) = Visible(t)
    BY <2>2, <2>3, Zenon DEF Shown
  <2>5. call.of # "srinfo" => x = Protect(t)
    BY Zenon DEF Shown
  <2>6. t = <<>> => x = <<>>
    <3> SUFFICES ASSUME t = <<>>
                 PROVE  x = <<>>
      OBVIOUS
    <3>1. Escapes(t) = {}
      <4>1. Controls(t) = {}
        BY NoneIsBare, Zenon DEF Bare, Clean
      <4> QED
        BY <4>1 DEF Controls, Escapes
    <3>2. Protect(t) = <<>>
      <4> DEFINE p == Protect(t)
                 s == S
      <4> HIDE DEF p, s
      <4>1. p \in Seq(s) /\ Len(p) = 0
        BY <2>2 DEF p, s
      <4>2. p = <<>>
        BY <4>1
      <4> QED
        BY <4>2 DEF p
    <3> QED
      BY <2>3, <3>1, <3>2, Zenon DEF Shown
  <2>7. x \in {<<>>, <<"0">>, <<"1">>} => x = <<>>
    <3>1. "0" \notin S /\ "1" \notin S
      BY DEF Characters
    <3> DEFINE zero == "0"
               one == "1"
    <3> HIDE DEF zero, one, S, x
    <3>2. x = <<zero>> \/ x = <<one>> => FALSE
      <4>1. zero \notin S /\ one \notin S
        BY <3>1 DEF zero, one
      <4>2. ASSUME NEW z, x = <<z>>
            PROVE  z \in S
        <5>1. <<z>> \in Seq(S)
          BY <2>4, <4>2, Zenon
        <5> QED
          BY <5>1
      <4> QED
        BY <4>1, <4>2
    <3> QED
      BY <3>2 DEF zero, one
  <2>8. Given("ddesc", x) = IF x \in {<<>>, <<"0">>, <<"1">>} THEN {} ELSE CData("ddesc", x)
    BY Zenon DEF Given, Only
  <2> HIDE DEF t, x
  <2>9. CASE x = <<>>
    <3>1. Given("ddesc", x) = {}
      BY <2>8, <2>9, Zenon
    <3>2. ~Shows("ddesc")
      BY <2>1, <3>1, Zenon DEF Shows, ShownIn
    <3>3. Visible(<<>>) = <<>>
      BY WithoutEmpty, Zenon DEF Visible
    <3>4. Unprotect(<<>>) = <<>>
      BY DEF Unprotect
    <3>5. Visible(t) = <<>>
      BY <2>4, <2>9, <3>3, <3>4, Zenon
    <3>6. t # <<>> => call.of = "srinfo"
      <4> SUFFICES ASSUME call.of # "srinfo"
                   PROVE  t = <<>>
        OBVIOUS
      <4>1. Protect(t) = <<>>
        BY <2>5, <2>9
      <4>2. Len(t) = 0
        <5>1. Len(<<>>) = 0
          OBVIOUS
        <5> QED
          BY <2>2, <4>1, <5>1, Zenon
      <4> HIDE DEF C
      <4>3. t \in Seq(C)
        BY <2>1
      <4> QED
        BY <4>2, <4>3
    <3> QED
      BY <3>2, <3>5, <3>6, Zenon
  <2>10. CASE x # <<>>
    <3> DEFINE e == [tag |-> "ddesc", cdata |-> TRUE, text |-> x]
    <3>1. Given("ddesc", x) = {e}
      BY <2>7, <2>8, <2>10, Zenon DEF CData
    <3>2. e.text = x /\ e.tag = "ddesc"
      OBVIOUS
    <3> HIDE DEF e
    <3>3. \A d : d \in answer /\ d.tag = "ddesc" <=> d = e
      BY <2>1, <3>1, Zenon DEF ShownIn
    <3>4. Shows("ddesc")
      BY <3>2, <3>3, Zenon DEF Shows
    <3>5. TextAt("ddesc") = x
      <4>1. (CHOOSE d \in answer : d.tag = "ddesc") = e
        BY <3>2, <3>3, Zenon
      <4> QED
        BY <3>2, <4>1, Zenon DEF TextAt
    <3> QED
      BY <2>4, <2>6, <2>10, <3>4, <3>5, Zenon
  <2> QED
    BY <2>9, <2>10, Zenon DEF t
<1> QED
  BY <1>1, <1>2, Invariant, PTL DEF DescriptionArrives

===============================================================================
