--------------------------- MODULE MCSymbolsProofs ---------------------------
(***************************************************************************)
(* Proofs about the passes over symbols, as their composition runs them.   *)
(* Identical code folding, Icf: functions are folded only if no program    *)
(* can tell, for every set of subsections and every link.  Symbol          *)
(* resolution, Resolve: members are in the output as they are needed, and  *)
(* what symbols are bound to is sound, for every set of files and every    *)
(* link.  The passes after it, Definitions: whatever stands for a          *)
(* subsection is in the output, for every family of links.                 *)
(*                                                                         *)
(* The invariant of the folding says that the classes of a round are a     *)
(* partition of the candidates whose members have the same content, and    *)
(* that the loop stops only at a partition that another propagation leaves *)
(* as it is.  That is the heart of it: the code compares numbers of        *)
(* classes, not classes, and a propagation that leaves the number leaves   *)
(* the partition, for it only ever splits classes.  Those of the others    *)
(* are explained where their parts begin.                                  *)
(***************************************************************************)
EXTENDS MCSymbols, FiniteSetTheorems, WellFoundedInduction, TLAPS

-----------------------------------------------------------------------------
(***************************************************************************)
(* Numbers, finite sets and functions defined by recursion.                *)
(***************************************************************************)

\* A set of numbers has a least one.
LEMMA LeastNat ==
    ASSUME NEW T \in SUBSET Nat, T # {}
    PROVE  \E x \in T : \A y \in T : x <= y
<1>1. PICK x \in T : \A y \in T : ~(<<y, x>> \in OpToRel(<, Nat))
  <2>. HIDE DEF OpToRel
  <2>. QED  BY WFMin, NatLessThanWellFounded, Zenon
<1>2. \A y \in T : ~(y < x)
  <2>. TAKE y \in T
  <2>1. ~(<<y, x>> \in OpToRel(<, Nat))
    BY <1>1
  <2>. QED  BY <2>1 DEF OpToRel
<1>. QED  BY <1>2

\* What holds of 0, and of n + 1 if of n, holds of all numbers: as a set, for
\* the provers take no predicate as a parameter.
LEMMA SetInduction ==
    ASSUME NEW T, 0 \in T, \A n \in Nat : n \in T => n + 1 \in T
    PROVE  Nat \subseteq T
<1>1. SUFFICES ASSUME Nat \ T # {}
               PROVE  FALSE
  OBVIOUS
<1>2. PICK x \in Nat \ T : \A y \in Nat \ T : x <= y
  BY <1>1, LeastNat
<1>3. x # 0 /\ x - 1 \in Nat /\ x - 1 \notin T
  BY <1>2
<1>. QED  BY <1>2, <1>3

LEMMA MinFacts ==
    ASSUME NEW T \in SUBSET Nat, T # {}
    PROVE  Icf!Min(T) \in T /\ \A y \in T : Icf!Min(T) <= y
  BY LeastNat DEF Icf!Min

LEMMA MaxFacts ==
    ASSUME NEW T \in SUBSET Nat, T # {}, NEW b \in Nat, \A y \in T : y <= b
    PROVE  Icf!Max(T) \in T /\ \A y \in T : y <= Icf!Max(T)
<1>. DEFINE U == {c \in Nat : \A y \in T : y <= c}
<1>1. PICK c \in U : \A e \in U : c <= e
  <2>1. b \in U /\ U \in SUBSET Nat
    OBVIOUS
  <2>. HIDE DEF U
  <2>. QED  BY <2>1, LeastNat
<1>2. c \in T
  <2>1. SUFFICES ASSUME c \notin T
                 PROVE  FALSE
    OBVIOUS
  <2>2. \A y \in T : y <= c /\ y # c
    BY <1>1, <2>1
  <2>3. PICK y \in T : TRUE
    OBVIOUS
  <2>4. c - 1 \in U
    BY <1>1, <2>2, <2>3
  <2>. QED  BY <1>1, <2>4
<1>3. \E x \in T : \A y \in T : x >= y
  BY <1>1, <1>2
<1>4. Icf!Max(T) \in T /\ \A y \in T : Icf!Max(T) >= y
  BY <1>3 DEF Icf!Max
<1>. QED  BY <1>4

\* A function into the numbers is bounded on a finite set.
LEMMA BoundedOnFinite ==
    ASSUME NEW S, IsFiniteSet(S), NEW f \in [S -> Nat]
    PROVE  \E b \in Nat : \A x \in S : f[x] <= b
<1>1. PICK n \in Nat : ExistsSurjection(1..n, S)
  BY FS_NatSurjection
<1>2. PICK e \in [1..n -> S] : \A x \in S : \E k \in 1..n : e[k] = x
  BY <1>1 DEF ExistsSurjection, Surjection
<1>. DEFINE Ok(m) == \E b \in Nat : \A k \in 1..m : f[e[k]] <= b
            T == {m \in Nat : m <= n => Ok(m)}
<1>3. 0 \in T
  OBVIOUS
<1>4. ASSUME NEW m \in Nat, m \in T
      PROVE  m + 1 \in T
  <2>1. SUFFICES ASSUME m + 1 <= n
                 PROVE  Ok(m + 1)
    OBVIOUS
  <2>2. PICK b \in Nat : \A k \in 1..m : f[e[k]] <= b
    BY <1>4, <2>1
  <2>3. f[e[m + 1]] \in Nat /\ \A k \in 1..m : f[e[k]] \in Nat
    BY <1>2, <2>1
  <2>4. b + f[e[m + 1]] \in Nat /\ \A k \in 1..(m + 1) : f[e[k]] <= b + f[e[m + 1]]
    BY <2>2, <2>3
  <2>. QED  BY <2>4
<1>5. n \in T
  <2>. HIDE DEF T
  <2>. QED  BY <1>3, <1>4, SetInduction
<1>6. PICK b \in Nat : \A k \in 1..n : f[e[k]] <= b
  BY <1>5
<1>. QED  BY <1>2, <1>6

\* A function defined by steps from one number to the next.
AreSteps(G, n, V) == \A k \in 1..n, v \in V : G[k][v] \in V
IsByStep(f, c, G, n) == f[0] = c /\ \A k \in 1..n : f[k] = G[k][f[k - 1]]

\* It exists, and has the type of its steps.
LEMMA FunctionByStep ==
    ASSUME NEW n \in Nat, NEW V, NEW c \in V, NEW G, AreSteps(G, n, V)
    PROVE  \E f \in [0..n -> V] : IsByStep(f, c, G, n)
<1>. USE DEF AreSteps, IsByStep
<1>. DEFINE Ok(m) == \E f \in [0..m -> V] : f[0] = c /\ \A k \in 1..m : f[k] = G[k][f[k - 1]]
            T == {m \in Nat : m <= n => Ok(m)}
<1>1. 0 \in T
  <2>. DEFINE f == [x \in 0..0 |-> c]
  <2>1. f \in [0..0 -> V] /\ f[0] = c /\ \A k \in 1..0 : f[k] = G[k][f[k - 1]]
    OBVIOUS
  <2>2. Ok(0)
    <3>. HIDE DEF f
    <3>. QED  BY <2>1
  <2>. QED  BY <2>2
<1>2. ASSUME NEW m \in Nat, m \in T
      PROVE  m + 1 \in T
  <2>1. SUFFICES ASSUME m + 1 <= n
                 PROVE  Ok(m + 1)
    OBVIOUS
  <2>2. PICK f \in [0..m -> V] : f[0] = c /\ \A k \in 1..m : f[k] = G[k][f[k - 1]]
    BY <1>2, <2>1
  <2>. DEFINE g == [x \in 0..(m + 1) |-> IF x = m + 1 THEN G[m + 1][f[m]] ELSE f[x]]
  <2>3. G[m + 1][f[m]] \in V
    BY <2>1, <2>2
  <2>4. g \in [0..(m + 1) -> V] /\ g[0] = c
    BY <2>2, <2>3
  <2>5. \A k \in 1..(m + 1) : g[k] = G[k][g[k - 1]]
    <3>1. TAKE k \in 1..(m + 1)
    <3>2. CASE k = m + 1
      BY <3>2
    <3>3. CASE k \in 1..m
      <4>1. g[k] = f[k] /\ g[k - 1] = f[k - 1]
        BY <3>3
      <4>. QED  BY <2>2, <3>3, <4>1
    <3>. QED  BY <3>2, <3>3
  <2>. QED  BY <2>4, <2>5
<1>3. n \in T
  <2>. HIDE DEF T
  <2>. QED  BY <1>1, <1>2, SetInduction
<1>. QED  BY <1>3

-----------------------------------------------------------------------------
(***************************************************************************)
(* Links, and the edges of a function.                                     *)
(***************************************************************************)

LEMMA LinkFacts ==
    ASSUME l \in FoldLinks
    PROVE  /\ FoldSubsecs \subseteq Nat /\ IsFiniteSet(FoldSubsecs)
           /\ l.redirect \in [FoldSubsecs -> FoldSubsecs]
           /\ \A i \in FoldSubsecs : l.redirect[l.redirect[i]] = l.redirect[i]
           /\ l.p2align \in [FoldSubsecs -> Nat]
           /\ \A i \in FoldSubsecs :
                 /\ l.rels[i] \in Seq([to : FoldSubsecs \cup FoldSyms, off : Int, add : Int, call : BOOLEAN])
                 /\ Len(l.rels[i]) \in Nat /\ DOMAIN l.rels[i] = 1..Len(l.rels[i])
<1>1. Icf!IsLink(l)
  BY IcfAssumption DEF Icf!LinkAssumption
<1>2. IsFiniteSet(FoldSubsecs)
  BY IcfAssumption DEF Icf!LinkAssumption, Icf!IsFiniteSet, IsFiniteSet
<1>3. /\ l.redirect \in [FoldSubsecs -> FoldSubsecs]
      /\ \A i \in FoldSubsecs : l.redirect[l.redirect[i]] = l.redirect[i]
      /\ l.p2align \in [FoldSubsecs -> Nat]
      /\ \A i \in FoldSubsecs :
            l.rels[i] \in Seq([to : FoldSubsecs \cup FoldSyms, off : Int, add : Int, call : BOOLEAN])
  BY <1>1 DEF Icf!IsLink
<1>4. FoldSubsecs \subseteq Nat
  BY IcfAssumption DEF Icf!LinkAssumption
<1>5. ASSUME NEW i \in FoldSubsecs
      PROVE  Len(l.rels[i]) \in Nat /\ DOMAIN l.rels[i] = 1..Len(l.rels[i])
  <2>. DEFINE R == [to : FoldSubsecs \cup FoldSyms, off : Int, add : Int, call : BOOLEAN]
  <2>1. l.rels[i] \in Seq(R)
    BY <1>3
  <2>. HIDE DEF R
  <2>. QED  BY <2>1
<1>. QED  BY <1>2, <1>3, <1>4, <1>5, Zenon

\* gather_edges, relocation by relocation: out is what is gathered of i's
\* relocations up to each one.
IsGathered(out, i, C) ==
    /\ out \in [0..Len(l.rels[i]) -> Seq(C)]
    /\ out[0] = <<>>
    /\ \A n \in 1..Len(l.rels[i]) :
          /\ Icf!ToCandidate(l.rels[i][n], C) => out[n] = Append(out[n - 1], l.redirect[l.rels[i][n].to])
          /\ ~Icf!ToCandidate(l.rels[i][n], C) => out[n] = out[n - 1]

LEMMA EdgesAreGathered ==
    ASSUME l \in FoldLinks, NEW i \in FoldSubsecs, NEW C \in SUBSET FoldSubsecs
    PROVE  \E out : IsGathered(out, i, C) /\ Icf!Edges(i, C) = out[Len(l.rels[i])]
<1>. DEFINE rels == l.rels[i]
            N == Len(rels)
            V == Seq(C)
            Step(n, v) == IF Icf!ToCandidate(rels[n], C) THEN Append(v, l.redirect[rels[n].to]) ELSE v
            H == [n \in 1..N |-> [v \in V |-> Step(n, v)]]
            G(g) == [n \in 0..N |-> IF n = 0 THEN <<>> ELSE Step(n, g[n - 1])]
            e == CHOOSE g : g = G(g)
<1>1. N \in Nat /\ DOMAIN rels = 1..N
  BY LinkFacts
<1>2. ASSUME NEW n \in 1..N, NEW v \in V
      PROVE  Step(n, v) \in V
  BY DEF Icf!ToCandidate
<1>3. \A n \in 1..N, v \in V : H[n][v] = Step(n, v) /\ H[n][v] \in V
  <2>. HIDE DEF Step, N, V
  <2>. QED  BY <1>2
<1>4. PICK f \in [0..N -> V] : f[0] = <<>> /\ \A n \in 1..N : f[n] = H[n][f[n - 1]]
  <2>1. N \in Nat /\ <<>> \in V /\ AreSteps(H, N, V)
    <3>1. <<>> \in V
      OBVIOUS
    <3>. HIDE DEF H, N, V
    <3>. QED  BY <1>1, <1>3, <3>1 DEF AreSteps
  <2>2. \E f \in [0..N -> V] : IsByStep(f, <<>>, H, N)
    <3>. HIDE DEF H, N, V
    <3>. QED  BY <2>1, FunctionByStep
  <2>. HIDE DEF H, N, V
  <2>. QED  BY <2>2 DEF IsByStep
<1>5. \A n \in 1..N : f[n - 1] \in V /\ f[n] = Step(n, f[n - 1])
  <2>. HIDE DEF H, N, Step, V
  <2>1. \A n \in 1..N : f[n - 1] \in V
    BY <1>1, <1>4
  <2>. QED  BY <1>3, <1>4, <2>1
<1>6. f = G(f)
  <2>. HIDE DEF H, N, Step, V
  <2>. QED  BY <1>1, <1>4, <1>5
<1>7. e = G(e)
  <2>. HIDE DEF G
  <2>. QED  BY <1>6
<1>8. DOMAIN e = 0..N /\ e[0] = <<>> /\ \A n \in 1..N : e[n] = Step(n, e[n - 1])
  <2>. HIDE DEF e, N, Step
  <2>. QED  BY <1>1, <1>7
<1>9. \A n \in 0..N : e[n] \in V
  <2>. DEFINE T == {m \in Nat : m <= N => e[m] \in V}
  <2>1. 0 \in T
    <3>1. <<>> \in V
      OBVIOUS
    <3>. HIDE DEF e, V
    <3>. QED  BY <1>8, <3>1
  <2>2. ASSUME NEW m \in Nat, m \in T
        PROVE  m + 1 \in T
    <3>1. SUFFICES ASSUME m + 1 <= N
                   PROVE  e[m + 1] \in V
      OBVIOUS
    <3>2. m + 1 \in 1..N /\ (m + 1) - 1 = m /\ e[m] \in V
      BY <1>1, <2>2, <3>1
    <3>. HIDE DEF e, Step, N, V
    <3>. QED  BY <1>2, <1>8, <3>2
  <2>3. Nat \subseteq T
    <3>. HIDE DEF T
    <3>. QED  BY <2>1, <2>2, SetInduction
  <2>. HIDE DEF e, V
  <2>. QED  BY <1>1, <2>3
<1>10. e \in [0..N -> V]
  <2>1. e = [n \in 0..N |-> e[n]]
    <3>. HIDE DEF e, N, Step
    <3>. QED  BY <1>7
  <2>. HIDE DEF e, V, N
  <2>. QED  BY <1>9, <2>1
<1>11. Icf!Edges(i, C) = e[N]
  BY DEF Icf!Edges
<1>12. IsGathered(e, i, C)
  <2>. HIDE DEF e
  <2>. QED  BY <1>8, <1>10 DEF IsGathered
<1>. HIDE DEF e
<1>. QED  BY <1>11, <1>12

\* What is gathered stays: the n-th relocation's target is in the same place
\* of what is gathered in the end.
LEMMA GatheredStays ==
    ASSUME l \in FoldLinks, NEW i \in FoldSubsecs, NEW C \in SUBSET FoldSubsecs,
           NEW out, IsGathered(out, i, C), NEW n \in 0..Len(l.rels[i])
    PROVE  LET last == out[Len(l.rels[i])] IN
           Len(out[n]) <= Len(last) /\ \A p \in 1..Len(out[n]) : last[p] = out[n][p]
<1>. DEFINE N == Len(l.rels[i])
            Kept(m) == Len(out[n]) <= Len(out[n + m]) /\ \A p \in 1..Len(out[n]) : out[n + m][p] = out[n][p]
            T == {m \in Nat : n + m <= N => Kept(m)}
<1>1. N \in Nat /\ \A m \in 0..N : out[m] \in Seq(C) /\ Len(out[m]) \in Nat
  BY LinkFacts DEF IsGathered
<1>2. 0 \in T
  BY <1>1
<1>3. ASSUME NEW m \in Nat, m \in T
      PROVE  m + 1 \in T
  <2>1. SUFFICES ASSUME n + (m + 1) <= N
                 PROVE  Kept(m + 1)
    OBVIOUS
  <2>2. Kept(m)
    BY <1>1, <1>3, <2>1
  <2>3. n + (m + 1) \in 1..N /\ n + m \in 0..N /\ (n + (m + 1)) - 1 = n + m
    BY <1>1, <2>1
  <2>. DEFINE r == l.rels[i][n + (m + 1)]
  <2>4. \/ out[n + (m + 1)] = Append(out[n + m], l.redirect[r.to])
        \/ out[n + (m + 1)] = out[n + m]
    BY <2>3 DEF IsGathered
  <2>5. out[n + m] \in Seq(C) /\ Len(out[n + m]) \in Nat /\ Len(out[n]) \in Nat
    BY <1>1, <2>3
  <2>6. /\ Len(out[n + m]) <= Len(out[n + (m + 1)])
        /\ \A p \in 1..Len(out[n + m]) : out[n + (m + 1)][p] = out[n + m][p]
    BY <2>4, <2>5
  <2>7. Len(out[n + (m + 1)]) \in Nat
    BY <1>1, <2>3
  <2>8. ASSUME NEW p \in 1..Len(out[n])
        PROVE  out[n + (m + 1)][p] = out[n][p]
    <3>1. p \in 1..Len(out[n + m])
      BY <2>2, <2>5
    <3>. QED  BY <2>2, <2>6, <3>1
  <2>. QED  BY <2>2, <2>5, <2>6, <2>7, <2>8
<1>4. Nat \subseteq T
  <2>. HIDE DEF T
  <2>. QED  BY <1>2, <1>3, SetInduction
<1>5. N - n \in T /\ n + (N - n) = N /\ n + (N - n) <= N
  <2>1. n \in 0..N
    OBVIOUS
  <2>. HIDE DEF N, T
  <2>. QED  BY <1>1, <1>4, <2>1
<1>6. Kept(N - n)
  BY <1>5
<1>7. out[n + (N - n)] = out[N]
  <2>. HIDE DEF N
  <2>. QED  BY <1>5
<1>8. Len(out[n]) <= Len(out[N]) /\ \A p \in 1..Len(out[n]) : out[N][p] = out[n][p]
  <2>. HIDE DEF N
  <2>. QED  BY <1>6, <1>7
<1>. QED  BY <1>8

\* Two functions with candidates behind the same relocations.
Alike(i, j, C) ==
    /\ Len(l.rels[i]) = Len(l.rels[j])
    /\ \A n \in DOMAIN l.rels[i] :
          Icf!ToCandidate(l.rels[i][n], C) <=> Icf!ToCandidate(l.rels[j][n], C)

\* They have as many edges up to each relocation.
LEMMA GatheredAlike ==
    ASSUME l \in FoldLinks, NEW i \in FoldSubsecs, NEW j \in FoldSubsecs, NEW C \in SUBSET FoldSubsecs,
           Alike(i, j, C),
           NEW a, IsGathered(a, i, C), NEW b, IsGathered(b, j, C)
    PROVE  \A n \in 0..Len(l.rels[i]) : Len(a[n]) = Len(b[n])
<1>. USE DEF Alike
<1>. DEFINE N == Len(l.rels[i])
            T == {m \in Nat : m <= N => Len(a[m]) = Len(b[m])}
<1>1. N \in Nat /\ DOMAIN l.rels[i] = 1..N /\ \A m \in 0..N : a[m] \in Seq(C) /\ b[m] \in Seq(C)
  BY LinkFacts DEF IsGathered
<1>2. 0 \in T
  BY <1>1 DEF IsGathered
<1>3. ASSUME NEW m \in Nat, m \in T
      PROVE  m + 1 \in T
  <2>1. SUFFICES ASSUME m + 1 <= N
                 PROVE  Len(a[m + 1]) = Len(b[m + 1])
    OBVIOUS
  <2>2. m + 1 \in 1..N /\ m \in 0..N /\ (m + 1) - 1 = m /\ Len(a[m]) = Len(b[m])
    BY <1>1, <1>3, <2>1
  <2>3. a[m] \in Seq(C) /\ b[m] \in Seq(C)
    BY <1>1, <2>2
  <2>4. CASE Icf!ToCandidate(l.rels[i][m + 1], C)
    <3>1. a[m + 1] = Append(a[m], l.redirect[l.rels[i][m + 1].to])
      BY <2>2, <2>4 DEF IsGathered
    <3>2. b[m + 1] = Append(b[m], l.redirect[l.rels[j][m + 1].to])
      BY <1>1, <2>2, <2>4 DEF IsGathered
    <3>. QED  BY <2>2, <2>3, <3>1, <3>2
  <2>5. CASE ~Icf!ToCandidate(l.rels[i][m + 1], C)
    <3>1. a[m + 1] = a[m]
      BY <2>2, <2>5 DEF IsGathered
    <3>2. b[m + 1] = b[m]
      BY <1>1, <2>2, <2>5 DEF IsGathered
    <3>. QED  BY <2>2, <3>1, <3>2
  <2>. QED  BY <2>4, <2>5
<1>4. Nat \subseteq T
  <2>. HIDE DEF T
  <2>. QED  BY <1>2, <1>3, SetInduction
<1>. QED  BY <1>1, <1>4

\* Where the n-th relocation of a function is among its edges.
LEMMA EdgeOfRelocation ==
    ASSUME l \in FoldLinks, NEW i \in FoldSubsecs, NEW C \in SUBSET FoldSubsecs,
           NEW a, IsGathered(a, i, C), NEW n \in DOMAIN l.rels[i],
           Icf!ToCandidate(l.rels[i][n], C)
    PROVE  /\ Len(a[n]) \in DOMAIN a[Len(l.rels[i])]
           /\ a[Len(l.rels[i])][Len(a[n])] = l.redirect[l.rels[i][n].to]
<1>. DEFINE N == Len(l.rels[i])
            last == a[N]
            to == l.redirect[l.rels[i][n].to]
<1>1. N \in Nat /\ n \in 1..N /\ \A m \in 0..N : a[m] \in Seq(C)
  BY LinkFacts DEF IsGathered
<1>2. a[n] = Append(a[n - 1], to)
  BY <1>1 DEF IsGathered
<1>3. a[n - 1] \in Seq(C) /\ a[n] \in Seq(C) /\ last \in Seq(C)
  BY <1>1
<1>4. Len(a[n]) = Len(a[n - 1]) + 1 /\ Len(a[n - 1]) \in Nat /\ a[n][Len(a[n])] = to
  <2>. HIDE DEF to
  <2>. QED  BY <1>2, <1>3
<1>5. Len(a[n]) <= Len(last) /\ \A p \in 1..Len(a[n]) : last[p] = a[n][p]
  <2>1. n \in 0..N
    BY <1>1
  <2>. HIDE DEF N
  <2>. QED  BY ZenonT(60), <2>1, GatheredStays DEF N
<1>6. Len(a[n]) \in DOMAIN last
  <2>. HIDE DEF last
  <2>. QED  BY <1>3, <1>4, <1>5
<1>7. last[Len(a[n])] = to
  <2>. HIDE DEF last, to
  <2>. QED  BY <1>4, <1>5
<1>. QED  BY <1>6, <1>7

\* Their edges lead to the same classes.
SameEdges(f, i, j, C) ==
    [p \in DOMAIN Icf!Edges(i, C) |-> f[Icf!Edges(i, C)[p]]]
        = [p \in DOMAIN Icf!Edges(j, C) |-> f[Icf!Edges(j, C)[p]]]

\* Two functions with candidates behind the same relocations whose edges lead
\* to the same classes: so does each of those relocations.
LEMMA EdgesMatch ==
    ASSUME l \in FoldLinks, NEW i \in FoldSubsecs, NEW j \in FoldSubsecs, NEW C \in SUBSET FoldSubsecs,
           Alike(i, j, C),
           NEW f, SameEdges(f, i, j, C),
           NEW n \in DOMAIN l.rels[i], Icf!ToCandidate(l.rels[i][n], C)
    PROVE  f[l.redirect[l.rels[i][n].to]] = f[l.redirect[l.rels[j][n].to]]
<1>. DEFINE N == Len(l.rels[i])
            A == Icf!Edges(i, C)
            B == Icf!Edges(j, C)
<1>1. /\ N \in Nat /\ n \in 1..N /\ n \in 0..N /\ N = Len(l.rels[j])
      /\ n \in DOMAIN l.rels[j] /\ Icf!ToCandidate(l.rels[j][n], C)
  <2>1. N \in Nat /\ DOMAIN l.rels[i] = 1..N /\ DOMAIN l.rels[j] = 1..Len(l.rels[j])
    BY LinkFacts
  <2>2. N = Len(l.rels[j]) /\ Icf!ToCandidate(l.rels[j][n], C)
    BY DEF Alike
  <2>. HIDE DEF N
  <2>. QED  BY <2>1, <2>2
<1>2. PICK a : IsGathered(a, i, C) /\ A = a[N]
  BY EdgesAreGathered
<1>3. PICK b : IsGathered(b, j, C) /\ B = b[N]
  BY <1>1, EdgesAreGathered
<1>4. Len(a[n]) = Len(b[n])
  BY <1>1, <1>2, <1>3, GatheredAlike
<1>5. Len(a[n]) \in DOMAIN A /\ A[Len(a[n])] = l.redirect[l.rels[i][n].to]
  <2>1. /\ Len(a[n]) \in DOMAIN a[Len(l.rels[i])]
        /\ a[Len(l.rels[i])][Len(a[n])] = l.redirect[l.rels[i][n].to]
    BY <1>2, EdgeOfRelocation
  <2>. QED  BY <1>2, <2>1
<1>6. Len(b[n]) \in DOMAIN B /\ B[Len(b[n])] = l.redirect[l.rels[j][n].to]
  <2>1. /\ Len(b[n]) \in DOMAIN b[Len(l.rels[j])]
        /\ b[Len(l.rels[j])][Len(b[n])] = l.redirect[l.rels[j][n].to]
    BY <1>1, <1>3, EdgeOfRelocation
  <2>. QED  BY <1>1, <1>3, <2>1
<1>7. \A p \in DOMAIN A : f[A[p]] = f[B[p]]
  <2>1. [p \in DOMAIN A |-> f[A[p]]] = [p \in DOMAIN B |-> f[B[p]]]
    BY DEF SameEdges
  <2>. HIDE DEF A, B
  <2>. QED  BY <2>1
<1>. QED  BY <1>4, <1>5, <1>6, <1>7

-----------------------------------------------------------------------------
(***************************************************************************)
(* Classes.                                                                *)
(***************************************************************************)

\* Classes as a round leaves them: a partition of the candidates.
IsPartition(c) ==
    /\ c \in [cands -> SUBSET cands]
    /\ \A i \in cands : i \in c[i]
    /\ \A i \in cands : \A j \in c[i] : c[j] = c[i]

Finer(d, c) == \A i \in cands : d[i] \subseteq c[i]

\* A propagation splits classes.
LEMMA PropagateSplits ==
    ASSUME NEW c, IsPartition(c)
    PROVE  IsPartition(Icf!Propagate(c)) /\ Finer(Icf!Propagate(c), c)
<1>. DEFINE d == Icf!Propagate(c)
            e(i) == [n \in DOMAIN Icf!Edges(i, cands) |-> c[Icf!Edges(i, cands)[n]]]
<1>1. d = [i \in cands |-> {j \in c[i] : e(j) = e(i)}]
  BY DEF Icf!Propagate
<1>. HIDE DEF d, e
<1>2. Finer(d, c)
  BY <1>1 DEF Finer
<1>3. d \in [cands -> SUBSET cands] /\ \A i \in cands : i \in d[i]
  BY <1>1 DEF IsPartition
<1>4. ASSUME NEW i \in cands, NEW j \in d[i]
      PROVE  d[j] = d[i]
  <2>1. j \in cands /\ c[j] = c[i] /\ e(j) = e(i)
    BY <1>1, <1>4 DEF IsPartition
  <2>. QED  BY <1>1, <2>1
<1>5. IsPartition(d)
  BY <1>3, <1>4 DEF IsPartition
<1>. QED  BY <1>2, <1>5 DEF d

\* Each class of a finer partition is in one class of the coarser one.
LEMMA SplitsMap ==
    ASSUME NEW c, NEW d, IsPartition(c), IsPartition(d), Finer(d, c)
    PROVE  \E F \in Surjection({d[i] : i \in cands}, {c[i] : i \in cands}) :
               \A i \in cands : F[d[i]] = c[i]
<1>. DEFINE Cs == {c[i] : i \in cands}
            Ds == {d[i] : i \in cands}
            F == [X \in Ds |-> CHOOSE Y \in Cs : X \subseteq Y]
<1>1. ASSUME NEW i \in cands
      PROVE  d[i] \in Ds /\ c[i] \in Cs /\ F[d[i]] = c[i]
  <2>1. d[i] \in Ds /\ c[i] \in Cs
    OBVIOUS
  <2>2. d[i] \subseteq c[i] /\ i \in d[i]
    BY DEF Finer, IsPartition
  <2>3. ASSUME NEW Y \in Cs, d[i] \subseteq Y
        PROVE  Y = c[i]
    <3>1. PICK j \in cands : Y = c[j]
      OBVIOUS
    <3>. QED  BY <2>2, <2>3, <3>1 DEF IsPartition
  <2>4. F[d[i]] = CHOOSE Y \in Cs : d[i] \subseteq Y
    <3>. HIDE DEF Cs, Ds
    <3>. QED  BY <2>1
  <2>5. (CHOOSE Y \in Cs : d[i] \subseteq Y) = c[i]
    <3>. HIDE DEF Cs
    <3>. QED  BY <2>1, <2>2, <2>3
  <2>. QED  BY <2>1, <2>4, <2>5
<1>2. F \in Surjection(Ds, Cs)
  <2>1. \A X \in Ds : F[X] \in Cs
    <3>1. TAKE X \in Ds
    <3>2. PICK i \in cands : X = d[i]
      OBVIOUS
    <3>. HIDE DEF F, Cs
    <3>. QED  BY <1>1, <3>2
  <2>2. F \in [Ds -> Cs]
    <3>1. F = [X \in Ds |-> F[X]]
      OBVIOUS
    <3>. HIDE DEF F, Cs, Ds
    <3>. QED  BY <2>1, <3>1
  <2>3. \A Y \in Cs : \E X \in Ds : F[X] = Y
    <3>1. TAKE Y \in Cs
    <3>2. PICK i \in cands : Y = c[i]
      OBVIOUS
    <3>3. d[i] \in Ds /\ F[d[i]] = Y
      BY <1>1, <3>2
    <3>. HIDE DEF F, Ds
    <3>. QED  BY <3>3
  <2>. HIDE DEF F, Cs, Ds
  <2>. QED  BY <2>2, <2>3 DEF Surjection
<1>. HIDE DEF F
<1>. QED  BY <1>1, <1>2

LEMMA ClassesAreFinite ==
    ASSUME NEW d, IsPartition(d), IsFiniteSet(cands)
    PROVE  /\ IsFiniteSet({d[i] : i \in cands})
           /\ Cardinality({d[i] : i \in cands}) \in Nat
           /\ Cardinality({d[i] : i \in cands}) <= Cardinality(cands)
<1>. DEFINE Ds == {d[i] : i \in cands}
<1>1. d \in Surjection(cands, Ds)
  BY DEF Surjection, IsPartition
<1>. HIDE DEF Ds
<1>2. IsFiniteSet(Ds) /\ Cardinality(Ds) <= Cardinality(cands)
  BY <1>1, FS_Surjection
<1>. QED  BY <1>2, FS_CardinalityType DEF Ds

\* A finer partition has no fewer classes.
LEMMA SplitsAreMore ==
    ASSUME NEW c, NEW d, IsPartition(c), IsPartition(d), Finer(d, c), IsFiniteSet(cands)
    PROVE  Cardinality({c[i] : i \in cands}) <= Cardinality({d[i] : i \in cands})
<1>. DEFINE Cs == {c[i] : i \in cands}
            Ds == {d[i] : i \in cands}
<1>1. IsFiniteSet(Ds)
  BY ClassesAreFinite
<1>2. PICK F \in Surjection(Ds, Cs) : \A i \in cands : F[d[i]] = c[i]
  BY SplitsMap
<1>3. Cardinality(Cs) <= Cardinality(Ds)
  <2>. HIDE DEF Cs, Ds
  <2>. QED  BY <1>1, <1>2, FS_Surjection
<1>. QED  BY <1>3

\* A finer partition with as many classes is the same.
LEMMA SameNumberSameClasses ==
    ASSUME NEW c, NEW d, IsPartition(c), IsPartition(d), Finer(d, c), IsFiniteSet(cands),
           Cardinality({c[i] : i \in cands}) = Cardinality({d[i] : i \in cands})
    PROVE  d = c
<1>. DEFINE Cs == {c[i] : i \in cands}
            Ds == {d[i] : i \in cands}
<1>1. \A i \in cands : d[i] \in Ds
  OBVIOUS
<1>2. PICK F \in Surjection(Ds, Cs) : \A i \in cands : F[d[i]] = c[i]
  BY SplitsMap
<1>3. IsFiniteSet(Ds)
  BY ClassesAreFinite
<1>4. F \in Injection(Ds, Cs)
  <2>1. Cardinality(Ds) = Cardinality(Cs)
    OBVIOUS
  <2>. HIDE DEF Cs, Ds
  <2>. QED  BY <1>2, <1>3, <2>1, FS_SurjSameCardinalityImpliesInj
<1>5. \A X, Y \in Ds : F[X] = F[Y] => X = Y
  <2>. HIDE DEF Cs, Ds
  <2>. QED  BY <1>4 DEF Injection, IsInjective
<1>6. ASSUME NEW i \in cands, NEW j \in c[i]
      PROVE  j \in d[i]
  <2>1. j \in cands /\ c[j] = c[i]
    BY <1>6 DEF IsPartition
  <2>2. F[d[i]] = F[d[j]] /\ d[i] \in Ds /\ d[j] \in Ds
    <3>. HIDE DEF Ds, Cs
    <3>. QED  BY <1>1, <1>2, <2>1
  <2>3. d[i] = d[j]
    <3>. HIDE DEF Ds
    <3>. QED  BY <1>5, <2>2
  <2>. QED  BY <2>1, <2>3 DEF IsPartition
<1>7. \A i \in cands : d[i] = c[i]
  BY <1>6 DEF Finer
<1>. QED  BY <1>7 DEF IsPartition

\* Once a round leaves the number of classes, a propagation leaves them all.
LEMMA FixedPoint ==
    ASSUME IsPartition(class), IsFiniteSet(cands),
           NEW d, d = Icf!Propagate(Icf!Propagate(Icf!Propagate(class))),
           Cardinality({class[i] : i \in cands}) = Cardinality({d[i] : i \in cands})
    PROVE  d = class /\ Icf!Propagate(class) = class
<1>. DEFINE a == Icf!Propagate(class)
            b == Icf!Propagate(a)
<1>1. IsPartition(a) /\ Finer(a, class)
  BY PropagateSplits
<1>2. IsPartition(b) /\ Finer(b, a)
  <2>. HIDE DEF a
  <2>. QED  BY <1>1, PropagateSplits
<1>3. IsPartition(d) /\ Finer(d, b)
  <2>1. d = Icf!Propagate(b)
    OBVIOUS
  <2>. HIDE DEF b
  <2>. QED  BY <1>2, <2>1, PropagateSplits
<1>. HIDE DEF a, b
<1>4. Finer(d, class)
  BY <1>1, <1>2, <1>3 DEF Finer
<1>5. d = class
  BY <1>3, <1>4, SameNumberSameClasses
<1>6. \A i \in cands : a[i] = class[i]
  BY <1>1, <1>2, <1>3, <1>5 DEF Finer
<1>7. a = class
  BY <1>1, <1>6 DEF IsPartition
<1>. QED  BY <1>5, <1>7 DEF a

-----------------------------------------------------------------------------
(***************************************************************************)
(* The invariant of folding.                                               *)
(***************************************************************************)

\* The candidates are the eligible functions, once they are chosen; with
\* fewer than two there are none.
CandsInv ==
    /\ phase \in {"prepare", "refine", "fold", "done"}
    /\ cands \subseteq FoldSubsecs
    /\ cands \in {{}, Icf!Eligible}
    /\ phase = "prepare" => cands = {}

\* The classes are a partition; a member has the content of the others.
ClassInv ==
    /\ IsPartition(class)
    /\ \A i \in cands : \A j \in class[i] : Icf!Content(j, cands) = Icf!Content(i, cands)

\* The number is that of the classes, and the loop is left with classes that
\* a propagation leaves as they are.
CountInv ==
    /\ phase = "prepare" => numClasses = -1
    /\ phase = "refine" =>
          numClasses \in {-1, Cardinality({class[i] : i \in cands})}
    /\ phase \in {"fold", "done"} => Icf!Propagate(class) = class

\* Nothing is replaced before the end, and then the candidates by the first
\* of their classes.
FoldInv ==
    /\ phase # "done" => replacement = l.redirect /\ p2align = l.p2align
    /\ phase = "done" =>
          /\ replacement = [i \in FoldSubsecs |->
                               IF i \in cands THEN Icf!Leader(i) ELSE l.redirect[i]]
          /\ \A i \in cands : p2align[Icf!Leader(i)] >= l.p2align[i]

IcfInv == l \in FoldLinks /\ CandsInv /\ ClassInv /\ CountInv /\ FoldInv

LEMMA EligibleFacts ==
    ASSUME l \in FoldLinks
    PROVE  /\ Icf!Eligible \subseteq Icf!Emitted /\ Icf!Emitted \subseteq FoldSubsecs
           /\ \A i \in Icf!Emitted : l.redirect[i] = i
           /\ IsFiniteSet(Icf!Eligible)
<1>1. Icf!Eligible \subseteq Icf!Emitted /\ Icf!Emitted \subseteq FoldSubsecs
  BY DEF Icf!Eligible, Icf!Emitted
<1>2. IsFiniteSet(Icf!Eligible)
  BY <1>1, LinkFacts, FS_Subset
<1>. QED  BY <1>1, <1>2 DEF Icf!Emitted

\* The first of a class is a member, and its own class's first.
LEMMA LeaderFacts ==
    ASSUME l \in FoldLinks, CandsInv, ClassInv, NEW i \in cands
    PROVE  /\ Icf!Leader(i) \in class[i] /\ Icf!Leader(i) \in cands
           /\ Icf!Leader(Icf!Leader(i)) = Icf!Leader(i)
           /\ Icf!Leader(i) \in Icf!Emitted
<1>1. class[i] \in SUBSET Nat /\ class[i] # {} /\ class[i] \subseteq cands
  BY LinkFacts DEF CandsInv, ClassInv, IsPartition
<1>2. Icf!Leader(i) \in class[i]
  BY <1>1, MinFacts DEF Icf!Leader
<1>3. class[Icf!Leader(i)] = class[i]
  BY <1>2 DEF ClassInv, IsPartition
<1>4. cands \subseteq Icf!Emitted
  BY EligibleFacts DEF CandsInv
<1>. QED  BY <1>1, <1>2, <1>3, <1>4 DEF Icf!Leader

LEMMA IcfInitInv == Icf!Init => IcfInv
<1> SUFFICES ASSUME Icf!Init PROVE IcfInv
  OBVIOUS
<1>1. CandsInv
  BY DEF Icf!Init, CandsInv
<1>2. ClassInv
  BY DEF Icf!Init, ClassInv, IsPartition
<1>3. CountInv
  BY DEF Icf!Init, CountInv
<1>4. FoldInv
  BY DEF Icf!Init, FoldInv
<1>. QED  BY <1>1, <1>2, <1>3, <1>4 DEF IcfInv, Icf!Init

LEMMA NumberOf ==
    ASSUME NEW c, NEW S, DOMAIN c = S
    PROVE  Icf!Cardinality(Icf!Range(c)) = Cardinality({c[i] : i \in S})
<1>1. \A T : Icf!Cardinality(T) = Cardinality(T)
  BY DEF Icf!Cardinality, Cardinality
<1>. QED  BY <1>1 DEF Icf!Range

\* What does not change with the classes.
LEMMA Unchanged ==
    ASSUME l' = l, cands' = cands
    PROVE  /\ Icf!Eligible' = Icf!Eligible
           /\ \A i : Icf!Content(i, cands)' = Icf!Content(i, cands)
           /\ class' = class => Icf!Propagate(class)' = Icf!Propagate(class)
<1>1. Icf!Eligible' = Icf!Eligible
  BY DEF Icf!Eligible, Icf!Emitted, Icf!AddressTaken, Icf!Range
<1>2. \A i : Icf!Content(i, cands)' = Icf!Content(i, cands)
  BY DEF Icf!Content, Icf!Place, Icf!ToCandidate
<1>3. ASSUME class' = class
      PROVE  Icf!Propagate(class)' = Icf!Propagate(class)
  <2>. DEFINE W(j) == [n \in DOMAIN Icf!Edges(j, cands) |-> class[Icf!Edges(j, cands)[n]]]
  <2>1. \A r, C : Icf!ToCandidate(r, C)' = Icf!ToCandidate(r, C)
    BY DEF Icf!ToCandidate
  <2>2. \A j, C : Icf!Edges(j, C)' = Icf!Edges(j, C)
    BY ZenonT(60), <2>1 DEF Icf!Edges
  <2>3. \A j : Icf!Edges(j, cands)' = Icf!Edges(j, cands)
    BY <2>2
  <2>4. \A j : W(j)' = W(j)
    BY <1>3, <2>3
  <2>5. Icf!Propagate(class) = [i \in cands |-> {j \in class[i] : W(j) = W(i)}]
    BY DEF Icf!Propagate
  <2>6. Icf!Propagate(class)' = [i \in cands' |-> {j \in class'[i] : W(j)' = W(i)'}]
    BY DEF Icf!Propagate
  <2>. HIDE DEF W
  <2>. QED  BY <1>3, <2>4, <2>5, <2>6
<1>. QED  BY <1>1, <1>2, <1>3

LEMMA PrepareKeeps ==
    ASSUME IcfInv, Icf!Prepare
    PROVE  IcfInv'
<1>1. /\ l' = l /\ l \in FoldLinks /\ phase = "prepare" /\ numClasses' = numClasses
      /\ replacement' = replacement /\ p2align' = p2align /\ cands = {}
      /\ replacement = l.redirect /\ p2align = l.p2align
  BY DEF Icf!Prepare, IcfInv, CandsInv, FoldInv
<1>2. CASE phase' = "done" /\ cands' = cands /\ class' = class
  <2>1. CandsInv'
    BY <1>1, <1>2 DEF IcfInv, CandsInv
  <2>2. ClassInv'
    BY <1>1, <1>2 DEF IcfInv, ClassInv, IsPartition
  <2>3. Icf!Propagate(class)' = class'
    <3>1. class' = [i \in {} |-> class[i]]
      BY <1>1, <1>2 DEF IcfInv, ClassInv, IsPartition
    <3>. QED  BY <1>1, <1>2, <3>1 DEF Icf!Propagate
  <2>4. CountInv'
    BY <1>2, <2>3 DEF CountInv
  <2>5. replacement' = [i \in FoldSubsecs |-> IF i \in cands' THEN Icf!Leader(i)' ELSE l'.redirect[i]]
    BY <1>1, <1>2, LinkFacts
  <2>6. FoldInv'
    BY <1>1, <1>2, <2>5 DEF FoldInv
  <2>. QED  BY <1>1, <2>1, <2>2, <2>4, <2>6 DEF IcfInv
<1>3. CASE /\ phase' = "refine" /\ cands' = Icf!Eligible
           /\ class' = [i \in Icf!Eligible |->
                 {j \in Icf!Eligible : Icf!Content(j, Icf!Eligible) = Icf!Content(i, Icf!Eligible)}]
  <2>. DEFINE E == Icf!Eligible
              C(i) == Icf!Content(i, E)
  <2>1. Icf!Eligible' = E /\ \A i : Icf!Content(i, E)' = C(i)
    BY <1>1 DEF Icf!Eligible, Icf!Emitted, Icf!AddressTaken, Icf!Range, Icf!Content, Icf!Place,
                Icf!ToCandidate
  <2>2. class' = [i \in E |-> {j \in E : C(j) = C(i)}] /\ cands' = E /\ E \subseteq FoldSubsecs
    BY <1>1, <1>3, EligibleFacts
  <2>3. CandsInv'
    BY <1>3, <2>1, <2>2 DEF CandsInv
  <2>. HIDE DEF E, C
  <2>4. IsPartition(class)'
    BY <2>2 DEF IsPartition
  <2>5. \A i \in cands' : \A j \in class'[i] : Icf!Content(j, cands)' = Icf!Content(i, cands)'
    <3>1. \A i : Icf!Content(i, cands)' = C(i)
      BY <1>1, <2>2 DEF C, E, Icf!Content, Icf!Place, Icf!ToCandidate
    <3>. QED  BY <2>2, <3>1
  <2>6. CountInv'
    <3>1. numClasses = -1
      BY <1>1 DEF IcfInv, CountInv
    <3>. QED  BY <1>1, <1>3, <3>1 DEF CountInv
  <2>7. FoldInv'
    BY <1>1, <1>3 DEF FoldInv
  <2>. QED  BY <1>1, <2>3, <2>4, <2>5, <2>6, <2>7 DEF IcfInv, ClassInv
<1>. QED  BY <1>2, <1>3 DEF Icf!Prepare

LEMMA RefineKeeps ==
    ASSUME IcfInv, Icf!Refine
    PROVE  IcfInv'
<1>. DEFINE d == Icf!Propagate(Icf!Propagate(Icf!Propagate(class)))
<1>1. /\ l' = l /\ l \in FoldLinks /\ phase = "refine" /\ cands' = cands /\ class' = d
      /\ phase' = (IF numClasses' = numClasses THEN "fold" ELSE "refine")
      /\ replacement' = replacement /\ p2align' = p2align
      /\ replacement = l.redirect /\ p2align = l.p2align
      /\ IsPartition(class) /\ numClasses' = Icf!Cardinality(Icf!Range(class'))
      /\ IsFiniteSet(cands) /\ cands \subseteq FoldSubsecs
  <2>1. IsFiniteSet(cands)
    BY EligibleFacts, FS_EmptySet DEF IcfInv, CandsInv
  <2>. QED  BY <2>1 DEF Icf!Refine, IcfInv, CandsInv, FoldInv, ClassInv
<1>2. IsPartition(d) /\ Finer(d, class)
  <2>. DEFINE a == Icf!Propagate(class)
              b == Icf!Propagate(a)
  <2>1. IsPartition(a) /\ Finer(a, class)
    BY <1>1, PropagateSplits
  <2>2. IsPartition(b) /\ Finer(b, a)
    <3>. HIDE DEF a
    <3>. QED  BY <2>1, PropagateSplits
  <2>3. IsPartition(d) /\ Finer(d, b)
    <3>1. d = Icf!Propagate(b)
      OBVIOUS
    <3>. HIDE DEF b, d
    <3>. QED  BY <2>2, <3>1, PropagateSplits
  <2>. HIDE DEF a, b, d
  <2>. QED  BY <2>1, <2>2, <2>3 DEF Finer
<1>3. numClasses' = Cardinality({d[i] : i \in cands})
  <2>1. DOMAIN d = cands
    BY <1>2 DEF IsPartition
  <2>. HIDE DEF d
  <2>. QED  BY <1>1, <2>1, NumberOf
<1>4. Cardinality({d[i] : i \in cands}) \in Nat
  <2>. HIDE DEF d
  <2>. QED  BY <1>1, <1>2, ClassesAreFinite
<1>5. phase' = "fold" => d = class /\ Icf!Propagate(class) = class
  <2>1. SUFFICES ASSUME numClasses' = numClasses
                 PROVE  d = class /\ Icf!Propagate(class) = class
    BY <1>1
  <2>2. numClasses \in {-1, Cardinality({class[i] : i \in cands})}
    BY <1>1 DEF IcfInv, CountInv
  <2>3. Cardinality({class[i] : i \in cands}) = Cardinality({d[i] : i \in cands})
    <3>. DEFINE n == Cardinality({d[i] : i \in cands})
                m == Cardinality({class[i] : i \in cands})
    <3>1. n \in Nat /\ numClasses' = n /\ numClasses' = numClasses /\ numClasses \in {-1, m}
      BY <1>3, <1>4, <2>1, <2>2
    <3>. HIDE DEF n, m
    <3>2. n = m
      BY <3>1
    <3>. QED  BY <3>2 DEF n, m
  <2>. QED  BY <1>1, <2>3, FixedPoint
<1>6. CandsInv'
  <2>1. Icf!Eligible' = Icf!Eligible
    BY <1>1, Unchanged
  <2>. QED  BY <1>1, <2>1 DEF IcfInv, CandsInv
<1>7. ClassInv'
  <2>1. \A i : Icf!Content(i, cands)' = Icf!Content(i, cands)
    BY <1>1, Unchanged
  <2>2. \A i \in cands : \A j \in d[i] : Icf!Content(j, cands) = Icf!Content(i, cands)
    <3>. HIDE DEF d
    <3>. QED  BY <1>2 DEF IcfInv, ClassInv, Finer
  <2>3. IsPartition(class)'
    <3>. HIDE DEF d
    <3>. QED  BY <1>1, <1>2 DEF IsPartition
  <2>. HIDE DEF d
  <2>. QED  BY <1>1, <2>1, <2>2, <2>3 DEF ClassInv
<1>8. CountInv'
  <2>1. phase' = "fold" => Icf!Propagate(class)' = class'
    <3>1. SUFFICES ASSUME phase' = "fold"
                   PROVE  Icf!Propagate(class)' = class'
      OBVIOUS
    <3>2. class' = class /\ Icf!Propagate(class) = class
      BY <1>1, <1>5, <3>1
    <3>3. Icf!Propagate(class)' = Icf!Propagate(class)
      BY <1>1, <3>2, Unchanged
    <3>. QED  BY <3>2, <3>3
  <2>2. numClasses' = Cardinality({class'[i] : i \in cands'})
    <3>. HIDE DEF d
    <3>. QED  BY <1>1, <1>3
  <2>. HIDE DEF d
  <2>. QED  BY <1>1, <2>1, <2>2 DEF CountInv
<1>9. FoldInv'
  <2>. HIDE DEF d
  <2>. QED  BY <1>1 DEF FoldInv
<1>. QED  BY <1>1, <1>6, <1>7, <1>8, <1>9 DEF IcfInv

LEMMA FoldKeeps ==
    ASSUME IcfInv, Icf!Fold
    PROVE  IcfInv'
<1>1. /\ l' = l /\ l \in FoldLinks /\ cands' = cands /\ class' = class
      /\ phase = "fold" /\ phase' = "done"
      /\ replacement = l.redirect /\ p2align = l.p2align /\ cands \subseteq FoldSubsecs
      /\ CandsInv /\ ClassInv
  BY DEF Icf!Fold, IcfInv, CandsInv, FoldInv
<1>2. CandsInv'
  BY <1>1, Unchanged DEF CandsInv
<1>3. ClassInv'
  BY <1>1, Unchanged DEF ClassInv, IsPartition
<1>4. CountInv'
  BY <1>1, Unchanged DEF IcfInv, CountInv
<1>5. \A i : Icf!Leader(i)' = Icf!Leader(i)
  BY <1>1 DEF Icf!Leader
<1>6. replacement' = [i \in FoldSubsecs |-> IF i \in cands THEN Icf!Leader(i) ELSE l.redirect[i]]
  <2>1. \A i \in cands : i \in Icf!Emitted /\ l.redirect[i] = i
    BY <1>1, EligibleFacts DEF CandsInv
  <2>2. replacement' = [i \in FoldSubsecs |->
            IF i \in cands /\ i # Icf!Leader(i) THEN Icf!Leader(i) ELSE l.redirect[i]]
    BY <1>1 DEF Icf!Fold
  <2>. QED  BY <2>1, <2>2
<1>7. ASSUME NEW i \in cands
      PROVE  p2align'[Icf!Leader(i)] >= l.p2align[i]
  <2>. DEFINE k == Icf!Leader(i)
              A == {p2align[j] : j \in class[k]}
  <2>1. k \in class[i] /\ k \in cands /\ Icf!Leader(k) = k
    BY <1>1, LeaderFacts
  <2>2. class[k] = class[i] /\ i \in class[k] /\ class[k] \subseteq FoldSubsecs
    BY <1>1, <2>1 DEF ClassInv, IsPartition
  <2>3. p2align'[k] = Icf!Max(A)
    <3>1. p2align' = [j \in FoldSubsecs |->
             IF j \in cands /\ j = Icf!Leader(j) THEN Icf!Max({p2align[h] : h \in class[j]}) ELSE p2align[j]]
      BY DEF Icf!Fold
    <3>. HIDE DEF k
    <3>. QED  BY <1>1, <2>1, <3>1
  <2>4. p2align \in [FoldSubsecs -> Nat] /\ IsFiniteSet(FoldSubsecs)
    BY <1>1, LinkFacts
  <2>5. PICK b \in Nat : \A j \in FoldSubsecs : p2align[j] <= b
    BY <2>4, BoundedOnFinite
  <2>6. A \in SUBSET Nat /\ p2align[i] \in A /\ \A y \in A : y <= b
    BY <2>2, <2>4, <2>5
  <2>. HIDE DEF A
  <2>7. p2align[i] <= Icf!Max(A) /\ Icf!Max(A) \in Nat /\ p2align[i] \in Nat
    BY <2>6, MaxFacts
  <2>. HIDE DEF k
  <2>8. p2align'[k] >= l.p2align[i]
    BY <1>1, <2>3, <2>7
  <2>. QED  BY <2>8 DEF k
<1>8. FoldInv'
  BY <1>1, <1>5, <1>6, <1>7 DEF FoldInv
<1>. QED  BY <1>1, <1>2, <1>3, <1>4, <1>8 DEF IcfInv

LEMMA StutterKeeps ==
    ASSUME IcfInv, UNCHANGED Icf!vars
    PROVE  IcfInv'
<1>1. /\ l' = l /\ phase' = phase /\ cands' = cands /\ class' = class /\ numClasses' = numClasses
      /\ replacement' = replacement /\ p2align' = p2align
  BY DEF Icf!vars
<1>2. \A i : Icf!Leader(i)' = Icf!Leader(i)
  BY <1>1 DEF Icf!Leader
<1>3. CandsInv'
  BY <1>1, Unchanged DEF IcfInv, CandsInv
<1>4. ClassInv'
  BY <1>1, Unchanged DEF IcfInv, ClassInv, IsPartition
<1>5. CountInv'
  BY <1>1, Unchanged DEF IcfInv, CountInv
<1>6. FoldInv'
  BY <1>1, <1>2 DEF IcfInv, FoldInv
<1>. QED  BY <1>1, <1>3, <1>4, <1>5, <1>6 DEF IcfInv

-----------------------------------------------------------------------------
(***************************************************************************)
(* What the invariant implies.                                             *)
(***************************************************************************)

LEMMA IntervalEnds ==
    ASSUME NEW m \in Nat, NEW n \in Nat, 1..m = 1..n
    PROVE  m = n
<1>1. m <= n
  <2>1. m = 0 \/ m \in 1..m
    OBVIOUS
  <2>. QED  BY <2>1
<1>2. n <= m
  <2>1. n = 0 \/ n \in 1..n
    OBVIOUS
  <2>. QED  BY <2>1
<1>. QED  BY <1>1, <1>2

\* Two functions of the same content.
LEMMA SameContent ==
    ASSUME l \in FoldLinks, cands \subseteq FoldSubsecs, NEW i \in FoldSubsecs, NEW k \in FoldSubsecs,
           Icf!Content(i, cands) = Icf!Content(k, cands)
    PROVE  /\ l.body[i] = l.body[k] /\ Alike(i, k, cands)
           /\ \A n \in DOMAIN l.rels[i] :
                 Icf!Place(l.rels[i][n], cands) = Icf!Place(l.rels[k][n], cands)
<1>. DEFINE P(j) == [n \in DOMAIN l.rels[j] |-> Icf!Place(l.rels[j][n], cands)]
<1>1. <<l.body[i], P(i)>> = <<l.body[k], P(k)>>
  BY DEF Icf!Content
<1>2. l.body[i] = l.body[k] /\ P(i) = P(k)
  <2>. HIDE DEF P
  <2>. QED  BY <1>1
<1>3. DOMAIN l.rels[i] = DOMAIN l.rels[k]
  BY <1>2
<1>4. \A n \in DOMAIN l.rels[i] : Icf!Place(l.rels[i][n], cands) = Icf!Place(l.rels[k][n], cands)
  <2>1. TAKE n \in DOMAIN l.rels[i]
  <2>2. P(i)[n] = P(k)[n]
    BY <1>2
  <2>. QED  BY <1>3, <2>2
<1>5. Len(l.rels[i]) = Len(l.rels[k])
  <2>1. /\ Len(l.rels[i]) \in Nat /\ DOMAIN l.rels[i] = 1..Len(l.rels[i])
        /\ Len(l.rels[k]) \in Nat /\ DOMAIN l.rels[k] = 1..Len(l.rels[k])
    BY LinkFacts
  <2>2. \A m, n \in Nat : 1..m = 1..n => m = n
    BY IntervalEnds
  <2>. QED  BY <1>3, <2>1, <2>2
<1>6. ASSUME NEW r, NEW q, Icf!Place(r, cands) = Icf!Place(q, cands), Icf!ToCandidate(r, cands)
      PROVE  Icf!ToCandidate(q, cands)
  <2>1. Icf!Place(r, cands)[1] = "c"
    BY <1>6 DEF Icf!Place
  <2>2. ~Icf!ToCandidate(q, cands) => Icf!Place(q, cands)[1] \in {"i", "s"}
    BY DEF Icf!Place
  <2>. QED  BY <1>6, <2>1, <2>2
<1>7. Alike(i, k, cands)
  BY <1>4, <1>5, <1>6 DEF Alike
<1>. QED  BY <1>2, <1>4, <1>7

\* A function and the one that replaces it are the same to the program.
LEMMA FoldedAreTheSame ==
    ASSUME IcfInv, phase = "done", NEW i \in cands
    PROVE  LET k == replacement[i]
           IN  /\ l.body[i] = l.body[k] /\ Len(l.rels[i]) = Len(l.rels[k])
               /\ \A n \in DOMAIN l.rels[i] : Icf!Leads(l.rels[i][n]) = Icf!Leads(l.rels[k][n])
<1>. DEFINE k == replacement[i]
<1>1. /\ l \in FoldLinks /\ cands \subseteq FoldSubsecs /\ CandsInv /\ ClassInv
      /\ Icf!Propagate(class) = class
      /\ \A j \in cands : replacement[j] = Icf!Leader(j)
  BY DEF IcfInv, CandsInv, CountInv, FoldInv
<1>2. k \in class[i] /\ k \in cands
  BY <1>1, LeaderFacts
<1>. HIDE DEF k
<1>3. i \in FoldSubsecs /\ k \in FoldSubsecs /\ Icf!Content(k, cands) = Icf!Content(i, cands)
  BY <1>1, <1>2 DEF ClassInv
<1>4. /\ l.body[i] = l.body[k] /\ Alike(i, k, cands)
      /\ \A n \in DOMAIN l.rels[i] :
            Icf!Place(l.rels[i][n], cands) = Icf!Place(l.rels[k][n], cands)
  BY <1>1, <1>3, SameContent
<1>5. SameEdges(class, i, k, cands)
  <2>1. k \in Icf!Propagate(class)[i]
    BY <1>1, <1>2
  <2>. DEFINE W(j) == [n \in DOMAIN Icf!Edges(j, cands) |-> class[Icf!Edges(j, cands)[n]]]
  <2>2. Icf!Propagate(class) = [h \in cands |-> {j \in class[h] : W(j) = W(h)}]
    BY DEF Icf!Propagate
  <2>3. W(k) = W(i)
    <3>. HIDE DEF W
    <3>. QED  BY <2>1, <2>2
  <2>. QED  BY <2>3 DEF SameEdges
<1>6. ASSUME NEW n \in DOMAIN l.rels[i]
      PROVE  Icf!Leads(l.rels[i][n]) = Icf!Leads(l.rels[k][n])
  <2>. DEFINE r == l.rels[i][n]
              q == l.rels[k][n]
  <2>1. Icf!Place(r, cands) = Icf!Place(q, cands) /\ (Icf!ToCandidate(r, cands) <=> Icf!ToCandidate(q, cands))
    BY <1>4 DEF Alike
  <2>2. CASE ~Icf!ToCandidate(r, cands)
    <3>. HIDE DEF r, q
    <3>1. Icf!Leads(r) = Icf!Leads(q)
      BY <2>1, <2>2 DEF Icf!Leads
    <3>. QED  BY <3>1 DEF r, q
  <2>3. CASE Icf!ToCandidate(r, cands)
    <3>1. class[l.redirect[r.to]] = class[l.redirect[q.to]]
      <4>1. cands \in SUBSET FoldSubsecs /\ Alike(i, k, cands) /\ l \in FoldLinks
        BY <1>1, <1>4
      <4>. HIDE DEF Alike, SameEdges
      <4>. QED  BY ZenonT(60), <1>3, <1>5, <2>3, <4>1, EdgesMatch
    <3>. HIDE DEF r, q
    <3>2. l.redirect[r.to] \in cands /\ l.redirect[q.to] \in cands
      BY <2>1, <2>3 DEF Icf!ToCandidate
    <3>3. replacement[l.redirect[r.to]] = replacement[l.redirect[q.to]]
      BY <1>1, <3>1, <3>2 DEF Icf!Leader
    <3>4. <<"c", r.add + r.off>> = <<"c", q.add + q.off>>
      BY <2>1, <2>3 DEF Icf!Place
    <3>5. Icf!Leads(r) = Icf!Leads(q)
      BY <2>1, <2>3, <3>3, <3>4 DEF Icf!Leads
    <3>. QED  BY <3>5 DEF r, q
  <2>. QED  BY <2>2, <2>3
<1>7. Len(l.rels[i]) = Len(l.rels[k])
  BY <1>4 DEF Alike
<1>. QED  BY <1>4, <1>6, <1>7 DEF k

\* Whoever's address may be seen was not a candidate.
LEMMA AddressesApart ==
    ASSUME IcfInv
    PROVE  Icf!AddressesStayApart
<1>. DEFINE Seen == {l.redirect[i] : i \in l.exported}
                        \cup {l.redirect[r.to] : r \in {q \in UNION {Icf!Range(l.rels[i]) : i \in FoldSubsecs} :
                                ~q.call /\ q.to \in FoldSubsecs /\ \E i \in Icf!Emitted : q \in Icf!Range(l.rels[i])}}
<1>1. l \in FoldLinks /\ Icf!IsLink(l) /\ l.exported \subseteq FoldSubsecs
  BY IcfAssumption DEF IcfInv, Icf!LinkAssumption, Icf!IsLink
<1>2. Seen \subseteq Icf!AddressTaken
  BY DEF Icf!AddressTaken
<1>3. Seen \subseteq FoldSubsecs /\ \A i \in Seen : l.redirect[i] = i
  <2>1. \A i \in FoldSubsecs : l.redirect[i] \in FoldSubsecs /\ l.redirect[l.redirect[i]] = l.redirect[i]
    BY <1>1, LinkFacts
  <2>. QED  BY <1>1, <2>1
<1>. HIDE DEF Seen
<1>4. ASSUME NEW i \in Seen \ l.insignificant
      PROVE  i \in FoldSubsecs /\ i \notin cands
  BY <1>2, <1>3, <1>4 DEF IcfInv, CandsInv, Icf!Eligible
<1>5. ASSUME NEW i \in Seen \ l.insignificant
      PROVE  replacement[i] = i
  <2>1. i \in FoldSubsecs /\ i \notin cands /\ l.redirect[i] = i
    BY <1>3, <1>4
  <2>2. replacement = l.redirect \/
        replacement = [j \in FoldSubsecs |-> IF j \in cands THEN Icf!Leader(j) ELSE l.redirect[j]]
    BY DEF IcfInv, FoldInv
  <2>. QED  BY <2>1, <2>2
<1>6. \A i, j \in Seen \ l.insignificant : i # j => replacement[i] # replacement[j]
  BY <1>5
<1>. QED  BY <1>6 DEF Seen, Icf!AddressesStayApart

\* What is replaced leads to what is in the output.
LEMMA EmittedInTheEnd ==
    ASSUME IcfInv
    PROVE  Icf!ReplacementIsEmitted
<1>1. /\ l \in FoldLinks /\ cands \subseteq FoldSubsecs /\ CandsInv /\ ClassInv
      /\ \A i \in FoldSubsecs : l.redirect[i] \in FoldSubsecs /\ l.redirect[l.redirect[i]] = l.redirect[i]
  BY LinkFacts DEF IcfInv, CandsInv
<1>2. \A i \in FoldSubsecs : l.redirect[i] \in Icf!Emitted
  BY <1>1 DEF Icf!Emitted
<1>3. \A i \in cands : Icf!Leader(i) \in cands /\ Icf!Leader(Icf!Leader(i)) = Icf!Leader(i)
                       /\ Icf!Leader(i) \in Icf!Emitted
  BY <1>1, LeaderFacts
<1>4. CASE phase # "done"
  <2>1. replacement = l.redirect
    BY <1>4 DEF IcfInv, FoldInv
  <2>. QED  BY <1>1, <1>2, <1>4, <2>1 DEF Icf!ReplacementIsEmitted
<1>5. CASE phase = "done"
  <2>1. \A i \in FoldSubsecs : replacement[i] = IF i \in cands THEN Icf!Leader(i) ELSE l.redirect[i]
    BY <1>5 DEF IcfInv, FoldInv
  <2>2. ASSUME NEW i \in FoldSubsecs
        PROVE  LET k == replacement[replacement[i]] IN k \in Icf!Emitted /\ replacement[k] = k
    <3>1. CASE i \in cands
      <4>1. replacement[i] = Icf!Leader(i) /\ Icf!Leader(i) \in cands /\ Icf!Leader(i) \in FoldSubsecs
        BY <1>1, <1>3, <2>1, <3>1
      <4>2. replacement[Icf!Leader(i)] = Icf!Leader(i)
        BY <1>3, <2>1, <3>1, <4>1
      <4>. QED  BY <1>3, <3>1, <4>1, <4>2
    <3>2. CASE i \notin cands
      <4>. DEFINE m == l.redirect[i]
      <4>1. replacement[i] = m /\ m \in FoldSubsecs /\ m \in Icf!Emitted /\ l.redirect[m] = m
        BY <1>1, <1>2, <2>1, <3>2
      <4>. HIDE DEF m
      <4>2. CASE m \notin cands
        BY <2>1, <4>1, <4>2
      <4>3. CASE m \in cands
        <5>1. replacement[m] = Icf!Leader(m) /\ Icf!Leader(m) \in cands /\ Icf!Leader(m) \in FoldSubsecs
          BY <1>1, <1>3, <2>1, <4>3
        <5>2. replacement[Icf!Leader(m)] = Icf!Leader(m)
          BY <1>3, <2>1, <4>3, <5>1
        <5>. QED  BY <1>3, <4>1, <4>3, <5>1, <5>2
      <4>. QED  BY <4>2, <4>3
    <3>. QED  BY <3>1, <3>2
  <2>3. \A i \in cands : p2align[replacement[i]] >= l.p2align[i]
    BY <1>1, <1>5, <2>1 DEF IcfInv, FoldInv
  <2>. QED  BY <2>2, <2>3 DEF Icf!ReplacementIsEmitted
<1>. QED  BY <1>4, <1>5

-----------------------------------------------------------------------------
(***************************************************************************)
(* The theorems.                                                           *)
(***************************************************************************)

FoldingInv == part = "icf" => IcfInv

\* A step of the composition is a step of the folding, or leaves it alone.
LEMMA FoldingSteps ==
    ASSUME [Next]_vars, part' = "icf"
    PROVE  part = "icf" /\ [Icf!Next]_(Icf!vars)
<1>1. CASE UNCHANGED vars
  BY <1>1 DEF vars, Icf!vars
<1>2. CASE ResolveSteps \/ DefinitionsSteps \/ ObjcSteps
  <2>1. part # "icf" /\ part' = part
    BY <1>2 DEF ResolveSteps, ResolveTakes, DefinitionsSteps, DefinitionsTakes, ObjcSteps, ObjcTakes
  <2>. QED  BY <2>1
<1>3. CASE Over
  BY <1>1, <1>3 DEF Over
<1>4. CASE IcfSteps
  BY <1>4 DEF IcfSteps, IcfTakes
<1>. QED  BY <1>1, <1>2, <1>3, <1>4 DEF Next

LEMMA FoldingInit ==
    ASSUME Init
    PROVE  FoldingInv
<1>1. SUFFICES ASSUME part = "icf"
               PROVE  IcfInv
  BY DEF FoldingInv
<1>2. Icf!Init
  BY <1>1 DEF Init, ResolveInit, DefinitionsInit, IcfInit, ObjcInit
<1>. QED  BY <1>2, IcfInitInv

LEMMA FoldingStep ==
    ASSUME FoldingInv, [Next]_vars
    PROVE  FoldingInv'
<1>1. SUFFICES ASSUME part' = "icf"
               PROVE  IcfInv'
  BY DEF FoldingInv
<1>2. IcfInv /\ [Icf!Next]_(Icf!vars)
  BY <1>1, FoldingSteps DEF FoldingInv
<1>. QED  BY <1>2, PrepareKeeps, RefineKeeps, FoldKeeps, StutterKeeps DEF Icf!Next

\* The classes of every round are a partition of functions of the same
\* content, and what is folded are classes that another round would leave,
\* for any subsections and links (icf_sections).
THEOREM FoldingInvariant == Spec => []FoldingInv
<1>1. Init => FoldingInv
  BY FoldingInit
<1>2. FoldingInv /\ [Next]_vars => FoldingInv'
  BY FoldingStep
<1>. QED  BY <1>1, <1>2, PTL DEF Spec

\* However functions call each other, those that are folded are the same down
\* to what they refer to, those whose addresses may be compared stay apart, and
\* whatever is replaced leads to a function in the output that is aligned for
\* it (is_eligible, compute_digest, propagate, icf_sections).
THEOREM FoldingIsAlwaysSafe == Spec => []FoldingIsSafe
<1>1. FoldingInv => FoldingIsSafe
  <2>1. SUFFICES ASSUME part = "icf", IcfInv
                 PROVE  Icf!FoldingIsSafe /\ Icf!ReplacementIsEmitted
    BY DEF FoldingInv, FoldingIsSafe
  <2>2. Icf!FoldedAreIdentical
    BY <2>1, FoldedAreTheSame DEF Icf!FoldedAreIdentical
  <2>. QED  BY <2>1, <2>2, AddressesApart, EmittedInTheEnd DEF Icf!FoldingIsSafe
<1>. QED  BY <1>1, FoldingInvariant, PTL

\* A round after which the loop goes on has found more classes than the one
\* before, and there are never more than candidates: so the rounds come to an
\* end, and their numbers fit the bits that DigestMap keeps of them as long as
\* the candidates do (icf_sections, next_round).
RoundsSplit ==
    [][part = "icf" /\ phase = "refine" /\ phase' = "refine"
           => numClasses < numClasses' /\ numClasses' <= Cardinality(cands)]_vars
THEOREM RoundsAreBounded == Spec => RoundsSplit
<1>. DEFINE A == part = "icf" /\ phase = "refine" /\ phase' = "refine"
                     => numClasses < numClasses' /\ numClasses' <= Cardinality(cands)
<1>1. FoldingInv /\ [Next]_vars => [A]_vars
  <2>1. SUFFICES ASSUME FoldingInv, Next, part = "icf", phase = "refine", phase' = "refine",
                        ~UNCHANGED vars
                 PROVE  numClasses < numClasses' /\ numClasses' <= Cardinality(cands)
    OBVIOUS
  <2>2. IcfSteps
    BY <2>1 DEF Next, ResolveSteps, ResolveTakes, DefinitionsSteps, DefinitionsTakes, ObjcSteps, ObjcTakes, Over
  <2>3. IcfInv /\ Icf!Refine
    BY <2>1, <2>2 DEF FoldingInv, IcfSteps, IcfTakes, Icf!Next, Icf!Prepare, Icf!Fold
  <2>. DEFINE n == Cardinality({class[i] : i \in cands})
              m == Cardinality({class'[i] : i \in cands})
              a == Icf!Propagate(class)
              b == Icf!Propagate(a)
              d == Icf!Propagate(b)
  <2>4. IsPartition(class) /\ IsFiniteSet(cands) /\ class' = d /\ numClasses' # numClasses
    BY <2>1, <2>3, EligibleFacts, FS_EmptySet DEF IcfInv, CandsInv, ClassInv, Icf!Refine
  <2>5. numClasses' = m
    <3>1. IcfInv' /\ cands' = cands /\ numClasses' = Icf!Cardinality(Icf!Range(class'))
      BY <2>3, RefineKeeps DEF Icf!Refine
    <3>2. DOMAIN class' = cands
      BY <3>1 DEF IcfInv, ClassInv, IsPartition
    <3>. QED  BY <3>1, <3>2, NumberOf
  <2>6. IsPartition(d) /\ Finer(d, class)
    <3>1. IsPartition(a) /\ Finer(a, class)
      BY <2>4, PropagateSplits
    <3>2. IsPartition(b) /\ Finer(b, a)
      <4>. HIDE DEF a
      <4>. QED  BY <3>1, PropagateSplits
    <3>3. IsPartition(d) /\ Finer(d, b)
      <4>. HIDE DEF b
      <4>. QED  BY <3>2, PropagateSplits
    <3>. HIDE DEF a, b, d
    <3>. QED  BY <3>1, <3>2, <3>3 DEF Finer
  <2>7. n <= m /\ m \in Nat /\ m <= Cardinality(cands) /\ n \in Nat
    <3>. HIDE DEF d
    <3>1. n <= m
      BY <2>4, <2>6, SplitsAreMore
    <3>2. m \in Nat /\ m <= Cardinality(cands) /\ n \in Nat
      BY <2>4, <2>6, ClassesAreFinite
    <3>. QED  BY <3>1, <3>2
  <2>8. numClasses \in {-1, n}
    BY <2>1, <2>3 DEF IcfInv, CountInv
  <2>. HIDE DEF n, m, d
  <2>. QED  BY <2>4, <2>5, <2>7, <2>8
<1>. QED  BY <1>1, FoldingInvariant, PTL DEF Spec, RoundsSplit

-----------------------------------------------------------------------------
(***************************************************************************)
(* Symbol resolution, Resolve.                                             *)
(*                                                                         *)
(* An owner of a round before the last is provisional: objects that were   *)
(* lazy may have become live, and dylibs may have joined.  What holds of   *)
(* the rounds is only that an owner offers the symbol and that a symbol    *)
(* some object offers is not left without one (RoundInv); the walk leaves  *)
(* no owner behind that live code wants (WalkInv).  Together with the      *)
(* ranking, which misses the dylibs of the last options alone, that is why *)
(* the final round over the live objects leaves nothing undefined that a   *)
(* file of the link has.                                                   *)
(***************************************************************************)

\* The types of a symbol, and what the passes never change of it: a symbol
\* that is used has a name in the table.
SymRecord ==
    [file : Resolve!File \cup {Resolve!NoFile}, common : BOOLEAN, size : Nat,
     pext : BOOLEAN, weakRef : BOOLEAN, strongRef : BOOLEAN, used : BOOLEAN]

\* The files read so far: priorities tell them apart, and the objects found
\* live are among them, for a reason.
FilesInv ==
    /\ \E family \in InputLinks : link \in family
    /\ prio \in [Resolve!File -> Nat] /\ counter \in Nat
    /\ \A f \in Resolve!Loaded : prio[f] <= counter
    /\ \A f, g \in Resolve!Loaded : prio[f] = prio[g] => f = g
    /\ visited \subseteq Libraries /\ forced \subseteq Libraries
    /\ possible \in Seq(Resolve!Naming)
    /\ link.weakLib \subseteq Resolve!Loaded
    /\ reach \subseteq Resolve!Objs /\ queue \subseteq reach
    /\ fresh \subseteq Resolve!Dylibs
    /\ Resolve!LiveIsNeeded

\* The symbol table holds every name an object or the command line has, and
\* of each dylib's exports those of the names it has looked up.
NamesInv ==
    /\ interned \subseteq Symbols
    /\ \A o \in Resolve!Objs, s \in Symbols : Resolve!Def(o, s) # "none" => s \in interned
    /\ pc # "start" => Resolve!CommandLineSymbols \subseteq interned
    /\ dsyms \in [DylibFiles -> SUBSET Symbols]
    /\ \A d \in DylibFiles : \A s \in dsyms[d] : link.export[d][s] # "none"
    /\ \A d \in DylibFiles : seen[d] # Resolve!Unseen =>
          \A s \in Symbols \cap seen[d] : link.export[d][s] # "none" => s \in dsyms[d]
    /\ sym \in [Symbols -> SymRecord]
    /\ \A s \in Symbols : sym[s].used => s \in interned

\* The dylibs ranked in the last round, which those of the link are but for
\* the ones the last options brought.
Ranked == DOMAIN ranking.ranks
IsRanking(rk) ==
    /\ DOMAIN rk.ranks \subseteq Resolve!Dylibs
    /\ DOMAIN rk.providers = DOMAIN rk.ranks
    /\ \A d \in DOMAIN rk.ranks :
          /\ rk.ranks[d] \in {<<2, 0, prio[d]>>, <<2, 2, prio[d]>>}
          /\ rk.providers[d] \subseteq DOMAIN rk.ranks
RankingInv ==
    pc \notin {"start", "round"} =>
        /\ IsRanking(ranking)
        /\ link.weakLib \subseteq Ranked
        /\ pc \in {"roots", "walk"} => Resolve!Dylibs \subseteq Ranked
        /\ pc \in {"final", "new"} => Resolve!Dylibs \subseteq Ranked \cup fresh

Real == Resolve!RealKind \ {"dropped"}
Tentative == Resolve!CommonKind
NoneDropped(S, s) == \A o \in S : Resolve!Def(o, s) # "dropped"
Offering(S, s) == {o \in S : Resolve!Def(o, s) \in Real \cup Tentative}

\* A round leaves every symbol that an object offers with an owner, which
\* offers it: an object, live or lazy, a live tentative definition or a dylib.
RoundInv ==
    pc \in {"roots", "walk", "final"} =>
        \A s \in Symbols :
            /\ sym[s].file \in ObjFiles => sym[s].file \in Offering(Resolve!Objs, s)
            /\ Offering(Resolve!Objs, s) # {} /\ NoneDropped(Resolve!Objs, s) =>
                  \/ sym[s].file \in ObjFiles
                  \/ Resolve!LiveCommons(s) # {}
                  \/ \E d \in Ranked : s \in dsyms[d]

\* The walk leaves no owner behind that a live object or the command line
\* wants.
OwnersLive(S) == \A s \in S : sym[s].file \in ObjFiles => sym[s].file \in reach
WalkInv ==
    /\ pc \in {"walk", "final"} =>
          /\ OwnersLive(link.roots)
          /\ \A o \in reach \ queue : OwnersLive(Resolve!Wants(o))
    /\ pc # "walk" => queue = {}

\* What the final round makes of a symbol.
StrongUse(s) == \E o \in reach : Resolve!Def(o, s) \in Resolve!UndefKind \ {"weakref"}
WeakUse(s) == \E o \in reach : Resolve!Def(o, s) = "weakref"
Asked(s) == WeakUse(s) /\ (~StrongUse(s) \/ link.weakWins)
Taken(s) == Resolve!LiveCommons(s) # {} /\ ~link.useDylibs
Settled(s) ==
    /\ sym[s].file \in ObjFiles => sym[s].file \in reach /\ Resolve!Def(sym[s].file, s) \in Real
    /\ (\E o \in reach : Resolve!Def(o, s) \in Real) /\ NoneDropped(reach, s) =>
          sym[s].file \in reach /\ ~sym[s].common
    /\ sym[s].common =>
          /\ \A o \in Resolve!LiveCommons(s) : Resolve!CommonSize(Resolve!Def(o, s)) <= sym[s].size
          /\ \E o \in Resolve!LiveCommons(s) : Resolve!CommonSize(Resolve!Def(o, s)) = sym[s].size
          /\ sym[s].pext <=> \E o \in Resolve!LiveCommons(s) : o \in link.hidden
    /\ Asked(s) => sym[s].weakRef
    /\ sym[s].weakRef => Asked(s) \/ sym[s].file \in link.weakLib
    /\ sym[s].file \in link.weakLib => sym[s].weakRef \/ Taken(s)
Undefined(s) == sym[s].file = Resolve!NoFile /\ ~sym[s].common
FinalInv ==
    /\ pc \in {"new", "resolved", "done"} =>
          \A s \in Symbols :
              /\ Settled(s)
              /\ Resolve!Wanted(s) /\ Undefined(s) /\ NoneDropped(Resolve!Objs, s) =>
                    Offering(Resolve!Objs, s) = {}
    /\ pc = "new" =>
          \A s \in Symbols :
              /\ Resolve!Wanted(s) => sym[s].used
              /\ sym[s].used /\ sym[s].file = Resolve!NoFile =>
                    Taken(s) \/ \A d \in Ranked : link.export[d][s] = "none"
    /\ pc \in {"resolved", "done"} =>
          \A s \in Symbols :
              Resolve!Wanted(s) /\ Undefined(s) /\ NoneDropped(Resolve!Objs, s) =>
                  \A d \in Resolve!Dylibs : link.export[d][s] = "none"

ResolveInv ==
    FilesInv /\ NamesInv /\ RankingInv /\ RoundInv /\ WalkInv /\ FinalInv

-----------------------------------------------------------------------------
(***************************************************************************)
(* Reading files.                                                          *)
(***************************************************************************)

\* What a link consists of.
LEMMA ResolveLinkFacts ==
    ASSUME \E family \in InputLinks : link \in family
    PROVE  /\ link.def \in [ObjFiles -> [Symbols -> Resolve!Kind]]
           /\ link.export \in [DylibFiles -> [Symbols -> {"none", "strong", "weak"}]]
           /\ link.files \in [Libraries -> Seq(Resolve!File)]
           /\ link.cmdline \in Seq(Resolve!Naming) /\ link.options \in Seq(Resolve!Naming)
           /\ link.possible \in Seq(Resolve!Naming)
           /\ link.live \subseteq ObjFiles /\ link.ltoOut \in Seq(ObjFiles)
           /\ link.merged \in [DylibFiles -> Seq(DylibFiles)]
           /\ link.weakLib \subseteq DylibFiles \cap UNION {Resolve!Range(link.files[n.lib]) : n \in Resolve!Range(link.cmdline)}
           /\ link.roots \subseteq Symbols /\ link.aliased \subseteq Symbols
           /\ Resolve!NoFile \notin Resolve!File /\ ObjFiles \cap DylibFiles = {}
           /\ Resolve!File = ObjFiles \cup DylibFiles
<1>1. Resolve!IsLink(link)
  BY ResolveAssumption DEF Resolve!LinkAssumption
<1>2. /\ link.def \in [ObjFiles -> [Symbols -> Resolve!Kind]]
      /\ link.export \in [DylibFiles -> [Symbols -> {"none", "strong", "weak"}]]
      /\ link.files \in [Libraries -> Seq(Resolve!File)]
      /\ link.cmdline \in Seq(Resolve!Naming) /\ link.options \in Seq(Resolve!Naming)
      /\ link.possible \in Seq(Resolve!Naming)
  BY <1>1 DEF Resolve!IsLink
<1>3. /\ link.live \subseteq ObjFiles /\ link.ltoOut \in Seq(ObjFiles)
      /\ link.merged \in [DylibFiles -> Seq(DylibFiles)]
      /\ link.weakLib \subseteq DylibFiles \cap UNION {Resolve!Range(link.files[n.lib]) : n \in Resolve!Range(link.cmdline)}
      /\ link.roots \subseteq Symbols /\ link.aliased \subseteq Symbols
  BY <1>1 DEF Resolve!IsLink
<1>4. /\ Resolve!NoFile \notin Resolve!File /\ ObjFiles \cap DylibFiles = {}
      /\ Resolve!File = ObjFiles \cup DylibFiles
  BY ResolveAssumption DEF Resolve!LinkAssumption, Resolve!File
<1>. QED  BY <1>2, <1>3, <1>4

\* What a table says of a symbol is what it said when the file was read, unless
\* LTO retired the object.
LEMMA DefFacts ==
    ASSUME \E family \in InputLinks : link \in family, NEW o \in ObjFiles, NEW s \in Symbols
    PROVE  /\ link.def[o][s] \in Resolve!Kind /\ Resolve!Def(o, s) \in Resolve!Kind
           /\ Resolve!Def(o, s) # "none" => Resolve!Def(o, s) = link.def[o][s]
  BY ResolveLinkFacts DEF Resolve!Def, Resolve!Kind

\* What reading files may do to the record of what was read: it only adds, of
\* files the options name, with new priorities; what becomes alive is no lazy
\* member, or of an archive loaded whole.
Records ==
    [prio : [Resolve!File -> Nat], counter : Nat, visited : SUBSET Libraries,
     forced : SUBSET Libraries, new : Seq(Resolve!File), alive : SUBSET ObjFiles]
LoadedIn(r) == {f \in Resolve!File : r.prio[f] # 0}
IsReadFrom(r, r0) ==
    /\ \A f \in LoadedIn(r) : r.prio[f] <= r.counter
    /\ \A f, h \in LoadedIn(r) : r.prio[f] = r.prio[h] => f = h
    /\ r0.counter <= r.counter /\ \A f \in LoadedIn(r0) : r.prio[f] = r0.prio[f]
    /\ LoadedIn(r) = LoadedIn(r0) \cup Resolve!Range(r.new)
    /\ r0.forced \subseteq r.forced /\ r0.visited \subseteq r.visited
    /\ \A n \in r.visited \ r0.visited : Resolve!Range(link.files[n]) \subseteq LoadedIn(r)
    /\ r0.alive \subseteq r.alive /\ r.alive \subseteq r0.alive \cup Resolve!Range(r.new)
    /\ \A o \in r.alive \ r0.alive :
          o \in link.live \/ \E n \in r.forced : o \in Resolve!Range(link.files[n])
ReadsFrom(r0) == {r \in Records : IsReadFrom(r, r0)}

\* The files read twice over are those of both readings.
LEMMA RangeOfConcat ==
    ASSUME NEW S, NEW a \in Seq(S), NEW b \in Seq(S)
    PROVE  Resolve!Range(a \o b) = Resolve!Range(a) \cup Resolve!Range(b)
<1>1. /\ Len(a) \in Nat /\ DOMAIN a = 1..Len(a) /\ Len(b) \in Nat /\ DOMAIN b = 1..Len(b)
      /\ DOMAIN (a \o b) = 1..(Len(a) + Len(b))
  OBVIOUS
<1>2. /\ \A i \in 1..Len(a) : (a \o b)[i] = a[i]
      /\ \A i \in 1..Len(b) : (a \o b)[Len(a) + i] = b[i]
  OBVIOUS
<1>3. ASSUME NEW i \in 1..(Len(a) + Len(b)), i \notin 1..Len(a)
      PROVE  i - Len(a) \in 1..Len(b) /\ i = Len(a) + (i - Len(a))
  BY <1>1, <1>3
<1>4. /\ \A k \in 1..Len(b) : Len(a) + k \in 1..(Len(a) + Len(b))
      /\ \A k \in 1..Len(a) : k \in 1..(Len(a) + Len(b))
  BY <1>1
<1>5. ASSUME NEW x \in Resolve!Range(a \o b)
      PROVE  x \in Resolve!Range(a) \cup Resolve!Range(b)
  <2>1. PICK i \in 1..(Len(a) + Len(b)) : x = (a \o b)[i]
    BY <1>1, <1>5 DEF Resolve!Range
  <2>2. CASE i \in 1..Len(a)
    BY <1>1, <1>2, <2>1, <2>2 DEF Resolve!Range
  <2>3. CASE i \notin 1..Len(a)
    <3>1. i - Len(a) \in 1..Len(b) /\ x = b[i - Len(a)]
      BY <1>2, <1>3, <2>1, <2>3
    <3>. QED  BY <1>1, <3>1 DEF Resolve!Range
  <2>. QED  BY <2>2, <2>3
<1>6. ASSUME NEW x \in Resolve!Range(a) \cup Resolve!Range(b)
      PROVE  x \in Resolve!Range(a \o b)
  <2>1. CASE x \in Resolve!Range(a)
    BY <1>1, <1>2, <1>4, <2>1 DEF Resolve!Range
  <2>2. CASE x \in Resolve!Range(b)
    <3>1. PICK k \in 1..Len(b) : x = b[k]
      BY <1>1, <2>2 DEF Resolve!Range
    <3>2. Len(a) + k \in DOMAIN (a \o b) /\ (a \o b)[Len(a) + k] = x
      BY <1>1, <1>2, <1>4, <3>1
    <3>. QED  BY <3>2 DEF Resolve!Range
  <2>. QED  BY <1>6, <2>1, <2>2
<1>. QED  BY <1>5, <1>6

\* Reading one more file keeps the record of what was read in order.
LEMMA ReadFileFacts ==
    ASSUME \E family \in InputLinks : link \in family, NEW r0 \in Records,
           NEW r \in ReadsFrom(r0), NEW n \in Resolve!Naming
    PROVE  /\ Resolve!ReadFile(r, n) \in ReadsFrom(r0)
           /\ r.visited \subseteq Resolve!ReadFile(r, n).visited
           /\ LoadedIn(r) \subseteq LoadedIn(Resolve!ReadFile(r, n))
           /\ n.lib \in Resolve!ReadFile(r, n).visited
<1>. DEFINE q == Resolve!ReadFile(r, n)
            files == link.files[n.lib]
<1>0. /\ r \in Records /\ IsReadFrom(r, r0) /\ n.lib \in Libraries /\ n.force \in BOOLEAN
      /\ files \in Seq(Resolve!File) /\ Resolve!Range(files) \subseteq Resolve!File
      /\ Resolve!Range(r.new) \subseteq Resolve!File
  <2>1. r \in Records /\ IsReadFrom(r, r0) /\ n.lib \in Libraries /\ n.force \in BOOLEAN
    BY DEF ReadsFrom, Resolve!Naming
  <2>2. files \in Seq(Resolve!File) /\ r.new \in Seq(Resolve!File)
    BY <2>1, ResolveLinkFacts DEF Records
  <2>. QED  BY <2>1, <2>2 DEF Resolve!Range
<1>1. CASE n.lib \in r.visited
  <2>1. q = Resolve!NameAgain(r, n)
    BY <1>1 DEF Resolve!ReadFile
  <2>2. CASE ~(n.force /\ n.lib \notin r.forced)
    <3>1. q = r
      BY <2>1, <2>2 DEF Resolve!NameAgain
    <3>. QED  BY <1>1, <3>1
  <2>3. CASE n.force /\ n.lib \notin r.forced
    <3>. DEFINE more == (Resolve!Range(files) \cap Resolve!Range(r.new) \cap ObjFiles) \ link.bitcode
    <3>1. q = [r EXCEPT !.forced = @ \cup {n.lib}, !.alive = @ \cup more]
      BY <2>1, <2>3 DEF Resolve!NameAgain
    <3>2. /\ q \in Records /\ q.prio = r.prio /\ q.counter = r.counter /\ q.new = r.new
          /\ q.visited = r.visited /\ q.forced = r.forced \cup {n.lib} /\ q.alive = r.alive \cup more
      <4>1. more \subseteq ObjFiles
        OBVIOUS
      <4>. HIDE DEF more, q
      <4>. QED  BY <1>0, <3>1, <4>1 DEF Records
    <3>3. LoadedIn(q) = LoadedIn(r)
      BY <3>2 DEF LoadedIn
    <3>4. IsReadFrom(q, r0)
      BY <1>0, <3>2, <3>3 DEF IsReadFrom
    <3>. QED  BY <1>1, <3>2, <3>3, <3>4 DEF ReadsFrom
  <2>. QED  BY <2>2, <2>3
<1>2. CASE n.lib \notin r.visited
  <2>. DEFINE c == r.counter
              len == Len(files)
              at0 == [f \in Resolve!Range(files) |-> CHOOSE i \in DOMAIN files : files[i] = f]
              p == [f \in Resolve!File |-> IF r.prio[f] = Resolve!NoPrio /\ f \in Resolve!Range(files)
                                           THEN c + at0[f] ELSE r.prio[f]]
              more == Resolve!Range(files) \cap IF n.force THEN ObjFiles ELSE link.live
  <2>1. /\ q.prio = p /\ q.counter = c + len /\ q.visited = r.visited \cup {n.lib}
        /\ q.forced = (IF n.force THEN r.forced \cup {n.lib} ELSE r.forced)
        /\ q.new = r.new \o files /\ q.alive = r.alive \cup more
        /\ q = [prio |-> q.prio, counter |-> q.counter, visited |-> q.visited,
                forced |-> q.forced, new |-> q.new, alive |-> q.alive]
    <3>1. q =
             [prio |-> p, counter |-> c + len, visited |-> r.visited \cup {n.lib},
              forced |-> IF n.force THEN r.forced \cup {n.lib} ELSE r.forced,
              new |-> r.new \o files, alive |-> r.alive \cup more]
      BY <1>2 DEF Resolve!ReadFile
    <3>. HIDE DEF p, c, len, more, q, files
    <3>. QED  BY <3>1
  <2>2. /\ len \in Nat /\ DOMAIN files = 1..len
        /\ c \in Nat /\ r.prio \in [Resolve!File -> Nat]
    BY <1>0 DEF Records
  <2>3. /\ at0 \in [Resolve!Range(files) -> 1..len]
        /\ \A f \in Resolve!Range(files) : files[at0[f]] = f
    <3>1. \A f \in Resolve!Range(files) : \E i \in DOMAIN files : files[i] = f
      BY DEF Resolve!Range
    <3>. QED  BY <2>2, <3>1
  <2>. HIDE DEF at0, len
  <2>4. p \in [Resolve!File -> Nat]
    BY <2>2, <2>3
  <2>5. /\ \A f \in LoadedIn(r) : p[f] = r.prio[f]
        /\ \A f \in Resolve!File \ LoadedIn(r) : f \in Resolve!Range(files) => p[f] = c + at0[f]
        /\ \A f \in Resolve!File \ LoadedIn(r) : f \notin Resolve!Range(files) => p[f] = 0
    BY <2>2 DEF LoadedIn, Resolve!NoPrio
  <2>. HIDE DEF p, c
  <2>6. LoadedIn(q) = LoadedIn(r) \cup Resolve!Range(files)
    BY <1>0, <2>1, <2>2, <2>3, <2>4, <2>5 DEF LoadedIn
  <2>7. Resolve!Range(r.new \o files) = Resolve!Range(r.new) \cup Resolve!Range(files)
    <3>1. r.new \in Seq(Resolve!File)
      BY <1>0 DEF Records
    <3>2. \A a, b \in Seq(Resolve!File) : Resolve!Range(a \o b) = Resolve!Range(a) \cup Resolve!Range(b)
      BY RangeOfConcat
    <3>. QED  BY <1>0, <3>1, <3>2
  <2>8. q \in Records
    <3>1. r.new \o files \in Seq(Resolve!File)
      BY <1>0 DEF Records
    <3>2. more \subseteq ObjFiles
      BY ResolveLinkFacts
    <3>3. /\ q.counter \in Nat /\ q.visited \in SUBSET Libraries /\ q.forced \in SUBSET Libraries
          /\ q.alive \in SUBSET ObjFiles
      BY <1>0, <2>1, <2>2, <3>2 DEF Records, c
    <3>. QED  BY <2>1, <2>4, <3>1, <3>3 DEF Records
  <2>9. IsReadFrom(q, r0)
    <3>1. ASSUME NEW f \in LoadedIn(q)
          PROVE  \/ f \in LoadedIn(r) /\ q.prio[f] = r.prio[f] /\ r.prio[f] <= c
                 \/ f \notin LoadedIn(r) /\ f \in Resolve!Range(files) /\ q.prio[f] = c + at0[f]
      <4>1. f \in Resolve!File /\ (f \in LoadedIn(r) \/ f \in Resolve!Range(files))
        BY <2>6 DEF LoadedIn
      <4>2. \A x \in LoadedIn(r) : r.prio[x] <= c
        BY <1>0 DEF IsReadFrom, c
      <4>3. q.prio[f] = p[f]
        BY <2>1
      <4>4. CASE f \in LoadedIn(r)
        BY <2>5, <4>2, <4>3, <4>4
      <4>5. CASE f \notin LoadedIn(r)
        BY <2>5, <4>1, <4>3, <4>5
      <4>. QED  BY <4>4, <4>5
    <3>2. \A f \in LoadedIn(q) : q.prio[f] <= q.counter
      BY <2>1, <2>2, <2>3, <3>1 DEF LoadedIn
    <3>3. ASSUME NEW f \in LoadedIn(q), NEW h \in LoadedIn(q), q.prio[f] = q.prio[h]
          PROVE  f = h
      <4>0. r.prio[f] \in Nat /\ r.prio[h] \in Nat
        BY <2>2 DEF LoadedIn
      <4>1. CASE f \in LoadedIn(r) /\ h \in LoadedIn(r)
        BY <1>0, <3>1, <3>3, <4>1 DEF IsReadFrom
      <4>2. CASE f \notin LoadedIn(r) /\ h \notin LoadedIn(r)
        <5>1. /\ f \in Resolve!Range(files) /\ q.prio[f] = c + at0[f]
              /\ h \in Resolve!Range(files) /\ q.prio[h] = c + at0[h]
          BY <3>1, <4>2
        <5>2. c \in Nat /\ at0[f] \in Nat /\ at0[h] \in Nat /\ c + at0[f] = c + at0[h]
          <6>1. /\ at0[f] \in 1..len /\ at0[h] \in 1..len
            BY <2>3, <5>1
          <6>2. at0[f] \in Nat /\ at0[h] \in Nat
            BY <2>2, <6>1
          <6>3. c + at0[f] = c + at0[h]
            BY <3>3, <5>1, Zenon
          <6>. QED  BY <2>2, <6>2, <6>3
        <5>3. at0[f] = at0[h]
          <6>1. \A u, v, w \in Nat : u + v = u + w => v = w
            OBVIOUS
          <6>. QED  BY <5>2, <6>1
        <5>. QED  BY <2>3, <5>1, <5>3
      <4>3. CASE f \in LoadedIn(r) /\ h \notin LoadedIn(r)
        BY <2>2, <2>3, <3>1, <3>3, <4>0, <4>3
      <4>4. CASE f \notin LoadedIn(r) /\ h \in LoadedIn(r)
        BY <2>2, <2>3, <3>1, <3>3, <4>0, <4>4
      <4>. QED  BY <4>1, <4>2, <4>3, <4>4
    <3>4. r0.counter <= q.counter /\ \A f \in LoadedIn(r0) : q.prio[f] = r0.prio[f]
      <4>1. r0.counter \in Nat
        BY DEF Records
      <4>2. LoadedIn(r0) \subseteq LoadedIn(r)
        BY <1>0 DEF IsReadFrom
      <4>3. r0.counter <= c
        BY <1>0 DEF IsReadFrom, c
      <4>. QED  BY <1>0, <2>1, <2>2, <2>5, <4>1, <4>2, <4>3 DEF IsReadFrom
    <3>5. LoadedIn(q) = LoadedIn(r0) \cup Resolve!Range(q.new)
      BY <1>0, <2>1, <2>6, <2>7 DEF IsReadFrom
    <3>6. /\ r0.forced \subseteq q.forced
          /\ r0.alive \subseteq q.alive /\ q.alive \subseteq r0.alive \cup Resolve!Range(q.new)
      BY <1>0, <2>1, <2>7 DEF IsReadFrom
    <3>7. \A o \in q.alive \ r0.alive :
             o \in link.live \/ \E m \in q.forced : o \in Resolve!Range(link.files[m])
      <4>1. r.forced \subseteq q.forced /\ (n.force => n.lib \in q.forced)
        BY <2>1
      <4>2. \A o \in more : o \in link.live \/ (n.force /\ o \in Resolve!Range(files))
        OBVIOUS
      <4>. HIDE DEF more
      <4>. QED  BY <1>0, <2>1, <4>1, <4>2 DEF IsReadFrom
    <3>8. /\ r0.visited \subseteq q.visited
          /\ \A m \in q.visited \ r0.visited : Resolve!Range(link.files[m]) \subseteq LoadedIn(q)
      BY <1>0, <2>1, <2>6 DEF IsReadFrom
    <3>. QED  BY <3>2, <3>3, <3>4, <3>5, <3>6, <3>7, <3>8 DEF IsReadFrom
  <2>. QED  BY <2>1, <2>6, <2>8, <2>9 DEF ReadsFrom
<1>. QED  BY <1>1, <1>2

\* Reading the files of namings at some places reads what each of them names.
LEMMA ReadFilesFacts ==
    ASSUME \E family \in InputLinks : link \in family, NEW r0 \in Records,
           NEW r1 \in ReadsFrom(r0), NEW namings \in Seq(Resolve!Naming), NEW which
    PROVE  LET r == Resolve!ReadFiles(namings, which, r1) IN
           /\ r \in ReadsFrom(r0)
           /\ \A i \in which \cap DOMAIN namings : namings[i].lib \in r.visited
<1>. DEFINE N == Len(namings)
            V == ReadsFrom(r0)
            Step(n, v) == IF n \in which THEN Resolve!ReadFile(v, namings[n]) ELSE v
            H == [n \in 1..N |-> [v \in V |-> Step(n, v)]]
            G(g) == [n \in 0..N |-> IF n = 0 THEN r1
                                    ELSE IF n \in which THEN Resolve!ReadFile(g[n - 1], namings[n]) ELSE g[n - 1]]
            e == CHOOSE g : g = G(g)
<1>1. N \in Nat /\ DOMAIN namings = 1..N /\ \A n \in 1..N : namings[n] \in Resolve!Naming
  OBVIOUS
<1>2. ASSUME NEW n \in 1..N, NEW v \in V
      PROVE  /\ Step(n, v) \in V /\ v.visited \subseteq Step(n, v).visited
             /\ n \in which => namings[n].lib \in Step(n, v).visited
  <2>1. namings[n] \in Resolve!Naming
    BY <1>1
  <2>. QED  BY <1>2, <2>1, ReadFileFacts
<1>3. \A n \in 1..N, v \in V : H[n][v] = Step(n, v) /\ H[n][v] \in V
  <2>. HIDE DEF Step, N, V
  <2>. QED  BY <1>2
<1>4. PICK f \in [0..N -> V] : f[0] = r1 /\ \A n \in 1..N : f[n] = H[n][f[n - 1]]
  <2>1. N \in Nat /\ r1 \in V /\ AreSteps(H, N, V)
    <3>. HIDE DEF H, N, V
    <3>1. r1 \in V
      BY DEF V
    <3>. QED  BY <1>1, <1>3, <3>1 DEF AreSteps
  <2>2. \E f \in [0..N -> V] : IsByStep(f, r1, H, N)
    <3>. HIDE DEF H, N, V
    <3>. QED  BY <2>1, FunctionByStep
  <2>. HIDE DEF H, N, V
  <2>. QED  BY <2>2 DEF IsByStep
<1>5. \A n \in 1..N : f[n - 1] \in V /\ f[n] = Step(n, f[n - 1])
  <2>. HIDE DEF H, N, Step, V
  <2>1. \A n \in 1..N : f[n - 1] \in V
    BY <1>1, <1>4
  <2>. QED  BY <1>3, <1>4, <2>1
<1>6. f = G(f)
  <2>1. \A n \in 1..N : f[n] = IF n \in which THEN Resolve!ReadFile(f[n - 1], namings[n]) ELSE f[n - 1]
    BY <1>5
  <2>. HIDE DEF H, N, Step, V
  <2>. QED  BY <1>1, <1>4, <2>1
<1>7. e = G(e)
  <2>. HIDE DEF G
  <2>. QED  BY <1>6
<1>8. DOMAIN e = 0..N /\ e[0] = r1 /\ \A n \in 1..N : e[n] = Step(n, e[n - 1])
  <2>1. /\ DOMAIN e = 0..N /\ e[0] = r1
        /\ \A n \in 1..N : e[n] = IF n \in which THEN Resolve!ReadFile(e[n - 1], namings[n]) ELSE e[n - 1]
    <3>. HIDE DEF e, N
    <3>. QED  BY <1>1, <1>7
  <2>. HIDE DEF e, N
  <2>. QED  BY <2>1
<1>. DEFINE Named(m, v) == \A i \in which \cap (1..m) : namings[i].lib \in v.visited
<1>9. \A n \in 0..N : e[n] \in V /\ Named(n, e[n])
  <2>. DEFINE T == {m \in Nat : m <= N => e[m] \in V /\ Named(m, e[m])}
  <2>1. 0 \in T
    <3>1. e[0] \in V
      BY <1>8, Zenon
    <3>2. \A i \in 1..0 : FALSE
      OBVIOUS
    <3>. HIDE DEF e, V, N
    <3>. QED  BY <3>1, <3>2
  <2>2. ASSUME NEW m \in Nat, m \in T
        PROVE  m + 1 \in T
    <3>1. SUFFICES ASSUME m + 1 <= N
                   PROVE  e[m + 1] \in V /\ Named(m + 1, e[m + 1])
      OBVIOUS
    <3>2. m + 1 \in 1..N /\ (m + 1) - 1 = m /\ e[m] \in V /\ Named(m, e[m])
      BY <1>1, <2>2, <3>1
    <3>. HIDE DEF e, Step, N, V
    <3>3. e[m + 1] = Step(m + 1, e[m])
      BY <1>8, <3>2
    <3>4. /\ e[m + 1] \in V /\ e[m].visited \subseteq e[m + 1].visited
          /\ m + 1 \in which => namings[m + 1].lib \in e[m + 1].visited
      BY <1>2, <3>2, <3>3
    <3>5. \A i \in 1..(m + 1) : i = m + 1 \/ i \in 1..m
      OBVIOUS
    <3>. QED  BY <3>2, <3>4, <3>5
  <2>3. Nat \subseteq T
    <3>. HIDE DEF T
    <3>. QED  BY <2>1, <2>2, SetInduction
  <2>. HIDE DEF e, V
  <2>. QED  BY <1>1, <2>3
<1>10. Resolve!ReadFiles(namings, which, r1) = e[N]
  BY DEF Resolve!ReadFiles
<1>. HIDE DEF e, N
<1>. QED  BY <1>1, <1>9, <1>10

-----------------------------------------------------------------------------
(***************************************************************************)
(* A round: the race of the definitions and the claims of the dylibs.      *)
(***************************************************************************)

Ranks == Nat \X Nat \X Nat

\* Some rank of a set of ranks is such that none is lower.
LEMMA LowestRank ==
    ASSUME NEW R \in SUBSET Ranks, R # {}
    PROVE  \E x \in R : \A y \in R : ~Resolve!Less(y, x)
<1>. DEFINE A == {x[1] : x \in R}
<1>0. \A x \in R : x[1] \in Nat /\ x[2] \in Nat /\ x[3] \in Nat
  BY DEF Ranks
<1>1. PICK a \in A : \A b \in A : a <= b
  <2>1. A \in SUBSET Nat /\ A # {}
    BY <1>0
  <2>. HIDE DEF A
  <2>. QED  BY <2>1, LeastNat
<1>. DEFINE RA == {x \in R : x[1] = a}
            B == {x[2] : x \in RA}
<1>2. PICK b \in B : \A n \in B : b <= n
  <2>1. B \in SUBSET Nat /\ B # {}
    BY <1>0, <1>1
  <2>. HIDE DEF B
  <2>. QED  BY <2>1, LeastNat
<1>. DEFINE RB == {x \in RA : x[2] = b}
            C == {x[3] : x \in RB}
<1>3. PICK m \in C : \A n \in C : m <= n
  <2>1. C \in SUBSET Nat /\ C # {}
    BY <1>0, <1>2
  <2>. HIDE DEF C
  <2>. QED  BY <2>1, LeastNat
<1>4. PICK x \in R : x[1] = a /\ x[2] = b /\ x[3] = m
  BY <1>3
<1>5. a \in Nat /\ b \in Nat /\ m \in Nat
  BY <1>0, <1>4
<1>6. ASSUME NEW y \in R, Resolve!Less(y, x)
      PROVE  FALSE
  <2>1. y[1] \in Nat /\ y[2] \in Nat /\ y[3] \in Nat
    BY <1>0
  <2>2. a <= y[1]
    BY <1>1
  <2>3. y[1] = a => b <= y[2]
    BY <1>2
  <2>4. y[1] = a /\ y[2] = b => m <= y[3]
    BY <1>3
  <2>. QED  BY <1>4, <1>5, <1>6, <2>1, <2>2, <2>3, <2>4 DEF Resolve!Less
<1>. QED  BY <1>6

\* What the rank of a definition tells of it.
RanksAs(r, k, live) ==
    /\ r \in Ranks
    /\ k \in {"strong", "dropped"} /\ live => r[1] = 0
    /\ k \in Resolve!WeakKind /\ live => r[1] = 1
    /\ k \in {"strong", "dropped"} /\ ~live => r[1] = 2
    /\ k \in Resolve!WeakKind /\ ~live => r[1] = 3
    /\ k \in Resolve!CommonKind /\ live => r[1] = 4
    /\ k \in Resolve!CommonKind /\ ~live => r[1] = 5
    /\ k \notin Resolve!RealKind \cup Resolve!CommonKind => r = <<6, 0, 0>>

\* The first component of a rank tells the kind of definition.
LEMMA DefinitionRankFacts ==
    ASSUME \E family \in InputLinks : link \in family, NEW o \in ObjFiles, NEW s \in Symbols,
           prio \in [Resolve!File -> Nat]
    PROVE  RanksAs(Resolve!DefinitionRank(o, s), Resolve!Def(o, s), o \in reach)
<1>. DEFINE k == Resolve!Def(o, s)
            w == Resolve!WeakDefinitionRank(o, k)
            phase0 == IF prio[o] >= autoPrio THEN 2 ELSE 0
            r == Resolve!DefinitionRank(o, s)
<1>1. prio[o] \in Nat
  BY ResolveLinkFacts
<1>2. w \in Nat /\ phase0 \in Nat
  BY DEF Resolve!WeakDefinitionRank
<1>3. r = CASE k \in {"strong", "dropped"} /\ o \in reach -> <<0, 0, prio[o]>>
            [] k \in Resolve!WeakKind /\ o \in reach -> <<1, w, prio[o]>>
            [] k \in {"strong", "dropped"} /\ o \notin reach -> <<2, phase0, prio[o]>>
            [] k \in Resolve!WeakKind /\ o \notin reach -> <<3, phase0, prio[o]>>
            [] k \in Resolve!CommonKind /\ o \in reach -> <<4, 0, prio[o]>>
            [] k \in Resolve!CommonKind /\ o \notin reach -> <<5, 0, prio[o]>>
            [] OTHER -> <<6, 0, 0>>
  BY DEF Resolve!DefinitionRank, Resolve!NoRank
<1>. HIDE DEF k, w, phase0, r
<1>4. CASE k \in {"strong", "dropped"}
  <2>1. r = IF o \in reach THEN <<0, 0, prio[o]>> ELSE <<2, phase0, prio[o]>>
    BY <1>3, <1>4 DEF Resolve!WeakKind, Resolve!CommonKind
  <2>. QED  BY <1>1, <1>2, <1>4, <2>1 DEF RanksAs, Ranks, k, r, Resolve!WeakKind, Resolve!CommonKind, Resolve!RealKind
<1>5. CASE k \in Resolve!WeakKind
  <2>1. r = IF o \in reach THEN <<1, w, prio[o]>> ELSE <<3, phase0, prio[o]>>
    BY <1>3, <1>5 DEF Resolve!WeakKind, Resolve!CommonKind
  <2>. QED  BY <1>1, <1>2, <1>5, <2>1 DEF RanksAs, Ranks, k, r, Resolve!WeakKind, Resolve!CommonKind, Resolve!RealKind
<1>6. CASE k \in Resolve!CommonKind
  <2>1. r = IF o \in reach THEN <<4, 0, prio[o]>> ELSE <<5, 0, prio[o]>>
    BY <1>3, <1>6 DEF Resolve!WeakKind, Resolve!CommonKind
  <2>. QED  BY <1>1, <1>2, <1>6, <2>1 DEF RanksAs, Ranks, k, r, Resolve!WeakKind, Resolve!CommonKind, Resolve!RealKind
<1>7. CASE k \notin Resolve!RealKind \cup Resolve!CommonKind
  <2>1. r = <<6, 0, 0>>
    BY <1>3, <1>7 DEF Resolve!WeakKind, Resolve!CommonKind, Resolve!RealKind
  <2>. QED  BY <1>7, <2>1 DEF RanksAs, Ranks, k, r, Resolve!WeakKind, Resolve!CommonKind, Resolve!RealKind
<1>. QED  BY <1>4, <1>5, <1>6, <1>7 DEF Resolve!RealKind

\* The race is won by a definition of the lowest class, if there is one.
LEMMA RaceFacts ==
    ASSUME \E family \in InputLinks : link \in family, NEW S \in SUBSET ObjFiles,
           NEW s \in Symbols, prio \in [Resolve!File -> Nat]
    PROVE  LET b == Resolve!Race(S, s) IN
           \/ /\ b = Resolve!NoBest
              /\ \A o \in S : Resolve!Def(o, s) \notin Resolve!RealKind \cup Resolve!CommonKind
           \/ /\ b # Resolve!NoBest /\ b.obj \in S /\ b.rank = Resolve!DefinitionRank(b.obj, s)
              /\ Resolve!Def(b.obj, s) \in Resolve!RealKind \cup Resolve!CommonKind
              /\ \A o \in S : b.rank[1] <= Resolve!DefinitionRank(o, s)[1]
<1>. DEFINE D(o) == Resolve!DefinitionRank(o, s)
            rivals == {[rank |-> D(o), obj |-> o] : o \in S} \cup {Resolve!NoBest}
            Wins(x) == \A y \in rivals : ~Resolve!Less(y.rank, x.rank)
                                         /\ (x.rank = Resolve!NoRank => x = Resolve!NoBest)
            b == Resolve!Race(S, s)
            R == {D(o) : o \in S}
<1>0. b = CHOOSE x \in rivals : Wins(x)
  BY DEF Resolve!Race
<1>. HIDE DEF b
<1>1. \A o \in S : RanksAs(D(o), Resolve!Def(o, s), o \in reach)
  BY DefinitionRankFacts
<1>2. /\ Resolve!NoBest.rank = <<6, 0, 0>> /\ Resolve!NoRank = <<6, 0, 0>>
      /\ Resolve!NoBest.obj = Resolve!NoFile /\ Resolve!NoFile \notin S
  BY ResolveLinkFacts DEF Resolve!NoBest, Resolve!NoRank
<1>. DEFINE Defines(o) == Resolve!Def(o, s) \in Resolve!RealKind \cup Resolve!CommonKind
<1>3. \A o \in S : /\ D(o) \in Ranks
                   /\ Defines(o) => D(o)[1] \in 0..5
                   /\ ~Defines(o) => D(o) = <<6, 0, 0>>
  <2>. TAKE o \in S
  <2>1. RanksAs(D(o), Resolve!Def(o, s), o \in reach)
    BY <1>1
  <2>. HIDE DEF D
  <2>. QED  BY <2>1 DEF RanksAs, Resolve!RealKind
<1>. HIDE DEF D, Defines
<1>4. CASE \A o \in S : ~Defines(o)
  <2>1. \A x \in rivals : x.rank = <<6, 0, 0>>
    BY <1>2, <1>3, <1>4
  <2>2. ~Resolve!Less(<<6, 0, 0>>, <<6, 0, 0>>)
    BY DEF Resolve!Less
  <2>3. Wins(Resolve!NoBest)
    BY <1>2, <2>1, <2>2
  <2>4. b \in rivals /\ Wins(b)
    BY <1>0, <2>3
  <2>5. b = Resolve!NoBest
    BY <1>2, <2>1, <2>4
  <2>. QED  BY <1>4, <2>5 DEF Defines, b
<1>5. CASE \E o \in S : Defines(o)
  <2>1. PICK x \in R : \A y \in R : ~Resolve!Less(y, x)
    <3>1. R \in SUBSET Ranks /\ R # {}
      BY <1>3, <1>5
    <3>. HIDE DEF R
    <3>. QED  BY <3>1, LowestRank
  <2>2. PICK o \in S : x = D(o)
    OBVIOUS
  <2>3. Defines(o)
    <3>1. PICK o2 \in S : Defines(o2)
      BY <1>5
    <3>2. ~Resolve!Less(D(o2), D(o))
      BY <2>1, <2>2
    <3>3. SUFFICES ASSUME ~Defines(o)
                   PROVE  FALSE
      OBVIOUS
    <3>4. D(o) = <<6, 0, 0>> /\ D(o2)[1] \in 0..5
      BY <1>3, <3>1, <3>3
    <3>. QED  BY <3>2, <3>4 DEF Resolve!Less
  <2>4. \E y \in rivals : Wins(y)
    <3>. DEFINE y == [rank |-> D(o), obj |-> o]
    <3>1. y \in rivals /\ y.rank = D(o) /\ D(o)[1] \in 0..5
      BY <1>3, <2>3
    <3>2. D(o) # Resolve!NoRank
      BY <1>2, <3>1
    <3>3. ~Resolve!Less(<<6, 0, 0>>, D(o))
      <4>1. D(o)[1] \in 0..5
        BY <3>1
      <4>. QED  BY <4>1 DEF Resolve!Less
    <3>4. \A z \in rivals : z.rank \in R \/ z.rank = <<6, 0, 0>>
      BY <1>2
    <3>5. Wins(y)
      <4>. HIDE DEF y, rivals, R
      <4>. QED  BY <2>1, <2>2, <3>1, <3>2, <3>3, <3>4
    <3>. QED  BY <3>1, <3>5
  <2>5. b \in rivals /\ Wins(b)
    <3>. HIDE DEF rivals, Wins
    <3>. QED  BY <1>0, <2>4
  <2>6. b # Resolve!NoBest
    <3>1. SUFFICES ASSUME b = Resolve!NoBest
                   PROVE  FALSE
      OBVIOUS
    <3>2. ~Resolve!Less(D(o), <<6, 0, 0>>)
      <4>1. [rank |-> D(o), obj |-> o] \in rivals
        OBVIOUS
      <4>2. [rank |-> D(o), obj |-> o].rank = D(o)
        OBVIOUS
      <4>. HIDE DEF rivals
      <4>. QED  BY <1>2, <2>5, <3>1, <4>1, <4>2
    <3>3. D(o)[1] \in 0..5
      BY <1>3, <2>3
    <3>. QED  BY <3>2, <3>3 DEF Resolve!Less
  <2>7. PICK p \in S : b = [rank |-> D(p), obj |-> p]
    BY <2>5, <2>6
  <2>8. b.obj = p /\ b.rank = D(p)
    BY <2>7
  <2>9. Defines(p)
    <3>1. b.rank # Resolve!NoRank
      BY <2>5, <2>6
    <3>. QED  BY <1>2, <1>3, <2>8, <3>1
  <2>10. \A q \in S : D(p)[1] <= D(q)[1]
    <3>. TAKE q \in S
    <3>1. ~Resolve!Less(D(q), D(p))
      <4>1. [rank |-> D(q), obj |-> q] \in rivals
        OBVIOUS
      <4>2. [rank |-> D(q), obj |-> q].rank = D(q)
        OBVIOUS
      <4>. HIDE DEF rivals
      <4>. QED  BY <2>5, <2>8, <4>1, <4>2
    <3>2. D(p)[1] \in Nat /\ D(q)[1] \in Nat
      <4>1. D(p) \in Ranks /\ D(q) \in Ranks
        BY <1>3
      <4>. QED  BY <4>1 DEF Ranks
    <3>. QED  BY <3>1, <3>2 DEF Resolve!Less
  <2>. QED  BY <2>6, <2>7, <2>8, <2>9, <2>10 DEF D, Defines, b
<1>. QED  BY <1>4, <1>5

\* A symbol that some of the dylibs have is taken from one of those: their
\* ranks tell them apart.
LEMMA FirstExporterFacts ==
    ASSUME NEW names \in [DylibFiles -> SUBSET Symbols], NEW D \in SUBSET DylibFiles,
           NEW ranks, \A d \in D : ranks[d] \in Ranks,
           \A d, e \in D : ranks[d][3] = ranks[e][3] => d = e,
           NEW s \in Symbols
    PROVE  LET x == Resolve!FirstExporter(names, ranks, D, s) IN
           /\ (\E d \in D : s \in names[d]) => x \in D /\ s \in names[x]
           /\ ~(\E d \in D : s \in names[d]) => x = Resolve!NoFile
<1>. DEFINE exporters == {d \in D : s \in names[d]}
            strong == {d \in exporters : link.export[d][s] # "weak"}
            best == IF strong # {} THEN strong ELSE exporters
            x == Resolve!FirstExporter(names, ranks, D, s)
<1>1. x = IF best = {} THEN Resolve!NoFile
          ELSE CHOOSE d \in best : \A e \in best \ {d} : Resolve!Less(ranks[d], ranks[e])
  BY DEF Resolve!FirstExporter
<1>2. CASE exporters = {}
  BY <1>1, <1>2
<1>3. CASE exporters # {}
  <2>1. best # {} /\ best \subseteq exporters
    BY <1>3
  <2>. DEFINE R == {ranks[d] : d \in best}
  <2>2. PICK a \in R : \A b \in R : ~Resolve!Less(b, a)
    <3>1. R \in SUBSET Ranks /\ R # {}
      BY <2>1
    <3>. HIDE DEF R
    <3>. QED  BY <3>1, LowestRank
  <2>3. PICK d \in best : a = ranks[d]
    OBVIOUS
  <2>4. \A e \in best \ {d} : Resolve!Less(ranks[d], ranks[e])
    <3>. HIDE DEF best
    <3>. TAKE e \in best \ {d}
    <3>1. ~Resolve!Less(ranks[e], ranks[d])
      BY <2>2, <2>3
    <3>2. d \in D /\ e \in D /\ d # e
      BY <2>1
    <3>3. ranks[d][3] # ranks[e][3]
      BY <3>2
    <3>4. /\ ranks[d][1] \in Nat /\ ranks[d][2] \in Nat /\ ranks[d][3] \in Nat
          /\ ranks[e][1] \in Nat /\ ranks[e][2] \in Nat /\ ranks[e][3] \in Nat
      BY <3>2 DEF Ranks
    <3>. QED  BY <3>1, <3>3, <3>4 DEF Resolve!Less
  <2>5. x \in best
    <3>. HIDE DEF best, x
    <3>. QED  BY <1>1, <2>1, <2>4
  <2>. QED  BY <1>3, <2>1, <2>5
<1>. QED  BY <1>2, <1>3

\* The dylib a symbol is imported from instead is one that has it, too.
LEMMA ProvidingDylibFacts ==
    ASSUME \E family \in InputLinks : link \in family, NEW D \in SUBSET DylibFiles,
           NEW providers, \A d \in D : providers[d] \subseteq D,
           NEW s \in Symbols, NEW d \in D, link.export[d][s] # "none"
    PROVE  LET x == Resolve!ProvidingDylib(providers, d, s) IN
           x \in D /\ link.export[x][s] # "none"
<1>. DEFINE M == Resolve!Cardinality(Resolve!Dylibs)
            V == {e \in D : link.export[e][s] # "none"}
            which(v) == {i \in DOMAIN link.merged[v] :
                            /\ link.merged[v][i] \in providers[v]
                            /\ link.export[link.merged[v][i]][s] # "none"}
            Step(v) == IF which(v) = {} THEN v
                       ELSE link.merged[v][CHOOSE i \in which(v) : \A j \in which(v) : i <= j]
            H == [n \in 1..M |-> [v \in V |-> Step(v)]]
            G(g) == [n \in 0..M |-> IF n = 0 THEN d ELSE Step(g[n - 1])]
            e == CHOOSE g : g = G(g)
<1>1. M \in Nat
  <2>1. IsFiniteSet(Resolve!File) /\ Resolve!Dylibs \subseteq Resolve!File
    BY ResolveAssumption DEF Resolve!LinkAssumption, Resolve!IsFiniteSet, IsFiniteSet, Resolve!Dylibs, Resolve!Loaded
  <2>2. Resolve!Cardinality(Resolve!Dylibs) = Cardinality(Resolve!Dylibs)
    BY DEF Resolve!Cardinality, Cardinality
  <2>. QED  BY <2>1, <2>2, FS_Subset, FS_CardinalityType
<1>2. ASSUME NEW v \in V
      PROVE  Step(v) \in V
  <2>1. CASE which(v) = {}
    BY <2>1
  <2>2. CASE which(v) # {}
    <3>. DEFINE W == which(v)
    <3>1. W \in SUBSET Nat
      <4>1. link.merged[v] \in Seq(DylibFiles)
        BY ResolveLinkFacts
      <4>. QED  BY <4>1
    <3>2. \E i \in W : \A j \in W : i <= j
      <4>. HIDE DEF W
      <4>. QED  BY <2>2, <3>1, LeastNat DEF W
    <3>. DEFINE m == CHOOSE i \in W : \A j \in W : i <= j
    <3>3. m \in W
      <4>. HIDE DEF W
      <4>. QED  BY <3>2
    <3>4. Step(v) = link.merged[v][m]
      BY <2>2
    <3>5. link.merged[v][m] \in providers[v] /\ link.export[link.merged[v][m]][s] # "none"
      <4>. HIDE DEF m
      <4>. QED  BY <3>3
    <3>. HIDE DEF m, Step
    <3>. QED  BY <3>4, <3>5
  <2>. QED  BY <2>1, <2>2
<1>. HIDE DEF which
<1>3. \A n \in 1..M, v \in V : H[n][v] = Step(v) /\ H[n][v] \in V
  <2>. HIDE DEF Step, M, V
  <2>. QED  BY <1>2
<1>4. PICK f \in [0..M -> V] : f[0] = d /\ \A n \in 1..M : f[n] = H[n][f[n - 1]]
  <2>1. M \in Nat /\ d \in V /\ AreSteps(H, M, V)
    <3>0. d \in V
      OBVIOUS
    <3>. HIDE DEF H, M, V
    <3>. QED  BY <1>1, <1>3, <3>0 DEF AreSteps
  <2>2. \E f \in [0..M -> V] : IsByStep(f, d, H, M)
    <3>. HIDE DEF H, M, V
    <3>. QED  BY <2>1, FunctionByStep
  <2>. HIDE DEF H, M, V
  <2>. QED  BY <2>2 DEF IsByStep
<1>5. \A n \in 1..M : f[n - 1] \in V /\ f[n] = Step(f[n - 1])
  <2>. HIDE DEF H, M, Step, V
  <2>1. \A n \in 1..M : f[n - 1] \in V
    BY <1>1, <1>4
  <2>. QED  BY <1>3, <1>4, <2>1
<1>6. f = G(f)
  <2>. HIDE DEF H, M, Step, V
  <2>. QED  BY <1>1, <1>4, <1>5
<1>7. e = G(e)
  <2>. HIDE DEF G
  <2>. QED  BY <1>6
<1>8. DOMAIN e = 0..M /\ e[0] = d /\ \A n \in 1..M : e[n] = Step(e[n - 1])
  <2>. HIDE DEF e, M, Step
  <2>. QED  BY <1>1, <1>7
<1>9. \A n \in 0..M : e[n] \in V
  <2>. DEFINE T == {m \in Nat : m <= M => e[m] \in V}
  <2>1. 0 \in T
    <3>1. d \in V
      OBVIOUS
    <3>. HIDE DEF e, V
    <3>. QED  BY <1>8, <3>1
  <2>2. ASSUME NEW m \in Nat, m \in T
        PROVE  m + 1 \in T
    <3>. HIDE DEF e, Step, M, V
    <3>1. SUFFICES ASSUME m + 1 <= M
                   PROVE  e[m + 1] \in V
      OBVIOUS
    <3>2. m + 1 \in 1..M /\ (m + 1) - 1 = m /\ e[m] \in V
      BY <1>1, <2>2, <3>1
    <3>. QED  BY <1>2, <1>8, <3>2
  <2>3. Nat \subseteq T
    <3>. HIDE DEF T
    <3>. QED  BY <2>1, <2>2, SetInduction
  <2>. HIDE DEF e, V
  <2>. QED  BY <1>1, <2>3
<1>10. Resolve!ProvidingDylib(providers, d, s) = e[M]
  BY DEF Resolve!ProvidingDylib, which
<1>. HIDE DEF e, M
<1>. QED  BY <1>1, <1>9, <1>10

IsCleared(c) ==
    c \in SymRecord /\ c.file = Resolve!NoFile /\ ~c.common /\ ~c.weakRef /\ ~c.strongRef

\* What the race and the claims of a round over the objects S make of a
\* symbol s, best being the rank a dylib has to beat.
NoClaim(c, best, S, s) ==
    /\ c.file = Resolve!NoFile /\ ~c.common /\ best[1] = 6
    /\ NoneDropped(S, s) => Offering(S, s) = {}
    /\ NoneDropped(S \cap reach, s) => \A o \in S \cap reach : Resolve!Def(o, s) \notin Real
CommonClaim(c, best, S, s) ==
    /\ c.file = Resolve!NoFile /\ c.common /\ best[1] = 4
    /\ Resolve!LiveCommons(s) # {}
    /\ \A o \in S \cap reach : Resolve!Def(o, s) \notin Real
    /\ \A o \in Resolve!LiveCommons(s) : Resolve!CommonSize(Resolve!Def(o, s)) <= c.size
    /\ \E o \in Resolve!LiveCommons(s) : Resolve!CommonSize(Resolve!Def(o, s)) = c.size
    /\ c.pext <=> \E o \in Resolve!LiveCommons(s) : o \in link.hidden
LazyCommonClaim(c, best, S, s) ==
    /\ c.file \in Offering(S, s) \ reach /\ best[1] = 5
    /\ \A o \in S \cap reach : Resolve!Def(o, s) \notin Real
RealClaim(c, best, S, s) ==
    /\ c.file \in Offering(S, s) /\ Resolve!Def(c.file, s) \in Real /\ ~c.common
    /\ \/ best[1] \in {0, 1} /\ c.file \in reach
       \/ best[1] \in {2, 3} /\ \A o \in S \cap reach : Resolve!Def(o, s) \notin Real
IsClaim(c, best, S, s) ==
    /\ c \in SymRecord /\ ~c.weakRef /\ ~c.strongRef /\ best \in Ranks
    /\ \/ NoClaim(c, best, S, s)
       \/ CommonClaim(c, best, S, s)
       \/ LazyCommonClaim(c, best, S, s)
       \/ RealClaim(c, best, S, s)

\* Every live tentative definition is merged.
LEMMA MergeFacts ==
    ASSUME \E family \in InputLinks : link \in family, NEW s \in Symbols, NEW c \in SymRecord,
           NEW w \in Resolve!LiveCommons(s), c.size = Resolve!CommonSize(Resolve!Def(w, s)),
           c.pext = (w \in link.hidden)
    PROVE  LET m == Resolve!MergeCommon(c, s) IN
           /\ m \in SymRecord
           /\ m.file = c.file /\ m.common = c.common
           /\ m.weakRef = c.weakRef /\ m.strongRef = c.strongRef /\ m.used = c.used
           /\ \A o \in Resolve!LiveCommons(s) : Resolve!CommonSize(Resolve!Def(o, s)) <= m.size
           /\ \E o \in Resolve!LiveCommons(s) : Resolve!CommonSize(Resolve!Def(o, s)) = m.size
           /\ m.pext <=> \E o \in Resolve!LiveCommons(s) : o \in link.hidden
<1>. DEFINE L == Resolve!LiveCommons(s)
            Size(o) == Resolve!CommonSize(Resolve!Def(o, s))
            sizes == {c.size} \cup {Size(o) : o \in L}
            IsLargest(n) == \A m \in sizes : m <= n
            n == CHOOSE x \in sizes : IsLargest(x)
            hid == \E o \in L : o \in link.hidden
            m == Resolve!MergeCommon(c, s)
<1>1. \A o \in L : Size(o) \in {1, 2}
  BY DEF Resolve!CommonSize
<1>2. c.size = Size(w) /\ w \in L
  OBVIOUS
<1>3. n \in sizes /\ IsLargest(n)
  <2>. HIDE DEF Size, L
  <2>1. sizes \subseteq {1, 2} /\ sizes # {}
    BY <1>1, <1>2
  <2>2. \E x \in sizes : IsLargest(x)
    <3>. HIDE DEF sizes
    <3>1. CASE 2 \in sizes
      BY <2>1, <3>1
    <3>2. CASE 2 \notin sizes
      <4>1. 1 \in sizes /\ \A x \in sizes : x = 1
        BY <2>1, <3>2
      <4>2. IsLargest(1)
        BY <4>1
      <4>. HIDE DEF IsLargest
      <4>. QED  BY <4>1, <4>2
    <3>. QED  BY <3>1, <3>2
  <2>. HIDE DEF sizes, IsLargest
  <2>. QED  BY <2>2
<1>4. m = [c EXCEPT !.size = n, !.pext = @ \/ hid]
  BY DEF Resolve!MergeCommon
<1>. HIDE DEF n, Size, L, m
<1>5. n \in {1, 2} /\ (\A o \in L : Size(o) <= n) /\ \E o \in L : Size(o) = n
  BY <1>1, <1>2, <1>3
<1>6. hid <=> (c.pext \/ hid)
  BY <1>2 DEF L
<1>. HIDE DEF hid
<1>7. /\ m \in SymRecord /\ m.size = n /\ m.pext = (c.pext \/ hid)
      /\ m.file = c.file /\ m.common = c.common
      /\ m.weakRef = c.weakRef /\ m.strongRef = c.strongRef /\ m.used = c.used
  <2>1. hid \in BOOLEAN
    BY DEF hid
  <2>2. n \in Nat
    BY <1>5
  <2>. QED  BY <1>4, <2>1, <2>2 DEF SymRecord
<1>. QED  BY <1>5, <1>6, <1>7 DEF m, L, Size, hid

\* What the race, the winner's claim and the merging make of a symbol.
LEMMA ClaimFacts ==
    ASSUME \E family \in InputLinks : link \in family, prio \in [Resolve!File -> Nat],
           NEW S \in SUBSET Resolve!Objs, Resolve!Objs \cap reach \subseteq S,
           NEW s \in Symbols, NEW c, IsCleared(c)
    PROVE  LET race == Resolve!Race(S, s)
               best == Resolve!Best(race, s)
               c1 == IF race = Resolve!NoBest THEN c ELSE Resolve!ClaimDefinition(c, race.obj, s)
               c2 == IF best[1] = 4 THEN Resolve!MergeCommon(c1, s) ELSE c1
           IN  IsClaim(c2, best, S, s)
<1>. DEFINE race == Resolve!Race(S, s)
            best == Resolve!Best(race, s)
            c1 == IF race = Resolve!NoBest THEN c ELSE Resolve!ClaimDefinition(c, race.obj, s)
            c2 == IF best[1] = 4 THEN Resolve!MergeCommon(c1, s) ELSE c1
            w == race.obj
            k == Resolve!Def(w, s)
            r == race.rank
            hid == w \in link.hidden
<1>0. S \subseteq ObjFiles /\ c \in SymRecord /\ c.file = Resolve!NoFile /\ ~c.common /\ ~c.weakRef /\ ~c.strongRef
  BY DEF Resolve!Objs, IsCleared
<1>1. \/ /\ race = Resolve!NoBest
         /\ \A o \in S : Resolve!Def(o, s) \notin Resolve!RealKind \cup Resolve!CommonKind
      \/ /\ race # Resolve!NoBest /\ w \in S /\ r = Resolve!DefinitionRank(w, s)
         /\ k \in Resolve!RealKind \cup Resolve!CommonKind
         /\ \A o \in S : r[1] <= Resolve!DefinitionRank(o, s)[1]
  BY <1>0, RaceFacts
<1>2. best = IF race # Resolve!NoBest /\ k = "dropped" THEN <<6, 0, 0>> ELSE r
  BY DEF Resolve!Best, Resolve!NoRank
<1>3. <<6, 0, 0>> \in Ranks /\ <<6, 0, 0>>[1] = 6
  BY DEF Ranks
<1>4. \A o \in S : RanksAs(Resolve!DefinitionRank(o, s), Resolve!Def(o, s), o \in reach)
  BY <1>0, DefinitionRankFacts
<1>. HIDE DEF race, best
<1>5. CASE race = Resolve!NoBest
  <2>1. r = <<6, 0, 0>> /\ best = <<6, 0, 0>>
    BY <1>2, <1>5 DEF Resolve!NoBest, Resolve!NoRank
  <2>2. c2 = c
    BY <1>3, <1>5, <2>1
  <2>3. \A o \in S : Resolve!Def(o, s) \notin Resolve!RealKind \cup Resolve!CommonKind
    BY <1>1, <1>5
  <2>4. NoClaim(c2, best, S, s)
    BY <1>0, <1>3, <2>1, <2>2, <2>3 DEF NoClaim, Offering, Real, Tentative
  <2>. HIDE DEF c2
  <2>. QED  BY <1>0, <1>3, <2>1, <2>2, <2>4 DEF IsClaim, c2, c1, best, race
<1>6. CASE race # Resolve!NoBest
  <2>1. /\ w \in S /\ k \in Resolve!RealKind \cup Resolve!CommonKind /\ RanksAs(r, k, w \in reach)
        /\ \A o \in S : r[1] <= Resolve!DefinitionRank(o, s)[1]
    BY <1>1, <1>4, <1>6
  <2>2. c1 = Resolve!ClaimDefinition(c, w, s) /\ w \in Resolve!File /\ w \in ObjFiles
    BY <1>0, <1>6, <2>1, ResolveLinkFacts
  <2>. DEFINE d == [c EXCEPT !.common = FALSE, !.pext = hid]
  <2>3. hid \in BOOLEAN
    OBVIOUS
  <2>4. c1 = CASE k = "dropped" -> [d EXCEPT !.file = Resolve!NoFile]
               [] k \in Resolve!CommonKind /\ w \notin reach -> [d EXCEPT !.file = w, !.common = TRUE, !.size = 0]
               [] k \in Resolve!CommonKind /\ w \in reach ->
                      [d EXCEPT !.file = Resolve!NoFile, !.common = TRUE, !.size = Resolve!CommonSize(k)]
               [] OTHER -> [d EXCEPT !.file = w]
    BY <2>2 DEF Resolve!ClaimDefinition
  <2>. HIDE DEF c1
  <2>13. d \in SymRecord /\ ~d.weakRef /\ ~d.strongRef /\ ~d.common /\ d.pext = hid
    <3>. HIDE DEF hid
    <3>. QED  BY <1>0, <2>3 DEF SymRecord
  <2>. HIDE DEF d
  <2>. DEFINE Rank(o) == Resolve!DefinitionRank(o, s)
  <2>5. \A o \in S \cap reach : Resolve!Def(o, s) \in Real => Rank(o)[1] \in {0, 1}
    BY <1>4 DEF RanksAs, Real, Resolve!RealKind
  <2>6. r[1] \in Nat /\ r \in Ranks
    BY <2>1 DEF RanksAs, Ranks
  <2>. HIDE DEF w, k, r, hid, Rank
  <2>7. r[1] > 1 => \A o \in S \cap reach : Resolve!Def(o, s) \notin Real
    BY <2>1, <2>5, <2>6 DEF Rank
  <2>8. k = "dropped" => k \notin Resolve!WeakKind /\ k \notin Resolve!CommonKind
    BY DEF Resolve!WeakKind, Resolve!CommonKind
  <2>9. CASE k = "dropped"
    <3>1. best = <<6, 0, 0>>
      BY <1>2, <1>6, <2>9
    <3>2. c2 = c1 /\ c1 = [d EXCEPT !.file = Resolve!NoFile]
      BY <1>3, <2>4, <2>8, <2>9, <3>1
    <3>3. c2 \in SymRecord /\ c2.file = Resolve!NoFile /\ ~c2.common /\ ~c2.weakRef /\ ~c2.strongRef
      <4>. HIDE DEF c2
      <4>. QED  BY <2>13, <3>2 DEF SymRecord
    <3>4. r[1] = IF w \in reach THEN 0 ELSE 2
      BY <2>1, <2>9 DEF RanksAs
    <3>5. ~NoneDropped(S, s) /\ (w \in reach => ~NoneDropped(S \cap reach, s))
      BY <2>1, <2>9 DEF NoneDropped, k
    <3>6. NoClaim(c2, best, S, s)
      <4>. HIDE DEF c2
      <4>. QED  BY <1>3, <2>7, <3>1, <3>3, <3>4, <3>5 DEF NoClaim
    <3>. HIDE DEF c2
    <3>. QED  BY <1>3, <3>1, <3>3, <3>6 DEF IsClaim, c2, c1, best, race
  <2>10. CASE k \in Resolve!CommonKind /\ w \notin reach
    <3>1. r[1] = 5 /\ best = r
      BY <1>2, <2>1, <2>8, <2>10 DEF RanksAs
    <3>2. c2 = c1 /\ c1 = [d EXCEPT !.file = w, !.common = TRUE, !.size = 0]
      BY <2>4, <2>8, <2>10, <3>1
    <3>3. c2 \in SymRecord /\ c2.file = w /\ ~c2.weakRef /\ ~c2.strongRef
      <4>. HIDE DEF c2
      <4>1. w \in Resolve!File /\ c2 = [d EXCEPT !.file = w, !.common = TRUE, !.size = 0]
        BY <2>2, <3>2
      <4>2. c2.file = w /\ ~c2.weakRef /\ ~c2.strongRef
        BY <2>13, <4>1 DEF SymRecord
      <4>3. c2 \in SymRecord
        BY <2>13, <4>1 DEF SymRecord
      <4>. QED  BY <4>2, <4>3
    <3>. HIDE DEF c2
    <3>4. LazyCommonClaim(c2, best, S, s)
      BY <2>1, <2>7, <2>10, <3>1, <3>3 DEF LazyCommonClaim, Offering, Tentative, k
    <3>. QED  BY <2>6, <3>1, <3>3, <3>4 DEF IsClaim, c2, c1, best, race
  <2>11. CASE k \in Resolve!CommonKind /\ w \in reach
    <3>1. r[1] = 4 /\ best = r
      BY <1>2, <2>1, <2>8, <2>11 DEF RanksAs
    <3>2. /\ c2 = Resolve!MergeCommon(c1, s)
          /\ c1 = [d EXCEPT !.file = Resolve!NoFile, !.common = TRUE, !.size = Resolve!CommonSize(k)]
      BY <2>4, <2>8, <2>11, <3>1
    <3>3. Resolve!CommonSize(k) \in Nat
      BY DEF Resolve!CommonSize
    <3>4. /\ c1 \in SymRecord /\ c1.file = Resolve!NoFile /\ c1.common /\ ~c1.weakRef /\ ~c1.strongRef
          /\ c1.size = Resolve!CommonSize(k) /\ c1.pext = hid
      <4>. HIDE DEF c2
      <4>. QED  BY <2>13, <3>2, <3>3 DEF SymRecord
    <3>5. w \in Resolve!LiveCommons(s)
      BY <2>1, <2>11 DEF Resolve!LiveCommons, k
    <3>6. /\ c2 \in SymRecord /\ c2.file = c1.file /\ c2.common = c1.common
          /\ c2.weakRef = c1.weakRef /\ c2.strongRef = c1.strongRef
          /\ \A o \in Resolve!LiveCommons(s) : Resolve!CommonSize(Resolve!Def(o, s)) <= c2.size
          /\ \E o \in Resolve!LiveCommons(s) : Resolve!CommonSize(Resolve!Def(o, s)) = c2.size
          /\ c2.pext <=> \E o \in Resolve!LiveCommons(s) : o \in link.hidden
      <4>1. c1.size = Resolve!CommonSize(Resolve!Def(w, s)) /\ c1.pext = (w \in link.hidden)
        BY <3>4 DEF k, hid
      <4>2. c2 = Resolve!MergeCommon(c1, s)
        BY <3>2
      <4>. HIDE DEF c2
      <4>. QED  BY <3>4, <3>5, <4>1, <4>2, MergeFacts
    <3>. HIDE DEF c2
    <3>7. CommonClaim(c2, best, S, s)
      BY <2>7, <3>1, <3>4, <3>5, <3>6 DEF CommonClaim
    <3>. QED  BY <2>6, <3>1, <3>4, <3>6, <3>7 DEF IsClaim, c2, c1, best, race
  <2>12. CASE k \in Real
    <3>1. k # "dropped" /\ k \notin Resolve!CommonKind /\ (k = "strong" \/ k \in Resolve!WeakKind)
      BY <2>12 DEF Real, Resolve!CommonKind, Resolve!RealKind, Resolve!WeakKind
    <3>2. /\ best = r /\ r[1] \in 0..3
          /\ w \in reach => r[1] \in {0, 1}
          /\ w \notin reach => r[1] \in {2, 3}
      BY <1>2, <2>1, <3>1 DEF RanksAs
    <3>3. c2 = c1 /\ c1 = [d EXCEPT !.file = w]
      BY <2>4, <3>1, <3>2
    <3>4. c2 \in SymRecord /\ c2.file = w /\ ~c2.common /\ ~c2.weakRef /\ ~c2.strongRef
      <4>. HIDE DEF c2
      <4>. QED  BY <2>2, <2>13, <3>3 DEF SymRecord
    <3>. HIDE DEF c2
    <3>5. RealClaim(c2, best, S, s)
      BY <2>1, <2>7, <2>12, <3>2, <3>4 DEF RealClaim, Offering, k
    <3>. QED  BY <2>6, <3>2, <3>4, <3>5 DEF IsClaim, c2, c1, best, race
  <2>. QED  BY <2>1, <2>9, <2>10, <2>11, <2>12 DEF Real
<1>. QED  BY <1>5, <1>6

\* A reference is recorded as weak only if no strong one decides.
LEMMA RecordFacts ==
    ASSUME \E family \in InputLinks : link \in family, NEW S, NEW s \in Symbols,
           NEW c \in SymRecord, ~c.weakRef, ~c.strongRef
    PROVE  LET m == Resolve!RecordReferences(c, S, s) IN
           /\ m \in SymRecord /\ m.file = c.file /\ m.common = c.common /\ m.size = c.size
           /\ m.pext = c.pext /\ m.used = c.used
           /\ m.weakRef <=> Resolve!WeakUse(S, s) /\ (~Resolve!StrongUse(S, s) \/ link.weakWins)
<1>. DEFINE W == Resolve!WeakUse(S, s)
            St == Resolve!StrongUse(S, s)
            m == Resolve!RecordReferences(c, S, s)
<1>1. link.weakWins \in BOOLEAN
  BY ResolveAssumption DEF Resolve!LinkAssumption, Resolve!IsLink
<1>2. m = CASE link.weakWins /\ W -> [c EXCEPT !.weakRef = TRUE]
            [] ~(link.weakWins /\ W) /\ St -> [c EXCEPT !.strongRef = TRUE, !.weakRef = FALSE]
            [] ~St /\ W /\ ~link.weakWins -> [c EXCEPT !.weakRef = @ \/ ~c.strongRef]
            [] OTHER -> c
  BY DEF Resolve!RecordReferences
<1>. HIDE DEF W, St, m
<1>3. CASE link.weakWins /\ W
  <2>1. m = [c EXCEPT !.weakRef = TRUE]
    BY <1>2, <1>3
  <2>. QED  BY <1>3, <2>1 DEF SymRecord, m, W, St
<1>4. CASE ~(link.weakWins /\ W) /\ St
  <2>1. m = [c EXCEPT !.strongRef = TRUE, !.weakRef = FALSE]
    BY <1>2, <1>4
  <2>. QED  BY <1>4, <2>1 DEF SymRecord, m, W, St
<1>5. CASE ~St /\ W /\ ~link.weakWins
  <2>1. m = [c EXCEPT !.weakRef = c.weakRef \/ ~c.strongRef]
    BY <1>2, <1>5
  <2>2. (c.weakRef \/ ~c.strongRef) = TRUE
    OBVIOUS
  <2>3. m = [c EXCEPT !.weakRef = TRUE]
    BY <2>1, <2>2
  <2>. QED  BY <1>5, <2>3 DEF SymRecord, m, W, St
<1>6. CASE ~W /\ ~St
  <2>1. m = c
    BY <1>2, <1>6
  <2>. QED  BY <1>6, <2>1 DEF SymRecord, m, W, St
<1>. QED  BY <1>1, <1>3, <1>4, <1>5, <1>6

\* A dylib that ranks in the round and has the symbol claims it, unless what
\* won the race keeps it.
Kept(best, rk, names, used, s) ==
    \/ ~used \/ Taken(s) \/ best[1] < 4
    \/ \A d \in DOMAIN rk.ranks : s \notin names[d]
Imported(x, c, best, rk, names, used, s) ==
    /\ x \in SymRecord /\ x.file \in DylibFiles /\ ~x.common
    /\ x.weakRef <=> c.weakRef \/ x.file \in link.weakLib
    /\ used /\ ~Taken(s) /\ best[1] >= 2
    /\ \E d \in DOMAIN rk.ranks : s \in names[d]

\* Priorities tell the ranks of the dylibs apart.
LEMMA RankingFacts ==
    ASSUME \E family \in InputLinks : link \in family, prio \in [Resolve!File -> Nat],
           \A f, g \in Resolve!Loaded : prio[f] = prio[g] => f = g,
           NEW rk, IsRanking(rk)
    PROVE  /\ DOMAIN rk.ranks \in SUBSET DylibFiles
           /\ \A d \in DOMAIN rk.ranks : /\ rk.ranks[d] \in Ranks /\ rk.ranks[d][1] = 2
                                         /\ rk.providers[d] \subseteq DOMAIN rk.ranks
           /\ \A d, e \in DOMAIN rk.ranks : rk.ranks[d][3] = rk.ranks[e][3] => d = e
<1>1. /\ DOMAIN rk.ranks \subseteq DylibFiles /\ DOMAIN rk.ranks \subseteq Resolve!Loaded
      /\ Resolve!Loaded \subseteq Resolve!File
  BY DEF IsRanking, Resolve!Dylibs, Resolve!Loaded
<1>2. ASSUME NEW d \in DOMAIN rk.ranks
      PROVE  rk.ranks[d] \in Ranks /\ rk.ranks[d][1] = 2 /\ rk.ranks[d][3] = prio[d]
  <2>1. prio[d] \in Nat /\ rk.ranks[d] \in {<<2, 0, prio[d]>>, <<2, 2, prio[d]>>}
    BY <1>1 DEF IsRanking
  <2>. QED  BY <2>1 DEF Ranks
<1>. QED  BY <1>1, <1>2 DEF IsRanking

\* A dylib takes a symbol over only from what ranks after every dylib.
LEMMA ImportFacts ==
    ASSUME \E family \in InputLinks : link \in family, prio \in [Resolve!File -> Nat],
           \A f, g \in Resolve!Loaded : prio[f] = prio[g] => f = g,
           NEW rk, IsRanking(rk),
           NEW names \in [DylibFiles -> SUBSET Symbols],
           \A d \in DylibFiles : \A t \in names[d] : link.export[d][t] # "none",
           NEW s \in Symbols, NEW c \in SymRecord, NEW used \in BOOLEAN,
           NEW best \in Ranks
    PROVE  LET x == Resolve!ClaimDylibExport(c, rk, names, used, best, s) IN
           \/ x = c /\ Kept(best, rk, names, used, s)
           \/ Imported(x, c, best, rk, names, used, s)
<1>. DEFINE x == Resolve!ClaimDylibExport(c, rk, names, used, best, s)
            d == Resolve!FirstExporter(names, rk.ranks, DOMAIN rk.ranks, s)
            rank == IF d = Resolve!NoFile THEN Resolve!NoRank
                    ELSE <<rk.ranks[d][1] + (IF link.export[d][s] = "weak" THEN 1 ELSE 0),
                           rk.ranks[d][2], rk.ranks[d][3]>>
            owner == Resolve!ProvidingDylib(rk.providers, d, s)
            claimed == Resolve!ImportFromDylib([c EXCEPT !.size = IF c.common THEN 0 ELSE @], owner)
            keeps == \/ d = Resolve!NoFile \/ ~used
                     \/ best[1] < 2 \/ Taken(s)
                     \/ ~Resolve!Less(rank, best)
            wk == owner \in link.weakLib
<1>1. /\ keeps => x = c
      /\ ~keeps => x = [claimed EXCEPT !.weakRef = claimed.weakRef \/ wk]
  BY DEF Resolve!ClaimDylibExport, Taken
<1>2. /\ DOMAIN rk.ranks \in SUBSET DylibFiles
      /\ \A e \in DOMAIN rk.ranks : /\ rk.ranks[e] \in Ranks /\ rk.ranks[e][1] = 2
                                    /\ rk.providers[e] \subseteq DOMAIN rk.ranks
      /\ \A e, f \in DOMAIN rk.ranks : rk.ranks[e][3] = rk.ranks[f][3] => e = f
  BY RankingFacts
<1>3. /\ (\E e \in DOMAIN rk.ranks : s \in names[e]) => d \in DOMAIN rk.ranks /\ s \in names[d]
      /\ ~(\E e \in DOMAIN rk.ranks : s \in names[e]) => d = Resolve!NoFile
  <2>. HIDE DEF d
  <2>. QED  BY <1>2, FirstExporterFacts DEF d
<1>4. d # Resolve!NoFile => d \in DOMAIN rk.ranks /\ s \in names[d] /\ link.export[d][s] # "none" /\ rank[1] \in {2, 3}
  <2>1. SUFFICES ASSUME d # Resolve!NoFile
                 PROVE  d \in DOMAIN rk.ranks /\ s \in names[d] /\ link.export[d][s] # "none" /\ rank[1] \in {2, 3}
    OBVIOUS
  <2>. HIDE DEF d
  <2>2. d \in DOMAIN rk.ranks /\ s \in names[d] /\ link.export[d][s] # "none" /\ rk.ranks[d][1] = 2
    BY <1>2, <1>3, <2>1
  <2>. QED  BY <2>1, <2>2
<1>5. best[1] \in Nat
  BY DEF Ranks
<1>. HIDE DEF x, rank, claimed
<1>6. CASE keeps
  <2>1. d = Resolve!NoFile => \A e \in DOMAIN rk.ranks : s \notin names[e]
    <3>1. Resolve!NoFile \notin DOMAIN rk.ranks
      BY <1>2, ResolveLinkFacts
    <3>. HIDE DEF d
    <3>. QED  BY <1>3, <3>1
  <2>2. d # Resolve!NoFile /\ ~Resolve!Less(rank, best) => best[1] < 4
    <3>. HIDE DEF d
    <3>. QED  BY <1>4, <1>5 DEF Resolve!Less
  <2>3. best[1] < 2 => best[1] < 4
    BY <1>5
  <2>. HIDE DEF d
  <2>4. Kept(best, rk, names, used, s)
    BY <1>6, <2>1, <2>2, <2>3 DEF Kept
  <2>. QED  BY <1>1, <1>6, <2>4 DEF x
<1>7. CASE ~keeps
  <2>1. /\ d # Resolve!NoFile /\ used /\ ~Taken(s) /\ best[1] >= 2
        /\ x = [claimed EXCEPT !.weakRef = claimed.weakRef \/ wk]
    <3>. HIDE DEF d, wk
    <3>. QED  BY <1>1, <1>5, <1>7
  <2>2. owner \in DOMAIN rk.ranks
    <3>. HIDE DEF d, owner
    <3>. QED  BY <1>2, <1>4, <2>1, ProvidingDylibFacts DEF owner
  <2>. HIDE DEF d, owner
  <2>3. owner \in DylibFiles /\ owner \in Resolve!File
    BY <1>2, <2>2, ResolveLinkFacts
  <2>4. wk \in BOOLEAN
    OBVIOUS
  <2>. DEFINE sz == IF c.common THEN 0 ELSE c.size
  <2>5. sz \in Nat /\ claimed = [[c EXCEPT !.size = sz] EXCEPT !.file = owner, !.common = FALSE]
    BY DEF claimed, Resolve!ImportFromDylib, SymRecord
  <2>. HIDE DEF sz, wk
  <2>6. claimed \in SymRecord /\ claimed.file = owner /\ ~claimed.common /\ claimed.weakRef = c.weakRef
    BY <2>3, <2>5 DEF SymRecord
  <2>. DEFINE b == claimed.weakRef \/ wk
  <2>7. b \in BOOLEAN
    BY <2>4
  <2>8. x = [claimed EXCEPT !.weakRef = b]
    BY <2>1
  <2>. HIDE DEF b
  <2>9. x \in SymRecord /\ x.file = owner /\ ~x.common /\ x.weakRef = b
    BY <2>6, <2>7, <2>8 DEF SymRecord
  <2>10. x.weakRef <=> c.weakRef \/ x.file \in link.weakLib
    BY <2>6, <2>9 DEF b, wk
  <2>. QED  BY <1>4, <2>1, <2>3, <2>9, <2>10 DEF Imported, x
<1>. QED  BY <1>6, <1>7

\* A round starts from symbols that nothing owns.
LEMMA ClearedFacts ==
    ASSUME sym \in [Symbols -> SymRecord], NEW s \in Symbols
    PROVE  IsCleared(Resolve!ClearSymbols(sym)[s]) /\ Resolve!ClearSymbols(sym)[s].used = sym[s].used
<1>. DEFINE c == [sym[s] EXCEPT !.weakRef = FALSE, !.strongRef = FALSE]
            x == Resolve!ClearSymbols(sym)[s]
<1>0. SUFFICES IsCleared(x) /\ x.used = sym[s].used
  OBVIOUS
<1>1. x = IF c.file # Resolve!NoFile \/ c.common
          THEN [c EXCEPT !.file = Resolve!NoFile, !.common = FALSE, !.size = 0, !.pext = FALSE]
          ELSE c
  BY DEF Resolve!ClearSymbols
<1>2. c \in SymRecord /\ ~c.weakRef /\ ~c.strongRef /\ c.used = sym[s].used
  BY DEF SymRecord
<1>. HIDE DEF c, x
<1>3. CASE c.file # Resolve!NoFile \/ c.common
  <2>1. x = [c EXCEPT !.file = Resolve!NoFile, !.common = FALSE, !.size = 0, !.pext = FALSE]
    BY <1>1, <1>3
  <2>. QED  BY <1>2, <2>1 DEF SymRecord, IsCleared
<1>4. CASE ~(c.file # Resolve!NoFile \/ c.common)
  BY <1>1, <1>2, <1>4 DEF IsCleared
<1>. QED  BY <1>3, <1>4

\* What a round over the objects S with the dylibs ranked rk, which have the
\* names, finds in place.
IsReady(S, rk, names) ==
    /\ \E family \in InputLinks : link \in family
    /\ prio \in [Resolve!File -> Nat]
    /\ \A f, g \in Resolve!Loaded : prio[f] = prio[g] => f = g
    /\ S \subseteq Resolve!Objs /\ Resolve!Objs \cap reach \subseteq S
    /\ IsRanking(rk)
    /\ names \in [DylibFiles -> SUBSET Symbols]
    /\ \A d \in DylibFiles : \A t \in names[d] : link.export[d][t] # "none"
    /\ \A o \in Resolve!Objs, t \in Symbols : Resolve!Def(o, t) # "none" => t \in interned
    /\ Resolve!CommandLineSymbols \subseteq interned
    /\ sym \in [Symbols -> SymRecord]
    /\ \A t \in Symbols : sym[t].used => t \in interned

\* What it makes of a symbol.
AskedBy(S, s) ==
    Resolve!WeakUse(S, s) /\ (~Resolve!StrongUse(S, s) \/ link.weakWins)
IsPassed(c, S, rk, names, s) ==
    /\ c \in SymRecord
    /\ c.used <=> Resolve!Used(S, s)
    /\ c.file \in ObjFiles =>
          c.file \in Offering(S, s) /\ (Resolve!Def(c.file, s) \in Real \/ c.file \notin reach)
    /\ (\E o \in S \cap reach : Resolve!Def(o, s) \in Real) /\ NoneDropped(S \cap reach, s) =>
          c.file \in S \cap reach /\ ~c.common
    /\ c.common /\ S \subseteq reach =>
          /\ \A o \in Resolve!LiveCommons(s) : Resolve!CommonSize(Resolve!Def(o, s)) <= c.size
          /\ \E o \in Resolve!LiveCommons(s) : Resolve!CommonSize(Resolve!Def(o, s)) = c.size
          /\ c.pext <=> \E o \in Resolve!LiveCommons(s) : o \in link.hidden
    /\ AskedBy(S, s) => c.weakRef
    /\ c.weakRef => AskedBy(S, s) \/ c.file \in link.weakLib
    /\ c.file \in link.weakLib => c.weakRef
    /\ c.used /\ c.file = Resolve!NoFile =>
          Taken(s) \/ \A d \in DOMAIN rk.ranks : s \notin names[d]
    /\ Offering(S, s) # {} /\ NoneDropped(S, s) =>
          /\ c.file # Resolve!NoFile \/ c.common
          /\ \/ c.file \in ObjFiles
             \/ Resolve!LiveCommons(s) # {}
             \/ \E d \in DOMAIN rk.ranks : s \in names[d]

\* What a whole round makes of a symbol.
LEMMA PassFacts ==
    ASSUME NEW S, NEW rk, NEW names, IsReady(S, rk, names), NEW s \in Symbols
    PROVE  IsPassed(Resolve!ResolveSymbolsPass(Resolve!ClearSymbols(sym), S, rk, names)[s], S, rk, names, s)
<1>. DEFINE c == Resolve!ClearSymbols(sym)[s]
            x == Resolve!ResolveSymbolsPass(Resolve!ClearSymbols(sym), S, rk, names)[s]
<1>0. SUFFICES IsPassed(x, S, rk, names, s)
  OBVIOUS
<1>1. /\ \E family \in InputLinks : link \in family
      /\ prio \in [Resolve!File -> Nat]
      /\ \A f, g \in Resolve!Loaded : prio[f] = prio[g] => f = g
      /\ S \in SUBSET Resolve!Objs /\ Resolve!Objs \cap reach \subseteq S
      /\ IsRanking(rk) /\ names \in [DylibFiles -> SUBSET Symbols]
      /\ \A d \in DylibFiles : \A t \in names[d] : link.export[d][t] # "none"
  BY DEF IsReady
<1>2. IsCleared(c) /\ c.used = sym[s].used
  BY ClearedFacts DEF IsReady
<1>3. /\ c \in SymRecord /\ c.file = Resolve!NoFile /\ ~c.common /\ ~c.weakRef /\ ~c.strongRef
      /\ Resolve!NoFile \notin ObjFiles /\ Resolve!NoFile \notin link.weakLib
      /\ link.weakLib \subseteq DylibFiles /\ ObjFiles \cap DylibFiles = {}
      /\ S \subseteq ObjFiles
  <2>1. S \subseteq ObjFiles
    BY <1>1 DEF Resolve!Objs
  <2>. HIDE DEF c
  <2>. QED  BY <1>1, <1>2, <2>1, ResolveLinkFacts DEF IsCleared, Resolve!File
<1>4. CASE s \notin interned
  <2>1. x = c
    BY <1>4 DEF Resolve!ResolveSymbolsPass
  <2>2. \A o \in Resolve!Objs : Resolve!Def(o, s) = "none"
    BY <1>4 DEF IsReady
  <2>3. s \notin Resolve!CommandLineSymbols /\ ~sym[s].used
    BY <1>4 DEF IsReady
  <2>4. \A K : "none" \notin K => ~Resolve!Refers(S, s, K)
    BY <1>1, <2>2 DEF Resolve!Refers
  <2>5. "none" \notin Resolve!UndefKind /\ "none" \notin Real /\ "none" \notin Tentative
    BY DEF Resolve!UndefKind, Real, Tentative, Resolve!CommonKind, Resolve!RealKind, Resolve!WeakKind
  <2>6. ~Resolve!Used(S, s) /\ ~Resolve!WeakUse(S, s)
    BY <2>3, <2>4, <2>5 DEF Resolve!Used, Resolve!WeakUse
  <2>7. Offering(S, s) = {} /\ ~\E o \in S \cap reach : Resolve!Def(o, s) \in Real
    BY <1>1, <2>2, <2>5 DEF Offering
  <2>. HIDE DEF c
  <2>. QED  BY <1>2, <1>3, <2>1, <2>3, <2>6, <2>7 DEF IsPassed, AskedBy
<1>5. CASE s \in interned
  <2>. DEFINE race == Resolve!Race(S, s)
              best == Resolve!Best(race, s)
              used == Resolve!Used(S, s)
              c1 == IF race = Resolve!NoBest THEN c ELSE Resolve!ClaimDefinition(c, race.obj, s)
              c2 == IF best[1] = 4 THEN Resolve!MergeCommon(c1, s) ELSE c1
              c3 == Resolve!RecordReferences(c2, S, s)
              c4 == Resolve!ClaimDylibExport(c3, rk, names, used, best, s)
  <2>1. x = [c4 EXCEPT !.used = used]
    BY <1>5 DEF Resolve!ResolveSymbolsPass
  <2>. HIDE DEF c
  <2>2. IsClaim(c2, best, S, s)
    BY <1>1, <1>2, ClaimFacts
  <2>. HIDE DEF c2, best, used
  <2>3. /\ c3 \in SymRecord /\ c3.file = c2.file /\ c3.common = c2.common /\ c3.size = c2.size
        /\ c3.pext = c2.pext
        /\ c3.weakRef <=> AskedBy(S, s)
    <3>1. c2 \in SymRecord /\ ~c2.weakRef /\ ~c2.strongRef
      BY <2>2, Zenon DEF IsClaim
    <3>2. \E family \in InputLinks : link \in family
      BY <1>1
    <3>. QED  BY <3>1, <3>2, RecordFacts DEF AskedBy
  <2>4. used \in BOOLEAN /\ best \in Ranks
    BY <2>2 DEF IsClaim, used, Resolve!Used, Resolve!Refers
  <2>. HIDE DEF c3
  <2>5. \/ c4 = c3 /\ Kept(best, rk, names, used, s)
        \/ Imported(c4, c3, best, rk, names, used, s)
    BY <1>1, <2>3, <2>4, ImportFacts
  <2>. HIDE DEF c4
  <2>6. c4 \in SymRecord
    BY <2>3, <2>5 DEF Imported
  <2>7. /\ x \in SymRecord /\ x.used = used /\ x.file = c4.file /\ x.common = c4.common
        /\ x.size = c4.size /\ x.pext = c4.pext /\ x.weakRef = c4.weakRef
    BY <2>1, <2>4, <2>6 DEF SymRecord
  <2>8. best[1] \in Nat
    BY <2>4 DEF Ranks
  <2>. DEFINE LC == Resolve!LiveCommons(s)
  <2>9. \/ NoClaim(c2, best, S, s)
        \/ CommonClaim(c2, best, S, s)
        \/ LazyCommonClaim(c2, best, S, s)
        \/ RealClaim(c2, best, S, s)
    BY <2>2 DEF IsClaim
  <2>10. \A o \in LC : o \in Offering(S, s)
    BY <1>1 DEF Resolve!LiveCommons, Offering, Tentative
  <2>11. CASE c4 = c3 /\ Kept(best, rk, names, used, s)
    <3>1. /\ x.file = c2.file /\ x.common = c2.common /\ x.size = c2.size /\ x.pext = c2.pext
          /\ x.weakRef <=> AskedBy(S, s)
          /\ x \in SymRecord
          /\ x.used <=> Resolve!Used(S, s)
      BY <2>3, <2>7, <2>11 DEF used
    <3>2. CASE NoClaim(c2, best, S, s)
      <4>1. x.used => Taken(s) \/ \A d \in DOMAIN rk.ranks : s \notin names[d]
        BY <2>7, <2>11, <3>2 DEF Kept, NoClaim
      <4>. QED  BY <1>3, <3>1, <3>2, <4>1 DEF IsPassed, NoClaim
    <3>3. CASE CommonClaim(c2, best, S, s)
      <4>1. x.used => Taken(s) \/ \A d \in DOMAIN rk.ranks : s \notin names[d]
        BY <2>7, <2>11, <3>3 DEF Kept, CommonClaim
      <4>. QED  BY <1>3, <3>1, <3>3, <4>1 DEF IsPassed, CommonClaim
    <3>4. CASE LazyCommonClaim(c2, best, S, s)
      <4>1. x.file \in ObjFiles /\ x.file # Resolve!NoFile /\ x.file \notin link.weakLib /\ x.file \notin reach
        BY <1>3, <3>1, <3>4 DEF LazyCommonClaim, Offering
      <4>2. ~(S \subseteq reach)
        BY <3>1, <3>4, <4>1 DEF LazyCommonClaim, Offering
      <4>. QED  BY <3>1, <3>4, <4>1, <4>2 DEF IsPassed, LazyCommonClaim
    <3>5. CASE RealClaim(c2, best, S, s)
      <4>1. x.file \in ObjFiles /\ x.file # Resolve!NoFile /\ x.file \notin link.weakLib /\ x.file \in S
        BY <1>3, <3>1, <3>5 DEF RealClaim, Offering
      <4>. QED  BY <3>1, <3>5, <4>1 DEF IsPassed, RealClaim
    <3>. QED  BY <2>9, <3>2, <3>3, <3>4, <3>5
  <2>12. CASE Imported(c4, c3, best, rk, names, used, s)
    <3>1. /\ x \in SymRecord
          /\ x.used <=> Resolve!Used(S, s)
          /\ x.file \in DylibFiles /\ x.file \notin ObjFiles /\ x.file # Resolve!NoFile /\ ~x.common
          /\ x.weakRef <=> AskedBy(S, s) \/ x.file \in link.weakLib
          /\ best[1] >= 2 /\ \E d \in DOMAIN rk.ranks : s \in names[d]
      <4>1. Resolve!NoFile \notin DylibFiles
        BY <1>1, ResolveLinkFacts
      <4>. QED  BY <1>3, <2>3, <2>7, <2>12, <4>1 DEF Imported, used
    <3>2. NoneDropped(S \cap reach, s) => ~\E o \in S \cap reach : Resolve!Def(o, s) \in Real
      BY <2>9, <3>1 DEF NoClaim, CommonClaim, LazyCommonClaim, RealClaim
    <3>. QED  BY <3>1, <3>2 DEF IsPassed
  <2>. QED  BY <2>5, <2>11, <2>12 
<1>. QED  BY <1>4, <1>5

-----------------------------------------------------------------------------
(***************************************************************************)
(* The steps of resolve_symbols.                                           *)
(***************************************************************************)

\* What a dylib is found to have once all names of the table are looked up.
LEMMA CollectFacts ==
    ASSUME NamesInv, FilesInv, dsyms' = [d \in DylibFiles |-> Resolve!CollectDylibSymbols(d)],
           seen' = Resolve!SeenNow
    PROVE  /\ dsyms' \in [DylibFiles -> SUBSET Symbols]
           /\ \A d \in DylibFiles : \A s \in dsyms'[d] : link.export[d][s] # "none"
           /\ \A d \in DylibFiles : seen'[d] # Resolve!Unseen =>
                 \A s \in Symbols \cap seen'[d] : link.export[d][s] # "none" => s \in dsyms'[d]
           /\ \A d \in DylibFiles : dsyms[d] \subseteq dsyms'[d]
           /\ \A d \in Resolve!Dylibs : \A s \in interned : link.export[d][s] # "none" => s \in dsyms'[d]
<1>1. /\ interned \subseteq Symbols
      /\ dsyms \in [DylibFiles -> SUBSET Symbols]
      /\ \A d \in DylibFiles : \A s \in dsyms[d] : link.export[d][s] # "none"
      /\ \A d \in DylibFiles : seen[d] # Resolve!Unseen =>
            \A s \in Symbols \cap seen[d] : link.export[d][s] # "none" => s \in dsyms[d]
  BY DEF NamesInv
<1>2. ASSUME NEW d \in DylibFiles
      PROVE  /\ dsyms'[d] \subseteq Symbols /\ dsyms[d] \subseteq dsyms'[d]
             /\ \A s \in dsyms'[d] : link.export[d][s] # "none"
             /\ d \in Resolve!Dylibs =>
                   /\ seen'[d] = interned
                   /\ \A s \in interned : link.export[d][s] # "none" => s \in dsyms'[d]
             /\ d \notin Resolve!Dylibs => seen'[d] = seen[d] /\ dsyms'[d] = dsyms[d]
  <2>1. dsyms'[d] = Resolve!CollectDylibSymbols(d) /\ seen'[d] = IF d \in Resolve!Dylibs THEN interned ELSE seen[d]
    BY DEF Resolve!SeenNow
  <2>2. CASE d \notin Resolve!Dylibs
    <3>1. dsyms'[d] = dsyms[d]
      BY <2>1, <2>2 DEF Resolve!CollectDylibSymbols
    <3>. QED  BY <1>1, <2>1, <2>2, <3>1
  <2>3. CASE d \in Resolve!Dylibs
    <3>. DEFINE more == IF seen[d] = Resolve!Unseen THEN interned ELSE interned \ seen[d]
    <3>1. dsyms'[d] = dsyms[d] \cup {s \in more : link.export[d][s] # "none"}
      BY <2>1, <2>3 DEF Resolve!CollectDylibSymbols
    <3>2. more \subseteq interned /\ \A s \in interned \ more : seen[d] # Resolve!Unseen /\ s \in seen[d]
      OBVIOUS
    <3>. HIDE DEF more
    <3>. QED  BY <1>1, <2>1, <2>3, <3>1, <3>2
  <2>. QED  BY <2>2, <2>3
<1>3. dsyms' \in [DylibFiles -> SUBSET Symbols]
  <2>. DEFINE D(d) == Resolve!CollectDylibSymbols(d)
  <2>1. dsyms' = [d \in DylibFiles |-> D(d)]
    OBVIOUS
  <2>. HIDE DEF D
  <2>. QED  BY <1>2, <2>1
<1>4. Resolve!Dylibs \subseteq DylibFiles
  BY DEF Resolve!Dylibs
<1>. QED  BY <1>1, <1>2, <1>3, <1>4

\* A ranking made afresh ranks every dylib of the link.
LEMMA NewRankingFacts ==
    ASSUME FilesInv
    PROVE  IsRanking(Resolve!NewRanking) /\ DOMAIN Resolve!NewRanking.ranks = Resolve!Dylibs
<1>. DEFINE rk == Resolve!NewRanking
<1>1. rk.ranks = Resolve!DylibRanks /\ rk.providers = Resolve!MergedProviders
  BY DEF Resolve!NewRanking
<1>2. DOMAIN rk.ranks = Resolve!Dylibs /\ DOMAIN rk.providers = Resolve!Dylibs
  BY <1>1 DEF Resolve!DylibRanks, Resolve!MergedProviders
<1>3. ASSUME NEW d \in Resolve!Dylibs
      PROVE  /\ rk.ranks[d] \in {<<2, 0, prio[d]>>, <<2, 2, prio[d]>>}
             /\ rk.providers[d] \subseteq Resolve!Dylibs
  <2>1. rk.ranks[d] \in {<<2, 0, prio[d]>>, <<2, 2, prio[d]>>}
    BY <1>1 DEF Resolve!DylibRanks
  <2>2. rk.providers[d] \subseteq Resolve!Dylibs
    BY <1>1 DEF Resolve!MergedProviders
  <2>. QED  BY <2>1, <2>2
<1>. HIDE DEF rk
<1>. QED  BY <1>2, <1>3 DEF IsRanking, rk

\* What the loaded objects say stays while no file is loaded or retired.
LEMMA SameFiles ==
    ASSUME link' = link, prio' = prio, retired' = retired
    PROVE  /\ Resolve!Loaded' = Resolve!Loaded /\ Resolve!Objs' = Resolve!Objs
           /\ Resolve!Dylibs' = Resolve!Dylibs
           /\ Resolve!CommandLineSymbols' = Resolve!CommandLineSymbols
           /\ \A o, s : Resolve!Def(o, s)' = Resolve!Def(o, s)
           /\ \A S, s : (Offering(S, s) = Offering(S, s)' /\ NoneDropped(S, s) = NoneDropped(S, s)')
<1>1. /\ Resolve!Loaded' = Resolve!Loaded /\ Resolve!CommandLineSymbols' = Resolve!CommandLineSymbols
      /\ \A o, s : Resolve!Def(o, s)' = Resolve!Def(o, s)
  BY DEF Resolve!Loaded, Resolve!CommandLineSymbols, Resolve!Def, Resolve!File
<1>. QED  BY <1>1 DEF Resolve!Objs, Resolve!Dylibs, Offering, NoneDropped, Real, Tentative, Resolve!CommonKind, Resolve!RealKind, Resolve!WeakKind

\* What is found live for a reason still has one when more files are loaded.
LEMMA NeededStays ==
    ASSUME Resolve!LiveIsNeeded, link' = link, Resolve!Objs \subseteq Resolve!Objs',
           forced \subseteq forced', \A o \in reach' \ reach : o \in Resolve!Given',
           reach \subseteq Resolve!Objs
    PROVE  Resolve!LiveIsNeeded'
<1>1. ASSUME NEW T \in SUBSET Resolve!Objs', Resolve!Given' \subseteq T, Resolve!WantsNoOther(T)'
      PROVE  reach' \subseteq T
  <2>1. Resolve!Given \subseteq T \cap Resolve!Objs
    BY <1>1 DEF Resolve!Given
  <2>2. Resolve!WantsNoOther(T \cap Resolve!Objs)
    BY <1>1 DEF Resolve!WantsNoOther, Resolve!RealKind, Resolve!CommonKind, Resolve!UndefKind
  <2>3. T \cap Resolve!Objs \in SUBSET Resolve!Objs
    OBVIOUS
  <2>4. reach \subseteq T \cap Resolve!Objs
    BY <2>1, <2>2, <2>3 DEF Resolve!LiveIsNeeded
  <2>. QED  BY <1>1, <2>4
<1>. QED  BY <1>1 DEF Resolve!LiveIsNeeded

\* What the steps that leave the parts of the invariant alone keep of them.
LEMMA FilesStay ==
    ASSUME FilesInv, UNCHANGED <<link, prio, counter, visited, forced, possible, retired>>,
           reach' \subseteq Resolve!Objs, queue' \subseteq reach', fresh' \subseteq Resolve!Dylibs,
           Resolve!LiveIsNeeded'
    PROVE  FilesInv'
<1>1. /\ Resolve!Loaded' = Resolve!Loaded /\ Resolve!Objs' = Resolve!Objs
      /\ Resolve!Dylibs' = Resolve!Dylibs
  BY SameFiles
<1>. QED  BY <1>1 DEF FilesInv, Resolve!File, Resolve!Naming

LEMMA NamesStay ==
    ASSUME NamesInv, UNCHANGED <<link, prio, retired, interned, dsyms, seen>>,
           sym' \in [Symbols -> SymRecord], \A s \in Symbols : sym'[s].used => s \in interned,
           pc # "start"
    PROVE  NamesInv'
<1>1. /\ Resolve!Objs' = Resolve!Objs /\ Resolve!CommandLineSymbols' = Resolve!CommandLineSymbols
      /\ \A o, s : Resolve!Def(o, s)' = Resolve!Def(o, s)
  BY SameFiles
<1>. QED  BY <1>1 DEF NamesInv, SymRecord, Resolve!File, Resolve!NoFile, Resolve!Unseen

LEMMA RankingStays ==
    ASSUME RankingInv, UNCHANGED <<link, prio, ranking, fresh>>, pc \notin {"start", "round"},
           pc' \in {"roots", "walk"} => pc \in {"roots", "walk"},
           pc' \in {"final", "new"} => pc \in {"final", "new"}
    PROVE  RankingInv'
<1>1. Resolve!Loaded' = Resolve!Loaded
  BY DEF Resolve!Loaded, Resolve!File
<1>2. Resolve!Dylibs' = Resolve!Dylibs
  BY <1>1 DEF Resolve!Dylibs
<1>3. Ranked' = Ranked /\ IsRanking(ranking)' = IsRanking(ranking)
  BY <1>2 DEF Ranked, IsRanking
<1>. QED  BY <1>2, <1>3 DEF RankingInv

LEMMA RoundStays ==
    ASSUME RoundInv, UNCHANGED <<link, prio, retired, ranking, dsyms, sym>>,
           reach \subseteq reach', pc \in {"roots", "walk", "final"}
    PROVE  RoundInv'
<1>1. /\ Resolve!Objs' = Resolve!Objs
      /\ \A o, s : Resolve!Def(o, s)' = Resolve!Def(o, s)
      /\ \A S, s : (Offering(S, s) = Offering(S, s)' /\ NoneDropped(S, s) = NoneDropped(S, s)')
  BY SameFiles
<1>2. \A s \in Symbols : Resolve!LiveCommons(s) \subseteq Resolve!LiveCommons(s)'
  BY <1>1 DEF Resolve!LiveCommons, Resolve!CommonKind
<1>3. Ranked' = Ranked
  BY DEF Ranked
<1>. QED  BY <1>1, <1>2, <1>3 DEF RoundInv

\* What is settled, and what is left undefined, does not change with pc.
LEMMA SymbolsStay ==
    ASSUME UNCHANGED <<link, prio, retired, reach>>, NEW s \in Symbols
    PROVE  /\ StrongUse(s)' = StrongUse(s) /\ WeakUse(s)' = WeakUse(s)
           /\ Asked(s)' = Asked(s) /\ Taken(s)' = Taken(s)
           /\ Resolve!LiveCommons(s)' = Resolve!LiveCommons(s)
           /\ Resolve!Wanted(s)' = Resolve!Wanted(s)
           /\ sym'[s] = sym[s] => Settled(s)' = Settled(s) /\ Undefined(s)' = Undefined(s)
<1>1. /\ Resolve!Objs' = Resolve!Objs
      /\ \A o, t : Resolve!Def(o, t)' = Resolve!Def(o, t)
      /\ \A S, t : (Offering(S, t) = Offering(S, t)' /\ NoneDropped(S, t) = NoneDropped(S, t)')
  BY SameFiles
<1>2. /\ StrongUse(s)' = StrongUse(s) /\ WeakUse(s)' = WeakUse(s)
      /\ Resolve!LiveCommons(s)' = Resolve!LiveCommons(s)
      /\ Resolve!Wanted(s)' = Resolve!Wanted(s)
  BY <1>1 DEF StrongUse, WeakUse, Resolve!LiveCommons, Resolve!Wanted, Resolve!UndefKind, Resolve!CommonKind
<1>3. Asked(s)' = Asked(s) /\ Taken(s)' = Taken(s)
  BY <1>2 DEF Asked, Taken
<1>4. ASSUME sym'[s] = sym[s]
      PROVE  Settled(s)' = Settled(s) /\ Undefined(s)' = Undefined(s)
  BY <1>1, <1>2, <1>3, <1>4 DEF Settled, Undefined, Resolve!CommonSize, Real, Resolve!RealKind, Resolve!WeakKind, Resolve!NoFile
<1>. QED  BY <1>2, <1>3, <1>4

\* Every step keeps the invariant.
LEMMA ResolveStutterKeeps ==
    ASSUME ResolveInv, UNCHANGED Resolve!vars
    PROVE  ResolveInv'
<1>1. UNCHANGED <<link, prio, counter, visited, forced, possible, retired, reach, queue, sym,
                  interned, dsyms, seen, ranking, fresh, pc>>
  BY DEF Resolve!vars, Resolve!fileVars, Resolve!ltoVars
<1>2. Resolve!LiveIsNeeded'
  <2>1. Resolve!Objs' = Resolve!Objs
    BY <1>1, SameFiles
  <2>. QED  BY <1>1, <2>1, NeededStays DEF ResolveInv, FilesInv
<1>3. FilesInv'
  BY <1>1, <1>2, FilesStay DEF ResolveInv, FilesInv
<1>4. NamesInv'
  <2>1. /\ Resolve!Objs' = Resolve!Objs /\ Resolve!CommandLineSymbols' = Resolve!CommandLineSymbols
        /\ \A o, s : Resolve!Def(o, s)' = Resolve!Def(o, s)
    BY <1>1, SameFiles
  <2>. QED  BY <1>1, <2>1 DEF ResolveInv, NamesInv, SymRecord, Resolve!File, Resolve!NoFile, Resolve!Unseen
<1>5. RankingInv'
  <2>1. CASE pc \notin {"start", "round"}
    BY <1>1, <2>1, RankingStays DEF ResolveInv
  <2>. QED  BY <1>1, <2>1 DEF RankingInv
<1>6. RoundInv'
  <2>1. CASE pc \in {"roots", "walk", "final"}
    BY <1>1, <2>1, RoundStays DEF ResolveInv
  <2>. QED  BY <1>1, <2>1 DEF RoundInv
<1>7. WalkInv'
  <2>1. \A o : Resolve!Wants(o)' = Resolve!Wants(o)
    BY <1>1 DEF Resolve!Wants, Resolve!Def, Resolve!UndefKind, Resolve!CommonKind
  <2>2. \A S : OwnersLive(S)' = OwnersLive(S)
    BY <1>1 DEF OwnersLive
  <2>. QED  BY <1>1, <2>1, <2>2 DEF ResolveInv, WalkInv
<1>8. FinalInv'
  <2>1. \A s \in Symbols : /\ Settled(s)' = Settled(s) /\ Undefined(s)' = Undefined(s)
                           /\ Resolve!Wanted(s)' = Resolve!Wanted(s) /\ Taken(s)' = Taken(s)
    BY <1>1, SymbolsStay
  <2>2. /\ Resolve!Objs' = Resolve!Objs /\ Resolve!Dylibs' = Resolve!Dylibs
        /\ \A S, s : (Offering(S, s) = Offering(S, s)' /\ NoneDropped(S, s) = NoneDropped(S, s)')
    BY <1>1, SameFiles
  <2>3. Ranked' = Ranked
    BY <1>1 DEF Ranked
  <2>. QED  BY <1>1, <2>1, <2>2, <2>3 DEF ResolveInv, FinalInv, Resolve!NoFile
<1>. QED  BY <1>3, <1>4, <1>5, <1>6, <1>7, <1>8 DEF ResolveInv

LEMMA InternKeeps ==
    ASSUME ResolveInv, Resolve!InternCommandLineSymbols
    PROVE  ResolveInv'
<1>1. /\ UNCHANGED <<link, prio, counter, visited, forced, possible, retired, reach, queue, sym,
                     dsyms, seen, ranking, fresh>>
      /\ pc = "start" /\ pc' = "round" /\ interned' = interned \cup Resolve!CommandLineSymbols
  BY DEF Resolve!InternCommandLineSymbols, Resolve!fileVars, Resolve!ltoVars
<1>2. /\ Resolve!Objs' = Resolve!Objs /\ Resolve!CommandLineSymbols' = Resolve!CommandLineSymbols
      /\ \A o, s : Resolve!Def(o, s)' = Resolve!Def(o, s)
  BY <1>1, SameFiles
<1>3. FilesInv'
  <2>1. Resolve!LiveIsNeeded'
    BY <1>1, <1>2, NeededStays DEF ResolveInv, FilesInv
  <2>. QED  BY <1>1, <2>1, FilesStay DEF ResolveInv, FilesInv
<1>4. NamesInv'
  <2>1. Resolve!CommandLineSymbols \subseteq Symbols
    BY ResolveLinkFacts DEF Resolve!CommandLineSymbols, ResolveInv, FilesInv
  <2>. QED  BY <1>1, <1>2, <2>1 DEF ResolveInv, NamesInv, SymRecord, Resolve!File, Resolve!NoFile, Resolve!Unseen
<1>5. RankingInv' /\ RoundInv' /\ WalkInv' /\ FinalInv'
  BY <1>1 DEF RankingInv, RoundInv, WalkInv, FinalInv, ResolveInv
<1>. QED  BY <1>3, <1>4, <1>5 DEF ResolveInv

LEMMA RoundKeeps ==
    ASSUME ResolveInv, Resolve!Round
    PROVE  ResolveInv'
<1>1. /\ UNCHANGED <<link, prio, counter, visited, forced, possible, retired, reach, queue, interned, fresh>>
      /\ pc = "round" /\ pc' = "roots" /\ ranking' = Resolve!NewRanking
      /\ dsyms' = [d \in DylibFiles |-> Resolve!CollectDylibSymbols(d)]
      /\ seen' = Resolve!SeenNow
      /\ sym' = Resolve!ResolveSymbolsPass(Resolve!ClearSymbols(sym), Resolve!Objs, ranking', dsyms')
  BY DEF Resolve!Round, Resolve!fileVars, Resolve!ltoVars
<1>2. /\ Resolve!Objs' = Resolve!Objs /\ Resolve!CommandLineSymbols' = Resolve!CommandLineSymbols
      /\ Resolve!Dylibs' = Resolve!Dylibs
      /\ \A o, s : Resolve!Def(o, s)' = Resolve!Def(o, s)
      /\ \A S, s : (Offering(S, s) = Offering(S, s)' /\ NoneDropped(S, s) = NoneDropped(S, s)')
  BY <1>1, SameFiles
<1>3. FilesInv'
  <2>1. Resolve!LiveIsNeeded'
    BY <1>1, <1>2, NeededStays DEF ResolveInv, FilesInv
  <2>. QED  BY <1>1, <2>1, FilesStay DEF ResolveInv, FilesInv
<1>4. /\ dsyms' \in [DylibFiles -> SUBSET Symbols]
      /\ \A d \in DylibFiles : \A s \in dsyms'[d] : link.export[d][s] # "none"
      /\ \A d \in DylibFiles : seen'[d] # Resolve!Unseen =>
            \A s \in Symbols \cap seen'[d] : link.export[d][s] # "none" => s \in dsyms'[d]
  BY <1>1, CollectFacts DEF ResolveInv
<1>5. IsRanking(ranking') /\ DOMAIN ranking'.ranks = Resolve!Dylibs
  BY <1>1, NewRankingFacts DEF ResolveInv
<1>6. IsReady(Resolve!Objs, ranking', dsyms')
  BY <1>1, <1>4, <1>5 DEF IsReady, ResolveInv, FilesInv, NamesInv
<1>7. \A s \in Symbols : IsPassed(sym'[s], Resolve!Objs, ranking', dsyms', s)
  BY <1>1, <1>6, PassFacts
<1>8. NamesInv'
  <2>1. sym' \in [Symbols -> SymRecord]
    <3>1. sym' = [s \in Symbols |-> sym'[s]]
      BY <1>1 DEF Resolve!ResolveSymbolsPass
    <3>. QED  BY <1>7, <3>1 DEF IsPassed
  <2>2. \A s \in Symbols : sym'[s].used => s \in interned
    <3>1. \A o \in Resolve!Objs, t \in Symbols : Resolve!Def(o, t) # "none" => t \in interned
      BY DEF ResolveInv, NamesInv
    <3>2. Resolve!CommandLineSymbols \subseteq interned
      BY <1>1 DEF ResolveInv, NamesInv
    <3>3. "none" \notin Resolve!UndefKind
      BY DEF Resolve!UndefKind, Resolve!CommonKind
    <3>4. \A s \in Symbols : Resolve!Used(Resolve!Objs, s) => s \in interned
      BY <3>1, <3>2, <3>3 DEF Resolve!Used, Resolve!Refers
    <3>. QED  BY <1>7, <3>4 DEF IsPassed
  <2>. QED  BY <1>1, <1>2, <1>4, <2>1, <2>2 DEF ResolveInv, NamesInv, SymRecord, Resolve!File, Resolve!NoFile, Resolve!Unseen
<1>9. RankingInv'
  <2>1. IsRanking(ranking)'
    BY <1>1, <1>2, <1>5 DEF IsRanking
  <2>2. link.weakLib \subseteq Resolve!Dylibs
    BY ResolveLinkFacts DEF ResolveInv, FilesInv, Resolve!Dylibs
  <2>. QED  BY <1>1, <1>2, <1>5, <2>1, <2>2 DEF RankingInv, Ranked
<1>10. RoundInv'
  <2>. SUFFICES ASSUME NEW s \in Symbols
                PROVE  /\ sym'[s].file \in ObjFiles => sym'[s].file \in Offering(Resolve!Objs, s)
                       /\ Offering(Resolve!Objs, s) # {} /\ NoneDropped(Resolve!Objs, s) =>
                             \/ sym'[s].file \in ObjFiles
                             \/ Resolve!LiveCommons(s) # {}
                             \/ \E d \in DOMAIN ranking'.ranks : s \in dsyms'[d]
    <3>1. \A s \in Symbols : Resolve!LiveCommons(s)' = Resolve!LiveCommons(s)
      BY <1>1, SymbolsStay
    <3>. QED  BY <1>1, <1>2, <3>1 DEF RoundInv, Ranked
  <2>. QED  BY <1>7 DEF IsPassed
<1>11. WalkInv' /\ FinalInv'
  BY <1>1 DEF WalkInv, FinalInv, ResolveInv
<1>. QED  BY <1>3, <1>8, <1>9, <1>10, <1>11 DEF ResolveInv

\* The walk only makes alive what is needed: an owner is an object that
\* defines what the command line or a live object wants.
LEMMA OwnersAreNeeded ==
    ASSUME ResolveInv, pc \in {"roots", "walk"}, NEW X \in SUBSET Symbols,
           X \subseteq link.roots \/ \E o \in reach : X \subseteq Resolve!Wants(o),
           UNCHANGED <<link, prio, forced>>, reach' = reach \cup Resolve!LazyOwners(X)
    PROVE  /\ Resolve!LazyOwners(X) \subseteq Resolve!Objs
           /\ Resolve!LiveIsNeeded'
<1>1. ASSUME NEW m \in Resolve!LazyOwners(X)
      PROVE  \E s \in X : m \in Resolve!Objs /\ link.def[m][s] \in Resolve!RealKind \cup Resolve!CommonKind
  <2>1. PICK s \in X : m = sym[s].file /\ m \in ObjFiles
    BY DEF Resolve!LazyOwners
  <2>2. m \in Resolve!Objs /\ Resolve!Def(m, s) \in Real \cup Tentative
    BY <2>1 DEF ResolveInv, RoundInv, Offering
  <2>3. Resolve!Def(m, s) # "none"
    BY <2>2 DEF Real, Tentative, Resolve!RealKind, Resolve!WeakKind, Resolve!CommonKind
  <2>4. Resolve!Def(m, s) = link.def[m][s]
    BY <2>1, <2>3, DefFacts DEF ResolveInv, FilesInv
  <2>. QED  BY <2>2, <2>4 DEF Real, Tentative
<1>2. Resolve!LazyOwners(X) \subseteq Resolve!Objs
  BY <1>1
<1>3. Resolve!Objs' = Resolve!Objs /\ Resolve!Given' = Resolve!Given
      /\ \A T : Resolve!WantsNoOther(T)' = Resolve!WantsNoOther(T)
  <2>1. Resolve!Objs' = Resolve!Objs
    BY DEF Resolve!Objs, Resolve!Loaded, Resolve!File
  <2>. QED  BY <2>1 DEF Resolve!Given, Resolve!WantsNoOther, Resolve!RealKind, Resolve!CommonKind,
         Resolve!UndefKind, Resolve!WeakKind
<1>4. ASSUME NEW T \in SUBSET Resolve!Objs, Resolve!Given \subseteq T, Resolve!WantsNoOther(T)
      PROVE  reach' \subseteq T
  <2>1. reach \subseteq T
    BY <1>4 DEF ResolveInv, FilesInv, Resolve!LiveIsNeeded
  <2>2. ASSUME NEW m \in Resolve!LazyOwners(X), m \notin T
        PROVE  FALSE
    <3>1. PICK s \in X : m \in Resolve!Objs /\ link.def[m][s] \in Resolve!RealKind \cup Resolve!CommonKind
      BY <1>1
    <3>2. s \notin link.roots /\ \A o \in T : link.def[o][s] \notin Resolve!UndefKind
      BY <1>4, <2>2, <3>1 DEF Resolve!WantsNoOther
    <3>3. PICK o \in reach : X \subseteq Resolve!Wants(o)
      BY <3>2
    <3>4. Resolve!Def(o, s) \in Resolve!UndefKind
      BY <3>3 DEF Resolve!Wants
    <3>5. Resolve!Def(o, s) # "none"
      BY <3>4 DEF Resolve!UndefKind, Resolve!CommonKind
    <3>6. o \in ObjFiles
      BY DEF ResolveInv, FilesInv, Resolve!Objs
    <3>7. Resolve!Def(o, s) = link.def[o][s]
      BY <3>5, <3>6, DefFacts DEF ResolveInv, FilesInv
    <3>. QED  BY <2>1, <3>2, <3>4, <3>7
  <2>. QED  BY <2>1, <2>2
<1>. QED  BY <1>2, <1>3, <1>4 DEF Resolve!LiveIsNeeded

LEMMA MarkRootsKeeps ==
    ASSUME ResolveInv, Resolve!MarkRoots
    PROVE  ResolveInv'
<1>1. /\ UNCHANGED <<link, prio, counter, visited, forced, possible, retired, sym, interned,
                     dsyms, seen, ranking, fresh>>
      /\ pc = "roots" /\ pc' = "walk"
      /\ reach' = reach \cup Resolve!LazyOwners(link.roots) /\ queue' = reach'
  BY DEF Resolve!MarkRoots, Resolve!fileVars, Resolve!ltoVars
<1>2. Resolve!LazyOwners(link.roots) \subseteq Resolve!Objs /\ Resolve!LiveIsNeeded'
  <2>1. link.roots \in SUBSET Symbols
    BY ResolveLinkFacts DEF ResolveInv, FilesInv
  <2>. QED  BY <1>1, <2>1, OwnersAreNeeded
<1>3. FilesInv'
  BY <1>1, <1>2, FilesStay DEF ResolveInv, FilesInv
<1>4. NamesInv'
  BY <1>1, NamesStay DEF ResolveInv, NamesInv
<1>5. RankingInv'
  BY <1>1, RankingStays DEF ResolveInv
<1>6. RoundInv'
  BY <1>1, RoundStays DEF ResolveInv
<1>7. WalkInv'
  <2>1. OwnersLive(link.roots)'
    BY <1>1 DEF OwnersLive, Resolve!LazyOwners
  <2>. QED  BY <1>1, <2>1 DEF WalkInv
<1>8. FinalInv'
  BY <1>1 DEF FinalInv
<1>. QED  BY <1>3, <1>4, <1>5, <1>6, <1>7, <1>8 DEF ResolveInv

LEMMA VisitKeeps ==
    ASSUME ResolveInv, NEW o \in ObjFiles, Resolve!Visit(o)
    PROVE  ResolveInv'
<1>. DEFINE X == Resolve!Wants(o)
            lazy == Resolve!LazyOwners(X)
<1>1. /\ UNCHANGED <<link, prio, counter, visited, forced, possible, retired, sym, interned,
                     dsyms, seen, ranking, fresh>>
      /\ pc = "walk" /\ pc' = "walk" /\ o \in queue
      /\ reach' = reach \cup lazy /\ queue' = (queue \ {o}) \cup lazy
  BY DEF Resolve!Visit, Resolve!fileVars, Resolve!ltoVars
<1>2. lazy \subseteq Resolve!Objs /\ Resolve!LiveIsNeeded'
  <2>1. X \in SUBSET Symbols
    BY DEF Resolve!Wants
  <2>2. o \in reach
    BY <1>1 DEF ResolveInv, FilesInv
  <2>. QED  BY <1>1, <2>1, <2>2, OwnersAreNeeded
<1>. HIDE DEF lazy
<1>3. FilesInv'
  BY <1>1, <1>2, FilesStay DEF ResolveInv, FilesInv
<1>4. NamesInv'
  BY <1>1, NamesStay DEF ResolveInv, NamesInv
<1>5. RankingInv'
  BY <1>1, RankingStays DEF ResolveInv
<1>6. RoundInv'
  BY <1>1, RoundStays DEF ResolveInv
<1>7. WalkInv'
  <2>1. \A m : Resolve!Wants(m)' = Resolve!Wants(m)
    BY <1>1 DEF Resolve!Wants, Resolve!Def, Resolve!UndefKind, Resolve!CommonKind
  <2>2. \A S : OwnersLive(S) => OwnersLive(S)'
    BY <1>1 DEF OwnersLive
  <2>3. OwnersLive(X)'
    BY <1>1, <2>1 DEF OwnersLive, Resolve!LazyOwners, lazy
  <2>4. \A m \in reach' \ queue' : m = o \/ m \in reach \ queue
    BY <1>1
  <2>5. \A m \in reach \ queue : OwnersLive(Resolve!Wants(m))
    BY <1>1 DEF ResolveInv, WalkInv
  <2>6. OwnersLive(link.roots)
    BY <1>1 DEF ResolveInv, WalkInv
  <2>7. \A m \in reach' \ queue' : OwnersLive(Resolve!Wants(m))'
    <3>1. TAKE m \in reach' \ queue'
    <3>2. CASE m = o
      BY <2>3, <3>2
    <3>3. CASE m \in reach \ queue
      BY <2>1, <2>2, <2>5, <3>3
    <3>. QED  BY <2>4, <3>2, <3>3
  <2>8. OwnersLive(link.roots)'
    BY <1>1, <2>2, <2>6
  <2>. QED  BY <1>1, <2>1, <2>7, <2>8 DEF WalkInv
<1>8. FinalInv'
  BY <1>1 DEF FinalInv
<1>. QED  BY <1>3, <1>4, <1>5, <1>6, <1>7, <1>8 DEF ResolveInv

LEMMA IgnoreAutoLinkKeeps ==
    ASSUME ResolveInv, Resolve!IgnoreAutoLink
    PROVE  ResolveInv'
<1>1. /\ UNCHANGED <<link, prio, counter, visited, forced, possible, retired, reach, queue, sym,
                     interned, dsyms, seen, ranking>>
      /\ pc = "walk" /\ pc' = "final" /\ queue = {} /\ fresh' = {}
  BY DEF Resolve!IgnoreAutoLink, Resolve!fileVars, Resolve!ltoVars
<1>2. Resolve!Objs' = Resolve!Objs /\ Resolve!Dylibs' = Resolve!Dylibs
  BY <1>1, SameFiles
<1>3. FilesInv'
  <2>1. Resolve!LiveIsNeeded'
    BY <1>1, <1>2, NeededStays DEF ResolveInv, FilesInv
  <2>. QED  BY <1>1, <2>1, FilesStay DEF ResolveInv, FilesInv
<1>4. NamesInv'
  BY <1>1, NamesStay DEF ResolveInv, NamesInv
<1>5. RankingInv'
  BY <1>1, <1>2 DEF ResolveInv, RankingInv, Ranked, IsRanking
<1>6. RoundInv'
  BY <1>1, RoundStays DEF ResolveInv
<1>7. WalkInv'
  <2>1. \A m : Resolve!Wants(m)' = Resolve!Wants(m)
    BY <1>1 DEF Resolve!Wants, Resolve!Def, Resolve!UndefKind, Resolve!CommonKind
  <2>2. \A S : OwnersLive(S)' = OwnersLive(S)
    BY <1>1 DEF OwnersLive
  <2>. QED  BY <1>1, <2>1, <2>2 DEF ResolveInv, WalkInv
<1>8. FinalInv'
  BY <1>1 DEF FinalInv
<1>. QED  BY <1>3, <1>4, <1>5, <1>6, <1>7, <1>8 DEF ResolveInv

\* If the options bring no object and rebind nothing, the last round stands,
\* but for the dylibs they brought.
LEMMA LoadAutolinkDepsKeeps ==
    ASSUME ResolveInv, Resolve!LoadAutolinkDeps
    PROVE  ResolveInv'
<1>. DEFINE before == [prio |-> prio, counter |-> counter, visited |-> visited,
                       forced |-> forced, new |-> <<>>, alive |-> reach]
            named == Resolve!ReadFiles(link.options, Resolve!Pending, before)
            r == Resolve!ReadFiles(possible, DOMAIN possible, named)
            newDylibs == Resolve!Range(r.new) \cap DylibFiles
            newObjs == Resolve!Range(r.new) \cap ObjFiles
            rebinds == \E d \in newDylibs, o \in Resolve!Dylibs : d \in Resolve!Range(link.merged[o])
<1>1. /\ UNCHANGED <<link, retired, queue, sym, dsyms, seen, ranking>>
      /\ pc = "walk" /\ queue = {} /\ possible' = <<>>
      /\ prio' = r.prio /\ counter' = r.counter /\ visited' = r.visited /\ forced' = r.forced
      /\ reach' = r.alive /\ interned' = interned \cup Resolve!Names(newObjs) /\ fresh' = newDylibs
      /\ pc' = IF newObjs # {} \/ rebinds THEN "round" ELSE "final"
  BY DEF Resolve!LoadAutolinkDeps, Resolve!ltoVars
<1>2. /\ \E family \in InputLinks : link \in family
      /\ prio \in [Resolve!File -> Nat] /\ counter \in Nat
      /\ \A f \in Resolve!Loaded : prio[f] <= counter
      /\ \A f, g \in Resolve!Loaded : prio[f] = prio[g] => f = g
      /\ visited \subseteq Libraries /\ forced \subseteq Libraries
      /\ possible \in Seq(Resolve!Naming) /\ link.options \in Seq(Resolve!Naming)
      /\ link.weakLib \subseteq Resolve!Loaded
      /\ reach \subseteq Resolve!Objs
      /\ ObjFiles \cap DylibFiles = {} /\ Resolve!File = ObjFiles \cup DylibFiles
  BY ResolveLinkFacts DEF ResolveInv, FilesInv
<1>3. before \in Records /\ before \in ReadsFrom(before) /\ LoadedIn(before) = Resolve!Loaded
  <2>1. reach \in SUBSET ObjFiles
    BY <1>2 DEF Resolve!Objs
  <2>2. before \in Records
    <3>1. <<>> \in Seq(Resolve!File)
      OBVIOUS
    <3>. QED  BY <1>2, <2>1, <3>1 DEF Records
  <2>3. LoadedIn(before) = Resolve!Loaded
    BY DEF LoadedIn, Resolve!Loaded, Resolve!NoPrio
  <2>4. Resolve!Range(<<>>) = {}
    BY DEF Resolve!Range
  <2>5. IsReadFrom(before, before)
    <3>1. /\ before.prio = prio /\ before.counter = counter /\ before.visited = visited
          /\ before.forced = forced /\ before.new = <<>> /\ before.alive = reach
      OBVIOUS
    <3>. HIDE DEF before
    <3>. QED  BY <1>2, <2>3, <2>4, <3>1 DEF IsReadFrom
  <2>. HIDE DEF before
  <2>. QED  BY <2>2, <2>3, <2>5 DEF ReadsFrom
<1>4. /\ before.prio = prio /\ before.counter = counter /\ before.visited = visited
      /\ before.forced = forced /\ before.new = <<>> /\ before.alive = reach
  OBVIOUS
<1>5. r \in Records /\ IsReadFrom(r, before)
  <2>. HIDE DEF before
  <2>1. named \in ReadsFrom(before)
    BY <1>2, <1>3, ReadFilesFacts
  <2>. HIDE DEF named
  <2>2. r \in ReadsFrom(before)
    BY <1>2, <1>3, <2>1, ReadFilesFacts
  <2>. QED  BY <2>2 DEF ReadsFrom
<1>. HIDE DEF r, before, rebinds
<1>6. /\ Resolve!Loaded' = LoadedIn(r)
      /\ LoadedIn(r) = Resolve!Loaded \cup Resolve!Range(r.new)
      /\ Resolve!Range(r.new) \subseteq Resolve!File
  <2>1. r.new \in Seq(Resolve!File)
    BY <1>5 DEF Records
  <2>2. Resolve!Range(r.new) \subseteq Resolve!File
    BY <2>1 DEF Resolve!Range
  <2>. QED  BY <1>1, <1>3, <1>5, <2>2 DEF IsReadFrom, LoadedIn, Resolve!Loaded, Resolve!NoPrio, Resolve!File
<1>7. /\ Resolve!Objs' = Resolve!Objs \cup newObjs
      /\ Resolve!Dylibs' = Resolve!Dylibs \cup newDylibs
  BY <1>6 DEF Resolve!Objs, Resolve!Dylibs
<1>8. FilesInv'
  <2>1. /\ prio' \in [Resolve!File -> Nat] /\ counter' \in Nat
        /\ visited' \subseteq Libraries /\ forced' \subseteq Libraries /\ reach' \subseteq ObjFiles
    BY <1>1, <1>5 DEF Records
  <2>2. /\ \A f \in Resolve!Loaded' : prio'[f] <= counter'
        /\ \A f, g \in Resolve!Loaded' : prio'[f] = prio'[g] => f = g
    BY <1>1, <1>5, <1>6 DEF IsReadFrom
  <2>3. reach' \subseteq reach \cup newObjs /\ reach \subseteq reach' /\ forced \subseteq forced'
    BY <1>1, <1>4, <1>5, <2>1 DEF IsReadFrom
  <2>4. \A o \in reach' \ reach : o \in link.live \/ \E n \in forced' : o \in Resolve!Range(link.files[n])
    BY <1>1, <1>4, <1>5 DEF IsReadFrom
  <2>5. reach' \subseteq Resolve!Objs'
    BY <1>2, <1>7, <2>3
  <2>6. Resolve!LiveIsNeeded'
    <3>1. \A o \in reach' \ reach : o \in Resolve!Given'
      BY <1>1, <2>4, <2>5 DEF Resolve!Given, Resolve!Range
    <3>. QED  BY <1>1, <1>2, <1>7, <2>3, <3>1, NeededStays DEF ResolveInv, FilesInv
  <2>7. possible' \in Seq(Resolve!Naming)
    BY <1>1
  <2>. QED  BY <1>1, <1>2, <1>6, <1>7, <2>1, <2>2, <2>5, <2>6, <2>7 DEF FilesInv, Resolve!File, Resolve!Naming
<1>9. NamesInv'
  <2>1. \A o, s : Resolve!Def(o, s)' = Resolve!Def(o, s)
    BY <1>1 DEF Resolve!Def
  <2>2. interned' \subseteq Symbols /\ interned \subseteq interned'
    BY <1>1 DEF ResolveInv, NamesInv, Resolve!Names
  <2>3. \A o \in Resolve!Objs', s \in Symbols : Resolve!Def(o, s) # "none" => s \in interned'
    BY <1>1, <1>7 DEF ResolveInv, NamesInv, Resolve!Names
  <2>4. pc' # "start" /\ Resolve!CommandLineSymbols' = Resolve!CommandLineSymbols
    BY <1>1 DEF Resolve!CommandLineSymbols
  <2>. QED  BY <1>1, <2>1, <2>2, <2>3, <2>4 DEF ResolveInv, NamesInv, SymRecord, Resolve!File, Resolve!NoFile, Resolve!Unseen
<1>10. CASE pc' = "round"
  <2>1. RankingInv' /\ RoundInv' /\ WalkInv' /\ FinalInv'
    BY <1>1, <1>10 DEF RankingInv, RoundInv, WalkInv, FinalInv
  <2>. QED  BY <1>8, <1>9, <2>1 DEF ResolveInv
<1>11. CASE pc' # "round"
  <2>1. pc' = "final" /\ newObjs = {}
    BY <1>1, <1>11
  <2>2. Resolve!Objs' = Resolve!Objs /\ reach' = reach
    <3>1. reach \subseteq reach' /\ reach' \subseteq reach \cup newObjs
      BY <1>1, <1>4, <1>5 DEF IsReadFrom, Records
    <3>. QED  BY <1>7, <2>1, <3>1
  <2>3. /\ \A o, s : Resolve!Def(o, s)' = Resolve!Def(o, s)
    BY <1>1 DEF Resolve!Def
  <2>4. RankingInv'
    <3>1. \A d \in Resolve!Dylibs : prio'[d] = prio[d] /\ d \in Resolve!Dylibs'
      BY <1>1, <1>3, <1>4, <1>5, <1>7 DEF IsReadFrom, Resolve!Dylibs
    <3>2. IsRanking(ranking) /\ link.weakLib \subseteq Ranked /\ Resolve!Dylibs \subseteq Ranked
      BY <1>1 DEF ResolveInv, RankingInv
    <3>3. IsRanking(ranking)' /\ Ranked' = Ranked
      BY <1>1, <3>1, <3>2 DEF IsRanking, Ranked
    <3>. QED  BY <1>1, <1>7, <2>1, <3>2, <3>3 DEF RankingInv
  <2>5. RoundInv'
    <3>1. \A S, s : (Offering(S, s) = Offering(S, s)' /\ NoneDropped(S, s) = NoneDropped(S, s)')
      BY <2>3 DEF Offering, NoneDropped, Real, Tentative, Resolve!CommonKind, Resolve!RealKind, Resolve!WeakKind
    <3>2. \A s \in Symbols : Resolve!LiveCommons(s)' = Resolve!LiveCommons(s)
      BY <2>2, <2>3 DEF Resolve!LiveCommons, Resolve!CommonKind
    <3>3. Ranked' = Ranked
      BY <1>1 DEF Ranked
    <3>. QED  BY <1>1, <2>2, <3>1, <3>2, <3>3 DEF ResolveInv, RoundInv
  <2>6. WalkInv'
    <3>1. \A m : Resolve!Wants(m)' = Resolve!Wants(m)
      BY <1>1 DEF Resolve!Wants, Resolve!Def, Resolve!UndefKind, Resolve!CommonKind
    <3>2. \A S : OwnersLive(S)' = OwnersLive(S)
      BY <1>1, <2>2 DEF OwnersLive
    <3>. QED  BY <1>1, <2>1, <2>2, <3>1, <3>2 DEF ResolveInv, WalkInv
  <2>7. FinalInv'
    BY <2>1 DEF FinalInv
  <2>. QED  BY <1>8, <1>9, <2>4, <2>5, <2>6, <2>7 DEF ResolveInv
<1>. QED  BY <1>10, <1>11

\* The last round over the live objects settles what it claims.
LEMMA FinalRoundSettles ==
    ASSUME ResolveInv, Resolve!FinalRound, NEW s \in Symbols,
           IsPassed(sym'[s], Resolve!Objs \cap reach, ranking, dsyms', s)
    PROVE  /\ Settled(s)'
           /\ Resolve!Wanted(s) => sym'[s].used
           /\ sym'[s].used /\ sym'[s].file = Resolve!NoFile =>
                 Taken(s) \/ \A d \in Ranked : s \notin dsyms'[d]
           /\ Resolve!Wanted(s) /\ Undefined(s)' /\ NoneDropped(Resolve!Objs, s) =>
                 Offering(Resolve!Objs, s) = {}
<1>. DEFINE S == Resolve!Objs \cap reach
            x == sym'[s]
<1>1. /\ UNCHANGED <<link, prio, retired, reach>> /\ pc = "final"
      /\ dsyms' = [d \in DylibFiles |-> Resolve!CollectDylibSymbols(d)]
      /\ seen' = Resolve!SeenNow
  BY DEF Resolve!FinalRound, Resolve!fileVars, Resolve!ltoVars
<1>2. S = reach /\ reach \subseteq ObjFiles /\ S \cap reach = S /\ S \subseteq reach
  BY DEF ResolveInv, FilesInv, Resolve!Objs
<1>3. /\ ObjFiles \cap DylibFiles = {} /\ Resolve!NoFile \notin ObjFiles
      /\ link.weakLib \subseteq DylibFiles /\ link.roots \subseteq Symbols
  BY ResolveLinkFacts DEF ResolveInv, FilesInv
<1>4. /\ StrongUse(s)' = StrongUse(s) /\ Asked(s)' = Asked(s) /\ Taken(s)' = Taken(s)
      /\ Resolve!LiveCommons(s)' = Resolve!LiveCommons(s)
  BY <1>1, SymbolsStay
<1>5. AskedBy(S, s) <=> Asked(s)
  BY <1>2 DEF AskedBy, Asked, WeakUse, StrongUse, Resolve!WeakUse, Resolve!StrongUse, Resolve!Refers
<1>6. Resolve!Wanted(s) => Resolve!Used(S, s)
  BY <1>2 DEF Resolve!Wanted, Resolve!Used, Resolve!Refers, Resolve!CommandLineSymbols
<1>7. IsPassed(x, S, ranking, dsyms', s)
  OBVIOUS
<1>. HIDE DEF x, S
<1>8. /\ \A o, t : Resolve!Def(o, t)' = Resolve!Def(o, t)
      /\ \A T, t : (NoneDropped(T, t) = NoneDropped(T, t)')
  BY <1>1, SameFiles
<1>9. Settled(s)'
  <2>1. x.file \in ObjFiles => x.file \in reach /\ Resolve!Def(x.file, s) \in Real
    BY <1>2, <1>7 DEF IsPassed, Offering
  <2>2. (\E o \in reach : Resolve!Def(o, s) \in Real) /\ NoneDropped(reach, s) => x.file \in reach /\ ~x.common
    BY <1>2, <1>7 DEF IsPassed
  <2>3. x.common =>
          /\ \A o \in Resolve!LiveCommons(s) : Resolve!CommonSize(Resolve!Def(o, s)) <= x.size
          /\ \E o \in Resolve!LiveCommons(s) : Resolve!CommonSize(Resolve!Def(o, s)) = x.size
          /\ x.pext <=> \E o \in Resolve!LiveCommons(s) : o \in link.hidden
    BY <1>2, <1>7 DEF IsPassed
  <2>4. /\ Asked(s) => x.weakRef
        /\ x.weakRef => Asked(s) \/ x.file \in link.weakLib
        /\ x.file \in link.weakLib => x.weakRef
    BY <1>5, <1>7 DEF IsPassed
  <2>. QED  BY <1>1, <1>4, <1>8, <2>1, <2>2, <2>3, <2>4 DEF Settled, Real, Resolve!RealKind,
         Resolve!WeakKind, Resolve!CommonSize, x
<1>10. Resolve!Wanted(s) => x.used
  BY <1>6, <1>7 DEF IsPassed
<1>11. x.used /\ x.file = Resolve!NoFile => Taken(s) \/ \A d \in Ranked : s \notin dsyms'[d]
  BY <1>7 DEF IsPassed, Ranked
<1>12. ASSUME Resolve!Wanted(s), x.file = Resolve!NoFile, ~x.common, NoneDropped(Resolve!Objs, s),
              Offering(Resolve!Objs, s) # {}
       PROVE  FALSE
  <2>1. NoneDropped(S, s)
    BY <1>12 DEF NoneDropped, S
  <2>2. Offering(S, s) = {}
    BY <1>7, <1>12, <2>1 DEF IsPassed
  <2>3. Resolve!LiveCommons(s) = {} /\ ~Taken(s)
    BY <2>2 DEF Resolve!LiveCommons, Offering, Tentative, S, Taken
  <2>4. \A d \in Ranked : s \notin dsyms'[d]
    BY <1>10, <1>11, <1>12, <2>3
  <2>5. \A d \in Ranked : s \notin dsyms[d]
    <3>1. Ranked \subseteq DylibFiles
      BY <1>1 DEF ResolveInv, RankingInv, IsRanking, Ranked, Resolve!Dylibs
    <3>2. \A d \in DylibFiles : dsyms[d] \subseteq dsyms'[d]
      BY <1>1, CollectFacts DEF ResolveInv
    <3>. QED  BY <2>4, <3>1, <3>2
  <2>6. sym[s].file \in ObjFiles /\ sym[s].file \in Offering(Resolve!Objs, s)
    BY <1>1, <1>12, <2>3, <2>5 DEF ResolveInv, RoundInv
  <2>7. sym[s].file \in reach
    <3>1. CASE s \in link.roots
      BY <1>1, <2>6, <3>1 DEF ResolveInv, WalkInv, OwnersLive
    <3>2. CASE s \notin link.roots
      <4>1. PICK o \in reach : Resolve!Def(o, s) \in Resolve!UndefKind
        BY <1>12, <3>2 DEF Resolve!Wanted
      <4>2. Resolve!Def(o, s) \notin Resolve!CommonKind
        BY <1>2, <2>2, <4>1 DEF Offering, Tentative
      <4>3. s \in Resolve!Wants(o)
        BY <4>1, <4>2 DEF Resolve!Wants
      <4>. QED  BY <1>1, <2>6, <4>3 DEF ResolveInv, WalkInv, OwnersLive
    <3>. QED  BY <3>1, <3>2
  <2>8. sym[s].file \in Offering(S, s)
    BY <1>2, <2>6, <2>7 DEF Offering
  <2>. QED  BY <2>2, <2>8
<1>. QED  BY <1>9, <1>10, <1>11, <1>12 DEF Undefined, x, Resolve!NoFile

LEMMA FinalRoundKeeps ==
    ASSUME ResolveInv, Resolve!FinalRound
    PROVE  ResolveInv'
<1>. DEFINE S == Resolve!Objs \cap reach
<1>1. /\ UNCHANGED <<link, prio, counter, visited, forced, possible, retired, reach, queue, interned,
                     ranking, fresh>>
      /\ pc = "final" /\ pc' = (IF fresh # {} THEN "new" ELSE "resolved")
      /\ dsyms' = [d \in DylibFiles |-> Resolve!CollectDylibSymbols(d)]
      /\ seen' = Resolve!SeenNow
      /\ sym' = Resolve!ResolveSymbolsPass(Resolve!ClearSymbols(sym), S, ranking, dsyms')
  BY DEF Resolve!FinalRound, Resolve!fileVars, Resolve!ltoVars
<1>2. /\ Resolve!Objs' = Resolve!Objs /\ Resolve!CommandLineSymbols' = Resolve!CommandLineSymbols
      /\ Resolve!Dylibs' = Resolve!Dylibs
      /\ \A o, s : Resolve!Def(o, s)' = Resolve!Def(o, s)
      /\ \A T, s : (Offering(T, s) = Offering(T, s)' /\ NoneDropped(T, s) = NoneDropped(T, s)')
  BY <1>1, SameFiles
<1>3. FilesInv'
  <2>1. Resolve!LiveIsNeeded'
    BY <1>1, <1>2, NeededStays DEF ResolveInv, FilesInv
  <2>. QED  BY <1>1, <2>1, FilesStay DEF ResolveInv, FilesInv
<1>4. /\ dsyms' \in [DylibFiles -> SUBSET Symbols]
      /\ \A d \in DylibFiles : \A s \in dsyms'[d] : link.export[d][s] # "none"
      /\ \A d \in DylibFiles : seen'[d] # Resolve!Unseen =>
            \A s \in Symbols \cap seen'[d] : link.export[d][s] # "none" => s \in dsyms'[d]
      /\ \A d \in Resolve!Dylibs : \A s \in interned : link.export[d][s] # "none" => s \in dsyms'[d]
  BY <1>1, CollectFacts DEF ResolveInv
<1>5. IsRanking(ranking) /\ Ranked \subseteq Resolve!Dylibs /\ Resolve!Dylibs \subseteq Ranked \cup fresh
  BY <1>1 DEF ResolveInv, RankingInv, IsRanking, Ranked
<1>6. IsReady(S, ranking, dsyms')
  BY <1>1, <1>4, <1>5 DEF IsReady, ResolveInv, FilesInv, NamesInv
<1>7. \A s \in Symbols : IsPassed(sym'[s], S, ranking, dsyms', s)
  BY <1>1, <1>6, PassFacts
<1>8. /\ sym' \in [Symbols -> SymRecord]
      /\ \A s \in Symbols : sym'[s].used => s \in interned
  <2>1. sym' \in [Symbols -> SymRecord]
    <3>1. sym' = [s \in Symbols |-> sym'[s]]
      BY <1>1 DEF Resolve!ResolveSymbolsPass
    <3>. QED  BY <1>7, <3>1 DEF IsPassed
  <2>2. \A s \in Symbols : sym'[s].used => s \in interned
    <3>1. \A o \in Resolve!Objs, t \in Symbols : Resolve!Def(o, t) # "none" => t \in interned
      BY DEF ResolveInv, NamesInv
    <3>2. Resolve!CommandLineSymbols \subseteq interned
      BY <1>1 DEF ResolveInv, NamesInv
    <3>3. "none" \notin Resolve!UndefKind
      BY DEF Resolve!UndefKind, Resolve!CommonKind
    <3>4. \A s \in Symbols : Resolve!Used(S, s) => s \in interned
      BY <3>1, <3>2, <3>3 DEF Resolve!Used, Resolve!Refers
    <3>. QED  BY <1>7, <3>4 DEF IsPassed
  <2>. QED  BY <2>1, <2>2
<1>9. NamesInv'
  BY <1>1, <1>2, <1>4, <1>8 DEF ResolveInv, NamesInv, SymRecord, Resolve!File, Resolve!NoFile, Resolve!Unseen
<1>10. RankingInv'
  BY <1>1, RankingStays DEF ResolveInv
<1>11. RoundInv' /\ WalkInv'
  BY <1>1 DEF ResolveInv, RoundInv, WalkInv
<1>12. FinalInv'
  <2>1. ASSUME NEW s \in Symbols
        PROVE  /\ Settled(s)'
               /\ Resolve!Wanted(s) => sym'[s].used
               /\ sym'[s].used /\ sym'[s].file = Resolve!NoFile =>
                     Taken(s) \/ \A d \in Ranked : link.export[d][s] = "none"
               /\ Resolve!Wanted(s) /\ Undefined(s)' /\ NoneDropped(Resolve!Objs, s) =>
                     /\ Offering(Resolve!Objs, s) = {}
                     /\ \A d \in Ranked : link.export[d][s] = "none"
    <3>1. /\ Settled(s)'
          /\ Resolve!Wanted(s) => sym'[s].used
          /\ sym'[s].used /\ sym'[s].file = Resolve!NoFile =>
                Taken(s) \/ \A d \in Ranked : s \notin dsyms'[d]
          /\ Resolve!Wanted(s) /\ Undefined(s)' /\ NoneDropped(Resolve!Objs, s) =>
                Offering(Resolve!Objs, s) = {}
      BY <1>7, FinalRoundSettles
    <3>2. sym'[s].used => \A d \in Ranked : s \notin dsyms'[d] => link.export[d][s] = "none"
      BY <1>4, <1>5, <1>8
    <3>3. Offering(Resolve!Objs, s) = {} => ~Taken(s)
      BY DEF Taken, Resolve!LiveCommons, Offering, Tentative
    <3>4. Undefined(s)' => sym'[s].file = Resolve!NoFile
      BY DEF Undefined, Resolve!NoFile
    <3>. QED  BY <3>1, <3>2, <3>3, <3>4
  <2>2. \A s \in Symbols : Resolve!Wanted(s)' = Resolve!Wanted(s) /\ Taken(s)' = Taken(s)
    BY <1>1, SymbolsStay
  <2>3. Ranked' = Ranked
    BY <1>1 DEF Ranked
  <2>4. pc' = "resolved" => Resolve!Dylibs \subseteq Ranked
    BY <1>1, <1>5
  <2>5. pc' # "done" /\ pc' \in {"new", "resolved"}
    BY <1>1
  <2>. QED  BY <1>1, <1>2, <2>1, <2>2, <2>3, <2>4, <2>5 DEF FinalInv, Resolve!NoFile
<1>. QED  BY <1>3, <1>9, <1>10, <1>11, <1>12 DEF ResolveInv

LEMMA ClaimNewDylibsKeeps ==
    ASSUME ResolveInv, Resolve!ClaimNewDylibs
    PROVE  ResolveInv'
<1>. DEFINE D(s) == Resolve!FirstExporter(dsyms', Resolve!DylibRanks, fresh, s)
            P(s) == Resolve!ProvidingDylib(Resolve!MergedProviders, D(s), s)
            Claims(s) == D(s) # Resolve!NoFile /\ sym[s].used /\ sym[s].file = Resolve!NoFile
<1>1. /\ UNCHANGED <<link, prio, counter, visited, forced, possible, retired, reach, queue, interned,
                     ranking, fresh>>
      /\ pc = "new" /\ pc' = "resolved"
      /\ dsyms' = [d \in DylibFiles |-> Resolve!CollectDylibSymbols(d)]
      /\ seen' = Resolve!SeenNow
      /\ sym' = [s \in Symbols |-> IF ~Claims(s) THEN sym[s] ELSE Resolve!ImportFromDylib(sym[s], P(s))]
  BY DEF Resolve!ClaimNewDylibs, Resolve!fileVars, Resolve!ltoVars
<1>2. /\ Resolve!Objs' = Resolve!Objs /\ Resolve!CommandLineSymbols' = Resolve!CommandLineSymbols
      /\ Resolve!Dylibs' = Resolve!Dylibs
      /\ \A o, s : Resolve!Def(o, s)' = Resolve!Def(o, s)
      /\ \A T, s : (Offering(T, s) = Offering(T, s)' /\ NoneDropped(T, s) = NoneDropped(T, s)')
  BY <1>1, SameFiles
<1>3. FilesInv'
  <2>1. Resolve!LiveIsNeeded'
    BY <1>1, <1>2, NeededStays DEF ResolveInv, FilesInv
  <2>. QED  BY <1>1, <2>1, FilesStay DEF ResolveInv, FilesInv
<1>4. /\ dsyms' \in [DylibFiles -> SUBSET Symbols]
      /\ \A d \in DylibFiles : \A s \in dsyms'[d] : link.export[d][s] # "none"
      /\ \A d \in DylibFiles : seen'[d] # Resolve!Unseen =>
            \A s \in Symbols \cap seen'[d] : link.export[d][s] # "none" => s \in dsyms'[d]
      /\ \A d \in Resolve!Dylibs : \A s \in interned : link.export[d][s] # "none" => s \in dsyms'[d]
  BY <1>1, CollectFacts DEF ResolveInv
<1>5. /\ fresh \subseteq Resolve!Dylibs /\ Resolve!Dylibs \subseteq DylibFiles
      /\ Resolve!Dylibs \subseteq Ranked \cup fresh /\ link.weakLib \subseteq Ranked
      /\ \E family \in InputLinks : link \in family
      /\ Resolve!NoFile \notin DylibFiles /\ Resolve!NoFile \notin ObjFiles
      /\ ObjFiles \cap DylibFiles = {} /\ link.weakLib \subseteq DylibFiles
      /\ Resolve!File = ObjFiles \cup DylibFiles
      /\ reach \subseteq ObjFiles
  BY <1>1, ResolveLinkFacts DEF ResolveInv, FilesInv, RankingInv, Resolve!Dylibs, Resolve!Objs
<1>6. ASSUME NEW s \in Symbols
      PROVE  /\ D(s) # Resolve!NoFile => /\ P(s) \in Resolve!Dylibs /\ link.export[P(s)][s] # "none"
             /\ D(s) = Resolve!NoFile => \A d \in fresh : s \notin dsyms'[d]
  <2>1. IsRanking(Resolve!NewRanking) /\ DOMAIN Resolve!NewRanking.ranks = Resolve!Dylibs
    BY NewRankingFacts DEF ResolveInv
  <2>2. Resolve!NewRanking.ranks = Resolve!DylibRanks /\ Resolve!NewRanking.providers = Resolve!MergedProviders
    BY DEF Resolve!NewRanking
  <2>3. /\ prio \in [Resolve!File -> Nat]
        /\ \A f, g \in Resolve!Loaded : prio[f] = prio[g] => f = g
    BY DEF ResolveInv, FilesInv
  <2>4. /\ \A d \in Resolve!Dylibs : /\ Resolve!DylibRanks[d] \in Ranks
                                     /\ Resolve!MergedProviders[d] \subseteq Resolve!Dylibs
        /\ \A d, e \in Resolve!Dylibs : Resolve!DylibRanks[d][3] = Resolve!DylibRanks[e][3] => d = e
    BY <1>5, <2>1, <2>2, <2>3, RankingFacts
  <2>5. fresh \in SUBSET DylibFiles /\ Resolve!Dylibs \in SUBSET DylibFiles
    BY <1>5
  <2>6. /\ (\E d \in fresh : s \in dsyms'[d]) => D(s) \in fresh /\ s \in dsyms'[D(s)]
        /\ ~(\E d \in fresh : s \in dsyms'[d]) => D(s) = Resolve!NoFile
    BY <1>4, <1>5, <2>4, <2>5, FirstExporterFacts
  <2>. HIDE DEF D
  <2>7. D(s) # Resolve!NoFile => D(s) \in Resolve!Dylibs /\ link.export[D(s)][s] # "none"
    BY <1>4, <1>5, <2>6
  <2>8. D(s) # Resolve!NoFile => P(s) \in Resolve!Dylibs /\ link.export[P(s)][s] # "none"
    BY <1>5, <2>4, <2>5, <2>7, ProvidingDylibFacts
  <2>9. D(s) = Resolve!NoFile => \A d \in fresh : s \notin dsyms'[d]
    BY <1>5, <2>6
  <2>. QED  BY <2>8, <2>9
<1>7. sym \in [Symbols -> SymRecord] /\ \A s \in Symbols : sym[s].used => s \in interned
  BY DEF ResolveInv, NamesInv
<1>. HIDE DEF D, P
<1>8. ASSUME NEW s \in Symbols
      PROVE  /\ ~Claims(s) => sym'[s] = sym[s]
             /\ Claims(s) => /\ sym'[s].file = P(s) /\ ~sym'[s].common
                             /\ sym'[s].weakRef = sym[s].weakRef /\ sym'[s].used = sym[s].used
             /\ sym'[s] \in SymRecord
  <2>1. CASE ~Claims(s)
    BY <1>1, <1>7, <2>1
  <2>2. CASE Claims(s)
    <3>1. sym'[s] = [sym[s] EXCEPT !.file = P(s), !.common = FALSE]
      BY <1>1, <2>2 DEF Resolve!ImportFromDylib
    <3>2. P(s) \in Resolve!File /\ sym[s] \in SymRecord
      BY <1>5, <1>6, <1>7, <2>2
    <3>. HIDE DEF Claims
    <3>. QED  BY <2>2, <3>1, <3>2 DEF SymRecord
  <2>. QED  BY <2>1, <2>2
<1>9. NamesInv'
  <2>1. sym' \in [Symbols -> SymRecord]
    <3>1. sym' = [s \in Symbols |-> sym'[s]]
      BY <1>1
    <3>. QED  BY <1>8, <3>1
  <2>2. \A s \in Symbols : sym'[s].used => s \in interned
    BY <1>7, <1>8
  <2>. QED  BY <1>1, <1>2, <1>4, <2>1, <2>2 DEF ResolveInv, NamesInv, SymRecord, Resolve!File, Resolve!NoFile, Resolve!Unseen
<1>10. RankingInv'
  BY <1>1, RankingStays DEF ResolveInv
<1>11. RoundInv' /\ WalkInv'
  BY <1>1 DEF ResolveInv, RoundInv, WalkInv
<1>12. ASSUME NEW s \in Symbols
       PROVE  /\ Settled(s)
              /\ Resolve!Wanted(s) /\ Undefined(s) /\ NoneDropped(Resolve!Objs, s) =>
                    Offering(Resolve!Objs, s) = {}
              /\ Resolve!Wanted(s) => sym[s].used
              /\ sym[s].used /\ sym[s].file = Resolve!NoFile =>
                    Taken(s) \/ \A d \in Ranked : link.export[d][s] = "none"
  BY <1>1 DEF ResolveInv, FinalInv
<1>13. ASSUME NEW s \in Symbols
       PROVE  /\ Settled(s)'
              /\ Resolve!Wanted(s) /\ Undefined(s)' /\ NoneDropped(Resolve!Objs, s) =>
                    /\ Offering(Resolve!Objs, s) = {}
                    /\ \A d \in Resolve!Dylibs : link.export[d][s] = "none"
  <2>1. /\ Asked(s)' = Asked(s) /\ Taken(s)' = Taken(s)
        /\ sym'[s] = sym[s] => Settled(s)' = Settled(s) /\ Undefined(s)' = Undefined(s)
    BY <1>1, SymbolsStay
  <2>2. CASE Claims(s)
    <3>1. /\ sym'[s].file \in DylibFiles /\ sym'[s].file \notin ObjFiles /\ sym'[s].file # Resolve!NoFile
          /\ ~sym'[s].common /\ sym'[s].weakRef = sym[s].weakRef
          /\ link.export[sym'[s].file][s] # "none"
      BY <1>5, <1>6, <1>8, <2>2
    <3>2. ~((\E o \in reach : Resolve!Def(o, s) \in Real) /\ NoneDropped(reach, s))
      BY <1>5, <1>12, <2>2 DEF Settled
    <3>3. /\ Asked(s) => sym'[s].weakRef
          /\ sym'[s].weakRef => Asked(s)
      <4>1. Resolve!NoFile \notin link.weakLib
        BY <1>5
      <4>. QED  BY <1>12, <2>2, <3>1, <4>1 DEF Settled
    <3>4. sym'[s].file \in link.weakLib => Taken(s)
      BY <1>5, <1>12, <2>2, <3>1
    <3>5. Settled(s)'
      BY <1>1, <1>2, <2>1, <3>1, <3>2, <3>3, <3>4 DEF Settled, Real, Resolve!RealKind, Resolve!WeakKind, Resolve!CommonSize
    <3>6. ~Undefined(s)'
      BY <3>1 DEF Undefined, Resolve!NoFile
    <3>. QED  BY <3>5, <3>6
  <2>3. CASE ~Claims(s)
    <3>1. sym'[s] = sym[s]
      BY <1>8, <2>3
    <3>2. ASSUME Resolve!Wanted(s), Undefined(s), NoneDropped(Resolve!Objs, s), NEW d \in Resolve!Dylibs
          PROVE  link.export[d][s] = "none"
      <4>1. /\ sym[s].used /\ sym[s].file = Resolve!NoFile /\ Offering(Resolve!Objs, s) = {}
        BY <1>12, <3>2 DEF Undefined
      <4>2. ~Taken(s)
        BY <4>1 DEF Taken, Resolve!LiveCommons, Offering, Tentative
      <4>3. CASE d \in Ranked
        BY <1>12, <4>1, <4>2, <4>3
      <4>4. CASE d \in fresh
        <5>1. s \notin dsyms'[d]
          BY <1>6, <2>3, <4>1, <4>4
        <5>. QED  BY <1>4, <1>7, <4>1, <5>1
      <4>. QED  BY <1>5, <4>3, <4>4
    <3>. QED  BY <1>12, <2>1, <3>1, <3>2
  <2>. QED  BY <2>2, <2>3
<1>14. FinalInv'
  <2>1. \A s \in Symbols : Resolve!Wanted(s)' = Resolve!Wanted(s)
    BY <1>1, SymbolsStay
  <2>. QED  BY <1>1, <1>2, <1>13, <2>1 DEF FinalInv
<1>. QED  BY <1>3, <1>9, <1>10, <1>11, <1>14 DEF ResolveInv

\* The objects LTO compiles join with priorities of their own.
LEMMA DoLtoKeeps ==
    ASSUME ResolveInv, Resolve!DoLto
    PROVE  ResolveInv'
<1>. DEFINE old == link.bitcode \cap Resolve!Objs
            out == link.ltoOut
            place == [f \in Resolve!Range(out) |-> CHOOSE i \in DOMAIN out : out[i] = f]
<1>1. /\ UNCHANGED <<link, visited, forced, possible, queue, dsyms, seen, ranking, fresh>>
      /\ pc = "resolved" /\ pc' = "start"
      /\ retired' = retired \cup old
      /\ reach' = (reach \ old) \cup Resolve!Range(out)
      /\ sym' = [s \in Symbols |-> IF sym[s].file \in old
                                   THEN [sym[s] EXCEPT !.file = Resolve!NoFile, !.size = 0]
                                   ELSE sym[s]]
      /\ prio' = [f \in Resolve!File |-> prio'[f]]
      /\ \A f \in Resolve!File : prio'[f] = IF f \in Resolve!Range(out) THEN counter + place[f] ELSE prio[f]
      /\ counter' = counter + Len(out)
      /\ interned' = interned \cup {s \in Symbols : \E o \in Resolve!Range(out) : Resolve!Def(o, s) # "none"}
  <2>. DEFINE first(f) == CHOOSE i \in DOMAIN out : out[i] = f
  <2>1. /\ UNCHANGED <<link, visited, forced, possible, queue, dsyms, seen, ranking, fresh>>
        /\ pc = "resolved" /\ pc' = "start"
        /\ retired' = retired \cup old
        /\ reach' = (reach \ old) \cup Resolve!Range(out)
        /\ counter' = counter + Len(out)
        /\ interned' = interned \cup {s \in Symbols : \E o \in Resolve!Range(out) : Resolve!Def(o, s) # "none"}
    BY DEF Resolve!DoLto
  <2>2. /\ sym' = [s \in Symbols |-> IF sym[s].file \in old
                                     THEN [sym[s] EXCEPT !.file = Resolve!NoFile, !.size = 0]
                                     ELSE sym[s]]
        /\ prio' = [f \in Resolve!File |-> IF f \in Resolve!Range(out)
                                           THEN counter + first(f)
                                           ELSE prio[f]]
    BY DEF Resolve!DoLto
  <2>3. \A f \in Resolve!Range(out) : place[f] = first(f)
    OBVIOUS
  <2>. HIDE DEF place, old, out, first
  <2>4. /\ prio' = [f \in Resolve!File |-> prio'[f]]
        /\ \A f \in Resolve!File : prio'[f] = IF f \in Resolve!Range(out) THEN counter + place[f] ELSE prio[f]
    BY <2>2, <2>3
  <2>. QED  BY <2>1, <2>2, <2>4
<1>2. /\ \E family \in InputLinks : link \in family
      /\ out \in Seq(ObjFiles) /\ Len(out) \in Nat /\ DOMAIN out = 1..Len(out)
      /\ prio \in [Resolve!File -> Nat] /\ counter \in Nat
      /\ \A f \in Resolve!Loaded : prio[f] <= counter
      /\ \A f, g \in Resolve!Loaded : prio[f] = prio[g] => f = g
      /\ Resolve!File = ObjFiles \cup DylibFiles /\ ObjFiles \cap DylibFiles = {}
      /\ reach \subseteq Resolve!Objs
  <2>1. link.ltoOut \in Seq(ObjFiles)
    BY ResolveLinkFacts DEF ResolveInv, FilesInv
  <2>. QED  BY <2>1, ResolveLinkFacts DEF ResolveInv, FilesInv
<1>. DEFINE N == Len(out)
<1>3. /\ Resolve!Range(out) \subseteq ObjFiles
      /\ place \in [Resolve!Range(out) -> 1..N]
      /\ \A f \in Resolve!Range(out) : out[place[f]] = f
  <2>1. \A f \in Resolve!Range(out) : \E i \in DOMAIN out : out[i] = f
    BY DEF Resolve!Range
  <2>2. Resolve!Range(out) \subseteq ObjFiles
    BY <1>2 DEF Resolve!Range
  <2>. QED  BY <1>2, <2>1, <2>2
<1>. HIDE DEF place, out, N, old
<1>4. /\ \A f \in Resolve!Range(out) : prio'[f] = counter + place[f] /\ place[f] \in 1..N
      /\ \A f \in Resolve!File \ Resolve!Range(out) : prio'[f] = prio[f]
      /\ N \in Nat /\ counter' = counter + N
  BY <1>1, <1>2, <1>3 DEF N
<1>5. /\ Resolve!Loaded' = Resolve!Loaded \cup Resolve!Range(out)
      /\ prio' \in [Resolve!File -> Nat] /\ counter' \in Nat
  <2>1. prio' \in [Resolve!File -> Nat]
    <3>1. \A f \in Resolve!File : prio'[f] \in Nat
      BY <1>2, <1>4
    <3>2. prio' = [f \in Resolve!File |-> prio'[f]]
      BY <1>1
    <3>. HIDE DEF place
    <3>. QED  BY <3>1, <3>2
  <2>2. \A f \in Resolve!Range(out) : prio'[f] # 0 /\ f \in Resolve!File
    BY <1>2, <1>3, <1>4
  <2>3. Resolve!Loaded' = {f \in Resolve!File : prio'[f] # 0} /\ Resolve!Loaded = {f \in Resolve!File : prio[f] # 0}
    BY DEF Resolve!Loaded, Resolve!NoPrio, Resolve!File
  <2>. QED  BY <1>2, <1>4, <2>1, <2>2, <2>3
<1>6. /\ Resolve!Objs' = Resolve!Objs \cup Resolve!Range(out)
      /\ Resolve!Dylibs' = Resolve!Dylibs
  BY <1>2, <1>3, <1>5 DEF Resolve!Objs, Resolve!Dylibs
<1>7. FilesInv'
  <2>1. \A f \in Resolve!Loaded' : prio'[f] <= counter'
    <3>1. TAKE f \in Resolve!Loaded'
    <3>2. CASE f \in Resolve!Range(out)
      BY <1>2, <1>4, <3>2
    <3>3. CASE f \notin Resolve!Range(out)
      <4>1. f \in Resolve!Loaded /\ f \in Resolve!File
        BY <1>5, <3>3 DEF Resolve!Loaded
      <4>2. prio'[f] = prio[f] /\ prio[f] \in Nat /\ prio[f] <= counter
        BY <1>2, <1>4, <3>3, <4>1
      <4>. QED  BY <1>2, <1>4, <4>2
    <3>. QED  BY <3>2, <3>3
  <2>2. ASSUME NEW f \in Resolve!Loaded', NEW g \in Resolve!Loaded', prio'[f] = prio'[g]
        PROVE  f = g
    <3>1. \A h \in Resolve!Loaded' : h \in Resolve!File /\
             \/ h \in Resolve!Range(out) /\ prio'[h] = counter + place[h] /\ place[h] \in 1..N
             \/ h \in Resolve!Loaded /\ prio'[h] = prio[h] /\ prio[h] \in Nat /\ prio[h] <= counter
      <4>1. TAKE h \in Resolve!Loaded'
      <4>2. CASE h \in Resolve!Range(out)
        BY <1>2, <1>3, <1>4, <4>2
      <4>3. CASE h \notin Resolve!Range(out)
        BY <1>2, <1>4, <1>5, <4>3 DEF Resolve!Loaded
      <4>. QED  BY <4>2, <4>3
    <3>2. CASE f \in Resolve!Range(out) /\ g \in Resolve!Range(out)
      <4>1. place[f] = place[g]
        <5>1. /\ counter + place[f] = counter + place[g] /\ place[f] \in Nat /\ place[g] \in Nat
          BY <1>4, <2>2, <3>2
        <5>2. \A u, v, w \in Nat : u + v = u + w => v = w
          OBVIOUS
        <5>. QED  BY <1>2, <5>1, <5>2
      <4>. QED  BY <1>3, <3>2, <4>1
    <3>3. CASE f \notin Resolve!Range(out) /\ g \notin Resolve!Range(out)
      BY <1>2, <2>2, <3>1, <3>3
    <3>4. CASE f \in Resolve!Range(out) /\ g \notin Resolve!Range(out)
      <4>1. prio'[f] = counter + place[f] /\ place[f] \in 1..N /\ prio'[g] \in Nat /\ prio'[g] <= counter
        BY <1>4, <3>1, <3>4
      <4>. QED  BY <1>2, <1>4, <2>2, <4>1
    <3>5. CASE f \notin Resolve!Range(out) /\ g \in Resolve!Range(out)
      <4>1. prio'[g] = counter + place[g] /\ place[g] \in 1..N /\ prio'[f] \in Nat /\ prio'[f] <= counter
        BY <1>4, <3>1, <3>5
      <4>. QED  BY <1>2, <1>4, <2>2, <4>1
    <3>. QED  BY <3>2, <3>3, <3>4, <3>5
  <2>3. reach' \subseteq Resolve!Objs' /\ queue' \subseteq reach' /\ fresh' \subseteq Resolve!Dylibs'
    BY <1>1, <1>2, <1>6 DEF ResolveInv, FilesInv, WalkInv
  <2>4. Resolve!LiveIsNeeded'
    <3>1. \A o \in reach' \ reach : o \in Resolve!Given'
      <4>1. TAKE o \in reach' \ reach
      <4>2. o \in Resolve!Range(link.ltoOut) /\ o \in Resolve!Objs'
        BY <1>1, <1>6 DEF out
      <4>3. link' = link
        BY <1>1
      <4>4. o \in Resolve!Range(link'.ltoOut)
        BY <4>2, <4>3
      <4>. QED  BY <4>2, <4>4 DEF Resolve!Given
    <3>. QED  BY <1>1, <1>2, <1>6, <3>1, NeededStays DEF ResolveInv, FilesInv
  <2>5. link'.weakLib \subseteq Resolve!Loaded'
    BY <1>1, <1>5 DEF ResolveInv, FilesInv
  <2>. QED  BY <1>1, <1>2, <1>5, <2>1, <2>2, <2>3, <2>4, <2>5 DEF ResolveInv, FilesInv, Resolve!File, Resolve!Naming
<1>8. NamesInv'
  <2>1. \A o, s : Resolve!Def(o, s)' # "none" => Resolve!Def(o, s)' = Resolve!Def(o, s)
    BY <1>1 DEF Resolve!Def
  <2>2. /\ interned' \subseteq Symbols /\ interned \subseteq interned'
        /\ \A o \in Resolve!Objs', s \in Symbols : Resolve!Def(o, s) # "none" => s \in interned'
    BY <1>1, <1>6 DEF ResolveInv, NamesInv
  <2>3. ASSUME NEW s \in Symbols
        PROVE  sym'[s] \in SymRecord /\ sym'[s].used = sym[s].used
    <3>0. sym[s] \in SymRecord
      BY DEF ResolveInv, NamesInv
    <3>1. CASE sym[s].file \in old
      <4>. DEFINE a == sym[s]
                  b == sym'[s]
      <4>1. a \in SymRecord /\ b = [a EXCEPT !.file = Resolve!NoFile, !.size = 0]
        BY <1>1, <3>0, <3>1
      <4>2. b \in SymRecord /\ b.used = a.used
        <5>. HIDE DEF a, b
        <5>. QED  BY <4>1 DEF SymRecord
      <4>. QED  BY <4>2
    <3>2. CASE sym[s].file \notin old
      BY <1>1, <3>0, <3>2
    <3>. QED  BY <3>1, <3>2
  <2>4. sym' \in [Symbols -> SymRecord]
    <3>1. sym' = [s \in Symbols |-> sym'[s]]
      BY <1>1
    <3>. QED  BY <2>3, <3>1
  <2>5. \A s \in Symbols : sym'[s].used => s \in interned'
    BY <2>2, <2>3 DEF ResolveInv, NamesInv
  <2>6. pc' = "start"
    BY <1>1
  <2>. QED  BY <1>1, <2>1, <2>2, <2>4, <2>5, <2>6 DEF ResolveInv, NamesInv, SymRecord, Resolve!File, Resolve!NoFile, Resolve!Unseen
<1>9. RankingInv' /\ RoundInv' /\ WalkInv' /\ FinalInv'
  BY <1>1 DEF RankingInv, RoundInv, WalkInv, FinalInv, ResolveInv
<1>. QED  BY <1>7, <1>8, <1>9 DEF ResolveInv

LEMMA FinishKeeps ==
    ASSUME ResolveInv, Resolve!Finish
    PROVE  ResolveInv'
<1>1. /\ UNCHANGED <<link, prio, counter, visited, forced, possible, retired, reach, queue, sym,
                     interned, dsyms, seen, ranking, fresh>>
      /\ pc = "resolved" /\ pc' = "done"
  BY DEF Resolve!Finish, Resolve!fileVars, Resolve!ltoVars
<1>2. /\ Resolve!Objs' = Resolve!Objs /\ Resolve!Dylibs' = Resolve!Dylibs
      /\ \A S, s : (Offering(S, s) = Offering(S, s)' /\ NoneDropped(S, s) = NoneDropped(S, s)')
  BY <1>1, SameFiles
<1>3. FilesInv'
  <2>1. Resolve!LiveIsNeeded'
    BY <1>1, <1>2, NeededStays DEF ResolveInv, FilesInv
  <2>. QED  BY <1>1, <2>1, FilesStay DEF ResolveInv, FilesInv
<1>4. NamesInv'
  BY <1>1, NamesStay DEF ResolveInv, NamesInv
<1>5. RankingInv'
  BY <1>1, RankingStays DEF ResolveInv
<1>6. RoundInv' /\ WalkInv'
  BY <1>1 DEF ResolveInv, RoundInv, WalkInv
<1>7. FinalInv'
  <2>1. \A s \in Symbols : /\ Settled(s)' = Settled(s) /\ Undefined(s)' = Undefined(s)
                           /\ Resolve!Wanted(s)' = Resolve!Wanted(s)
    BY <1>1, SymbolsStay
  <2>. QED  BY <1>1, <1>2, <2>1 DEF ResolveInv, FinalInv
<1>. QED  BY <1>3, <1>4, <1>5, <1>6, <1>7 DEF ResolveInv

LEMMA ResolveInitInv ==
    ASSUME Resolve!Init
    PROVE  ResolveInv
<1>. DEFINE r0 == [prio |-> [f \in Resolve!File |-> Resolve!NoPrio], counter |-> 0, visited |-> {},
                   forced |-> {}, new |-> <<>>, alive |-> {}]
            r == Resolve!ReadFiles(link.cmdline, DOMAIN link.cmdline, r0)
<1>1. /\ \E family \in InputLinks : link \in family
      /\ retired = {}
      /\ prio = r.prio /\ counter = r.counter /\ visited = r.visited /\ forced = r.forced
      /\ reach = r.alive /\ interned = Resolve!Names(Resolve!Range(r.new) \cap ObjFiles)
      /\ possible = link.possible /\ queue = {} /\ sym = [s \in Symbols |-> Resolve!NoSym]
      /\ dsyms = [d \in DylibFiles |-> {}] /\ seen = [d \in DylibFiles |-> Resolve!Unseen]
      /\ fresh = {} /\ pc = "start"
  BY DEF Resolve!Init
<1>2. r0 \in Records /\ r0 \in ReadsFrom(r0) /\ LoadedIn(r0) = {}
  <2>1. /\ r0.prio = [f \in Resolve!File |-> 0] /\ r0.counter = 0 /\ r0.visited = {}
        /\ r0.forced = {} /\ r0.new = <<>> /\ r0.alive = {}
    BY DEF Resolve!NoPrio
  <2>2. r0 \in Records
    <3>1. <<>> \in Seq(Resolve!File) /\ [f \in Resolve!File |-> 0] \in [Resolve!File -> Nat]
      OBVIOUS
    <3>. QED  BY <2>1, <3>1 DEF Records
  <2>3. LoadedIn(r0) = {}
    BY <2>1 DEF LoadedIn
  <2>4. Resolve!Range(<<>>) = {}
    BY DEF Resolve!Range
  <2>. HIDE DEF r0
  <2>5. IsReadFrom(r0, r0)
    BY <2>1, <2>3, <2>4 DEF IsReadFrom
  <2>. QED  BY <2>2, <2>3, <2>5 DEF ReadsFrom
<1>3. r0.visited = {} /\ r0.alive = {}
  OBVIOUS
<1>. HIDE DEF r0
<1>4. /\ r \in Records /\ IsReadFrom(r, r0)
      /\ \A i \in DOMAIN link.cmdline : link.cmdline[i].lib \in r.visited
  <2>1. link.cmdline \in Seq(Resolve!Naming)
    BY <1>1, ResolveLinkFacts
  <2>. QED  BY <1>1, <1>2, <2>1, ReadFilesFacts DEF ReadsFrom
<1>. HIDE DEF r
<1>5. /\ Resolve!Loaded = LoadedIn(r) /\ LoadedIn(r) = Resolve!Range(r.new)
      /\ Resolve!Objs = Resolve!Range(r.new) \cap ObjFiles
  BY <1>1, <1>2, <1>4 DEF Resolve!Loaded, LoadedIn, Resolve!NoPrio, IsReadFrom, Resolve!Objs
<1>6. FilesInv
  <2>1. link.weakLib \subseteq Resolve!Loaded
    <3>1. link.weakLib \subseteq UNION {Resolve!Range(link.files[n.lib]) : n \in Resolve!Range(link.cmdline)}
      BY <1>1, ResolveLinkFacts
    <3>2. \A n \in Resolve!Range(link.cmdline) : n.lib \in r.visited
      BY <1>4 DEF Resolve!Range
    <3>3. \A n \in Resolve!Range(link.cmdline) : Resolve!Range(link.files[n.lib]) \subseteq Resolve!Loaded
      BY <1>3, <1>4, <1>5, <3>2 DEF IsReadFrom
    <3>. QED  BY <3>1, <3>3
  <2>2. reach \subseteq Resolve!Objs
    BY <1>1, <1>3, <1>4, <1>5 DEF IsReadFrom, Records
  <2>3. Resolve!LiveIsNeeded
    <3>1. reach \subseteq Resolve!Given
      BY <1>1, <1>3, <1>4, <2>2 DEF IsReadFrom, Resolve!Given
    <3>. QED  BY <3>1 DEF Resolve!LiveIsNeeded
  <2>4. possible \in Seq(Resolve!Naming)
    BY <1>1, ResolveLinkFacts
  <2>5. /\ prio \in [Resolve!File -> Nat] /\ counter \in Nat
        /\ visited \subseteq Libraries /\ forced \subseteq Libraries
    BY <1>1, <1>4 DEF Records
  <2>6. /\ \A f \in Resolve!Loaded : prio[f] <= counter
        /\ \A f, g \in Resolve!Loaded : prio[f] = prio[g] => f = g
    BY <1>1, <1>4, <1>5 DEF IsReadFrom
  <2>. QED  BY <1>1, <2>1, <2>2, <2>3, <2>4, <2>5, <2>6 DEF FilesInv
<1>7. NamesInv
  <2>1. /\ interned \subseteq Symbols
        /\ \A o \in Resolve!Objs, s \in Symbols : Resolve!Def(o, s) # "none" => s \in interned
    BY <1>1, <1>5 DEF Resolve!Names
  <2>2. Resolve!NoSym \in SymRecord /\ ~Resolve!NoSym.used
    BY DEF Resolve!NoSym, SymRecord
  <2>. QED  BY <1>1, <2>1, <2>2 DEF NamesInv
<1>8. RankingInv /\ RoundInv /\ WalkInv /\ FinalInv
  BY <1>1 DEF RankingInv, RoundInv, WalkInv, FinalInv
<1>. QED  BY <1>6, <1>7, <1>8 DEF ResolveInv

-----------------------------------------------------------------------------
(***************************************************************************)
(* The theorems.                                                           *)
(***************************************************************************)

\* What the invariant says of a finished resolution.
LEMMA MembersInTheEnd ==
    ASSUME ResolveInv
    PROVE  Resolve!UndefinedIsNowhere /\ Resolve!LiveIsNeeded
<1>1. ASSUME pc = "done", NEW s \in Symbols, Resolve!Wanted(s), Undefined(s), NoneDropped(Resolve!Objs, s)
      PROVE  Resolve!Offers(s) = {}
  <2>1. Offering(Resolve!Objs, s) = {} /\ \A d \in Resolve!Dylibs : link.export[d][s] = "none"
    BY <1>1 DEF ResolveInv, FinalInv
  <2>. QED  BY <2>1 DEF Resolve!Offers, Offering, Real, Tentative, Resolve!RealKind, Resolve!WeakKind
<1>2. Resolve!UndefinedIsNowhere
  BY <1>1 DEF Resolve!UndefinedIsNowhere, Resolve!Done, Undefined, NoneDropped
<1>. QED  BY <1>2 DEF ResolveInv, FilesInv

LEMMA BindingsInTheEnd ==
    ASSUME ResolveInv
    PROVE  Resolve!BindingsAreSound /\ Resolve!WeakImports
<1>1. CASE pc # "done"
  BY <1>1 DEF Resolve!BindingsAreSound, Resolve!WeakImports, Resolve!OwnerIsLive, Resolve!DefinitionsBeatImports,
       Resolve!CommonsMerge, Resolve!Done
<1>2. CASE pc = "done"
  <2>1. \A s \in Symbols : Settled(s)
    BY <1>2 DEF ResolveInv, FinalInv
  <2>2. Real = {"strong"} \cup Resolve!WeakKind
    BY DEF Real, Resolve!RealKind, Resolve!WeakKind
  <2>3. Resolve!OwnerIsLive
    BY <2>1 DEF Settled, Real, Resolve!OwnerIsLive
  <2>4. Resolve!DefinitionsBeatImports
    BY <2>1, <2>2 DEF Settled, NoneDropped, Resolve!DefinitionsBeatImports
  <2>5. Resolve!CommonsMerge
    BY <2>1 DEF Settled, Resolve!CommonsMerge
  <2>6. Resolve!WeakImports
    BY <2>1 DEF Settled, Asked, Taken, StrongUse, WeakUse, Resolve!WeakImports
  <2>. QED  BY <2>3, <2>4, <2>5, <2>6 DEF Resolve!BindingsAreSound
<1>. QED  BY <1>1, <1>2

ResolvingInv == part = "resolve" => ResolveInv

\* A step of the composition is a step of the resolution, or leaves it alone.
LEMMA ResolvingSteps ==
    ASSUME [Next]_vars, part' = "resolve"
    PROVE  part = "resolve" /\ [Resolve!Next]_(Resolve!vars)
<1>1. CASE UNCHANGED vars
  BY <1>1 DEF vars, Resolve!vars, Resolve!fileVars, Resolve!ltoVars
<1>2. CASE IcfSteps \/ DefinitionsSteps \/ ObjcSteps
  <2>1. part # "resolve" /\ part' = part
    BY <1>2 DEF IcfSteps, IcfTakes, DefinitionsSteps, DefinitionsTakes, ObjcSteps, ObjcTakes
  <2>. QED  BY <2>1
<1>3. CASE Over
  BY <1>1, <1>3 DEF Over
<1>4. CASE ResolveSteps
  BY <1>4 DEF ResolveSteps, ResolveTakes
<1>. QED  BY <1>1, <1>2, <1>3, <1>4 DEF Next

\* Whatever libraries the options name and objects say, the rounds, the walk
\* and the auto-linking keep the priorities apart, the owners among what
\* offers the symbol, and the live objects needed (resolve_symbols).
THEOREM ResolvingInvariant == Spec => []ResolvingInv
<1>1. Init => ResolvingInv
  <2>1. SUFFICES ASSUME Init, part = "resolve"
                 PROVE  ResolveInv
    BY DEF ResolvingInv
  <2>2. Resolve!Init
    BY <2>1 DEF Init, ResolveInit, DefinitionsInit, IcfInit, ObjcInit
  <2>. QED  BY <2>2, ResolveInitInv
<1>2. ResolvingInv /\ [Next]_vars => ResolvingInv'
  <2>1. SUFFICES ASSUME ResolvingInv, [Next]_vars, part' = "resolve"
                 PROVE  ResolveInv'
    BY DEF ResolvingInv
  <2>2. ResolveInv /\ [Resolve!Next]_(Resolve!vars)
    BY <2>1, ResolvingSteps DEF ResolvingInv
  <2>. QED  BY <2>2, ResolveStutterKeeps, InternKeeps, RoundKeeps, MarkRootsKeeps, VisitKeeps,
              LoadAutolinkDepsKeeps, IgnoreAutoLinkKeeps, FinalRoundKeeps, ClaimNewDylibsKeeps,
              DoLtoKeeps, FinishKeeps DEF Resolve!Next
<1>. QED  BY <1>1, <1>2, PTL DEF Spec

\* However the objects, archives and dylibs of a link refer to each other and
\* whatever the options load, a wanted symbol is left undefined only if no
\* file of the link has it, and an archive member is in the output only if a
\* chain of references leads to it (resolve_symbols, mark_live_objects,
\* load_autolink_deps, claim_new_dylibs, do_lto).
THEOREM MembersAreAlwaysAsNeeded == Spec => []MembersAsNeeded
<1>1. ResolvingInv => MembersAsNeeded
  BY MembersInTheEnd DEF ResolvingInv, MembersAsNeeded
<1>. QED  BY <1>1, ResolvingInvariant, PTL

\* In any link, what a symbol is bound to in the end is live and defines it,
\* a live definition is never imported instead, commons have room for all
\* that were merged, and an import is weak only for a reason
\* (resolve_symbols_pass, claim_dylib_exports, collect_references).
THEOREM BindingsAreAlwaysSound == Spec => []BindingsAreSound
<1>1. ResolvingInv => BindingsAreSound
  BY BindingsInTheEnd DEF ResolvingInv, BindingsAreSound
<1>. QED  BY <1>1, ResolvingInvariant, PTL

-----------------------------------------------------------------------------
(***************************************************************************)
(* What is left of the subsections.  Replacing is acyclic because a        *)
(* subsection is replaced once, by one that stands for itself: so there is *)
(* always a numbering, of no more than one number for each replaced        *)
(* subsection and one for all others, that grows along replacements.       *)
(***************************************************************************)

\* A subsection of an input, and what the passes keep of it.
Subsection == [obj : Nat, kind : Definitions!SectionKinds, bytes : STRING, p2align : Nat, keep : BOOLEAN,
               rels : Seq(Definitions!Relocation), alive : BOOLEAN, repl : Nat]

ArePlaced(secs) == secs \in Seq(Subsection) /\ \A i \in DOMAIN secs : secs[i].repl \in {0} \cup DOMAIN secs

Replaced(secs) == {i \in DOMAIN secs : secs[i].repl # 0}

Climbs(secs, t) ==
    /\ t \in [DOMAIN secs -> 1..(Cardinality(Replaced(secs)) + 1)]
    /\ \A i \in Replaced(secs) : t[i] < t[secs[i].repl]

IsForest(secs) == \E t : Climbs(secs, t)

LEMMA ReplacedFacts ==
    ASSUME NEW secs, ArePlaced(secs)
    PROVE  /\ IsFiniteSet(Replaced(secs)) /\ Cardinality(Replaced(secs)) \in Nat
           /\ Cardinality(Replaced(secs)) <= Len(secs)
<1>1. Len(secs) \in Nat /\ DOMAIN secs = 1..Len(secs) /\ Replaced(secs) \in SUBSET (1..Len(secs))
  BY DEF ArePlaced, Replaced
<1>2. IsFiniteSet(1..Len(secs)) /\ Cardinality(1..Len(secs)) = Len(secs)
  BY <1>1, FS_Interval
<1>. QED  BY <1>1, <1>2, FS_Subset, FS_CardinalityType

\* What follows replacements comes to a subsection that stands for itself,
\* and stays among those that replacements do not lead out of.
LEMMA SurvivorFacts ==
    ASSUME NEW secs, ArePlaced(secs), IsForest(secs), NEW i \in DOMAIN secs,
           NEW X, i \in X, \A j \in X \cap Replaced(secs) : secs[j].repl \in X
    PROVE  LET s == Definitions!Survivor(secs, i) IN
           s \in DOMAIN secs /\ secs[s].repl = 0 /\ s \in X
<1>. DEFINE N == Len(secs)
            V == DOMAIN secs
            Step(j) == IF secs[j].repl = 0 THEN j ELSE secs[j].repl
            H == [n \in 1..N |-> [v \in V |-> Step(v)]]
            G(g) == [n \in 0..N |-> IF n = 0 THEN i ELSE Step(g[n - 1])]
            e == CHOOSE g : g = G(g)
<1>1. N \in Nat /\ V = 1..N /\ i \in V
  BY DEF ArePlaced
<1>2. \A v \in V : Step(v) \in V /\ (v \in X => Step(v) \in X)
  BY DEF ArePlaced, Replaced
<1>3. \A n \in 1..N, v \in V : H[n][v] = Step(v) /\ H[n][v] \in V
  <2>. HIDE DEF Step, N, V
  <2>. QED  BY <1>2
<1>4. PICK f \in [0..N -> V] : f[0] = i /\ \A n \in 1..N : f[n] = H[n][f[n - 1]]
  <2>. HIDE DEF H, N, V
  <2>1. AreSteps(H, N, V)
    BY <1>3 DEF AreSteps
  <2>2. \E f \in [0..N -> V] : IsByStep(f, i, H, N)
    BY <1>1, <2>1, FunctionByStep
  <2>. QED  BY <2>2 DEF IsByStep
<1>5. \A n \in 1..N : f[n - 1] \in V /\ f[n] = Step(f[n - 1])
  <2>. HIDE DEF H, N, Step, V
  <2>1. \A n \in 1..N : f[n - 1] \in V
    BY <1>1, <1>4
  <2>. QED  BY <1>3, <1>4, <2>1
<1>6. f = G(f)
  <2>. HIDE DEF H, N, Step, V
  <2>1. \A n \in 0..N : f[n] = IF n = 0 THEN i ELSE Step(f[n - 1])
    BY <1>1, <1>4, <1>5
  <2>2. f = [n \in 0..N |-> f[n]]
    BY <1>4
  <2>. QED  BY <2>1, <2>2
<1>7. e = G(e)
  <2>. HIDE DEF G
  <2>. QED  BY <1>6
<1>8. e[0] = i /\ \A n \in 1..N : e[n] = Step(e[n - 1])
  <2>. HIDE DEF e, N, Step, V
  <2>1. \A n \in 0..N : e[n] = IF n = 0 THEN i ELSE Step(e[n - 1])
    BY <1>7
  <2>2. 0 \in 0..N /\ \A n \in 1..N : n \in 0..N /\ n # 0
    BY <1>1
  <2>. QED  BY <2>1, <2>2
<1>9. PICK t : Climbs(secs, t)
  BY DEF IsForest
<1>10. /\ \A j \in V : t[j] \in Nat /\ t[j] >= 1 /\ t[j] <= N + 1
       /\ \A j \in V : secs[j].repl # 0 => t[j] < t[secs[j].repl] /\ t[j] <= N
  <2>1. \A j \in V : t[j] \in Nat /\ t[j] >= 1 /\ t[j] <= N + 1
    BY <1>1, <1>9, ReplacedFacts DEF Climbs
  <2>2. ASSUME NEW j \in V, secs[j].repl # 0
        PROVE  t[j] < t[secs[j].repl] /\ t[j] <= N
    <3>1. j \in Replaced(secs) /\ secs[j].repl \in V
      BY <2>2 DEF Replaced, ArePlaced
    <3>2. t[j] < t[secs[j].repl]
      BY <1>9, <3>1 DEF Climbs
    <3>. HIDE DEF V, N
    <3>. QED  BY <1>1, <2>1, <2>2, <3>1, <3>2
  <2>. QED  BY <2>1, <2>2
<1>. DEFINE Ok(n) == /\ e[n] \in V /\ e[n] \in X
                     /\ secs[e[n]].repl = 0 \/ t[e[n]] >= n + 1
            T == {n \in Nat : n <= N => Ok(n)}
<1>11. 0 \in T
  <2>1. Ok(0)
    <3>. HIDE DEF e, V, N
    <3>1. e[0] = i /\ i \in V /\ i \in X /\ t[i] >= 1 /\ t[i] \in Nat
      BY <1>1, <1>8, <1>10
    <3>2. t[e[0]] >= 0 + 1
      BY <3>1
    <3>. QED  BY <3>1, <3>2
  <2>. HIDE DEF Ok
  <2>. QED  BY <2>1
<1>12. ASSUME NEW n \in Nat, n \in T
       PROVE  n + 1 \in T
  <2>1. SUFFICES ASSUME n + 1 <= N
                 PROVE  Ok(n + 1)
    OBVIOUS
  <2>2. n + 1 \in 1..N /\ (n + 1) - 1 = n /\ Ok(n)
    <3>1. n + 1 \in 1..N /\ (n + 1) - 1 = n /\ n <= N
      BY <1>1, <2>1
    <3>. HIDE DEF Ok
    <3>. QED  BY <1>12, <3>1
  <2>3. e[n + 1] = Step(e[n])
    <3>. HIDE DEF e, Step, N
    <3>. QED  BY <1>8, <2>2
  <2>4. e[n + 1] \in V /\ e[n + 1] \in X
    <3>. HIDE DEF e, Step, N, V
    <3>. QED  BY <1>2, <2>2, <2>3
  <2>5. secs[e[n + 1]].repl = 0 \/ t[e[n + 1]] >= (n + 1) + 1
    <3>. HIDE DEF e, N, V
    <3>1. CASE secs[e[n]].repl = 0
      BY <2>3, <3>1
    <3>2. CASE secs[e[n]].repl # 0
      <4>1. e[n + 1] = secs[e[n]].repl
        BY <2>3, <3>2
      <4>2. t[e[n]] < t[e[n + 1]] /\ t[e[n]] >= n + 1 /\ t[e[n]] \in Nat /\ t[e[n + 1]] \in Nat
        BY <1>10, <2>2, <2>4, <3>2, <4>1
      <4>. QED  BY <4>2
    <3>. QED  BY <3>1, <3>2
  <2>. QED  BY <2>4, <2>5
<1>13. Ok(N)
  <2>1. Nat \subseteq T
    <3>. HIDE DEF T
    <3>. QED  BY <1>11, <1>12, SetInduction
  <2>. HIDE DEF Ok, N
  <2>. QED  BY <1>1, <2>1
<1>14. secs[e[N]].repl = 0
  <2>. HIDE DEF e, V, N
  <2>. QED  BY <1>1, <1>10, <1>13
<1>15. Definitions!Survivor(secs, i) = e[N]
  BY DEF Definitions!Survivor
<1>. HIDE DEF e, N, V
<1>. QED  BY <1>13, <1>14, <1>15 DEF V

\* One that stands for itself is its own survivor.
LEMMA SurvivorOfItself ==
    ASSUME NEW secs, ArePlaced(secs), IsForest(secs), NEW i \in DOMAIN secs, secs[i].repl = 0
    PROVE  Definitions!Survivor(secs, i) = i
<1>1. \A j \in {i} \cap Replaced(secs) : secs[j].repl \in {i}
  BY DEF Replaced
<1>. QED  BY <1>1, SurvivorFacts

\* The invariants of replacing: `good` are the subsections that are in the
\* output or that an option removes, and with `strict` a literal only stands
\* for a literal of the same contents.
Leads(secs, good) ==
    \A i \in Replaced(secs) : secs[secs[i].repl].repl # 0 \/ secs[i].repl \in good

SameDatum(secs, i, j) ==
    /\ secs[i].kind = "literal" <=> secs[j].kind = "literal"
    /\ secs[i].kind = "literal" => secs[j].bytes = secs[i].bytes /\ secs[j].p2align >= secs[i].p2align

KeepsLiterals(secs) == \A i \in Replaced(secs) : SameDatum(secs, i, secs[i].repl)

LEMMA ReplacementFacts ==
    ASSUME NEW secs, ArePlaced(secs), NEW i \in Replaced(secs)
    PROVE  i \in DOMAIN secs /\ secs[i].repl \in DOMAIN secs
  BY DEF Replaced, ArePlaced

\* Nothing but what replaces them differs.
SameBut(secs, other) ==
    /\ DOMAIN other = DOMAIN secs
    /\ \A i \in DOMAIN secs : other[i] = [secs[i] EXCEPT !.repl = other[i].repl]

\* What the subsections may become, a step of coalescing after another.
Becomes(secs, good, strict) ==
    {other \in [DOMAIN secs -> Subsection] :
        /\ ArePlaced(other) /\ IsForest(other) /\ SameBut(secs, other)
        /\ Leads(other, good)
        /\ strict => KeepsLiterals(other)}

\* A subsection that stands for itself may be replaced by another such one.
LEMMA ReplacingKeepsForest ==
    ASSUME NEW secs, ArePlaced(secs), IsForest(secs), NEW i \in DOMAIN secs, NEW j \in DOMAIN secs,
           i # j, secs[i].repl = 0, secs[j].repl = 0
    PROVE  LET new == [secs EXCEPT ![i].repl = j] IN
           /\ ArePlaced(new) /\ IsForest(new) /\ SameBut(secs, new)
           /\ new[i].repl = j /\ \A k \in DOMAIN secs \ {i} : new[k] = secs[k]
<1>. DEFINE new == [secs EXCEPT ![i].repl = j]
            K == Cardinality(Replaced(secs))
<1>1. Len(secs) \in Nat /\ DOMAIN secs = 1..Len(secs) /\ \A k \in DOMAIN secs : secs[k] \in Subsection
  BY DEF ArePlaced
<1>2. new[i] = [secs[i] EXCEPT !.repl = j] /\ \A k \in DOMAIN secs \ {i} : new[k] = secs[k]
  OBVIOUS
<1>3. new[i].repl = j /\ new[i] \in Subsection
  <2>. HIDE DEF new
  <2>1. j \in Nat
    BY <1>1
  <2>. QED  BY <1>1, <1>2, <2>1 DEF Subsection
<1>4. new \in Seq(Subsection) /\ DOMAIN new = DOMAIN secs
  <2>1. DOMAIN new = DOMAIN secs /\ new = [k \in DOMAIN secs |-> new[k]]
    OBVIOUS
  <2>2. \A k \in DOMAIN secs : new[k] \in Subsection
    <3>. HIDE DEF new
    <3>. QED  BY <1>1, <1>2, <1>3
  <2>. HIDE DEF new
  <2>3. new \in [1..Len(secs) -> Subsection]
    BY <1>1, <2>1, <2>2
  <2>. QED  BY <1>1, <2>1, <2>3
<1>5. ArePlaced(new)
  <2>. HIDE DEF new
  <2>. QED  BY <1>2, <1>3, <1>4 DEF ArePlaced
<1>6. SameBut(secs, new)
  <2>1. \A k \in DOMAIN secs \ {i} : secs[k] = [secs[k] EXCEPT !.repl = secs[k].repl]
    BY <1>1 DEF Subsection
  <2>2. new[i] = [secs[i] EXCEPT !.repl = new[i].repl]
    <3>. HIDE DEF new
    <3>. QED  BY <1>2, <1>3
  <2>. HIDE DEF new
  <2>. QED  BY <1>2, <1>4, <2>1, <2>2 DEF SameBut
<1>7. Replaced(new) = Replaced(secs) \cup {i} /\ i \notin Replaced(secs) /\ j \notin Replaced(new)
  <2>. HIDE DEF new
  <2>1. j # 0
    BY <1>1
  <2>. QED  BY <1>2, <1>3, <1>4, <2>1 DEF Replaced
<1>8. K \in Nat /\ Cardinality(Replaced(new)) = K + 1
  <2>. HIDE DEF new
  <2>. QED  BY <1>7, ReplacedFacts, FS_AddElement
<1>9. PICK t : Climbs(secs, t)
  BY DEF IsForest
<1>. DEFINE u == [k \in DOMAIN secs |-> IF k = j THEN K + 2 ELSE t[k]]
<1>10. \A k \in DOMAIN secs : t[k] \in 1..(K + 1)
  BY <1>9 DEF Climbs
<1>11. /\ u \in [DOMAIN new -> 1..(K + 2)] /\ u[j] = K + 2
       /\ \A k \in DOMAIN secs \ {j} : u[k] = t[k] /\ u[k] < K + 2
  <2>. HIDE DEF new, K
  <2>. QED  BY <1>4, <1>8, <1>10
<1>12. \A k \in Replaced(new) : u[k] < u[new[k].repl]
  <2>. TAKE k \in Replaced(new)
  <2>1. k \in DOMAIN secs \ {j} /\ u[k] = t[k] /\ u[k] < K + 2
    <3>. HIDE DEF new, u
    <3>. QED  BY <1>4, <1>7, <1>11 DEF Replaced
  <2>2. CASE k = i
    <3>. HIDE DEF new, u
    <3>. QED  BY <1>3, <1>11, <2>1, <2>2
  <2>3. CASE k # i
    <3>. HIDE DEF new, u
    <3>1. new[k] = secs[k] /\ k \in Replaced(secs) /\ secs[k].repl \in DOMAIN secs
      BY <1>2, <1>7, <2>1, <2>3 DEF Replaced, ArePlaced
    <3>2. t[k] < t[secs[k].repl]
      BY <1>9, <3>1 DEF Climbs
    <3>3. CASE secs[k].repl = j
      BY <1>11, <2>1, <3>1, <3>3
    <3>4. CASE secs[k].repl # j
      BY <1>11, <2>1, <3>1, <3>2, <3>4
    <3>. QED  BY <3>3, <3>4
  <2>. QED  BY <2>2, <2>3
<1>13. IsForest(new)
  <2>. HIDE DEF new, u, K
  <2>1. (K + 1) + 1 = K + 2
    BY <1>8
  <2>. QED  BY <1>8, <1>11, <1>12, <2>1 DEF IsForest, Climbs
<1>. HIDE DEF new
<1>. QED  BY <1>2, <1>3, <1>5, <1>6, <1>13 DEF new

LEMMA CoalesceFacts ==
    ASSUME NEW secs0, NEW good \in SUBSET DOMAIN secs0, NEW strict \in BOOLEAN,
           NEW secs \in Becomes(secs0, good, strict),
           NEW pair \in (DOMAIN secs0) \X good,
           strict => secs0[pair[1]].kind # "literal" /\ secs0[pair[2]].kind # "literal"
    PROVE  Definitions!Coalesce(secs, pair) \in Becomes(secs0, good, strict)
<1>. DEFINE w == Definitions!Survivor(secs, pair[2])
            o == Definitions!Survivor(secs, pair[1])
            new == [secs EXCEPT ![o].repl = w]
<1>1. /\ DOMAIN secs = DOMAIN secs0 /\ ArePlaced(secs) /\ IsForest(secs)
      /\ SameBut(secs0, secs) /\ Leads(secs, good)
      /\ strict => KeepsLiterals(secs)
      /\ secs \in [DOMAIN secs0 -> Subsection]
  BY DEF Becomes
<1>2. pair[1] \in DOMAIN secs /\ pair[2] \in good /\ pair[2] \in DOMAIN secs
  BY <1>1
<1>3. w \in DOMAIN secs /\ secs[w].repl = 0 /\ w \in good
  <2>. DEFINE X == good \cup Replaced(secs)
  <2>1. ASSUME NEW j \in X \cap Replaced(secs)
        PROVE  secs[j].repl \in X
    <3>1. secs[j].repl \in DOMAIN secs
      BY <1>1, ReplacementFacts
    <3>2. secs[secs[j].repl].repl # 0 \/ secs[j].repl \in good
      BY <1>1 DEF Leads
    <3>. QED  BY <3>1, <3>2 DEF Replaced
  <2>2. pair[2] \in X
    BY <1>2
  <2>3. w \in DOMAIN secs /\ secs[w].repl = 0 /\ w \in X
    <3>. HIDE DEF X
    <3>. QED  BY <1>1, <1>2, <2>1, <2>2, SurvivorFacts
  <2>. QED  BY <2>3 DEF Replaced
<1>4. o \in DOMAIN secs /\ secs[o].repl = 0
  <2>1. \A j \in DOMAIN secs \cap Replaced(secs) : secs[j].repl \in DOMAIN secs
    BY <1>1 DEF Replaced, ArePlaced
  <2>. QED  BY <1>1, <1>2, <2>1, SurvivorFacts
<1>5. strict => secs[w].kind # "literal" /\ secs[o].kind # "literal"
  <2>1. SUFFICES ASSUME strict
                 PROVE  secs[w].kind # "literal" /\ secs[o].kind # "literal"
    OBVIOUS
  <2>. DEFINE X == {k \in DOMAIN secs : secs[k].kind # "literal"}
  <2>2. ASSUME NEW j \in X \cap Replaced(secs)
        PROVE  secs[j].repl \in X
    <3>1. secs[j].repl \in DOMAIN secs
      BY <1>1, ReplacementFacts
    <3>2. SameDatum(secs, j, secs[j].repl)
      BY <1>1, <2>1 DEF KeepsLiterals
    <3>. QED  BY <3>1, <3>2 DEF SameDatum
  <2>3. pair[1] \in X /\ pair[2] \in X
    <3>1. \A k \in DOMAIN secs : secs[k].kind = secs0[k].kind
      BY <1>1 DEF SameBut, Subsection
    <3>. QED  BY <1>2, <2>1, <3>1
  <2>4. w \in X /\ o \in X
    <3>. HIDE DEF X
    <3>. QED  BY <1>1, <1>2, <2>2, <2>3, SurvivorFacts
  <2>. QED  BY <2>4
<1>6. CASE o = w
  <2>1. Definitions!Coalesce(secs, pair) = secs
    BY <1>6 DEF Definitions!Coalesce
  <2>. QED  BY <2>1
<1>7. CASE o # w
  <2>. HIDE DEF w, o
  <2>1. /\ ArePlaced(new) /\ IsForest(new) /\ SameBut(secs, new)
        /\ new[o].repl = w /\ \A k \in DOMAIN secs \ {o} : new[k] = secs[k]
    BY <1>1, <1>3, <1>4, <1>7, ReplacingKeepsForest
  <2>. HIDE DEF new
  <2>2. DOMAIN new = DOMAIN secs /\ \A k \in DOMAIN new : new[k] \in Subsection
    BY <2>1 DEF SameBut, ArePlaced
  <2>3. new \in [DOMAIN secs0 -> Subsection]
    <3>1. new = [k \in DOMAIN new |-> new[k]]
      BY DEF new
    <3>. QED  BY <1>1, <2>2, <3>1
  <2>4. SameBut(secs0, new)
    <3>1. ASSUME NEW k \in DOMAIN secs0
          PROVE  new[k] = [secs0[k] EXCEPT !.repl = new[k].repl]
      <4>1. new[k] = [secs[k] EXCEPT !.repl = new[k].repl] /\ secs[k] = [secs0[k] EXCEPT !.repl = secs[k].repl]
        BY <1>1, <2>1 DEF SameBut
      <4>. QED  BY <4>1
    <3>. QED  BY <1>1, <2>2, <3>1 DEF SameBut
  <2>5. \A k \in Replaced(new) : k = o \/ (k \in Replaced(secs) /\ new[k].repl = secs[k].repl)
    BY <2>1, <2>2 DEF Replaced
  <2>6. Leads(new, good)
    <3>1. ASSUME NEW k \in Replaced(secs), k # o
          PROVE  new[new[k].repl].repl # 0 \/ new[k].repl \in good
      <4>1. new[k].repl = secs[k].repl /\ secs[k].repl \in DOMAIN secs /\ w # 0
        BY <1>1, <1>3, <2>1, <3>1 DEF Replaced, ArePlaced
      <4>2. secs[secs[k].repl].repl # 0 \/ secs[k].repl \in good
        BY <1>1 DEF Leads
      <4>. QED  BY <2>1, <4>1, <4>2
    <3>. QED  BY <1>3, <2>1, <2>5, <3>1 DEF Leads
  <2>7. ASSUME strict
        PROVE  KeepsLiterals(new)
    <3>1. \A k \in DOMAIN secs : /\ new[k].kind = secs[k].kind /\ new[k].bytes = secs[k].bytes
                                 /\ new[k].p2align = secs[k].p2align
      <4>1. ASSUME NEW k \in DOMAIN secs
            PROVE  /\ new[k].kind = secs[k].kind /\ new[k].bytes = secs[k].bytes
                   /\ new[k].p2align = secs[k].p2align
        <5>1. secs[k] \in Subsection
          BY <1>1, <4>1 DEF ArePlaced
        <5>. QED  BY <2>1, <4>1, <5>1 DEF SameBut, Subsection
      <4>. QED  BY <4>1
    <3>2. ASSUME NEW k \in Replaced(secs), k # o
          PROVE  SameDatum(new, k, new[k].repl)
      <4>1. new[k].repl = secs[k].repl /\ secs[k].repl \in DOMAIN secs /\ k \in DOMAIN secs
        BY <1>1, <2>1, <3>2 DEF Replaced, ArePlaced
      <4>2. SameDatum(secs, k, secs[k].repl)
        BY <1>1, <2>7 DEF KeepsLiterals
      <4>. QED  BY <3>1, <4>1, <4>2 DEF SameDatum
    <3>3. SameDatum(new, o, w)
      BY <1>3, <1>4, <1>5, <2>7, <3>1 DEF SameDatum
    <3>. QED  BY <2>1, <2>5, <3>2, <3>3 DEF KeepsLiterals
  <2>8. Definitions!Coalesce(secs, pair) = new
    BY <1>4, <1>7 DEF Definitions!Coalesce, new, w, o
  <2>. QED  BY <2>1, <2>3, <2>4, <2>6, <2>7, <2>8 DEF Becomes
<1>. QED  BY <1>6, <1>7

\* However many copies coalesce, one object's after another's.
LEMMA CoalesceAllFacts ==
    ASSUME NEW secs0, NEW good \in SUBSET DOMAIN secs0, NEW strict \in BOOLEAN,
           NEW secs \in Becomes(secs0, good, strict),
           NEW pairs \in Seq((DOMAIN secs0) \X good),
           \A k \in DOMAIN pairs :
              strict => secs0[pairs[k][1]].kind # "literal" /\ secs0[pairs[k][2]].kind # "literal"
    PROVE  Definitions!CoalesceAll(secs, pairs) \in Becomes(secs0, good, strict)
<1>. DEFINE N == Len(pairs)
            V == Becomes(secs0, good, strict)
            Step(n, v) == Definitions!Coalesce(v, pairs[n])
            H == [n \in 1..N |-> [v \in V |-> Step(n, v)]]
            G(g) == [n \in 0..N |-> IF n = 0 THEN secs ELSE Step(n, g[n - 1])]
            e == CHOOSE g : g = G(g)
<1>1. N \in Nat /\ secs \in V /\ \A n \in 1..N : n \in DOMAIN pairs /\ pairs[n] \in (DOMAIN secs0) \X good
  OBVIOUS
<1>2. ASSUME NEW n \in 1..N, NEW v \in V
      PROVE  Step(n, v) \in V
  <2>1. n \in DOMAIN pairs /\ pairs[n] \in (DOMAIN secs0) \X good
    BY <1>1
  <2>. QED  BY <1>2, <2>1, CoalesceFacts
<1>3. \A n \in 1..N, v \in V : H[n][v] = Step(n, v) /\ H[n][v] \in V
  <2>. HIDE DEF Step, N, V
  <2>. QED  BY <1>2
<1>4. PICK f \in [0..N -> V] : f[0] = secs /\ \A n \in 1..N : f[n] = H[n][f[n - 1]]
  <2>. HIDE DEF H, N, V
  <2>1. AreSteps(H, N, V)
    BY <1>3 DEF AreSteps
  <2>2. \E f \in [0..N -> V] : IsByStep(f, secs, H, N)
    BY <1>1, <2>1, FunctionByStep
  <2>. QED  BY <2>2 DEF IsByStep
<1>5. \A n \in 1..N : f[n - 1] \in V /\ f[n] = Step(n, f[n - 1])
  <2>. HIDE DEF H, N, Step, V
  <2>1. \A n \in 1..N : f[n - 1] \in V
    BY <1>1, <1>4
  <2>. QED  BY <1>3, <1>4, <2>1
<1>6. f = G(f)
  <2>. HIDE DEF H, N, Step, V
  <2>1. \A n \in 0..N : f[n] = IF n = 0 THEN secs ELSE Step(n, f[n - 1])
    BY <1>1, <1>4, <1>5
  <2>2. f = [n \in 0..N |-> f[n]]
    BY <1>4
  <2>. QED  BY <2>1, <2>2
<1>7. e = G(e)
  <2>. HIDE DEF G
  <2>. QED  BY <1>6
<1>8. e[0] = secs /\ \A n \in 1..N : e[n] = Step(n, e[n - 1])
  <2>. HIDE DEF e, N, Step
  <2>. QED  BY <1>1, <1>7
<1>. DEFINE T == {n \in Nat : n <= N => e[n] \in V}
<1>9. 0 \in T
  <2>. HIDE DEF e, V, N
  <2>. QED  BY <1>1, <1>8
<1>10. ASSUME NEW n \in Nat, n \in T
       PROVE  n + 1 \in T
  <2>1. SUFFICES ASSUME n + 1 <= N
                 PROVE  e[n + 1] \in V
    OBVIOUS
  <2>2. n + 1 \in 1..N /\ (n + 1) - 1 = n /\ e[n] \in V
    BY <1>1, <1>10, <2>1
  <2>. HIDE DEF e, Step, N, V
  <2>3. e[n + 1] = Step(n + 1, e[n])
    BY <1>8, <2>2
  <2>. QED  BY <1>2, <2>2, <2>3
<1>11. e[N] \in V
  <2>1. Nat \subseteq T
    <3>. HIDE DEF T
    <3>. QED  BY <1>9, <1>10, SetInduction
  <2>. HIDE DEF e, V, N
  <2>. QED  BY <1>1, <2>1
<1>12. Definitions!CoalesceAll(secs, pairs) = e[N]
  BY DEF Definitions!CoalesceAll
<1>. HIDE DEF e, N
<1>. QED  BY <1>11, <1>12

-----------------------------------------------------------------------------
(***************************************************************************)
(* Sets in some order, and their least elements.                           *)
(***************************************************************************)

\* The elements of a finite set as a sequence.
LEMMA SetToSeqFacts ==
    ASSUME NEW S, IsFiniteSet(S)
    PROVE  LET q == Definitions!SetToSeq(S) IN
           /\ q \in Seq(S) /\ \A x \in S : \E k \in DOMAIN q : q[k] = x
<1>. DEFINE n == Cardinality(S)
            q == CHOOSE f \in [1..n -> S] : Definitions!IsInjective(f)
<1>1. n \in Nat /\ ExistsBijection(1..n, S)
  BY FS_CardinalityType
<1>2. \E f \in [1..n -> S] : Definitions!IsInjective(f)
  BY <1>1 DEF ExistsBijection, Bijection, Injection, IsInjective, Definitions!IsInjective
<1>3. q \in [1..n -> S] /\ Definitions!IsInjective(q)
  <2>. HIDE DEF n
  <2>. QED  BY <1>2
<1>4. Definitions!SetToSeq(S) = q
  BY DEF Definitions!SetToSeq, Definitions!Cardinality, Cardinality
<1>. HIDE DEF q
<1>5. q \in Injection(1..n, S)
  BY <1>3 DEF Injection, IsInjective, Definitions!IsInjective
<1>6. IsFiniteSet(1..n) /\ Cardinality(1..n) = n
  BY <1>1, FS_Interval
<1>7. q \in Surjection(1..n, S)
  BY <1>5, <1>6, FS_Injection
<1>8. q \in Seq(S) /\ DOMAIN q = 1..n
  <2>. HIDE DEF n
  <2>. QED  BY <1>1, <1>3
<1>. HIDE DEF n
<1>. QED  BY <1>4, <1>7, <1>8 DEF Surjection

\* A function into the integers has a least value on a finite set.
LEMMA LeastOnFinite ==
    ASSUME NEW S, IsFiniteSet(S), S # {}, NEW f \in [S -> Int]
    PROVE  \E x \in S : \A y \in S : f[x] <= f[y]
<1>. DEFINE n == Cardinality(S)
<1>1. n \in Nat /\ ExistsBijection(1..n, S)
  BY FS_CardinalityType
<1>. HIDE DEF n
<1>2. PICK e \in [1..n -> S] : \A x \in S : \E k \in 1..n : e[k] = x
  BY <1>1 DEF ExistsBijection, Bijection, Surjection
<1>3. n # 0
  BY <1>2
<1>. DEFINE Ok(m) == \E x \in S : \A k \in 1..(m + 1) : f[x] <= f[e[k]]
            T == {m \in Nat : m + 1 <= n => Ok(m)}
<1>4. \A k \in 1..n : e[k] \in S /\ f[e[k]] \in Int
  BY <1>2
<1>5. 0 \in T
  <2>1. SUFFICES ASSUME 1 <= n
                 PROVE  Ok(0)
    OBVIOUS
  <2>2. e[1] \in S /\ f[e[1]] \in Int
    BY <1>1, <1>4, <2>1
  <2>3. \A k \in 1..(0 + 1) : f[e[1]] <= f[e[k]]
    BY <2>2
  <2>. QED  BY <2>2, <2>3
<1>6. ASSUME NEW m \in Nat, m \in T
      PROVE  m + 1 \in T
  <2>1. SUFFICES ASSUME (m + 1) + 1 <= n
                 PROVE  Ok(m + 1)
    OBVIOUS
  <2>2. PICK x \in S : \A k \in 1..(m + 1) : f[x] <= f[e[k]]
    BY <1>1, <1>6, <2>1
  <2>. DEFINE z == e[(m + 1) + 1]
  <2>3. z \in S /\ f[z] \in Int /\ f[x] \in Int /\ \A k \in 1..(m + 1) : f[e[k]] \in Int
    BY <1>1, <1>4, <2>1
  <2>4. \A k \in 1..((m + 1) + 1) : k \in 1..(m + 1) \/ e[k] = z
    OBVIOUS
  <2>. HIDE DEF z
  <2>5. CASE f[x] <= f[z]
    BY <2>2, <2>3, <2>4, <2>5
  <2>6. CASE f[z] < f[x]
    <3>1. \A k \in 1..((m + 1) + 1) : f[z] <= f[e[k]]
      BY <2>2, <2>3, <2>4, <2>6
    <3>. QED  BY <2>3, <3>1
  <2>. QED  BY <2>3, <2>5, <2>6
<1>7. Ok(n - 1)
  <2>1. Nat \subseteq T
    <3>. HIDE DEF T
    <3>. QED  BY <1>5, <1>6, SetInduction
  <2>2. n - 1 \in Nat /\ (n - 1) + 1 <= n
    BY <1>1, <1>3
  <2>. HIDE DEF Ok
  <2>. QED  BY <2>1, <2>2
<1>8. (n - 1) + 1 = n
  <2>. HIDE DEF n
  <2>. QED  BY <1>1
<1>. QED  BY <1>2, <1>7, <1>8

-----------------------------------------------------------------------------
(***************************************************************************)
(* What resolution hands over.                                             *)
(***************************************************************************)

\* The definition that wins is one of a live object.
LEMMA ClaimedFacts ==
    ASSUME NEW lk, Definitions!IsLink(lk), NEW s
    PROVE  LET c == Definitions!Claimed(lk, s) IN
           /\ {"isec", "align"} \subseteq DOMAIN c /\ c.align \in Nat
           /\ c.isec # 0 => /\ c.isec \in DOMAIN lk.isecs
                            /\ lk.objs[lk.isecs[c.isec].obj].live
<1>. DEFINE all == UNION {{o} \X DOMAIN lk.objs[o].syms : o \in DOMAIN lk.objs}
            defs == {d \in all : /\ lk.objs[d[1]].live
                                 /\ lk.objs[d[1]].syms[d[2]].name = s
                                 /\ lk.objs[d[1]].syms[d[2]].kind # "undef"}
            best == CHOOSE d \in defs :
                       \A e \in defs : Definitions!Rank(lk, d[1], d[2]) <= Definitions!Rank(lk, e[1], e[2])
            m == lk.objs[best[1]].syms[best[2]]
            libs == {d \in DOMAIN lk.dylibs : s \in lk.dylibs[d].exports}
            real == defs # {} /\ m.kind # "common"
            base == [file |-> Definitions!None, isec |-> 0, off |-> 0, ext |-> FALSE, pext |-> FALSE, weak |-> FALSE,
                     common |-> FALSE, imported |-> FALSE, keep |-> FALSE, align |-> 0, used |-> s \in lk.used]
            c == Definitions!Claimed(lk, s)
<1>1. c = IF real
          THEN [base EXCEPT !.file = Definitions!Obj(best[1]), !.isec = m.isec, !.off = m.off, !.ext = TRUE,
                            !.pext = m.pext, !.weak = m.weak, !.keep = m.keep]
          ELSE IF libs # {} /\ base.used /\ (defs = {} \/ lk.args.commons = "use_dylibs")
          THEN [base EXCEPT !.file = Definitions!Lib(Definitions!Min(libs)), !.imported = TRUE, !.ext = TRUE]
          ELSE IF defs # {} THEN [base EXCEPT !.common = TRUE, !.ext = TRUE, !.off = m.off, !.align = m.align]
          ELSE base
  BY DEF Definitions!Claimed
<1>2. /\ {"isec", "align"} \subseteq DOMAIN c /\ c.isec = IF real THEN m.isec ELSE 0
      /\ c.align = IF ~real /\ ~(libs # {} /\ base.used /\ (defs = {} \/ lk.args.commons = "use_dylibs")) /\ defs # {}
                   THEN m.align ELSE 0
  <2>. HIDE DEF c, m, defs, libs, best
  <2>. QED  BY <1>1
<1>3. /\ lk.objs \in Seq(Definitions!Object) /\ DOMAIN lk.objs = 1..Len(lk.objs) /\ Len(lk.objs) \in Nat
      /\ \A o \in DOMAIN lk.objs : lk.objs[o].syms \in Seq(Definitions!ObjectSymbol)
      /\ lk.isecs \in Seq(Definitions!InputSubsection)
  <2>1. lk.objs \in Seq(Definitions!Object) /\ lk.isecs \in Seq(Definitions!InputSubsection)
    BY DEF Definitions!IsLink
  <2>2. DOMAIN lk.objs = 1..Len(lk.objs) /\ Len(lk.objs) \in Nat
        /\ \A o \in DOMAIN lk.objs : lk.objs[o] \in Definitions!Object
    BY <2>1
  <2>. QED  BY <2>1, <2>2 DEF Definitions!Object
<1>4. IsFiniteSet(all)
  <2>1. \A o \in DOMAIN lk.objs : IsFiniteSet({o} \X DOMAIN lk.objs[o].syms)
    <3>. TAKE o \in DOMAIN lk.objs
    <3>1. DOMAIN lk.objs[o].syms = 1..Len(lk.objs[o].syms) /\ Len(lk.objs[o].syms) \in Nat
      BY <1>3
    <3>2. IsFiniteSet(DOMAIN lk.objs[o].syms)
      BY <3>1, FS_Interval
    <3>3. IsFiniteSet({o})
      BY FS_Singleton
    <3>. QED  BY <3>2, <3>3, FS_Product
  <2>2. IsFiniteSet(DOMAIN lk.objs)
    <3>1. DOMAIN lk.objs = 1..Len(lk.objs) /\ Len(lk.objs) \in Nat
      BY <1>3
    <3>. QED  BY <3>1, FS_Interval
  <2>3. IsFiniteSet({{o} \X DOMAIN lk.objs[o].syms : o \in DOMAIN lk.objs})
    <3>. DEFINE U == {{o} \X DOMAIN lk.objs[o].syms : o \in DOMAIN lk.objs}
                g == [o \in DOMAIN lk.objs |-> {o} \X DOMAIN lk.objs[o].syms]
    <3>1. g \in [DOMAIN lk.objs -> U] /\ \A u \in U : \E o \in DOMAIN lk.objs : g[o] = u
      OBVIOUS
    <3>2. g \in Surjection(DOMAIN lk.objs, U)
      <4>. HIDE DEF g, U
      <4>. QED  BY <3>1 DEF Surjection
    <3>. HIDE DEF g, U
    <3>3. IsFiniteSet(U)
      BY <2>2, <3>2, FS_Surjection
    <3>. QED  BY <3>3 DEF U
  <2>. QED  BY <2>1, <2>3, FS_UNION
<1>5. \A d \in defs : /\ d \in all /\ d[1] \in DOMAIN lk.objs /\ d[2] \in DOMAIN lk.objs[d[1]].syms
                      /\ lk.objs[d[1]].live /\ lk.objs[d[1]].syms[d[2]].kind # "undef"
                      /\ lk.objs[d[1]].syms[d[2]] \in Definitions!ObjectSymbol
  BY <1>3
<1>6. \A d \in defs : Definitions!Rank(lk, d[1], d[2]) \in Int
  <2>. TAKE d \in defs
  <2>. DEFINE x == lk.objs[d[1]].syms[d[2]]
              rank == CASE x.kind \in {"sect", "abs"} -> IF x.weak THEN 1 ELSE 0
                         [] x.kind = "common" -> 4
  <2>1. d[1] \in Nat /\ d[2] \in Nat
    <3>. HIDE DEF defs
    <3>. QED  BY <1>3, <1>5
  <2>2. x \in Definitions!ObjectSymbol /\ x.kind # "undef"
    <3>. HIDE DEF defs
    <3>. QED  BY <1>5
  <2>3. rank \in Nat
    <3>. HIDE DEF x
    <3>1. x.kind \in {"sect", "abs", "common"}
      BY <2>2 DEF Definitions!ObjectSymbol
    <3>. QED  BY <3>1
  <2>4. x.kind = "sect" => Definitions!WeakTerm(lk, x) \in Int
    <3>1. SUFFICES ASSUME x.kind = "sect"
                   PROVE  Definitions!WeakTerm(lk, x) \in Int
      OBVIOUS
    <3>2. x.isec \in DOMAIN lk.isecs
      <4>1. x \in Definitions!Range(lk.objs[d[1]].syms) /\ d[1] \in DOMAIN lk.objs
        <5>. HIDE DEF defs
        <5>. QED  BY <1>5 DEF Definitions!Range
      <4>. HIDE DEF x
      <4>. QED  BY <3>1, <4>1 DEF Definitions!IsLink
    <3>. HIDE DEF x
    <3>3. lk.isecs[x.isec] \in Definitions!InputSubsection
      BY <1>3, <3>2
    <3>4. lk.isecs[x.isec].p2align \in Nat
      BY <3>3 DEF Definitions!InputSubsection
    <3>. QED  BY <3>4 DEF Definitions!WeakTerm
  <2>5. Definitions!Rank(lk, d[1], d[2])
            = rank * 100000 + (IF rank = 1 /\ x.kind = "sect" THEN Definitions!WeakTerm(lk, x) * 100 ELSE 0)
              + d[1] * 10 + d[2]
    BY DEF Definitions!Rank
  <2>. HIDE DEF rank, x
  <2>6. (IF rank = 1 /\ x.kind = "sect" THEN Definitions!WeakTerm(lk, x) * 100 ELSE 0) \in Int
    BY <2>4
  <2>. QED  BY <2>1, <2>3, <2>5, <2>6
<1>7. defs # {} => best \in defs
  <2>. SUFFICES ASSUME defs # {}
                PROVE  best \in defs
    BY Zenon
  <2>. DEFINE f == [d \in defs |-> Definitions!Rank(lk, d[1], d[2])]
  <2>1. f \in [defs -> Int] /\ IsFiniteSet(defs) /\ defs # {}
    BY <1>4, <1>6, FS_Subset
  <2>2. \E d \in defs : \A e \in defs : f[d] <= f[e]
    <3>. HIDE DEF f, defs
    <3>. QED  BY <2>1, LeastOnFinite
  <2>. HIDE DEF defs
  <2>3. \E d \in defs : \A e \in defs : Definitions!Rank(lk, d[1], d[2]) <= Definitions!Rank(lk, e[1], e[2])
    BY <2>2
  <2>. QED  BY <2>3, Zenon
<1>. HIDE DEF best, defs
<1>8. c.align \in Nat
  <2>1. defs # {} => m.align \in Nat
    <3>1. defs # {} => m \in Definitions!ObjectSymbol
      BY <1>5, <1>7
    <3>. HIDE DEF m, defs
    <3>. QED  BY <3>1 DEF Definitions!ObjectSymbol
  <2>. HIDE DEF c, m, defs, libs, best, base
  <2>. QED  BY <1>2, <2>1
<1>. DEFINE Fits(i) == i \in DOMAIN lk.isecs /\ lk.objs[lk.isecs[i].obj].live
<1>9. ASSUME real, m.isec # 0
      PROVE  Fits(m.isec)
  <2>1. best[1] \in DOMAIN lk.objs /\ m \in Definitions!Range(lk.objs[best[1]].syms) /\ lk.objs[best[1]].live
    BY <1>5, <1>7, <1>9 DEF Definitions!Range
  <2>2. m.kind = "sect" => m.isec \in DOMAIN lk.isecs /\ lk.isecs[m.isec].obj = best[1]
    BY <2>1 DEF Definitions!IsLink
  <2>3. m.kind # "sect" => m.isec = 0
    BY <2>1 DEF Definitions!IsLink
  <2>. HIDE DEF m
  <2>. QED  BY <1>9, <2>1, <2>2, <2>3
<1>. HIDE DEF Fits
<1>10. {"isec", "align"} \subseteq DOMAIN c /\ (c.isec # 0 => Fits(c.isec))
  <2>. HIDE DEF c, m, real, base, libs
  <2>1. {"isec", "align"} \subseteq DOMAIN c /\ c.isec = IF real THEN m.isec ELSE 0
    BY <1>2, Zenon
  <2>. QED  BY <1>9, <2>1
<1>. HIDE DEF c
<1>. QED  BY <1>8, <1>10 DEF c, Fits

-----------------------------------------------------------------------------
(***************************************************************************)
(* The invariant of the passes that settle the definitions.                *)
(***************************************************************************)

\* What resolution hands over refers to nothing that is not there, and no
\* pass changes that.
RefersInside(table, secs, rels) ==
    \A k \in DOMAIN rels :
        IF rels[k].sym = "" THEN rels[k].isec \in DOMAIN secs
        ELSE rels[k].sym \in DOMAIN table /\ rels[k].isec = 0

IsPlacedSymbol(r, secs) ==
    {"isec", "align"} \subseteq DOMAIN r /\ r.isec \in {0} \cup DOMAIN secs /\ r.align \in Nat

SettleTypes ==
    /\ at \in Nat
    /\ DOMAIN syms \subseteq STRING \ {""} /\ IsFiniteSet(DOMAIN syms)
    /\ Definitions!IsOptions(args, DOMAIN syms)
    /\ objs \in Seq(Definitions!Object)
    /\ ArePlaced(isecs)

PlacesInv ==
    /\ \A s \in DOMAIN syms : IsPlacedSymbol(syms[s], isecs)
    /\ \A i \in DOMAIN isecs : RefersInside(syms, isecs, isecs[i].rels)
    /\ \A o \in DOMAIN objs : \A k \in DOMAIN objs[o].syms :
          /\ objs[o].syms[k].name \in DOMAIN syms
          /\ objs[o].syms[k].kind = "sect" => objs[o].syms[k].isec \in DOMAIN isecs
    /\ \A f \in inits : f.kind = "local" => f.isec \in DOMAIN isecs

OfLiveObject(i) == isecs[i].obj = 0 \/ objs[isecs[i].obj].live

\* In the output, or nowhere because of an option.
Standing == {i \in DOMAIN isecs : isecs[i].alive \/ Definitions!Removed(i)}

\* Before merge_literals each subsection stands for itself; after
\* remove_unreachable_files only those of live objects are left, and until
\* dead_strip all of them.  Symbols name no others.
LiveInv ==
    /\ at <= 6 => \A i \in DOMAIN isecs : isecs[i].repl = 0 /\ isecs[i].obj # 0
    /\ at > 2 => \A i \in DOMAIN isecs : isecs[i].alive => OfLiveObject(i)
    /\ at <= 15 => \A i \in DOMAIN isecs : OfLiveObject(i) => i \in Standing
    /\ \A s \in DOMAIN syms : syms[s].isec # 0 => OfLiveObject(syms[s].isec)

Coalesced == at > IF args.relocatable THEN 13 ELSE 15
Swept == at > 16 /\ \A i \in DOMAIN isecs : isecs[i].alive => isecs[i].repl = 0

\* Replacing leads to what is kept, unless dead_strip has taken all that was
\* replaced; and to the same literal, but for coalesced ones.
ReplacedInv ==
    /\ IsForest(isecs)
    /\ Leads(isecs, Standing) \/ Swept
    /\ KeepsLiterals(isecs) \/ (Coalesced /\ Definitions!WeakLiterals)

SettleInv == SettleTypes /\ PlacesInv /\ LiveInv /\ ReplacedInv

\* If each subsection stands for itself, all of this is so.
LEMMA NothingReplaced ==
    ASSUME NEW secs, ArePlaced(secs), \A i \in DOMAIN secs : secs[i].repl = 0
    PROVE  IsForest(secs) /\ KeepsLiterals(secs) /\ \A good : Leads(secs, good)
<1>1. Replaced(secs) = {}
  BY DEF Replaced
<1>. DEFINE t == [i \in DOMAIN secs |-> 1]
<1>2. Cardinality(Replaced(secs)) = 0
  BY <1>1, FS_EmptySet
<1>3. Climbs(secs, t)
  BY <1>1, <1>2 DEF Climbs
<1>4. IsForest(secs)
  BY <1>3 DEF IsForest
<1>. QED  BY <1>1, <1>4 DEF KeepsLiterals, Leads

LEMMA SettleInit == Definitions!Init => SettleInv
<1>1. SUFFICES ASSUME Definitions!Init
               PROVE  SettleInv
  OBVIOUS
<1>2. PICK lk : /\ Definitions!IsLink(lk)
                /\ at = 1 /\ inits = {} /\ args = lk.args /\ objs = lk.objs
                /\ isecs = [i \in DOMAIN lk.isecs |-> Definitions!Placed(lk.isecs[i])]
                /\ syms = [s \in lk.names |-> Definitions!Claimed(lk, s)]
  <2>1. PICK family \in SettleLinks : \E lk \in family :
                /\ at = 1 /\ inits = {} /\ args = lk.args /\ objs = lk.objs
                /\ isecs = [i \in DOMAIN lk.isecs |-> Definitions!Placed(lk.isecs[i])]
                /\ syms = [s \in lk.names |-> Definitions!Claimed(lk, s)]
    BY <1>1 DEF Definitions!Init
  <2>. QED  BY <2>1, SettleAssumption DEF Definitions!LinkAssumption
<1>3. /\ lk.objs \in Seq(Definitions!Object) /\ lk.isecs \in Seq(Definitions!InputSubsection)
      /\ lk.names \subseteq STRING \ {""} /\ IsFiniteSet(lk.names)
      /\ Definitions!IsOptions(lk.args, lk.names)
  BY <1>2 DEF Definitions!IsLink, Definitions!IsFiniteSet, IsFiniteSet
<1>4. /\ DOMAIN isecs = DOMAIN lk.isecs /\ DOMAIN lk.isecs = 1..Len(lk.isecs) /\ Len(lk.isecs) \in Nat
      /\ DOMAIN syms = lk.names
      /\ \A i \in DOMAIN lk.isecs : lk.isecs[i] \in Definitions!InputSubsection
  <2>1. lk.isecs \in Seq(Definitions!InputSubsection)
    BY <1>3
  <2>2. DOMAIN isecs = DOMAIN lk.isecs /\ DOMAIN syms = lk.names
    BY <1>2
  <2>. QED  BY <2>1, <2>2
<1>5. ASSUME NEW i \in DOMAIN isecs
      PROVE  /\ isecs[i] \in Subsection /\ isecs[i].repl = 0 /\ isecs[i].alive
             /\ isecs[i].obj = lk.isecs[i].obj /\ isecs[i].rels = lk.isecs[i].rels
             /\ isecs[i].obj \in DOMAIN objs
  <2>1. lk.isecs[i] \in Definitions!InputSubsection
    BY <1>4
  <2>2. isecs[i] = Definitions!Placed(lk.isecs[i])
    BY <1>2, <1>4
  <2>3. lk.isecs[i].obj \in DOMAIN objs
    BY <1>2, <1>4 DEF Definitions!IsLink
  <2>. QED  BY <2>1, <2>2, <2>3 DEF Definitions!Placed, Definitions!InputSubsection, Subsection
<1>6. ArePlaced(isecs)
  <2>1. isecs \in [1..Len(lk.isecs) -> Subsection]
    BY <1>2, <1>4, <1>5
  <2>. QED  BY <1>4, <1>5, <2>1 DEF ArePlaced
<1>7. SettleTypes
  <2>1. at \in Nat
    BY <1>2
  <2>2. /\ DOMAIN syms \subseteq STRING \ {""} /\ IsFiniteSet(DOMAIN syms)
        /\ Definitions!IsOptions(args, DOMAIN syms)
    <3>1. DOMAIN syms = lk.names /\ args = lk.args
      BY <1>2, <1>4
    <3>. QED  BY <1>3, <3>1
  <2>3. objs \in Seq(Definitions!Object)
    <3>1. objs = lk.objs
      BY <1>2
    <3>. QED  BY <1>3, <3>1
  <2>. QED  BY <1>6, <2>1, <2>2, <2>3, Zenon DEF SettleTypes
<1>8. \A s \in DOMAIN syms : /\ IsPlacedSymbol(syms[s], isecs)
                             /\ syms[s].isec # 0 => OfLiveObject(syms[s].isec)
  <2>. TAKE s \in DOMAIN syms
  <2>1. syms[s] = Definitions!Claimed(lk, s)
    BY <1>2, <1>4
  <2>2. /\ {"isec", "align"} \subseteq DOMAIN syms[s] /\ syms[s].align \in Nat
        /\ syms[s].isec # 0 => syms[s].isec \in DOMAIN lk.isecs /\ lk.objs[lk.isecs[syms[s].isec].obj].live
    BY <1>2, <2>1, ClaimedFacts
  <2>. QED  BY <1>2, <1>4, <1>5, <2>2 DEF OfLiveObject, IsPlacedSymbol
<1>9. PlacesInv
  <2>1. ASSUME NEW i \in DOMAIN isecs
        PROVE  RefersInside(syms, isecs, isecs[i].rels)
    <3>1. ASSUME NEW k \in DOMAIN isecs[i].rels
          PROVE  LET r == isecs[i].rels[k] IN
                 IF r.sym = "" THEN r.isec \in DOMAIN isecs ELSE r.sym \in DOMAIN syms /\ r.isec = 0
      <4>1. isecs[i].rels[k] \in Definitions!Range(lk.isecs[i].rels)
        BY <1>5, <3>1 DEF Definitions!Range
      <4>. QED  BY <1>2, <1>4, <4>1 DEF Definitions!IsLink
    <3>. QED  BY <3>1 DEF RefersInside
  <2>2. ASSUME NEW o \in DOMAIN objs, NEW k \in DOMAIN objs[o].syms
        PROVE  /\ objs[o].syms[k].name \in DOMAIN syms
               /\ objs[o].syms[k].kind = "sect" => objs[o].syms[k].isec \in DOMAIN isecs
    <3>1. objs[o].syms[k] \in Definitions!Range(lk.objs[o].syms) /\ o \in DOMAIN lk.objs
      BY <1>2 DEF Definitions!Range
    <3>. QED  BY <1>2, <1>4, <3>1 DEF Definitions!IsLink
  <2>3. \A s \in DOMAIN syms : IsPlacedSymbol(syms[s], isecs)
    BY <1>8
  <2>. QED  BY <1>2, <2>1, <2>2, <2>3 DEF PlacesInv
<1>10. LiveInv
  <2>1. \A i \in DOMAIN isecs : isecs[i].obj # 0
    <3>1. objs \in Seq(Definitions!Object)
      BY <1>2, <1>3
    <3>2. 0 \notin DOMAIN objs
      BY <3>1
    <3>. QED  BY <1>5, <3>2
  <2>. QED  BY <1>2, <1>5, <1>8, <2>1 DEF LiveInv, Standing
<1>11. ReplacedInv
  BY <1>5, <1>6, NothingReplaced DEF ReplacedInv
<1>. QED  BY <1>7, <1>9, <1>10, <1>11 DEF SettleInv

-----------------------------------------------------------------------------
(***************************************************************************)
(* The passes that leave the subsections alone, and those that only remove *)
(* some before any is replaced.                                            *)
(***************************************************************************)

\* Where in their order the passes that matter here are.
LEMMA PassPlaces ==
    ASSUME NEW p, Definitions!Pass(p)
    PROVE  /\ at' = at + 1
           /\ p = "remove_unreachable_files" <=> at = 2
           /\ p = "remove_swift_reflection_metadata" => at = 3
           /\ p = "convert_init_offsets" => at = 5
           /\ p = "merge_literals" => at = 6
           /\ p = "add_synthetic_symbols" => at = 7
           /\ p = "convert_common_symbols" => at = 8
           /\ p = "coalesce_weak_defs" => at = IF args.relocatable THEN 13 ELSE 15
           /\ p = "dead_strip" => at = 16
<1>1. at' = at + 1 /\ at \in DOMAIN Definitions!Order /\ Definitions!Order[at] = p
  BY DEF Definitions!Pass
<1>2. CASE args.relocatable
  <2>1. Definitions!Order = Definitions!RelocatablePasses
    BY <1>2 DEF Definitions!Order
  <2>2. at \in 1..14 /\ Definitions!RelocatablePasses[at] = p
    BY <1>1, <2>1 DEF Definitions!RelocatablePasses
  <2>. QED  BY <1>1, <1>2, <2>2 DEF Definitions!RelocatablePasses
<1>3. CASE ~args.relocatable
  <2>1. Definitions!Order = Definitions!FinalPasses
    BY <1>3 DEF Definitions!Order
  <2>2. at \in 1..28 /\ Definitions!FinalPasses[at] = p
    BY <1>1, <2>1 DEF Definitions!FinalPasses
  <2>. QED  BY <1>1, <1>3, <2>2 DEF Definitions!FinalPasses
<1>. QED  BY <1>2, <1>3

\* What symbols and subsections must keep for weak literals to stay what they are.
SamePlaces ==
    /\ DOMAIN syms' = DOMAIN syms
    /\ \A s \in DOMAIN syms : /\ {"isec", "align"} \subseteq DOMAIN syms'[s]
                             /\ syms'[s].isec = syms[s].isec /\ syms'[s].align = syms[s].align

LEMMA WeakLiteralsStay ==
    ASSUME SettleInv, objs' = objs, SamePlaces, DOMAIN isecs' = DOMAIN isecs,
           \A i \in DOMAIN isecs : isecs'[i].kind = isecs[i].kind,
           Definitions!WeakLiterals
    PROVE  Definitions!WeakLiterals'
<1>1. PICK o \in DOMAIN objs : \E m \in Definitions!Range(objs[o].syms) :
        /\ m.kind = "sect" /\ m.weak
        /\ \E i \in {m.isec, syms[m.name].isec} \ {0} : isecs[i].kind = "literal"
  BY DEF Definitions!WeakLiterals
<1>2. PICK k \in DOMAIN objs[o].syms :
        /\ objs[o].syms[k].kind = "sect" /\ objs[o].syms[k].weak
        /\ \E i \in {objs[o].syms[k].isec, syms[objs[o].syms[k].name].isec} \ {0} : isecs[i].kind = "literal"
  BY <1>1 DEF Definitions!Range
<1>. DEFINE m == objs[o].syms[k]
<1>3. m.name \in DOMAIN syms /\ m.isec \in DOMAIN isecs
  BY <1>2 DEF SettleInv, PlacesInv
<1>4. syms[m.name].isec \in {0} \cup DOMAIN isecs
  BY <1>3 DEF SettleInv, PlacesInv, IsPlacedSymbol
<1>. HIDE DEF m
<1>5. PICK i \in {m.isec, syms[m.name].isec} \ {0} : isecs[i].kind = "literal"
  BY <1>2 DEF m
<1>6. i \in {m.isec, syms'[m.name].isec} \ {0} /\ isecs'[i].kind = "literal"
  BY <1>3, <1>4, <1>5 DEF SamePlaces
<1>7. m \in Definitions!Range(objs'[o].syms) /\ o \in DOMAIN objs' /\ m.kind = "sect" /\ m.weak
  BY <1>2 DEF m, Definitions!Range
<1>. QED  BY <1>6, <1>7 DEF Definitions!WeakLiterals

\* The options the invariant is about.
SameOptions ==
    /\ Definitions!IsOptions(args', DOMAIN syms)
    /\ args'.relocatable = args.relocatable /\ args'.removeSwift = args.removeSwift
    /\ args'.initOffsets = args.initOffsets

LEMMA QuietKeeps ==
    ASSUME SettleInv, at' = at \/ (at' = at + 1 /\ at # 2), UNCHANGED <<objs, isecs, inits>>,
           SameOptions, SamePlaces
    PROVE  SettleInv'
<1>1. SettleTypes' /\ at \in Nat
  <2>1. DOMAIN syms' = DOMAIN syms /\ Definitions!IsOptions(args', DOMAIN syms)
    BY DEF SamePlaces, SameOptions
  <2>2. at \in Nat /\ at' \in Nat
    <3>1. at \in Nat
      BY DEF SettleInv, SettleTypes
    <3>. QED  BY <3>1
  <2>3. ArePlaced(isecs)'
    BY DEF SettleInv, SettleTypes, ArePlaced
  <2>4. DOMAIN syms' \subseteq STRING \ {""} /\ IsFiniteSet(DOMAIN syms') /\ objs' \in Seq(Definitions!Object)
    BY <2>1 DEF SettleInv, SettleTypes
  <2>5. Definitions!IsOptions(args', DOMAIN syms')
    BY <2>1
  <2>. QED  BY <2>2, <2>3, <2>4, <2>5 DEF SettleTypes
<1>2. PlacesInv'
  BY DEF SettleInv, PlacesInv, IsPlacedSymbol, SamePlaces, RefersInside
<1>3. Standing' = Standing
  BY DEF Standing, SameOptions, Definitions!Removed
<1>4. LiveInv'
  <2>1. /\ at' <= 6 => at <= 6
        /\ at' > 2 => at > 2
        /\ at' <= 15 => at <= 15
    BY <1>1
  <2>2. \A i : OfLiveObject(i)' <=> OfLiveObject(i)
    BY DEF OfLiveObject
  <2>. QED  BY <1>3, <2>1, <2>2 DEF SettleInv, LiveInv, SamePlaces
<1>5. ReplacedInv'
  <2>1. IsForest(isecs)' /\ (Leads(isecs, Standing) => Leads(isecs, Standing)') /\ (KeepsLiterals(isecs) => KeepsLiterals(isecs)')
    BY <1>3 DEF SettleInv, ReplacedInv
  <2>2. Swept => Swept'
    BY <1>1 DEF Swept
  <2>3. Coalesced => Coalesced'
    BY <1>1 DEF Coalesced, SameOptions
  <2>4. Definitions!WeakLiterals => Definitions!WeakLiterals'
    BY WeakLiteralsStay
  <2>. QED  BY <2>1, <2>2, <2>3, <2>4 DEF SettleInv, ReplacedInv
<1>. QED  BY <1>1, <1>2, <1>4, <1>5 DEF SettleInv

\* No symbol and no option changes.
LEMMA SameAnyway ==
    ASSUME SettleInv, UNCHANGED <<args, syms>>
    PROVE  SameOptions /\ SamePlaces
  BY DEF SettleInv, SettleTypes, PlacesInv, IsPlacedSymbol, SameOptions, SamePlaces

\* The passes that only report.
LEMMA ReportsKeep ==
    ASSUME SettleInv,
           \/ Definitions!CheckCommonConflicts \/ Definitions!CheckInitializers
           \/ Definitions!CheckRemovedSwiftMetadataRefs \/ Definitions!ReportUndefErrors
           \/ Definitions!Checkpoint \/ Definitions!CheckWeakImports \/ Definitions!CheckDuplicateSymbols
           \/ Definitions!CheckPoisonedSymbols \/ Definitions!CheckWeakExports
    PROVE  SettleInv'
<1>1. UNCHANGED <<args, objs, isecs, syms, inits>>
  BY DEF Definitions!CheckCommonConflicts, Definitions!CheckInitializers,
         Definitions!CheckRemovedSwiftMetadataRefs, Definitions!ReportUndefErrors,
         Definitions!Checkpoint, Definitions!CheckWeakImports, Definitions!CheckDuplicateSymbols,
         Definitions!CheckPoisonedSymbols, Definitions!CheckWeakExports
<1>2. PICK p \in
           {"check_common_conflicts", "check_initializers", "check_removed_swift_metadata_refs",
            "report_undef_errors", "checkpoint", "check_weak_imports", "check_duplicate_symbols",
            "check_poisoned_symbols", "check_weak_exports"} :
        Definitions!Pass(p)
  BY DEF Definitions!CheckCommonConflicts, Definitions!CheckInitializers,
         Definitions!CheckRemovedSwiftMetadataRefs, Definitions!ReportUndefErrors,
         Definitions!Checkpoint, Definitions!CheckWeakImports, Definitions!CheckDuplicateSymbols,
         Definitions!CheckPoisonedSymbols, Definitions!CheckWeakExports
<1>3. at' = at + 1 /\ at # 2
  BY <1>2, PassPlaces
<1>. QED  BY <1>1, <1>3, SameAnyway, QuietKeeps

LEMMA HidingKeepsPlaces ==
    ASSUME SettleInv, NEW S, Definitions!Hide(S)
    PROVE  SamePlaces
  BY DEF Definitions!Hide, Definitions!Names, SettleInv, PlacesInv, IsPlacedSymbol, SamePlaces

\* Those that change who sees a symbol.
LEMMA HidingKeeps ==
    ASSUME SettleInv,
           \/ Definitions!AutoHideWeakDefs \/ Definitions!HideAllExports
           \/ Definitions!HandleExportedSymbolsList \/ Definitions!HandleUnexportedSymbolsList
           \/ Definitions!ForceSymbolWeakness \/ Definitions!ClaimUnresolvedSymbols
    PROVE  SettleInv'
<1>1. UNCHANGED <<args, objs, isecs, inits>>
  BY DEF Definitions!AutoHideWeakDefs, Definitions!HideAllExports, Definitions!HandleExportedSymbolsList,
         Definitions!HandleUnexportedSymbolsList, Definitions!ForceSymbolWeakness, Definitions!ClaimUnresolvedSymbols
<1>2. PICK p \in
           {"auto_hide_weak_defs", "hide_all_exports", "exported_symbols_list",
            "unexported_symbols_list", "force_symbol_weakness", "claim_unresolved_symbols"} :
        Definitions!Pass(p)
  BY DEF Definitions!AutoHideWeakDefs, Definitions!HideAllExports, Definitions!HandleExportedSymbolsList,
         Definitions!HandleUnexportedSymbolsList, Definitions!ForceSymbolWeakness, Definitions!ClaimUnresolvedSymbols
<1>3. at' = at + 1 /\ at # 2
  BY <1>2, PassPlaces
<1>4. SamePlaces
  <2>1. CASE \/ Definitions!AutoHideWeakDefs \/ Definitions!HideAllExports
             \/ Definitions!HandleExportedSymbolsList \/ Definitions!HandleUnexportedSymbolsList
    <3>1. \E S : Definitions!Hide(S)
      BY <2>1 DEF Definitions!AutoHideWeakDefs, Definitions!HideAllExports,
                  Definitions!HandleExportedSymbolsList, Definitions!HandleUnexportedSymbolsList
    <3>. QED  BY <3>1, HidingKeepsPlaces
  <2>2. CASE Definitions!ForceSymbolWeakness
    BY <2>2 DEF Definitions!ForceSymbolWeakness, Definitions!Names, SettleInv, PlacesInv, IsPlacedSymbol, SamePlaces
  <2>3. CASE Definitions!ClaimUnresolvedSymbols
    BY <2>3 DEF Definitions!ClaimUnresolvedSymbols, Definitions!Names, SettleInv, PlacesInv, IsPlacedSymbol, SamePlaces
  <2>. QED  BY <2>1, <2>2, <2>3
<1>5. SameOptions
  BY <1>1 DEF SettleInv, SettleTypes, SameOptions
<1>. QED  BY <1>1, <1>3, <1>4, <1>5, QuietKeeps

LEMMA CreateSymbolReexportsKeeps ==
    ASSUME SettleInv, Definitions!CreateSymbolReexports
    PROVE  SettleInv'
<1>1. UNCHANGED <<objs, isecs, syms, inits>> /\ at' = at + 1 /\ at # 2
  BY PassPlaces DEF Definitions!CreateSymbolReexports
<1>2. \E S \in SUBSET DOMAIN syms : args' = [args EXCEPT !.initial = @ \cup S]
  BY DEF Definitions!CreateSymbolReexports, Definitions!Names
<1>3. SameOptions
  <2>1. PICK S \in SUBSET DOMAIN syms : args' = [args EXCEPT !.initial = @ \cup S]
    BY <1>2
  <2>2. Definitions!IsOptions(args, DOMAIN syms)
    BY DEF SettleInv, SettleTypes
  <2>3. args.initial \cup S \in SUBSET DOMAIN syms
    BY <2>2 DEF Definitions!IsOptions
  <2>4. Definitions!IsOptions(args', DOMAIN syms)
    BY <2>1, <2>2, <2>3 DEF Definitions!IsOptions
  <2>5. /\ args'.relocatable = args.relocatable /\ args'.removeSwift = args.removeSwift
        /\ args'.initOffsets = args.initOffsets
    BY <2>1, <2>2 DEF Definitions!IsOptions
  <2>. QED  BY <2>4, <2>5 DEF SameOptions
<1>4. SamePlaces
  BY <1>1 DEF SettleInv, PlacesInv, IsPlacedSymbol, SamePlaces
<1>. QED  BY <1>1, <1>3, <1>4, QuietKeeps

LEMMA KillKeeps ==
    ASSUME SettleInv, at \in {2, 3, 5}, at' = at + 1, NEW S, Definitions!Kill(S),
           UNCHANGED <<args, objs, syms>>,
           \A f \in inits' : f.kind = "local" => f.isec \in DOMAIN isecs,
           \A i \in S \cap DOMAIN isecs : ~OfLiveObject(i) \/ Definitions!Removed(i),
           at = 2 => \A i \in DOMAIN isecs : ~OfLiveObject(i) => i \in S
    PROVE  SettleInv'
<1>1. /\ ArePlaced(isecs) /\ \A i \in DOMAIN isecs : isecs[i] \in Subsection
      /\ DOMAIN isecs = 1..Len(isecs) /\ Len(isecs) \in Nat
  <2>1. ArePlaced(isecs)
    BY DEF SettleInv, SettleTypes
  <2>2. isecs \in Seq(Subsection)
    BY <2>1 DEF ArePlaced
  <2>. QED  BY <2>1, <2>2
<1>2. /\ DOMAIN isecs' = DOMAIN isecs /\ isecs' = [i \in DOMAIN isecs |-> isecs'[i]]
      /\ \A i \in DOMAIN isecs : isecs'[i] = [isecs[i] EXCEPT !.alive = @ /\ i \notin S]
  BY DEF Definitions!Kill
<1>3. ASSUME NEW i \in DOMAIN isecs
      PROVE  /\ isecs'[i] \in Subsection
             /\ isecs'[i].obj = isecs[i].obj /\ isecs'[i].kind = isecs[i].kind
             /\ isecs'[i].rels = isecs[i].rels /\ isecs'[i].repl = 0 /\ isecs[i].repl = 0 /\ isecs[i].obj # 0
             /\ isecs'[i].alive <=> (isecs[i].alive /\ i \notin S)
  <2>1. isecs[i].repl = 0 /\ isecs[i].obj # 0
    BY DEF SettleInv, LiveInv
  <2>2. isecs[i] \in Subsection /\ isecs'[i] = [isecs[i] EXCEPT !.alive = @ /\ i \notin S]
    BY <1>1, <1>2
  <2>. QED  BY <2>1, <2>2 DEF Subsection
<1>4. ArePlaced(isecs')
  <2>1. isecs' \in [1..Len(isecs) -> Subsection]
    BY <1>1, <1>2, <1>3
  <2>2. isecs' \in Seq(Subsection)
    BY <1>1, <2>1
  <2>. QED  BY <1>2, <1>3, <2>2 DEF ArePlaced
<1>5. SettleTypes'
  <2>1. at \in Nat
    BY DEF SettleInv, SettleTypes
  <2>2. at' \in Nat
    BY <2>1
  <2>3. Definitions!IsOptions(args, DOMAIN syms) /\ args' = args /\ syms' = syms /\ objs' = objs
    BY DEF SettleInv, SettleTypes
  <2>4. Definitions!IsOptions(args', DOMAIN syms')
    BY <2>3
  <2>5. DOMAIN syms' \subseteq STRING \ {""} /\ IsFiniteSet(DOMAIN syms') /\ objs' \in Seq(Definitions!Object)
    BY <2>3 DEF SettleInv, SettleTypes
  <2>. QED  BY <1>4, <2>2, <2>4, <2>5 DEF SettleTypes
<1>6. PlacesInv'
  <2>1. syms' = syms /\ objs' = objs /\ DOMAIN isecs' = DOMAIN isecs
    BY <1>2
  <2>2. \A i \in DOMAIN isecs : RefersInside(syms, isecs, isecs[i].rels)
    BY DEF SettleInv, PlacesInv
  <2>3. \A i \in DOMAIN isecs' : RefersInside(syms', isecs', isecs'[i].rels)
    <3>. TAKE i \in DOMAIN isecs'
    <3>1. isecs'[i].rels = isecs[i].rels /\ RefersInside(syms, isecs, isecs[i].rels)
      BY <1>3, <2>1, <2>2
    <3>2. RefersInside(syms, isecs, isecs'[i].rels)
      BY <3>1
    <3>. QED  BY <2>1, <3>2 DEF RefersInside
  <2>4. \A s \in DOMAIN syms' : IsPlacedSymbol(syms'[s], isecs')
    BY <2>1 DEF SettleInv, PlacesInv, IsPlacedSymbol
  <2>5. \A o \in DOMAIN objs' : \A k \in DOMAIN objs'[o].syms :
          /\ objs'[o].syms[k].name \in DOMAIN syms'
          /\ objs'[o].syms[k].kind = "sect" => objs'[o].syms[k].isec \in DOMAIN isecs'
    BY <2>1 DEF SettleInv, PlacesInv
  <2>. QED  BY <2>1, <2>3, <2>4, <2>5 DEF PlacesInv
<1>7. LiveInv'
  <2>1. \A i \in DOMAIN isecs : OfLiveObject(i)' <=> OfLiveObject(i)
    BY <1>3 DEF OfLiveObject
  <2>2. \A i \in DOMAIN isecs : Definitions!Removed(i)' <=> Definitions!Removed(i)
    BY <1>3 DEF Definitions!Removed
  <2>3. \A i \in DOMAIN isecs : OfLiveObject(i) => isecs[i].alive \/ Definitions!Removed(i)
    BY DEF SettleInv, LiveInv, Standing
  <2>4. \A i \in DOMAIN isecs' : OfLiveObject(i)' => i \in Standing'
    BY <1>2, <1>3, <2>1, <2>2, <2>3 DEF Standing
  <2>5. \A i \in DOMAIN isecs' : isecs'[i].alive => OfLiveObject(i)'
    <3>1. CASE at = 2
      BY <1>2, <1>3, <2>1, <3>1
    <3>2. CASE at # 2
      BY <1>2, <1>3, <2>1, <3>2 DEF SettleInv, LiveInv
    <3>. QED  BY <3>1, <3>2
  <2>6. (\A s \in DOMAIN syms : syms[s].isec # 0 => OfLiveObject(syms[s].isec))'
    <3>1. \A s \in DOMAIN syms : syms[s].isec # 0 => syms[s].isec \in DOMAIN isecs /\ OfLiveObject(syms[s].isec)
      BY DEF SettleInv, LiveInv, PlacesInv, IsPlacedSymbol
    <3>2. syms' = syms
      OBVIOUS
    <3>. QED  BY <1>3, <3>1, <3>2 DEF OfLiveObject
  <2>7. at \in Nat /\ \A i \in DOMAIN isecs' : isecs'[i].repl = 0 /\ isecs'[i].obj # 0
    BY <1>2, <1>3 DEF SettleInv, SettleTypes
  <2>. QED  BY <2>4, <2>5, <2>6, <2>7 DEF LiveInv
<1>8. ReplacedInv'
  BY <1>2, <1>3, <1>4, NothingReplaced DEF ReplacedInv
<1>. QED  BY <1>5, <1>6, <1>7, <1>8 DEF SettleInv

LEMMA RemovingKeeps ==
    ASSUME SettleInv,
           Definitions!RemoveUnreachableFiles \/ Definitions!RemoveSwiftReflectionMetadata
    PROVE  SettleInv'
<1>1. CASE Definitions!RemoveUnreachableFiles
  <2>. DEFINE S == {i \in DOMAIN isecs : ~objs[isecs[i].obj].live}
  <2>1. at' = at + 1 /\ at = 2 /\ UNCHANGED <<args, objs, syms, inits>> /\ Definitions!Kill(S)
    BY <1>1, PassPlaces DEF Definitions!RemoveUnreachableFiles
  <2>2. \A i \in DOMAIN isecs : i \in S <=> ~OfLiveObject(i)
    BY <2>1 DEF OfLiveObject, SettleInv, LiveInv
  <2>3. \A f \in inits' : f.kind = "local" => f.isec \in DOMAIN isecs
    BY <2>1 DEF SettleInv, PlacesInv
  <2>. HIDE DEF S
  <2>. QED  BY <2>1, <2>2, <2>3, KillKeeps
<1>2. CASE Definitions!RemoveSwiftReflectionMetadata
  <2>. DEFINE S == {i \in DOMAIN isecs : args.removeSwift /\ isecs[i].kind = "swift"}
  <2>1. at' = at + 1 /\ at = 3 /\ UNCHANGED <<args, objs, syms, inits>> /\ Definitions!Kill(S)
    BY <1>2, PassPlaces DEF Definitions!RemoveSwiftReflectionMetadata
  <2>2. \A i \in S \cap DOMAIN isecs : Definitions!Removed(i)
    BY DEF Definitions!Removed
  <2>3. \A f \in inits' : f.kind = "local" => f.isec \in DOMAIN isecs
    BY <2>1 DEF SettleInv, PlacesInv
  <2>. HIDE DEF S
  <2>. QED  BY <2>1, <2>2, <2>3, KillKeeps
<1>. QED  BY <1>1, <1>2

\* A subsection of the ones there are, for whatever is one now.
LEMMA SurvivorInside ==
    ASSUME SettleInv, NEW i \in DOMAIN isecs
    PROVE  LET s == Definitions!Survivor(isecs, i) IN s \in DOMAIN isecs /\ isecs[s].repl = 0
<1>1. ArePlaced(isecs) /\ IsForest(isecs)
  BY DEF SettleInv, SettleTypes, ReplacedInv
<1>2. \A j \in DOMAIN isecs \cap Replaced(isecs) : isecs[j].repl \in DOMAIN isecs
  BY <1>1, ReplacementFacts
<1>. QED  BY <1>1, <1>2, SurvivorFacts

\* What a relocation names.
LEMMA NamedInside ==
    ASSUME SettleInv, NEW i \in DOMAIN isecs, NEW k \in DOMAIN isecs[i].rels
    PROVE  LET r == isecs[i].rels[k] IN
           /\ r.isec \in {0} \cup DOMAIN isecs
           /\ r.sym = "" => r.isec \in DOMAIN isecs
           /\ r.sym # "" => syms[r.sym].isec \in {0} \cup DOMAIN isecs
  BY DEF SettleInv, PlacesInv, RefersInside, IsPlacedSymbol

LEMMA ConvertInitOffsetsKeeps ==
    ASSUME SettleInv, Definitions!ConvertInitOffsets
    PROVE  SettleInv'
<1>1. at' = at + 1 /\ at = 5 /\ UNCHANGED <<args, objs, syms>>
  BY PassPlaces DEF Definitions!ConvertInitOffsets
<1>2. CASE ~args.initOffsets
  <2>1. UNCHANGED <<isecs, inits>>
    BY <1>2 DEF Definitions!ConvertInitOffsets
  <2>. QED  BY <1>1, <2>1, SameAnyway, QuietKeeps
<1>3. CASE args.initOffsets
  <2>1. /\ inits' = UNION {{Definitions!InitFunc(isecs[i].rels[k]) : k \in DOMAIN isecs[i].rels} :
                           i \in Definitions!InitPointers}
        /\ Definitions!Kill(Definitions!InitPointers)
    BY <1>3 DEF Definitions!ConvertInitOffsets
  <2>2. \A f \in inits' : f.kind = "local" => f.isec \in DOMAIN isecs
    <3>1. SUFFICES ASSUME NEW i \in DOMAIN isecs, NEW k \in DOMAIN isecs[i].rels,
                          Definitions!InitFunc(isecs[i].rels[k]).kind = "local"
                   PROVE  Definitions!InitFunc(isecs[i].rels[k]).isec \in DOMAIN isecs
      BY <2>1 DEF Definitions!InitPointers
    <3>. DEFINE r == isecs[i].rels[k]
    <3>2. /\ r.sym = "" => r.isec \in DOMAIN isecs
          /\ r.sym # "" => syms[r.sym].isec \in {0} \cup DOMAIN isecs
      BY NamedInside
    <3>. HIDE DEF r
    <3>3. CASE r.sym = ""
      BY <3>2, <3>3, SurvivorInside DEF Definitions!InitFunc, r
    <3>4. CASE r.sym # "" /\ syms[r.sym].isec # 0
      BY <3>2, <3>4, SurvivorInside DEF Definitions!InitFunc, r
    <3>5. CASE r.sym # "" /\ syms[r.sym].isec = 0
      BY <3>1, <3>5 DEF Definitions!InitFunc, r
    <3>. QED  BY <3>3, <3>4, <3>5
  <2>3. \A i \in Definitions!InitPointers : Definitions!Removed(i)
    BY <1>3 DEF Definitions!InitPointers, Definitions!Removed
  <2>. QED  BY <1>1, <2>1, <2>2, <2>3, KillKeeps
<1>. QED  BY <1>2, <1>3

-----------------------------------------------------------------------------
(***************************************************************************)
(* The passes that place symbols, and merge_literals.                      *)
(***************************************************************************)

\* What a symbol table must keep to.
IsTable(table) ==
    /\ DOMAIN table = DOMAIN syms
    /\ \A s \in DOMAIN syms : /\ IsPlacedSymbol(table[s], isecs)
                              /\ table[s].isec # 0 => OfLiveObject(table[s].isec)

LEMMA TableNow ==
    ASSUME SettleInv
    PROVE  IsTable(syms)
  BY DEF SettleInv, PlacesInv, LiveInv, IsTable

LEMMA BestLiteralFacts ==
    ASSUME ArePlaced(isecs), NEW G \in SUBSET DOMAIN isecs, G # {}
    PROVE  LET b == Definitions!BestLiteral(G) IN
           b \in G /\ \A j \in G : isecs[b].p2align >= isecs[j].p2align
<1>1. /\ DOMAIN isecs = 1..Len(isecs) /\ Len(isecs) \in Nat
      /\ \A i \in DOMAIN isecs : isecs[i] \in Subsection
  <2>1. isecs \in Seq(Subsection)
    BY DEF ArePlaced
  <2>. QED  BY <2>1
<1>2. \A i \in G : i \in Nat /\ isecs[i].p2align \in Nat
  BY <1>1 DEF Subsection
<1>. DEFINE f == [i \in G |-> 0 - isecs[i].p2align]
<1>3. IsFiniteSet(G) /\ f \in [G -> Int]
  <2>1. IsFiniteSet(DOMAIN isecs)
    BY <1>1, FS_Interval
  <2>2. IsFiniteSet(G)
    BY <2>1, FS_Subset
  <2>3. \A i \in G : 0 - isecs[i].p2align \in Int
    BY <1>2
  <2>. QED  BY <2>2, <2>3
<1>4. PICK x \in G : \A y \in G : f[x] <= f[y]
  <2>. HIDE DEF f
  <2>. QED  BY <1>3, LeastOnFinite
<1>5. \A y \in G : isecs[x].p2align >= isecs[y].p2align
  BY <1>2, <1>4
<1>. DEFINE M == {i \in G : isecs[i].p2align = isecs[x].p2align}
<1>6. PICK b \in M : \A j \in M : b <= j
  <2>1. M \in SUBSET Nat /\ M # {}
    BY <1>2
  <2>. HIDE DEF M
  <2>. QED  BY <2>1, LeastNat
<1>7. \A j \in G : \/ isecs[b].p2align > isecs[j].p2align
                   \/ isecs[b].p2align = isecs[j].p2align /\ b <= j
  <2>. TAKE j \in G
  <2>1. isecs[b].p2align = isecs[x].p2align /\ isecs[b].p2align >= isecs[j].p2align /\ b \in G
    BY <1>5, <1>6
  <2>2. CASE isecs[j].p2align = isecs[x].p2align
    BY <1>6, <2>1, <2>2
  <2>3. CASE isecs[j].p2align # isecs[x].p2align
    BY <1>2, <2>1, <2>3
  <2>. QED  BY <2>2, <2>3
<1>. DEFINE c == Definitions!BestLiteral(G)
<1>8. /\ c \in G
      /\ \A j \in G : \/ isecs[c].p2align > isecs[j].p2align
                      \/ isecs[c].p2align = isecs[j].p2align /\ c <= j
  <2>1. b \in G
    BY <1>6
  <2>. QED  BY <1>7, <2>1 DEF Definitions!BestLiteral
<1>. HIDE DEF c
<1>9. \A j \in G : isecs[c].p2align >= isecs[j].p2align
  BY <1>2, <1>8
<1>. QED  BY <1>8, <1>9 DEF c

LEMMA MergeLiteralsKeeps ==
    ASSUME SettleInv, Definitions!MergeLiterals
    PROVE  SettleInv'
<1>. DEFINE literals == {i \in DOMAIN isecs : /\ Definitions!IsEmitted(i) /\ isecs[i].kind = "literal"
                                              /\ i \notin Definitions!MarkLabeled}
            same(i) == {j \in literals : Definitions!SameLiteral(i, j)}
            winner(i) == Definitions!BestLiteral(same(i))
            merged == [i \in DOMAIN isecs |-> IF i \in literals /\ winner(i) # i
                                              THEN [isecs[i] EXCEPT !.repl = winner(i)] ELSE isecs[i]]
<1>1. at' = at + 1 /\ at = 6 /\ UNCHANGED <<args, objs, inits>> /\ isecs' = merged
      /\ syms' = [s \in DOMAIN syms |-> IF syms[s].isec = 0 THEN syms[s]
                                       ELSE [syms[s] EXCEPT !.isec = Definitions!Survivor(merged, @)]]
  BY PassPlaces DEF Definitions!MergeLiterals, Definitions!RedirectSymbols, Definitions!Names
<1>2. /\ ArePlaced(isecs) /\ DOMAIN isecs = 1..Len(isecs) /\ Len(isecs) \in Nat
      /\ \A i \in DOMAIN isecs : isecs[i] \in Subsection /\ isecs[i].repl = 0
  <2>1. ArePlaced(isecs) /\ \A i \in DOMAIN isecs : isecs[i].repl = 0
    <3>1. ArePlaced(isecs)
      BY DEF SettleInv, SettleTypes
    <3>2. \A i \in DOMAIN isecs : isecs[i].repl = 0
      BY <1>1 DEF SettleInv, LiveInv
    <3>. QED  BY <3>1, <3>2
  <2>2. isecs \in Seq(Subsection)
    BY <2>1 DEF ArePlaced
  <2>. QED  BY <2>1, <2>2
<1>3. \A i \in literals : i \in DOMAIN isecs /\ isecs[i].alive /\ isecs[i].kind = "literal"
  BY DEF Definitions!IsEmitted
<1>4. \A i, j : Definitions!SameLiteral(i, j) <=> (isecs[i].kind = isecs[j].kind /\ isecs[i].bytes = isecs[j].bytes)
  BY DEF Definitions!SameLiteral
<1>. HIDE DEF literals
<1>5. ASSUME NEW i \in literals
      PROVE  /\ winner(i) \in literals
             /\ isecs[winner(i)].bytes = isecs[i].bytes
             /\ isecs[winner(i)].p2align >= isecs[i].p2align
             /\ winner(winner(i)) = winner(i)
  <2>1. same(i) \in SUBSET DOMAIN isecs /\ i \in same(i)
    BY <1>3, <1>4
  <2>2. winner(i) \in same(i) /\ isecs[winner(i)].p2align >= isecs[i].p2align
    <3>. HIDE DEF same
    <3>. QED  BY <1>2, <2>1, BestLiteralFacts
  <2>. DEFINE w == winner(i)
  <2>3. w \in literals /\ Definitions!SameLiteral(i, w)
    <3>. HIDE DEF winner
    <3>. QED  BY <2>2
  <2>4. same(w) = same(i)
    <3>. HIDE DEF w, winner
    <3>. QED  BY <1>4, <2>3
  <2>5. winner(w) = winner(i)
    <3>. HIDE DEF w, same
    <3>. QED  BY <2>4
  <2>6. isecs[w].bytes = isecs[i].bytes
    <3>. HIDE DEF w, winner
    <3>. QED  BY <1>4, <2>3
  <2>. QED  BY <2>2, <2>3, <2>5, <2>6
<1>. DEFINE loses(i) == i \in literals /\ winner(i) # i
<1>. HIDE DEF winner, same
<1>6. /\ DOMAIN merged = DOMAIN isecs
      /\ \A i \in DOMAIN isecs : merged[i] = IF loses(i) THEN [isecs[i] EXCEPT !.repl = winner(i)] ELSE isecs[i]
      /\ merged = [i \in DOMAIN isecs |-> merged[i]]
  OBVIOUS
<1>. HIDE DEF merged
<1>7. ASSUME NEW i \in DOMAIN isecs
      PROVE  /\ merged[i] \in Subsection
             /\ merged[i].obj = isecs[i].obj /\ merged[i].kind = isecs[i].kind /\ merged[i].bytes = isecs[i].bytes
             /\ merged[i].p2align = isecs[i].p2align /\ merged[i].rels = isecs[i].rels
             /\ merged[i].alive = isecs[i].alive
             /\ merged[i].repl = IF loses(i) THEN winner(i) ELSE 0
             /\ loses(i) => winner(i) \in literals /\ winner(i) \in DOMAIN isecs /\ ~loses(winner(i))
  <2>1. CASE loses(i)
    <3>1. winner(i) \in literals /\ winner(i) \in DOMAIN isecs /\ winner(winner(i)) = winner(i) /\ winner(i) \in Nat
      BY <1>2, <1>3, <1>5, <2>1
    <3>2. isecs[i] \in Subsection /\ merged[i] = [isecs[i] EXCEPT !.repl = winner(i)]
      BY <1>2, <1>6, <2>1
    <3>3. ~loses(winner(i))
      BY <3>1
    <3>. HIDE DEF loses
    <3>. QED  BY <2>1, <3>1, <3>2, <3>3 DEF Subsection
  <2>2. CASE ~loses(i)
    <3>. HIDE DEF loses
    <3>. QED  BY <1>2, <1>6, <2>2
  <2>. QED  BY <2>1, <2>2
<1>8. ArePlaced(merged)
  <2>1. merged \in [1..Len(isecs) -> Subsection]
    BY <1>2, <1>6, <1>7
  <2>2. merged \in Seq(Subsection)
    BY <1>2, <2>1
  <2>. HIDE DEF loses
  <2>. QED  BY <1>2, <1>6, <1>7, <2>2 DEF ArePlaced
<1>9. \A i \in Replaced(merged) : /\ i \in DOMAIN isecs /\ loses(i) /\ merged[i].repl = winner(i)
                                  /\ winner(i) \in literals /\ winner(i) \in DOMAIN isecs
                                  /\ merged[winner(i)].repl = 0
  <2>. HIDE DEF loses
  <2>. QED  BY <1>6, <1>7 DEF Replaced
<1>10. IsForest(merged)
  <2>. DEFINE K == Cardinality(Replaced(merged))
              t == [i \in DOMAIN merged |-> IF K = 0 THEN 1 ELSE IF merged[i].repl = 0 THEN 2 ELSE 1]
  <2>1. K \in Nat /\ (K = 0 => Replaced(merged) = {})
    BY <1>8, ReplacedFacts, FS_EmptySet
  <2>2. t \in [DOMAIN merged -> 1..(K + 1)]
    <3>. HIDE DEF K
    <3>. QED  BY <2>1
  <2>3. ASSUME NEW i \in Replaced(merged)
        PROVE  t[i] < t[merged[i].repl]
    <3>1. K # 0
      BY <2>1
    <3>2. i \in DOMAIN merged /\ merged[i].repl # 0 /\ merged[i].repl \in DOMAIN merged /\ merged[merged[i].repl].repl = 0
      BY <1>6, <1>9 DEF Replaced
    <3>. HIDE DEF K
    <3>. QED  BY <3>1, <3>2
  <2>. HIDE DEF t
  <2>. QED  BY <2>2, <2>3 DEF IsForest, Climbs
<1>11. ASSUME NEW i \in DOMAIN isecs, OfLiveObject(i)
       PROVE  LET s == Definitions!Survivor(merged, i) IN s \in DOMAIN isecs /\ OfLiveObject(s)
  <2>. DEFINE X == {j \in DOMAIN isecs : OfLiveObject(j)}
  <2>1. ASSUME NEW j \in X \cap Replaced(merged)
        PROVE  merged[j].repl \in X
    <3>1. merged[j].repl \in literals
      BY <1>9
    <3>. QED  BY <1>1, <1>3, <3>1 DEF SettleInv, LiveInv
  <2>2. i \in X /\ i \in DOMAIN merged
    BY <1>6, <1>11
  <2>3. Definitions!Survivor(merged, i) \in X
    <3>. HIDE DEF X
    <3>. QED  BY <1>8, <1>10, <2>1, <2>2, SurvivorFacts
  <2>. QED  BY <2>3
<1>12. ASSUME NEW s \in DOMAIN syms
       PROVE  IsPlacedSymbol(syms'[s], isecs) /\ (syms'[s].isec # 0 => OfLiveObject(syms'[s].isec))
  <2>1. IsPlacedSymbol(syms[s], isecs) /\ (syms[s].isec # 0 => OfLiveObject(syms[s].isec))
    BY TableNow DEF IsTable
  <2>2. CASE syms[s].isec = 0
    BY <1>1, <2>1, <2>2
  <2>3. CASE syms[s].isec # 0
    <3>. DEFINE v == Definitions!Survivor(merged, syms[s].isec)
    <3>1. v \in DOMAIN isecs /\ OfLiveObject(v)
      BY <1>11, <2>1, <2>3 DEF IsPlacedSymbol
    <3>2. syms'[s] = [syms[s] EXCEPT !.isec = v]
      BY <1>1, <2>3
    <3>. HIDE DEF v
    <3>3. syms'[s].isec = v /\ {"isec", "align"} \subseteq DOMAIN syms'[s] /\ syms'[s].align = syms[s].align
      BY <2>1, <3>2 DEF IsPlacedSymbol
    <3>. QED  BY <2>1, <3>1, <3>3 DEF IsPlacedSymbol
  <2>. QED  BY <2>2, <2>3
<1>. HIDE DEF loses
<1>13. DOMAIN syms' = DOMAIN syms /\ DOMAIN isecs' = DOMAIN isecs
  BY <1>1, <1>6
<1>14. SettleTypes'
  <2>1. at' \in Nat
    BY <1>1
  <2>2. Definitions!IsOptions(args', DOMAIN syms')
    <3>1. Definitions!IsOptions(args, DOMAIN syms) /\ args' = args
      BY <1>1 DEF SettleInv, SettleTypes
    <3>. QED  BY <1>13, <3>1
  <2>3. DOMAIN syms' \subseteq STRING \ {""} /\ IsFiniteSet(DOMAIN syms') /\ objs' \in Seq(Definitions!Object)
    BY <1>1, <1>13 DEF SettleInv, SettleTypes
  <2>. QED  BY <1>1, <1>8, <2>1, <2>2, <2>3 DEF SettleTypes
<1>15. PlacesInv'
  <2>1. ASSUME NEW i \in DOMAIN isecs'
        PROVE  RefersInside(syms', isecs', isecs'[i].rels)
    <3>1. i \in DOMAIN isecs /\ isecs'[i].rels = isecs[i].rels /\ RefersInside(syms, isecs, isecs[i].rels)
      BY <1>1, <1>7, <1>13 DEF SettleInv, PlacesInv
    <3>2. RefersInside(syms, isecs, isecs'[i].rels)
      BY <3>1
    <3>. QED  BY <1>13, <3>2 DEF RefersInside
  <2>2. \A s \in DOMAIN syms' : IsPlacedSymbol(syms'[s], isecs')
    BY <1>12, <1>13 DEF IsPlacedSymbol
  <2>3. \A o \in DOMAIN objs' : \A k \in DOMAIN objs'[o].syms :
          /\ objs'[o].syms[k].name \in DOMAIN syms'
          /\ objs'[o].syms[k].kind = "sect" => objs'[o].syms[k].isec \in DOMAIN isecs'
    BY <1>1, <1>13 DEF SettleInv, PlacesInv
  <2>4. \A f \in inits' : f.kind = "local" => f.isec \in DOMAIN isecs'
    BY <1>1, <1>13 DEF SettleInv, PlacesInv
  <2>. QED  BY <2>1, <2>2, <2>3, <2>4 DEF PlacesInv
<1>16. \A i \in DOMAIN isecs : /\ OfLiveObject(i)' <=> OfLiveObject(i)
                               /\ Definitions!Removed(i)' <=> Definitions!Removed(i)
                               /\ isecs'[i].alive <=> isecs[i].alive
  BY <1>1, <1>7 DEF OfLiveObject, Definitions!Removed
<1>17. Standing' = Standing
  BY <1>13, <1>16 DEF Standing
<1>18. LiveInv'
  <2>1. \A i \in DOMAIN isecs' : isecs'[i].alive => OfLiveObject(i)'
    BY <1>1, <1>13, <1>16 DEF SettleInv, LiveInv
  <2>2. \A i \in DOMAIN isecs' : OfLiveObject(i)' => i \in Standing'
    BY <1>1, <1>13, <1>16, <1>17 DEF SettleInv, LiveInv
  <2>3. (\A s \in DOMAIN syms : syms[s].isec # 0 => OfLiveObject(syms[s].isec))'
    <3>1. \A i \in DOMAIN isecs : isecs'[i].obj = isecs[i].obj
      BY <1>1, <1>7
    <3>. QED  BY <1>1, <1>12, <1>13, <3>1 DEF OfLiveObject, IsPlacedSymbol
  <2>. QED  BY <1>1, <2>1, <2>2, <2>3 DEF LiveInv
<1>19. ReplacedInv'
  <2>1. Leads(merged, Standing)
    <3>1. \A i \in literals : i \in Standing
      BY <1>3 DEF Standing
    <3>. QED  BY <1>9, <3>1 DEF Leads
  <2>2. KeepsLiterals(merged)
    <3>. SUFFICES ASSUME NEW i \in Replaced(merged)
                  PROVE  SameDatum(merged, i, merged[i].repl)
      BY DEF KeepsLiterals
    <3>1. /\ i \in DOMAIN isecs /\ i \in literals /\ merged[i].repl = winner(i)
          /\ winner(i) \in literals /\ winner(i) \in DOMAIN isecs
      BY <1>9 DEF loses
    <3>2. isecs[winner(i)].bytes = isecs[i].bytes /\ isecs[winner(i)].p2align >= isecs[i].p2align
      BY <1>5, <3>1
    <3>3. isecs[i].kind = "literal" /\ isecs[winner(i)].kind = "literal"
      BY <1>3, <3>1
    <3>. QED  BY <1>7, <3>1, <3>2, <3>3 DEF SameDatum
  <2>. QED  BY <1>1, <1>10, <1>17, <2>1, <2>2 DEF ReplacedInv
<1>. QED  BY <1>14, <1>15, <1>18, <1>19 DEF SettleInv

\* The passes that only give symbols other places.
LEMMA PlacingKeeps ==
    ASSUME SettleInv, at = 7, at' = at + 1, UNCHANGED <<args, objs, isecs, inits>>, IsTable(syms')
    PROVE  SettleInv'
<1>1. DOMAIN syms' = DOMAIN syms
  BY DEF IsTable
<1>2. SettleTypes'
  <2>1. at' \in Nat
    OBVIOUS
  <2>2. Definitions!IsOptions(args', DOMAIN syms')
    <3>1. Definitions!IsOptions(args, DOMAIN syms) /\ args' = args
      BY DEF SettleInv, SettleTypes
    <3>. QED  BY <1>1, <3>1
  <2>3. ArePlaced(isecs)'
    BY DEF SettleInv, SettleTypes, ArePlaced
  <2>4. DOMAIN syms' \subseteq STRING \ {""} /\ IsFiniteSet(DOMAIN syms') /\ objs' \in Seq(Definitions!Object)
    BY <1>1 DEF SettleInv, SettleTypes
  <2>. QED  BY <2>1, <2>2, <2>3, <2>4 DEF SettleTypes
<1>3. PlacesInv'
  <2>1. \A i \in DOMAIN isecs : RefersInside(syms', isecs, isecs[i].rels)
    BY <1>1 DEF SettleInv, PlacesInv, RefersInside
  <2>2. \A s \in DOMAIN syms' : IsPlacedSymbol(syms'[s], isecs)
    BY <1>1 DEF IsTable
  <2>3. \A o \in DOMAIN objs : \A k \in DOMAIN objs[o].syms :
          /\ objs[o].syms[k].name \in DOMAIN syms'
          /\ objs[o].syms[k].kind = "sect" => objs[o].syms[k].isec \in DOMAIN isecs
    BY <1>1 DEF SettleInv, PlacesInv
  <2>4. \A f \in inits : f.kind = "local" => f.isec \in DOMAIN isecs
    BY DEF SettleInv, PlacesInv
  <2>5. isecs' = isecs /\ objs' = objs /\ inits' = inits
    OBVIOUS
  <2>. QED  BY <2>1, <2>2, <2>3, <2>4, <2>5 DEF PlacesInv
<1>4. Standing' = Standing
  BY DEF Standing, Definitions!Removed
<1>5. LiveInv'
  <2>1. \A i \in DOMAIN isecs : (isecs[i].alive => OfLiveObject(i)) /\ (OfLiveObject(i) => i \in Standing)
    BY DEF SettleInv, LiveInv
  <2>2. \A i : OfLiveObject(i)' <=> OfLiveObject(i)
    BY DEF OfLiveObject
  <2>3. (\A s \in DOMAIN syms : syms[s].isec # 0 => OfLiveObject(syms[s].isec))'
    BY <1>1 DEF IsTable, OfLiveObject
  <2>. QED  BY <1>4, <2>1, <2>2, <2>3 DEF LiveInv
<1>6. ReplacedInv'
  <2>1. Leads(isecs, Standing) /\ IsForest(isecs) /\ KeepsLiterals(isecs)
    BY DEF SettleInv, ReplacedInv, Swept, Coalesced
  <2>2. isecs' = isecs
    OBVIOUS
  <2>. QED  BY <1>4, <2>1, <2>2 DEF ReplacedInv
<1>. QED  BY <1>2, <1>3, <1>5, <1>6 DEF SettleInv

\* The headers, the aliases one after another, and the boundaries.
LEMMA AddAliasFacts ==
    ASSUME SettleInv, NEW st, {"syms", "indirect"} \subseteq DOMAIN st, IsTable(st.syms),
           NEW a \in (DOMAIN syms) \X (DOMAIN syms)
    PROVE  LET new == Definitions!AddAlias(st, a) IN
           {"syms", "indirect"} \subseteq DOMAIN new /\ IsTable(new.syms)
<1>. DEFINE from == st.syms[a[1]]
            to == st.syms[a[2]]
            dropped == args.deadStrip /\ ~to.used /\ ~(Definitions!KeepsExport(a[2]) /\ a[2] \notin args.unexported)
            import == [to EXCEPT !.file = Definitions!Internal, !.isec = 0, !.off = 0, !.ext = TRUE]
            alias == [to EXCEPT !.file = from.file, !.isec = from.isec, !.off = from.off, !.ext = TRUE]
            new == Definitions!AddAlias(st, a)
<1>1. new = IF from.file = Definitions!None \/ dropped \/ to.file # Definitions!None THEN st
            ELSE IF from.imported
            THEN [syms |-> [st.syms EXCEPT ![a[2]] = import], indirect |-> st.indirect \cup {a}]
            ELSE [syms |-> [st.syms EXCEPT ![a[2]] = alias], indirect |-> st.indirect]
  BY DEF Definitions!AddAlias
<1>2. a[1] \in DOMAIN syms /\ a[2] \in DOMAIN syms /\ DOMAIN st.syms = DOMAIN syms
  BY DEF IsTable
<1>3. /\ IsPlacedSymbol(from, isecs) /\ IsPlacedSymbol(to, isecs)
      /\ from.isec # 0 => OfLiveObject(from.isec)
  BY <1>2 DEF IsTable
<1>. HIDE DEF from, to
<1>4. /\ IsPlacedSymbol(import, isecs) /\ import.isec = 0
      /\ IsPlacedSymbol(alias, isecs) /\ alias.isec = from.isec
  BY <1>3 DEF IsPlacedSymbol
<1>. HIDE DEF import, alias, dropped
<1>5. \A v : IsPlacedSymbol(v, isecs) /\ (v.isec # 0 => OfLiveObject(v.isec)) => IsTable([st.syms EXCEPT ![a[2]] = v])
  <2>. TAKE v
  <2>1. SUFFICES ASSUME IsPlacedSymbol(v, isecs), v.isec # 0 => OfLiveObject(v.isec)
                 PROVE  IsTable([st.syms EXCEPT ![a[2]] = v])
    OBVIOUS
  <2>. DEFINE table == [st.syms EXCEPT ![a[2]] = v]
  <2>2. DOMAIN table = DOMAIN syms /\ \A s \in DOMAIN syms : table[s] = IF s = a[2] THEN v ELSE st.syms[s]
    BY <1>2
  <2>. HIDE DEF table
  <2>3. IsTable(table)
    BY <2>1, <2>2 DEF IsTable
  <2>. QED  BY <2>3 DEF table
<1>6. IsTable([st.syms EXCEPT ![a[2]] = import]) /\ IsTable([st.syms EXCEPT ![a[2]] = alias])
  BY <1>3, <1>4, <1>5
<1>. DEFINE t1 == [st.syms EXCEPT ![a[2]] = import]
            t2 == [st.syms EXCEPT ![a[2]] = alias]
<1>. HIDE DEF t1, t2, new
<1>7. \/ new = st
      \/ new = [syms |-> t1, indirect |-> st.indirect \cup {a}]
      \/ new = [syms |-> t2, indirect |-> st.indirect]
  BY <1>1 DEF t1, t2
<1>8. IsTable(t1) /\ IsTable(t2)
  BY <1>6 DEF t1, t2
<1>9. {"syms", "indirect"} \subseteq DOMAIN new /\ (new.syms = st.syms \/ new.syms = t1 \/ new.syms = t2)
  BY <1>7
<1>10. IsTable(new.syms)
  BY <1>8, <1>9
<1>. QED  BY <1>9, <1>10 DEF new

LEMMA AddSyntheticSymbolsKeeps ==
    ASSUME SettleInv, Definitions!AddSyntheticSymbols
    PROVE  SettleInv'
<1>. DEFINE N == Len(args.aliases)
            c == [syms |-> Definitions!WithHeaders, indirect |-> {}]
            Step(n, st) == Definitions!AddAlias(st, args.aliases[n])
            G(g) == [n \in 0..N |-> IF n = 0 THEN c ELSE Step(n, g[n - 1])]
            e == CHOOSE g : g = G(g)
            Ok(m) == \E f : f = [n \in 0..m |-> IF n = 0 THEN c ELSE Step(n, f[n - 1])]
<1>1. at' = at + 1 /\ at = 7 /\ UNCHANGED <<args, objs, isecs, inits>> /\ syms' = Definitions!ClaimBoundary(e[N].syms)
  BY PassPlaces DEF Definitions!AddSyntheticSymbols
<1>2. /\ N \in Nat /\ \A n \in 1..N : args.aliases[n] \in (DOMAIN syms) \X (DOMAIN syms)
  <2>1. args.aliases \in Seq((DOMAIN syms) \X (DOMAIN syms))
    BY DEF SettleInv, SettleTypes, Definitions!IsOptions
  <2>. QED  BY <2>1
<1>3. \E f : f = G(f)
  <2>. DEFINE T == {m \in Nat : Ok(m)}
  <2>1. 0 \in T
    <3>. DEFINE f == [x \in 0..0 |-> c]
    <3>1. f = [n \in 0..0 |-> IF n = 0 THEN c ELSE Step(n, f[n - 1])]
      <4>. HIDE DEF c, Step
      <4>. QED  OBVIOUS
    <3>. HIDE DEF f, c, Step
    <3>. QED  BY <3>1
  <2>2. ASSUME NEW m \in Nat, m \in T
        PROVE  m + 1 \in T
    <3>. HIDE DEF c, Step
    <3>1. PICK f : f = [n \in 0..m |-> IF n = 0 THEN c ELSE Step(n, f[n - 1])]
      BY <2>2
    <3>. DEFINE g == [n \in 0..(m + 1) |-> IF n = m + 1 THEN Step(m + 1, f[m]) ELSE f[n]]
    <3>2. DOMAIN f = 0..m /\ \A n \in 0..m : f[n] = IF n = 0 THEN c ELSE Step(n, f[n - 1])
      BY <3>1
    <3>3. /\ \A n \in 0..m : g[n] = f[n]
          /\ g[m + 1] = Step(m + 1, f[m]) /\ g = [n \in 0..(m + 1) |-> g[n]]
      OBVIOUS
    <3>. HIDE DEF g
    <3>4. ASSUME NEW n \in 0..(m + 1)
          PROVE  g[n] = IF n = 0 THEN c ELSE Step(n, g[n - 1])
      <4>1. CASE n = m + 1
        <5>1. n # 0 /\ n - 1 = m /\ m \in 0..m
          BY <4>1
        <5>2. g[m] = f[m]
          BY <3>3, <5>1
        <5>. QED  BY <3>3, <4>1, <5>1, <5>2
      <4>2. CASE n = 0
        BY <3>2, <3>3, <4>2
      <4>3. CASE n \in 1..m
        <5>1. n # 0 /\ n \in 0..m /\ n - 1 \in 0..m
          BY <4>3
        <5>2. g[n] = f[n] /\ g[n - 1] = f[n - 1]
          BY <3>3, <5>1
        <5>. QED  BY <3>2, <5>1, <5>2
      <4>. QED  BY <4>1, <4>2, <4>3
    <3>5. g = [n \in 0..(m + 1) |-> IF n = 0 THEN c ELSE Step(n, g[n - 1])]
      BY <3>3, <3>4
    <3>6. Ok(m + 1)
      BY <3>5
    <3>. HIDE DEF Ok
    <3>. QED  BY <3>6
  <2>3. Nat \subseteq T
    <3>. HIDE DEF T
    <3>. QED  BY <2>1, <2>2, SetInduction
  <2>4. Ok(N)
    <3>. HIDE DEF Ok, N
    <3>. QED  BY <1>2, <2>3
  <2>. HIDE DEF c, Step, N
  <2>. QED  BY <2>4
<1>4. e = G(e)
  <2>. HIDE DEF G
  <2>. QED  BY <1>3
<1>5. e[0] = c /\ \A n \in 1..N : e[n] = Step(n, e[n - 1])
  <2>. HIDE DEF e, N, c, Step
  <2>. QED  BY <1>2, <1>4
<1>. DEFINE Good(st) == {"syms", "indirect"} \subseteq DOMAIN st /\ IsTable(st.syms)
            U == {n \in Nat : n <= N => Good(e[n])}
<1>6. 0 \in U
  <2>1. IsTable(Definitions!WithHeaders)
    <3>1. \A s \in DOMAIN syms : \/ Definitions!WithHeaders[s] = syms[s]
                                 \/ \E g : Definitions!WithHeaders[s] = Definitions!Define(s, 0, g)
      BY DEF Definitions!WithHeaders, Definitions!Names
    <3>2. \A s \in DOMAIN syms : \A g : LET d == Definitions!Define(s, 0, g) IN
             {"isec", "align"} \subseteq DOMAIN d /\ d.isec = 0 /\ d.align = syms[s].align
      BY TableNow DEF Definitions!Define, IsTable, IsPlacedSymbol
    <3>3. DOMAIN Definitions!WithHeaders = DOMAIN syms
      BY DEF Definitions!WithHeaders, Definitions!Names
    <3>4. ASSUME NEW s \in DOMAIN syms
          PROVE  LET d == Definitions!WithHeaders[s] IN
                 IsPlacedSymbol(d, isecs) /\ (d.isec # 0 => OfLiveObject(d.isec))
      BY <3>1, <3>2, TableNow DEF IsTable, IsPlacedSymbol
    <3>. QED  BY <3>3, <3>4 DEF IsTable
  <2>2. c.syms = Definitions!WithHeaders /\ {"syms", "indirect"} \subseteq DOMAIN c
    OBVIOUS
  <2>3. Good(c)
    <3>. HIDE DEF c
    <3>. QED  BY <2>1, <2>2
  <2>. HIDE DEF e, N, Good, c
  <2>. QED  BY <1>5, <2>3
<1>7. ASSUME NEW n \in Nat, n \in U
      PROVE  n + 1 \in U
  <2>. HIDE DEF e, N, Good
  <2>1. SUFFICES ASSUME n + 1 <= N
                 PROVE  Good(e[n + 1])
    OBVIOUS
  <2>2. n + 1 \in 1..N /\ (n + 1) - 1 = n /\ Good(e[n])
    BY <1>2, <1>7, <2>1
  <2>3. Good(Step(n + 1, e[n]))
    BY <1>2, <2>2, AddAliasFacts DEF Good
  <2>. HIDE DEF Step
  <2>. QED  BY <1>5, <2>2, <2>3
<1>8. IsTable(e[N].syms)
  <2>1. Nat \subseteq U
    <3>. HIDE DEF U
    <3>. QED  BY <1>6, <1>7, SetInduction
  <2>. HIDE DEF e, N
  <2>. QED  BY <1>2, <2>1
<1>. DEFINE table == e[N].syms
<1>9. IsTable(Definitions!ClaimBoundary(table))
  <2>. HIDE DEF table
  <2>1. IsTable(table)
    BY <1>8 DEF table
  <2>2. DOMAIN Definitions!ClaimBoundary(table) = DOMAIN syms
    BY DEF Definitions!ClaimBoundary, Definitions!Names
  <2>3. ASSUME NEW s \in DOMAIN syms
        PROVE  LET d == Definitions!ClaimBoundary(table)[s] IN
               {"isec", "align"} \subseteq DOMAIN d /\ d.isec = table[s].isec /\ d.align = table[s].align
    BY <2>1 DEF Definitions!ClaimBoundary, Definitions!Names, IsTable, IsPlacedSymbol
  <2>. QED  BY <2>1, <2>2, <2>3 DEF IsTable, IsPlacedSymbol
<1>10. IsTable(syms')
  <2>. HIDE DEF e, N
  <2>. QED  BY <1>1, <1>9
<1>. QED  BY <1>1, <1>10, PlacingKeeps

LEMMA CommonAlignFacts ==
    ASSUME NEW size, NEW given \in Nat
    PROVE  Definitions!CommonAlign(size, given) \in Nat
<1>. DEFINE S == {3} \cup {p \in 0..3 : 2^p >= size}
<1>1. S \in SUBSET Nat /\ S # {}
  OBVIOUS
<1>2. Definitions!Min(S) \in Nat
  <2>. HIDE DEF S
  <2>1. PICK x \in S : \A y \in S : x <= y
    BY <1>1, LeastNat
  <2>2. \E least \in S : \A y \in S : least <= y
    BY <2>1
  <2>3. Definitions!Min(S) \in S
    BY <2>2 DEF Definitions!Min
  <2>. QED  BY <1>1, <2>3
<1>3. Definitions!CommonAlign(size, given) = IF given # 0 \/ size = 0 THEN given ELSE Definitions!Min(S)
  BY DEF Definitions!CommonAlign
<1>. HIDE DEF S
<1>. QED  BY <1>2, <1>3

AreJoined(c, a, b) ==
    /\ c \in Seq(Subsection) /\ DOMAIN c = 1..(Len(a) + Len(b))
    /\ \A i \in 1..Len(a) : c[i] = a[i]
    /\ \A k \in 1..Len(b) : c[Len(a) + k] = b[k]

LEMMA ConcatenationFacts ==
    ASSUME NEW a, NEW b, a \in Seq(Subsection), b \in Seq(Subsection)
    PROVE  AreJoined(a \o b, a, b)
<1>1. Len(a) \in Nat /\ Len(b) \in Nat
  OBVIOUS
<1>2. a \o b \in Seq(Subsection) /\ Len(a \o b) = Len(a) + Len(b)
  OBVIOUS
<1>3. DOMAIN (a \o b) = 1..(Len(a) + Len(b))
  BY <1>2
<1>4. \A i \in 1..Len(a) : (a \o b)[i] = a[i]
  BY <1>1
<1>5. \A k \in 1..Len(b) : (a \o b)[Len(a) + k] = b[k]
  BY <1>1
<1>. QED  BY <1>2, <1>3, <1>4, <1>5 DEF AreJoined

LEMMA ConvertCommonSymbolsKeeps ==
    ASSUME SettleInv, Definitions!ConvertCommonSymbols
    PROVE  SettleInv'
<1>. DEFINE order == Definitions!SetToSeq(Definitions!Commons)
            new(s) == Definitions!Placed([obj |-> 0, kind |-> "zerofill", bytes |-> s, keep |-> FALSE, rels |-> <<>>,
                        p2align |-> Definitions!CommonAlign(syms[s].off, syms[s].align)])
            place(s) == Len(isecs) + (CHOOSE i \in DOMAIN order : order[i] = s)
            more == [i \in DOMAIN order |-> new(order[i])]
            N == Len(isecs)
            M == Len(order)
<1>1. at' = at + 1 /\ at = 8 /\ UNCHANGED <<args, objs, inits>> /\ isecs' = isecs \o more
      /\ syms' = [s \in DOMAIN syms |-> IF s \in Definitions!Commons
                    THEN [Definitions!Define(s, place(s), TRUE) EXCEPT !.off = 0, !.common = FALSE] ELSE syms[s]]
  BY PassPlaces DEF Definitions!ConvertCommonSymbols, Definitions!Names
<1>2. at = 8 /\ at' = 9
  <2>1. Definitions!Pass("convert_common_symbols")
    BY DEF Definitions!ConvertCommonSymbols
  <2>2. at' = at + 1 /\ at = 8
    BY <2>1, PassPlaces
  <2>. QED  BY <2>2
<1>3. Definitions!Commons \in SUBSET DOMAIN syms /\ IsFiniteSet(Definitions!Commons)
  <2>1. Definitions!Commons \in SUBSET DOMAIN syms
    BY DEF Definitions!Commons, Definitions!Names
  <2>2. IsFiniteSet(DOMAIN syms)
    BY DEF SettleInv, SettleTypes
  <2>. QED  BY <2>1, <2>2, FS_Subset
<1>4. /\ order \in Seq(DOMAIN syms) /\ M \in Nat /\ DOMAIN order = 1..M
      /\ \A k \in 1..M : order[k] \in DOMAIN syms
      /\ \A s \in Definitions!Commons : \E k \in DOMAIN order : order[k] = s
  <2>1. order \in Seq(Definitions!Commons) /\ \A s \in Definitions!Commons : \E k \in DOMAIN order : order[k] = s
    BY <1>3, SetToSeqFacts
  <2>. HIDE DEF order
  <2>2. order \in Seq(DOMAIN syms)
    BY <1>3, <2>1
  <2>. QED  BY <2>1, <2>2
<1>5. \A s \in Definitions!Commons : \E k \in 1..M : place(s) = N + k
  <2>. HIDE DEF order, M, N
  <2>. QED  BY <1>4 DEF N
<1>. HIDE DEF order, place
<1>6. ArePlaced(isecs) /\ isecs \in Seq(Subsection) /\ DOMAIN isecs = 1..N /\ N \in Nat
      /\ \A i \in DOMAIN isecs : isecs[i] \in Subsection
  <2>1. ArePlaced(isecs)
    BY DEF SettleInv, SettleTypes
  <2>2. isecs \in Seq(Subsection)
    BY <2>1 DEF ArePlaced
  <2>. QED  BY <2>1, <2>2
<1>7. ASSUME NEW s \in DOMAIN syms
      PROVE  /\ new(s) \in Subsection /\ new(s).obj = 0 /\ new(s).alive /\ new(s).repl = 0 /\ new(s).rels = <<>>
             /\ new(s).kind = "zerofill"
  <2>1. syms[s].align \in Nat /\ s \in STRING
    BY DEF SettleInv, SettleTypes, PlacesInv, IsPlacedSymbol
  <2>. DEFINE p == Definitions!CommonAlign(syms[s].off, syms[s].align)
  <2>2. p \in Nat
    BY <2>1, CommonAlignFacts
  <2>. HIDE DEF p
  <2>. DEFINE q == <<>>
  <2>3. q \in Seq(Definitions!Relocation)
    OBVIOUS
  <2>4. new(s) = [obj |-> 0, kind |-> "zerofill", bytes |-> s, p2align |-> p, keep |-> FALSE, rels |-> q,
                  alive |-> TRUE, repl |-> 0]
    BY DEF Definitions!Placed, p
  <2>. HIDE DEF new, q
  <2>5. [obj |-> 0, kind |-> "zerofill", bytes |-> s, p2align |-> p, keep |-> FALSE, rels |-> q,
         alive |-> TRUE, repl |-> 0] \in Subsection
    BY <2>1, <2>2, <2>3 DEF Subsection, Definitions!SectionKinds
  <2>6. new(s) \in Subsection
    BY <2>4, <2>5, Zenon
  <2>. QED  BY <2>4, <2>6 DEF q
<1>. HIDE DEF new
<1>8. more \in Seq(Subsection) /\ Len(more) = M /\ \A k \in 1..M : more[k] = new(order[k])
  <2>. HIDE DEF M
  <2>1. more \in [1..M -> Subsection] /\ \A k \in 1..M : more[k] = new(order[k])
    BY <1>4, <1>7
  <2>. HIDE DEF more
  <2>. QED  BY <1>4, <2>1
<1>. HIDE DEF more, M
<1>9. /\ isecs' \in Seq(Subsection) /\ DOMAIN isecs' = 1..(N + M)
      /\ \A i \in DOMAIN isecs : isecs'[i] = isecs[i] /\ i \in DOMAIN isecs'
      /\ \A k \in 1..M : isecs'[N + k] = new(order[k]) /\ N + k \in DOMAIN isecs'
  <2>1. /\ isecs \o more \in Seq(Subsection) /\ DOMAIN (isecs \o more) = 1..(N + M)
        /\ \A i \in 1..N : (isecs \o more)[i] = isecs[i]
        /\ \A k \in 1..M : (isecs \o more)[N + k] = more[k]
    <3>1. isecs \in Seq(Subsection)
      BY <1>6
    <3>2. more \in Seq(Subsection) /\ Len(more) = M
      BY <1>8
    <3>3. AreJoined(isecs \o more, isecs, more)
      BY <3>1, <3>2, ConcatenationFacts
    <3>. QED  BY <3>2, <3>3 DEF AreJoined
  <2>2. \A k \in 1..M : (isecs \o more)[N + k] = new(order[k])
    BY <1>8, <2>1
  <2>3. isecs' = isecs \o more
    BY <1>1
  <2>. HIDE DEF N
  <2>. QED  BY <1>4, <1>6, <2>1, <2>2, <2>3
<1>10. \A i \in DOMAIN isecs' : i \in DOMAIN isecs \/ \E k \in 1..M : i = N + k
  <2>1. \A i \in 1..(N + M) : i \in 1..N \/ (i - N \in 1..M /\ i = N + (i - N))
    <3>. HIDE DEF N
    <3>. QED  BY <1>4, <1>6
  <2>. HIDE DEF N
  <2>. QED  BY <1>6, <1>9, <2>1
<1>. HIDE DEF N
<1>11. \A i \in DOMAIN isecs' : \/ i \in DOMAIN isecs /\ isecs'[i] = isecs[i]
                                \/ /\ i \notin DOMAIN isecs
                                   /\ \E s \in DOMAIN syms : isecs'[i] = new(s)
  <2>1. \A k \in 1..M : N + k \notin DOMAIN isecs
    BY <1>4, <1>6
  <2>. QED  BY <1>4, <1>9, <1>10, <2>1
<1>12. ArePlaced(isecs')
  <2>1. \A i \in DOMAIN isecs' : isecs'[i].repl \in {0} \cup DOMAIN isecs'
    <3>1. \A i \in DOMAIN isecs : isecs[i].repl \in {0} \cup DOMAIN isecs
      BY <1>6 DEF ArePlaced
    <3>. QED  BY <1>7, <1>9, <1>11, <3>1
  <2>. QED  BY <1>9, <2>1 DEF ArePlaced
<1>13. Replaced(isecs') = Replaced(isecs)
  BY <1>7, <1>9, <1>11 DEF Replaced
<1>14. \A i \in Replaced(isecs) : isecs'[i] = isecs[i] /\ isecs[i].repl \in DOMAIN isecs /\ isecs'[isecs[i].repl] = isecs[isecs[i].repl]
  <2>1. \A i \in Replaced(isecs) : i \in DOMAIN isecs /\ isecs[i].repl \in DOMAIN isecs
    BY <1>6, ReplacementFacts
  <2>. QED  BY <1>9, <2>1
<1>15. IsForest(isecs')
  <2>1. PICK t : Climbs(isecs, t)
    BY DEF SettleInv, ReplacedInv, IsForest
  <2>. DEFINE K == Cardinality(Replaced(isecs))
              u == [i \in DOMAIN isecs' |-> IF i \in DOMAIN isecs THEN t[i] ELSE 1]
  <2>2. K \in Nat /\ t \in [DOMAIN isecs -> 1..(K + 1)] /\ \A i \in Replaced(isecs) : t[i] < t[isecs[i].repl]
    BY <1>6, <2>1, ReplacedFacts DEF Climbs
  <2>3. u \in [DOMAIN isecs' -> 1..(K + 1)]
    <3>. HIDE DEF K
    <3>. QED  BY <2>2
  <2>4. \A i \in DOMAIN isecs : u[i] = t[i]
    BY <1>9
  <2>. HIDE DEF u
  <2>5. \A i \in Replaced(isecs) : u[i] < u[isecs'[i].repl]
    <3>1. \A i \in Replaced(isecs) : i \in DOMAIN isecs
      BY DEF Replaced
    <3>. QED  BY <1>14, <2>2, <2>4, <3>1
  <2>. QED  BY <1>13, <2>3, <2>5 DEF IsForest, Climbs
<1>16. DOMAIN syms' = DOMAIN syms
  BY <1>1
<1>17. ASSUME NEW s \in DOMAIN syms
       PROVE  /\ IsPlacedSymbol(syms'[s], isecs')
              /\ syms'[s].isec # 0 => \/ syms[s].isec # 0 /\ syms'[s].isec = syms[s].isec
                                      \/ \E k \in 1..M : syms'[s].isec = N + k
  <2>1. IsPlacedSymbol(syms[s], isecs)
    BY DEF SettleInv, PlacesInv
  <2>2. CASE s \in Definitions!Commons
    <3>. DEFINE d == [Definitions!Define(s, place(s), TRUE) EXCEPT !.off = 0, !.common = FALSE]
    <3>1. {"isec", "align"} \subseteq DOMAIN d /\ d.isec = place(s) /\ d.align = syms[s].align
      BY <2>1 DEF Definitions!Define, IsPlacedSymbol
    <3>2. syms'[s] = d
      BY <1>1, <2>2
    <3>. HIDE DEF d
    <3>3. PICK k \in 1..M : place(s) = N + k
      BY <1>5, <2>2 DEF M, N, order, place
    <3>. QED  BY <1>9, <2>1, <3>1, <3>2, <3>3 DEF IsPlacedSymbol
  <2>3. CASE s \notin Definitions!Commons
    BY <1>1, <1>9, <2>1, <2>3 DEF IsPlacedSymbol
  <2>. QED  BY <2>2, <2>3
<1>18. SettleTypes'
  <2>1. at' \in Nat
    BY <1>2
  <2>2. Definitions!IsOptions(args', DOMAIN syms')
    <3>1. Definitions!IsOptions(args, DOMAIN syms) /\ args' = args
      BY <1>1 DEF SettleInv, SettleTypes
    <3>. QED  BY <1>16, <3>1
  <2>3. DOMAIN syms' \subseteq STRING \ {""} /\ IsFiniteSet(DOMAIN syms') /\ objs' \in Seq(Definitions!Object)
    BY <1>1, <1>16 DEF SettleInv, SettleTypes
  <2>. QED  BY <1>12, <2>1, <2>2, <2>3 DEF SettleTypes
<1>19. PlacesInv'
  <2>1. ASSUME NEW i \in DOMAIN isecs'
        PROVE  RefersInside(syms', isecs', isecs'[i].rels)
    <3>1. CASE i \in DOMAIN isecs /\ isecs'[i] = isecs[i]
      <4>1. RefersInside(syms, isecs, isecs[i].rels)
        BY <3>1 DEF SettleInv, PlacesInv
      <4>2. RefersInside(syms, isecs, isecs'[i].rels)
        BY <3>1, <4>1
      <4>. QED  BY <1>9, <1>16, <4>2 DEF RefersInside
    <3>2. CASE \E s \in DOMAIN syms : isecs'[i] = new(s)
      <4>1. isecs'[i].rels = <<>>
        BY <1>7, <3>2
      <4>2. DOMAIN isecs'[i].rels = {}
        BY <4>1
      <4>. QED  BY <4>2 DEF RefersInside
    <3>. QED  BY <1>11, <3>1, <3>2
  <2>2. \A s \in DOMAIN syms' : IsPlacedSymbol(syms'[s], isecs')
    BY <1>16, <1>17
  <2>3. \A o \in DOMAIN objs' : \A k \in DOMAIN objs'[o].syms :
          /\ objs'[o].syms[k].name \in DOMAIN syms'
          /\ objs'[o].syms[k].kind = "sect" => objs'[o].syms[k].isec \in DOMAIN isecs'
    BY <1>1, <1>9, <1>16 DEF SettleInv, PlacesInv
  <2>4. \A f \in inits' : f.kind = "local" => f.isec \in DOMAIN isecs'
    BY <1>1, <1>9 DEF SettleInv, PlacesInv
  <2>. QED  BY <2>1, <2>2, <2>3, <2>4 DEF PlacesInv
<1>20. \A i \in DOMAIN isecs : /\ OfLiveObject(i)' <=> OfLiveObject(i)
                               /\ i \in Standing' <=> i \in Standing
  BY <1>1, <1>9 DEF OfLiveObject, Standing, Definitions!Removed
<1>21. \A i \in DOMAIN isecs' : i \notin DOMAIN isecs => isecs'[i].obj = 0 /\ isecs'[i].alive
  BY <1>7, <1>11
<1>22. LiveInv'
  <2>1. \A i \in DOMAIN isecs' : isecs'[i].alive => OfLiveObject(i)'
    <3>1. \A i \in DOMAIN isecs : isecs[i].alive => OfLiveObject(i)
      BY <1>2 DEF SettleInv, LiveInv
    <3>. QED  BY <1>9, <1>20, <1>21, <3>1 DEF OfLiveObject
  <2>2. \A i \in DOMAIN isecs' : OfLiveObject(i)' => i \in Standing'
    <3>1. \A i \in DOMAIN isecs : OfLiveObject(i) => i \in Standing
      BY <1>2 DEF SettleInv, LiveInv
    <3>. QED  BY <1>20, <1>21, <3>1 DEF Standing
  <2>3. (\A s \in DOMAIN syms : syms[s].isec # 0 => OfLiveObject(syms[s].isec))'
    <3>1. SUFFICES ASSUME NEW s \in DOMAIN syms, syms'[s].isec # 0
                   PROVE  (isecs'[syms'[s].isec].obj = 0 \/ objs'[isecs'[syms'[s].isec].obj].live)
      BY <1>16 DEF OfLiveObject
    <3>2. CASE syms[s].isec # 0 /\ syms'[s].isec = syms[s].isec
      <4>1. syms[s].isec \in DOMAIN isecs /\ OfLiveObject(syms[s].isec)
        BY <3>2 DEF SettleInv, PlacesInv, LiveInv, IsPlacedSymbol
      <4>. QED  BY <1>1, <1>9, <3>2, <4>1 DEF OfLiveObject
    <3>3. CASE \E k \in 1..M : syms'[s].isec = N + k
      <4>1. PICK k \in 1..M : syms'[s].isec = N + k
        BY <3>3
      <4>2. isecs'[N + k] = new(order[k]) /\ new(order[k]).obj = 0
        BY <1>4, <1>7, <1>9
      <4>. QED  BY <4>1, <4>2, Zenon
    <3>. QED  BY <1>17, <3>1, <3>2, <3>3
  <2>. QED  BY <1>2, <2>1, <2>2, <2>3 DEF LiveInv
<1>23. ReplacedInv'
  <2>1. Leads(isecs, Standing) /\ KeepsLiterals(isecs)
    BY <1>2 DEF SettleInv, ReplacedInv, Swept, Coalesced
  <2>2. Leads(isecs', Standing')
    BY <1>13, <1>14, <1>20, <2>1 DEF Leads
  <2>3. KeepsLiterals(isecs')
    <3>. SUFFICES ASSUME NEW i \in Replaced(isecs')
                  PROVE  SameDatum(isecs', i, isecs'[i].repl)
      BY DEF KeepsLiterals
    <3>1. i \in Replaced(isecs) /\ SameDatum(isecs, i, isecs[i].repl)
      BY <1>13, <2>1 DEF KeepsLiterals
    <3>. QED  BY <1>14, <3>1 DEF SameDatum
  <2>. QED  BY <1>15, <2>2, <2>3 DEF ReplacedInv
<1>. QED  BY <1>18, <1>19, <1>22, <1>23 DEF SettleInv

-----------------------------------------------------------------------------
(***************************************************************************)
(* The passes that replace the copies of a weak definition and remove what *)
(* is not needed.                                                          *)
(***************************************************************************)

\* The copies that lose, and what they lose to: that is in the output, and
\* with no weak literal neither is one.
LEMMA WeakDefLosersFacts ==
    ASSUME SettleInv, at <= 15, NEW o \in DOMAIN objs
    PROVE  LET pairs == Definitions!WeakDefLosers(o) IN
           /\ pairs \in Seq((DOMAIN isecs) \X Standing)
           /\ \A k \in DOMAIN pairs : ~Definitions!WeakLiterals =>
                 isecs[pairs[k][1]].kind # "literal" /\ isecs[pairs[k][2]].kind # "literal"
<1>. DEFINE Q == {n \in Definitions!Range(objs[o].syms) :
                    /\ objs[o].live /\ n.kind = "sect" /\ n.weak
                    /\ Definitions!IsObj(n.name) /\ syms[n.name].file # Definitions!Obj(o)
                    /\ syms[n.name].isec # 0 /\ syms[n.name].off = n.off
                    /\ \A p \in Definitions!Range(objs[o].syms) : p.kind = "sect" /\ p.isec = n.isec => p.off = n.off}
            S == {<<m.isec, syms[m.name].isec>> : m \in Q}
            f == [m \in Q |-> <<m.isec, syms[m.name].isec>>]
<1>1. Definitions!WeakDefLosers(o) = Definitions!SetToSeq(S)
  BY DEF Definitions!WeakDefLosers
<1>2. \A m \in Q : /\ m \in Definitions!Range(objs[o].syms) /\ m.kind = "sect" /\ m.weak
                   /\ syms[m.name].isec # 0
  OBVIOUS
<1>3. IsFiniteSet(Q)
  <2>1. objs[o].syms \in Seq(Definitions!ObjectSymbol)
    <3>1. objs[o] \in Definitions!Object
      <4>1. objs \in Seq(Definitions!Object)
        BY DEF SettleInv, SettleTypes
      <4>. QED  BY <4>1
    <3>. QED  BY <3>1 DEF Definitions!Object
  <2>. DEFINE D == DOMAIN objs[o].syms
              R == Definitions!Range(objs[o].syms)
              g == [k \in D |-> objs[o].syms[k]]
  <2>2. IsFiniteSet(D)
    <3>1. D = 1..Len(objs[o].syms) /\ Len(objs[o].syms) \in Nat
      BY <2>1
    <3>. HIDE DEF D
    <3>. QED  BY <3>1, FS_Interval
  <2>3. g \in Surjection(D, R)
    BY DEF Surjection, Definitions!Range
  <2>4. IsFiniteSet(R)
    <3>. HIDE DEF g, D, R
    <3>. QED  BY <2>2, <2>3, FS_Surjection
  <2>5. Q \in SUBSET R
    OBVIOUS
  <2>. HIDE DEF Q, R
  <2>. QED  BY <2>4, <2>5, FS_Subset
<1>. HIDE DEF Q
<1>4. f \in Surjection(Q, S)
  BY DEF Surjection
<1>5. IsFiniteSet(S)
  <2>. HIDE DEF f, S
  <2>. QED  BY <1>3, <1>4, FS_Surjection
<1>6. ASSUME NEW x \in S
      PROVE  /\ x \in (DOMAIN isecs) \X Standing
             /\ ~Definitions!WeakLiterals => isecs[x[1]].kind # "literal" /\ isecs[x[2]].kind # "literal"
  <2>1. PICK m \in Q : x = <<m.isec, syms[m.name].isec>>
    OBVIOUS
  <2>2. m \in Definitions!Range(objs[o].syms) /\ m.kind = "sect" /\ m.weak /\ syms[m.name].isec # 0
    BY <1>2
  <2>3. m.name \in DOMAIN syms /\ m.isec \in DOMAIN isecs
    <3>1. PICK k \in DOMAIN objs[o].syms : objs[o].syms[k] = m
      BY <2>2 DEF Definitions!Range
    <3>. QED  BY <2>2, <3>1 DEF SettleInv, PlacesInv
  <2>4. syms[m.name].isec \in DOMAIN isecs /\ OfLiveObject(syms[m.name].isec)
    BY <2>2, <2>3 DEF SettleInv, PlacesInv, LiveInv, IsPlacedSymbol
  <2>5. syms[m.name].isec \in Standing
    BY <2>4 DEF SettleInv, LiveInv
  <2>6. m.isec # 0
    <3>1. isecs \in Seq(Subsection)
      BY DEF SettleInv, SettleTypes, ArePlaced
    <3>. QED  BY <2>3, <3>1
  <2>7. ~Definitions!WeakLiterals => isecs[m.isec].kind # "literal" /\ isecs[syms[m.name].isec].kind # "literal"
    BY <2>2, <2>6 DEF Definitions!WeakLiterals
  <2>. QED  BY <2>1, <2>3, <2>5, <2>7
<1>. HIDE DEF S
<1>7. Definitions!SetToSeq(S) \in Seq(S)
  BY <1>5, SetToSeqFacts
<1>. DEFINE q == Definitions!SetToSeq(S)
<1>. HIDE DEF q
<1>8. q \in Seq(S) /\ q = Definitions!WeakDefLosers(o)
  BY <1>1, <1>7 DEF q
<1>9. \A k \in DOMAIN q : q[k] \in S
  BY <1>8
<1>10. q \in Seq((DOMAIN isecs) \X Standing)
  BY <1>6, <1>8
<1>11. \A k \in DOMAIN q : ~Definitions!WeakLiterals =>
                 isecs[q[k][1]].kind # "literal" /\ isecs[q[k][2]].kind # "literal"
  BY <1>6, <1>9
<1>. QED  BY <1>8, <1>10, <1>11

\* The objects coalesce one after another.
LEMMA CoalesceWeakDefsResult ==
    ASSUME SettleInv, Definitions!CoalesceWeakDefs
    PROVE  isecs' \in Becomes(isecs, Standing, ~Definitions!WeakLiterals)
<1>. DEFINE N == Len(objs)
            V == Becomes(isecs, Standing, ~Definitions!WeakLiterals)
            Step(n, v) == Definitions!CoalesceAll(v, Definitions!WeakDefLosers(n))
            H == [n \in 1..N |-> [v \in V |-> Step(n, v)]]
            G(g) == [n \in 0..N |-> IF n = 0 THEN isecs ELSE Step(n, g[n - 1])]
            e == CHOOSE g : g = G(g)
<1>1. N \in Nat /\ DOMAIN objs = 1..N /\ isecs \in V
  <2>1. N \in Nat /\ DOMAIN objs = 1..N
    <3>1. objs \in Seq(Definitions!Object)
      BY DEF SettleInv, SettleTypes
    <3>. QED  BY <3>1
  <2>2. ArePlaced(isecs) /\ IsForest(isecs)
    BY DEF SettleInv, SettleTypes, ReplacedInv
  <2>3. isecs \in [DOMAIN isecs -> Subsection] /\ \A i \in DOMAIN isecs : isecs[i] \in Subsection
    BY <2>2 DEF ArePlaced
  <2>4. SameBut(isecs, isecs)
    BY <2>3 DEF SameBut, Subsection
  <2>5. at = IF args.relocatable THEN 13 ELSE 15
    BY PassPlaces DEF Definitions!CoalesceWeakDefs
  <2>6. Leads(isecs, Standing) /\ KeepsLiterals(isecs)
    BY <2>5 DEF SettleInv, ReplacedInv, Swept, Coalesced
  <2>. QED  BY <2>1, <2>2, <2>3, <2>4, <2>6 DEF Becomes
<1>2. ASSUME NEW n \in 1..N, NEW v \in V
      PROVE  Step(n, v) \in V
  <2>1. at <= 15
    BY PassPlaces DEF Definitions!CoalesceWeakDefs
  <2>. DEFINE pairs == Definitions!WeakDefLosers(n)
              strict == ~Definitions!WeakLiterals
  <2>2. /\ pairs \in Seq((DOMAIN isecs) \X Standing)
        /\ \A k \in DOMAIN pairs :
              strict => isecs[pairs[k][1]].kind # "literal" /\ isecs[pairs[k][2]].kind # "literal"
    BY <1>1, <2>1, WeakDefLosersFacts
  <2>3. Standing \in SUBSET DOMAIN isecs /\ strict \in BOOLEAN
    BY DEF Standing
  <2>4. v \in Becomes(isecs, Standing, strict)
    BY <1>2
  <2>. HIDE DEF pairs, strict
  <2>5. Definitions!CoalesceAll(v, pairs) \in Becomes(isecs, Standing, strict)
    BY <2>2, <2>3, <2>4, CoalesceAllFacts
  <2>. QED  BY <2>5 DEF pairs, strict
<1>3. \A n \in 1..N, v \in V : H[n][v] = Step(n, v) /\ H[n][v] \in V
  <2>. HIDE DEF Step, N, V
  <2>. QED  BY <1>2
<1>4. PICK f \in [0..N -> V] : f[0] = isecs /\ \A n \in 1..N : f[n] = H[n][f[n - 1]]
  <2>. HIDE DEF H, N, V
  <2>1. AreSteps(H, N, V)
    BY <1>3 DEF AreSteps
  <2>2. \E f \in [0..N -> V] : IsByStep(f, isecs, H, N)
    BY <1>1, <2>1, FunctionByStep
  <2>. QED  BY <2>2 DEF IsByStep
<1>5. \A n \in 1..N : f[n - 1] \in V /\ f[n] = Step(n, f[n - 1])
  <2>. HIDE DEF H, N, Step, V
  <2>1. \A n \in 1..N : f[n - 1] \in V
    BY <1>1, <1>4
  <2>. QED  BY <1>3, <1>4, <2>1
<1>6. f = G(f)
  <2>. HIDE DEF H, N, Step, V
  <2>1. \A n \in 0..N : f[n] = IF n = 0 THEN isecs ELSE Step(n, f[n - 1])
    BY <1>1, <1>4, <1>5
  <2>2. f = [n \in 0..N |-> f[n]]
    BY <1>4
  <2>. QED  BY <2>1, <2>2
<1>7. e = G(e)
  <2>. HIDE DEF G
  <2>. QED  BY <1>6
<1>8. e[0] = isecs /\ \A n \in 1..N : e[n] = Step(n, e[n - 1])
  <2>. HIDE DEF e, N, Step
  <2>. QED  BY <1>1, <1>7
<1>. DEFINE T == {n \in Nat : n <= N => e[n] \in V}
<1>9. 0 \in T
  <2>. HIDE DEF e, V, N
  <2>. QED  BY <1>1, <1>8
<1>10. ASSUME NEW n \in Nat, n \in T
       PROVE  n + 1 \in T
  <2>1. SUFFICES ASSUME n + 1 <= N
                 PROVE  e[n + 1] \in V
    OBVIOUS
  <2>2. n + 1 \in 1..N /\ (n + 1) - 1 = n /\ e[n] \in V
    BY <1>1, <1>10, <2>1
  <2>. HIDE DEF e, Step, N, V
  <2>3. e[n + 1] = Step(n + 1, e[n])
    BY <1>8, <2>2
  <2>. QED  BY <1>2, <2>2, <2>3
<1>11. e[N] \in V
  <2>1. Nat \subseteq T
    <3>. HIDE DEF T
    <3>. QED  BY <1>9, <1>10, SetInduction
  <2>. HIDE DEF e, V, N
  <2>. QED  BY <1>1, <2>1
<1>12. isecs' = e[N]
  BY DEF Definitions!CoalesceWeakDefs
<1>. HIDE DEF e, N
<1>. QED  BY <1>11, <1>12

\* Where things are, if the subsections change in other respects.
LEMMA SubsectionsChange ==
    ASSUME SettleInv, at' = at + 1, UNCHANGED <<args, objs, inits>>, SamePlaces \/ syms' = syms,
           ArePlaced(isecs'), DOMAIN isecs' = DOMAIN isecs,
           \A i \in DOMAIN isecs : isecs'[i].rels = isecs[i].rels
    PROVE  SettleTypes' /\ PlacesInv'
<1>1. SamePlaces /\ DOMAIN syms' = DOMAIN syms
  BY SameAnyway DEF SamePlaces
<1>2. SettleTypes'
  <2>1. at \in Nat /\ Definitions!IsOptions(args, DOMAIN syms) /\ args' = args
    BY DEF SettleInv, SettleTypes
  <2>2. at' \in Nat
    BY <2>1
  <2>3. Definitions!IsOptions(args', DOMAIN syms')
    BY <1>1, <2>1
  <2>4. DOMAIN syms' \subseteq STRING \ {""} /\ IsFiniteSet(DOMAIN syms') /\ objs' \in Seq(Definitions!Object)
    BY <1>1 DEF SettleInv, SettleTypes
  <2>. QED  BY <2>2, <2>3, <2>4 DEF SettleTypes
<1>3. PlacesInv'
  <2>1. ASSUME NEW i \in DOMAIN isecs'
        PROVE  RefersInside(syms', isecs', isecs'[i].rels)
    <3>1. isecs'[i].rels = isecs[i].rels /\ RefersInside(syms, isecs, isecs[i].rels)
      BY DEF SettleInv, PlacesInv
    <3>2. RefersInside(syms, isecs, isecs'[i].rels)
      BY <3>1
    <3>. QED  BY <1>1, <3>2 DEF RefersInside
  <2>2. \A s \in DOMAIN syms' : IsPlacedSymbol(syms'[s], isecs')
    BY <1>1 DEF SettleInv, PlacesInv, IsPlacedSymbol, SamePlaces
  <2>3. \A o \in DOMAIN objs' : \A k \in DOMAIN objs'[o].syms :
          /\ objs'[o].syms[k].name \in DOMAIN syms'
          /\ objs'[o].syms[k].kind = "sect" => objs'[o].syms[k].isec \in DOMAIN isecs'
    BY <1>1 DEF SettleInv, PlacesInv
  <2>4. \A f \in inits' : f.kind = "local" => f.isec \in DOMAIN isecs'
    BY DEF SettleInv, PlacesInv
  <2>. QED  BY <2>1, <2>2, <2>3, <2>4 DEF PlacesInv
<1>. QED  BY <1>2, <1>3

LEMMA CoalesceWeakDefsKeeps ==
    ASSUME SettleInv, Definitions!CoalesceWeakDefs
    PROVE  SettleInv'
<1>. DEFINE strict == ~Definitions!WeakLiterals
<1>1. /\ ArePlaced(isecs') /\ IsForest(isecs') /\ SameBut(isecs, isecs') /\ Leads(isecs', Standing)
      /\ strict => KeepsLiterals(isecs')
  BY CoalesceWeakDefsResult DEF Becomes
<1>2. at' = at + 1 /\ at = (IF args.relocatable THEN 13 ELSE 15) /\ UNCHANGED <<args, objs, syms, inits>>
  BY PassPlaces DEF Definitions!CoalesceWeakDefs
<1>3. \A i \in DOMAIN isecs : isecs[i] \in Subsection
  <2>1. ArePlaced(isecs)
    BY DEF SettleInv, SettleTypes
  <2>2. isecs \in Seq(Subsection)
    BY <2>1 DEF ArePlaced
  <2>. QED  BY <2>2
<1>4. /\ DOMAIN isecs' = DOMAIN isecs
      /\ \A i \in DOMAIN isecs : /\ isecs'[i].obj = isecs[i].obj /\ isecs'[i].kind = isecs[i].kind
                                 /\ isecs'[i].rels = isecs[i].rels /\ isecs'[i].alive = isecs[i].alive
  BY <1>1, <1>3 DEF SameBut, Subsection
<1>5. SettleTypes' /\ PlacesInv'
  BY <1>1, <1>2, <1>4, SubsectionsChange
<1>6. Standing' = Standing /\ \A i \in DOMAIN isecs : OfLiveObject(i)' <=> OfLiveObject(i)
  BY <1>2, <1>4 DEF Standing, Definitions!Removed, OfLiveObject
<1>7. LiveInv'
  <2>1. at \in {13, 15}
    BY <1>2
  <2>2. \A i \in DOMAIN isecs' : isecs'[i].alive => OfLiveObject(i)'
    BY <1>4, <1>6, <2>1 DEF SettleInv, LiveInv
  <2>3. \A i \in DOMAIN isecs' : OfLiveObject(i)' => i \in Standing'
    BY <1>4, <1>6, <2>1 DEF SettleInv, LiveInv
  <2>4. (\A s \in DOMAIN syms : syms[s].isec # 0 => OfLiveObject(syms[s].isec))'
    <3>1. \A s \in DOMAIN syms : syms[s].isec # 0 => syms[s].isec \in DOMAIN isecs /\ OfLiveObject(syms[s].isec)
      BY DEF SettleInv, LiveInv, PlacesInv, IsPlacedSymbol
    <3>. QED  BY <1>2, <1>4, <3>1 DEF OfLiveObject
  <2>5. at' \in {14, 16}
    BY <1>2, <2>1
  <2>. QED  BY <2>2, <2>3, <2>4, <2>5 DEF LiveInv
<1>8. ReplacedInv'
  <2>1. Coalesced'
    BY <1>2 DEF Coalesced
  <2>2. SamePlaces
    BY <1>2, SameAnyway
  <2>3. ~strict => Definitions!WeakLiterals'
    BY <1>2, <1>4, <2>2, WeakLiteralsStay
  <2>. QED  BY <1>1, <1>6, <2>1, <2>3 DEF ReplacedInv
<1>. QED  BY <1>5, <1>7, <1>8 DEF SettleInv

\* Whatever the walk reaches stands for itself.
LEMMA MarkedStand ==
    ASSUME SettleInv
    PROVE  \A i \in Definitions!Marked : i \in DOMAIN isecs /\ isecs[i].repl = 0
<1>. DEFINE N == Len(isecs)
            V == SUBSET {i \in DOMAIN isecs : isecs[i].repl = 0}
            Step(n, v) == v \cup UNION {Definitions!RelTargets(i) : i \in v}
            H == [n \in 1..N |-> [v \in V |-> Step(n, v)]]
            G(g) == [n \in 0..N |-> IF n = 0 THEN Definitions!Roots ELSE Step(n, g[n - 1])]
            e == CHOOSE g : g = G(g)
<1>1. N \in Nat /\ Definitions!Roots \in V
  <2>1. N \in Nat
    <3>1. ArePlaced(isecs)
      BY DEF SettleInv, SettleTypes
    <3>2. isecs \in Seq(Subsection)
      BY <3>1 DEF ArePlaced
    <3>. QED  BY <3>2
  <2>2. \A s \in DOMAIN syms : syms[s].isec \in {0} \cup DOMAIN isecs
    BY DEF SettleInv, PlacesInv, IsPlacedSymbol
  <2>3. \A f \in inits : f.kind = "local" => f.isec \in DOMAIN isecs
    BY DEF SettleInv, PlacesInv
  <2>4. Definitions!Initial \subseteq DOMAIN syms
    <3>1. args.initial \subseteq DOMAIN syms /\ args.aliases \in Seq((DOMAIN syms) \X (DOMAIN syms))
      BY DEF SettleInv, SettleTypes, Definitions!IsOptions
    <3>2. \A k \in DOMAIN args.aliases : args.aliases[k] \in (DOMAIN syms) \X (DOMAIN syms)
      BY <3>1
    <3>. QED  BY <3>1, <3>2 DEF Definitions!Initial
  <2>. DEFINE kept == {i \in DOMAIN isecs : isecs[i].alive /\ (isecs[i].keep \/ isecs[i].kind = "init")}
              named == {syms[s].isec : s \in {t \in Definitions!Names :
                          syms[t].keep \/ (Definitions!IsExported(t) /\ Definitions!KeepsExport(t))}}
              all == kept \cup {f.isec : f \in {g \in inits : g.kind = "local"}}
                          \cup {i \in named \ {0} : isecs[i].alive}
                          \cup ({syms[s].isec : s \in Definitions!Initial} \ {0})
  <2>5. Definitions!Roots = {Definitions!Survivor(isecs, i) : i \in all}
    BY DEF Definitions!Roots
  <2>6. all \subseteq DOMAIN isecs
    BY <2>2, <2>3, <2>4 DEF Definitions!Names
  <2>. HIDE DEF all
  <2>. QED  BY <2>1, <2>5, <2>6, SurvivorInside
<1>2. ASSUME NEW n \in 1..N, NEW v \in V
      PROVE  Step(n, v) \in V
  <2>. SUFFICES ASSUME NEW i \in v, NEW t \in Definitions!RelTargets(i)
                PROVE  t \in DOMAIN isecs /\ isecs[t].repl = 0
    OBVIOUS
  <2>. DEFINE all == ({r.isec : r \in Definitions!Range(isecs[i].rels)}
                      \cup {syms[r.sym].isec : r \in {q \in Definitions!Range(isecs[i].rels) : q.sym # ""}}) \ {0}
  <2>1. Definitions!RelTargets(i) = {Definitions!Survivor(isecs, j) : j \in all}
    BY DEF Definitions!RelTargets
  <2>2. \A r \in Definitions!Range(isecs[i].rels) :
           r.isec \in {0} \cup DOMAIN isecs /\ (r.sym # "" => syms[r.sym].isec \in {0} \cup DOMAIN isecs)
    <3>. TAKE r \in Definitions!Range(isecs[i].rels)
    <3>1. PICK k \in DOMAIN isecs[i].rels : isecs[i].rels[k] = r
      BY DEF Definitions!Range
    <3>2. i \in DOMAIN isecs
      OBVIOUS
    <3>. QED  BY <3>1, <3>2, NamedInside
  <2>3. all \subseteq DOMAIN isecs
    BY <2>2
  <2>. HIDE DEF all
  <2>. QED  BY <2>1, <2>3, SurvivorInside
<1>3. \A n \in 1..N, v \in V : H[n][v] = Step(n, v) /\ H[n][v] \in V
  <2>. HIDE DEF Step, N, V
  <2>. QED  BY <1>2
<1>4. PICK f \in [0..N -> V] : f[0] = Definitions!Roots /\ \A n \in 1..N : f[n] = H[n][f[n - 1]]
  <2>. HIDE DEF H, N, V
  <2>1. AreSteps(H, N, V)
    BY <1>3 DEF AreSteps
  <2>2. \E f \in [0..N -> V] : IsByStep(f, Definitions!Roots, H, N)
    BY <1>1, <2>1, FunctionByStep
  <2>. QED  BY <2>2 DEF IsByStep
<1>5. \A n \in 1..N : f[n - 1] \in V /\ f[n] = Step(n, f[n - 1])
  <2>. HIDE DEF H, N, Step, V
  <2>1. \A n \in 1..N : f[n - 1] \in V
    BY <1>1, <1>4
  <2>. QED  BY <1>3, <1>4, <2>1
<1>6. f = G(f)
  <2>. HIDE DEF H, N, Step, V
  <2>1. \A n \in 0..N : f[n] = IF n = 0 THEN Definitions!Roots ELSE Step(n, f[n - 1])
    BY <1>1, <1>4, <1>5
  <2>2. f = [n \in 0..N |-> f[n]]
    BY <1>4
  <2>. QED  BY <2>1, <2>2
<1>7. e = G(e)
  <2>. HIDE DEF G
  <2>. QED  BY <1>6
<1>8. e[0] = Definitions!Roots /\ \A n \in 1..N : e[n] = Step(n, e[n - 1])
  <2>. HIDE DEF e, N, Step
  <2>. QED  BY <1>1, <1>7
<1>. DEFINE T == {n \in Nat : n <= N => e[n] \in V}
<1>9. 0 \in T
  <2>. HIDE DEF e, V, N
  <2>. QED  BY <1>1, <1>8
<1>10. ASSUME NEW n \in Nat, n \in T
       PROVE  n + 1 \in T
  <2>1. SUFFICES ASSUME n + 1 <= N
                 PROVE  e[n + 1] \in V
    OBVIOUS
  <2>2. n + 1 \in 1..N /\ (n + 1) - 1 = n /\ e[n] \in V
    BY <1>1, <1>10, <2>1
  <2>. HIDE DEF e, Step, N, V
  <2>3. e[n + 1] = Step(n + 1, e[n])
    BY <1>8, <2>2
  <2>. QED  BY <1>2, <2>2, <2>3
<1>11. e[N] \in V
  <2>1. Nat \subseteq T
    <3>. HIDE DEF T
    <3>. QED  BY <1>9, <1>10, SetInduction
  <2>. HIDE DEF e, V, N
  <2>. QED  BY <1>1, <2>1
<1>12. Definitions!Marked = e[N]
  BY DEF Definitions!Marked
<1>. HIDE DEF e, N
<1>. QED  BY <1>11, <1>12

LEMMA DeadStripKeeps ==
    ASSUME SettleInv, Definitions!DeadStrip
    PROVE  SettleInv'
<1>1. at' = at + 1 /\ at = 16 /\ UNCHANGED <<args, objs, inits>>
  BY PassPlaces DEF Definitions!DeadStrip
<1>2. CASE ~args.deadStrip
  <2>1. UNCHANGED <<isecs, syms>>
    BY <1>2 DEF Definitions!DeadStrip
  <2>. QED  BY <1>1, <2>1, SameAnyway, QuietKeeps
<1>3. CASE args.deadStrip
  <2>. DEFINE swept == [i \in DOMAIN isecs |-> [isecs[i] EXCEPT !.alive = @ /\ i \in Definitions!Marked]]
  <2>1. isecs' = swept /\ \E U : syms' = [s \in DOMAIN syms |-> [syms[s] EXCEPT !.used = s \in U]]
    BY <1>3 DEF Definitions!DeadStrip, Definitions!Names
  <2>2. SamePlaces /\ DOMAIN syms' = DOMAIN syms
    BY <2>1 DEF SettleInv, PlacesInv, IsPlacedSymbol, SamePlaces
  <2>3. /\ ArePlaced(isecs) /\ DOMAIN isecs = 1..Len(isecs) /\ Len(isecs) \in Nat
        /\ \A i \in DOMAIN isecs : isecs[i] \in Subsection
    <3>1. ArePlaced(isecs)
      BY DEF SettleInv, SettleTypes
    <3>2. isecs \in Seq(Subsection)
      BY <3>1 DEF ArePlaced
    <3>. QED  BY <3>1, <3>2
  <2>4. /\ DOMAIN isecs' = DOMAIN isecs /\ isecs' = [i \in DOMAIN isecs |-> isecs'[i]]
        /\ \A i \in DOMAIN isecs : isecs'[i] = [isecs[i] EXCEPT !.alive = @ /\ i \in Definitions!Marked]
    BY <2>1
  <2>5. ASSUME NEW i \in DOMAIN isecs
        PROVE  /\ isecs'[i] \in Subsection
               /\ isecs'[i].obj = isecs[i].obj /\ isecs'[i].kind = isecs[i].kind
               /\ isecs'[i].rels = isecs[i].rels /\ isecs'[i].repl = isecs[i].repl
               /\ isecs'[i].bytes = isecs[i].bytes /\ isecs'[i].p2align = isecs[i].p2align
               /\ isecs'[i].alive <=> (isecs[i].alive /\ i \in Definitions!Marked)
    <3>1. isecs[i] \in Subsection /\ isecs'[i] = [isecs[i] EXCEPT !.alive = @ /\ i \in Definitions!Marked]
      BY <2>3, <2>4
    <3>2. (isecs[i].alive /\ i \in Definitions!Marked) \in BOOLEAN
      OBVIOUS
    <3>. QED  BY <3>1, <3>2 DEF Subsection
  <2>6. ArePlaced(isecs')
    <3>1. isecs' \in [1..Len(isecs) -> Subsection]
      BY <2>3, <2>4, <2>5
    <3>2. isecs' \in Seq(Subsection)
      BY <2>3, <3>1
    <3>3. \A i \in DOMAIN isecs : isecs[i].repl \in {0} \cup DOMAIN isecs
      BY <2>3 DEF ArePlaced
    <3>. QED  BY <2>4, <2>5, <3>2, <3>3 DEF ArePlaced
  <2>7. SettleTypes' /\ PlacesInv'
    BY <1>1, <2>2, <2>4, <2>5, <2>6, SubsectionsChange
  <2>8. LiveInv'
    <3>1. \A i \in DOMAIN isecs' : isecs'[i].alive => OfLiveObject(i)'
      <4>1. \A i \in DOMAIN isecs : isecs[i].alive => OfLiveObject(i)
        BY <1>1 DEF SettleInv, LiveInv
      <4>. QED  BY <1>1, <2>4, <2>5, <4>1 DEF OfLiveObject
    <3>2. (\A s \in DOMAIN syms : syms[s].isec # 0 => OfLiveObject(syms[s].isec))'
      <4>1. \A s \in DOMAIN syms : syms[s].isec # 0 => syms[s].isec \in DOMAIN isecs /\ OfLiveObject(syms[s].isec)
        BY DEF SettleInv, LiveInv, PlacesInv, IsPlacedSymbol
      <4>. QED  BY <1>1, <2>2, <2>5, <4>1 DEF OfLiveObject, SamePlaces
    <3>. QED  BY <1>1, <3>1, <3>2 DEF LiveInv
  <2>9. ReplacedInv'
    <3>1. Replaced(isecs') = Replaced(isecs)
      BY <2>4, <2>5 DEF Replaced
    <3>2. \A i \in Replaced(isecs) : i \in DOMAIN isecs /\ isecs[i].repl \in DOMAIN isecs /\ isecs'[i].repl = isecs[i].repl
      BY <2>3, <2>5, ReplacementFacts DEF Replaced
    <3>3. IsForest(isecs')
      <4>1. PICK t : Climbs(isecs, t)
        BY DEF SettleInv, ReplacedInv, IsForest
      <4>2. Climbs(isecs', t)
        BY <2>4, <3>1, <3>2, <4>1 DEF Climbs
      <4>. QED  BY <4>2 DEF IsForest
    <3>4. Swept'
      <4>1. \A i \in DOMAIN isecs' : isecs'[i].alive => isecs'[i].repl = 0
        BY <2>4, <2>5, MarkedStand
      <4>. QED  BY <1>1, <4>1 DEF Swept
    <3>5. KeepsLiterals(isecs) => KeepsLiterals(isecs')
      <4>1. ASSUME NEW i \in Replaced(isecs), SameDatum(isecs, i, isecs[i].repl)
            PROVE  SameDatum(isecs', i, isecs'[i].repl)
        BY <2>5, <3>2, <4>1 DEF SameDatum
      <4>. QED  BY <3>1, <4>1 DEF KeepsLiterals
    <3>6. Coalesced => Coalesced'
      BY <1>1 DEF Coalesced
    <3>7. Definitions!WeakLiterals => Definitions!WeakLiterals'
      BY <1>1, <2>2, <2>4, <2>5, WeakLiteralsStay
    <3>. QED  BY <3>3, <3>4, <3>5, <3>6, <3>7 DEF SettleInv, ReplacedInv
  <2>. QED  BY <2>7, <2>8, <2>9 DEF SettleInv
<1>. QED  BY <1>2, <1>3

-----------------------------------------------------------------------------
(***************************************************************************)
(* Every pass keeps the invariant, and survivors stand because of it.      *)
(***************************************************************************)

LEMMA SurvivorsStandNow ==
    ASSUME SettleInv
    PROVE  Definitions!SurvivorsStand
<1>. SUFFICES ASSUME NEW i \in DOMAIN isecs
              PROVE  LET j == Definitions!Survivor(isecs, i) IN
                     /\ isecs[j].repl = 0
                     /\ isecs[i].alive => isecs[j].alive \/ Definitions!Removed(j)
                     /\ isecs[i].kind = "literal" /\ isecs[i].repl # 0 /\ ~Definitions!WeakLiterals =>
                           /\ isecs[j].kind = "literal" /\ isecs[j].bytes = isecs[i].bytes
                           /\ isecs[j].p2align >= isecs[i].p2align
  BY DEF Definitions!SurvivorsStand
<1>. DEFINE j == Definitions!Survivor(isecs, i)
<1>1. /\ ArePlaced(isecs) /\ IsForest(isecs)
      /\ Leads(isecs, Standing) \/ Swept
      /\ KeepsLiterals(isecs) \/ Definitions!WeakLiterals
  BY DEF SettleInv, SettleTypes, ReplacedInv
<1>2. j \in DOMAIN isecs /\ isecs[j].repl = 0
  BY SurvivorInside
<1>3. isecs[i].repl = 0 => j = i
  BY <1>1, SurvivorOfItself
<1>4. isecs[i].alive => isecs[j].alive \/ Definitions!Removed(j)
  <2>1. CASE Swept
    BY <1>3, <2>1 DEF Swept
  <2>2. CASE isecs[i].repl = 0
    BY <1>3, <2>2
  <2>3. CASE Leads(isecs, Standing) /\ isecs[i].repl # 0
    <3>. DEFINE X == Standing \cup Replaced(isecs)
    <3>1. i \in X
      BY <2>3 DEF Replaced
    <3>2. ASSUME NEW k \in X \cap Replaced(isecs)
          PROVE  isecs[k].repl \in X
      <4>1. isecs[k].repl \in DOMAIN isecs
        BY <1>1, ReplacementFacts
      <4>2. isecs[isecs[k].repl].repl # 0 \/ isecs[k].repl \in Standing
        BY <2>3 DEF Leads
      <4>. QED  BY <4>1, <4>2 DEF Replaced
    <3>3. j \in X
      <4>. HIDE DEF X
      <4>. QED  BY <1>1, <3>1, <3>2, SurvivorFacts
    <3>4. j \in Standing
      BY <1>2, <3>3 DEF Replaced
    <3>. QED  BY <3>4 DEF Standing
  <2>. QED  BY <1>1, <2>1, <2>2, <2>3
<1>5. ASSUME isecs[i].kind = "literal", ~Definitions!WeakLiterals
      PROVE  /\ isecs[j].kind = "literal" /\ isecs[j].bytes = isecs[i].bytes
             /\ isecs[j].p2align >= isecs[i].p2align
  <2>. DEFINE X == {k \in DOMAIN isecs : /\ isecs[k].kind = "literal" /\ isecs[k].bytes = isecs[i].bytes
                                         /\ isecs[k].p2align >= isecs[i].p2align}
  <2>1. \A k \in DOMAIN isecs : isecs[k].p2align \in Nat
    <3>1. isecs \in Seq(Subsection)
      BY <1>1 DEF ArePlaced
    <3>2. \A k \in DOMAIN isecs : isecs[k] \in Subsection
      BY <3>1
    <3>. QED  BY <3>2 DEF Subsection
  <2>2. i \in X
    BY <1>5, <2>1
  <2>3. ASSUME NEW k \in X \cap Replaced(isecs)
        PROVE  isecs[k].repl \in X
    <3>1. k \in DOMAIN isecs /\ isecs[k].repl \in DOMAIN isecs
      BY <1>1, ReplacementFacts
    <3>2. SameDatum(isecs, k, isecs[k].repl)
      BY <1>1, <1>5 DEF KeepsLiterals
    <3>. QED  BY <2>1, <3>1, <3>2 DEF SameDatum
  <2>4. j \in X
    <3>. HIDE DEF X
    <3>. QED  BY <1>1, <2>2, <2>3, SurvivorFacts
  <2>. QED  BY <2>4
<1>. QED  BY <1>2, <1>4, <1>5

LEMMA SettleStutter ==
    ASSUME SettleInv, UNCHANGED Definitions!vars
    PROVE  SettleInv'
<1>1. at' = at /\ UNCHANGED <<args, objs, isecs, syms, inits>>
  BY DEF Definitions!vars
<1>. QED  BY <1>1, SameAnyway, QuietKeeps

SettlingInv == part = "definitions" => SettleInv

\* A step of the composition is a pass, or leaves the definitions alone.
LEMMA SettlingSteps ==
    ASSUME [Next]_vars, part' = "definitions"
    PROVE  part = "definitions" /\ [Definitions!Next]_(Definitions!vars)
<1>1. CASE UNCHANGED vars
  BY <1>1 DEF vars, Definitions!vars
<1>2. CASE ResolveSteps \/ IcfSteps \/ ObjcSteps
  <2>1. part # "definitions" /\ part' = part
    BY <1>2 DEF ResolveSteps, ResolveTakes, IcfSteps, IcfTakes, ObjcSteps, ObjcTakes
  <2>. QED  BY <2>1
<1>3. CASE Over
  BY <1>1, <1>3 DEF Over
<1>4. CASE DefinitionsSteps
  BY <1>4 DEF DefinitionsSteps, DefinitionsTakes
<1>. QED  BY <1>1, <1>2, <1>3, <1>4 DEF Next

\* Whatever resolution hands over, the passes between it and the checks keep
\* references, symbols and objects in range, and replace subsections without
\* going round, by ones in the output and literals by their like
\* (merge_literals, coalesce_weak_defs, convert_common_symbols, dead_strip).
THEOREM SettlingInvariant == Spec => []SettlingInv
<1>1. Init => SettlingInv
  <2>1. SUFFICES ASSUME Init, part = "definitions"
                 PROVE  SettleInv
    BY DEF SettlingInv
  <2>2. Definitions!Init
    BY <2>1 DEF Init, ResolveInit, DefinitionsInit, IcfInit, ObjcInit
  <2>. QED  BY <2>2, SettleInit
<1>2. SettlingInv /\ [Next]_vars => SettlingInv'
  <2>1. SUFFICES ASSUME SettlingInv, [Next]_vars, part' = "definitions"
                 PROVE  SettleInv'
    BY DEF SettlingInv
  <2>2. SettleInv /\ [Definitions!Next]_(Definitions!vars)
    BY <2>1, SettlingSteps DEF SettlingInv
  <2>. QED  BY <2>2, SettleStutter, ReportsKeep, RemovingKeeps, ConvertInitOffsetsKeeps, MergeLiteralsKeeps,
              AddSyntheticSymbolsKeeps, ConvertCommonSymbolsKeeps, HidingKeeps, CreateSymbolReexportsKeeps,
              CoalesceWeakDefsKeeps, DeadStripKeeps DEF Definitions!Next
<1>. QED  BY <1>1, <1>2, PTL DEF Spec

\* In any link, however literals merge, weak definitions coalesce and dead
\* code goes, no reference is left with a subsection that is gone: what a
\* live subsection resolves to stands for itself and is in the output, unless
\* an option removes it, and is the literal it replaces, as aligned, unless a
\* weak definition is a literal (merge_literals, coalesce_weak_defs,
\* dead_strip).
THEOREM SurvivorsAlwaysStand == Spec => []SurvivorsStand
<1>1. SettlingInv => SurvivorsStand
  BY SurvivorsStandNow DEF SettlingInv, SurvivorsStand
<1>. QED  BY <1>1, SettlingInvariant, PTL

==============================================================================
