--------------------------- MODULE SegmentsProofs ---------------------------
(***************************************************************************)
(* Proofs about the layout of segments, for every image: the variables     *)
(* keep their types, segments overlap only where pins or the image base    *)
(* ask them to, chunks stay within their segments although these move, and *)
(* what is made in the course of a layout is that of the last one.         *)
(***************************************************************************)
EXTENDS Segments, FiniteSetTheorems, WellFoundedInduction, TLAPS

-----------------------------------------------------------------------------
(***************************************************************************)
(* Numbers.                                                                *)
(***************************************************************************)

\* A set of numbers has a least one.
LEMMA LeastNat ==
    ASSUME NEW T \in SUBSET Nat, T # {}
    PROVE  \E x \in T : \A y \in T : x <= y
<1>1. PICK x \in T : \A y \in T : ~(<<y, x>> \in OpToRel(<, Nat))
  <2>. HIDE DEF OpToRel
  <2>. QED  BY WFMin, NatLessThanWellFounded, Zenon
<1>2. \A y \in T : ~(y < x)
  <2>. TAKE y \in T
  <2>1. ~(<<y, x>> \in OpToRel(<, Nat))
    BY <1>1
  <2>. QED  BY <2>1 DEF OpToRel
<1>. QED  BY <1>2

\* What holds of 0, and of n + 1 if of n, holds of all numbers: as a set, for
\* the provers take no predicate as a parameter.
LEMMA SetInduction ==
    ASSUME NEW T, 0 \in T, \A n \in Nat : n \in T => n + 1 \in T
    PROVE  Nat \subseteq T
<1>1. SUFFICES ASSUME Nat \ T # {}
               PROVE  FALSE
  OBVIOUS
<1>2. PICK x \in Nat \ T : \A y \in Nat \ T : x <= y
  BY <1>1, LeastNat
<1>3. x # 0 /\ x - 1 \in Nat /\ x - 1 \notin T
  BY <1>2
<1>. QED  BY <1>2, <1>3

LEMMA MinFacts ==
    ASSUME NEW T \in SUBSET Nat, T # {}
    PROVE  Min(T) \in T /\ \A y \in T : Min(T) <= y
  BY LeastNat DEF Min

LEMMA MaxFacts ==
    ASSUME NEW T \in SUBSET Nat, T # {}, NEW b \in Nat, \A y \in T : y <= b
    PROVE  Max(T) \in T /\ \A y \in T : y <= Max(T)
<1>. DEFINE U == {c \in Nat : \A y \in T : y <= c}
<1>1. PICK c \in U : \A e \in U : c <= e
  <2>1. b \in U /\ U \in SUBSET Nat
    OBVIOUS
  <2>. HIDE DEF U
  <2>. QED  BY <2>1, LeastNat
<1>2. c \in T
  <2>1. SUFFICES ASSUME c \notin T
                 PROVE  FALSE
    OBVIOUS
  <2>2. \A y \in T : y <= c /\ y # c
    BY <1>1, <2>1
  <2>3. PICK y \in T : TRUE
    OBVIOUS
  <2>4. c - 1 \in U
    BY <1>1, <2>2, <2>3
  <2>. QED  BY <1>1, <2>4
<1>3. \E x \in T : \A y \in T : x >= y
  BY <1>1, <1>2
<1>4. Max(T) \in T /\ \A y \in T : Max(T) >= y
  BY <1>3 DEF Max
<1>. QED  BY <1>4

LEMMA MaxOfTwo ==
    ASSUME NEW x \in Nat, NEW y \in Nat
    PROVE  Max({x, y}) \in Nat /\ Max({x, y}) >= x /\ Max({x, y}) >= y
<1>. DEFINE T == {x, y}
<1>1. T \in SUBSET Nat /\ T # {} /\ \A z \in T : z <= x + y
  OBVIOUS
<1>2. x + y \in Nat /\ x \in T /\ y \in T
  OBVIOUS
<1>. HIDE DEF T
<1>3. Max(T) \in T /\ \A z \in T : z <= Max(T)
  BY <1>1, <1>2, MaxFacts
<1>. QED  BY <1>1, <1>2, <1>3 DEF T

\* The values of a function on 1..n have a bound.
LEMMA BoundOfValues ==
    ASSUME NEW n \in Nat, NEW f, \A k \in 1..n : f[k] \in Nat
    PROVE  \E b \in Nat : \A k \in 1..n : f[k] <= b
<1>. DEFINE T == {m \in Nat : m <= n => \E b \in Nat : \A k \in 1..m : f[k] <= b}
<1>1. 0 \in T
  OBVIOUS
<1>2. ASSUME NEW m \in Nat, m \in T
      PROVE  m + 1 \in T
  <2>1. CASE m + 1 <= n
    <3>1. PICK b \in Nat : \A k \in 1..m : f[k] <= b
      BY <1>2, <2>1
    <3>2. f[m + 1] \in Nat
      BY <2>1
    <3>3. \A k \in 1..(m + 1) : f[k] <= b + f[m + 1]
      <4>1. TAKE k \in 1..(m + 1)
      <4>2. k \in 1..m \/ k = m + 1
        OBVIOUS
      <4>3. f[k] \in Nat
        BY <2>1
      <4>. QED  BY <3>1, <3>2, <4>2, <4>3
    <3>4. b + f[m + 1] \in Nat
      BY <3>2
    <3>. QED  BY <3>3, <3>4
  <2>2. CASE ~(m + 1 <= n)
    BY <2>2
  <2>. QED  BY <2>1, <2>2
<1>3. n \in T
  <2>. HIDE DEF T
  <2>. QED  BY <1>1, <1>2, SetInduction
<1>. QED  BY <1>3

\* A function that is defined step by step, and the steps.
AreSteps(G, n, V) == \A k \in 1..n, v \in V : G[k][v] \in V
IsByStep(f, c, G, n) == f[0] = c /\ \A k \in 1..n : f[k] = G[k][f[k - 1]]

\* It exists, and has the type of its steps.
LEMMA FunctionByStep ==
    ASSUME NEW n \in Nat, NEW V, NEW c \in V, NEW G, AreSteps(G, n, V)
    PROVE  \E f \in [0..n -> V] : IsByStep(f, c, G, n)
<1>. USE DEF AreSteps, IsByStep
<1>. DEFINE Ok(m) == \E f \in [0..m -> V] : f[0] = c /\ \A k \in 1..m : f[k] = G[k][f[k - 1]]
            T == {m \in Nat : m <= n => Ok(m)}
<1>1. 0 \in T
  <2>. DEFINE f == [x \in 0..0 |-> c]
  <2>1. f \in [0..0 -> V] /\ f[0] = c /\ \A k \in 1..0 : f[k] = G[k][f[k - 1]]
    OBVIOUS
  <2>2. Ok(0)
    <3>. HIDE DEF f
    <3>. QED  BY <2>1
  <2>. QED  BY <2>2
<1>2. ASSUME NEW m \in Nat, m \in T
      PROVE  m + 1 \in T
  <2>1. SUFFICES ASSUME m + 1 <= n
                 PROVE  Ok(m + 1)
    OBVIOUS
  <2>2. PICK f \in [0..m -> V] : f[0] = c /\ \A k \in 1..m : f[k] = G[k][f[k - 1]]
    BY <1>2, <2>1
  <2>. DEFINE g == [x \in 0..(m + 1) |-> IF x = m + 1 THEN G[m + 1][f[m]] ELSE f[x]]
  <2>3. G[m + 1][f[m]] \in V
    BY <2>1, <2>2
  <2>4. g \in [0..(m + 1) -> V] /\ g[0] = c
    BY <2>2, <2>3
  <2>5. \A k \in 1..(m + 1) : g[k] = G[k][g[k - 1]]
    <3>1. TAKE k \in 1..(m + 1)
    <3>2. CASE k = m + 1
      BY <3>2
    <3>3. CASE k \in 1..m
      <4>1. g[k] = f[k] /\ g[k - 1] = f[k - 1]
        BY <3>3
      <4>. QED  BY <2>2, <3>3, <4>1
    <3>. QED  BY <3>2, <3>3
  <2>. QED  BY <2>4, <2>5
<1>3. n \in T
  <2>. HIDE DEF T
  <2>. QED  BY <1>1, <1>2, SetInduction
<1>. QED  BY <1>3

LEMMA AlignFacts ==
    ASSUME NEW x \in Nat, NEW n \in Nat \ {0}
    PROVE  AlignTo(x, n) \in Nat /\ AlignTo(x, n) >= x /\ AlignTo(x, n) < x + n
<1>. DEFINE q == (x + n - 1) \div n
<1>1. q \in Nat /\ q * n <= x + n - 1 /\ x + n - 1 < (q + 1) * n
  OBVIOUS
<1>2. (q + 1) * n = q * n + n /\ q * n \in Nat
  BY <1>1
<1>. QED  BY <1>1, <1>2 DEF AlignTo

\* A function that never decreases from one number to the next is monotonic.
LEMMA Monotonic ==
    ASSUME NEW n \in Nat, NEW f \in [0..n -> Nat], \A k \in 1..n : f[k - 1] <= f[k]
    PROVE  \A j \in 0..n, k \in 0..n : j <= k => f[j] <= f[k]
<1>1. TAKE j \in 0..n
<1>. DEFINE T == {m \in Nat : j + m <= n => f[j] <= f[j + m]}
<1>2. 0 \in T
  OBVIOUS
<1>3. ASSUME NEW m \in Nat, m \in T
      PROVE  m + 1 \in T
  <2>1. SUFFICES ASSUME j + (m + 1) <= n
                 PROVE  f[j] <= f[j + (m + 1)]
    OBVIOUS
  <2>2. f[j] <= f[j + m]
    BY <1>3, <2>1
  <2>3. j + (m + 1) \in 1..n /\ j + m \in 0..n /\ (j + (m + 1)) - 1 = j + m
    BY <2>1
  <2>4. f[j + m] <= f[j + (m + 1)]
    BY <2>3
  <2>5. f[j] \in Nat /\ f[j + m] \in Nat /\ f[j + (m + 1)] \in Nat
    BY <2>3
  <2>. QED  BY <2>2, <2>4, <2>5
<1>4. Nat \subseteq T
  <2>. HIDE DEF T
  <2>. QED  BY <1>2, <1>3, SetInduction
<1>5. TAKE k \in 0..n
<1>6. HAVE j <= k
<1>7. k - j \in Nat /\ j + (k - j) = k /\ k <= n
  BY <1>6
<1>8. k - j \in T
  BY <1>4, <1>7
<1>9. f[j] <= f[j + (k - j)]
  BY <1>7, <1>8
<1>. QED  BY <1>7, <1>9

-----------------------------------------------------------------------------
(***************************************************************************)
(* The operators of the layout.                                            *)
(***************************************************************************)

\* The bound of a set of ranges.
Bounded(ranges) == \E b \in Nat : \A r \in ranges : r[1] \in Nat /\ r[2] \in Nat /\ r[2] <= b

LEMMA LinkFacts ==
    ASSUME SegmentAssumption, l \in Links
    PROVE  /\ Page \in Nat \ {0}
           /\ Len(segs) \in Nat /\ DOMAIN segs = 1..Len(segs)
           /\ \A s \in DOMAIN segs :
                 /\ segs[s].kind \in {"zero", "header", "stack", "plain"}
                 /\ segs[s].pin \in Nat \cup {None} /\ segs[s].size \in Nat /\ segs[s].page \in Nat \ {0}
                 /\ Len(segs[s].chunks) \in Nat
                 /\ DOMAIN segs[s].chunks = 1..Len(segs[s].chunks)
                 /\ segs[s].kind \in {"zero", "stack"} => DOMAIN segs[s].chunks = {}
                 /\ segs[s].kind \in {"zero", "header"} => \A j \in 1..(s - 1) : segs[j].kind = "zero"
                 /\ \A n \in DOMAIN segs[s].chunks :
                       /\ segs[s].chunks[n].size \in Nat /\ segs[s].chunks[n].align \in Nat \ {0}
                       /\ segs[s].chunks[n].zerofill \in BOOLEAN
           /\ l.base \in Nat /\ l.preload \in Nat /\ l.code \in 0..Len(segs)
           /\ l.linkedit.pin \in Nat \cup {None} /\ l.linkedit.size \in Nat /\ l.linkedit.page \in Nat \ {0}
           /\ l.unwind.below \in Nat /\ l.unwind.near \in Nat /\ l.unwind.far \in Nat
           /\ IsFiniteSet(l.fixups)
<1>1. IsLink(l) /\ Page \in Nat \ {0}
  BY DEF SegmentAssumption
<1>2. Len(segs) \in Nat /\ DOMAIN segs = 1..Len(segs)
  BY <1>1 DEF IsLink, segs
<1>3. /\ l.base \in Nat /\ l.preload \in Nat /\ l.code \in 0..Len(segs)
      /\ l.linkedit.pin \in Nat \cup {None} /\ l.linkedit.size \in Nat /\ l.linkedit.page \in Nat \ {0}
      /\ l.unwind.below \in Nat /\ l.unwind.near \in Nat /\ l.unwind.far \in Nat
      /\ IsFiniteSet(l.fixups)
  BY <1>1 DEF IsLink, segs
<1>4. ASSUME NEW s \in DOMAIN segs
      PROVE  /\ segs[s].kind \in {"zero", "header", "stack", "plain"}
             /\ segs[s].pin \in Nat \cup {None} /\ segs[s].size \in Nat /\ segs[s].page \in Nat \ {0}
             /\ segs[s].chunks \in Seq(Range(segs[s].chunks))
             /\ segs[s].kind \in {"zero", "stack"} => segs[s].chunks = <<>>
             /\ segs[s].kind \in {"zero", "header"} => \A j \in 1..(s - 1) : segs[j].kind = "zero"
             /\ \A n \in DOMAIN segs[s].chunks : IsChunk(segs[s].chunks[n])
  BY <1>1, <1>4 DEF IsLink, segs
<1>5. ASSUME NEW s \in DOMAIN segs
      PROVE  /\ Len(segs[s].chunks) \in Nat /\ DOMAIN segs[s].chunks = 1..Len(segs[s].chunks)
             /\ segs[s].kind \in {"zero", "stack"} => DOMAIN segs[s].chunks = {}
             /\ \A n \in DOMAIN segs[s].chunks :
                   /\ segs[s].chunks[n].size \in Nat /\ segs[s].chunks[n].align \in Nat \ {0}
                   /\ segs[s].chunks[n].zerofill \in BOOLEAN
  BY <1>4, <1>5 DEF IsChunk
<1>. QED  BY <1>1, <1>2, <1>3, <1>4, <1>5

\* The mach header's segment, if there is one, is the one of its kind.
LEMMA HeaderFacts ==
    ASSUME SegmentAssumption, l \in Links
    PROVE  /\ Header \in 0..Len(segs)
           /\ \A s \in DOMAIN segs : segs[s].kind = "header" => Header = s
           /\ Header # 0 => Header \in DOMAIN segs /\ segs[Header].kind = "header" /\ HeaderAddr \in Nat
           /\ Header # 0 /\ Pins = {} => HeaderAddr = l.base
<1>. DEFINE T == {0} \cup {s \in DOMAIN segs : segs[s].kind = "header"}
<1>1. Len(segs) \in Nat /\ DOMAIN segs = 1..Len(segs) /\ l.base \in Nat
  BY LinkFacts
<1>2. T \in SUBSET Nat /\ T # {} /\ \A y \in T : y <= Len(segs)
  BY <1>1
<1>3. Header = Max(T)
  BY DEF Header
<1>4. Header \in T /\ \A y \in T : y <= Header
  <2>. HIDE DEF T
  <2>. QED  BY <1>1, <1>2, <1>3, MaxFacts
<1>5. IsLink(l)
  BY DEF SegmentAssumption
<1>6. \A s, u \in DOMAIN segs : segs[s].kind = "header" /\ segs[u].kind = "header" => s = u
  BY <1>5 DEF IsLink, segs
<1>7. ASSUME NEW s \in DOMAIN segs, segs[s].kind = "header"
      PROVE  Header = s
  <2>1. s \in T /\ s # 0 /\ s > 0
    BY <1>1, <1>7
  <2>2. Header # 0
    BY <1>1, <1>2, <1>4, <2>1
  <2>. QED  BY <1>4, <1>6, <1>7, <2>2
<1>8. Header # 0 => segs[Header].pin \in Nat \cup {None} /\ Header \in DOMAIN segs
  BY <1>4, LinkFacts
<1>9. Header \in 0..Len(segs)
  BY <1>1, <1>4
<1>. QED  BY <1>1, <1>4, <1>7, <1>8, <1>9 DEF HeaderAddr, Pins

\* The ends of a segment's chunks: each one's start is no lower than the end
\* of the one before it.
LEMMA EndsFacts ==
    ASSUME SegmentAssumption, l \in Links, NEW s \in DOMAIN segs, NEW zf \in BOOLEAN,
           NEW from \in Nat, NEW start \in Nat, NEW sizes,
           \A n \in DOMAIN segs[s].chunks : sizes[n] \in Nat
    PROVE  LET e == EndsOf(s, zf, from, start, sizes) IN
           /\ e \in [0..Len(segs[s].chunks) -> Nat] /\ e[0] = from
           /\ \A n \in DOMAIN segs[s].chunks :
                 /\ e[n - 1] <= e[n]
                 /\ segs[s].chunks[n].zerofill = zf => e[n - 1] + sizes[n] <= e[n]
<1>. DEFINE ks == segs[s].chunks
            N == Len(ks)
            Step(n, v) == IF ks[n].zerofill # zf THEN v
                          ELSE AlignTo(start + v, ks[n].align) - start + sizes[n]
            H == [n \in 1..N |-> [v \in Nat |-> Step(n, v)]]
            G(g) == [n \in 0..N |-> IF n = 0 THEN from ELSE Step(n, g[n - 1])]
            e == EndsOf(s, zf, from, start, sizes)
<1>1. N \in Nat /\ DOMAIN ks = 1..N /\ \A n \in 1..N : ks[n].align \in Nat \ {0} /\ sizes[n] \in Nat
  BY LinkFacts
<1>2. ASSUME NEW n \in 1..N, NEW v \in Nat
      PROVE  Step(n, v) \in Nat /\ v <= Step(n, v) /\ (ks[n].zerofill = zf => v + sizes[n] <= Step(n, v))
  <2>1. ks[n].align \in Nat \ {0} /\ sizes[n] \in Nat /\ start + v \in Nat
    BY <1>1
  <2>2. AlignTo(start + v, ks[n].align) \in Nat /\ AlignTo(start + v, ks[n].align) >= start + v
    BY <2>1, AlignFacts
  <2>. HIDE DEF ks
  <2>. QED  BY <2>1, <2>2
<1>3. \A n \in 1..N, v \in Nat : H[n][v] = Step(n, v) /\ H[n][v] \in Nat
  <2>. HIDE DEF Step, N
  <2>. QED  BY <1>2
<1>4. PICK f \in [0..N -> Nat] : f[0] = from /\ \A n \in 1..N : f[n] = H[n][f[n - 1]]
  <2>. DEFINE V == Nat
  <2>1. N \in Nat /\ from \in V /\ AreSteps(H, N, V)
    <3>. HIDE DEF H, N
    <3>. QED  BY <1>1, <1>3 DEF AreSteps
  <2>2. \E f \in [0..N -> V] : IsByStep(f, from, H, N)
    <3>. HIDE DEF H, N, V
    <3>. QED  BY <2>1, FunctionByStep
  <2>. HIDE DEF H, N
  <2>. QED  BY <2>2 DEF IsByStep
<1>5. \A n \in 1..N : f[n - 1] \in Nat /\ f[n] = Step(n, f[n - 1])
  <2>1. \A n \in 1..N : f[n - 1] \in Nat
    BY <1>1, <1>4
  <2>. HIDE DEF H, N, Step
  <2>. QED  BY <1>3, <1>4, <2>1
<1>6. f = G(f)
  <2>. HIDE DEF H, N, Step
  <2>. QED  BY <1>1, <1>4, <1>5
<1>7. e = CHOOSE g : g = G(g)
  BY DEF EndsOf
<1>8. e = G(e)
  <2>. HIDE DEF G, e
  <2>. QED  BY <1>6, <1>7
<1>9. e \in [0..N -> Nat] /\ e[0] = from /\ \A n \in 1..N : e[n - 1] \in Nat /\ e[n] = Step(n, e[n - 1])
  <2>1. DOMAIN e = 0..N /\ e = [x \in 0..N |-> e[x]]
    <3>. HIDE DEF e, N, Step
    <3>. QED  BY <1>8
  <2>2. e[0] = from
    <3>. HIDE DEF e, N, Step
    <3>. QED  BY <1>1, <1>8
  <2>3. \A n \in 1..N : e[n] = Step(n, e[n - 1])
    <3>. HIDE DEF e, N, Step
    <3>. QED  BY <1>1, <1>8
  <2>. DEFINE T == {m \in Nat : m <= N => e[m] \in Nat}
  <2>4. 0 \in T
    BY <2>2
  <2>5. ASSUME NEW m \in Nat, m \in T
        PROVE  m + 1 \in T
    <3>1. SUFFICES ASSUME m + 1 <= N
                   PROVE  e[m + 1] \in Nat
      OBVIOUS
    <3>2. m + 1 \in 1..N /\ (m + 1) - 1 = m /\ e[m] \in Nat
      BY <1>1, <2>5, <3>1
    <3>. HIDE DEF e, Step, N
    <3>. QED  BY <1>2, <2>3, <3>2
  <2>6. Nat \subseteq T
    <3>. HIDE DEF T
    <3>. QED  BY <2>4, <2>5, SetInduction
  <2>7. \A x \in 0..N : e[x] \in Nat
    <3>. HIDE DEF e
    <3>. QED  BY <1>1, <2>6
  <2>8. e \in [0..N -> Nat]
    <3>. HIDE DEF e, N
    <3>. QED  BY <2>1, <2>7
  <2>. HIDE DEF e, Step, N
  <2>. QED  BY <1>1, <2>2, <2>3, <2>7, <2>8
<1>10. \A n \in 1..N : e[n - 1] <= e[n] /\ (ks[n].zerofill = zf => e[n - 1] + sizes[n] <= e[n])
  <2>. HIDE DEF e, Step, N, ks
  <2>. QED  BY <1>2, <1>9
<1>. HIDE DEF e, Step, H, G
<1>. QED  BY <1>1, <1>9, <1>10 DEF e

\* lowest_free_span finds a span that is free, the lowest of those it looks at,
\* and rounds its start up.
LEMMA SpanFacts ==
    ASSUME NEW base \in Nat, NEW floor \in Nat, floor <= base, NEW sz \in Nat, NEW align \in Nat \ {0},
           NEW used, Bounded(used)
    PROVE  LET span == LowestFreeSpan(base, floor, sz, align, used) IN
           /\ span[1] \in Nat /\ span[2] = AlignTo(span[1], align) + sz /\ span = <<span[1], span[2]>>
           /\ span[1] = base \/ span[1] > floor
           /\ \A r \in used : r[2] <= span[1] \/ (span[2] <= r[1] /\ span[1] < r[1])
<1>. DEFINE Starts == {base} \cup {r[2] : r \in {q \in used : q[2] > floor}}
            spans == {<<x, AlignTo(x, align) + sz>> : x \in Starts}
            F == {span[1] : span \in {p \in spans : Free(p, used)}}
            span == LowestFreeSpan(base, floor, sz, align, used)
<1>1. PICK b \in Nat : \A r \in used : r[1] \in Nat /\ r[2] \in Nat /\ r[2] <= b
  BY DEF Bounded
<1>2. Starts \in SUBSET Nat /\ base \in Starts /\ \A x \in Starts : x <= b + base
  BY <1>1
<1>3. \A x \in Starts : x = base \/ x > floor
  OBVIOUS
<1>4. PICK top \in Starts : \A x \in Starts : x <= top
  <2>1. b + base \in Nat /\ Starts # {}
    BY <1>2
  <2>. HIDE DEF Starts
  <2>. QED  BY <1>2, <2>1, MaxFacts
<1>5. \A x \in Starts : AlignTo(x, align) \in Nat /\ AlignTo(x, align) >= x
  BY <1>2, AlignFacts
<1>6. \A r \in used : r[2] <= top
  <2>1. TAKE r \in used
  <2>2. CASE r[2] > floor
    BY <1>4, <2>2
  <2>3. CASE ~(r[2] > floor)
    BY <1>1, <1>2, <1>4, <2>3
  <2>. QED  BY <2>2, <2>3
<1>7. <<top, AlignTo(top, align) + sz>> \in spans /\ Free(<<top, AlignTo(top, align) + sz>>, used)
  BY <1>6 DEF Free
<1>8. top \in F
  <2>. HIDE DEF spans
  <2>1. <<top, AlignTo(top, align) + sz>>[1] = top
    OBVIOUS
  <2>. QED  BY <1>7, <2>1
<1>9. F \subseteq Starts
  OBVIOUS
<1>10. Min(F) \in F
  <2>. HIDE DEF F, Starts
  <2>. QED  BY <1>2, <1>8, <1>9, MinFacts
<1>11. span = <<Min(F), AlignTo(Min(F), align) + sz>>
  BY DEF LowestFreeSpan
<1>12. Free(<<Min(F), AlignTo(Min(F), align) + sz>>, used)
  <2>1. PICK x \in Starts : Min(F) = x /\ Free(<<x, AlignTo(x, align) + sz>>, used)
    <3>1. PICK p \in spans : Free(p, used) /\ Min(F) = p[1]
      BY <1>10
    <3>. HIDE DEF F, Starts
    <3>. QED  BY <3>1
  <2>. QED  BY <2>1
<1>. DEFINE first == Min(F)
            end == AlignTo(first, align) + sz
<1>13. first \in Starts /\ first \in Nat /\ end \in Nat
  <2>1. first \in Starts
    <3>. HIDE DEF F, Starts
    <3>. QED  BY <1>9, <1>10
  <2>2. first \in Nat /\ AlignTo(first, align) \in Nat
    <3>. HIDE DEF first, Starts
    <3>. QED  BY <1>2, <1>5, <2>1
  <2>. HIDE DEF first
  <2>. QED  BY <2>1, <2>2
<1>14. \A r \in used : r[2] <= first \/ (end <= r[1] /\ first < r[1])
  <2>1. TAKE r \in used
  <2>2. r[2] <= first \/ Max({end, first + 1}) <= r[1]
    <3>1. <<first, end>>[1] = first /\ <<first, end>>[2] = end
      OBVIOUS
    <3>. HIDE DEF F
    <3>. QED  BY <1>12, <3>1 DEF Free
  <2>3. Max({end, first + 1}) \in Nat /\ Max({end, first + 1}) >= end /\ Max({end, first + 1}) >= first + 1
    <3>. HIDE DEF first, end
    <3>. QED  BY <1>13, MaxOfTwo
  <2>. HIDE DEF first, end
  <2>. QED  BY <1>1, <1>13, <2>2, <2>3
<1>15. span[1] = first /\ span[2] = end /\ span = <<first, end>>
  <2>. HIDE DEF F
  <2>. QED  BY <1>11
<1>. HIDE DEF F, Starts, spans, span
<1>. QED  BY <1>3, <1>13, <1>14, <1>15 DEF span, Starts

\* The segments' addresses and sizes are numbers.
VmTyped == \A s \in DOMAIN segs : vm[s].addr \in Nat /\ vm[s].size \in Nat

LEMMA StartAlignFacts ==
    ASSUME SegmentAssumption, l \in Links, NEW s \in DOMAIN segs
    PROVE  StartAlign(s) \in Nat \ {0}
<1>. DEFINE T == {Page} \cup {segs[s].chunks[n].align : n \in DOMAIN segs[s].chunks \cap {1}}
<1>1. Page \in Nat \ {0} /\ \A n \in DOMAIN segs[s].chunks : segs[s].chunks[n].align \in Nat \ {0}
  BY LinkFacts
<1>2. T \in SUBSET (Nat \ {0}) /\ T # {}
  BY <1>1
<1>3. \E b \in Nat : \A y \in T : y <= b
  <2>1. CASE 1 \in DOMAIN segs[s].chunks
    <3>1. \A y \in T : y <= Page + segs[s].chunks[1].align
      BY <1>1, <2>1
    <3>2. Page + segs[s].chunks[1].align \in Nat
      BY <1>1, <2>1
    <3>. HIDE DEF T
    <3>. QED  BY <3>1, <3>2
  <2>2. CASE 1 \notin DOMAIN segs[s].chunks
    <3>1. \A y \in T : y <= Page
      BY <1>1, <2>2
    <3>. HIDE DEF T
    <3>. QED  BY <1>1, <3>1
  <2>. QED  BY <2>1, <2>2
<1>4. Max(T) \in T
  <2>1. T \in SUBSET Nat
    BY <1>2
  <2>. HIDE DEF T
  <2>. QED  BY <1>2, <1>3, <2>1, MaxFacts
<1>. HIDE DEF T
<1>. QED  BY <1>2, <1>4 DEF StartAlign, T

LEMMA SpanOfFacts ==
    ASSUME SegmentAssumption, l \in Links, VmTyped, NEW s \in DOMAIN segs
    PROVE  Span(s) \in Nat /\ Span(s) >= vm[s].size
<1>1. segs[s].page \in Nat \ {0} /\ vm[s].size \in Nat
  BY LinkFacts DEF VmTyped
<1>. QED  BY <1>1, AlignFacts DEF Span

\* What the address of a segment that does not float is.
LEMMA FixedFacts ==
    ASSUME SegmentAssumption, l \in Links, VmTyped
    PROVE  /\ Fixed \in [DOMAIN segs -> Nat \cup {None}]
           /\ \A s \in DOMAIN segs :
                 Fixed[s] = IF InPlace(s) THEN vm[s].addr
                            ELSE IF segs[s].pin # None THEN segs[s].pin
                            ELSE IF s > 1 /\ segs[s].follows /\ Fixed[s - 1] # None
                            THEN AlignTo(Fixed[s - 1] + Span(s - 1), StartAlign(s))
                            ELSE None
<1>. DEFINE V == Nat \cup {None}
            N == Len(segs)
            Step(s, v) == IF InPlace(s) THEN vm[s].addr
                          ELSE IF segs[s].pin # None THEN segs[s].pin
                          ELSE IF s > 1 /\ segs[s].follows /\ v # None
                          THEN AlignTo(v + Span(s - 1), StartAlign(s))
                          ELSE None
            H == [s \in 1..N |-> [v \in V |-> Step(s, v)]]
            G(g) == [s \in DOMAIN segs |-> Step(s, g[s - 1])]
            F == CHOOSE g : g = G(g)
<1>1. N \in Nat /\ DOMAIN segs = 1..N /\ \A s \in 1..N : segs[s].pin \in Nat \cup {None}
  BY LinkFacts
<1>2. ASSUME NEW s \in 1..N, NEW v \in V
      PROVE  Step(s, v) \in V
  <2>1. CASE s > 1 /\ v # None
    <3>1. s - 1 \in DOMAIN segs /\ v \in Nat /\ s \in DOMAIN segs
      BY <1>1, <2>1
    <3>2. Span(s - 1) \in Nat /\ StartAlign(s) \in Nat \ {0}
      BY <3>1, SpanOfFacts, StartAlignFacts
    <3>3. v + Span(s - 1) \in Nat
      BY <3>1, <3>2
    <3>4. AlignTo(v + Span(s - 1), StartAlign(s)) \in Nat
      BY <3>2, <3>3, AlignFacts
    <3>. QED  BY <1>1, <3>1, <3>4 DEF VmTyped
  <2>2. CASE ~(s > 1 /\ v # None)
    BY <1>1, <2>2 DEF VmTyped
  <2>. QED  BY <2>1, <2>2
<1>3. PICK f \in [0..N -> V] : IsByStep(f, None, H, N)
  <2>1. AreSteps(H, N, V) /\ None \in V
    <3>. HIDE DEF N, Step
    <3>. QED  BY <1>2 DEF AreSteps
  <2>. HIDE DEF H, N, V
  <2>. QED  BY <1>1, <2>1, FunctionByStep
<1>4. \A s \in 1..N : f[s - 1] \in V /\ f[s] = Step(s, f[s - 1])
  <2>1. \A s \in 1..N : f[s - 1] \in V /\ f[s] = H[s][f[s - 1]]
    <3>. HIDE DEF H, N, V
    <3>. QED  BY <1>1, <1>3 DEF IsByStep
  <2>. HIDE DEF N, V, Step
  <2>. QED  BY <2>1
<1>. DEFINE g0 == [s \in 1..N |-> f[s]]
<1>5. g0 = G(g0)
  <2>1. ASSUME NEW s \in 1..N
        PROVE  g0[s] = Step(s, g0[s - 1])
    <3>1. g0[s] = Step(s, f[s - 1])
      <4>. HIDE DEF N, Step, V
      <4>. QED  BY <1>4
    <3>2. CASE s = 1
      <4>1. Step(s, f[s - 1]) = Step(s, g0[s - 1])
        <5>. HIDE DEF g0
        <5>. QED  BY <3>2
      <4>. QED  BY <3>1, <4>1
    <3>3. CASE s # 1
      <4>1. g0[s - 1] = f[s - 1]
        BY <1>1, <3>3
      <4>. HIDE DEF g0, Step
      <4>. QED  BY <3>1, <4>1
    <3>. QED  BY <3>2, <3>3
  <2>. HIDE DEF Step, N
  <2>. QED  BY <1>1, <2>1
<1>6. F = G(F)
  <2>. HIDE DEF G, g0
  <2>. QED  BY <1>5
<1>7. Fixed = [s \in DOMAIN segs |-> F[s]]
  BY DEF Fixed
<1>. HIDE DEF F
<1>8. \A s \in 1..N : F[s] = Step(s, F[s - 1])
  <2>. HIDE DEF N, Step
  <2>. QED  BY <1>1, <1>6
<1>9. \A s \in 1..N : F[s] \in V
  <2>. DEFINE T == {m \in Nat : m + 1 <= N => F[m + 1] \in V}
  <2>1. 0 \in T
    <3>1. 1 <= N => F[1] = Step(1, F[0]) /\ Step(1, F[0]) = Step(1, None)
      BY <1>1, <1>8
    <3>2. 1 <= N => Step(1, None) \in V
      <4>1. None \in V /\ (1 <= N => 1 \in 1..N)
        BY <1>1
      <4>. HIDE DEF Step, V, N
      <4>. QED  BY <1>2, <4>1
    <3>. HIDE DEF Step, V, N
    <3>. QED  BY <3>1, <3>2
  <2>2. ASSUME NEW m \in Nat, m \in T
        PROVE  m + 1 \in T
    <3>1. SUFFICES ASSUME (m + 1) + 1 <= N
                   PROVE  F[(m + 1) + 1] \in V
      OBVIOUS
    <3>2. (m + 1) + 1 \in 1..N /\ ((m + 1) + 1) - 1 = m + 1 /\ F[m + 1] \in V
      BY <1>1, <2>2, <3>1
    <3>3. F[(m + 1) + 1] = Step((m + 1) + 1, F[m + 1])
      <4>. HIDE DEF Step, N
      <4>. QED  BY <1>8, <3>2
    <3>. HIDE DEF Step, V, N
    <3>. QED  BY <1>2, <3>2, <3>3
  <2>3. Nat \subseteq T
    <3>. HIDE DEF T
    <3>. QED  BY <2>1, <2>2, SetInduction
  <2>4. TAKE s \in 1..N
  <2>5. s - 1 \in Nat /\ (s - 1) + 1 = s /\ s <= N
    BY <1>1
  <2>6. s - 1 \in T
    BY <2>3, <2>5
  <2>. QED  BY <2>5, <2>6
<1>10. \A s \in DOMAIN segs : Fixed[s] = F[s] /\ (s > 1 => Fixed[s - 1] = F[s - 1])
  <2>. HIDE DEF N
  <2>. QED  BY <1>1, <1>7
<1>11. Fixed \in [DOMAIN segs -> V]
  <2>. HIDE DEF N, V
  <2>. QED  BY <1>1, <1>7, <1>9
<1>12. \A s \in DOMAIN segs : Fixed[s] = Step(s, Fixed[s - 1])
  <2>1. TAKE s \in DOMAIN segs
  <2>2. s \in 1..N
    BY <1>1
  <2>3. Fixed[s] = Step(s, F[s - 1])
    <3>. HIDE DEF Step, N
    <3>. QED  BY <1>8, <1>10, <2>2
  <2>4. CASE s > 1
    BY <1>10, <2>3, <2>4
  <2>5. CASE ~(s > 1)
    BY <2>3, <2>5
  <2>. QED  BY <2>4, <2>5
<1>. HIDE DEF N
<1>. QED  BY <1>11, <1>12

-----------------------------------------------------------------------------
(***************************************************************************)
(* The invariant of the layout.                                            *)
(***************************************************************************)

Phases == {"layout", "place", "unwind", "chains", "check", "linkedit", "done", "failed"}

TypeInv ==
    /\ l \in Links
    /\ phase \in Phases /\ error \in {"none", "overlap", "order"} /\ (error # "none" <=> phase = "failed")
    /\ i \in 1..(Len(segs) + 1)
    /\ fileoff \in Nat /\ addr \in Nat /\ minSize \in Nat /\ starts \in Nat
    /\ vm \in [DOMAIN segs -> [addr : Nat, size : Nat]]
    /\ file \in [DOMAIN segs -> [off : Nat, size : Nat]]
    /\ DOMAIN at = DOMAIN segs /\ DOMAIN size = DOMAIN segs
    /\ \A s \in DOMAIN segs :
          /\ at[s] \in [DOMAIN segs[s].chunks -> [addr : Nat, off : Nat]]
          /\ size[s] \in [DOMAIN segs[s].chunks -> Nat]
    /\ linkedit \in [addr : Nat, off : Nat, size : Nat]

\* A segment that this layout has laid out: its chunks are in it, one after
\* another, and it follows the others in the file.
ChunksIn(s) ==
    \A n \in DOMAIN segs[s].chunks :
        /\ at[s][n].addr >= vm[s].addr /\ at[s][n].addr + size[s][n] <= vm[s].addr + vm[s].size
        /\ ~segs[s].chunks[n].zerofill =>
              /\ at[s][n].off - file[s].off = at[s][n].addr - vm[s].addr
              /\ at[s][n].off + size[s][n] <= file[s].off + file[s].size
        /\ \A m \in DOMAIN segs[s].chunks : m # n =>
              \/ at[s][n].addr + size[s][n] <= at[s][m].addr
              \/ at[s][m].addr + size[s][m] <= at[s][n].addr
FileAfter(s) ==
    /\ file[s].off + file[s].size <= fileoff
    /\ \A u \in DOMAIN segs : u < s /\ file[s].size > 0 => file[u].off + file[u].size <= file[s].off
StaysInPlace(s) ==
    /\ segs[s].kind = "zero" => vm[s].addr = 0 /\ vm[s].size = segs[s].size
    /\ segs[s].kind = "header" => vm[s].addr = HeaderAddr
LaidInv ==
    \A s \in DOMAIN segs :
        /\ segs[s].kind \in {"zero", "stack"} => file[s].off = 0 /\ file[s].size = 0
        /\ phase # "layout" \/ s < i => ChunksIn(s) /\ FileAfter(s) /\ StaysInPlace(s)

\* Where segments go while they are being placed.
PlaceInv ==
    phase = "place" =>
        /\ placed \in [DOMAIN segs -> Nat \cup {None}]
        /\ \A s \in DOMAIN segs : (s < i => placed[s] # None) /\ (InPlace(s) => placed[s] = vm[s].addr)
        /\ Bounded(taken)

LayInv == TypeInv /\ LaidInv /\ PlaceInv

\* A layout that nothing on the command line can make overlap.
NoPins ==
    Pins = {} /\ \A s \in DOMAIN segs : segs[s].kind = "zero" => segs[s].size <= l.base

\* Then the segments placed so far are apart, above __PAGEZERO, and in the
\* ranges that count as taken.
Placed == {s \in DOMAIN segs : segs[s].kind # "zero" /\ placed[s] # None}
Apart(s, u) == placed[s] + Span(s) <= placed[u] \/ placed[u] + Span(u) <= placed[s]
Covered(s) == \E r \in taken : r[1] <= placed[s] /\ placed[s] + Span(s) <= r[2]
FreeInv ==
    phase = "place" /\ NoPins =>
        /\ \A s \in DOMAIN segs : Fixed[s] # None \/ s >= i => placed[s] = Fixed[s]
        /\ \A s \in Placed :
              /\ \A u \in Placed : u # s => Apart(s, u)
              /\ \A z \in DOMAIN segs : segs[z].kind = "zero" => segs[z].size <= placed[s]
              /\ s < i \/ s = Header \/ FirstPin(Fixed) < i => Covered(s)

\* Segments that were placed are apart, or the link failed.
ApartInv ==
    phase \in {"unwind", "chains", "check", "linkedit", "done"} =>
        \A s, u \in DOMAIN segs : s # u => ~Overlap(vm[s], vm[u])
EndInv ==
    phase = "done" =>
        /\ linkedit.off = fileoff
        /\ l.linkedit.pin = None => \A s \in DOMAIN segs : ~Overlap(vm[s], linkedit)

\* What was made for the addresses of this layout.
CurrentInv ==
    /\ phase \in {"chains", "check", "linkedit", "done"} /\ l.code # 0 => \A x \in ChunksOf("unwind") :
          encoded = CodeAddr /\ EncodedSize <= size[x[1]][x[2]]
    /\ phase \in {"check", "linkedit", "done"} => \A x \in ChunksOf("chains") :
          size[x[1]][x[2]] = ChainsSize(Cardinality(ChainStarts))

IInv == LayInv /\ FreeInv /\ OnlyPinsOverlap /\ ApartInv /\ EndInv /\ CurrentInv

LEMMA TypeFacts ==
    ASSUME TypeInv
    PROVE  /\ VmTyped
           /\ \A s \in DOMAIN segs :
                 /\ vm[s].addr \in Nat /\ vm[s].size \in Nat /\ file[s].off \in Nat /\ file[s].size \in Nat
                 /\ \A n \in DOMAIN segs[s].chunks :
                       at[s][n].addr \in Nat /\ at[s][n].off \in Nat /\ size[s][n] \in Nat
  BY DEF TypeInv, VmTyped

LEMMA SizesFacts ==
    ASSUME SegmentAssumption, TypeInv, NEW s \in DOMAIN segs
    PROVE  \A n \in DOMAIN segs[s].chunks : Sizes(s)[n] \in Nat
<1>1. EncodedSize \in Nat
  BY LinkFacts DEF EncodedSize, TypeInv
<1>2. Max({EncodedSize, minSize}) \in Nat
  BY <1>1, MaxOfTwo DEF TypeInv
<1>. QED  BY <1>2, TypeFacts DEF Sizes

LEMMA LayoutInit ==
    ASSUME SegmentAssumption, Init
    PROVE  LayInv
<1>1. l \in Links
  BY DEF Init
<1>2. HeaderPages \in Nat
  BY <1>1, LinkFacts, AlignFacts DEF HeaderPages
<1>3. /\ phase = "layout" /\ error = "none" /\ i = 1 /\ fileoff = HeaderPages /\ addr = l.base
      /\ vm = [s \in DOMAIN segs |-> [addr |-> 0, size |-> 0]]
      /\ file = [s \in DOMAIN segs |-> [off |-> 0, size |-> 0]]
      /\ minSize = 0 /\ starts = 0 /\ linkedit = [addr |-> 0, off |-> 0, size |-> 0]
  BY DEF Init
<1>4. /\ DOMAIN at = DOMAIN segs /\ DOMAIN size = DOMAIN segs
      /\ \A s \in DOMAIN segs :
            /\ at[s] \in [DOMAIN segs[s].chunks -> [addr : Nat, off : Nat]]
            /\ size[s] \in [DOMAIN segs[s].chunks -> Nat]
  BY <1>1, LinkFacts DEF Init
<1>5. vm \in [DOMAIN segs -> [addr : Nat, size : Nat]] /\ file \in [DOMAIN segs -> [off : Nat, size : Nat]]
  BY <1>3
<1>6. i \in 1..(Len(segs) + 1) /\ l.base \in Nat
  BY <1>1, <1>3, LinkFacts
<1>7. linkedit \in [addr : Nat, off : Nat, size : Nat]
  BY <1>3
<1>8. TypeInv
  BY <1>1, <1>2, <1>3, <1>4, <1>5, <1>6, <1>7 DEF TypeInv, Phases
<1>9. LaidInv
  <2>1. \A s \in DOMAIN segs : file[s].off = 0 /\ file[s].size = 0 /\ ~(s < i)
    BY <1>1, <1>3, LinkFacts
  <2>. QED  BY <1>3, <2>1 DEF LaidInv
<1>. QED  BY <1>3, <1>8, <1>9 DEF LayInv, PlaceInv

\* layout_segment lays the chunks of one segment out within it.
LEMMA LayoutOne ==
    ASSUME SegmentAssumption, TypeInv, l' = l,
           NEW s \in DOMAIN segs, segs[s].kind \notin {"zero", "stack"},
           NEW off \in Nat, NEW start \in Nat, LayoutSegment(s, off, start)
    PROVE  /\ \E z \in Nat : vm' = [vm EXCEPT ![s] = [addr |-> start, size |-> z]]
           /\ \E z \in Nat : file' = [file EXCEPT ![s] = [off |-> off, size |-> z]] /\ fileoff' >= off + z
           /\ fileoff' \in Nat
           /\ DOMAIN at' = DOMAIN segs /\ DOMAIN size' = DOMAIN segs
           /\ \A u \in DOMAIN segs : u # s => at'[u] = at[u] /\ size'[u] = size[u]
           /\ at'[s] \in [DOMAIN segs[s].chunks -> [addr : Nat, off : Nat]]
           /\ size'[s] \in [DOMAIN segs[s].chunks -> Nat]
           /\ ChunksIn(s)'
<1>. DEFINE ks == segs[s].chunks
            N == Len(ks)
            sizes == Sizes(s)
            ends == EndsOf(s, FALSE, 0, start, sizes)
            filesize == ends[N]
            zends == EndsOf(s, TRUE, filesize, start, sizes)
            rel(n) == (IF ks[n].zerofill THEN zends[n] ELSE ends[n]) - sizes[n]
            padded == AlignTo(filesize, Page)
            vsize == Max({AlignTo(zends[N], Page), padded})
<1>1. l \in Links
  BY DEF TypeInv
<1>2. N \in Nat /\ DOMAIN ks = 1..N /\ Page \in Nat \ {0} /\ segs[s].page \in Nat \ {0}
      /\ \A n \in 1..N : ks[n].zerofill \in BOOLEAN /\ sizes[n] \in Nat
  BY SMTT(30), <1>1, LinkFacts, SizesFacts
<1>3. /\ ends \in [0..N -> Nat] /\ ends[0] = 0
      /\ \A n \in 1..N : ends[n - 1] <= ends[n] /\ (ks[n].zerofill = FALSE => ends[n - 1] + sizes[n] <= ends[n])
  <2>1. 0 \in Nat /\ FALSE \in BOOLEAN /\ \A n \in DOMAIN segs[s].chunks : sizes[n] \in Nat
    BY SizesFacts
  <2>. HIDE DEF sizes
  <2>2. LET e == EndsOf(s, FALSE, 0, start, sizes) IN
        /\ e \in [0..Len(segs[s].chunks) -> Nat] /\ e[0] = 0
        /\ \A n \in DOMAIN segs[s].chunks :
              e[n - 1] <= e[n] /\ (segs[s].chunks[n].zerofill = FALSE => e[n - 1] + sizes[n] <= e[n])
    BY <1>1, <2>1, EndsFacts
  <2>. QED  BY <1>2, <2>2
<1>4. filesize \in Nat
  <2>. HIDE DEF ends, N
  <2>. QED  BY <1>2, <1>3
<1>5. /\ zends \in [0..N -> Nat] /\ zends[0] = filesize
      /\ \A n \in 1..N : zends[n - 1] <= zends[n] /\ (ks[n].zerofill = TRUE => zends[n - 1] + sizes[n] <= zends[n])
  <2>1. TRUE \in BOOLEAN /\ \A n \in DOMAIN segs[s].chunks : sizes[n] \in Nat
    BY SizesFacts
  <2>. HIDE DEF sizes, filesize
  <2>2. LET e == EndsOf(s, TRUE, filesize, start, sizes) IN
        /\ e \in [0..Len(segs[s].chunks) -> Nat] /\ e[0] = filesize
        /\ \A n \in DOMAIN segs[s].chunks :
              e[n - 1] <= e[n] /\ (segs[s].chunks[n].zerofill = TRUE => e[n - 1] + sizes[n] <= e[n])
    BY <1>1, <1>4, <2>1, EndsFacts
  <2>. QED  BY <1>2, <2>2
<1>6. /\ \A n, m \in 0..N : n <= m => ends[n] <= ends[m]
      /\ \A n, m \in 0..N : n <= m => zends[n] <= zends[m]
  <2>. HIDE DEF ends, zends, N, filesize
  <2>. QED  BY <1>2, <1>3, <1>5, Monotonic
<1>7. /\ padded \in Nat /\ padded >= filesize
      /\ vsize \in Nat /\ vsize >= zends[N] /\ vsize >= padded
  <2>1. padded \in Nat /\ padded >= filesize
    <3>. HIDE DEF filesize
    <3>. QED  BY <1>2, <1>4, AlignFacts
  <2>2. zends[N] \in Nat
    <3>. HIDE DEF zends, N
    <3>. QED  BY <1>2, <1>5
  <2>3. AlignTo(zends[N], Page) \in Nat /\ AlignTo(zends[N], Page) >= zends[N]
    <3>. HIDE DEF zends, N
    <3>. QED  BY <1>2, <2>2, AlignFacts
  <2>4. vsize \in Nat /\ vsize >= AlignTo(zends[N], Page) /\ vsize >= padded
    <3>. HIDE DEF zends, N, padded
    <3>. QED  BY <2>1, <2>3, MaxOfTwo
  <2>. HIDE DEF zends, N, padded, vsize, filesize
  <2>. QED  BY <2>1, <2>2, <2>3, <2>4
<1>8. /\ vm' = [vm EXCEPT ![s] = [addr |-> start, size |-> vsize]]
      /\ file' = [file EXCEPT ![s] = [off |-> off, size |-> padded]]
      /\ at' = [at EXCEPT ![s] = [n \in DOMAIN ks |->
                    [addr |-> start + rel(n), off |-> IF ks[n].zerofill THEN 0 ELSE off + rel(n)]]]
      /\ size' = [size EXCEPT ![s] = sizes]
      /\ fileoff' = off + AlignTo(padded, segs[s].page)
  BY DEF LayoutSegment
<1>9. AlignTo(padded, segs[s].page) \in Nat /\ AlignTo(padded, segs[s].page) >= padded
  <2>. HIDE DEF padded
  <2>. QED  BY <1>2, <1>7, AlignFacts
<1>10. ASSUME NEW n \in 1..N
       PROVE  /\ rel(n) \in Nat /\ sizes[n] \in Nat
              /\ ks[n].zerofill = FALSE =>
                    rel(n) >= ends[n - 1] /\ rel(n) + sizes[n] = ends[n] /\ ends[n] <= filesize
              /\ ks[n].zerofill = TRUE => /\ rel(n) >= zends[n - 1] /\ zends[n - 1] >= filesize
                                          /\ rel(n) + sizes[n] = zends[n] /\ zends[n] <= zends[N]
  <2>1. n - 1 \in 0..N /\ n \in 0..N /\ N \in 0..N /\ 0 \in 0..N /\ n <= N /\ 0 <= n - 1
    BY <1>2
  <2>2. ends[n - 1] \in Nat /\ ends[n] \in Nat /\ zends[n - 1] \in Nat /\ zends[n] \in Nat /\ sizes[n] \in Nat
    <3>. HIDE DEF ends, zends, N, sizes
    <3>. QED  BY <1>2, <1>3, <1>5, <2>1
  <2>3. ends[n] <= filesize /\ zends[n - 1] >= filesize /\ zends[n] <= zends[N]
    <3>1. ends[n] <= ends[N] /\ zends[0] <= zends[n - 1] /\ zends[n] <= zends[N]
      <4>. HIDE DEF ends, zends, N
      <4>. QED  BY <1>6, <2>1
    <3>. HIDE DEF ends, zends
    <3>. QED  BY <1>4, <1>5, <2>2, <3>1
  <2>4. CASE ks[n].zerofill = TRUE
    <3>1. rel(n) = zends[n] - sizes[n]
      BY <2>4
    <3>2. zends[n - 1] + sizes[n] <= zends[n]
      <4>. HIDE DEF zends, sizes, ks
      <4>. QED  BY <1>5, <2>4
    <3>. HIDE DEF rel, zends, ends, sizes, filesize, ks
    <3>3. rel(n) \in Nat /\ rel(n) >= zends[n - 1] /\ rel(n) + sizes[n] = zends[n]
      BY <2>2, <3>1, <3>2
    <3>. QED  BY <2>2, <2>3, <2>4, <3>3, Zenon
  <2>5. CASE ks[n].zerofill = FALSE
    <3>1. rel(n) = ends[n] - sizes[n]
      BY <2>5
    <3>2. ends[n - 1] + sizes[n] <= ends[n]
      <4>. HIDE DEF ends, sizes, ks
      <4>. QED  BY <1>3, <2>5
    <3>. HIDE DEF rel, zends, ends, sizes, filesize, ks
    <3>3. rel(n) \in Nat /\ rel(n) >= ends[n - 1] /\ rel(n) + sizes[n] = ends[n]
      BY <2>2, <3>1, <3>2
    <3>. QED  BY <2>2, <2>3, <2>5, <3>3, Zenon
  <2>. QED  BY <1>2, <2>4, <2>5
<1>11. ASSUME NEW n \in 1..N, NEW m \in 1..N, n < m
       PROVE  rel(n) + sizes[n] <= rel(m) \/ rel(m) + sizes[m] <= rel(n)
  <2>1. n \in 0..N /\ m - 1 \in 0..N /\ n <= m - 1 /\ n - 1 \in 0..N /\ m \in 0..N
    BY <1>2, <1>11
  <2>2. ends[n] <= ends[m - 1] /\ zends[n] <= zends[m - 1]
    <3>. HIDE DEF ends, zends, N
    <3>. QED  BY <1>6, <2>1
  <2>3. \A k \in 0..N : ends[k] \in Nat /\ zends[k] \in Nat
    <3>. HIDE DEF ends, zends, N, filesize
    <3>. QED  BY <1>3, <1>5
  <2>4. ends[n] \in Nat /\ zends[n] \in Nat /\ ends[m - 1] \in Nat /\ zends[m - 1] \in Nat /\ ends[m] \in Nat
        /\ zends[n - 1] \in Nat
    <3>. HIDE DEF ends, zends, N
    <3>. QED  BY <2>1, <2>3
  <2>5. ks[n].zerofill \in BOOLEAN /\ ks[m].zerofill \in BOOLEAN
    BY <1>2
  <2>. HIDE DEF rel, ends, zends, sizes, filesize, N, ks
  <2>6. sizes[n] \in Nat /\ sizes[m] \in Nat /\ rel(n) \in Nat /\ rel(m) \in Nat
    BY <1>10, Zenon
  <2>7. CASE ks[n].zerofill = TRUE /\ ks[m].zerofill = TRUE
    <3>1. rel(n) + sizes[n] = zends[n] /\ rel(m) >= zends[m - 1]
      BY <1>10, <2>7, Zenon
    <3>. QED  BY <2>2, <2>4, <2>6, <3>1
  <2>8. CASE ks[n].zerofill = FALSE /\ ks[m].zerofill = FALSE
    <3>1. rel(n) + sizes[n] = ends[n] /\ rel(m) >= ends[m - 1]
      BY <1>10, <2>8, Zenon
    <3>. QED  BY <2>2, <2>4, <2>6, <3>1
  <2>9. CASE ks[n].zerofill = FALSE /\ ks[m].zerofill = TRUE
    <3>1. rel(n) + sizes[n] = ends[n] /\ ends[n] <= filesize /\ rel(m) >= zends[m - 1] /\ zends[m - 1] >= filesize
      BY <1>10, <2>9, Zenon
    <3>. QED  BY <1>4, <2>4, <2>6, <3>1
  <2>10. CASE ks[n].zerofill = TRUE /\ ks[m].zerofill = FALSE
    <3>1. rel(m) + sizes[m] = ends[m] /\ ends[m] <= filesize /\ rel(n) >= zends[n - 1] /\ zends[n - 1] >= filesize
      BY <1>10, <2>10, Zenon
    <3>. QED  BY <1>4, <2>4, <2>6, <3>1
  <2>. QED  BY <2>5, <2>7, <2>8, <2>9, <2>10, Zenon
<1>12. /\ vm'[s].addr = start /\ vm'[s].size = vsize /\ file'[s].off = off /\ file'[s].size = padded
       /\ size'[s] = sizes
       /\ \A n \in DOMAIN ks :
             at'[s][n].addr = start + rel(n) /\ at'[s][n].off = IF ks[n].zerofill THEN 0 ELSE off + rel(n)
  <2>1. s \in DOMAIN vm /\ s \in DOMAIN file /\ s \in DOMAIN at /\ s \in DOMAIN size
    BY DEF TypeInv
  <2>. HIDE DEF rel, sizes, vsize, padded, ks
  <2>. QED  BY <1>8, <2>1
<1>13. segs' = segs /\ DOMAIN segs'[s].chunks = 1..N
  BY <1>2 DEF segs
<1>14. ChunksIn(s)'
  <2>1. ASSUME NEW n \in 1..N
        PROVE  /\ at'[s][n].addr >= vm'[s].addr /\ at'[s][n].addr + size'[s][n] <= vm'[s].addr + vm'[s].size
               /\ ~ks[n].zerofill =>
                     /\ at'[s][n].off - file'[s].off = at'[s][n].addr - vm'[s].addr
                     /\ at'[s][n].off + size'[s][n] <= file'[s].off + file'[s].size
    <3>1. at'[s][n].addr = start + rel(n) /\ (~ks[n].zerofill => at'[s][n].off = off + rel(n))
      BY <1>2, <1>12
    <3>2. zends[N] \in Nat
      <4>. HIDE DEF zends, N
      <4>. QED  BY <1>2, <1>5
    <3>3. CASE ks[n].zerofill = TRUE
      <4>. HIDE DEF rel, ends, zends, sizes, filesize, N, ks, vsize, padded
      <4>1. rel(n) \in Nat /\ sizes[n] \in Nat /\ rel(n) + sizes[n] = zends[n] /\ zends[n] <= zends[N]
        BY <1>10, <3>3, Zenon
      <4>2. rel(n) + sizes[n] <= vsize
        BY <1>7, <3>2, <4>1
      <4>3. at'[s][n].addr >= vm'[s].addr /\ at'[s][n].addr + size'[s][n] <= vm'[s].addr + vm'[s].size
        BY <1>7, <1>12, <3>1, <4>1, <4>2
      <4>. QED  BY <3>3, <4>3, Zenon
    <3>4. CASE ks[n].zerofill = FALSE
      <4>1. at'[s][n].off = off + rel(n)
        BY <3>1, <3>4
      <4>2. rel(n) \in Nat /\ sizes[n] \in Nat /\ rel(n) + sizes[n] <= filesize
        <5>. HIDE DEF rel, ends, zends, sizes, filesize, N, ks, vsize, padded
        <5>1. rel(n) \in Nat /\ sizes[n] \in Nat /\ rel(n) + sizes[n] = ends[n] /\ ends[n] <= filesize
          BY <1>10, <3>4, Zenon
        <5>. QED  BY <5>1
      <4>3. rel(n) + sizes[n] <= padded /\ rel(n) + sizes[n] <= vsize
        <5>. HIDE DEF rel, ends, zends, sizes, filesize, N, ks, vsize, padded
        <5>. QED  BY <1>4, <1>7, <4>2
      <4>. HIDE DEF rel, ends, zends, sizes, filesize, N, ks, vsize, padded
      <4>. QED  BY <1>7, <1>12, <3>1, <4>1, <4>2, <4>3
    <3>. QED  BY <1>2, <3>3, <3>4
  <2>2. ASSUME NEW n \in 1..N, NEW m \in 1..N, m # n
        PROVE  \/ at'[s][n].addr + size'[s][n] <= at'[s][m].addr
               \/ at'[s][m].addr + size'[s][m] <= at'[s][n].addr
    <3>1. at'[s][n].addr = start + rel(n) /\ at'[s][m].addr = start + rel(m)
      BY <1>2, <1>12
    <3>2. rel(n) + sizes[n] <= rel(m) \/ rel(m) + sizes[m] <= rel(n)
      <4>1. n < m \/ m < n
        BY <2>2
      <4>. HIDE DEF rel, sizes, N
      <4>. QED  BY <1>11, <4>1
    <3>3. rel(n) \in Nat /\ rel(m) \in Nat /\ sizes[n] \in Nat /\ sizes[m] \in Nat
      <4>. HIDE DEF rel, sizes, N, ends, zends, ks, filesize
      <4>. QED  BY <1>10
    <3>. HIDE DEF rel, sizes
    <3>. QED  BY <1>12, <3>1, <3>2, <3>3
  <2>. HIDE DEF N
  <2>. QED  BY <1>13, <2>1, <2>2 DEF ChunksIn
<1>15. \A u \in DOMAIN segs : u # s => at'[u] = at[u] /\ size'[u] = size[u]
  <2>1. DOMAIN at = DOMAIN segs /\ DOMAIN size = DOMAIN segs
    BY DEF TypeInv
  <2>. HIDE DEF rel, sizes, ks
  <2>. QED  BY <1>8, <2>1
<1>16. DOMAIN at' = DOMAIN segs /\ DOMAIN size' = DOMAIN segs
  <2>1. DOMAIN at = DOMAIN segs /\ DOMAIN size = DOMAIN segs
    BY DEF TypeInv
  <2>. HIDE DEF rel, sizes, ks
  <2>. QED  BY <1>8, <2>1
<1>17. at'[s] \in [DOMAIN ks -> [addr : Nat, off : Nat]]
  <2>1. at'[s] = [n \in DOMAIN ks |->
                    [addr |-> start + rel(n), off |-> IF ks[n].zerofill THEN 0 ELSE off + rel(n)]]
    <3>1. s \in DOMAIN at
      BY DEF TypeInv
    <3>. HIDE DEF rel, ks
    <3>. QED  BY <1>8, <3>1
  <2>2. \A n \in DOMAIN ks : rel(n) \in Nat
    <3>. HIDE DEF rel, ks, N, ends, zends, sizes, filesize
    <3>. QED  BY <1>2, <1>10
  <2>. HIDE DEF rel, ks
  <2>. QED  BY <2>1, <2>2
<1>18. size'[s] \in [DOMAIN ks -> Nat]
  <2>1. sizes = [n \in DOMAIN ks |-> sizes[n]]
    BY DEF Sizes
  <2>. HIDE DEF sizes, ks
  <2>. QED  BY <1>2, <1>12, <2>1
<1>. HIDE DEF padded, vsize
<1>19. \E z \in Nat : vm' = [vm EXCEPT ![s] = [addr |-> start, size |-> z]]
  BY <1>7, <1>8
<1>20. /\ \E z \in Nat : file' = [file EXCEPT ![s] = [off |-> off, size |-> z]] /\ fileoff' >= off + z
       /\ fileoff' \in Nat
  <2>1. fileoff' >= off + padded /\ fileoff' \in Nat
    BY <1>7, <1>8, <1>9
  <2>2. file' = [file EXCEPT ![s] = [off |-> off, size |-> padded]] /\ padded \in Nat
    BY <1>7, <1>8
  <2>. QED  BY <2>1, <2>2
<1>. QED  BY <1>19, <1>20, <1>14, <1>15, <1>16, <1>17, <1>18

\* A laid-out segment stays so if what is its own does not change.
LEMMA LaidKept ==
    ASSUME SegmentAssumption, TypeInv, l' = l, NEW s \in DOMAIN segs,
           vm'[s] = vm[s], file'[s] = file[s], at'[s] = at[s], size'[s] = size[s],
           \A u \in DOMAIN segs : u < s => file'[u] = file[u],
           fileoff' \in Nat, fileoff <= fileoff',
           ChunksIn(s), FileAfter(s), StaysInPlace(s)
    PROVE  ChunksIn(s)' /\ FileAfter(s)' /\ StaysInPlace(s)'
<1>1. segs' = segs /\ HeaderAddr' = HeaderAddr
  BY DEF segs, HeaderAddr, Header
<1>2. ChunksIn(s)'
  BY <1>1 DEF ChunksIn
<1>3. FileAfter(s)'
  <2>1. file[s].off \in Nat /\ file[s].size \in Nat /\ fileoff \in Nat
    BY TypeFacts DEF TypeInv
  <2>. QED  BY <1>1, <2>1 DEF FileAfter
<1>. QED  BY <1>1, <1>2, <1>3 DEF StaysInPlace

LEMMA LayOutStep ==
    ASSUME SegmentAssumption, LayInv, LayOutSegment
    PROVE  LayInv'
<1>0. PICK k : k = i
  OBVIOUS
<1>. DEFINE start == StartOf(k)
            gap == IF InPlace(k) \/ HasPins THEN 0 ELSE start - addr
            off == fileoff + gap
<1>1. TypeInv /\ LaidInv /\ l \in Links
  BY DEF LayInv, TypeInv
<1>2. k \in DOMAIN segs /\ k <= Len(segs) /\ Len(segs) \in Nat /\ DOMAIN segs = 1..Len(segs) /\ phase = "layout"
  BY <1>0, <1>1, LinkFacts DEF LayOutSegment, TypeInv
<1>3. /\ LayoutSegment(k, off, start)
      /\ addr' = IF segs[k].kind = "zero" THEN addr ELSE start + AlignTo(vm'[k].size, segs[k].page)
      /\ i' = k + 1 /\ l' = l /\ phase' = phase /\ error' = error
      /\ minSize' = minSize /\ starts' = starts /\ linkedit' = linkedit
  BY <1>0 DEF LayOutSegment
<1>4. segs' = segs /\ Len(segs') = Len(segs) /\ HeaderAddr' = HeaderAddr
  BY <1>3 DEF segs, HeaderAddr, Header
<1>5. start \in Nat /\ (~InPlace(k) => start >= addr)
  <2>1. CASE segs[k].kind = "zero"
    BY <2>1 DEF StartOf, InPlace
  <2>2. CASE segs[k].kind = "header"
    <3>1. Header = k /\ k # 0
      BY <1>1, <1>2, <2>2, HeaderFacts
    <3>2. HeaderAddr \in Nat
      BY <1>1, <3>1, HeaderFacts
    <3>. QED  BY <2>2, <3>2 DEF StartOf, InPlace
  <2>3. CASE segs[k].kind \notin {"zero", "header"}
    <3>1. addr \in Nat /\ StartAlign(k) \in Nat \ {0}
      BY <1>1, <1>2, StartAlignFacts DEF TypeInv
    <3>2. start = AlignTo(addr, StartAlign(k))
      BY <2>3 DEF StartOf
    <3>. HIDE DEF start
    <3>. QED  BY <3>1, <3>2, AlignFacts
  <2>. QED  BY <2>1, <2>2, <2>3
<1>. HIDE DEF start
<1>6. gap \in Nat
  <2>1. addr \in Nat
    BY <1>1 DEF TypeInv
  <2>. QED  BY <1>5, <2>1
<1>. HIDE DEF gap
<1>7. off \in Nat /\ fileoff <= off /\ fileoff \in Nat
  BY <1>1, <1>6 DEF TypeInv
<1>. HIDE DEF off
\* What the segment itself is like, and what others keep.
<1>8. /\ \E z \in Nat : vm' = [vm EXCEPT ![k] = [addr |-> start, size |-> z]]
      /\ segs[k].kind = "zero" => vm'[k].size = segs[k].size
      /\ file' \in [DOMAIN segs -> [off : Nat, size : Nat]]
      /\ \A u \in DOMAIN segs : u # k => file'[u] = file[u] /\ at'[u] = at[u] /\ size'[u] = size[u]
      /\ fileoff' \in Nat /\ off <= fileoff'
      /\ file'[k].off + file'[k].size <= fileoff' /\ (file'[k].size > 0 => off <= file'[k].off)
      /\ segs[k].kind \in {"zero", "stack"} => file'[k].off = 0 /\ file'[k].size = 0
      /\ DOMAIN at' = DOMAIN segs /\ DOMAIN size' = DOMAIN segs
      /\ at'[k] \in [DOMAIN segs[k].chunks -> [addr : Nat, off : Nat]]
      /\ size'[k] \in [DOMAIN segs[k].chunks -> Nat]
      /\ ChunksIn(k)'
  <2>1. CASE segs[k].kind \in {"zero", "stack"}
    <3>1. /\ vm' = [vm EXCEPT ![k] = [addr |-> start, size |-> segs[k].size]]
          /\ fileoff' = off /\ file' = file /\ at' = at /\ size' = size
      BY <1>3, <2>1 DEF LayoutSegment
    <3>2. segs[k].size \in Nat /\ DOMAIN segs[k].chunks = {}
      BY <1>1, <1>2, <2>1, LinkFacts
    <3>3. ChunksIn(k)'
      BY <1>4, <3>2 DEF ChunksIn
    <3>4. vm'[k].size = segs[k].size
      BY <1>1, <1>2, <3>1 DEF TypeInv
    <3>5. file[k].off = 0 /\ file[k].size = 0
      BY <1>1, <1>2, <2>1 DEF LaidInv
    <3>6. \E z \in Nat : vm' = [vm EXCEPT ![k] = [addr |-> start, size |-> z]]
      BY <3>1, <3>2
    <3>7. /\ file \in [DOMAIN segs -> [off : Nat, size : Nat]]
          /\ DOMAIN at = DOMAIN segs /\ DOMAIN size = DOMAIN segs
          /\ at[k] \in [DOMAIN segs[k].chunks -> [addr : Nat, off : Nat]]
          /\ size[k] \in [DOMAIN segs[k].chunks -> Nat]
      BY <1>1, <1>2 DEF TypeInv
    <3>8. file'[k].off + file'[k].size <= fileoff' /\ file'[k].off = 0 /\ file'[k].size = 0
      BY <1>7, <3>1, <3>5
    <3>9. fileoff' \in Nat /\ off <= fileoff'
      BY <1>7, <3>1
    <3>10. \A u \in DOMAIN segs : file'[u] = file[u] /\ at'[u] = at[u] /\ size'[u] = size[u]
      BY <3>1
    <3>11. file'[k].size > 0 => off <= file'[k].off
      BY <3>8
    <3>. QED  BY <3>1, <3>3, <3>4, <3>6, <3>7, <3>8, <3>9, <3>10, <3>11
  <2>2. CASE segs[k].kind \notin {"zero", "stack"}
    <3>1. /\ \E z \in Nat : vm' = [vm EXCEPT ![k] = [addr |-> start, size |-> z]]
          /\ \E z \in Nat : file' = [file EXCEPT ![k] = [off |-> off, size |-> z]] /\ fileoff' >= off + z
          /\ fileoff' \in Nat
          /\ DOMAIN at' = DOMAIN segs /\ DOMAIN size' = DOMAIN segs
          /\ \A u \in DOMAIN segs : u # k => at'[u] = at[u] /\ size'[u] = size[u]
          /\ at'[k] \in [DOMAIN segs[k].chunks -> [addr : Nat, off : Nat]]
          /\ size'[k] \in [DOMAIN segs[k].chunks -> Nat]
          /\ ChunksIn(k)'
      BY <1>1, <1>2, <1>3, <1>5, <1>7, <2>2, LayoutOne
    <3>2. PICK z \in Nat : file' = [file EXCEPT ![k] = [off |-> off, size |-> z]] /\ fileoff' >= off + z
      BY <3>1
    <3>3. file \in [DOMAIN segs -> [off : Nat, size : Nat]]
      BY <1>1 DEF TypeInv
    <3>4. /\ file' \in [DOMAIN segs -> [off : Nat, size : Nat]]
          /\ \A u \in DOMAIN segs : u # k => file'[u] = file[u]
          /\ file'[k].off = off /\ file'[k].size = z
      BY <1>2, <1>7, <3>2, <3>3
    <3>5. off <= fileoff' /\ file'[k].off + file'[k].size <= fileoff' /\ off <= file'[k].off
      BY <1>7, <3>1, <3>2, <3>4
    <3>. QED  BY <2>2, <3>1, <3>4, <3>5
  <2>. QED  BY <2>1, <2>2
<1>9. /\ vm' \in [DOMAIN segs -> [addr : Nat, size : Nat]]
      /\ \A u \in DOMAIN segs : u # k => vm'[u] = vm[u]
      /\ vm'[k].addr = start
  <2>1. PICK z \in Nat : vm' = [vm EXCEPT ![k] = [addr |-> start, size |-> z]]
    BY <1>8
  <2>2. vm \in [DOMAIN segs -> [addr : Nat, size : Nat]]
    BY <1>1 DEF TypeInv
  <2>. QED  BY <1>2, <1>5, <2>1, <2>2
<1>10. addr' \in Nat
  <2>1. vm'[k].size \in Nat /\ segs[k].page \in Nat \ {0} /\ addr \in Nat
    BY <1>1, <1>2, <1>9, LinkFacts DEF TypeInv
  <2>2. AlignTo(vm'[k].size, segs[k].page) \in Nat
    BY <2>1, AlignFacts
  <2>. QED  BY <1>3, <1>5, <2>1, <2>2
<1>11. TypeInv'
  <2>1. \A s \in DOMAIN segs :
          /\ at'[s] \in [DOMAIN segs[s].chunks -> [addr : Nat, off : Nat]]
          /\ size'[s] \in [DOMAIN segs[s].chunks -> Nat]
    <3>1. TAKE s \in DOMAIN segs
    <3>2. CASE s = k
      BY <1>8, <3>2
    <3>3. CASE s # k
      BY <1>1, <1>8, <3>3 DEF TypeInv
    <3>. QED  BY <3>2, <3>3
  <2>2. i' \in 1..(Len(segs') + 1)
    BY <1>2, <1>3, <1>4
  <2>3. /\ l' \in Links /\ phase' \in Phases /\ error' \in {"none", "overlap", "order"}
        /\ (error' # "none" <=> phase' = "failed")
        /\ minSize' \in Nat /\ starts' \in Nat /\ linkedit' \in [addr : Nat, off : Nat, size : Nat]
    BY <1>1, <1>3 DEF TypeInv
  <2>4. /\ vm' \in [DOMAIN segs' -> [addr : Nat, size : Nat]]
        /\ file' \in [DOMAIN segs' -> [off : Nat, size : Nat]]
        /\ DOMAIN at' = DOMAIN segs' /\ DOMAIN size' = DOMAIN segs' /\ fileoff' \in Nat
    BY <1>4, <1>8, <1>9
  <2>. QED  BY <1>4, <1>10, <2>1, <2>2, <2>3, <2>4 DEF TypeInv
<1>12. LaidInv'
  <2>1. ASSUME NEW s \in DOMAIN segs, segs[s].kind \in {"zero", "stack"}
        PROVE  file'[s].off = 0 /\ file'[s].size = 0
    <3>1. CASE s = k
      BY <1>8, <2>1, <3>1
    <3>2. CASE s # k
      BY <1>1, <1>8, <2>1, <3>2 DEF LaidInv
    <3>. QED  BY <3>1, <3>2
  <2>2. ASSUME NEW s \in DOMAIN segs, s < k
        PROVE  ChunksIn(s)' /\ FileAfter(s)' /\ StaysInPlace(s)'
    <3>1. s # k /\ fileoff <= fileoff' /\ fileoff' \in Nat
      BY <1>2, <1>7, <1>8, <2>2
    <3>2. /\ vm'[s] = vm[s] /\ file'[s] = file[s] /\ at'[s] = at[s] /\ size'[s] = size[s]
          /\ \A u \in DOMAIN segs : u < s => file'[u] = file[u]
      BY <1>2, <1>8, <1>9, <2>2, <3>1
    <3>3. ChunksIn(s) /\ FileAfter(s) /\ StaysInPlace(s)
      BY <1>0, <1>1, <2>2 DEF LaidInv
    <3>. QED  BY <1>1, <1>3, <3>1, <3>2, <3>3, LaidKept
  <2>3. FileAfter(k)'
    <3>1. ASSUME NEW u \in DOMAIN segs, u < k, file'[k].size > 0
          PROVE  file'[u].off + file'[u].size <= file'[k].off
      <4>1. file[u].off + file[u].size <= fileoff
        BY <1>0, <1>1, <3>1 DEF LaidInv, FileAfter
      <4>2. file'[u] = file[u] /\ file[u].off \in Nat /\ file[u].size \in Nat /\ file'[k].off \in Nat
        <5>1. u # k
          BY <1>2, <3>1
        <5>. QED  BY <1>1, <1>2, <1>8, <5>1, TypeFacts
      <4>3. off <= file'[k].off
        BY <1>8, <3>1
      <4>. QED  BY <1>7, <4>1, <4>2, <4>3
    <3>. QED  BY <1>4, <1>8, <3>1 DEF FileAfter
  <2>4. StaysInPlace(k)'
    <3>1. segs[k].kind = "zero" => start = 0
      BY DEF start, StartOf
    <3>2. segs[k].kind = "header" => start = HeaderAddr
      BY DEF start, StartOf
    <3>. QED  BY <1>4, <1>8, <1>9, <3>1, <3>2 DEF StaysInPlace
  <2>5. ASSUME NEW s \in DOMAIN segs, s < i'
        PROVE  ChunksIn(s)' /\ FileAfter(s)' /\ StaysInPlace(s)'
    <3>1. s < k \/ s = k
      BY <1>2, <1>3, <2>5
    <3>. QED  BY <1>8, <2>2, <2>3, <2>4, <3>1
  <2>6. phase' = "layout"
    BY <1>2, <1>3
  <2>. QED  BY <1>4, <2>1, <2>5, <2>6 DEF LaidInv
<1>13. PlaceInv'
  BY <1>2, <1>3 DEF PlaceInv
<1>. QED  BY <1>11, <1>12, <1>13 DEF LayInv

LEMMA LaidQuiet ==
    ASSUME SegmentAssumption, TypeInv, LaidInv, phase # "layout" \/ i > Len(segs),
           l' = l, vm' = vm, file' = file, at' = at, fileoff' = fileoff,
           \A s \in DOMAIN segs : size'[s] = size[s]
    PROVE  LaidInv'
<1>1. segs' = segs /\ l \in Links /\ fileoff \in Nat
  BY DEF segs, TypeInv
<1>2. ASSUME NEW s \in DOMAIN segs
      PROVE  /\ segs[s].kind \in {"zero", "stack"} => file[s].off = 0 /\ file[s].size = 0
             /\ ChunksIn(s) /\ FileAfter(s) /\ StaysInPlace(s)
  <2>1. phase # "layout" \/ s < i
    BY <1>1, LinkFacts DEF TypeInv
  <2>. QED  BY <2>1 DEF LaidInv
<1>3. ASSUME NEW s \in DOMAIN segs
      PROVE  ChunksIn(s)' /\ FileAfter(s)' /\ StaysInPlace(s)'
  <2>1. fileoff' \in Nat /\ fileoff <= fileoff'
    BY <1>1
  <2>. QED  BY <1>2, <2>1, LaidKept
<1>. QED  BY <1>1, <1>2, <1>3 DEF LaidInv

LEMMA LaidAgain ==
    ASSUME SegmentAssumption, TypeInv, LaidInv, l' = l, file' = file, phase' = "layout", i' = 1
    PROVE  LaidInv'
<1>1. segs' = segs /\ l \in Links
  BY DEF segs, TypeInv
<1>2. \A s \in DOMAIN segs : ~(s < 1)
  BY <1>1, LinkFacts
<1>. QED  BY <1>1, <1>2 DEF LaidInv

LEMMA TakenBounded ==
    ASSUME SegmentAssumption, TypeInv
    PROVE  /\ Bounded(TakenFirst)
           /\ \A s : Bounded(taken) => Bounded(Taken(s))
<1>1. l \in Links /\ VmTyped /\ Len(segs) \in Nat /\ DOMAIN segs = 1..Len(segs)
  BY TypeFacts, LinkFacts DEF TypeInv
<1>2. \A s \in DOMAIN segs : Span(s) \in Nat /\ vm[s].addr \in Nat /\ Fixed[s] \in Nat \cup {None}
  <2>1. \A s \in DOMAIN segs : Span(s) \in Nat
    BY <1>1, SpanOfFacts
  <2>2. Fixed \in [DOMAIN segs -> Nat \cup {None}]
    BY <1>1, FixedFacts
  <2>. QED  BY <1>1, <2>1, <2>2 DEF VmTyped
<1>3. Bounded(TakenFirst)
  <2>1. l.linkedit.pin \in Nat \cup {None}
    BY <1>1, LinkFacts
  <2>2. Header # 0 => Header \in DOMAIN segs
    BY <1>1, HeaderFacts
  <2>. DEFINE b == (IF Header = 0 THEN 0 ELSE vm[Header].addr + Span(Header))
                   + (IF l.linkedit.pin = None THEN 0 ELSE l.linkedit.pin)
  <2>3. b \in Nat
    BY <1>2, <2>1, <2>2
  <2>4. \A r \in TakenFirst : r[1] \in Nat /\ r[2] \in Nat /\ r[2] <= b
    <3>1. SUFFICES ASSUME NEW r \in TakenFirst
                   PROVE  r[1] \in Nat /\ r[2] \in Nat /\ r[2] <= b
      OBVIOUS
    <3>2. CASE Header # 0 /\ r = <<vm[Header].addr, vm[Header].addr + Span(Header)>>
      BY <1>2, <2>1, <2>2, <3>2
    <3>3. CASE l.linkedit.pin # None /\ r = <<l.linkedit.pin, l.linkedit.pin>>
      BY <1>2, <2>1, <2>2, <3>3
    <3>. QED  BY <3>1, <3>2, <3>3 DEF TakenFirst
  <2>. HIDE DEF b
  <2>. QED  BY <2>3, <2>4 DEF Bounded
<1>4. ASSUME NEW s, Bounded(taken)
      PROVE  Bounded(Taken(s))
  <2>. DEFINE f == [u \in 1..Len(segs) |-> IF Fixed[u] = None THEN 0 ELSE Fixed[u] + Span(u)]
              new == {<<Fixed[u], Fixed[u] + Span(u)>> : u \in {x \in DOMAIN segs : ~InPlace(x) /\ Fixed[x] # None}}
  <2>1. \A u \in 1..Len(segs) : f[u] \in Nat
    BY <1>1, <1>2
  <2>2. PICK b \in Nat : \A u \in 1..Len(segs) : f[u] <= b
    <3>. HIDE DEF f
    <3>. QED  BY <1>1, <2>1, BoundOfValues
  <2>3. PICK c \in Nat : \A r \in taken : r[1] \in Nat /\ r[2] \in Nat /\ r[2] <= c
    BY <1>4 DEF Bounded
  <2>4. \A r \in new : r[1] \in Nat /\ r[2] \in Nat /\ r[2] <= b
    <3>1. SUFFICES ASSUME NEW u \in DOMAIN segs, Fixed[u] # None
                   PROVE  LET r == <<Fixed[u], Fixed[u] + Span(u)>> IN r[1] \in Nat /\ r[2] \in Nat /\ r[2] <= b
      OBVIOUS
    <3>2. Fixed[u] \in Nat /\ Span(u) \in Nat /\ f[u] = Fixed[u] + Span(u) /\ f[u] <= b
      BY <1>1, <1>2, <2>2, <3>1
    <3>. HIDE DEF f
    <3>. QED  BY <3>2
  <2>5. \A r \in taken \cup new : r[1] \in Nat /\ r[2] \in Nat /\ r[2] <= b + c
    <3>. HIDE DEF new
    <3>. QED  BY <2>3, <2>4
  <2>6. Taken(s) \subseteq taken \cup new
    BY DEF Taken
  <2>7. b + c \in Nat
    OBVIOUS
  <2>. HIDE DEF new
  <2>. QED  BY <2>5, <2>6, <2>7 DEF Bounded
<1>. QED  BY <1>3, <1>4

LEMMA StartPlacingStep ==
    ASSUME SegmentAssumption, LayInv, StartPlacing
    PROVE  LayInv'
<1>1. TypeInv /\ LaidInv /\ l \in Links /\ VmTyped /\ Len(segs) \in Nat
  BY TypeFacts, LinkFacts DEF LayInv, TypeInv
<1>2. /\ phase = "layout" /\ i > Len(segs) /\ taken' = TakenFirst /\ placed' = Fixed /\ i' = 1 /\ phase' = "place"
      /\ l' = l /\ error' = error /\ fileoff' = fileoff /\ addr' = addr /\ vm' = vm /\ file' = file /\ at' = at
      /\ size' = size /\ minSize' = minSize /\ starts' = starts /\ linkedit' = linkedit
  BY DEF StartPlacing, laidOut
<1>3. segs' = segs
  BY <1>2 DEF segs
<1>4. TypeInv'
  <2>1. i' \in 1..(Len(segs) + 1) /\ phase' \in Phases /\ (error' # "none" <=> phase' = "failed")
    BY <1>1, <1>2 DEF TypeInv, Phases
  <2>. QED  BY <1>1, <1>2, <1>3, <2>1 DEF TypeInv
<1>5. LaidInv'
  BY <1>1, <1>2, LaidQuiet
<1>6. PlaceInv'
  <2>1. Fixed \in [DOMAIN segs -> Nat \cup {None}] /\ \A s \in DOMAIN segs : InPlace(s) => Fixed[s] = vm[s].addr
    BY <1>1, FixedFacts
  <2>2. Bounded(TakenFirst)
    BY <1>1, TakenBounded
  <2>3. Bounded(taken')
    BY <1>2, <2>2
  <2>4. \A s \in DOMAIN segs : ~(s < i')
    BY <1>1, <1>2, LinkFacts
  <2>5. \A s \in DOMAIN segs : InPlace(s)' = InPlace(s)
    BY <1>3 DEF InPlace
  <2>6. Bounded(taken)'
    BY <2>3 DEF Bounded
  <2>. QED  BY <1>2, <1>3, <2>1, <2>4, <2>5, <2>6 DEF PlaceInv
<1>. QED  BY <1>4, <1>5, <1>6 DEF LayInv

\* Where a floating segment goes.
LEMMA FloatFacts ==
    ASSUME SegmentAssumption, LayInv, PlaceSegment, placed[i] = None, NEW k \in DOMAIN segs, k = i
    PROVE  \E first \in Nat, start \in Nat :
              /\ start >= first
              /\ placed' = [placed EXCEPT ![k] = start]
              /\ taken' = Taken(k) \cup {<<first, start + Span(k)>>}
              /\ first = l.base \/ first > (IF Detached THEN 0 ELSE l.base)
              /\ \A r \in Taken(k) : r[2] <= first \/ start + Span(k) <= r[1]
<1>. DEFINE floor == IF Detached THEN 0 ELSE l.base
            span == LowestFreeSpan(l.base, floor, Span(k), StartAlign(k), Taken(k))
            start == AlignTo(span[1], StartAlign(k))
<1>1. TypeInv /\ l \in Links /\ VmTyped /\ phase = "place" /\ PlaceInv
  BY TypeFacts DEF LayInv, TypeInv, PlaceSegment
<1>2. l.base \in Nat /\ floor \in Nat /\ floor <= l.base /\ Span(k) \in Nat /\ StartAlign(k) \in Nat \ {0}
  BY <1>1, LinkFacts, SpanOfFacts, StartAlignFacts
<1>3. Bounded(Taken(k))
  BY <1>1, TakenBounded DEF PlaceInv
<1>4. /\ span[1] \in Nat /\ span[2] = AlignTo(span[1], StartAlign(k)) + Span(k) /\ span = <<span[1], span[2]>>
      /\ span[1] = l.base \/ span[1] > floor
      /\ \A r \in Taken(k) : r[2] <= span[1] \/ (span[2] <= r[1] /\ span[1] < r[1])
  <2>. HIDE DEF floor
  <2>. QED  BY <1>2, <1>3, SpanFacts
<1>5. start \in Nat /\ start >= span[1] /\ span[2] = start + Span(k) /\ span[2] - Span(k) = start
  <2>. HIDE DEF span
  <2>. QED  BY <1>2, <1>4, AlignFacts
<1>6. placed' = [placed EXCEPT ![k] = span[2] - Span(k)] /\ taken' = Taken(k) \cup {span}
  BY DEF PlaceSegment
<1>. HIDE DEF span, start
<1>7. span = <<span[1], start + Span(k)>>
  BY <1>4, <1>5
<1>8. /\ placed' = [placed EXCEPT ![k] = start]
      /\ taken' = Taken(k) \cup {<<span[1], start + Span(k)>>}
  BY <1>5, <1>6, <1>7
<1>9. \A r \in Taken(k) : r[2] <= span[1] \/ start + Span(k) <= r[1]
  BY <1>4, <1>5
<1>10. span[1] = l.base \/ span[1] > (IF Detached THEN 0 ELSE l.base)
  BY <1>4
<1>11. span[1] \in Nat /\ start \in Nat /\ start >= span[1]
  BY <1>4, <1>5
<1>. HIDE DEF floor
<1>. QED  BY <1>8, <1>9, <1>10, <1>11, Zenon

LEMMA PlaceStep ==
    ASSUME SegmentAssumption, LayInv, PlaceSegment
    PROVE  LayInv'
<1>0. PICK k : k = i
  OBVIOUS
<1>1. TypeInv /\ LaidInv /\ l \in Links /\ VmTyped /\ Len(segs) \in Nat /\ DOMAIN segs = 1..Len(segs)
  BY TypeFacts, LinkFacts DEF LayInv, TypeInv
<1>2. /\ phase = "place" /\ i <= Len(segs) /\ i' = i + 1 /\ phase' = phase
      /\ l' = l /\ error' = error /\ fileoff' = fileoff /\ addr' = addr /\ vm' = vm /\ file' = file /\ at' = at
      /\ size' = size /\ minSize' = minSize /\ starts' = starts /\ linkedit' = linkedit
  BY DEF PlaceSegment, laidOut
<1>3. segs' = segs /\ k \in DOMAIN segs /\ \A s \in DOMAIN segs : InPlace(s)' = InPlace(s)
  BY <1>0, <1>1, <1>2 DEF segs, TypeInv, InPlace
<1>4. TypeInv'
  <2>1. i' \in 1..(Len(segs) + 1)
    BY <1>1, <1>2 DEF TypeInv
  <2>. QED  BY <1>1, <1>2, <1>3, <2>1 DEF TypeInv
<1>5. LaidInv'
  BY <1>1, <1>2, LaidQuiet
<1>6. /\ placed \in [DOMAIN segs -> Nat \cup {None}] /\ Bounded(taken)
      /\ \A s \in DOMAIN segs : (s < i => placed[s] # None) /\ (InPlace(s) => placed[s] = vm[s].addr)
  BY <1>2 DEF LayInv, PlaceInv
<1>7. Bounded(Taken(k))
  BY <1>1, <1>6, TakenBounded
<1>8. \A s \in DOMAIN segs : s < i' => s < k \/ s = k
  BY <1>0, <1>1, <1>2, <1>3
<1>9. PlaceInv'
  <2>1. CASE placed[i] # None
    <3>1. taken' = Taken(k) /\ placed' = placed
      BY <1>0, <2>1 DEF PlaceSegment
    <3>2. Bounded(taken')
      BY <1>7, <3>1
    <3>3. Bounded(taken)'
      BY <3>2 DEF Bounded
    <3>. QED  BY <1>0, <1>2, <1>3, <1>6, <1>8, <2>1, <3>1, <3>3 DEF PlaceInv
  <2>2. CASE placed[i] = None
    <3>1. PICK first \in Nat, start \in Nat :
             placed' = [placed EXCEPT ![k] = start] /\ taken' = Taken(k) \cup {<<first, start + Span(k)>>}
      BY <1>0, <1>3, <2>2, FloatFacts
    <3>2. Span(k) \in Nat
      BY <1>1, <1>3, SpanOfFacts
    <3>3. Bounded(taken')
      <4>1. PICK b \in Nat : \A r \in Taken(k) : r[1] \in Nat /\ r[2] \in Nat /\ r[2] <= b
        BY <1>7 DEF Bounded
      <4>2. \A r \in taken' : r[1] \in Nat /\ r[2] \in Nat /\ r[2] <= b + (start + Span(k))
        BY <3>1, <3>2, <4>1
      <4>3. b + (start + Span(k)) \in Nat
        BY <3>2
      <4>. QED  BY <4>2, <4>3 DEF Bounded
    <3>4. Bounded(taken)'
      BY <3>3 DEF Bounded
    <3>5. placed' \in [DOMAIN segs -> Nat \cup {None}]
      BY <1>6, <3>1
    <3>6. \A s \in DOMAIN segs : s < k \/ s = k => placed'[s] # None
      BY <1>0, <1>6, <3>1 DEF None
    <3>7. ~InPlace(k)
      <4>1. InPlace(k) => placed[k] = vm[k].addr /\ vm[k].addr \in Nat
        BY <1>1, <1>3, <1>6 DEF VmTyped
      <4>. QED  BY <1>0, <2>2, <4>1 DEF None
    <3>8. \A s \in DOMAIN segs : InPlace(s) => placed'[s] = vm[s].addr
      BY <1>6, <3>1, <3>7
    <3>. QED  BY <1>2, <1>3, <1>8, <3>4, <3>5, <3>6, <3>8 DEF PlaceInv
  <2>. QED  BY <2>1, <2>2
<1>. QED  BY <1>4, <1>5, <1>9 DEF LayInv

LEMMA MoveFacts ==
    ASSUME SegmentAssumption, LayInv, MoveSegments
    PROVE  /\ phase = "place" /\ l' = l /\ segs' = segs /\ cursors' = cursors /\ file' = file /\ size' = size
           /\ minSize' = minSize /\ starts' = starts /\ linkedit' = linkedit
           /\ \A s \in DOMAIN segs :
                 /\ placed[s] \in Nat /\ (InPlace(s) => placed[s] = vm[s].addr)
                 /\ vm'[s].addr = placed[s] /\ vm'[s].size = vm[s].size
                 /\ \A n \in DOMAIN segs[s].chunks :
                       /\ at'[s][n].addr = at[s][n].addr + placed[s] - vm[s].addr
                       /\ at'[s][n].off = at[s][n].off
           /\ DOMAIN vm' = DOMAIN segs /\ DOMAIN at' = DOMAIN segs
<1>1. TypeInv /\ l \in Links /\ Len(segs) \in Nat /\ DOMAIN segs = 1..Len(segs)
  BY LinkFacts DEF LayInv, TypeInv
<1>2. /\ phase = "place" /\ i > Len(segs) /\ l' = l /\ cursors' = cursors /\ file' = file /\ size' = size
      /\ minSize' = minSize /\ starts' = starts /\ linkedit' = linkedit
      /\ vm' = [s \in DOMAIN segs |-> [vm[s] EXCEPT !.addr = placed[s]]] /\ at' = MoveChunks
  BY DEF MoveSegments
<1>3. \A s \in DOMAIN segs : placed[s] \in Nat /\ (InPlace(s) => placed[s] = vm[s].addr)
  <2>1. \A s \in DOMAIN segs : s < i
    BY <1>1, <1>2 DEF TypeInv
  <2>. QED  BY <1>2, <2>1 DEF LayInv, PlaceInv
<1>4. ASSUME NEW s \in DOMAIN segs
      PROVE  vm'[s].addr = placed[s] /\ vm'[s].size = vm[s].size
  <2>1. vm[s] \in [addr : Nat, size : Nat]
    BY <1>1 DEF TypeInv
  <2>. QED  BY <1>2, <2>1
<1>5. ASSUME NEW s \in DOMAIN segs, NEW n \in DOMAIN segs[s].chunks
      PROVE  at'[s][n].addr = at[s][n].addr + placed[s] - vm[s].addr /\ at'[s][n].off = at[s][n].off
  <2>1. at[s] \in [DOMAIN segs[s].chunks -> [addr : Nat, off : Nat]]
    BY <1>1 DEF TypeInv
  <2>2. at[s][n] \in [addr : Nat, off : Nat] /\ DOMAIN at[s] = DOMAIN segs[s].chunks
    BY <2>1
  <2>3. at'[s] = [m \in DOMAIN at[s] |-> [at[s][m] EXCEPT !.addr = @ + placed[s] - vm[s].addr]]
    BY <1>2 DEF MoveChunks
  <2>4. at'[s][n] = [at[s][n] EXCEPT !.addr = @ + placed[s] - vm[s].addr]
    BY <2>2, <2>3
  <2>. QED  BY <2>2, <2>4
<1>6. DOMAIN vm' = DOMAIN segs /\ DOMAIN at' = DOMAIN segs
  BY <1>2 DEF MoveChunks
<1>. QED  BY <1>2, <1>3, <1>4, <1>5, <1>6 DEF segs

LEMMA MoveStep ==
    ASSUME SegmentAssumption, LayInv, MoveSegments
    PROVE  LayInv'
<1>1. TypeInv /\ LaidInv /\ l \in Links
  BY DEF LayInv, TypeInv
<1>2. /\ phase = "place" /\ l' = l /\ segs' = segs /\ i' = i /\ fileoff' = fileoff /\ addr' = addr
      /\ file' = file /\ size' = size
      /\ minSize' = minSize /\ starts' = starts /\ linkedit' = linkedit
  BY MoveFacts DEF cursors
<1>3. /\ phase' \in {"failed", "unwind"} /\ error' \in {"none", "overlap"}
      /\ (error' # "none" <=> phase' = "failed")
  BY <1>1, <1>2 DEF MoveSegments, TypeInv
<1>4. ASSUME NEW s \in DOMAIN segs
      PROVE  /\ vm'[s].addr = placed[s] /\ vm'[s].size = vm[s].size /\ placed[s] \in Nat
             /\ vm[s].addr \in Nat /\ vm[s].size \in Nat /\ file[s].off \in Nat /\ file[s].size \in Nat
             /\ ChunksIn(s) /\ FileAfter(s) /\ StaysInPlace(s)
  <2>1. ChunksIn(s) /\ FileAfter(s) /\ StaysInPlace(s)
    BY <1>1, <1>2 DEF LaidInv
  <2>2. vm'[s].addr = placed[s] /\ vm'[s].size = vm[s].size /\ placed[s] \in Nat
    BY MoveFacts
  <2>. QED  BY <1>1, <2>1, <2>2, TypeFacts
<1>5. ASSUME NEW s \in DOMAIN segs, NEW n \in DOMAIN segs[s].chunks
      PROVE  /\ at'[s][n].addr = placed[s] + (at[s][n].addr - vm[s].addr) /\ at'[s][n].off = at[s][n].off
             /\ at[s][n].addr - vm[s].addr \in Nat /\ at[s][n].off \in Nat /\ size[s][n] \in Nat
             /\ at[s][n].addr \in Nat
  <2>1. at[s][n].addr \in Nat /\ at[s][n].off \in Nat /\ size[s][n] \in Nat /\ vm[s].addr \in Nat /\ placed[s] \in Nat
    BY <1>1, <1>4, TypeFacts
  <2>2. at[s][n].addr >= vm[s].addr
    BY <1>4 DEF ChunksIn
  <2>3. at'[s][n].addr = at[s][n].addr + placed[s] - vm[s].addr /\ at'[s][n].off = at[s][n].off
    BY MoveFacts
  <2>. QED  BY <2>1, <2>2, <2>3
<1>6. TypeInv'
  <2>1. vm' \in [DOMAIN segs -> [addr : Nat, size : Nat]]
    <3>1. vm' = [s \in DOMAIN segs |-> [vm[s] EXCEPT !.addr = placed[s]]]
      BY DEF MoveSegments
    <3>2. \A s \in DOMAIN segs : [vm[s] EXCEPT !.addr = placed[s]] \in [addr : Nat, size : Nat]
      BY <1>1, <1>4 DEF TypeInv
    <3>. QED  BY <3>1, <3>2
  <2>2. \A s \in DOMAIN segs : at'[s] \in [DOMAIN segs[s].chunks -> [addr : Nat, off : Nat]]
    <3>1. TAKE s \in DOMAIN segs
    <3>2. at'[s] = [n \in DOMAIN at[s] |-> [at[s][n] EXCEPT !.addr = @ + placed[s] - vm[s].addr]]
      BY DEF MoveSegments, MoveChunks
    <3>3. at[s] \in [DOMAIN segs[s].chunks -> [addr : Nat, off : Nat]]
      BY <1>1 DEF TypeInv
    <3>4. \A n \in DOMAIN segs[s].chunks :
             [at[s][n] EXCEPT !.addr = @ + placed[s] - vm[s].addr] \in [addr : Nat, off : Nat]
      <4>1. TAKE n \in DOMAIN segs[s].chunks
      <4>2. at[s][n] \in [addr : Nat, off : Nat]
        BY <3>3
      <4>3. at[s][n].addr + placed[s] - vm[s].addr \in Nat
        BY <1>4, <1>5
      <4>. QED  BY <4>2, <4>3
    <3>. QED  BY <3>2, <3>3, <3>4
  <2>3. DOMAIN at' = DOMAIN segs
    BY MoveFacts
  <2>4. phase' \in Phases /\ error' \in {"none", "overlap", "order"} /\ (error' # "none" <=> phase' = "failed")
    BY <1>3 DEF Phases
  <2>. QED  BY <1>1, <1>2, <2>1, <2>2, <2>3, <2>4 DEF TypeInv
<1>7. LaidInv'
  <2>1. ASSUME NEW s \in DOMAIN segs
        PROVE  ChunksIn(s)'
    <3>1. ASSUME NEW n \in DOMAIN segs[s].chunks
          PROVE  /\ at'[s][n].addr >= vm'[s].addr
                 /\ at'[s][n].addr + size[s][n] <= vm'[s].addr + vm'[s].size
                 /\ at'[s][n].addr - vm'[s].addr = at[s][n].addr - vm[s].addr
      <4>1. at[s][n].addr + size[s][n] <= vm[s].addr + vm[s].size
        BY <1>4 DEF ChunksIn
      <4>. QED  BY <1>4, <1>5, <4>1
    <3>2. ASSUME NEW n \in DOMAIN segs[s].chunks, ~segs[s].chunks[n].zerofill
          PROVE  /\ at'[s][n].off - file[s].off = at'[s][n].addr - vm'[s].addr
                 /\ at'[s][n].off + size[s][n] <= file[s].off + file[s].size
      <4>1. /\ at[s][n].off - file[s].off = at[s][n].addr - vm[s].addr
            /\ at[s][n].off + size[s][n] <= file[s].off + file[s].size
        BY <1>4, <3>2 DEF ChunksIn
      <4>. QED  BY <1>5, <3>1, <4>1
    <3>3. ASSUME NEW n \in DOMAIN segs[s].chunks, NEW m \in DOMAIN segs[s].chunks, m # n
          PROVE  at'[s][n].addr + size[s][n] <= at'[s][m].addr \/ at'[s][m].addr + size[s][m] <= at'[s][n].addr
      <4>1. at[s][n].addr + size[s][n] <= at[s][m].addr \/ at[s][m].addr + size[s][m] <= at[s][n].addr
        BY <1>4, <3>3 DEF ChunksIn
      <4>. QED  BY <1>4, <1>5, <4>1
    <3>. QED  BY <1>2, <3>1, <3>2, <3>3 DEF ChunksIn
  <2>2. ASSUME NEW s \in DOMAIN segs
        PROVE  FileAfter(s)' /\ StaysInPlace(s)'
    <3>1. FileAfter(s)'
      BY <1>2, <1>4 DEF FileAfter
    <3>2. HeaderAddr' = HeaderAddr
      BY <1>2 DEF HeaderAddr, Header
    <3>3. InPlace(s) => placed[s] = vm[s].addr
      BY MoveFacts
    <3>. QED  BY <1>2, <1>4, <3>1, <3>2, <3>3 DEF StaysInPlace, InPlace
  <2>. QED  BY <1>1, <1>2, <2>1, <2>2 DEF LaidInv
<1>8. PlaceInv'
  BY <1>3 DEF PlaceInv
<1>. QED  BY <1>6, <1>7, <1>8 DEF LayInv

LEMMA HeaderPagesFacts ==
    ASSUME SegmentAssumption, l \in Links
    PROVE  HeaderPages \in Nat
  BY LinkFacts, AlignFacts DEF HeaderPages

\* The other steps move nothing.
LEMMA UnwindStep ==
    ASSUME SegmentAssumption, LayInv, FinishUnwindInfo
    PROVE  LayInv'
<1>1. TypeInv /\ LaidInv /\ l \in Links
  BY DEF LayInv, TypeInv
<1>2. /\ phase = "unwind" /\ l' = l /\ error' = error /\ vm' = vm /\ file' = file /\ at' = at /\ size' = size
      /\ starts' = starts /\ linkedit' = linkedit
      /\ \/ phase' = "chains" /\ i' = i /\ fileoff' = fileoff /\ addr' = addr
         \/ phase' = "layout" /\ i' = 1 /\ fileoff' = HeaderPages /\ addr' = l.base
  BY DEF FinishUnwindInfo, laidOut, cursors, Again
<1>3. segs' = segs
  BY <1>2 DEF segs
<1>4. minSize' \in Nat
  <2>1. EncodedSize \in Nat /\ minSize \in Nat
    BY <1>1, LinkFacts DEF EncodedSize, TypeInv
  <2>. QED  BY <2>1 DEF FinishUnwindInfo
<1>5. HeaderPages \in Nat /\ l.base \in Nat /\ Len(segs) \in Nat
  BY <1>1, HeaderPagesFacts, LinkFacts
<1>6. i' \in 1..(Len(segs) + 1) /\ fileoff' \in Nat /\ addr' \in Nat /\ phase' \in Phases \ {"place", "failed"}
  BY <1>1, <1>2, <1>5 DEF TypeInv, Phases
<1>7. TypeInv'
  <2>1. error = "none"
    BY <1>1, <1>2 DEF TypeInv
  <2>. QED  BY <1>1, <1>2, <1>3, <1>4, <1>6, <2>1 DEF TypeInv
<1>8. LaidInv'
  BY <1>1, <1>2, LaidQuiet, LaidAgain
<1>. QED  BY <1>6, <1>7, <1>8 DEF LayInv, PlaceInv

LEMMA CheckStep ==
    ASSUME SegmentAssumption, LayInv, CheckSegments
    PROVE  LayInv'
<1>1. TypeInv /\ LaidInv /\ l \in Links
  BY DEF LayInv, TypeInv
<1>2. /\ phase = "check" /\ l' = l /\ vm' = vm /\ file' = file /\ at' = at /\ size' = size
      /\ starts' = starts /\ linkedit' = linkedit /\ i' = i /\ fileoff' = fileoff /\ addr' = addr /\ minSize' = minSize
      /\ (phase' = "failed" /\ error' = "order") \/ (phase' = "linkedit" /\ error' = error)
  BY DEF CheckSegments, laidOut, cursors
<1>3. segs' = segs
  BY <1>2 DEF segs
<1>4. TypeInv'
  <2>1. error = "none"
    BY <1>1, <1>2 DEF TypeInv
  <2>2. phase' \in Phases /\ error' \in {"none", "overlap", "order"} /\ (error' # "none" <=> phase' = "failed")
    BY <1>2, <2>1 DEF Phases
  <2>. QED  BY <1>1, <1>2, <1>3, <2>2 DEF TypeInv
<1>5. LaidInv'
  BY <1>1, <1>2, LaidQuiet
<1>. QED  BY <1>2, <1>4, <1>5 DEF LayInv, PlaceInv

LEMMA ChunksOfFacts ==
    ASSUME NEW kind, NEW x \in ChunksOf(kind)
    PROVE  x[1] \in DOMAIN segs /\ x[2] \in DOMAIN segs[x[1]].chunks /\ segs[x[1]].chunks[x[2]].kind = kind
           /\ x = <<x[1], x[2]>>
<1>. DEFINE M == 1..Max({0} \cup {Len(segs[s].chunks) : s \in DOMAIN segs})
<1>1. x \in {y \in (DOMAIN segs) \X M : y[2] \in DOMAIN segs[y[1]].chunks /\ segs[y[1]].chunks[y[2]].kind = kind}
  BY DEF ChunksOf
<1>. HIDE DEF M
<1>. QED  BY <1>1

LEMMA OneChains ==
    ASSUME SegmentAssumption, l \in Links, NEW x \in ChunksOf("chains"), NEW y \in ChunksOf("chains")
    PROVE  x = y
<1>1. IsLink(l)
  BY DEF SegmentAssumption
<1>2. \A s, u \in DOMAIN segs : \A n \in DOMAIN segs[s].chunks, m \in DOMAIN segs[u].chunks :
         "plain" \notin {segs[s].chunks[n].kind, segs[u].chunks[m].kind} => s = u /\ n = m
  BY <1>1 DEF IsLink, segs
<1>3. x[1] = y[1] /\ x[2] = y[2]
  BY <1>2, ChunksOfFacts
<1>. QED  BY <1>3, ChunksOfFacts

\* __chain_starts has the size it should have, or the layout is done again.
LEMMA ChainsFacts ==
    ASSUME SegmentAssumption, TypeInv, FinishChainStarts
    PROVE  /\ phase = "chains" /\ l' = l /\ error' = error /\ vm' = vm /\ file' = file /\ at' = at
           /\ minSize' = minSize /\ encoded' = encoded /\ linkedit' = linkedit /\ starts' \in Nat
           /\ DOMAIN size' = DOMAIN segs
           /\ \A s \in DOMAIN segs : size'[s] \in [DOMAIN segs[s].chunks -> Nat]
           /\ \/ /\ phase' = "check" /\ cursors' = cursors
                 /\ \A s \in DOMAIN segs : size'[s] = size[s]
                 /\ \A x \in ChunksOf("chains") : size[x[1]][x[2]] = ChainsSize(Cardinality(ChainStarts))
              \/ Again
<1>1. /\ phase = "chains" /\ l' = l /\ error' = error /\ vm' = vm /\ file' = file /\ at' = at
      /\ minSize' = minSize /\ encoded' = encoded /\ linkedit' = linkedit
  BY DEF FinishChainStarts
<1>2. l \in Links /\ starts \in Nat /\ DOMAIN size = DOMAIN segs
      /\ \A s \in DOMAIN segs : size[s] \in [DOMAIN segs[s].chunks -> Nat]
  BY DEF TypeInv
<1>3. CASE ChunksOf("chains") = {}
  <2>1. phase' = "check" /\ cursors' = cursors /\ size' = size /\ starts' = starts
    BY <1>3 DEF FinishChainStarts
  <2>. QED  BY <1>1, <1>2, <1>3, <2>1
<1>4. CASE ChunksOf("chains") # {}
  <2>1. PICK x \in ChunksOf("chains") : x = CHOOSE y \in ChunksOf("chains") : TRUE
    BY <1>4
  <2>. DEFINE v == ChainsSize(Cardinality(ChainStarts))
  <2>2. /\ starts' = Cardinality(ChainStarts)
        /\ size' = [size EXCEPT ![x[1]][x[2]] = v]
        /\ IF size[x[1]][x[2]] = v THEN phase' = "check" /\ cursors' = cursors ELSE Again
    BY <1>4, <2>1 DEF FinishChainStarts
  <2>3. starts' \in Nat /\ v \in Nat
    <3>1. ChainStarts \subseteq l.fixups /\ IsFiniteSet(l.fixups)
      BY <1>2, LinkFacts DEF ChainStarts
    <3>2. Cardinality(ChainStarts) \in Nat
      BY <3>1, FS_Subset, FS_CardinalityType
    <3>. QED  BY <2>2, <3>2 DEF ChainsSize
  <2>. HIDE DEF v
  <2>4. x[1] \in DOMAIN segs /\ x[2] \in DOMAIN segs[x[1]].chunks
    BY ChunksOfFacts
  <2>5. /\ DOMAIN size' = DOMAIN segs
        /\ \A s \in DOMAIN segs : s # x[1] => size'[s] = size[s]
        /\ size'[x[1]] = [size[x[1]] EXCEPT ![x[2]] = v]
    BY <1>2, <2>2, <2>4
  <2>6. size'[x[1]] \in [DOMAIN segs[x[1]].chunks -> Nat]
    BY <1>2, <2>3, <2>4, <2>5
  <2>7. \A s \in DOMAIN segs : size'[s] \in [DOMAIN segs[s].chunks -> Nat]
    BY <1>2, <2>5, <2>6
  <2>8. CASE size[x[1]][x[2]] = v
    <3>1. size'[x[1]] = size[x[1]]
      <4>1. size[x[1]] \in [DOMAIN segs[x[1]].chunks -> Nat]
        BY <1>2, <2>4
      <4>. QED  BY <2>4, <2>5, <2>8, <4>1
    <3>2. \A s \in DOMAIN segs : size'[s] = size[s]
      BY <2>5, <3>1
    <3>3. \A y \in ChunksOf("chains") : y = x
      BY <1>2, OneChains
    <3>4. \A y \in ChunksOf("chains") : size[y[1]][y[2]] = v
      BY <2>8, <3>3
    <3>. QED  BY <1>1, <2>2, <2>3, <2>5, <2>7, <2>8, <3>2, <3>4 DEF v
  <2>9. CASE size[x[1]][x[2]] # v
    BY <1>1, <2>2, <2>3, <2>5, <2>7, <2>9
  <2>. QED  BY <2>8, <2>9
<1>. QED  BY <1>3, <1>4

LEMMA ChainsStep ==
    ASSUME SegmentAssumption, LayInv, FinishChainStarts
    PROVE  LayInv'
<1>1. TypeInv /\ LaidInv /\ l \in Links
  BY DEF LayInv, TypeInv
<1>2. /\ phase = "chains" /\ l' = l /\ error' = error /\ vm' = vm /\ file' = file /\ at' = at
      /\ minSize' = minSize /\ linkedit' = linkedit /\ starts' \in Nat /\ DOMAIN size' = DOMAIN segs
      /\ \A s \in DOMAIN segs : size'[s] \in [DOMAIN segs[s].chunks -> Nat]
      /\ \/ /\ phase' = "check" /\ i' = i /\ fileoff' = fileoff /\ addr' = addr
            /\ \A s \in DOMAIN segs : size'[s] = size[s]
         \/ phase' = "layout" /\ i' = 1 /\ fileoff' = HeaderPages /\ addr' = l.base
  BY <1>1, ChainsFacts DEF cursors, Again
<1>3. segs' = segs /\ HeaderPages \in Nat /\ l.base \in Nat /\ Len(segs) \in Nat
  BY <1>1, <1>2, HeaderPagesFacts, LinkFacts DEF segs
<1>4. i' \in 1..(Len(segs) + 1) /\ fileoff' \in Nat /\ addr' \in Nat /\ phase' \in Phases \ {"place", "failed"}
  BY <1>1, <1>2, <1>3 DEF TypeInv, Phases
<1>5. TypeInv'
  <2>1. error = "none"
    BY <1>1, <1>2 DEF TypeInv
  <2>. QED  BY <1>1, <1>2, <1>3, <1>4, <2>1 DEF TypeInv
<1>6. LaidInv'
  BY <1>1, <1>2, LaidQuiet, LaidAgain
<1>. QED  BY <1>4, <1>5, <1>6 DEF LayInv, PlaceInv

\* __LINKEDIT goes above the segments, or between them where there is room.
LEMMA LinkeditFacts ==
    ASSUME SegmentAssumption, l \in Links, VmTyped
    PROVE  LET sz == AlignTo(l.linkedit.size, l.linkedit.page) IN
           /\ sz \in Nat /\ LinkeditAddr \in Nat
           /\ l.linkedit.pin = None =>
                 \A s \in DOMAIN segs :
                    vm[s].addr + vm[s].size <= LinkeditAddr \/ LinkeditAddr + sz <= vm[s].addr
<1>. DEFINE sz == AlignTo(l.linkedit.size, l.linkedit.page)
            N == Len(segs)
<1>1. sz \in Nat /\ l.base \in Nat /\ l.linkedit.pin \in Nat \cup {None} /\ Page \in Nat \ {0}
      /\ N \in Nat /\ DOMAIN segs = 1..N
  BY LinkFacts, AlignFacts
<1>2. \A s \in DOMAIN segs : /\ vm[s].addr \in Nat /\ vm[s].size \in Nat /\ Span(s) \in Nat /\ Span(s) >= vm[s].size
                             /\ vm[s].addr + Span(s) \in Nat
  <2>1. \A s \in DOMAIN segs : vm[s].addr \in Nat /\ vm[s].size \in Nat
    BY DEF VmTyped
  <2>2. \A s \in DOMAIN segs : Span(s) \in Nat /\ Span(s) >= vm[s].size
    BY SpanOfFacts
  <2>. QED  BY <2>1, <2>2
<1>3. PICK b \in Nat : \A s \in 1..N : vm[s].addr + Span(s) <= b
  <2>. DEFINE f == [s \in 1..N |-> vm[s].addr + Span(s)]
  <2>1. \A s \in 1..N : f[s] \in Nat
    BY <1>1, <1>2
  <2>2. \E b \in Nat : \A s \in 1..N : f[s] <= b
    <3>. HIDE DEF f, N
    <3>. QED  BY <1>1, <2>1, BoundOfValues
  <2>. QED  BY <2>2
<1>. HIDE DEF sz
<1>4. CASE l.linkedit.pin # None
  BY <1>1, <1>4 DEF LinkeditAddr, sz
<1>5. CASE l.linkedit.pin = None /\ (l.slides \/ ~HasPins)
  <2>. DEFINE T == {0} \cup Tops
  <2>1. T \in SUBSET Nat /\ T # {} /\ \A y \in T : y <= b
    BY <1>1, <1>2, <1>3 DEF Tops
  <2>2. \A s \in DOMAIN segs : vm[s].addr + Span(s) \in T
    BY DEF Tops
  <2>. HIDE DEF T
  <2>3. Max(T) \in Nat /\ \A y \in T : y <= Max(T)
    BY <2>1, MaxFacts
  <2>4. LinkeditAddr = Max(T)
    BY <1>5 DEF LinkeditAddr, T
  <2>5. \A s \in DOMAIN segs : vm[s].addr + vm[s].size <= LinkeditAddr
    <3>1. TAKE s \in DOMAIN segs
    <3>2. vm[s].addr + Span(s) <= Max(T)
      BY <2>2, <2>3
    <3>. QED  BY <1>2, <2>3, <2>4, <3>2
  <2>. QED  BY <1>1, <2>3, <2>4, <2>5 DEF sz
<1>6. CASE l.linkedit.pin = None /\ ~(l.slides \/ ~HasPins)
  <2>. DEFINE used == {<<vm[s].addr, vm[s].addr + Span(s)>> : s \in DOMAIN segs}
              span == LowestFreeSpan(l.base, l.base, sz, Page, used)
  <2>1. \A r \in used : r[1] \in Nat /\ r[2] \in Nat /\ r[2] <= b
    BY <1>1, <1>2, <1>3
  <2>2. Bounded(used)
    <3>. HIDE DEF used
    <3>. QED  BY <2>1 DEF Bounded
  <2>3. /\ span[1] \in Nat /\ span[2] = AlignTo(span[1], Page) + sz
        /\ \A r \in used : r[2] <= span[1] \/ (span[2] <= r[1] /\ span[1] < r[1])
    <3>1. l.base <= l.base
      BY <1>1
    <3>. HIDE DEF used
    <3>. QED  BY <1>1, <2>2, <3>1, SpanFacts
  <2>4. LinkeditAddr = span[1]
    BY <1>6 DEF LinkeditAddr, sz
  <2>5. ASSUME NEW s \in DOMAIN segs
        PROVE  vm[s].addr + vm[s].size <= LinkeditAddr \/ LinkeditAddr + sz <= vm[s].addr
    <3>1. <<vm[s].addr, vm[s].addr + Span(s)>> \in used
      OBVIOUS
    <3>. HIDE DEF span, used
    <3>2. vm[s].addr + Span(s) <= span[1] \/ span[2] <= vm[s].addr
      BY <2>3, <3>1
    <3>3. AlignTo(span[1], Page) \in Nat /\ AlignTo(span[1], Page) >= span[1]
      BY <1>1, <2>3, AlignFacts
    <3>4. /\ vm[s].addr \in Nat /\ vm[s].size \in Nat /\ Span(s) \in Nat /\ Span(s) >= vm[s].size
          /\ span[1] \in Nat /\ span[2] = AlignTo(span[1], Page) + sz /\ sz \in Nat
      BY <1>1, <1>2, <2>3
    <3>. HIDE DEF sz
    <3>. QED  BY <2>4, <3>2, <3>3, <3>4
  <2>. HIDE DEF span, used
  <2>. QED  BY <1>1, <2>3, <2>4, <2>5 DEF sz
<1>. QED  BY <1>4, <1>5, <1>6

LEMMA LinkeditStep ==
    ASSUME SegmentAssumption, LayInv, PlaceLinkedit
    PROVE  LayInv'
<1>1. TypeInv /\ LaidInv /\ l \in Links /\ VmTyped
  BY TypeFacts DEF LayInv, TypeInv
<1>2. /\ phase = "linkedit" /\ phase' = "done" /\ l' = l /\ error' = error /\ vm' = vm /\ file' = file /\ at' = at
      /\ size' = size /\ starts' = starts /\ i' = i /\ fileoff' = fileoff /\ addr' = addr /\ minSize' = minSize
      /\ linkedit' = [addr |-> LinkeditAddr, off |-> fileoff, size |-> AlignTo(l.linkedit.size, l.linkedit.page)]
  BY DEF PlaceLinkedit, laidOut, cursors
<1>3. segs' = segs
  BY <1>2 DEF segs
<1>4. linkedit' \in [addr : Nat, off : Nat, size : Nat]
  BY <1>1, <1>2, LinkeditFacts DEF TypeInv
<1>5. TypeInv'
  <2>1. error = "none" /\ phase' \in Phases
    BY <1>1, <1>2 DEF TypeInv, Phases
  <2>. QED  BY <1>1, <1>2, <1>3, <1>4, <2>1 DEF TypeInv
<1>6. LaidInv'
  BY <1>1, <1>2, LaidQuiet
<1>. QED  BY <1>2, <1>5, <1>6 DEF LayInv, PlaceInv

LEMMA LayStep ==
    ASSUME SegmentAssumption, LayInv, [Next]_vars
    PROVE  LayInv'
<1>1. CASE UNCHANGED vars
  <2>1. /\ l' = l /\ phase' = phase /\ error' = error /\ i' = i /\ fileoff' = fileoff /\ addr' = addr
        /\ taken' = taken /\ placed' = placed /\ vm' = vm /\ file' = file /\ at' = at /\ size' = size
        /\ minSize' = minSize /\ starts' = starts /\ linkedit' = linkedit
    BY <1>1 DEF vars, cursors, places, laidOut
  <2>2. segs' = segs /\ HeaderAddr' = HeaderAddr
    BY <2>1 DEF segs, HeaderAddr, Header
  <2>3. TypeInv'
    BY <2>1, <2>2 DEF LayInv, TypeInv
  <2>4. LaidInv'
    BY <2>1, <2>2 DEF LayInv, LaidInv, ChunksIn, FileAfter, StaysInPlace
  <2>5. PlaceInv'
    BY <2>1, <2>2 DEF LayInv, PlaceInv, InPlace, Bounded
  <2>. QED  BY <2>3, <2>4, <2>5 DEF LayInv
<1>. QED
  BY <1>1, LayOutStep, StartPlacingStep, PlaceStep, MoveStep, UnwindStep, ChainsStep, CheckStep, LinkeditStep
     DEF Next

-----------------------------------------------------------------------------
(***************************************************************************)
(* What was made for the addresses of the layout, and what is apart.       *)
(***************************************************************************)

\* The phases that follow the placement change nothing but what they make.
LEMMA CurrentStep ==
    ASSUME SegmentAssumption, LayInv, CurrentInv, [Next]_vars
    PROVE  CurrentInv'
<1>0. TypeInv /\ l \in Links
  BY DEF LayInv, TypeInv
<1>. DEFINE Unwound(sz, e) == l.code # 0 => \A x \in ChunksOf("unwind") :
                                 e = CodeAddr /\ EncodedSize <= sz[x[1]][x[2]]
            Chained(sz) == \A x \in ChunksOf("chains") : sz[x[1]][x[2]] = ChainsSize(Cardinality(ChainStarts))
<1>1. ASSUME l' = l, vm' = vm, at' = at,
             phase' \in {"chains", "check", "linkedit", "done"} => Unwound(size', encoded'),
             phase' \in {"check", "linkedit", "done"} => Chained(size')
      PROVE  CurrentInv'
  <2>1. segs' = segs
    BY <1>1 DEF segs
  <2>2. CodeAddr' = CodeAddr /\ HeaderAddr' = HeaderAddr
    BY <1>1, <2>1 DEF CodeAddr, HeaderAddr, Header
  <2>3. EncodedSize' = EncodedSize
    BY <1>1, <2>2 DEF EncodedSize
  <2>4. ChunksOf("unwind")' = ChunksOf("unwind") /\ ChunksOf("chains")' = ChunksOf("chains")
    BY <2>1 DEF ChunksOf
  <2>5. ChainStarts' = ChainStarts
    BY <1>1 DEF ChainStarts, FixupAddr
  <2>6. \A n : ChainsSize(n)' = ChainsSize(n)
    BY DEF ChainsSize
  <2>7. ChainsSize(Cardinality(ChainStarts))' = ChainsSize(Cardinality(ChainStarts))
    BY <2>5 DEF ChainsSize
  <2>. QED  BY <1>1, <2>2, <2>3, <2>4, <2>7 DEF CurrentInv
<1>2. ASSUME phase' \in {"layout", "place", "unwind", "failed"}
      PROVE  CurrentInv'
  BY <1>2 DEF CurrentInv
<1>3. CASE LayOutSegment \/ StartPlacing \/ PlaceSegment \/ MoveSegments
  <2>1. phase' \in {"layout", "place", "unwind", "failed"}
    BY <1>3 DEF LayOutSegment, StartPlacing, PlaceSegment, MoveSegments
  <2>. QED  BY <1>2, <2>1
<1>4. CASE FinishUnwindInfo
  <2>1. l' = l /\ vm' = vm /\ at' = at /\ size' = size /\ phase' \in {"layout", "chains"}
    BY <1>4 DEF FinishUnwindInfo, Again, laidOut
  <2>2. CASE phase' = "layout"
    BY <1>2, <2>2
  <2>3. CASE phase' = "chains"
    <3>1. Unwound(size', encoded')
      BY <1>4, <2>1, <2>3 DEF FinishUnwindInfo, Again
    <3>. HIDE DEF Unwound, Chained
    <3>. QED  BY <1>1, <2>1, <2>3, <3>1
  <2>. QED  BY <2>1, <2>2, <2>3
<1>5. CASE FinishChainStarts
  <2>1. /\ phase = "chains" /\ l' = l /\ vm' = vm /\ at' = at /\ encoded' = encoded
        /\ \/ /\ phase' = "check"
              /\ \A s \in DOMAIN segs : size'[s] = size[s]
              /\ \A x \in ChunksOf("chains") : size[x[1]][x[2]] = ChainsSize(Cardinality(ChainStarts))
           \/ phase' = "layout"
    BY <1>0, <1>5, ChainsFacts DEF Again
  <2>2. CASE phase' = "layout"
    BY <1>2, <2>2
  <2>3. CASE phase' # "layout"
    <3>1. Unwound(size, encoded)
      BY <2>1 DEF CurrentInv
    <3>2. Unwound(size', encoded') /\ Chained(size')
      BY <2>1, <2>3, <3>1, ChunksOfFacts
    <3>. HIDE DEF Unwound, Chained
    <3>. QED  BY <1>1, <2>1, <3>2
  <2>. QED  BY <2>2, <2>3
<1>6. CASE CheckSegments \/ PlaceLinkedit \/ UNCHANGED vars
  <2>1. /\ l' = l /\ vm' = vm /\ at' = at /\ size' = size /\ encoded' = encoded
        /\ \/ phase' = phase
           \/ phase \in {"check", "linkedit"}
    BY <1>6 DEF CheckSegments, PlaceLinkedit, vars, laidOut
  <2>2. phase' \in {"chains", "check", "linkedit", "done"} => Unwound(size', encoded')
    BY <2>1 DEF CurrentInv
  <2>3. phase' \in {"check", "linkedit", "done"} => Chained(size')
    BY <2>1 DEF CurrentInv
  <2>. HIDE DEF Unwound, Chained
  <2>. QED  BY <1>1, <2>1, <2>2, <2>3
<1>. QED  BY <1>3, <1>4, <1>5, <1>6 DEF Next

\* check_segment_overlaps sees every pair of segments.
LEMMA ApartStep ==
    ASSUME SegmentAssumption, LayInv, ApartInv, [Next]_vars
    PROVE  ApartInv'
<1>0. TypeInv /\ l \in Links /\ DOMAIN segs = 1..Len(segs) /\ Len(segs) \in Nat
  BY LinkFacts DEF LayInv, TypeInv
<1>. DEFINE After == {"unwind", "chains", "check", "linkedit", "done"}
<1>1. CASE LayOutSegment \/ StartPlacing \/ PlaceSegment
  <2>1. phase' \in {"layout", "place"}
    BY <1>1 DEF LayOutSegment, StartPlacing, PlaceSegment
  <2>. QED  BY <2>1 DEF ApartInv
<1>2. CASE MoveSegments
  <2>1. SUFFICES ASSUME phase' # "failed", NEW s \in DOMAIN segs', NEW u \in DOMAIN segs', s # u
                 PROVE  ~Overlap(vm'[s], vm'[u])
    BY DEF ApartInv, Overlap
  <2>2. segs' = segs
    BY <1>2, MoveFacts
  <2>3. \A a \in DOMAIN segs : \A b \in (a + 1)..Len(segs) : ~Overlap(vm'[a], vm'[b])
    BY <1>2, <2>1 DEF MoveSegments
  <2>4. s \in (u + 1)..Len(segs) \/ u \in (s + 1)..Len(segs)
    BY <1>0, <2>1, <2>2
  <2>5. ~Overlap(vm'[s], vm'[u]) \/ ~Overlap(vm'[u], vm'[s])
    BY <2>1, <2>2, <2>3, <2>4
  <2>. QED  BY <2>5 DEF Overlap
<1>3. CASE FinishUnwindInfo \/ FinishChainStarts \/ CheckSegments \/ PlaceLinkedit \/ UNCHANGED vars
  <2>1. l' = l /\ vm' = vm /\ (phase' \in After => phase \in After)
    BY <1>3 DEF FinishUnwindInfo, FinishChainStarts, CheckSegments, PlaceLinkedit, Again, vars, laidOut
  <2>2. segs' = segs
    BY <2>1 DEF segs
  <2>. QED  BY <2>1, <2>2 DEF ApartInv, Overlap
<1>. QED  BY <1>1, <1>2, <1>3 DEF Next

LEMMA EndStep ==
    ASSUME SegmentAssumption, LayInv, EndInv, [Next]_vars
    PROVE  EndInv'
<1>0. TypeInv /\ l \in Links /\ VmTyped
  BY TypeFacts DEF LayInv, TypeInv
<1>1. CASE PlaceLinkedit
  <2>1. /\ l' = l /\ vm' = vm /\ fileoff' = fileoff
        /\ linkedit' = [addr |-> LinkeditAddr, off |-> fileoff, size |-> AlignTo(l.linkedit.size, l.linkedit.page)]
    BY <1>1 DEF PlaceLinkedit, laidOut, cursors
  <2>2. segs' = segs
    BY <2>1 DEF segs
  <2>3. linkedit'.addr = LinkeditAddr /\ linkedit'.off = fileoff
        /\ linkedit'.size = AlignTo(l.linkedit.size, l.linkedit.page)
    BY <2>1
  <2>4. ASSUME l.linkedit.pin = None, NEW s \in DOMAIN segs
        PROVE  ~Overlap(vm[s], linkedit')
    <3>1. /\ LinkeditAddr \in Nat /\ AlignTo(l.linkedit.size, l.linkedit.page) \in Nat
          /\ \/ vm[s].addr + vm[s].size <= LinkeditAddr
             \/ LinkeditAddr + AlignTo(l.linkedit.size, l.linkedit.page) <= vm[s].addr
      BY <1>0, <2>4, LinkeditFacts
    <3>2. vm[s].addr \in Nat /\ vm[s].size \in Nat
      BY <1>0 DEF VmTyped
    <3>. QED  BY <2>3, <3>1, <3>2 DEF Overlap
  <2>. QED  BY <2>1, <2>2, <2>3, <2>4 DEF EndInv, Overlap
<1>2. CASE UNCHANGED vars
  <2>1. l' = l /\ vm' = vm /\ fileoff' = fileoff /\ linkedit' = linkedit /\ phase' = phase
    BY <1>2 DEF vars, laidOut, cursors
  <2>. QED  BY <2>1 DEF EndInv, Overlap, segs
<1>3. CASE LayOutSegment \/ StartPlacing \/ PlaceSegment \/ MoveSegments \/ FinishUnwindInfo
           \/ FinishChainStarts \/ CheckSegments
  <2>1. phase' # "done"
    BY <1>3 DEF LayOutSegment, StartPlacing, PlaceSegment, MoveSegments, FinishUnwindInfo, FinishChainStarts,
                CheckSegments, Again
  <2>. QED  BY <2>1 DEF EndInv
<1>. QED  BY <1>1, <1>2, <1>3 DEF Next

-----------------------------------------------------------------------------
(***************************************************************************)
(* Segments overlap only where pins, or the image base, make them.         *)
(***************************************************************************)

\* Segments of __PAGEZERO and of the mach header are the first ones.
LEMMA FirstFacts ==
    ASSUME SegmentAssumption, l \in Links
    PROVE  /\ \A s \in DOMAIN segs, z \in DOMAIN segs : InPlace(z) /\ s < z => segs[s].kind = "zero" /\ InPlace(s)
           /\ \A s \in DOMAIN segs, z \in DOMAIN segs : segs[s].kind = "zero" /\ segs[z].kind = "zero" => s = z
           /\ \A s \in DOMAIN segs : InPlace(s) /\ segs[s].kind # "zero" => s = Header
<1>1. ASSUME NEW s \in DOMAIN segs, NEW z \in DOMAIN segs, InPlace(z), s < z
      PROVE  segs[s].kind = "zero" /\ InPlace(s)
  <2>1. s \in 1..(z - 1)
    BY <1>1, LinkFacts
  <2>2. segs[z].kind \in {"zero", "header"} => \A j \in 1..(z - 1) : segs[j].kind = "zero"
    BY LinkFacts
  <2>. QED  BY <1>1, <2>1, <2>2 DEF InPlace
<1>2. IsLink(l)
  BY DEF SegmentAssumption
<1>3. \A s, z \in DOMAIN segs : segs[s].kind = "zero" /\ segs[z].kind = "zero" => s = z
  BY <1>2 DEF IsLink, segs
<1>4. \A s \in DOMAIN segs : InPlace(s) /\ segs[s].kind # "zero" => s = Header
  BY HeaderFacts DEF InPlace
<1>. QED  BY <1>1, <1>3, <1>4

\* Without pins, a segment that does not float is in place or follows one
\* that does not.
LEMMA FixedStep ==
    ASSUME SegmentAssumption, l \in Links, VmTyped, NoPins, NEW s \in DOMAIN segs, Fixed[s] # None
    PROVE  /\ Fixed[s] \in Nat
           /\ InPlace(s) => Fixed[s] = vm[s].addr
           /\ ~InPlace(s) => /\ s - 1 \in DOMAIN segs /\ Fixed[s - 1] \in Nat
                             /\ Fixed[s - 1] + Span(s - 1) <= Fixed[s]
<1>1. Fixed \in [DOMAIN segs -> Nat \cup {None}] /\ DOMAIN segs = 1..Len(segs) /\ Len(segs) \in Nat
  BY FixedFacts, LinkFacts
<1>2. Fixed[s] = IF InPlace(s) THEN vm[s].addr
                 ELSE IF segs[s].pin # None THEN segs[s].pin
                 ELSE IF s > 1 /\ segs[s].follows /\ Fixed[s - 1] # None
                 THEN AlignTo(Fixed[s - 1] + Span(s - 1), StartAlign(s))
                 ELSE None
  BY FixedFacts
<1>3. segs[s].pin = None
  BY DEF NoPins, Pins
<1>4. ASSUME ~InPlace(s)
      PROVE  s - 1 \in DOMAIN segs /\ Fixed[s - 1] \in Nat /\ Fixed[s - 1] + Span(s - 1) <= Fixed[s]
  <2>1. s > 1 /\ Fixed[s - 1] # None /\ Fixed[s] = AlignTo(Fixed[s - 1] + Span(s - 1), StartAlign(s))
    BY <1>2, <1>3, <1>4
  <2>2. s - 1 \in DOMAIN segs
    BY <1>1, <2>1
  <2>3. Fixed[s - 1] \in Nat /\ Span(s - 1) \in Nat /\ StartAlign(s) \in Nat \ {0}
    BY <1>1, <2>1, <2>2, SpanOfFacts, StartAlignFacts
  <2>4. Fixed[s - 1] + Span(s - 1) \in Nat
    BY <2>3
  <2>. QED  BY <2>1, <2>2, <2>3, <2>4, AlignFacts
<1>5. Fixed[s] \in Nat
  BY <1>1
<1>. QED  BY <1>2, <1>4, <1>5

\* A segment that floats is followed by ones that float.
LEMMA FixedPrefix ==
    ASSUME SegmentAssumption, l \in Links, VmTyped, NoPins,
           NEW s \in DOMAIN segs, Fixed[s] = None, NEW t \in DOMAIN segs, s <= t
    PROVE  Fixed[t] = None
<1>. DEFINE T == {u \in DOMAIN segs : s <= u /\ Fixed[u] # None}
<1>1. DOMAIN segs = 1..Len(segs) /\ Len(segs) \in Nat
  BY LinkFacts
<1>2. SUFFICES ASSUME T # {} PROVE FALSE
  OBVIOUS
<1>3. PICK u \in T : \A x \in T : u <= x
  <2>1. T \in SUBSET Nat
    BY <1>1
  <2>. HIDE DEF T
  <2>. QED  BY <1>2, <2>1, LeastNat
<1>4. u \in DOMAIN segs /\ s < u /\ Fixed[u] # None
  BY <1>1, <1>3
<1>5. ~InPlace(u)
  <2>1. SUFFICES ASSUME InPlace(u) PROVE FALSE
    OBVIOUS
  <2>2. InPlace(s)
    BY <1>4, <2>1, FirstFacts
  <2>3. Fixed[s] = vm[s].addr /\ vm[s].addr \in Nat
    BY <2>2, FixedFacts DEF VmTyped
  <2>. QED  BY <2>3 DEF None
<1>6. u - 1 \in DOMAIN segs /\ Fixed[u - 1] \in Nat
  BY <1>4, <1>5, FixedStep
<1>7. Fixed[u - 1] # None
  BY <1>6 DEF None
<1>8. u - 1 \in T
  BY <1>1, <1>4, <1>6, <1>7
<1>. QED  BY <1>1, <1>3, <1>4, <1>8

\* Without pins, segments that do not float are in order, and above __PAGEZERO.
LEMMA FixedOrdered ==
    ASSUME SegmentAssumption, l \in Links, VmTyped, NoPins,
           NEW s \in DOMAIN segs, Fixed[s] # None, segs[s].kind # "zero",
           NEW t \in DOMAIN segs, Fixed[t] # None, s < t
    PROVE  Fixed[s] + Span(s) <= Fixed[t]
<1>. DEFINE T == {u \in DOMAIN segs : s < u /\ Fixed[u] # None /\ ~(Fixed[s] + Span(s) <= Fixed[u])}
<1>1. DOMAIN segs = 1..Len(segs) /\ Len(segs) \in Nat
  BY LinkFacts
<1>2. SUFFICES ASSUME T # {} PROVE FALSE
  OBVIOUS
<1>3. PICK u \in T : \A x \in T : u <= x
  <2>1. T \in SUBSET Nat
    BY <1>1
  <2>. HIDE DEF T
  <2>. QED  BY <1>2, <2>1, LeastNat
<1>4. u \in DOMAIN segs /\ s < u /\ Fixed[u] # None /\ ~(Fixed[s] + Span(s) <= Fixed[u])
  BY <1>3
<1>5. ~InPlace(u)
  BY <1>4, FirstFacts
<1>6. u - 1 \in DOMAIN segs /\ Fixed[u - 1] \in Nat /\ Fixed[u - 1] + Span(u - 1) <= Fixed[u] /\ Fixed[u] \in Nat
  BY <1>4, <1>5, FixedStep
<1>7. u - 1 # s
  BY <1>4, <1>6
<1>8. s < u - 1 /\ Fixed[u - 1] # None
  BY <1>1, <1>4, <1>6, <1>7 DEF None
<1>9. Fixed[s] \in Nat /\ Span(s) \in Nat /\ Span(u - 1) \in Nat
  BY <1>6, FixedStep, SpanOfFacts
<1>10. u - 1 \in T
  BY <1>4, <1>6, <1>8, <1>9
<1>. QED  BY <1>1, <1>3, <1>4, <1>10

LEMMA FixedAboveZero ==
    ASSUME SegmentAssumption, l \in Links, VmTyped, NoPins, \A s \in DOMAIN segs : StaysInPlace(s),
           NEW z \in DOMAIN segs, segs[z].kind = "zero",
           NEW t \in DOMAIN segs, Fixed[t] # None, segs[t].kind # "zero"
    PROVE  segs[z].size <= Fixed[t]
<1>. DEFINE T == {u \in DOMAIN segs : Fixed[u] # None /\ segs[u].kind # "zero" /\ ~(segs[z].size <= Fixed[u])}
<1>1. DOMAIN segs = 1..Len(segs) /\ Len(segs) \in Nat /\ segs[z].size \in Nat /\ l.base \in Nat
  BY LinkFacts
<1>2. SUFFICES ASSUME T # {} PROVE FALSE
  OBVIOUS
<1>3. PICK u \in T : \A x \in T : u <= x
  <2>1. T \in SUBSET Nat
    BY <1>1
  <2>. HIDE DEF T
  <2>. QED  BY <1>2, <2>1, LeastNat
<1>4. u \in DOMAIN segs /\ Fixed[u] # None /\ segs[u].kind # "zero" /\ ~(segs[z].size <= Fixed[u])
  BY <1>3
<1>5. CASE InPlace(u)
  <2>1. u = Header /\ Header # 0 /\ segs[u].kind = "header"
    BY <1>1, <1>4, <1>5, FirstFacts DEF InPlace
  <2>2. HeaderAddr = l.base
    BY <2>1, HeaderFacts DEF NoPins
  <2>3. Fixed[u] = l.base
    BY <1>4, <1>5, <2>1, <2>2, FixedStep DEF StaysInPlace
  <2>. QED  BY <1>4, <2>3 DEF NoPins
<1>6. CASE ~InPlace(u)
  <2>1. u - 1 \in DOMAIN segs /\ Fixed[u - 1] \in Nat /\ Fixed[u - 1] + Span(u - 1) <= Fixed[u] /\ Fixed[u] \in Nat
    BY <1>4, <1>6, FixedStep
  <2>2. Span(u - 1) \in Nat /\ Span(u - 1) >= vm[u - 1].size /\ vm[u - 1].size \in Nat
    BY <2>1, SpanOfFacts DEF VmTyped
  <2>3. CASE segs[u - 1].kind = "zero"
    <3>1. u - 1 = z
      BY <2>1, <2>3, FirstFacts
    <3>2. vm[z].size = segs[z].size
      BY DEF StaysInPlace
    <3>. QED  BY <1>1, <1>4, <2>1, <2>2, <3>1, <3>2
  <2>4. CASE segs[u - 1].kind # "zero"
    <3>1. u - 1 \in T
      <4>1. ~(segs[z].size <= Fixed[u - 1])
        BY <1>1, <1>4, <2>1, <2>2
      <4>2. Fixed[u - 1] # None
        BY <2>1 DEF None
      <4>. QED  BY <2>1, <2>4, <4>1, <4>2
    <3>. QED  BY <1>1, <1>3, <1>4, <3>1
  <2>. QED  BY <2>3, <2>4
<1>. QED  BY <1>5, <1>6

\* What a step that leaves the image and the segments' addresses and sizes
\* alone cannot change.
LEMMA SameFixed ==
    ASSUME l' = l, vm' = vm
    PROVE  /\ segs' = segs /\ Fixed' = Fixed /\ FirstPin(Fixed)' = FirstPin(Fixed) /\ Header' = Header
           /\ NoPins' = NoPins
           /\ \A s \in DOMAIN segs : Span(s)' = Span(s)
  BY DEF segs, Fixed, FirstPin, Header, NoPins, Pins, Span, InPlace, StartAlign, Detached

\* Without pins, the first segment from which on those that do not float count
\* as placed is the first of them that is not in place.
LEMMA FirstPinFacts ==
    ASSUME SegmentAssumption, l \in Links, VmTyped, NoPins
    PROVE  /\ ~Detached
           /\ FirstPin(Fixed) \in Nat
           /\ \A s \in DOMAIN segs : ~InPlace(s) /\ Fixed[s] # None => FirstPin(Fixed) \in 1..s
<1>. DEFINE moved == {s \in DOMAIN segs : ~InPlace(s) /\ Fixed[s] # None}
<1>1. DOMAIN segs = 1..Len(segs) /\ Len(segs) \in Nat
  BY LinkFacts
<1>2. ~Detached
  BY HeaderFacts DEF Detached, NoPins, Pins
<1>3. FirstPin(Fixed) = IF moved = {} THEN 0 ELSE Min(moved)
  BY <1>2 DEF FirstPin
<1>4. moved # {} => Min(moved) \in moved /\ \A y \in moved : Min(moved) <= y
  <2>1. moved \in SUBSET Nat
    BY <1>1
  <2>. HIDE DEF moved
  <2>. QED  BY <2>1, MinFacts
<1>5. FirstPin(Fixed) \in Nat
  BY <1>1, <1>3, <1>4
<1>6. ASSUME NEW s \in DOMAIN segs, ~InPlace(s), Fixed[s] # None
      PROVE  FirstPin(Fixed) \in 1..s
  <2>1. s \in moved
    BY <1>6
  <2>2. FirstPin(Fixed) \in moved /\ FirstPin(Fixed) <= s
    <3>. HIDE DEF moved
    <3>. QED  BY <1>3, <1>4, <2>1
  <2>3. FirstPin(Fixed) \in DOMAIN segs
    BY <2>2
  <2>. QED  BY <1>1, <2>2, <2>3
<1>. QED  BY <1>2, <1>5, <1>6

LEMMA FreeStart ==
    ASSUME SegmentAssumption, LayInv, StartPlacing
    PROVE  FreeInv'
<1>1. TypeInv /\ LaidInv /\ l \in Links /\ VmTyped /\ DOMAIN segs = 1..Len(segs) /\ Len(segs) \in Nat
  BY TypeFacts, LinkFacts DEF LayInv, TypeInv
<1>2. phase = "layout" /\ i > Len(segs) /\ taken' = TakenFirst /\ placed' = Fixed /\ i' = 1 /\ l' = l /\ vm' = vm
  BY DEF StartPlacing, laidOut
<1>3. /\ segs' = segs /\ Fixed' = Fixed /\ FirstPin(Fixed)' = FirstPin(Fixed) /\ Header' = Header
      /\ NoPins' = NoPins /\ \A s \in DOMAIN segs : Span(s)' = Span(s)
  BY <1>2, SameFixed
<1>4. SUFFICES ASSUME NoPins PROVE FreeInv'
  BY <1>3 DEF FreeInv
<1>5. \A s \in DOMAIN segs : StaysInPlace(s)
  <2>1. \A s \in DOMAIN segs : s < i
    BY <1>1, <1>2 DEF TypeInv
  <2>. QED  BY <1>1, <2>1 DEF LaidInv
<1>6. ASSUME NEW s \in Placed'
      PROVE  s \in DOMAIN segs /\ segs[s].kind # "zero" /\ Fixed[s] # None /\ placed'[s] = Fixed[s] /\ Fixed[s] \in Nat
  <2>1. s \in DOMAIN segs /\ segs[s].kind # "zero" /\ Fixed[s] # None /\ placed'[s] = Fixed[s]
    BY <1>2, <1>3, <1>6 DEF Placed
  <2>. QED  BY <1>1, <1>4, <2>1, FixedStep
<1>7. ASSUME NEW s \in Placed', NEW u \in Placed', u # s
      PROVE  Apart(s, u)'
  <2>1. s < u \/ u < s
    BY <1>1, <1>6, <1>7
  <2>2. Fixed[s] + Span(s) <= Fixed[u] \/ Fixed[u] + Span(u) <= Fixed[s]
    BY <1>1, <1>4, <1>6, <1>7, <2>1, FixedOrdered
  <2>. QED  BY <1>2, <1>3, <1>6, <1>7, <2>2 DEF Apart
<1>8. ASSUME NEW s \in Placed', NEW z \in DOMAIN segs, segs[z].kind = "zero"
      PROVE  segs[z].size <= placed'[s]
  BY <1>1, <1>4, <1>5, <1>6, <1>8, FixedAboveZero
<1>9. ASSUME NEW s \in Placed', s < i' \/ s = Header \/ FirstPin(Fixed) < i'
      PROVE  Covered(s)'
  <2>1. s = Header
    <3>1. ~(s < i')
      BY <1>1, <1>2, <1>6
    <3>2. SUFFICES ASSUME FirstPin(Fixed) < i' PROVE s = Header
      BY <1>9, <3>1
    <3>3. InPlace(s)
      BY <1>1, <1>2, <1>4, <1>6, <3>2, FirstPinFacts
    <3>. QED  BY <1>1, <1>6, <3>3, FirstFacts
  <2>2. Header # 0 /\ InPlace(s)
    BY <1>1, <1>6, <2>1, HeaderFacts DEF InPlace
  <2>3. Fixed[s] = vm[s].addr
    BY <1>1, <1>4, <1>6, <2>2, FixedStep
  <2>. DEFINE r == <<Fixed[s], Fixed[s] + Span(s)>>
  <2>4. r \in taken'
    BY <1>2, <2>1, <2>2, <2>3 DEF TakenFirst
  <2>5. Span(s) \in Nat
    BY <1>1, <1>6, SpanOfFacts
  <2>6. r[1] <= placed'[s] /\ placed'[s] + Span(s) <= r[2]
    BY <1>6, <2>5
  <2>. HIDE DEF r
  <2>. QED  BY <1>3, <1>6, <2>4, <2>6 DEF Covered
<1>. QED  BY <1>2, <1>3, <1>7, <1>8, <1>9 DEF FreeInv

\* A segment that does not float counts as taken where it is.
LEMMA FreeFixed ==
    ASSUME SegmentAssumption, LayInv, FreeInv, PlaceSegment, placed[i] # None
    PROVE  FreeInv'
<1>0. PICK k : k = i
  OBVIOUS
<1>1. TypeInv /\ LaidInv /\ l \in Links /\ VmTyped /\ DOMAIN segs = 1..Len(segs) /\ Len(segs) \in Nat
  BY TypeFacts, LinkFacts DEF LayInv, TypeInv
<1>2. phase = "place" /\ i <= Len(segs) /\ taken' = Taken(k) /\ placed' = placed /\ i' = k + 1 /\ l' = l /\ vm' = vm
  BY <1>0 DEF PlaceSegment, laidOut
<1>3. /\ segs' = segs /\ Fixed' = Fixed /\ FirstPin(Fixed)' = FirstPin(Fixed) /\ Header' = Header
      /\ NoPins' = NoPins /\ \A s \in DOMAIN segs : Span(s)' = Span(s)
  BY <1>2, SameFixed
<1>4. k \in DOMAIN segs /\ k \in Nat
  BY <1>0, <1>1, <1>2 DEF TypeInv
<1>5. SUFFICES ASSUME NoPins PROVE FreeInv'
  BY <1>3 DEF FreeInv
<1>6. /\ \A s \in DOMAIN segs : Fixed[s] # None \/ s >= k => placed[s] = Fixed[s]
      /\ \A s \in Placed :
            /\ \A u \in Placed : u # s => Apart(s, u)
            /\ \A z \in DOMAIN segs : segs[z].kind = "zero" => segs[z].size <= placed[s]
            /\ s < k \/ s = Header \/ FirstPin(Fixed) < k => Covered(s)
  BY <1>0, <1>2, <1>5 DEF FreeInv
<1>7. Placed' = Placed /\ \A s \in DOMAIN segs, u \in DOMAIN segs : Apart(s, u)' = Apart(s, u)
  BY <1>2, <1>3 DEF Placed, Apart
<1>8. Placed \subseteq DOMAIN segs /\ \A s \in Placed : segs[s].kind # "zero" /\ placed[s] # None
  BY DEF Placed
<1>9. ASSUME NEW s \in Placed, Covered(s)
      PROVE  Covered(s)'
  BY <1>2, <1>3, <1>8, <1>9 DEF Covered, Taken
<1>10. ASSUME NEW s \in Placed, s < k + 1 \/ s = Header \/ FirstPin(Fixed) < k + 1
       PROVE  Covered(s)'
  <2>1. CASE s < k \/ s = Header \/ FirstPin(Fixed) < k
    BY <1>6, <1>9, <2>1
  <2>2. CASE ~(s < k \/ s = Header \/ FirstPin(Fixed) < k)
    <3>1. s \in DOMAIN segs /\ s >= k /\ placed[s] = Fixed[s] /\ Fixed[s] # None /\ segs[s].kind # "zero"
      BY <1>1, <1>4, <1>6, <1>8, <2>2
    <3>2. ~InPlace(s) /\ Fixed[s] \in Nat /\ Span(s) \in Nat
      BY <1>1, <1>5, <2>2, <3>1, FirstFacts, FixedStep, SpanOfFacts
    <3>3. FirstPin(Fixed) \in 1..s /\ FirstPin(Fixed) \in Nat
      BY <1>1, <1>5, <3>1, <3>2, FirstPinFacts
    <3>4. FirstPin(Fixed) = k
      BY <1>1, <1>4, <1>10, <2>2, <3>1, <3>3
    <3>. DEFINE r == <<Fixed[s], Fixed[s] + Span(s)>>
    <3>5. r \in taken'
      BY <1>2, <3>1, <3>2, <3>4 DEF Taken
    <3>6. r[1] <= placed'[s] /\ placed'[s] + Span(s) <= r[2]
      BY <1>2, <3>1, <3>2
    <3>. HIDE DEF r
    <3>. QED  BY <1>3, <3>1, <3>5, <3>6 DEF Covered
  <2>. QED  BY <2>1, <2>2
<1>11. \A s \in DOMAIN segs : Fixed[s] # None \/ s >= k + 1 => placed[s] = Fixed[s]
  BY <1>1, <1>4, <1>6
<1>12. \A s \in Placed :
          /\ \A u \in Placed : u # s => Apart(s, u)'
          /\ \A z \in DOMAIN segs : segs[z].kind = "zero" => segs[z].size <= placed[s]
  BY <1>6, <1>7, <1>8
<1>. QED  BY <1>2, <1>3, <1>7, <1>10, <1>11, <1>12 DEF FreeInv

\* A segment that floats goes where nothing is placed, at the image base or
\* above it.
LEMMA FreeFloating ==
    ASSUME SegmentAssumption, LayInv, FreeInv, PlaceSegment, placed[i] = None
    PROVE  FreeInv'
<1>0. PICK k : k = i
  OBVIOUS
<1>1. TypeInv /\ LaidInv /\ l \in Links /\ VmTyped /\ DOMAIN segs = 1..Len(segs) /\ Len(segs) \in Nat
  BY TypeFacts, LinkFacts DEF LayInv, TypeInv
<1>2. phase = "place" /\ i <= Len(segs) /\ i' = k + 1 /\ l' = l /\ vm' = vm
  BY <1>0 DEF PlaceSegment, laidOut
<1>3. /\ segs' = segs /\ Fixed' = Fixed /\ FirstPin(Fixed)' = FirstPin(Fixed) /\ Header' = Header
      /\ NoPins' = NoPins /\ \A s \in DOMAIN segs : Span(s)' = Span(s)
  BY <1>2, SameFixed
<1>4. k \in DOMAIN segs /\ k \in Nat
  BY <1>0, <1>1, <1>2 DEF TypeInv
<1>5. SUFFICES ASSUME NoPins PROVE FreeInv'
  BY <1>3 DEF FreeInv
<1>6. /\ \A s \in DOMAIN segs : Fixed[s] # None \/ s >= k => placed[s] = Fixed[s]
      /\ \A s \in Placed :
            /\ \A u \in Placed : u # s => Apart(s, u)
            /\ \A z \in DOMAIN segs : segs[z].kind = "zero" => segs[z].size <= placed[s]
            /\ s < k \/ s = Header \/ FirstPin(Fixed) < k => Covered(s)
  BY <1>0, <1>2, <1>5 DEF FreeInv
<1>7. ~Detached /\ l.base \in Nat
  BY <1>1, <1>5, FirstPinFacts, LinkFacts
<1>8. PICK first \in Nat, start \in Nat :
         /\ start >= first
         /\ placed' = [placed EXCEPT ![k] = start]
         /\ taken' = Taken(k) \cup {<<first, start + Span(k)>>}
         /\ first = l.base \/ first > (IF Detached THEN 0 ELSE l.base)
         /\ \A r \in Taken(k) : r[2] <= first \/ start + Span(k) <= r[1]
  BY <1>0, <1>4, FloatFacts
<1>9. placed \in [DOMAIN segs -> Nat \cup {None}] /\ Bounded(taken)
  BY <1>2 DEF LayInv, PlaceInv
<1>10. Fixed[k] = None /\ \A s \in DOMAIN segs : s >= k => Fixed[s] = None /\ placed[s] = None
  <2>1. Fixed[k] = None
    BY <1>0, <1>1, <1>4, <1>6
  <2>2. \A s \in DOMAIN segs : s >= k => Fixed[s] = None
    BY <1>1, <1>4, <1>5, <2>1, FixedPrefix
  <2>. QED  BY <1>6, <2>1, <2>2
<1>11. ASSUME NEW s \in Placed
       PROVE  s \in DOMAIN segs /\ s < k /\ s # k /\ placed[s] \in Nat /\ placed'[s] = placed[s] /\ Span(s) \in Nat
  <2>1. s \in DOMAIN segs /\ placed[s] # None
    BY <1>11 DEF Placed
  <2>2. s < k /\ s # k
    BY <1>1, <1>4, <1>10, <2>1
  <2>. QED  BY <1>1, <1>8, <1>9, <2>1, <2>2, SpanOfFacts
<1>12. placed'[k] = start /\ Span(k) \in Nat
  BY <1>1, <1>4, <1>8, <1>9, SpanOfFacts
<1>13. \A s \in Placed' : s \in Placed \/ s = k
  BY <1>3, <1>8, <1>9 DEF Placed
<1>14. ASSUME NEW s \in Placed
       PROVE  Covered(s)' /\ Apart(s, k)' /\ Apart(k, s)'
  <2>1. PICK r \in taken : r[1] <= placed[s] /\ placed[s] + Span(s) <= r[2]
    BY <1>6, <1>11, <1>14 DEF Covered
  <2>2. r \in Taken(k) /\ r \in taken'
    BY <1>8, <2>1 DEF Taken
  <2>3. r[1] \in Nat /\ r[2] \in Nat
    BY <1>9, <2>1 DEF Bounded
  <2>4. r[2] <= first \/ start + Span(k) <= r[1]
    BY <1>8, <2>2
  <2>5. placed[s] + Span(s) <= start \/ start + Span(k) <= placed[s]
    BY <1>8, <1>11, <1>12, <1>14, <2>1, <2>3, <2>4
  <2>6. Covered(s)'
    BY <1>3, <1>11, <1>14, <2>1, <2>2 DEF Covered
  <2>. QED  BY <1>3, <1>4, <1>11, <1>12, <1>14, <2>5, <2>6 DEF Apart
<1>15. ASSUME NEW s \in Placed, NEW u \in Placed, u # s
       PROVE  Apart(s, u)'
  <2>1. Apart(s, u)
    BY <1>6, <1>15
  <2>. QED  BY <1>3, <1>11, <1>15, <2>1 DEF Apart
<1>16. \A s \in Placed', u \in Placed' : u # s => Apart(s, u)'
  BY <1>13, <1>14, <1>15
<1>17. ASSUME NEW s \in Placed', NEW z \in DOMAIN segs, segs[z].kind = "zero"
       PROVE  segs[z].size <= placed'[s]
  <2>1. CASE s \in Placed
    BY <1>6, <1>11, <1>17, <2>1
  <2>2. CASE s = k
    <3>1. segs[z].size <= l.base /\ segs[z].size \in Nat
      BY <1>1, <1>5, <1>17, LinkFacts DEF NoPins
    <3>. QED  BY <1>7, <1>8, <1>12, <2>2, <3>1
  <2>. QED  BY <1>13, <1>17, <2>1, <2>2
<1>18. ASSUME NEW s \in Placed'
       PROVE  Covered(s)'
  <2>1. CASE s = k
    <3>. DEFINE r == <<first, start + Span(k)>>
    <3>1. r \in taken' /\ r[1] <= placed'[k] /\ placed'[k] + Span(k) <= r[2]
      BY <1>8, <1>12
    <3>. HIDE DEF r
    <3>. QED  BY <1>3, <1>4, <2>1, <3>1 DEF Covered
  <2>. QED  BY <1>13, <1>14, <1>18, <2>1
<1>19. \A s \in DOMAIN segs : Fixed[s] # None \/ s >= k + 1 => placed'[s] = Fixed[s]
  <2>1. TAKE s \in DOMAIN segs
  <2>2. HAVE Fixed[s] # None \/ s >= k + 1
  <2>3. s # k /\ (Fixed[s] # None \/ s >= k)
    BY <1>1, <1>4, <1>10, <2>2
  <2>. QED  BY <1>6, <1>8, <1>9, <2>3
<1>. QED  BY <1>2, <1>3, <1>16, <1>17, <1>18, <1>19 DEF FreeInv

LEMMA FreeStep ==
    ASSUME SegmentAssumption, LayInv, FreeInv, [Next]_vars
    PROVE  FreeInv'
<1>1. CASE UNCHANGED vars
  <2>1. l' = l /\ vm' = vm /\ phase' = phase /\ i' = i /\ taken' = taken /\ placed' = placed
    BY <1>1 DEF vars, cursors, places, laidOut
  <2>2. /\ segs' = segs /\ Fixed' = Fixed /\ FirstPin(Fixed)' = FirstPin(Fixed) /\ Header' = Header
        /\ NoPins' = NoPins /\ \A s \in DOMAIN segs : Span(s)' = Span(s)
    BY <2>1, SameFixed
  <2>3. Placed' = Placed /\ Placed \subseteq DOMAIN segs
    BY <2>1, <2>2 DEF Placed
  <2>4. \A s \in DOMAIN segs, u \in DOMAIN segs : Apart(s, u)' = Apart(s, u)
    BY <2>1, <2>2 DEF Apart
  <2>5. \A s \in DOMAIN segs : Covered(s)' <=> Covered(s)
    BY <2>1, <2>2 DEF Covered
  <2>. QED  BY <2>1, <2>2, <2>3, <2>4, <2>5 DEF FreeInv
<1>2. CASE LayOutSegment \/ MoveSegments \/ FinishUnwindInfo \/ FinishChainStarts \/ CheckSegments \/ PlaceLinkedit
  <2>1. phase' # "place"
    BY <1>2 DEF LayOutSegment, MoveSegments, FinishUnwindInfo, FinishChainStarts, CheckSegments, PlaceLinkedit, Again
  <2>. QED  BY <2>1 DEF FreeInv
<1>. QED  BY <1>1, <1>2, FreeStart, FreeFixed, FreeFloating DEF Next

\* Without pins, no two segments overlap when they have all been placed.
LEMMA OverlapStep ==
    ASSUME SegmentAssumption, LayInv, FreeInv, OnlyPinsOverlap, [Next]_vars
    PROVE  OnlyPinsOverlap'
<1>1. TypeInv /\ LaidInv /\ l \in Links /\ VmTyped /\ DOMAIN segs = 1..Len(segs) /\ Len(segs) \in Nat
  BY TypeFacts, LinkFacts DEF LayInv, TypeInv
<1>2. CASE MoveSegments
  <2>1. phase = "place" /\ l' = l /\ segs' = segs
    BY <1>2, MoveFacts
  <2>2. NoPins' = NoPins
    BY <2>1 DEF NoPins, Pins
  <2>3. SUFFICES ASSUME NoPins, error' = "overlap" PROVE FALSE
    <3>1. NoPins => error' # "overlap"
      BY <2>3
    <3>2. l'.base \in Nat /\ \A s \in DOMAIN segs : segs[s].size \in Nat
      BY <1>1, <2>1, LinkFacts
    <3>. QED  BY <2>1, <2>2, <3>1, <3>2 DEF OnlyPinsOverlap, NoPins
  <2>4. error = "none"
    BY <1>1, <2>1 DEF TypeInv
  <2>5a. PICK s \in DOMAIN segs : \E x \in (s + 1)..Len(segs) : Overlap(vm'[s], vm'[x])
    BY <1>2, <2>3, <2>4 DEF MoveSegments
  <2>5. PICK u \in (s + 1)..Len(segs) : Overlap(vm'[s], vm'[u])
    BY <2>5a
  <2>6. u \in DOMAIN segs /\ s < u /\ s # u
    BY <1>1, <2>5
  <2>7. /\ placed[s] \in Nat /\ placed[u] \in Nat
        /\ vm'[s].addr = placed[s] /\ vm'[s].size = vm[s].size /\ vm'[u].addr = placed[u] /\ vm'[u].size = vm[u].size
    BY <1>2, <2>6, MoveFacts
  <2>8. placed[s] + vm[s].size > placed[u] /\ placed[u] + vm[u].size > placed[s]
    BY <1>1, <2>5, <2>6, <2>7 DEF Overlap, VmTyped
  <2>9. segs[u].kind # "zero"
    BY <1>1, <2>6, FirstFacts DEF InPlace
  <2>10. u \in Placed
    BY <2>6, <2>7, <2>9 DEF Placed, None
  <2>11. /\ \A x \in Placed : x # u => Apart(u, x)
         /\ \A z \in DOMAIN segs : segs[z].kind = "zero" => segs[z].size <= placed[u]
    BY <2>1, <2>3, <2>10 DEF FreeInv
  <2>12. CASE segs[s].kind = "zero"
    <3>1. StaysInPlace(s) /\ placed[s] = vm[s].addr
      BY <1>1, <1>2, <2>1, <2>12, MoveFacts DEF LaidInv, InPlace
    <3>2. placed[s] = 0 /\ vm[s].size = segs[s].size /\ segs[s].size \in Nat
      BY <1>1, <2>12, <3>1, LinkFacts DEF StaysInPlace
    <3>. QED  BY <2>7, <2>8, <2>11, <2>12, <3>2
  <2>13. CASE segs[s].kind # "zero"
    <3>1. s \in Placed
      BY <2>7, <2>13 DEF Placed, None
    <3>2. Apart(u, s)
      BY <2>6, <2>11, <3>1
    <3>3. Span(s) \in Nat /\ Span(s) >= vm[s].size /\ Span(u) \in Nat /\ Span(u) >= vm[u].size
      BY <1>1, <2>6, SpanOfFacts
    <3>4. vm[s].size \in Nat /\ vm[u].size \in Nat
      BY <1>1, <2>6 DEF VmTyped
    <3>. QED  BY <2>7, <2>8, <3>2, <3>3, <3>4 DEF Apart
  <2>. QED  BY <2>12, <2>13
<1>3. CASE LayOutSegment \/ StartPlacing \/ PlaceSegment \/ FinishUnwindInfo \/ FinishChainStarts
           \/ CheckSegments \/ PlaceLinkedit \/ UNCHANGED vars
  <2>1. l' = l /\ (error' = error \/ error' = "order")
    BY <1>3 DEF LayOutSegment, StartPlacing, PlaceSegment, FinishUnwindInfo, FinishChainStarts, CheckSegments,
                PlaceLinkedit, vars
  <2>. QED  BY <2>1 DEF OnlyPinsOverlap, Pins, segs
<1>. QED  BY <1>2, <1>3 DEF Next

-----------------------------------------------------------------------------
(***************************************************************************)
(* The theorems.                                                           *)
(***************************************************************************)

LEMMA IInvInit ==
    ASSUME SegmentAssumption, Init
    PROVE  IInv
<1>1. phase = "layout" /\ error = "none"
  BY DEF Init
<1>. QED
  BY <1>1, LayoutInit DEF IInv, FreeInv, OnlyPinsOverlap, ApartInv, EndInv, CurrentInv

LEMMA IInvStep ==
    ASSUME SegmentAssumption, IInv, [Next]_vars
    PROVE  IInv'
  BY LayStep, FreeStep, OverlapStep, ApartStep, EndStep, CurrentStep DEF IInv

\* The invariant says what the properties do.
LEMMA IInvImplies ==
    ASSUME SegmentAssumption, IInv
    PROVE  TypeOK /\ SegmentsApart /\ ChunksInPlace /\ ContentsAreCurrent
<1>1. TypeInv /\ LaidInv /\ l \in Links
  BY DEF IInv, LayInv, TypeInv
<1>2. TypeOK
  <2>1. \A s \in DOMAIN segs : vm[s] \in [addr : Nat, size : Nat] /\ file[s] \in [off : Nat, size : Nat]
    BY <1>1 DEF TypeInv
  <2>2. \A s \in DOMAIN segs : \A n \in DOMAIN segs[s].chunks : at[s][n] \in [addr : Nat, off : Nat] /\ size[s][n] \in Nat
    BY <1>1 DEF TypeInv
  <2>3. (error # "none") = (phase = "failed")
    BY <1>1 DEF TypeInv
  <2>. QED  BY <1>1, <2>1, <2>2, <2>3 DEF TypeOK, TypeInv, Phases
<1>3. SegmentsApart
  BY DEF IInv, ApartInv, EndInv, SegmentsApart, SegmentsDisjoint
<1>4. ContentsAreCurrent
  BY DEF IInv, CurrentInv, ContentsAreCurrent, UnwindIsCurrent, ChainsAreCurrent
<1>5. ChunksInPlace
  <2>1. SUFFICES ASSUME phase = "done" PROVE ChunksInPlace
    BY DEF ChunksInPlace
  <2>2. linkedit.off = fileoff
    BY <2>1 DEF IInv, EndInv
  <2>3. \A s \in DOMAIN segs : ChunksIn(s) /\ FileAfter(s)
    BY <1>1, <2>1 DEF LaidInv
  <2>4. ASSUME NEW s \in DOMAIN segs, NEW n \in DOMAIN segs[s].chunks
        PROVE  /\ at[s][n].addr >= vm[s].addr /\ at[s][n].addr + size[s][n] <= vm[s].addr + vm[s].size
               /\ ~segs[s].chunks[n].zerofill =>
                     /\ at[s][n].off - file[s].off = at[s][n].addr - vm[s].addr
                     /\ at[s][n].off + size[s][n] <= file[s].off + file[s].size
    BY <2>3, <2>4 DEF ChunksIn
  <2>5. ASSUME NEW s \in DOMAIN segs, NEW n \in DOMAIN segs[s].chunks, NEW m \in DOMAIN segs[s].chunks, m # n
        PROVE  ~Overlap([addr |-> at[s][n].addr, size |-> size[s][n]], [addr |-> at[s][m].addr, size |-> size[s][m]])
    <3>1. at[s][n].addr + size[s][n] <= at[s][m].addr \/ at[s][m].addr + size[s][m] <= at[s][n].addr
      BY <2>3, <2>5 DEF ChunksIn
    <3>2. at[s][n].addr \in Nat /\ size[s][n] \in Nat /\ at[s][m].addr \in Nat /\ size[s][m] \in Nat
      BY <1>1, <2>5, TypeFacts
    <3>. QED  BY <3>1, <3>2 DEF Overlap
  <2>6. ASSUME NEW s \in DOMAIN segs
        PROVE  /\ \A u \in DOMAIN segs : u > s /\ file[u].size > 0 => file[s].off + file[s].size <= file[u].off
               /\ file[s].off + file[s].size <= linkedit.off
    <3>1. \A u \in DOMAIN segs : u \in Nat
      BY <1>1, LinkFacts
    <3>. QED  BY <2>2, <2>3, <3>1 DEF FileAfter
  <2>. QED  BY <2>4, <2>5, <2>6 DEF ChunksInPlace
<1>. QED  BY <1>2, <1>3, <1>4, <1>5

\* The layout keeps its invariant, whatever images there are.
THEOREM LayoutInvariant == SegmentAssumption => (Spec => []IInv)
<1>1. SUFFICES ASSUME SegmentAssumption PROVE Spec => []IInv
  OBVIOUS
<1>2. Init => IInv
  BY <1>1, IInvInit
<1>3. IInv /\ [Next]_vars => IInv'
  BY <1>1, IInvStep
<1>. QED  BY <1>2, <1>3, PTL DEF Spec

\* The variables of the layout keep their types.
THEOREM TypeInvariant == SegmentAssumption => (Spec => []TypeOK)
<1>1. SUFFICES ASSUME SegmentAssumption PROVE Spec => []TypeOK
  OBVIOUS
<1>2. IInv => TypeOK
  BY <1>1, IInvImplies
<1>3. Spec => []IInv
  BY <1>1, LayoutInvariant
<1>. QED  BY <1>2, <1>3, PTL

\* In an image that the linker writes, no two segments share an address, and
\* only pins or a base within __PAGEZERO make check_segment_overlaps fail.
THEOREM SegmentsStayApart == SegmentAssumption => (Spec => []SegmentsApart)
<1>1. SUFFICES ASSUME SegmentAssumption PROVE Spec => []SegmentsApart
  OBVIOUS
<1>2. IInv => SegmentsApart
  BY <1>1, IInvImplies
<1>3. Spec => []IInv
  BY <1>1, LayoutInvariant
<1>. QED  BY <1>2, <1>3, PTL

\* Chunks are as far into their segment in memory as in the file, and within
\* both, wherever place_segments has moved the segment.
THEOREM ChunksStayInPlace == SegmentAssumption => (Spec => []ChunksInPlace)
<1>1. SUFFICES ASSUME SegmentAssumption PROVE Spec => []ChunksInPlace
  OBVIOUS
<1>2. IInv => ChunksInPlace
  BY <1>1, IInvImplies
<1>3. Spec => []IInv
  BY <1>1, LayoutInvariant
<1>. QED  BY <1>2, <1>3, PTL

\* __unwind_info and __chain_starts are made for the addresses of the last
\* layout, and have the size that it left them.
THEOREM ContentsStayCurrent == SegmentAssumption => (Spec => []ContentsAreCurrent)
<1>1. SUFFICES ASSUME SegmentAssumption PROVE Spec => []ContentsAreCurrent
  OBVIOUS
<1>2. IInv => ContentsAreCurrent
  BY <1>1, IInvImplies
<1>3. Spec => []IInv
  BY <1>1, LayoutInvariant
<1>. QED  BY <1>2, <1>3, PTL

=============================================================================
