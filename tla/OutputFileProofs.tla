-------------------------- MODULE OutputFileProofs --------------------------
(***************************************************************************)
(* What the output file promises, for every layout of the image, page and  *)
(* block size, number of writers and of copying tasks.                     *)
(*                                                                         *)
(* The invariant follows a queued unit from the channel to a writer's      *)
(* block, or to the edges that close() writes, and into the file.  It      *)
(* stays there because a write covers its page, or finds the page in the   *)
(* file cache, whenever a unit of the page is in the file already.         *)
(***************************************************************************)
EXTENDS OutputFile, FiniteSetTheorems, SequenceTheorems, TLAPS

\* The layout the driver hands to the output file.
Layout == LayoutAssumption /\ SliceAssumption /\ IsFiniteSet(Tasks)

-----------------------------------------------------------------------------
(***************************************************************************)
(* The invariant.                                                          *)
(***************************************************************************)

\* Where the linking thread is: each set is what follows a step of link.
Told == {"notify", "post"}
Joined == {"edges"} \cup Told
Closing == {"join"} \cup Joined
AllQueued == {"check2", "traces", "check3", "close"} \cup Closing
Signed == {"queueSig"} \cup AllQueued
HeaderQueued == {"sign"} \cup Signed
Hashed == {"queueHeader"} \cup HeaderQueued
SymtabQueued == {"header", "uuid"} \cup Hashed
SymtabCopied == {"queueSymtab"} \cup SymtabQueued
BodyQueued == {"symtab"} \cup SymtabCopied
Fixed == {"queueBody"} \cup BodyQueued
Copied == {"check1", "fixups"} \cup Fixed

InHeader(u) == u < HdrEnd
InBody(u) == HdrEnd <= u /\ u < SymtabStart
InSymtab(u) == SymtabStart <= u /\ u < SigStart
InSignature(u) == SigStart <= u

\* Every pass has run over a unit or has not, as link's order says.
Passed(u) ==
    /\ InHeader(u) => buf[u] = IF pc \in Hashed THEN 2 ELSE IF pc = "uuid" THEN 1 ELSE 0
    /\ InBody(u) =>
          /\ pc \in {"link", "setlen"} => buf[u] = 0
          /\ pc = "copy" => buf[u] = IF \E t \in Tasks : task[t] = "done" /\ u \in Slice[t] THEN 1 ELSE 0
          /\ pc \in {"check1", "fixups"} => buf[u] = 1
          /\ pc \in Fixed => buf[u] = 2
    /\ InSymtab(u) => buf[u] = IF pc \in SymtabCopied THEN 1 ELSE 0
    /\ InSignature(u) => buf[u] = IF pc \in Signed THEN 1 ELSE 0
BufInv == \A u \in Units : Passed(u)

\* What is queued is what link has queued so far.
QueuedInv ==
    /\ queued \subseteq Units
    /\ \A u \in Units : u \in queued <=>
          \/ InBody(u) /\ pc \in BodyQueued
          \/ InSymtab(u) /\ pc \in SymtabQueued
          \/ InHeader(u) /\ pc \in HeaderQueued
          \/ InSignature(u) /\ pc \in AllQueued

\* A task dies in place of finishing, and link does not go on without it.
TasksInv ==
    /\ pc \in {"link", "setlen"} => \A t \in Tasks : task[t] = "run"
    /\ pc \in Copied => \A t \in Tasks : task[t] = "done"
    /\ \A t \in Tasks : dying[t] # "no" => pc = "copy" /\ task[t] = "run"

Elems(s) == {s[i] : i \in 1..Len(s)}

\* Blocks are whole pages of the buffer, edges lie in one page.
Whole(b) == \E k \in Nat, m \in Nat \ {0} :
    b[1] = k * Page /\ b[2] = m * Page /\ b[1] + b[2] <= BufLen /\ b[2] <= Block
InOnePage(e) == \A u \in Span(e[1], e[2]) : PageOf(u) = PageOf(e[1])

JobsInv ==
    /\ \A b \in Elems(channel) : Whole(b)
    /\ \A w \in Writers :
          /\ writer[w] # "fill"
          /\ writer[w] \in {"write", "copy"} => Whole(job[w])
          /\ writer[w] \in {"recv", "ok", "err"} => job[w] = NoJob
    /\ \A e \in Elems(edges) : InOnePage(e)

\* The writers end after the sender is dropped and the channel is empty.
EndInv ==
    /\ txOpen <=> pc \notin Closing
    /\ \A w \in Writers : writer[w] = "ok" => channel = <<>> /\ pc \in Closing
    /\ pc \in Joined => \A w \in Writers : writer[w] = "ok"
    /\ pc \in Told => edges = <<>>

\* Unless a writer failed, what is queued is still to be written or is in the
\* file, in a page of the file cache that no later write fills with zeros.
Pending(u) ==
    \/ \E b \in Elems(channel) : u \in Span(b[1], b[2])
    \/ \E w \in Writers : u \in Span(job[w][1], job[w][2])
    \/ \E e \in Elems(edges) : u \in Span(e[1], e[2])
DataInv ==
    (\A w \in Writers : writer[w] # "err") =>
        \A u \in queued : Pending(u) \/ (file[u] = buf[u] /\ PageOf(u) \in cached)

\* The hashes were taken of the contents the pages end up with.
HashInv == pc \in Hashed => \A p \in Pages : hash[p] = PageContents(Final, p)

\* The output path and who removes what is there.
PathInv ==
    /\ pc = "link" => ~created
    /\ disk = "ours" => created
    /\ registered => created /\ pc \notin Told
    /\ pc # "link" => created \/ disk \in {"kept", "device"}
    /\ created => disk = "ours" \/ \E t \in Threads : dying[t] = "die"
    /\ \A t \in Threads :
          /\ dying[t] = "unlink" => created /\ pc \notin Told
          /\ dying[t] \in {"unlink", "die"} => ~registered
    /\ pc \in Told => disk \in {"ours", "kept", "device"}

\* Success is told when the output is closed.
ToldInv ==
    /\ notified <=> pc = "post"
    /\ child = "exit0" => pc = "post"
    /\ parent = "exit0" => pc = "post"

IInv ==
    /\ TypeOK
    /\ BufInv /\ QueuedInv /\ TasksInv
    /\ JobsInv /\ EndInv /\ DataInv /\ HashInv
    /\ PathInv /\ ToldInv

\* While one thread at most dies, it removes what it cannot finish.
AloneInv ==
    /\ \A t, u \in Threads : dying[t] # "no" /\ dying[u] # "no" => t = u
    /\ created /\ pc \notin Told =>
          registered \/ disk = "absent" \/ \E t \in Threads : dying[t] = "unlink"
    /\ created /\ child # "run" => disk = "absent" \/ pc \in Told

-----------------------------------------------------------------------------
(***************************************************************************)
(* Pages, blocks and edges.                                                *)
(***************************************************************************)
LEMMA LayoutTypes ==
    ASSUME Layout
    PROVE  /\ Page \in Nat /\ Page > 0 /\ Block \in Nat /\ Block > 0
           /\ HdrEnd \in Nat /\ SymtabStart \in Nat /\ SigStart \in Nat /\ BufLen \in Nat
           /\ 0 < HdrEnd /\ HdrEnd <= SymtabStart /\ SymtabStart <= SigStart /\ SigStart < BufLen
           /\ NumWriters \in Nat /\ NumWriters > 0
  BY DEF Layout, LayoutAssumption

LEMMA DivisionBounds ==
    ASSUME NEW n \in Nat, n > 0, NEW x \in Nat
    PROVE  x \div n \in Nat /\ (x \div n) * n <= x /\ x < (x \div n) * n + n
  OBVIOUS

LEMMA DivisionIsUnique ==
    ASSUME NEW n \in Nat, n > 0, NEW x \in Nat, NEW k \in Nat, k * n <= x, x < k * n + n
    PROVE  x \div n = k
  OBVIOUS

LEMMA MultiplesApart ==
    ASSUME NEW n \in Nat, n > 0, NEW j \in Nat, NEW k \in Nat, j * n < k * n
    PROVE  j < k /\ j * n + n <= k * n
  OBVIOUS

LEMMA IntervalSize ==
    ASSUME NEW a \in Nat, NEW n \in Nat, n > 0
    PROVE  Cardinality(a..(a + n - 1)) = n
  <1> DEFINE b == a + n - 1
  <1>1. a \in Int /\ b \in Int /\ ~(a > b) /\ b - a + 1 = n
    OBVIOUS
  <1> HIDE DEF b
  <1>2. Cardinality(a..b) = IF a > b THEN 0 ELSE b - a + 1
    BY <1>1, FS_Interval, Zenon
  <1>3. Cardinality(a..b) = n
    BY <1>1, <1>2
  <1>. QED  BY <1>3 DEF b

\* BLOCK is a multiple of the page size.
LEMMA BlockIsPages ==
    ASSUME Layout
    PROVE  \E b \in Nat \ {0} : Block = b * Page
  <1>1. Page \in Nat /\ Page > 0 /\ Block \in Nat /\ Block > 0 /\ Block % Page = 0
    BY DEF Layout, LayoutAssumption
  <1>. QED  BY <1>1

\* A unit is in page k if it is between that page's ends.
LEMMA UnitsInPage ==
    ASSUME Layout, NEW u \in Nat, NEW k \in Nat, k * Page <= u, u < k * Page + Page
    PROVE  PageOf(u) = k
  BY LayoutTypes, DivisionIsUnique DEF PageOf

\* The next multiple of the page size.
LEMMA RoundingUp ==
    ASSUME Layout, NEW x \in Nat
    PROVE  \E k \in Nat : RoundUp(x) = k * Page /\ x <= k * Page /\ k * Page < x + Page
  <1>1. Page \in Nat /\ Page > 0 /\ x + Page - 1 \in Nat
    BY LayoutTypes
  <1> DEFINE k == (x + Page - 1) \div Page
  <1>2. k \in Nat /\ k * Page <= x + Page - 1 /\ x + Page - 1 < k * Page + Page
    BY <1>1, DivisionBounds
  <1>3. RoundUp(x) = k * Page
    BY DEF RoundUp
  <1> HIDE DEF k
  <1>4. k * Page \in Nat
    BY <1>1, <1>2
  <1>5. x <= k * Page /\ k * Page < x + Page
    BY <1>1, <1>2, <1>4
  <1>. QED  BY <1>2, <1>3, <1>5

\* What a writer writes in one go of a block of whole pages is one page.
LEMMA ChunkIsPage ==
    ASSUME Layout, NEW w \in Writers, Whole(job[w])
    PROVE  /\ job[w][1] \in Nat /\ job[w][2] \in Nat /\ job[w][2] >= Page
           /\ Chunk(w) = Span(job[w][1], Page)
           /\ Chunk(w) = UnitsOf(PageOf(job[w][1]))
           /\ Cardinality(Chunk(w)) = Page
           /\ job[w][1] + Page <= BufLen
  <1>1. PICK k \in Nat, m \in Nat \ {0} :
            /\ job[w][1] = k * Page /\ job[w][2] = m * Page
            /\ job[w][1] + job[w][2] <= BufLen /\ job[w][2] <= Block
    BY DEF Whole
  <1>2. Page \in Nat /\ Page > 0 /\ BufLen \in Nat
    BY LayoutTypes
  <1> DEFINE pos == job[w][1]
  <1>3. pos \in Nat /\ job[w][2] \in Nat /\ job[w][2] >= Page
    BY <1>1, <1>2
  <1>4. RoundUp(pos + 1) = pos + Page
    <2>1. (k * Page + 1 + Page - 1) \div Page = k + 1
      BY <1>2
    <2>2. (k + 1) * Page = k * Page + Page
      BY <1>2
    <2>. QED  BY <1>1, <2>1, <2>2 DEF RoundUp
  <1>5. Chunk(w) = Span(pos, Page)
    BY <1>2, <1>3, <1>4 DEF Chunk, Least
  <1>6. PageOf(pos) = k
    BY <1>1, <1>2, <1>3, UnitsInPage
  <1>7. ASSUME NEW u \in Units
        PROVE  u \in Span(pos, Page) <=> PageOf(u) = k
    <2>1. u \in Nat /\ k * Page \in Nat
      BY <1>2, LayoutTypes DEF Units
    <2>2. ASSUME u \in Span(pos, Page)
          PROVE  PageOf(u) = k
      BY <1>1, <2>1, <2>2, UnitsInPage DEF Span
    <2>3. ASSUME PageOf(u) = k
          PROVE  u \in Span(pos, Page)
      <3>1. k * Page <= u /\ u < k * Page + Page
        BY <1>2, <2>1, <2>3, DivisionBounds DEF PageOf
      <3>. QED  BY <1>1, <3>1 DEF Span
    <2>. QED  BY <2>2, <2>3
  <1>8. Span(pos, Page) = UnitsOf(PageOf(pos))
    BY <1>6, <1>7 DEF Span, UnitsOf
  <1>9. pos + Page <= BufLen
    BY <1>1, <1>2, <1>3
  <1>10. Span(pos, Page) = pos..(pos + Page - 1)
    BY <1>2, <1>3, <1>9 DEF Span, Units
  <1>11. Cardinality(pos..(pos + Page - 1)) = Page
    BY <1>2, <1>3, IntervalSize
  <1>. QED  BY <1>3, <1>5, <1>8, <1>9, <1>10, <1>11

LEMMA ElemsOfConcat ==
    ASSUME NEW S, NEW s \in Seq(S), NEW t \in Seq(S)
    PROVE  s \o t \in Seq(S) /\ Elems(s \o t) = Elems(s) \cup Elems(t)
  <1>1. /\ s \o t \in Seq(S) /\ Len(s \o t) = Len(s) + Len(t)
        /\ Len(s) \in Nat /\ Len(t) \in Nat
        /\ \A i \in 1..(Len(s) + Len(t)) :
              (s \o t)[i] = IF i <= Len(s) THEN s[i] ELSE t[i - Len(s)]
    BY ConcatProperties, LenProperties
  <1>2. ASSUME NEW x \in Elems(s \o t)
        PROVE  x \in Elems(s) \cup Elems(t)
    <2>1. PICK i \in 1..(Len(s) + Len(t)) : x = (s \o t)[i]
      BY <1>1 DEF Elems
    <2>2. CASE i <= Len(s)
      BY <1>1, <2>1, <2>2 DEF Elems
    <2>3. CASE i > Len(s)
      <3>1. i - Len(s) \in 1..Len(t) /\ x = t[i - Len(s)]
        BY <1>1, <2>1, <2>3
      <3>. QED  BY <3>1 DEF Elems
    <2>. QED  BY <1>1, <2>2, <2>3
  <1>3. ASSUME NEW x \in Elems(s)
        PROVE  x \in Elems(s \o t)
    <2>1. PICK i \in 1..Len(s) : x = s[i]
      BY DEF Elems
    <2>2. i \in 1..(Len(s) + Len(t)) /\ (s \o t)[i] = x
      BY <1>1, <2>1
    <2>. QED  BY <1>1, <2>2 DEF Elems
  <1>4. ASSUME NEW x \in Elems(t)
        PROVE  x \in Elems(s \o t)
    <2>1. PICK i \in 1..Len(t) : x = t[i]
      BY DEF Elems
    <2>2. Len(s) + i \in 1..(Len(s) + Len(t)) /\ (s \o t)[Len(s) + i] = x
      BY <1>1, <2>1
    <2>. QED  BY <1>1, <2>2 DEF Elems
  <1>. QED  BY <1>1, <1>2, <1>3, <1>4

LEMMA ElemsOfTail ==
    ASSUME NEW S, NEW s \in Seq(S), s # <<>>
    PROVE  /\ Tail(s) \in Seq(S) /\ Head(s) \in S
           /\ Elems(s) = {Head(s)} \cup Elems(Tail(s))
  <1>1. /\ Tail(s) \in Seq(S) /\ Head(s) \in S /\ Head(s) = s[1]
        /\ Len(s) \in Nat /\ Len(s) >= 1 /\ Len(Tail(s)) = Len(s) - 1
        /\ \A i \in 1..(Len(s) - 1) : Tail(s)[i] = s[i + 1]
    BY HeadTailProperties, EmptySeq, LenProperties
  <1>2. ASSUME NEW x \in Elems(s), x # Head(s)
        PROVE  x \in Elems(Tail(s))
    <2>1. PICK i \in 1..Len(s) : x = s[i]
      BY DEF Elems
    <2>2. i - 1 \in 1..(Len(s) - 1) /\ x = Tail(s)[i - 1]
      BY <1>1, <1>2, <2>1
    <2>. QED  BY <1>1, <2>2 DEF Elems
  <1>3. ASSUME NEW x \in Elems(Tail(s))
        PROVE  x \in Elems(s)
    <2>1. PICK i \in 1..(Len(s) - 1) : x = Tail(s)[i]
      BY <1>1 DEF Elems
    <2>2. i + 1 \in 1..Len(s) /\ x = s[i + 1]
      BY <1>1, <2>1
    <2>. QED  BY <2>2 DEF Elems
  <1>4. Head(s) \in Elems(s)
    BY <1>1 DEF Elems
  <1>. QED  BY <1>1, <1>2, <1>3, <1>4

\* The ends of the whole pages of a range.
LEMMA WholePages ==
    ASSUME Layout, NEW off \in Nat, NEW end \in Nat, off <= end
    PROVE  /\ Lo(off, end) \in Nat /\ Hi(off, end) \in Nat
           /\ off <= Lo(off, end) /\ Lo(off, end) <= Hi(off, end) /\ Hi(off, end) <= end
           /\ \E k \in Nat : /\ off <= k * Page /\ k * Page < off + Page
                             /\ Lo(off, end) <= k * Page
                             /\ Lo(off, end) < end => Lo(off, end) = k * Page
           /\ \E j \in Nat : /\ j * Page <= end /\ end < j * Page + Page
                             /\ Lo(off, end) < end => Hi(off, end) = j * Page
  <1>1. Page \in Nat /\ Page > 0
    BY LayoutTypes
  <1>2. PICK k \in Nat : RoundUp(off) = k * Page /\ off <= k * Page /\ k * Page < off + Page
    BY RoundingUp
  <1>3. PICK j \in Nat : j = end \div Page /\ j * Page <= end /\ end < j * Page + Page
    BY <1>1, DivisionBounds
  <1>4. k * Page \in Nat /\ j * Page \in Nat
    BY <1>1
  <1>5. Lo(off, end) = IF k * Page <= end THEN k * Page ELSE end
    BY <1>2 DEF Lo, Least
  <1>6. Hi(off, end) = IF j * Page >= Lo(off, end) THEN j * Page ELSE Lo(off, end)
    BY <1>3 DEF Hi, Greatest
  <1>7. Lo(off, end) < end => j * Page >= Lo(off, end)
    <2>1. CASE j * Page < k * Page /\ k * Page < end
      BY <1>1, <1>3, <1>4, <2>1, MultiplesApart
    <2>. QED  BY <1>4, <1>5, <2>1
  <1>. QED  BY <1>2, <1>3, <1>4, <1>5, <1>6, <1>7

\* The blocks of whole pages are whole pages of the buffer, and cover them.
LEMMA BlocksCover ==
    ASSUME Layout, NEW lo \in Nat, NEW hi \in Nat, lo <= hi, hi <= BufLen,
           lo < hi => \E j, k \in Nat : lo = k * Page /\ hi = j * Page
    PROVE  /\ Blocks(lo, hi) \in Seq(Units \X (1..Block))
           /\ \A b \in Elems(Blocks(lo, hi)) : Whole(b)
           /\ \A u \in Units : lo <= u /\ u < hi =>
                 \E b \in Elems(Blocks(lo, hi)) : u \in Span(b[1], b[2])
  <1>0. Page \in Nat /\ Page > 0 /\ Block \in Nat /\ Block > 0 /\ BufLen \in Nat
    BY LayoutTypes
  <1> DEFINE n == (hi - lo + Block - 1) \div Block
             B(i) == <<lo + (i - 1) * Block, Least(Block, hi - (lo + (i - 1) * Block))>>
  <1>1. n \in Nat /\ n * Block <= hi - lo + Block - 1 /\ hi - lo + Block - 1 < n * Block + Block
    <2>1. hi - lo + Block - 1 \in Nat
      BY <1>0
    <2>. QED  BY <1>0, <2>1, DivisionBounds
  <1>2. Blocks(lo, hi) = [i \in 1..n |-> B(i)]
    BY DEF Blocks
  <1> HIDE DEF n
  <1>3. ASSUME NEW i \in 1..n
        PROVE  Whole(B(i)) /\ B(i) \in Units \X (1..Block)
    <2>1. (i - 1) * Block \in Nat /\ (i - 1) * Block + Block <= n * Block
      BY <1>0, <1>1
    <2>2. lo + (i - 1) * Block < hi
      BY <1>0, <1>1, <2>1
    <2>3. PICK j \in Nat, k \in Nat : lo = k * Page /\ hi = j * Page
      BY <2>1, <2>2
    <2>4. PICK bp \in Nat \ {0} : Block = bp * Page
      BY BlockIsPages
    <2>5. (i - 1) * bp \in Nat /\ (i - 1) * Block = ((i - 1) * bp) * Page
      BY <1>0, <2>4
    <2> DEFINE q == k + (i - 1) * bp
    <2>6. q \in Nat /\ lo + (i - 1) * Block = q * Page
      BY <1>0, <2>3, <2>5
    <2> HIDE DEF q
    <2>7. CASE Block <= hi - (lo + (i - 1) * Block)
      <3>1. B(i) = <<q * Page, bp * Page>>
        BY <2>4, <2>6, <2>7 DEF Least
      <3>2. q * Page + bp * Page <= BufLen /\ q * Page \in Units /\ bp * Page \in 1..Block
        BY <1>0, <2>1, <2>4, <2>6, <2>7 DEF Units
      <3>3. Whole(B(i))
        BY <2>4, <2>6, <3>1, <3>2 DEF Whole
      <3>. QED  BY <3>1, <3>2, <3>3
    <2>8. CASE ~(Block <= hi - (lo + (i - 1) * Block))
      <3>1. PICK m \in Nat \ {0} : m = j - q
        BY <1>0, <2>2, <2>3, <2>6, MultiplesApart
      <3>2. hi - (lo + (i - 1) * Block) = m * Page
        BY <1>0, <2>3, <2>6, <3>1
      <3>3. B(i) = <<q * Page, m * Page>>
        BY <2>6, <2>8, <3>2 DEF Least
      <3>4. q * Page \in Nat /\ m * Page \in Nat /\ m * Page > 0
        BY <1>0, <2>2, <2>6, <3>1, <3>2
      <3>5. q * Page + m * Page = hi /\ m * Page < Block
        BY <1>0, <2>1, <2>6, <2>8, <3>2, <3>4
      <3>6. q * Page \in Units /\ m * Page \in 1..Block
        BY <1>0, <3>4, <3>5 DEF Units
      <3>7. Whole(B(i))
        <4>1. B(i)[1] = q * Page /\ B(i)[2] = m * Page
          BY <3>3
        <4>2. B(i)[1] + B(i)[2] <= BufLen /\ B(i)[2] <= Block
          BY <1>0, <3>4, <3>5, <4>1
        <4> HIDE DEF B
        <4>. QED  BY <2>6, <4>1, <4>2 DEF Whole
      <3>. QED  BY <3>3, <3>6, <3>7
    <2>. QED  BY <2>7, <2>8
  <1>4. Blocks(lo, hi) \in Seq(Units \X (1..Block)) /\ Len(Blocks(lo, hi)) = n
    BY <1>1, <1>2, <1>3
  <1>5. \A b \in Elems(Blocks(lo, hi)) : Whole(b)
    BY ZenonT(60), <1>2, <1>3, <1>4 DEF Elems
  <1>6. ASSUME NEW u \in Units, lo <= u, u < hi
        PROVE  \E b \in Elems(Blocks(lo, hi)) : u \in Span(b[1], b[2])
    <2>1. u \in Nat /\ u - lo \in Nat
      BY <1>0, <1>6 DEF Units
    <2>2. PICK q \in Nat : q * Block <= u - lo /\ u - lo < q * Block + Block
      BY <1>0, <2>1, DivisionBounds
    <2>3. q * Block \in Nat /\ n * Block \in Nat /\ q * Block < n * Block
      BY <1>0, <1>1, <1>6, <2>1, <2>2
    <2>4. q < n
      BY <1>0, <1>1, <2>3, MultiplesApart
    <2>5. q + 1 \in 1..n /\ (q + 1) - 1 = q
      BY <1>1, <2>4
    <2>6. Blocks(lo, hi)[q + 1] = <<lo + q * Block, Least(Block, hi - (lo + q * Block))>>
      BY <1>2, <2>5
    <2>7. u \in Span(lo + q * Block, Least(Block, hi - (lo + q * Block)))
      BY <1>0, <1>6, <2>1, <2>2, <2>3 DEF Span, Least
    <2>8. Blocks(lo, hi)[q + 1] \in Elems(Blocks(lo, hi))
      BY <1>4, <2>5 DEF Elems
    <2>. QED  BY <2>6, <2>7, <2>8
  <1>. QED  BY <1>4, <1>5, <1>6

\* The partial pages of a range lie in a page each and cover what is left.
LEMMA EdgesCover ==
    ASSUME Layout, NEW off \in Nat, NEW end \in Nat, off <= end, end <= BufLen
    PROVE  /\ EdgesOf(off, end) \in Seq(Units \X (1..Page))
           /\ \A e \in Elems(EdgesOf(off, end)) : InOnePage(e)
           /\ \A u \in Units : (off <= u /\ u < Lo(off, end)) \/ (Hi(off, end) <= u /\ u < end) =>
                 \E e \in Elems(EdgesOf(off, end)) : u \in Span(e[1], e[2])
  <1>0. Page \in Nat /\ Page > 0 /\ BufLen \in Nat
    BY LayoutTypes
  <1> DEFINE lo == Lo(off, end)
             hi == Hi(off, end)
             E1 == <<off, lo - off>>
             E2 == <<hi, end - hi>>
             S1 == IF off < lo THEN <<E1>> ELSE <<>>
             S2 == IF hi < end THEN <<E2>> ELSE <<>>
  <1>1. lo \in Nat /\ hi \in Nat /\ off <= lo /\ lo <= hi /\ hi <= end
    BY WholePages
  <1>2. PICK k \in Nat : /\ off <= k * Page /\ k * Page < off + Page
                         /\ lo <= k * Page
                         /\ lo < end => lo = k * Page
    BY WholePages
  <1>3. PICK j \in Nat : /\ j * Page <= end /\ end < j * Page + Page
                         /\ lo < end => hi = j * Page
    BY WholePages
  <1>4. EdgesOf(off, end) = S1 \o S2
    BY DEF EdgesOf
  <1> HIDE DEF lo, hi
  <1>5. k * Page \in Nat /\ j * Page \in Nat
    BY <1>0
  <1>6. ASSUME off < lo
        PROVE  E1 \in Units \X (1..Page) /\ InOnePage(E1)
    <2>1. k > 0 /\ (k - 1) * Page + Page = k * Page /\ (k - 1) * Page \in Nat
      BY <1>0, <1>1, <1>2, <1>6
    <2>2. \A u \in Nat : off <= u /\ u < lo => PageOf(u) = k - 1
      BY <1>0, <1>1, <1>2, <2>1, UnitsInPage
    <2>3. E1 \in Units \X (1..Page)
      BY <1>0, <1>1, <1>2, <1>5, <1>6 DEF Units
    <2>4. InOnePage(E1)
      BY <1>0, <1>1, <1>6, <2>2 DEF InOnePage, Span, Units
    <2>. QED  BY <2>3, <2>4
  <1>7. ASSUME hi < end
        PROVE  E2 \in Units \X (1..Page) /\ InOnePage(E2)
    <2>1. hi = j * Page
      BY <1>1, <1>3, <1>7
    <2>2. \A u \in Nat : hi <= u /\ u < end => PageOf(u) = j
      BY <1>0, <1>1, <1>3, <2>1, UnitsInPage
    <2>3. E2 \in Units \X (1..Page)
      BY <1>0, <1>1, <1>3, <1>5, <1>7, <2>1 DEF Units
    <2>4. InOnePage(E2)
      BY <1>0, <1>1, <1>7, <2>2 DEF InOnePage, Span, Units
    <2>. QED  BY <2>3, <2>4
  <1>8. S1 \in Seq(Units \X (1..Page)) /\ Elems(S1) = IF off < lo THEN {E1} ELSE {}
    <2>1. CASE off < lo
      <3>1. S1 = <<E1>> /\ Len(<<E1>>) = 1 /\ <<E1>>[1] = E1
        BY <2>1
      <3>2. Elems(<<E1>>) = {E1}
        BY <3>1 DEF Elems
      <3>. QED  BY <1>6, <2>1, <3>1, <3>2
    <2>2. CASE ~(off < lo)
      BY <2>2 DEF Elems
    <2>. QED  BY <2>1, <2>2
  <1>9. S2 \in Seq(Units \X (1..Page)) /\ Elems(S2) = IF hi < end THEN {E2} ELSE {}
    <2>1. CASE hi < end
      <3>1. S2 = <<E2>> /\ Len(<<E2>>) = 1 /\ <<E2>>[1] = E2
        BY <2>1
      <3>2. Elems(<<E2>>) = {E2}
        BY <3>1 DEF Elems
      <3>. QED  BY <1>7, <2>1, <3>1, <3>2
    <2>2. CASE ~(hi < end)
      BY <2>2 DEF Elems
    <2>. QED  BY <2>1, <2>2
  <1>10. /\ S1 \o S2 \in Seq(Units \X (1..Page))
         /\ Elems(S1 \o S2) = Elems(S1) \cup Elems(S2)
    <2> HIDE DEF S1, S2
    <2>. QED  BY <1>8, <1>9, ElemsOfConcat
  <1> HIDE DEF S1, S2
  <1>11. \A e \in Elems(S1 \o S2) : InOnePage(e)
    <2>1. \A e \in Elems(S1) : InOnePage(e)
      BY <1>6, <1>8
    <2>2. \A e \in Elems(S2) : InOnePage(e)
      BY <1>7, <1>9
    <2>. QED  BY <1>10, <2>1, <2>2
  <1>12. ASSUME NEW u \in Units, off <= u, u < lo
         PROVE  \E e \in Elems(S1 \o S2) : u \in Span(e[1], e[2])
    <2>1. off < lo /\ u \in Span(off, lo - off)
      BY <1>0, <1>1, <1>12 DEF Span, Units
    <2>2. E1 \in Elems(S1 \o S2) /\ E1[1] = off /\ E1[2] = lo - off
      BY <1>8, <1>10, <2>1
    <2>. QED  BY <2>1, <2>2
  <1>13. ASSUME NEW u \in Units, hi <= u, u < end
         PROVE  \E e \in Elems(S1 \o S2) : u \in Span(e[1], e[2])
    <2>1. hi < end /\ u \in Span(hi, end - hi)
      BY <1>0, <1>1, <1>13 DEF Span, Units
    <2>2. E2 \in Elems(S1 \o S2) /\ E2[1] = hi /\ E2[2] = end - hi
      BY <1>9, <1>10, <2>1
    <2>. QED  BY <2>1, <2>2
  <1>. QED  BY <1>4, <1>10, <1>11, <1>12, <1>13 DEF lo, hi

-----------------------------------------------------------------------------
(***************************************************************************)
(* The order of link: tasks, passes and ranges.                            *)
(***************************************************************************)

\* A unit is in one of the four ranges.
LEMMA RangesApart ==
    ASSUME Layout, NEW u \in Units
    PROVE  /\ u \in Nat /\ u < BufLen
           /\ InHeader(u) \/ InBody(u) \/ InSymtab(u) \/ InSignature(u)
           /\ InHeader(u) => ~InBody(u) /\ ~InSymtab(u) /\ ~InSignature(u)
           /\ InBody(u) => ~InSymtab(u) /\ ~InSignature(u)
           /\ InSymtab(u) => ~InSignature(u)
  <1>1. u \in Nat /\ u < BufLen
    BY LayoutTypes DEF Units
  <1>. QED  BY <1>1, LayoutTypes DEF InHeader, InBody, InSymtab, InSignature

LEMMA SliceInBody ==
    ASSUME Layout, NEW u \in Units
    PROVE  InBody(u) <=> \E t \in Tasks : u \in Slice[t]
  <1>1. u \in Nat /\ HdrEnd \in Nat /\ SymtabStart \in Nat
    BY LayoutTypes, RangesApart
  <1>2. u \in HdrEnd..(SymtabStart - 1) <=> u \in UNION {Slice[t] : t \in Tasks}
    BY DEF Layout, SliceAssumption
  <1>. QED  BY <1>1, <1>2 DEF InBody

LEMMA TasksStep ==
    ASSUME Layout, IInv, [Next]_vars
    PROVE  TasksInv'
  <1> USE DEF IInv, TasksInv, Runs
  <1>0. TypeOK /\ Main \notin Tasks /\ Main \in Threads
    BY DEF Layout, LayoutAssumption, Threads
  <1>1. CASE pc' = pc /\ task' = task /\ \A t \in Tasks : dying'[t] # "no" => dying[t] # "no"
    BY <1>1
  <1>2. ASSUME NEW way, StartDying(Main, way)
        PROVE  \A t \in Tasks : dying'[t] = dying[t]
    BY <1>0, <1>2 DEF StartDying, TypeOK, Threads
  <1>3. CASE LinkFails \/ OpenFails \/ CheckpointFails \/ MainCrashes
    BY <1>1, <1>2, <1>3 DEF LinkFails, OpenFails, CheckpointFails, MainCrashes
  <1>4. CASE Open \/ JoinTasks \/ Checkpoint \/ WriteTraceFiles \/ DropSender \/ ForgetPath
             \/ NotifyParent \/ Finish
    BY <1>0, <1>4 DEF Open, JoinTasks, Checkpoint, WriteTraceFiles, DropSender, ForgetPath, NotifyParent,
       Finish, threadVars, Copied, Fixed, BodyQueued, SymtabCopied, SymtabQueued, Hashed,
       HeaderQueued, Signed, AllQueued, Closing, Joined, Told, TypeOK
  <1>5. CASE SetLen \/ JoinWriters \/ WriteEdge
    BY <1>2, <1>5 DEF SetLen, JoinWriters, WriteEdge, Copied, Fixed, BodyQueued, SymtabCopied,
       SymtabQueued, Hashed, HeaderQueued, Signed, AllQueued, Closing, Joined, Told
  <1>6. CASE WriteFixups \/ CopySymtab \/ WriteMachHeader \/ ComputeUuid \/ WriteCodeSignature
    BY <1>6 DEF WriteFixups, CopySymtab, WriteMachHeader, ComputeUuid, WriteCodeSignature, Pass,
       threadVars, Copied, Fixed, BodyQueued, SymtabCopied, SymtabQueued, Hashed, HeaderQueued,
       Signed, AllQueued, Closing, Joined, Told
  <1>7. CASE QueueBody \/ QueueSymtab \/ QueueHeader \/ QueueSignature
    BY <1>7 DEF QueueBody, QueueSymtab, QueueHeader, QueueSignature, Queue, threadVars, Copied, Fixed,
       BodyQueued, SymtabCopied, SymtabQueued, Hashed, HeaderQueued, Signed, AllQueued, Closing,
       Joined, Told
  <1>8. CASE TaskSteps
    <2>1. PICK t \in Tasks : CopyBuf(t) \/ TaskDies(t)
      BY <1>8 DEF TaskSteps
    <2>2. pc = "copy" /\ pc' = "copy" /\ pc \notin Copied
      BY <2>1 DEF CopyBuf, TaskDies, Copied, Fixed, BodyQueued, SymtabCopied, SymtabQueued, Hashed,
         HeaderQueued, Signed, AllQueued, Closing, Joined, Told
    <2>3. CASE CopyBuf(t)
      <3>1. dying[t] = "no" /\ dying' = dying /\ task' = [task EXCEPT ![t] = "done"]
        BY <2>3 DEF CopyBuf
      <3>. QED  BY <1>0, <2>2, <3>1 DEF TypeOK
    <2>4. CASE TaskDies(t)
      <3>1. task[t] = "run" /\ task' = task /\ dying' = [dying EXCEPT ![t] = "cleanup"]
        BY <2>4 DEF TaskDies, StartDying
      <3>. QED  BY <1>0, <2>2, <3>1 DEF TypeOK, Threads
    <2>. QED  BY <2>1, <2>3, <2>4
  <1>9. CASE DyingSteps
    <2>1. PICK t \in Threads : CleanupSwap(t) \/ CleanupUnlink(t) \/ Die(t)
      BY <1>9 DEF DyingSteps
    <2>2. pc' = pc /\ task' = task
      BY <2>1 DEF CleanupSwap, CleanupUnlink, Die, threadVars
    <2>3. dying' = dying \/ (dying[t] # "no" /\ \E d : dying' = [dying EXCEPT ![t] = d])
      BY <2>1 DEF CleanupSwap, CleanupUnlink, Die, threadVars
    <2>4. \A u \in Tasks : dying'[u] # "no" => dying[u] # "no"
      BY <1>0, <2>3 DEF TypeOK, Threads
    <2>. QED  BY <1>1, <2>2, <2>4
  <1>10. CASE (\E w \in Writers : WriterSteps(w)) \/ ParentSteps \/ Ended \/ UNCHANGED vars
    BY <1>1, <1>10 DEF WriterSteps, Receive, WriteStart, WriteEnd, WriteFails, ParentSteps, ReadByte,
       WaitPid, Ended, vars, threadVars
  <1>. QED
    BY <1>3, <1>4, <1>5, <1>6, <1>7, <1>8, <1>9, <1>10 DEF Next, MainSteps

\* How a step may move link, its tasks and the buffer.
LinkStays == UNCHANGED <<pc, task, buf, queued, hash>>
LinkMoves(from, to) == pc = from /\ pc' = to /\ UNCHANGED <<task, buf, queued, hash>>
Moves ==
    \/ LinkMoves("link", "setlen") \/ LinkMoves("setlen", "copy")
    \/ LinkMoves("copy", "check1") /\ \A t \in Tasks : task[t] = "done"
    \/ LinkMoves("check1", "fixups") \/ LinkMoves("check2", "traces")
    \/ LinkMoves("traces", "check3") \/ LinkMoves("check3", "close")
    \/ LinkMoves("close", "join") \/ LinkMoves("join", "edges")
    \/ LinkMoves("edges", "notify") \/ LinkMoves("notify", "post")
Passes == WriteFixups \/ CopySymtab \/ WriteMachHeader \/ ComputeUuid \/ WriteCodeSignature
Queues == QueueBody \/ QueueSymtab \/ QueueHeader \/ QueueSignature

\* Every step leaves link where it is, moves it on, or is a task's copy, a
\* pass or the queueing of a range.
LEMMA LinkStep ==
    ASSUME [Next]_vars
    PROVE  LinkStays \/ Moves \/ Passes \/ Queues \/ \E t \in Tasks : CopyBuf(t)
  <1>1. CASE LinkFails \/ OpenFails \/ CheckpointFails \/ MainCrashes \/ WriteEdge \/ Finish
    BY <1>1 DEF LinkFails, OpenFails, CheckpointFails, MainCrashes, WriteEdge, Finish, threadVars,
       queueVars, LinkStays
  <1>2. CASE Open \/ SetLen \/ JoinTasks \/ Checkpoint
    BY <1>2 DEF Open, SetLen, JoinTasks, Checkpoint, threadVars, queueVars, LinkStays, LinkMoves, Moves
  <1>3. CASE WriteTraceFiles \/ DropSender \/ JoinWriters \/ ForgetPath \/ NotifyParent
    BY <1>3 DEF WriteTraceFiles, DropSender, JoinWriters, ForgetPath, NotifyParent, threadVars,
       queueVars, LinkStays, LinkMoves, Moves
  <1>4. CASE TaskSteps
    BY <1>4 DEF TaskSteps, TaskDies, queueVars, LinkStays
  <1>5. CASE DyingSteps
    BY <1>5 DEF DyingSteps, CleanupSwap, CleanupUnlink, Die, threadVars, queueVars, LinkStays
  <1>6. CASE (\E w \in Writers : WriterSteps(w)) \/ ParentSteps \/ Ended \/ UNCHANGED vars
    BY <1>6 DEF WriterSteps, Receive, WriteStart, WriteEnd, WriteFails, ParentSteps, ReadByte,
       WaitPid, Ended, vars, threadVars, queueVars, LinkStays
  <1>. QED
    BY <1>1, <1>2, <1>3, <1>4, <1>5, <1>6 DEF Next, MainSteps, Passes, Queues

LEMMA BufStep ==
    ASSUME Layout, IInv, [Next]_vars
    PROVE  BufInv'
  <1> USE DEF Copied, Fixed, BodyQueued, SymtabCopied, SymtabQueued, Hashed, HeaderQueued, Signed,
              AllQueued, Closing, Joined, Told
  <1>1. SUFFICES ASSUME NEW u \in Units
                 PROVE  Passed(u)'
    BY DEF BufInv
  <1>2. BufInv /\ TasksInv /\ TypeOK
    BY DEF IInv
  <1>3. CASE LinkStays
    BY <1>2, <1>3 DEF LinkStays, BufInv, Passed, InHeader, InBody, InSymtab, InSignature
  <1>4. CASE Moves
    <2>1. InBody(u) <=> \E t \in Tasks : u \in Slice[t]
      BY SliceInBody
    <2>. QED  BY <1>2, <1>4, <2>1 DEF Moves, LinkMoves, BufInv, Passed, TasksInv, InHeader, InBody, InSymtab, InSignature
  <1>5. CASE Passes
    <2>1. u \in Nat /\ u < BufLen
      BY RangesApart
    <2>2. 0 < HdrEnd /\ HdrEnd <= SymtabStart /\ SymtabStart <= SigStart /\ SigStart < BufLen
          /\ HdrEnd \in Nat /\ SymtabStart \in Nat /\ SigStart \in Nat /\ BufLen \in Nat
      BY LayoutTypes
    <2>3. Passed(u)
      BY <1>2 DEF BufInv
    <2>4. CASE WriteFixups
      BY <2>1, <2>2, <2>3, <2>4 DEF WriteFixups, Pass, Passed, InHeader, InBody, InSymtab, InSignature
    <2>5. CASE CopySymtab
      BY <2>1, <2>2, <2>3, <2>5 DEF CopySymtab, Pass, Passed, InHeader, InBody, InSymtab, InSignature
    <2>6. CASE WriteMachHeader
      BY <2>1, <2>2, <2>3, <2>6 DEF WriteMachHeader, Pass, Passed, InHeader, InBody, InSymtab, InSignature
    <2>7. CASE ComputeUuid
      BY <2>1, <2>2, <2>3, <2>7 DEF ComputeUuid, Pass, Passed, InHeader, InBody, InSymtab, InSignature
    <2>8. CASE WriteCodeSignature
      BY <2>1, <2>2, <2>3, <2>8 DEF WriteCodeSignature, Pass, Passed, InHeader, InBody, InSymtab, InSignature
    <2>. QED  BY <1>5, <2>4, <2>5, <2>6, <2>7, <2>8 DEF Passes
  <1>6. CASE Queues
    BY <1>2, <1>6 DEF Queues, QueueBody, QueueSymtab, QueueHeader, QueueSignature, Queue, threadVars,
       BufInv, Passed, InHeader, InBody, InSymtab, InSignature
  <1>7. ASSUME NEW t \in Tasks, CopyBuf(t)
        PROVE  Passed(u)'
    <2>1. /\ pc = "copy" /\ pc' = "copy" /\ task' = [task EXCEPT ![t] = "done"]
          /\ buf'[u] = IF u \in Slice[t] THEN 1 ELSE buf[u]
      BY <1>7 DEF CopyBuf
    <2>2. InBody(u) <=> \E v \in Tasks : u \in Slice[v]
      BY SliceInBody
    <2>3. InBody(u) => ~InHeader(u) /\ ~InSymtab(u) /\ ~InSignature(u)
      BY RangesApart
    <2>. QED  BY <1>2, <2>1, <2>2, <2>3 DEF BufInv, Passed, TypeOK, InHeader, InBody, InSymtab, InSignature
  <1>. QED  BY <1>3, <1>4, <1>5, <1>6, <1>7, LinkStep

LEMMA QueuedStep ==
    ASSUME Layout, IInv, [Next]_vars
    PROVE  QueuedInv'
  <1> USE DEF Copied, Fixed, BodyQueued, SymtabCopied, SymtabQueued, Hashed, HeaderQueued, Signed,
              AllQueued, Closing, Joined, Told
  <1>1. QueuedInv /\ TypeOK
    BY DEF IInv
  <1>2. CASE LinkStays \/ Moves
    BY <1>1, <1>2 DEF LinkStays, Moves, LinkMoves, QueuedInv, InHeader, InBody, InSymtab, InSignature
  <1>3. CASE Passes
    BY <1>1, <1>3
       DEF Passes, WriteFixups, CopySymtab, WriteMachHeader, ComputeUuid, WriteCodeSignature, Pass,
           queueVars, QueuedInv, InHeader, InBody, InSymtab, InSignature
  <1>4. CASE Queues
    <2>1. ASSUME NEW u \in Units
          PROVE  /\ u \in Span(HdrEnd, SymtabStart - HdrEnd) <=> InBody(u)
                 /\ u \in Span(SymtabStart, SigStart - SymtabStart) <=> InSymtab(u)
                 /\ u \in Span(0, HdrEnd - 0) <=> InHeader(u)
                 /\ u \in Span(SigStart, BufLen - SigStart) <=> InSignature(u)
      BY LayoutTypes, RangesApart DEF Span, InHeader, InBody, InSymtab, InSignature
    <2>2. \A off, n : Span(off, n) \subseteq Units
      BY DEF Span
    <2>3. CASE QueueBody
      BY <1>1, <2>1, <2>2, <2>3 DEF QueueBody, Queue, QueuedInv, InHeader, InBody, InSymtab, InSignature
    <2>4. CASE QueueSymtab
      BY <1>1, <2>1, <2>2, <2>4 DEF QueueSymtab, Queue, QueuedInv, InHeader, InBody, InSymtab, InSignature
    <2>5. CASE QueueHeader
      BY <1>1, <2>1, <2>2, <2>5 DEF QueueHeader, Queue, QueuedInv, InHeader, InBody, InSymtab, InSignature
    <2>6. CASE QueueSignature
      BY <1>1, <2>1, <2>2, <2>6 DEF QueueSignature, Queue, QueuedInv, InHeader, InBody, InSymtab, InSignature
    <2>. QED  BY <1>4, <2>3, <2>4, <2>5, <2>6 DEF Queues
  <1>5. CASE \E t \in Tasks : CopyBuf(t)
    BY <1>1, <1>5 DEF CopyBuf, queueVars, QueuedInv, InHeader, InBody, InSymtab, InSignature
  <1>. QED  BY <1>2, <1>3, <1>4, <1>5, LinkStep

\* No pass writes a unit that is queued.
LEMMA QueuedKept ==
    ASSUME Layout, IInv, [Next]_vars, NEW u \in queued
    PROVE  u \in Units /\ buf'[u] = buf[u]
  <1> USE DEF Copied, Fixed, BodyQueued, SymtabCopied, SymtabQueued, Hashed, HeaderQueued, Signed,
              AllQueued, Closing, Joined, Told
  <1>1. QueuedInv /\ TypeOK
    BY DEF IInv
  <1>2. u \in Units
    BY <1>1 DEF QueuedInv
  <1>3. buf = [v \in Units |-> buf[v]]
    BY <1>1 DEF TypeOK
  <1>4. CASE LinkStays \/ Moves
    BY <1>2, <1>4 DEF LinkStays, Moves, LinkMoves
  <1>5. CASE Passes
    <2>1. u \in Nat /\ u < BufLen
      BY <1>2, RangesApart
    <2>2. 0 < HdrEnd /\ HdrEnd <= SymtabStart /\ SymtabStart <= SigStart /\ SigStart < BufLen
          /\ HdrEnd \in Nat /\ SymtabStart \in Nat /\ SigStart \in Nat /\ BufLen \in Nat
      BY LayoutTypes
    <2>3. CASE WriteFixups
      BY <1>1, <1>2, <2>1, <2>2, <2>3 DEF WriteFixups, Pass, QueuedInv, InHeader, InBody, InSymtab, InSignature
    <2>4. CASE CopySymtab
      BY <1>1, <1>2, <2>1, <2>2, <2>4 DEF CopySymtab, Pass, QueuedInv, InHeader, InBody, InSymtab, InSignature
    <2>5. CASE WriteMachHeader
      BY <1>1, <1>2, <2>1, <2>2, <2>5 DEF WriteMachHeader, Pass, QueuedInv, InHeader, InBody, InSymtab, InSignature
    <2>6. CASE ComputeUuid
      BY <1>1, <1>2, <2>1, <2>2, <2>6 DEF ComputeUuid, Pass, QueuedInv, InHeader, InBody, InSymtab, InSignature
    <2>7. CASE WriteCodeSignature
      BY <1>1, <1>2, <2>1, <2>2, <2>7
         DEF WriteCodeSignature, Pass, QueuedInv, InHeader, InBody, InSymtab, InSignature
    <2>. QED  BY <1>5, <2>3, <2>4, <2>5, <2>6, <2>7 DEF Passes
  <1>6. CASE Queues
    BY <1>2, <1>6 DEF Queues, QueueBody, QueueSymtab, QueueHeader, QueueSignature, Queue
  <1>7. CASE \E t \in Tasks : CopyBuf(t)
    BY <1>1, <1>2, <1>7 DEF CopyBuf, QueuedInv
  <1>. QED  BY <1>2, <1>4, <1>5, <1>6, <1>7, LinkStep

\* Two buffers that agree on a page's units hash the same.
LEMMA SameContents ==
    ASSUME NEW b, NEW c, NEW p, \A u \in UnitsOf(p) \cap 0..(SigStart - 1) : b[u] = c[u]
    PROVE  PageContents(b, p) = PageContents(c, p)
  BY DEF PageContents

LEMMA HashStep ==
    ASSUME Layout, IInv, [Next]_vars
    PROVE  HashInv'
  <1> USE DEF Copied, Fixed, BodyQueued, SymtabCopied, SymtabQueued, Hashed, HeaderQueued, Signed,
              AllQueued, Closing, Joined, Told
  <1>1. HashInv /\ BufInv /\ BufInv'
    BY BufStep DEF IInv
  <1>2. CASE LinkStays \/ Moves
    BY <1>1, <1>2 DEF LinkStays, Moves, LinkMoves, HashInv, Final, PageContents, UnitsOf, PageOf
  <1>3. CASE ComputeUuid
    <2>1. /\ pc = "uuid" /\ pc' = "queueHeader"
          /\ buf' = [u \in Units |-> IF 0 <= u /\ u < HdrEnd THEN buf[u] + 1 ELSE buf[u]]
          /\ hash' = [p \in Pages |-> PageContents(IF p <= PageOf(HdrEnd - 1) THEN buf' ELSE buf, p)]
      BY <1>3 DEF ComputeUuid, Pass
    <2>2. ASSUME NEW u \in Units, u < SigStart
          PROVE  buf'[u] = Final[u]
      BY <1>1, <2>1, <2>2, RangesApart, LayoutTypes DEF BufInv, Passed, Final, InHeader, InBody, InSymtab
    <2>3. ASSUME NEW p \in Pages, NEW u \in UnitsOf(p), ~(p <= PageOf(HdrEnd - 1))
          PROVE  buf'[u] = buf[u]
      <3>1. u \in Units /\ u \in Nat /\ p = u \div Page /\ HdrEnd - 1 \in Nat /\ HdrEnd \in Nat
            /\ Page \in Nat /\ Page > 0
        BY LayoutTypes, RangesApart DEF UnitsOf, PageOf
      <3>2. ~(u \div Page <= (HdrEnd - 1) \div Page)
        BY <2>3, <3>1 DEF PageOf
      <3>3. ~(u <= HdrEnd - 1)
        <4> DEFINE j == u \div Page
                   k == (HdrEnd - 1) \div Page
        <4>1. j \in Nat /\ j * Page <= u /\ k \in Nat /\ HdrEnd - 1 < k * Page + Page
          BY <3>1, DivisionBounds
        <4>2. ~(j <= k)
          BY <3>2
        <4> HIDE DEF j, k
        <4>3. k * Page + Page <= j * Page
          BY <3>1, <4>1, <4>2
        <4>. QED  BY <3>1, <4>1, <4>3
      <3>4. ~(u < HdrEnd)
        BY <3>1, <3>3
      <3>. QED  BY <2>1, <3>1, <3>4
    <2>4. ASSUME NEW p \in Pages
          PROVE  hash'[p] = PageContents(Final, p)
      <3>1. \A u \in UnitsOf(p) \cap 0..(SigStart - 1) : u \in Units /\ u < SigStart
        BY LayoutTypes, RangesApart DEF UnitsOf
      <3>2. CASE p <= PageOf(HdrEnd - 1)
        <4>1. hash'[p] = PageContents(buf', p)
          BY <2>1, <3>2
        <4>. QED  BY <2>2, <3>1, <4>1, SameContents
      <3>3. CASE ~(p <= PageOf(HdrEnd - 1))
        <4>1. hash'[p] = PageContents(buf, p)
          BY <2>1, <3>3
        <4>2. \A u \in UnitsOf(p) \cap 0..(SigStart - 1) : buf[u] = Final[u]
          BY <2>2, <2>3, <3>1, <3>3
        <4>. QED  BY <4>1, <4>2, SameContents
      <3>. QED  BY <3>2, <3>3
    <2>5. HashInv' = (pc' \in Hashed => \A p \in Pages : hash'[p] = PageContents(Final, p))
      BY DEF HashInv, PageContents, Final, UnitsOf, PageOf
    <2>. QED  BY <2>4, <2>5
  <1>4. CASE WriteFixups \/ CopySymtab \/ WriteMachHeader \/ WriteCodeSignature
    BY <1>1, <1>4 DEF WriteFixups, CopySymtab, WriteMachHeader, WriteCodeSignature, Pass, HashInv,
       Final, PageContents, UnitsOf, PageOf
  <1>5. CASE Queues
    BY <1>1, <1>5 DEF Queues, QueueBody, QueueSymtab, QueueHeader, QueueSignature, Queue, HashInv,
       Final, PageContents, UnitsOf, PageOf
  <1>6. CASE \E t \in Tasks : CopyBuf(t)
    BY <1>1, <1>6 DEF CopyBuf, HashInv
  <1>. QED  BY <1>2, <1>3, <1>4, <1>5, <1>6, LinkStep DEF Passes

-----------------------------------------------------------------------------
(***************************************************************************)
(* The way of a queued unit: channel, writers, edges, file.                *)
(***************************************************************************)

\* The steps that touch neither the queue nor the writers nor the file.
IoStays == UNCHANGED <<file, cached, edges, channel, txOpen, writer, job, queued>>

LEMMA IoStep ==
    ASSUME [Next]_vars
    PROVE  \/ IoStays /\ (pc' = pc \/ (pc \notin Closing /\ pc' \notin Closing))
           \/ IoStays /\ pc = "join" /\ pc' = "edges" /\ \A w \in Writers : writer[w] = "ok"
           \/ IoStays /\ pc = "edges" /\ pc' = "notify" /\ edges = <<>>
           \/ IoStays /\ pc = "notify" /\ pc' = "post"
           \/ Queues \/ DropSender \/ WriteEdge
           \/ \E w \in Writers : Receive(w) \/ WriteStart(w) \/ WriteEnd(w) \/ WriteFails(w)
  <1> USE DEF dataVars, queueVars, writerVars, IoStays
  <1>1. CASE LinkFails \/ OpenFails \/ CheckpointFails \/ MainCrashes \/ Finish
    BY <1>1 DEF LinkFails, OpenFails, CheckpointFails, MainCrashes, Finish
  <1>2. CASE Open \/ SetLen \/ JoinTasks \/ Checkpoint \/ WriteTraceFiles
    BY <1>2 DEF Open, SetLen, JoinTasks, Checkpoint, WriteTraceFiles, Closing, Joined, Told
  <1>3. CASE JoinWriters \/ ForgetPath \/ NotifyParent
    BY <1>3 DEF JoinWriters, ForgetPath, NotifyParent
  <1>4. CASE Passes
    BY <1>4 DEF Passes, WriteFixups, CopySymtab, WriteMachHeader, ComputeUuid, WriteCodeSignature, Pass,
       Closing, Joined, Told
  <1>5. CASE TaskSteps
    BY <1>5 DEF TaskSteps, TaskDies, CopyBuf
  <1>6. CASE DyingSteps
    BY <1>6 DEF DyingSteps, CleanupSwap, CleanupUnlink, Die
  <1>7. CASE ParentSteps \/ Ended \/ UNCHANGED vars
    BY <1>7 DEF ParentSteps, ReadByte, WaitPid, Ended, vars
  <1>. QED
    BY <1>1, <1>2, <1>3, <1>4, <1>5, <1>6, <1>7 DEF Next, MainSteps, Passes, Queues, WriterSteps

\* The range a step of Queues makes final.
LEMMA QueuedRange ==
    ASSUME Layout, Queues
    PROVE  \E off, end \in Nat : /\ off <= end /\ end <= BufLen
                                 /\ \E from, to : Queue(from, to, off, end)
  BY LayoutTypes DEF Queues, QueueBody, QueueSymtab, QueueHeader, QueueSignature

\* Queueing keeps what is queued and adds whole pages and edges that cover the
\* range, unless every writer has failed.
LEMMA QueueAdds ==
    ASSUME Layout, IInv, NEW off \in Nat, NEW end \in Nat, off <= end, end <= BufLen,
           NEW from, NEW to, Queue(from, to, off, end)
    PROVE  /\ edges' \in Seq(Units \X (1..Page)) /\ channel' \in Seq(Units \X (1..Block))
           /\ Elems(edges) \subseteq Elems(edges') /\ Elems(channel) \subseteq Elems(channel')
           /\ \A b \in Elems(channel') : Whole(b)
           /\ \A e \in Elems(edges') : InOnePage(e)
           /\ \/ \A w \in Writers : writer[w] = "err"
              \/ \A u \in Span(off, end - off) :
                    \/ \E b \in Elems(channel') : u \in Span(b[1], b[2])
                    \/ \E e \in Elems(edges') : u \in Span(e[1], e[2])
  <1> DEFINE lo == Lo(off, end)
             hi == Hi(off, end)
             B == Blocks(lo, hi)
             E == EdgesOf(off, end)
  <1>0. Page \in Nat /\ BufLen \in Nat
    BY LayoutTypes
  <1>1. /\ edges' = edges \o E
        /\ channel' = IF \A w \in Writers : writer[w] = "err" THEN channel ELSE channel \o B
    BY DEF Queue
  <1>2. lo \in Nat /\ hi \in Nat /\ lo <= hi /\ hi <= end /\ hi <= BufLen
    BY <1>0, WholePages
  <1>3. lo < hi => \E j, k \in Nat : lo = k * Page /\ hi = j * Page
    <2>1. PICK k \in Nat : lo < end => lo = k * Page
      BY WholePages
    <2>2. PICK j \in Nat : lo < end => hi = j * Page
      BY WholePages
    <2> HIDE DEF lo, hi
    <2>3. lo < hi => lo < end
      BY <1>2
    <2>. QED  BY <2>1, <2>2, <2>3
  <1>4. /\ B \in Seq(Units \X (1..Block))
        /\ \A b \in Elems(B) : Whole(b)
        /\ \A u \in Units : lo <= u /\ u < hi => \E b \in Elems(B) : u \in Span(b[1], b[2])
    <2> HIDE DEF lo, hi
    <2>. QED  BY <1>2, <1>3, BlocksCover
  <1>5. /\ E \in Seq(Units \X (1..Page))
        /\ \A e \in Elems(E) : InOnePage(e)
        /\ \A u \in Units : (off <= u /\ u < lo) \/ (hi <= u /\ u < end) =>
              \E e \in Elems(E) : u \in Span(e[1], e[2])
    BY EdgesCover
  <1>6. /\ edges \in Seq(Units \X (1..Page)) /\ channel \in Seq(Units \X (1..Block))
        /\ \A b \in Elems(channel) : Whole(b)
        /\ \A e \in Elems(edges) : InOnePage(e)
    BY DEF IInv, TypeOK, JobsInv
  <1> HIDE DEF lo, hi, B, E
  <1>7. edges \o E \in Seq(Units \X (1..Page)) /\ Elems(edges \o E) = Elems(edges) \cup Elems(E)
    BY <1>5, <1>6, ElemsOfConcat
  <1>8. channel \o B \in Seq(Units \X (1..Block)) /\ Elems(channel \o B) = Elems(channel) \cup Elems(B)
    BY <1>4, <1>6, ElemsOfConcat
  <1>9. ASSUME NEW u \in Span(off, end - off), ~\A w \in Writers : writer[w] = "err"
        PROVE  \/ \E b \in Elems(channel') : u \in Span(b[1], b[2])
               \/ \E e \in Elems(edges') : u \in Span(e[1], e[2])
    <2>1. u \in Units /\ off <= u /\ u < end /\ u \in Nat
      BY RangesApart DEF Span
    <2>2. \/ lo <= u /\ u < hi
          \/ (off <= u /\ u < lo) \/ (hi <= u /\ u < end)
      BY <1>2, <2>1
    <2>3. channel' = channel \o B
      BY <1>1, <1>9
    <2>. QED  BY <1>1, <1>4, <1>5, <1>7, <1>8, <2>1, <2>2, <2>3
  <1>10. Elems(edges') = Elems(edges) \cup Elems(E)
    BY <1>1, <1>7
  <1>11. Elems(channel') = Elems(channel) \/ Elems(channel') = Elems(channel) \cup Elems(B)
    BY <1>1, <1>8
  <1>12. edges' \in Seq(Units \X (1..Page)) /\ channel' \in Seq(Units \X (1..Block))
    BY <1>1, <1>6, <1>7, <1>8
  <1>13. /\ \A b \in Elems(channel') : Whole(b)
         /\ \A e \in Elems(edges') : InOnePage(e)
    BY <1>4, <1>5, <1>6, <1>10, <1>11
  <1>. QED  BY <1>9, <1>10, <1>11, <1>12, <1>13

\* A writer writes the whole of the next page of its block.
LEMMA WriteEndWritesPage ==
    ASSUME Layout, IInv, NEW w \in Writers, WriteEnd(w)
    PROVE  /\ writer[w] = "copy" /\ Whole(job[w])
           /\ file' = [u \in Units |-> IF u \in UnitsOf(PageOf(job[w][1])) THEN buf[u] ELSE file[u]]
           /\ cached' = cached \cup {PageOf(job[w][1])}
           /\ \/ /\ job[w][2] = Page
                 /\ job' = [job EXCEPT ![w] = NoJob] /\ writer' = [writer EXCEPT ![w] = "recv"]
              \/ /\ job[w][2] > Page
                 /\ job' = [job EXCEPT ![w] = <<job[w][1] + Page, job[w][2] - Page>>]
                 /\ writer' = [writer EXCEPT ![w] = "write"]
  <1>1. writer[w] = "copy" /\ Whole(job[w])
    BY DEF IInv, JobsInv, WriteEnd
  <1>2. /\ job[w][1] \in Nat /\ job[w][2] \in Nat /\ job[w][2] >= Page
        /\ Chunk(w) = UnitsOf(PageOf(job[w][1])) /\ Cardinality(Chunk(w)) = Page
    BY <1>1, ChunkIsPage
  <1>3. Page \in Nat
    BY LayoutTypes
  <1> DEFINE rest == <<job[w][1] + Cardinality(Chunk(w)), job[w][2] - Cardinality(Chunk(w))>>
  <1>4. /\ file' = [u \in Units |-> IF u \in Chunk(w) THEN buf[u] ELSE IF u \in {} THEN 0 ELSE file[u]]
        /\ cached' = cached \cup {PageOf(job[w][1])}
        /\ job' = [job EXCEPT ![w] = IF rest[2] = 0 THEN NoJob ELSE rest]
        /\ writer' = [writer EXCEPT ![w] = IF rest[2] = 0 THEN "recv" ELSE "write"]
    BY <1>1 DEF WriteEnd
  <1>5. rest = <<job[w][1] + Page, job[w][2] - Page>>
    BY <1>2
  <1>6. rest[2] = job[w][2] - Page
    BY <1>5
  <1>7. (rest[2] = 0 <=> job[w][2] = Page) /\ (rest[2] # 0 <=> job[w][2] > Page)
    BY <1>2, <1>3, <1>6
  <1> HIDE DEF rest
  <1>8. file' = [u \in Units |-> IF u \in UnitsOf(PageOf(job[w][1])) THEN buf[u] ELSE file[u]]
    BY <1>2, <1>4
  <1>. QED  BY <1>1, <1>4, <1>5, <1>7, <1>8

\* The rest of a block is whole pages too.
LEMMA RestIsWhole ==
    ASSUME Layout, NEW b, Whole(b), b[2] > Page
    PROVE  Whole(<<b[1] + Page, b[2] - Page>>) /\ <<b[1] + Page, b[2] - Page>> \in Units \X (0..Block)
  <1>1. PICK k \in Nat, m \in Nat \ {0} :
            b[1] = k * Page /\ b[2] = m * Page /\ b[1] + b[2] <= BufLen /\ b[2] <= Block
    BY DEF Whole
  <1>2. Page \in Nat /\ Page > 0 /\ BufLen \in Nat /\ Block \in Nat
    BY LayoutTypes
  <1>3. b[1] + Page = (k + 1) * Page /\ b[2] - Page = (m - 1) * Page
    BY <1>1, <1>2
  <1>4. b[1] \in Nat /\ b[2] \in Nat
    BY <1>1, <1>2
  <1>5. m > 1
    BY <1>1, <1>2
  <1>6. k + 1 \in Nat /\ m - 1 \in Nat \ {0}
    BY <1>5
  <1>7. (b[1] + Page) + (b[2] - Page) <= BufLen /\ b[2] - Page <= Block
    BY <1>1, <1>2, <1>4
  <1> DEFINE r == <<b[1] + Page, b[2] - Page>>
  <1>8. r[1] = (k + 1) * Page /\ r[2] = (m - 1) * Page /\ r[1] + r[2] <= BufLen /\ r[2] <= Block
    BY <1>3, <1>7
  <1>9. b[1] + Page \in Units /\ b[2] - Page \in 0..Block
    BY <1>1, <1>2, <1>4 DEF Units
  <1>10. r \in Units \X (0..Block)
    BY <1>9
  <1> HIDE DEF r
  <1>11. Whole(r)
    BY <1>6, <1>8 DEF Whole
  <1>. QED  BY <1>10, <1>11 DEF r

\* No page needs to be filled with zeros around a writer's write.
LEMMA WriteStartCopies ==
    ASSUME Layout, IInv, NEW w \in Writers, WriteStart(w)
    PROVE  Whole(job[w]) /\ writer' = [writer EXCEPT ![w] = "copy"]
  <1>1. Whole(job[w])
    BY DEF IInv, JobsInv, WriteStart
  <1>2. Chunk(w) = UnitsOf(PageOf(job[w][1]))
    BY <1>1, ChunkIsPage
  <1>3. ZeroFilled(PageOf(job[w][1]), Chunk(w)) = {}
    BY <1>2 DEF ZeroFilled
  <1>. QED  BY <1>1, <1>3 DEF WriteStart

\* The page of a unit is a page of the buffer.
LEMMA PageOfUnit ==
    ASSUME Layout, NEW u \in Units
    PROVE  PageOf(u) \in Pages
  <1>1. u \in Nat /\ BufLen - 1 \in Nat /\ u <= BufLen - 1 /\ Page \in Nat /\ Page > 0
    BY LayoutTypes, RangesApart DEF Units
  <1> DEFINE j == u \div Page
             k == (BufLen - 1) \div Page
  <1>2. j \in Nat /\ j * Page <= u /\ k \in Nat /\ BufLen - 1 < k * Page + Page
    BY <1>1, DivisionBounds
  <1> HIDE DEF j, k
  <1>3. j <= k
    <2>1. CASE k < j
      <3>1. k * Page + Page <= j * Page
        BY <1>1, <1>2, <2>1
      <3>. QED  BY <1>1, <1>2, <3>1
    <2>. QED  BY <1>2, <2>1
  <1>4. j \in 0..k
    BY <1>2, <1>3
  <1>. QED  BY <1>4 DEF j, k, PageOf, Pages

\* close() writes an edge without losing a unit that is in the file.
LEMMA WriteEdgeWrites ==
    ASSUME Layout, IInv, WriteEdge
    PROVE  \/ IoStays /\ pc' = pc
           \/ /\ edges # <<>> /\ edges' = Tail(edges)
              /\ pc = "edges" /\ pc' = "edges"
              /\ UNCHANGED <<channel, txOpen, writer, job, queued, buf>>
              /\ cached' = cached \cup {PageOf(Head(edges)[1])}
              /\ file' = [u \in Units |-> file'[u]]
              /\ \A u \in Span(Head(edges)[1], Head(edges)[2]) : file'[u] = buf[u]
              /\ \A u \in Units : file'[u] \in {buf[u], 0, file[u]}
              /\ \A u \in Units \ Span(Head(edges)[1], Head(edges)[2]) :
                    PageOf(u) \in cached => file'[u] = file[u]
  <1> DEFINE us == Span(Head(edges)[1], Head(edges)[2])
             p == PageOf(Head(edges)[1])
             zeroed == ZeroFilled(p, us)
  <1>1. CASE /\ file' = [u \in Units |-> IF u \in us THEN buf[u] ELSE IF u \in zeroed THEN 0 ELSE file[u]]
             /\ cached' = cached \cup {p}
             /\ edges' = Tail(edges)
    <2>1. us \subseteq Units
      BY DEF Span
    <2>2. \A u \in Units : u \in zeroed => PageOf(u) = p /\ p \notin cached
      BY DEF ZeroFilled, UnitsOf
    <2> HIDE DEF us, p, zeroed
    <2>3. /\ \A u \in us : file'[u] = buf[u]
          /\ \A u \in Units : file'[u] \in {buf[u], 0, file[u]}
          /\ \A u \in Units \ us : PageOf(u) \in cached => file'[u] = file[u]
          /\ file' = [u \in Units |-> file'[u]]
      BY <1>1, <2>1, <2>2
    <2>4. /\ edges # <<>> /\ pc = "edges" /\ pc' = "edges"
          /\ UNCHANGED <<channel, txOpen, writer, job, queued, buf>>
      BY DEF WriteEdge, writerVars
    <2>. QED  BY <1>1, <2>3, <2>4 DEF us, p
  <1>2. CASE UNCHANGED <<file, cached, edges>>
    BY <1>2 DEF WriteEdge, writerVars, IoStays
  <1>. QED  BY <1>1, <1>2 DEF WriteEdge

LEMMA JobsStep ==
    ASSUME Layout, IInv, [Next]_vars
    PROVE  JobsInv'
  <1>1. JobsInv /\ TypeOK
    BY DEF IInv
  <1>2. CASE IoStays
    BY <1>1, <1>2 DEF IoStays, JobsInv, Elems, Whole, InOnePage, Span, PageOf
  <1>3. CASE DropSender
    BY <1>1, <1>3 DEF DropSender, writerVars, JobsInv, Elems, Whole, InOnePage, Span, PageOf
  <1>4. CASE Queues
    <2>1. PICK off \in Nat, end \in Nat : /\ off <= end /\ end <= BufLen
                                          /\ \E from, to : Queue(from, to, off, end)
      BY <1>4, QueuedRange
    <2>2. (\A b \in Elems(channel') : Whole(b)) /\ (\A e \in Elems(edges') : InOnePage(e))
      BY <2>1, QueueAdds
    <2>3. writer' = writer /\ job' = job
      BY <2>1 DEF Queue, writerVars
    <2>. QED  BY <1>1, <2>2, <2>3 DEF JobsInv, Elems, Whole, InOnePage, Span, PageOf
  <1>5. CASE WriteEdge
    <2>1. CASE edges # <<>> /\ edges' = Tail(edges) /\ UNCHANGED <<channel, writer, job>>
      <3>1. edges \in Seq(Units \X (1..Page))
        BY <1>1 DEF TypeOK
      <3>2. Elems(Tail(edges)) \subseteq Elems(edges)
        BY <2>1, <3>1, ElemsOfTail
      <3>3. \A e \in Elems(edges') : InOnePage(e)
        BY <1>1, <2>1, <3>2 DEF JobsInv
      <3>. QED  BY <1>1, <2>1, <3>3 DEF JobsInv, Elems, Whole, InOnePage, Span, PageOf
    <2>. QED  BY <1>2, <1>5, <2>1, WriteEdgeWrites
  <1>6. ASSUME NEW w \in Writers, Receive(w)
        PROVE  JobsInv'
    <2>0. writer[w] = "recv" /\ edges' = edges
      BY <1>6 DEF Receive
    <2>1. CASE /\ channel # <<>> /\ job' = [job EXCEPT ![w] = Head(channel)]
               /\ channel' = Tail(channel) /\ writer' = [writer EXCEPT ![w] = "write"]
      <3>1. channel \in Seq(Units \X (1..Block))
        BY <1>1 DEF TypeOK
      <3>2. Elems(channel) = {Head(channel)} \cup Elems(Tail(channel))
        BY <2>1, <3>1, ElemsOfTail
      <3>3. Whole(Head(channel)) /\ \A b \in Elems(channel') : Whole(b)
        BY <1>1, <2>1, <3>2 DEF JobsInv
      <3>4. \A v \in Writers : /\ writer'[v] = (IF v = w THEN "write" ELSE writer[v])
                               /\ job'[v] = (IF v = w THEN Head(channel) ELSE job[v])
        BY <1>1, <2>1 DEF TypeOK
      <3>5. \A v \in Writers :
               /\ writer'[v] # "fill"
               /\ writer'[v] \in {"write", "copy"} => Whole(job'[v])
               /\ writer'[v] \in {"recv", "ok", "err"} => job'[v] = NoJob
        BY <1>1, <3>3, <3>4 DEF JobsInv
      <3>. QED  BY <1>1, <2>0, <3>3, <3>5 DEF JobsInv, Elems, Whole, InOnePage, Span, PageOf, NoJob
    <2>2. CASE writer' = [writer EXCEPT ![w] = "ok"] /\ UNCHANGED <<job, channel>>
      <3>1. \A v \in Writers : writer'[v] = (IF v = w THEN "ok" ELSE writer[v])
        BY <1>1, <2>2 DEF TypeOK
      <3>2. \A v \in Writers :
               /\ writer'[v] # "fill"
               /\ writer'[v] \in {"write", "copy"} => Whole(job[v])
               /\ writer'[v] \in {"recv", "ok", "err"} => job[v] = NoJob
        BY <1>1, <2>0, <3>1 DEF JobsInv
      <3>. QED  BY <1>1, <2>0, <2>2, <3>2 DEF JobsInv, Elems, Whole, InOnePage, Span, PageOf, NoJob
    <2>. QED  BY <1>6, <2>1, <2>2 DEF Receive
  <1>7. ASSUME NEW w \in Writers, WriteStart(w) \/ WriteEnd(w) \/ WriteFails(w)
        PROVE  JobsInv'
    <2>0. channel' = channel /\ edges' = edges
      BY <1>7 DEF WriteStart, WriteEnd, WriteFails, queueVars
    <2>1. \/ job' = job /\ Whole(job[w]) /\ writer' = [writer EXCEPT ![w] = "copy"]
          \/ \E b : \/ b = NoJob /\ job' = [job EXCEPT ![w] = b] /\ writer' = [writer EXCEPT ![w] = "recv"]
                    \/ b = NoJob /\ job' = [job EXCEPT ![w] = b] /\ writer' = [writer EXCEPT ![w] = "err"]
                    \/ Whole(b) /\ job' = [job EXCEPT ![w] = b] /\ writer' = [writer EXCEPT ![w] = "write"]
      <3>1. CASE WriteStart(w)
        BY <3>1, WriteStartCopies DEF WriteStart
      <3>2. CASE WriteFails(w)
        BY <3>2 DEF WriteFails
      <3>3. CASE WriteEnd(w)
        BY <3>3, WriteEndWritesPage, RestIsWhole
      <3>. QED  BY <1>7, <3>1, <3>2, <3>3
    <2>2. \A v \in Writers :
             /\ writer'[v] # "fill"
             /\ writer'[v] \in {"write", "copy"} => Whole(job'[v])
             /\ writer'[v] \in {"recv", "ok", "err"} => job'[v] = NoJob
      BY <1>1, <2>1 DEF JobsInv, TypeOK
    <2>. QED  BY <1>1, <2>0, <2>2 DEF JobsInv, Elems, Whole, InOnePage, Span, PageOf, NoJob
  <1>. QED  BY <1>2, <1>3, <1>4, <1>5, <1>6, <1>7, IoStep

LEMMA EndStep ==
    ASSUME Layout, IInv, [Next]_vars
    PROVE  EndInv'
  <1> USE DEF Closing, Joined, Told
  <1>1. EndInv /\ TypeOK
    BY DEF IInv
  <1>2. CASE IoStays /\ (pc' = pc \/ (pc \notin Closing /\ pc' \notin Closing))
    BY <1>1, <1>2 DEF IoStays, EndInv
  <1>3. CASE \/ IoStays /\ pc = "join" /\ pc' = "edges" /\ \A w \in Writers : writer[w] = "ok"
             \/ IoStays /\ pc = "edges" /\ pc' = "notify" /\ edges = <<>>
             \/ IoStays /\ pc = "notify" /\ pc' = "post"
    BY <1>1, <1>3 DEF IoStays, EndInv
  <1>4. CASE DropSender
    BY <1>1, <1>4 DEF DropSender, writerVars, EndInv
  <1>5. CASE Queues
    BY <1>1, <1>5 DEF Queues, QueueBody, QueueSymtab, QueueHeader, QueueSignature, Queue, writerVars, EndInv
  <1>6. CASE WriteEdge
    BY <1>1, <1>2, <1>6, WriteEdgeWrites DEF EndInv
  <1>7. ASSUME NEW w \in Writers, Receive(w) \/ WriteStart(w) \/ WriteEnd(w) \/ WriteFails(w)
        PROVE  EndInv'
    <2>1. /\ pc' = pc /\ txOpen' = txOpen /\ edges' = edges
          /\ writer[w] # "ok"
          /\ \/ channel # <<>> \/ channel' = channel
          /\ \E x : /\ writer' = [writer EXCEPT ![w] = x]
                    /\ x = "ok" => channel = <<>> /\ channel' = channel /\ ~txOpen
      BY <1>7 DEF Receive, WriteStart, WriteEnd, WriteFails, queueVars
    <2>2. PICK x : /\ writer' = [writer EXCEPT ![w] = x]
                   /\ x = "ok" => channel = <<>> /\ channel' = channel /\ ~txOpen
      BY <2>1
    <2>3. \A v \in Writers : writer'[v] = (IF v = w THEN x ELSE writer[v])
      BY <1>1, <2>2 DEF TypeOK
    <2>4. pc \notin Joined
      BY <1>1, <2>1 DEF EndInv
    <2>5. \A v \in Writers : writer'[v] = "ok" => channel' = <<>> /\ pc \in Closing
      BY <1>1, <2>1, <2>2, <2>3 DEF EndInv
    <2>. QED  BY <1>1, <2>1, <2>4, <2>5 DEF EndInv
  <1>. QED  BY <1>2, <1>3, <1>4, <1>5, <1>6, <1>7, IoStep

LEMMA DataStep ==
    ASSUME Layout, IInv, [Next]_vars
    PROVE  DataInv'
  <1>1. DataInv /\ TypeOK /\ JobsInv /\ EndInv /\ QueuedInv
    BY DEF IInv
  <1>2. \A u \in queued : u \in Units /\ buf'[u] = buf[u]
    BY QueuedKept
  <1>3. DataInv <=> ((\A w \in Writers : writer[w] # "err") =>
                       \A u \in queued : Pending(u) \/ (file[u] = buf[u] /\ PageOf(u) \in cached))
    BY DEF DataInv
  <1>4. DataInv' <=> ((\A w \in Writers : writer'[w] # "err") =>
                       \A u \in queued' : Pending(u)' \/ (file'[u] = buf'[u] /\ PageOf(u) \in cached'))
    BY DEF DataInv, PageOf
  <1>5. \A u : Pending(u)' <=> \/ \E b \in Elems(channel') : u \in Span(b[1], b[2])
                               \/ \E w \in Writers : u \in Span(job'[w][1], job'[w][2])
                               \/ \E e \in Elems(edges') : u \in Span(e[1], e[2])
    BY DEF Pending, Elems, Span
  <1>6. CASE IoStays
    <2>1. /\ file' = file /\ cached' = cached /\ writer' = writer /\ queued' = queued
          /\ \A u : Pending(u)' <=> Pending(u)
      BY <1>5, <1>6 DEF IoStays, Pending
    <2>. QED  BY <1>1, <1>2, <1>3, <1>4, <2>1
  <1>7. CASE DropSender
    <2>1. /\ file' = file /\ cached' = cached /\ writer' = writer /\ queued' = queued
          /\ channel' = channel /\ edges' = edges /\ job' = job
      BY <1>7 DEF DropSender, dataVars, writerVars
    <2>2. \A u : Pending(u)' <=> Pending(u)
      BY <1>5, <2>1 DEF Pending
    <2>. QED  BY <1>1, <1>2, <1>3, <1>4, <2>1, <2>2
  <1>8. CASE Queues
    <2>1. PICK off \in Nat, end \in Nat : /\ off <= end /\ end <= BufLen
                                          /\ \E from, to : Queue(from, to, off, end)
      BY <1>8, QueuedRange
    <2>2. /\ Elems(edges) \subseteq Elems(edges') /\ Elems(channel) \subseteq Elems(channel')
          /\ \/ \A w \in Writers : writer[w] = "err"
             \/ \A u \in Span(off, end - off) :
                   \/ \E b \in Elems(channel') : u \in Span(b[1], b[2])
                   \/ \E e \in Elems(edges') : u \in Span(e[1], e[2])
      BY <2>1, QueueAdds
    <2>3. /\ writer' = writer /\ job' = job /\ file' = file /\ cached' = cached
          /\ queued' = queued \cup Span(off, end - off)
      BY <2>1 DEF Queue, writerVars, dataVars
    <2>4. 1 \in Writers
      BY LayoutTypes DEF Writers
    <2>5. \A u : Pending(u) => Pending(u)'
      BY <1>5, <2>2, <2>3 DEF Pending
    <2>6. (\A w \in Writers : writer[w] # "err") => \A u \in Span(off, end - off) : Pending(u)'
      BY <1>5, <2>2, <2>4
    <2>. QED  BY <1>1, <1>2, <1>3, <1>4, <2>3, <2>5, <2>6
  <1>9. CASE WriteEdge
    <2>1. CASE /\ edges # <<>> /\ edges' = Tail(edges) /\ pc = "edges"
               /\ UNCHANGED <<channel, writer, job, queued, buf>>
               /\ cached' = cached \cup {PageOf(Head(edges)[1])}
               /\ \A u \in Span(Head(edges)[1], Head(edges)[2]) : file'[u] = buf[u]
               /\ \A u \in Units \ Span(Head(edges)[1], Head(edges)[2]) :
                     PageOf(u) \in cached => file'[u] = file[u]
      <3>1. Elems(edges) = {Head(edges)} \cup Elems(Tail(edges))
        BY <1>1, <2>1, ElemsOfTail DEF TypeOK
      <3>2. \A u \in Span(Head(edges)[1], Head(edges)[2]) : PageOf(u) = PageOf(Head(edges)[1])
        BY <1>1, <3>1 DEF JobsInv, InOnePage
      <3>3. \A u : Pending(u) => Pending(u)' \/ u \in Span(Head(edges)[1], Head(edges)[2])
        BY <1>5, <2>1, <3>1 DEF Pending
      <3>4. ASSUME NEW u \in queued, Pending(u) \/ (file[u] = buf[u] /\ PageOf(u) \in cached)
            PROVE  Pending(u)' \/ (file'[u] = buf'[u] /\ PageOf(u) \in cached')
        BY <1>2, <2>1, <3>2, <3>3, <3>4
      <3>. QED  BY <1>1, <1>3, <1>4, <2>1, <3>4
    <2>. QED  BY <1>6, <1>9, <2>1, WriteEdgeWrites
  <1>10. ASSUME NEW w \in Writers, Receive(w)
         PROVE  DataInv'
    <2>1. writer[w] = "recv" /\ UNCHANGED <<file, cached, buf, queued, edges>>
      BY <1>10 DEF Receive, dataVars
    <2>2. job[w] = NoJob /\ \A u : u \notin Span(job[w][1], job[w][2])
      BY <1>1, <2>1, RangesApart DEF JobsInv, NoJob, Span
    <2>3. CASE /\ channel # <<>> /\ job' = [job EXCEPT ![w] = Head(channel)]
               /\ channel' = Tail(channel) /\ writer' = [writer EXCEPT ![w] = "write"]
      <3>1. Elems(channel) = {Head(channel)} \cup Elems(Tail(channel))
        BY <1>1, <2>3, ElemsOfTail DEF TypeOK
      <3>2. \A v \in Writers : /\ job'[v] = (IF v = w THEN Head(channel) ELSE job[v])
                               /\ writer'[v] = (IF v = w THEN "write" ELSE writer[v])
        BY <1>1, <2>3 DEF TypeOK
      <3>3. ASSUME NEW u, Pending(u)
            PROVE  Pending(u)'
        <4>1. CASE \E b \in Elems(channel) : u \in Span(b[1], b[2])
          BY <1>5, <2>3, <3>1, <3>2, <4>1
        <4>2. CASE \E v \in Writers : u \in Span(job[v][1], job[v][2])
          <5>1. PICK v \in Writers : u \in Span(job[v][1], job[v][2])
            BY <4>2
          <5>2. v # w
            BY <2>2, <5>1
          <5>. QED  BY <1>5, <3>2, <5>1, <5>2
        <4>3. CASE \E e \in Elems(edges) : u \in Span(e[1], e[2])
          BY <1>5, <2>1, <4>3
        <4>. QED  BY <3>3, <4>1, <4>2, <4>3 DEF Pending
      <3>4. (\A v \in Writers : writer'[v] # "err") => (\A v \in Writers : writer[v] # "err")
        BY <2>1, <3>2
      <3>. QED  BY <1>1, <1>3, <1>4, <2>1, <3>3, <3>4
    <2>4. CASE writer' = [writer EXCEPT ![w] = "ok"] /\ UNCHANGED <<job, channel>>
      <3>1. (\A v \in Writers : writer'[v] # "err") => (\A v \in Writers : writer[v] # "err")
        BY <1>1, <2>1, <2>4 DEF TypeOK
      <3>2. \A u : Pending(u)' <=> Pending(u)
        BY <1>5, <2>1, <2>4 DEF Pending
      <3>. QED  BY <1>1, <1>3, <1>4, <2>1, <3>1, <3>2
    <2>. QED  BY <1>10, <2>3, <2>4 DEF Receive
  <1>11. ASSUME NEW w \in Writers, WriteStart(w)
         PROVE  DataInv'
    <2>1. /\ writer[w] = "write" /\ writer' = [writer EXCEPT ![w] = "copy"]
          /\ UNCHANGED <<file, cached, buf, queued, edges, channel, job>>
      BY <1>11, WriteStartCopies DEF WriteStart, dataVars, queueVars
    <2>2. (\A v \in Writers : writer'[v] # "err") => (\A v \in Writers : writer[v] # "err")
      BY <1>1, <2>1 DEF TypeOK
    <2>3. \A u : Pending(u)' <=> Pending(u)
      BY <1>5, <2>1 DEF Pending
    <2>. QED  BY <1>1, <1>3, <1>4, <2>1, <2>2, <2>3
  <1>12. ASSUME NEW w \in Writers, WriteFails(w)
         PROVE  DataInv'
    <2>1. writer' = [writer EXCEPT ![w] = "err"]
      BY <1>12 DEF WriteFails
    <2>2. writer'[w] = "err"
      BY <1>1, <2>1 DEF TypeOK
    <2>. QED  BY <1>4, <2>2
  <1>13. ASSUME NEW w \in Writers, WriteEnd(w)
         PROVE  DataInv'
    <2> DEFINE p == PageOf(job[w][1])
    <2>1. /\ writer[w] = "copy" /\ Whole(job[w])
          /\ file' = [u \in Units |-> IF u \in UnitsOf(p) THEN buf[u] ELSE file[u]]
          /\ cached' = cached \cup {p}
          /\ \/ /\ job[w][2] = Page
                /\ job' = [job EXCEPT ![w] = NoJob] /\ writer' = [writer EXCEPT ![w] = "recv"]
             \/ /\ job[w][2] > Page
                /\ job' = [job EXCEPT ![w] = <<job[w][1] + Page, job[w][2] - Page>>]
                /\ writer' = [writer EXCEPT ![w] = "write"]
      BY <1>13, WriteEndWritesPage
    <2>2. UNCHANGED <<buf, queued, edges, channel>>
      BY <1>13 DEF WriteEnd, queueVars
    <2>3. /\ job[w][1] \in Nat /\ job[w][2] \in Nat /\ Page \in Nat
          /\ Span(job[w][1], Page) = UnitsOf(p)
      BY <2>1, ChunkIsPage, LayoutTypes
    <2>4. (\A v \in Writers : writer'[v] # "err") => (\A v \in Writers : writer[v] # "err")
      BY <1>1, <2>1 DEF TypeOK
    <2>5. \A v \in Writers : v # w => job'[v] = job[v]
      BY <1>1, <2>1 DEF TypeOK
    <2>6. ASSUME NEW u \in Span(job[w][1], job[w][2]), u \notin UnitsOf(p)
          PROVE  u \in Span(job'[w][1], job'[w][2])
      <3>1. /\ u \in Units /\ u \in Nat /\ job[w][1] <= u /\ u < job[w][1] + job[w][2]
            /\ ~(u < job[w][1] + Page)
        BY <2>3, <2>6, RangesApart DEF Span
      <3>2. job[w][2] # Page
        BY <2>3, <3>1
      <3>3. job'[w] = <<job[w][1] + Page, job[w][2] - Page>>
        BY <1>1, <2>1, <3>2 DEF TypeOK
      <3>4. job'[w][1] = job[w][1] + Page /\ job'[w][2] = job[w][2] - Page
        BY <3>3
      <3>. QED  BY <2>3, <3>1, <3>4 DEF Span
    <2>7. ASSUME NEW u, Pending(u), u \notin UnitsOf(p)
          PROVE  Pending(u)'
      <3>1. CASE \E v \in Writers : u \in Span(job[v][1], job[v][2])
        <4>1. PICK v \in Writers : u \in Span(job[v][1], job[v][2])
          BY <3>1
        <4>2. u \in Span(job'[v][1], job'[v][2])
          <5>1. CASE v = w
            BY <2>6, <2>7, <4>1, <5>1
          <5>2. CASE v # w
            BY <2>5, <4>1, <5>2
          <5>. QED  BY <5>1, <5>2
        <4>. QED  BY <1>5, <4>2
      <3>. QED  BY <1>5, <2>2, <2>7, <3>1 DEF Pending
    <2>8. ASSUME NEW u \in queued, Pending(u) \/ (file[u] = buf[u] /\ PageOf(u) \in cached)
          PROVE  Pending(u)' \/ (file'[u] = buf'[u] /\ PageOf(u) \in cached')
      <3>1. CASE u \in UnitsOf(p)
        BY <1>2, <2>1, <2>2, <3>1 DEF UnitsOf
      <3>2. CASE u \notin UnitsOf(p)
        <4>1. file'[u] = file[u]
          BY <1>2, <2>1, <3>2
        <4>. QED  BY <2>1, <2>2, <2>7, <2>8, <3>2, <4>1
      <3>. QED  BY <3>1, <3>2
    <2>. QED  BY <1>1, <1>3, <1>4, <2>2, <2>4, <2>8
  <1>. QED  BY <1>6, <1>7, <1>8, <1>9, <1>10, <1>11, <1>12, <1>13, IoStep

-----------------------------------------------------------------------------
(***************************************************************************)
(* The threads, the path and the two processes.                            *)
(***************************************************************************)

Ways == {"signal", "exit", "panic"}

\* Every step leaves the threads and the path alone, or starts or carries on a
\* thread's death, or opens or forgets the path.
LEMMA ThreadStep ==
    ASSUME [Next]_vars
    PROVE  \/ /\ UNCHANGED <<dying, how, registered, disk, created, child>>
              /\ \/ pc' = pc
                 \/ pc \notin {"link"} \cup Told /\ pc' \notin {"link"} \cup Told /\ child = "run"
                 \/ pc = "notify" /\ pc' = "post" /\ child = "run"
           \/ /\ \E t \in Threads : dying[t] = "no" /\ \E way \in Ways : StartDying(t, way)
              /\ UNCHANGED <<pc, registered, created, child>> /\ child = "run"
              /\ disk' = disk \/ (pc = "link" /\ disk' = "absent")
           \/ Open \/ ForgetPath \/ Finish
           \/ \E t \in Threads : CleanupSwap(t) \/ CleanupUnlink(t) \/ Die(t)
  <1> USE DEF fileVars, procVars, threadVars, Runs, Ways
  <1>0. Main \in Threads /\ Tasks \subseteq Threads
    BY DEF Threads
  <1>1. CASE LinkFails \/ CheckpointFails \/ MainCrashes
    BY <1>0, <1>1 DEF LinkFails, CheckpointFails, MainCrashes
  <1>2. CASE OpenFails
    BY <1>0, <1>2 DEF OpenFails
  <1>3. CASE SetLen
    BY <1>0, <1>3 DEF SetLen, Told
  <1>4. CASE JoinWriters
    BY <1>0, <1>4 DEF JoinWriters, Told
  <1>5. CASE WriteEdge
    BY <1>0, <1>5 DEF WriteEdge
  <1>6. CASE JoinTasks \/ Checkpoint \/ WriteTraceFiles \/ DropSender \/ NotifyParent
    BY <1>6 DEF JoinTasks, Checkpoint, WriteTraceFiles, DropSender, NotifyParent, Told
  <1>7. CASE Passes
    BY <1>7 DEF Passes, WriteFixups, CopySymtab, WriteMachHeader, ComputeUuid, WriteCodeSignature, Pass, Told
  <1>8. CASE Queues
    BY <1>8 DEF Queues, QueueBody, QueueSymtab, QueueHeader, QueueSignature, Queue, Told
  <1>9. CASE TaskSteps
    BY <1>0, <1>9 DEF TaskSteps, CopyBuf, TaskDies
  <1>10. CASE (\E w \in Writers : WriterSteps(w)) \/ ParentSteps \/ Ended \/ UNCHANGED vars
    BY <1>10 DEF WriterSteps, Receive, WriteStart, WriteEnd, WriteFails, ParentSteps, ReadByte, WaitPid,
       Ended, vars
  <1>. QED
    BY <1>1, <1>2, <1>3, <1>4, <1>5, <1>6, <1>7, <1>8, <1>9, <1>10
       DEF Next, MainSteps, DyingSteps, Passes, Queues

\* Every step leaves the two processes' answers alone, or is the byte, the end
\* of the child or the answer of the parent.
LEMMA ProcStep ==
    ASSUME [Next]_vars
    PROVE  \/ /\ UNCHANGED <<child, notified, ignored, parent>>
              /\ pc' = pc \/ (pc # "post" /\ pc' # "post")
           \/ NotifyParent \/ Finish \/ ReadByte \/ WaitPid
           \/ \E t \in Threads : Die(t)
  <1> USE DEF procVars
  <1>1. CASE LinkFails \/ OpenFails \/ CheckpointFails \/ MainCrashes \/ WriteEdge \/ Open \/ SetLen
             \/ JoinWriters
    BY <1>1 DEF LinkFails, OpenFails, CheckpointFails, MainCrashes, WriteEdge, Open, SetLen, JoinWriters
  <1>2. CASE JoinTasks \/ Checkpoint \/ WriteTraceFiles \/ DropSender \/ ForgetPath
    BY <1>2 DEF JoinTasks, Checkpoint, WriteTraceFiles, DropSender, ForgetPath
  <1>3. CASE Passes
    BY <1>3 DEF Passes, WriteFixups, CopySymtab, WriteMachHeader, ComputeUuid, WriteCodeSignature, Pass
  <1>4. CASE Queues
    BY <1>4 DEF Queues, QueueBody, QueueSymtab, QueueHeader, QueueSignature, Queue
  <1>5. CASE TaskSteps
    BY <1>5 DEF TaskSteps, CopyBuf, TaskDies
  <1>6. CASE \E t \in Threads : CleanupSwap(t) \/ CleanupUnlink(t)
    BY <1>6 DEF CleanupSwap, CleanupUnlink
  <1>7. CASE (\E w \in Writers : WriterSteps(w)) \/ Ended \/ UNCHANGED vars
    BY <1>7 DEF WriterSteps, Receive, WriteStart, WriteEnd, WriteFails, Ended, vars
  <1>. QED
    BY <1>1, <1>2, <1>3, <1>4, <1>5, <1>6, <1>7 DEF Next, MainSteps, DyingSteps, ParentSteps, Passes, Queues

LEMMA ToldStep ==
    ASSUME IInv, [Next]_vars
    PROVE  ToldInv'
  <1>1. ToldInv /\ TypeOK
    BY DEF IInv
  <1>2. CASE \E t \in Threads : Die(t)
    <2>1. PICK t \in Threads : Die(t)
      BY <1>2
    <2>2. UNCHANGED <<pc, notified, parent>>
      BY <2>1 DEF Die
    <2>3. how[t] \in {"signal", "exit", "panic"}
      BY <1>1 DEF TypeOK
    <2>4. child' # "exit0"
      BY <2>1, <2>3, Zenon DEF Die
    <2>. QED  BY <1>1, <2>2, <2>4 DEF ToldInv
  <1>3. CASE NotifyParent \/ Finish \/ ReadByte \/ WaitPid
    BY <1>1, <1>3 DEF NotifyParent, Finish, ReadByte, WaitPid, ToldInv, TypeOK
  <1>. QED  BY <1>1, <1>2, <1>3, ProcStep DEF ToldInv

LEMMA PathStep ==
    ASSUME IInv, [Next]_vars
    PROVE  PathInv'
  <1> USE DEF Told
  <1>1. PathInv /\ dying \in [Threads -> {"no", "cleanup", "unlink", "die"}]
        /\ registered \in BOOLEAN /\ created \in BOOLEAN
        /\ disk \in {"absent", "old", "kept", "device", "ours"}
    BY DEF IInv, TypeOK
  <1>2. CASE /\ UNCHANGED <<dying, how, registered, disk, created, child>>
             /\ \/ pc' = pc
                \/ pc \notin {"link"} \cup Told /\ pc' \notin {"link"} \cup Told
                \/ pc = "notify" /\ pc' = "post"
    BY <1>1, <1>2 DEF PathInv
  <1>3. CASE /\ \E t \in Threads : dying[t] = "no" /\ \E way \in Ways : StartDying(t, way)
             /\ UNCHANGED <<pc, registered, created, child>>
             /\ disk' = disk \/ (pc = "link" /\ disk' = "absent")
    <2>1. PICK t \in Threads : dying[t] = "no" /\ dying' = [dying EXCEPT ![t] = "cleanup"]
      BY <1>3 DEF StartDying
    <2>2. \A u \in Threads : /\ dying'[u] = "unlink" <=> dying[u] = "unlink"
                             /\ dying'[u] = "die" <=> dying[u] = "die"
      BY <1>1, <2>1
    <2>. QED  BY <1>1, <1>3, <2>2 DEF PathInv
  <1>4. CASE Open
    <2>1. /\ pc = "link" /\ pc' = "setlen" /\ dying' = dying /\ dying[Main] = "no"
          /\ created' = (disk \in {"absent", "old"})
          /\ disk' = (IF disk \in {"absent", "old"} THEN "ours" ELSE disk)
          /\ registered' = created'
      BY <1>4 DEF Open, Runs, threadVars
    <2>2. \A t \in Threads : dying[t] \notin {"unlink", "die"}
      BY <1>1, <1>4, <2>1 DEF IInv, TasksInv, Threads, PathInv
    <2>3. CASE disk \in {"absent", "old"}
      <3>1. created' = TRUE /\ registered' = TRUE /\ disk' = "ours"
        BY <2>1, <2>3
      <3>. QED  BY <2>1, <2>2, <3>1 DEF PathInv
    <2>4. CASE disk \notin {"absent", "old"}
      <3>1. created' = FALSE /\ registered' = FALSE /\ disk' \in {"kept", "device"}
        BY <1>1, <2>1, <2>4 DEF PathInv, TypeOK
      <3>. QED  BY <2>1, <2>2, <3>1 DEF PathInv
    <2>. QED  BY <2>3, <2>4
  <1>5. CASE ForgetPath
    <2>1. /\ pc = "edges" /\ pc' = "notify" /\ dying' = dying /\ dying[Main] = "no"
          /\ registered' = FALSE /\ UNCHANGED <<disk, created>>
      BY <1>5 DEF ForgetPath, Runs, threadVars
    <2>2. \A t \in Threads : dying[t] = "no"
      BY <2>1 DEF IInv, TasksInv, Threads
    <2>. QED  BY <1>1, <2>1, <2>2 DEF PathInv
  <1>6. CASE Finish
    BY <1>1, <1>6 DEF Finish, fileVars, threadVars, PathInv
  <1>7. ASSUME NEW t \in Threads, CleanupSwap(t)
        PROVE  PathInv'
    <2>1. /\ dying[t] = "cleanup" /\ registered' = FALSE /\ UNCHANGED <<pc, disk, created>>
          /\ dying' = [dying EXCEPT ![t] = IF registered THEN "unlink" ELSE "die"]
      BY <1>7 DEF CleanupSwap
    <2>2. \A u \in Threads : dying'[u] = IF u = t THEN (IF registered THEN "unlink" ELSE "die") ELSE dying[u]
      BY <1>1, <2>1
    <2>. QED  BY <1>1, <2>1, <2>2 DEF PathInv
  <1>8. ASSUME NEW t \in Threads, CleanupUnlink(t)
        PROVE  PathInv'
    <2>1. /\ dying[t] = "unlink" /\ UNCHANGED <<pc, registered, created>>
          /\ disk' = (IF disk = "kept" THEN disk ELSE "absent")
          /\ dying' = [dying EXCEPT ![t] = "die"]
      BY <1>8 DEF CleanupUnlink
    <2>2. \A u \in Threads : dying'[u] = IF u = t THEN "die" ELSE dying[u]
      BY <1>1, <2>1
    <2>. QED  BY <1>1, <2>1, <2>2 DEF PathInv
  <1>9. ASSUME NEW t \in Threads, Die(t)
        PROVE  PathInv'
    <2>1. UNCHANGED <<pc, dying, registered, disk, created>>
      BY <1>9 DEF Die, threadVars, fileVars
    <2>. QED  BY <1>1, <2>1 DEF PathInv
  <1>. QED  BY <1>2, <1>3, <1>4, <1>5, <1>6, <1>7, <1>8, <1>9, ThreadStep

-----------------------------------------------------------------------------
(***************************************************************************)
(* Types.                                                                  *)
(***************************************************************************)

Places == {"link", "setlen", "copy", "check1", "fixups", "queueBody", "symtab", "queueSymtab", "header",
           "uuid", "queueHeader", "sign", "queueSig", "check2", "traces", "check3", "close", "join",
           "edges", "notify", "post"}

LEMMA LinkTypes ==
    ASSUME Layout, IInv, [Next]_vars
    PROVE  /\ pc' \in Places /\ task' \in [Tasks -> {"run", "done"}]
           /\ buf' \in [Units -> 0..2] /\ queued' \subseteq Units
  <1>1. /\ pc \in Places /\ task \in [Tasks -> {"run", "done"}]
        /\ buf \in [Units -> 0..2]
    BY DEF IInv, TypeOK, Places
  <1>2. queued' \subseteq Units
    BY QueuedStep DEF QueuedInv
  <1>3. pc' \in Places /\ task' \in [Tasks -> {"run", "done"}] /\ DOMAIN buf' = Units
    <2>1. CASE LinkStays \/ Moves
      BY <1>1, <2>1 DEF LinkStays, Moves, LinkMoves, Places
    <2>2. CASE Passes
      BY <1>1, <2>2 DEF Passes, WriteFixups, CopySymtab, WriteMachHeader, ComputeUuid,
         WriteCodeSignature, Pass, threadVars, Places
    <2>3. CASE Queues
      BY <1>1, <2>3 DEF Queues, QueueBody, QueueSymtab, QueueHeader, QueueSignature, Queue, threadVars, Places
    <2>4. CASE \E t \in Tasks : CopyBuf(t)
      BY <1>1, <2>4 DEF CopyBuf
    <2>. QED  BY <2>1, <2>2, <2>3, <2>4, LinkStep
  <1>4. ASSUME NEW u \in Units
        PROVE  buf'[u] \in 0..2
    <2>1. Passed(u)'
      BY BufStep DEF BufInv
    <2>2. InHeader(u) \/ InBody(u) \/ InSymtab(u) \/ InSignature(u)
      BY RangesApart
    <2>3. pc' \in {"link", "setlen", "copy", "check1", "fixups"} \cup Fixed
      BY <1>3 DEF Places, Fixed, BodyQueued, SymtabCopied, SymtabQueued, Hashed, HeaderQueued, Signed,
         AllQueued, Closing, Joined, Told
    <2>4. CASE InBody(u)
      BY <2>1, <2>3, <2>4 DEF Passed, InBody
    <2>5. CASE InHeader(u)
      BY <2>1, <2>5 DEF Passed, InHeader
    <2>6. CASE InSymtab(u)
      BY <2>1, <2>6 DEF Passed, InSymtab
    <2>7. CASE InSignature(u)
      BY <2>1, <2>7 DEF Passed, InSignature
    <2>. QED  BY <2>2, <2>4, <2>5, <2>6, <2>7
  <1>5. buf' \in [Units -> 0..2]
    <2>1. buf' = [u \in Units |-> buf'[u]]
      <3>1. CASE buf' = buf
        BY <1>1, <3>1
      <3>2. CASE Passes
        BY <3>2 DEF Passes, WriteFixups, CopySymtab, WriteMachHeader, ComputeUuid, WriteCodeSignature, Pass
      <3>3. CASE \E t \in Tasks : CopyBuf(t)
        BY <3>3 DEF CopyBuf
      <3>. QED  BY <3>1, <3>2, <3>3, LinkStep DEF LinkStays, Moves, LinkMoves, Queues, QueueBody,
                   QueueSymtab, QueueHeader, QueueSignature, Queue
    <2>. QED  BY <1>4, <2>1
  <1>. QED  BY <1>2, <1>3, <1>5

LEMMA IoTypes ==
    ASSUME Layout, IInv, [Next]_vars
    PROVE  /\ file' \in [Units -> 0..2] /\ cached' \subseteq Pages
           /\ edges' \in Seq(Units \X (1..Page)) /\ channel' \in Seq(Units \X (1..Block))
           /\ txOpen' \in BOOLEAN
           /\ writer' \in [Writers -> {"recv", "write", "copy", "fill", "ok", "err"}]
           /\ job' \in [Writers -> Units \X (0..Block)]
  <1> DEFINE Io == /\ file \in [Units -> 0..2] /\ cached \subseteq Pages
                   /\ edges \in Seq(Units \X (1..Page)) /\ channel \in Seq(Units \X (1..Block))
                   /\ txOpen \in BOOLEAN
                   /\ writer \in [Writers -> {"recv", "write", "copy", "fill", "ok", "err"}]
                   /\ job \in [Writers -> Units \X (0..Block)]
  <1>1. Io /\ buf \in [Units -> 0..2] /\ JobsInv
    BY DEF IInv, TypeOK
  <1>2. NoJob \in Units \X (0..Block)
    BY LayoutTypes DEF NoJob, Units
  <1>3. CASE IoStays
    BY <1>1, <1>3 DEF IoStays
  <1>4. CASE DropSender
    BY <1>1, <1>4 DEF DropSender, dataVars, writerVars
  <1>5. CASE Queues
    <2>1. PICK off \in Nat, end \in Nat : /\ off <= end /\ end <= BufLen
                                          /\ \E from, to : Queue(from, to, off, end)
      BY <1>5, QueuedRange
    <2>2. edges' \in Seq(Units \X (1..Page)) /\ channel' \in Seq(Units \X (1..Block))
      BY <2>1, QueueAdds
    <2>3. UNCHANGED <<file, cached, txOpen, writer, job>>
      BY <2>1 DEF Queue, writerVars, dataVars
    <2>. QED  BY <1>1, <2>2, <2>3
  <1>6. CASE WriteEdge
    <2>1. CASE /\ edges # <<>> /\ edges' = Tail(edges)
               /\ UNCHANGED <<channel, txOpen, writer, job>>
               /\ cached' = cached \cup {PageOf(Head(edges)[1])}
               /\ file' = [u \in Units |-> file'[u]]
               /\ \A u \in Units : file'[u] \in {buf[u], 0, file[u]}
      <3>1. Tail(edges) \in Seq(Units \X (1..Page)) /\ Head(edges) \in Units \X (1..Page)
        BY <1>1, <2>1, ElemsOfTail
      <3>2. PageOf(Head(edges)[1]) \in Pages
        BY <3>1, PageOfUnit
      <3>3. file' \in [Units -> 0..2]
        <4>1. \A u \in Units : buf[u] \in 0..2 /\ file[u] \in 0..2 /\ 0 \in 0..2
          BY <1>1
        <4>2. \A u \in Units : file'[u] \in 0..2
          BY <2>1, <4>1
        <4>. QED  BY <2>1, <4>2
      <3>. QED  BY <1>1, <2>1, <3>1, <3>2, <3>3
    <2>. QED  BY <1>3, <1>6, <2>1, WriteEdgeWrites
  <1>7. ASSUME NEW w \in Writers, Receive(w)
        PROVE  Io'
    <2>1. UNCHANGED <<file, cached, edges, txOpen>>
      BY <1>7 DEF Receive, dataVars
    <2>2. CASE /\ channel # <<>> /\ job' = [job EXCEPT ![w] = Head(channel)]
               /\ channel' = Tail(channel) /\ writer' = [writer EXCEPT ![w] = "write"]
      <3>1. Tail(channel) \in Seq(Units \X (1..Block)) /\ Head(channel) \in Units \X (1..Block)
        BY <1>1, <2>2, ElemsOfTail
      <3>2. Head(channel) \in Units \X (0..Block)
        BY <3>1, LayoutTypes
      <3>. QED  BY <1>1, <2>1, <2>2, <3>1, <3>2
    <2>3. CASE writer' = [writer EXCEPT ![w] = "ok"] /\ UNCHANGED <<job, channel>>
      BY <1>1, <2>1, <2>3
    <2>. QED  BY <1>7, <2>2, <2>3 DEF Receive
  <1>8. ASSUME NEW w \in Writers, WriteStart(w)
        PROVE  Io'
    <2>1. /\ writer' = [writer EXCEPT ![w] = "copy"]
          /\ UNCHANGED <<file, cached, edges, channel, txOpen, job>>
      BY <1>8, WriteStartCopies DEF WriteStart, dataVars, queueVars
    <2>. QED  BY <1>1, <2>1
  <1>9. ASSUME NEW w \in Writers, WriteFails(w)
        PROVE  Io'
    <2>1. /\ writer' = [writer EXCEPT ![w] = "err"] /\ job' = [job EXCEPT ![w] = NoJob]
          /\ UNCHANGED <<file, cached, edges, channel, txOpen>>
      BY <1>9 DEF WriteFails, dataVars, queueVars
    <2>. QED  BY <1>1, <1>2, <2>1
  <1>10. ASSUME NEW w \in Writers, WriteEnd(w)
         PROVE  Io'
    <2>1. UNCHANGED <<edges, channel, txOpen>>
      BY <1>10 DEF WriteEnd, queueVars
    <2>2. /\ Whole(job[w])
          /\ file' = [u \in Units |-> IF u \in UnitsOf(PageOf(job[w][1])) THEN buf[u] ELSE file[u]]
          /\ cached' = cached \cup {PageOf(job[w][1])}
          /\ \/ /\ job[w][2] = Page
                /\ job' = [job EXCEPT ![w] = NoJob] /\ writer' = [writer EXCEPT ![w] = "recv"]
             \/ /\ job[w][2] > Page
                /\ job' = [job EXCEPT ![w] = <<job[w][1] + Page, job[w][2] - Page>>]
                /\ writer' = [writer EXCEPT ![w] = "write"]
      BY <1>10, WriteEndWritesPage
    <2>3. job[w][2] > Page => <<job[w][1] + Page, job[w][2] - Page>> \in Units \X (0..Block)
      BY <2>2, RestIsWhole
    <2>4. PageOf(job[w][1]) \in Pages
      BY <1>1, PageOfUnit
    <2>. QED  BY <1>1, <1>2, <2>1, <2>2, <2>3, <2>4
  <1>. QED  BY <1>3, <1>4, <1>5, <1>6, <1>7, <1>8, <1>9, <1>10, IoStep

LEMMA ThreadTypes ==
    ASSUME IInv, [Next]_vars
    PROVE  /\ dying' \in [Threads -> {"no", "cleanup", "unlink", "die"}]
           /\ how' \in [Threads -> {"signal", "exit", "panic"}]
           /\ registered' \in BOOLEAN /\ created' \in BOOLEAN
           /\ disk' \in {"absent", "old", "kept", "device", "ours"}
  <1>1. /\ dying \in [Threads -> {"no", "cleanup", "unlink", "die"}]
        /\ how \in [Threads -> {"signal", "exit", "panic"}]
        /\ registered \in BOOLEAN /\ created \in BOOLEAN
        /\ disk \in {"absent", "old", "kept", "device", "ours"}
    BY DEF IInv, TypeOK
  <1>2. CASE UNCHANGED <<dying, how, registered, disk, created>>
    BY <1>1, <1>2
  <1>3. CASE /\ \E t \in Threads : dying[t] = "no" /\ \E way \in Ways : StartDying(t, way)
             /\ UNCHANGED <<registered, created>>
             /\ disk' = disk \/ disk' = "absent"
    BY <1>1, <1>3 DEF StartDying, Ways
  <1>4. CASE Open
    <2>1. created' = (disk \in {"absent", "old"}) /\ registered' = created' /\ dying' = dying /\ how' = how
          /\ disk' = IF disk \in {"absent", "old"} THEN "ours" ELSE disk
      BY <1>4 DEF Open, threadVars
    <2>2. created' \in BOOLEAN
      BY <2>1
    <2>. QED  BY <1>1, <2>1, <2>2
  <1>5. CASE ForgetPath \/ Finish
    BY <1>1, <1>5 DEF ForgetPath, Finish, threadVars, fileVars
  <1>6. CASE \E t \in Threads : CleanupSwap(t) \/ CleanupUnlink(t)
    BY <1>1, <1>6 DEF CleanupSwap, CleanupUnlink
  <1>7. CASE \E t \in Threads : Die(t)
    <2>1. UNCHANGED <<dying, how, registered, disk, created>>
      BY <1>7, Zenon DEF Die, threadVars, fileVars
    <2>. QED  BY <1>2, <2>1
  <1>. QED  BY <1>2, <1>3, <1>4, <1>5, <1>6, <1>7, ThreadStep

LEMMA ProcTypes ==
    ASSUME IInv, [Next]_vars
    PROVE  /\ child' \in {"run", "exit0", "exit1", "signal", "abort"}
           /\ notified' \in BOOLEAN /\ ignored' \in BOOLEAN
           /\ parent' \in {"wait", "exit0", "exit1", "signal", "abort"}
  <1>1. /\ child \in {"run", "exit0", "exit1", "signal", "abort"}
        /\ notified \in BOOLEAN /\ ignored \in BOOLEAN
        /\ parent \in {"wait", "exit0", "exit1", "signal", "abort"}
        /\ how \in [Threads -> {"signal", "exit", "panic"}]
    BY DEF IInv, TypeOK
  <1>2. CASE UNCHANGED <<child, notified, ignored, parent>>
    BY <1>1, <1>2
  <1>3. CASE NotifyParent \/ Finish \/ ReadByte \/ WaitPid
    BY <1>1, <1>3 DEF NotifyParent, Finish, ReadByte, WaitPid
  <1>4. CASE \E t \in Threads : Die(t)
    <2>1. PICK t \in Threads : Die(t)
      BY <1>4
    <2>2. how[t] \in {"signal", "exit", "panic"}
      BY <1>1
    <2>3. child' \in {"run", "exit0", "exit1", "signal", "abort"}
      BY <2>1, <2>2, Zenon DEF Die
    <2>4. UNCHANGED <<notified, ignored, parent>>
      BY <2>1 DEF Die
    <2>. QED  BY <1>1, <2>3, <2>4
  <1>. QED  BY <1>2, <1>3, <1>4, ProcStep

LEMMA ErrorType ==
    ASSUME IInv, [Next]_vars
    PROVE  hasError' \in BOOLEAN
  <1>1. hasError \in BOOLEAN
    BY DEF IInv, TypeOK
  <1>2. hasError' = hasError \/ hasError' = TRUE
    <2>1. CASE MainSteps
      BY <2>1 DEF MainSteps, LinkFails, OpenFails, Open, SetLen, JoinTasks, Checkpoint, CheckpointFails,
         WriteFixups, QueueBody, CopySymtab, QueueSymtab, WriteMachHeader, ComputeUuid, QueueHeader,
         WriteCodeSignature, QueueSignature, WriteTraceFiles, DropSender, JoinWriters, WriteEdge,
         ForgetPath, NotifyParent, Finish, Queue
    <2>2. CASE TaskSteps \/ MainCrashes
      BY <2>2 DEF TaskSteps, CopyBuf, TaskDies, MainCrashes
    <2>3. CASE DyingSteps
      BY <2>3 DEF DyingSteps, CleanupSwap, CleanupUnlink, Die
    <2>4. CASE (\E w \in Writers : WriterSteps(w)) \/ ParentSteps \/ Ended \/ UNCHANGED vars
      BY <2>4 DEF WriterSteps, Receive, WriteStart, WriteEnd, WriteFails, ParentSteps, ReadByte, WaitPid,
         Ended, vars
    <2>. QED  BY <2>1, <2>2, <2>3, <2>4 DEF Next
  <1>. QED  BY <1>1, <1>2

LEMMA TypeStep ==
    ASSUME Layout, IInv, [Next]_vars
    PROVE  TypeOK'
  BY LinkTypes, IoTypes, ThreadTypes, ProcTypes, ErrorType, Zenon
     DEF TypeOK, Places, Threads, Writers, Units, Pages

-----------------------------------------------------------------------------
(***************************************************************************)
(* The theorems.                                                           *)
(***************************************************************************)
LEMMA InvariantInit ==
    ASSUME Layout, Init
    PROVE  IInv
  <1> USE DEF Init
  <1>1. TypeOK
    <2>1. NoJob \in Units \X (0..Block)
      BY LayoutTypes DEF NoJob, Units
    <2>2. /\ task \in [Tasks -> {"run", "done"}]
          /\ dying \in [Threads -> {"no", "cleanup", "unlink", "die"}]
          /\ how \in [Threads -> {"signal", "exit", "panic"}]
          /\ disk \in {"absent", "old", "kept", "device", "ours"}
          /\ file \in [Units -> 0..2] /\ buf \in [Units -> 0..2]
          /\ edges \in Seq(Units \X (1..Page)) /\ channel \in Seq(Units \X (1..Block))
          /\ writer \in [Writers -> {"recv", "write", "copy", "fill", "ok", "err"}]
          /\ job \in [Writers -> Units \X (0..Block)]
      BY <2>1
    <2>. QED  BY <2>2 DEF TypeOK
  <1> USE DEF Copied, Fixed, BodyQueued, SymtabCopied, SymtabQueued, Hashed, HeaderQueued, Signed,
              AllQueued, Closing, Joined, Told
  <1>2. BufInv /\ QueuedInv
    BY DEF BufInv, Passed, QueuedInv
  <1>3. TasksInv
    BY DEF TasksInv, Threads
  <1>4. JobsInv
    <2>1. Elems(<<>>) = {}
      BY DEF Elems
    <2>. QED  BY <2>1 DEF JobsInv
  <1>5. EndInv /\ DataInv /\ HashInv
    BY DEF EndInv, DataInv, HashInv
  <1>6. PathInv /\ ToldInv
    BY DEF PathInv, ToldInv
  <1>. QED  BY <1>1, <1>2, <1>3, <1>4, <1>5, <1>6 DEF IInv

LEMMA InvariantStep ==
    ASSUME Layout, IInv, [Next]_vars
    PROVE  IInv'
  BY TypeStep, BufStep, QueuedStep, TasksStep, JobsStep, EndStep, DataStep, HashStep, PathStep, ToldStep
     DEF IInv

\* When link gets past close(), the file is the finished image, with the
\* hashes of its own pages.
LEMMA ClosedIsComplete ==
    ASSUME Layout, IInv, pc \in Told
    PROVE  Complete
  <1> USE DEF Copied, Fixed, BodyQueued, SymtabCopied, SymtabQueued, Hashed, HeaderQueued, Signed,
              AllQueued, Closing, Joined, Told
  <1>1. \A w \in Writers : writer[w] = "ok" /\ job[w] = NoJob /\ channel = <<>>
    BY DEF IInv, EndInv, JobsInv
  <1>2. edges = <<>> /\ channel = <<>>
    <2>1. 1 \in Writers
      BY LayoutTypes DEF Writers
    <2>. QED  BY <1>1, <2>1 DEF IInv, EndInv
  <1>3. ASSUME NEW u \in Units
        PROVE  ~Pending(u)
    <2>1. Elems(<<>>) = {}
      BY DEF Elems
    <2>2. u \notin Span(NoJob[1], NoJob[2])
      BY RangesApart DEF Span, NoJob
    <2>. QED  BY <1>1, <1>2, <2>1, <2>2 DEF Pending
  <1>4. ASSUME NEW u \in Units
        PROVE  file[u] = Final[u]
    <2>1. InHeader(u) \/ InBody(u) \/ InSymtab(u) \/ InSignature(u)
      BY RangesApart
    <2>2. u \in queued
      BY <2>1 DEF IInv, QueuedInv
    <2>3. file[u] = buf[u]
      BY <1>1, <1>3, <2>2 DEF IInv, DataInv
    <2>4. Passed(u)
      BY DEF IInv, BufInv
    <2>5. buf[u] = Final[u]
      BY <2>1, <2>4, RangesApart, LayoutTypes
         DEF Passed, Final, InHeader, InBody, InSymtab, InSignature
    <2>. QED  BY <2>3, <2>5
  <1>5. file = Final
    <2>1. file \in [Units -> 0..2]
      BY DEF IInv, TypeOK
    <2>2. file = [u \in Units |-> file[u]]
      BY <2>1
    <2>3. Final = [u \in Units |-> Final[u]]
      BY DEF Final
    <2>. QED  BY <1>4, <2>2, <2>3
  <1>6. \A p \in Pages : hash[p] = PageContents(Final, p)
    BY DEF IInv, HashInv
  <1>. QED  BY <1>5, <1>6 DEF Complete

LEMMA SuccessFollows ==
    ASSUME Layout, IInv
    PROVE  SuccessMeansComplete
  <1>1. SUFFICES ASSUME parent = "exit0"
                 PROVE  disk \in {"ours", "kept", "device"} /\ Complete
    BY DEF SuccessMeansComplete
  <1>2. pc \in Told
    BY <1>1 DEF IInv, ToldInv, Told
  <1>. QED  BY <1>2, ClosedIsComplete DEF IInv, PathInv

\* The invariant holds in every run of the linker, whatever the layout of the
\* image, the writers and the tasks, and however many threads die.
THEOREM OutputInvariant ==
    ASSUME Layout
    PROVE  Spec => []IInv
  <1>1. Init => IInv
    BY InvariantInit
  <1>2. IInv /\ [Next]_vars => IInv'
    BY InvariantStep
  <1>. QED  BY <1>1, <1>2, PTL DEF Spec

\* The parent tells its caller of success only when the whole image is in the
\* file at the output path and its hashes are those of its pages.
THEOREM SuccessIsComplete ==
    ASSUME Layout
    PROVE  Spec => []SuccessMeansComplete
  <1>1. IInv => SuccessMeansComplete
    BY SuccessFollows
  <1>. QED  BY <1>1, OutputInvariant, PTL

\* No step writes a byte of the buffer that is queued: what SharedBuf's unsafe
\* code relies on.
THEOREM BufferIsFinal ==
    ASSUME Layout
    PROVE  Spec => QueuedStaysFinal
  <1>1. IInv /\ [Next]_vars => [\A u \in queued : buf'[u] = buf[u]]_vars
    BY QueuedKept
  <1>. QED  BY <1>1, OutputInvariant, PTL DEF Spec, QueuedStaysFinal

-----------------------------------------------------------------------------
(***************************************************************************)
(* One thread dies: it removes the output.  With two, the second may end   *)
(* the process between the first one's swap and its unlink.                *)
(***************************************************************************)
LEMMA NobodyElseDies ==
    ASSUME Layout, MaxDying <= 1, NEW t \in Threads, NEW way, StartDying(t, way)
    PROVE  \A u \in Threads : dying[u] = "no"
  <1> DEFINE D == {u \in Threads : dying[u] # "no"}
  <1>1. IsFiniteSet(Threads)
    <2>1. IsFiniteSet(Tasks) /\ IsFiniteSet({Main})
      BY FS_Singleton DEF Layout
    <2>. QED  BY <2>1, FS_Union DEF Threads
  <1>2. IsFiniteSet(D)
    BY <1>1, FS_Subset
  <1>3. Cardinality(D) < MaxDying /\ MaxDying \in Nat
    BY DEF StartDying, Layout, LayoutAssumption
  <1> HIDE DEF D
  <1>4. Cardinality(D) \in Nat
    BY <1>2, FS_CardinalityType
  <1>5. Cardinality(D) = 0
    BY <1>3, <1>4
  <1>6. D = {}
    BY <1>2, <1>5, FS_EmptySet
  <1>. QED  BY <1>6 DEF D

LEMMA AloneInit ==
    ASSUME Init
    PROVE  AloneInv
  BY DEF Init, AloneInv

LEMMA AloneStep ==
    ASSUME Layout, MaxDying <= 1, IInv, AloneInv, [Next]_vars
    PROVE  AloneInv'
  <1> USE DEF Told
  <1>1. /\ PathInv /\ dying \in [Threads -> {"no", "cleanup", "unlink", "die"}]
        /\ registered \in BOOLEAN /\ created \in BOOLEAN
    BY DEF IInv, TypeOK
  <1>2. CASE /\ UNCHANGED <<dying, registered, disk, created, child>>
             /\ \/ pc' = pc
                \/ pc \notin {"link"} \cup Told /\ pc' \notin {"link"} \cup Told /\ child = "run"
                \/ pc = "notify" /\ pc' = "post" /\ child = "run"
    BY <1>2 DEF AloneInv
  <1>3. CASE /\ \E t \in Threads : dying[t] = "no" /\ \E way \in Ways : StartDying(t, way)
             /\ UNCHANGED <<pc, registered, created, child>> /\ child = "run"
             /\ disk' = disk \/ (pc = "link" /\ disk' = "absent")
    <2>1. PICK t \in Threads : \E way \in Ways : StartDying(t, way)
      BY <1>3
    <2>2. \A u \in Threads : dying[u] = "no"
      BY <2>1, NobodyElseDies
    <2>3. dying' = [dying EXCEPT ![t] = "cleanup"]
      BY <2>1 DEF StartDying
    <2>4. \A u \in Threads : dying'[u] = IF u = t THEN "cleanup" ELSE "no"
      BY <1>1, <2>2, <2>3
    <2>5. created /\ pc \notin Told => registered \/ disk' = "absent"
      BY <1>3, <2>2 DEF AloneInv
    <2>. QED  BY <1>3, <2>4, <2>5 DEF AloneInv
  <1>4. CASE Open
    <2>1. /\ pc' = "setlen" /\ dying' = dying /\ child = "run" /\ child' = "run"
          /\ registered' = created'
      BY <1>4 DEF Open, Runs, threadVars, procVars
    <2>. QED  BY <2>1 DEF AloneInv
  <1>5. CASE ForgetPath
    BY <1>5 DEF ForgetPath, threadVars, procVars, Runs, AloneInv
  <1>6. CASE Finish
    BY <1>6 DEF Finish, fileVars, threadVars, AloneInv
  <1>7. ASSUME NEW t \in Threads, CleanupSwap(t)
        PROVE  AloneInv'
    <2>1. /\ dying[t] = "cleanup" /\ registered' = FALSE /\ UNCHANGED <<pc, disk, created, child>>
          /\ dying' = [dying EXCEPT ![t] = IF registered THEN "unlink" ELSE "die"]
          /\ child = "run"
      BY <1>7 DEF CleanupSwap, procVars
    <2>2. \A u \in Threads : dying'[u] = IF u = t THEN (IF registered THEN "unlink" ELSE "die") ELSE dying[u]
      BY <1>1, <2>1
    <2>3. \A u \in Threads : u # t => dying[u] = "no"
      BY <2>1 DEF AloneInv
    <2>4. created /\ pc \notin Told => registered \/ disk = "absent"
      BY <2>1, <2>3 DEF AloneInv
    <2>5. created /\ pc \notin Told => dying'[t] = "unlink" \/ disk' = "absent"
      BY <2>1, <2>2, <2>4
    <2>. QED  BY <2>1, <2>2, <2>3, <2>5 DEF AloneInv
  <1>8. ASSUME NEW t \in Threads, CleanupUnlink(t)
        PROVE  AloneInv'
    <2>1. /\ dying[t] = "unlink" /\ UNCHANGED <<pc, registered, created, child>>
          /\ disk' = (IF disk = "kept" THEN disk ELSE "absent")
          /\ dying' = [dying EXCEPT ![t] = "die"]
          /\ child = "run"
      BY <1>8 DEF CleanupUnlink, procVars
    <2>2. \A u \in Threads : dying'[u] = IF u = t THEN "die" ELSE dying[u]
      BY <1>1, <2>1
    <2>3. \A u \in Threads : u # t => dying[u] = "no"
      BY <2>1 DEF AloneInv
    <2>4. disk = "ours" /\ disk' = "absent"
      BY <1>1, <2>1, <2>3 DEF PathInv
    <2>. QED  BY <2>1, <2>2, <2>3, <2>4 DEF AloneInv
  <1>9. ASSUME NEW t \in Threads, Die(t)
        PROVE  AloneInv'
    <2>1. /\ UNCHANGED <<pc, dying, registered, disk, created>> /\ dying[t] = "die"
      BY <1>9 DEF Die, threadVars, fileVars
    <2>2. \A u \in Threads : u # t => dying[u] = "no"
      BY <2>1 DEF AloneInv
    <2>3. ~registered /\ \A u \in Threads : dying[u] # "unlink"
      BY <1>1, <2>1, <2>2 DEF PathInv
    <2>4. created /\ pc \notin Told => disk = "absent"
      BY <2>3 DEF AloneInv
    <2>. QED  BY <2>1, <2>4 DEF AloneInv
  <1>. QED  BY <1>2, <1>3, <1>4, <1>5, <1>6, <1>7, <1>8, <1>9, ThreadStep

LEMMA NoPartialFollows ==
    ASSUME Layout, IInv, AloneInv
    PROVE  NoPartialOutput
  BY ClosedIsComplete DEF AloneInv, NoPartialOutput

\* However a link ends in which one thread dies, at any point of it, the
\* output it created is complete or gone.
THEOREM OutputIsWhole ==
    ASSUME Layout, MaxDying <= 1
    PROVE  Spec => []NoPartialOutput
  <1>1. Init => AloneInv
    BY AloneInit
  <1>2. IInv /\ AloneInv /\ [Next]_vars => AloneInv'
    BY AloneStep
  <1>3. IInv /\ AloneInv => NoPartialOutput
    BY NoPartialFollows
  <1>. QED  BY <1>1, <1>2, <1>3, OutputInvariant, PTL DEF Spec

=============================================================================
