----------------------------- MODULE ExportTrie -----------------------------
(***************************************************************************)
(* The export trie (src/macho/chunks/export_trie.rs): the index of the     *)
(* image's exports that dyld, and a later link, walk by name.  Offsets are *)
(* ULEB128 numbers, so a node's size depends on where its children are,    *)
(* and the root is written before they are placed.                         *)
(*                                                                         *)
(* Names are sequences of bytes other than 0.  A ULEB digit has UlebBase   *)
(* values (128 in the code), and an offset of the root gets RootOffset     *)
(* bytes (5, the widest u32).                                              *)
(***************************************************************************)
EXTENDS Integers, Sequences, FiniteSets, SequencesExt, FiniteSetsExt

CONSTANTS ExportSets, \* families of functions from names to the defined globals
          Base, \* the address of the Mach-O header
          UlebBase, RootOffset, Reexport \* the flags of a re-export

VARIABLES trieAt, \* "build", "place", "write", "done"
          exports, trie, placement, trieBuf, unwritten

trieVars == <<trieAt, exports, trie, placement, trieBuf, unwritten>>

RECURSIVE Uleb(_)
Uleb(n) == IF n < UlebBase THEN <<n>> ELSE <<UlebBase + (n % UlebBase)>> \o Uleb(n \div UlebBase)
UlebSize(n) == Len(Uleb(n))

\* What a terminal says: flags, then an address, or an ordinal and a name.
Terminal(e) ==
    IF e.flags = Reexport THEN Uleb(e.flags) \o Uleb(e.ordinal) \o e.name \o <<0>>
    ELSE Uleb(e.flags) \o Uleb(e.addr)
TerminalSize(e) ==
    IF e.flags = Reexport THEN UlebSize(e.flags) + UlebSize(e.ordinal) + Len(e.name) + 1
    ELSE UlebSize(e.flags) + UlebSize(e.addr)

\* The entry of the defined global n: an alias of a dylib's symbol is
\* re-exported, by its own name where the two agree; the kind of any other
\* is in its flags (thread-local 1, absolute 2, weak 4).
ExportOf(n, sym) ==
    IF sym.alias # <<>>
    THEN [flags |-> Reexport, ordinal |-> sym.ordinal, name |-> IF sym.alias = n THEN <<>> ELSE sym.alias]
    ELSE [flags |-> (IF sym.weak THEN 4 ELSE 0) + (IF sym.tlv THEN 1 ELSE 0) + (IF sym.absolute THEN 2 ELSE 0),
          addr |-> IF sym.absolute THEN sym.addr ELSE sym.addr - Base]

\* An alias of what no dylib defines has no entry.
Exports(globals) ==
    LET exported == {n \in DOMAIN globals : globals[n].alias = <<>> \/ globals[n].ordinal # 0}
    IN [n \in exported |-> ExportOf(n, globals[n])]

----------------------------------------------------------------------------
\* Building.  A node is known by the bytes that lead to it.

Below(S, prefix) == {n \in S : IsStrictPrefix(prefix, n)}

CommonPrefix(S) ==
    LET n == CHOOSE m \in S : TRUE
        shared == {k \in 0..Len(n) : \A m \in S : Len(m) >= k /\ SubSeq(m, 1, k) = SubSeq(n, 1, k)}
    IN SubSeq(n, 1, Max(shared))

\* The children of the node at prefix: one for each next byte, as far as
\* the names of its group agree, sorted by label.
Children(S, prefix) ==
    LET groups == {{n \in Below(S, prefix) : n[Len(prefix) + 1] = b} : b \in 1..UlebBase} \ {{}}
    IN SetToSortSeq({CommonPrefix(g) : g \in groups}, LAMBDA a, b : a[Len(prefix) + 1] < b[Len(prefix) + 1])

Label(prefix, child) == SubSeq(child, Len(prefix) + 1, Len(child))

RECURSIVE NodesFrom(_, _)
NodesFrom(S, prefix) ==
    {prefix} \cup UNION {NodesFrom(S, c) : c \in Range(Children(S, prefix))}

BuildTrie ==
    /\ trieAt = "build"
    /\ trie' = [n \in NodesFrom(DOMAIN exports, <<>>) |-> Children(DOMAIN exports, n)]
    /\ trieAt' = "place"
    /\ UNCHANGED <<exports, placement, trieBuf, unwritten>>

----------------------------------------------------------------------------
\* Placing.

IsTerminal(n) == n \in DOMAIN exports

\* A node's size without its children's offsets.
FixedSize(n) ==
    LET t == IF IsTerminal(n) THEN TerminalSize(exports[n]) ELSE 0
    IN UlebSize(t) + t + 1 + FoldLeft(LAMBDA a, c : a + Len(Label(n, c)) + 1, 0, trie[n])

RECURSIVE PostOrder(_)
PostOrder(n) == FlattenSeq([i \in DOMAIN trie[n] |-> PostOrder(trie[n][i])]) \o <<n>>

\* The root, then every node after its subtrees.
Order == <<(<<>>)>> \o FlattenSeq([i \in DOMAIN trie[<<>>] |-> PostOrder(trie[<<>>][i])])

\* Faulty variant: the root's edges as wide as the first offset after it.
RootSize_Narrow == FixedSize(<<>>) + Len(trie[<<>>]) * UlebSize(FixedSize(<<>>))

RootSize == FixedSize(<<>>) + Len(trie[<<>>]) * RootOffset

PlaceNode(p, n) ==
    LET edges == FoldLeft(LAMBDA a, c : a + UlebSize(p.offs[c]), 0, trie[n])
        size == IF n = <<>> THEN RootSize ELSE FixedSize(n) + edges
    IN [offs |-> [p.offs EXCEPT ![n] = p.total], sizes |-> [p.sizes EXCEPT ![n] = size], total |-> p.total + size]

PlaceNodes ==
    /\ trieAt = "place"
    /\ placement' = FoldLeft(PlaceNode, [offs |-> [n \in DOMAIN trie |-> 0], sizes |-> [n \in DOMAIN trie |-> 0],
                                         total |-> 0], Order)
    /\ trieBuf' = [i \in 1..placement'.total |-> 0]
    /\ unwritten' = DOMAIN trie
    /\ trieAt' = "write"
    /\ UNCHANGED <<exports, trie>>

----------------------------------------------------------------------------
\* Writing, by workers that each take a node.

NodeBytes(n) ==
    LET head == IF IsTerminal(n) THEN Uleb(TerminalSize(exports[n])) \o Terminal(exports[n]) ELSE <<0>>
        edge(c) == Label(n, c) \o <<0>> \o Uleb(placement.offs[c])
    IN head \o <<Len(trie[n])>> \o FlattenSeq([i \in DOMAIN trie[n] |-> edge(trie[n][i])])

\* A node that outgrew its slice would stop the link (the slices bound
\* every store); the model lets it run over its neighbour.
WriteNode(n) ==
    LET bytes == NodeBytes(n)
        off == placement.offs[n]
    IN /\ trieAt = "write" /\ n \in unwritten
       /\ trieBuf' = [i \in DOMAIN trieBuf |-> IF i - off \in DOMAIN bytes THEN bytes[i - off] ELSE trieBuf[i]]
       /\ unwritten' = unwritten \ {n}
       /\ trieAt' = IF unwritten = {n} THEN "done" ELSE "write"
       /\ UNCHANGED <<exports, trie, placement>>

TrieInit ==
    /\ trieAt = "build"
    /\ \E family \in ExportSets : \E globals \in family : exports = Exports(globals)
    /\ trie = <<>> /\ placement = <<>> /\ trieBuf = <<>> /\ unwritten = {}

TrieNext == BuildTrie \/ PlaceNodes \/ \E n \in unwritten : WriteNode(n)

TrieSpec == TrieInit /\ [][TrieNext]_trieVars /\ WF_trieVars(TrieNext)

----------------------------------------------------------------------------
\* Reading.

RECURSIVE ReadUleb(_, _)
ReadUleb(buf, at) ==
    IF at > Len(buf) THEN [val |-> 0, next |-> at]
    ELSE IF buf[at] < UlebBase THEN [val |-> buf[at], next |-> at + 1]
    ELSE LET r == ReadUleb(buf, at + 1) IN [val |-> buf[at] - UlebBase + UlebBase * r.val, next |-> r.next]

RECURSIVE LabelEnd(_, _)
LabelEnd(buf, at) == IF at > Len(buf) \/ buf[at] = 0 THEN at ELSE LabelEnd(buf, at + 1)

\* The edges of the node, from the count at `at`.
RECURSIVE Edges(_, _, _)
Edges(buf, at, count) ==
    IF count = 0 \/ at > Len(buf) THEN {}
    ELSE LET end == LabelEnd(buf, at)
             off == ReadUleb(buf, end + 1)
         IN {<<SubSeq(buf, at, end - 1), off.val>>} \cup Edges(buf, off.next, count - 1)

\* export_trie_entries: what a later link reads of the library, and what
\* dyld finds for each name.  `depth` bounds a walk of a broken trie.
RECURSIVE Entries(_, _, _, _)
Entries(buf, node, prefix, depth) ==
    IF node >= Len(buf) \/ depth = 0 THEN {}
    ELSE LET t == ReadUleb(buf, node + 1)
             rest == t.next + t.val
             own == IF t.val > 0 THEN {<<prefix, SubSeq(buf, t.next, rest - 1)>>} ELSE {}
         IN own \cup (IF rest > Len(buf) THEN {}
                      ELSE UNION {Entries(buf, e[2], prefix \o e[1], depth - 1) :
                                    e \in Edges(buf, rest + 1, buf[rest])})

----------------------------------------------------------------------------
\* Whatever order the workers write the nodes in, a reader of the trie finds
\* exactly the exports, each with its own terminal: no offset is off, no node
\* runs over another, and the root's slack hides no edge.
ReadersFindExports ==
    trieAt = "done" =>
        Entries(trieBuf, 0, <<>>, Cardinality(DOMAIN trie) + 1) = {<<n, Terminal(exports[n])>> : n \in DOMAIN exports}
=============================================================================
