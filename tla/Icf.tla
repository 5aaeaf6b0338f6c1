--------------------------------- MODULE Icf ---------------------------------
(***************************************************************************)
(* Identical code folding, macho/icf.rs: the functions whose addresses no  *)
(* one can compare are put into classes by digests that each round extends *)
(* by those of the functions they refer to, and each class is folded onto  *)
(* its first member.                                                       *)
(*                                                                         *)
(* A digest stands for what was hashed: two are equal only if that was     *)
(* (SipHash's 128 bits are taken to be free of collisions), so all that is *)
(* kept of a digest is the set of candidates that share it.  How a round   *)
(* counts the classes and elects leaders is DigestMap.                     *)
(***************************************************************************)
EXTENDS Integers, Sequences, FiniteSets, FiniteSetsExt

CONSTANTS
    Isec,   \* subsections, numbered in input order
    Sym,    \* symbols that no subsection defines, numbered after them
    Links   \* what the links to fold may be

IsLink(l) ==
    /\ l.redirect \in [Isec -> Isec]        \* what copies were merged into, in the end
    /\ \A i \in Isec : l.redirect[l.redirect[i]] = l.redirect[i]
    /\ l.text \in SUBSET Isec               \* non-empty functions of __TEXT,__text
    /\ l.exported \in SUBSET Isec           \* define an exported symbol
    /\ l.insignificant \in SUBSET Isec      \* auto-hidden or Swift functions
    /\ l.kept \in SUBSET Isec               \* -keep_duplicate, DTrace probe sites
    /\ l.body \in [Isec -> Nat]             \* bytes, relocation kinds, unwind records
    \* Relocations: the target, the offset of the symbol in it, the addend,
    \* and whether it is a branch.
    /\ l.rels \in [Isec -> Seq([to : Isec \cup Sym, off : Int, add : Int, call : BOOLEAN])]
    /\ l.p2align \in [Isec -> Nat]

LinkAssumption ==
    /\ Isec \subseteq Nat /\ IsFiniteSet(Isec) /\ Sym \subseteq Nat /\ Isec \cap Sym = {}
    /\ \A l \in Links : IsLink(l)

VARIABLES
    l,            \* the link
    phase,        \* "prepare", "refine", "fold" or "done"
    cands,        \* the candidates
    class,        \* class[i]: the candidates with i's digest
    numClasses,   \* classes counted last
    replacement,  \* what each subsection is folded into, itself if nothing
    p2align

vars == <<l, phase, cands, class, numClasses, replacement, p2align>>

Init ==
    /\ l \in Links
    /\ phase = "prepare"
    /\ cands = {}
    /\ class = [i \in {} |-> {}]
    /\ numClasses = -1
    /\ replacement = l.redirect
    /\ p2align = l.p2align

-----------------------------------------------------------------------------
Emitted == {i \in Isec : l.redirect[i] = i}

\* compute_address_significance: whose addresses the image may observe.
AddressTaken ==
    {l.redirect[r.to] : r \in {q \in UNION {Range(l.rels[i]) : i \in Emitted} :
                                  ~q.call /\ q.to \in Isec}}
    \cup {l.redirect[i] : i \in l.exported}

\* is_eligible.
Eligible ==
    {i \in l.text \cap Emitted :
        (i \in l.insignificant \/ i \notin AddressTaken) /\ i \notin l.kept}

\* edge_target: whether a relocation refers to one of the candidates C.
ToCandidate(r, C) == r.to \in Isec /\ l.redirect[r.to] \in C

\* Faulty variant: the symbol's offset into a candidate is left out.
Place_NoOffset(r, C) ==
    IF ToCandidate(r, C) THEN <<"c", r.add>>
    ELSE IF r.to \in Isec THEN <<"i", l.redirect[r.to], r.off, r.add>>
    ELSE <<"s", r.to, r.add>>

\* What compute_digest hashes of a relocation.
Place(r, C) ==
    IF ToCandidate(r, C) THEN <<"c", r.add + r.off>>
    ELSE IF r.to \in Isec THEN <<"i", l.redirect[r.to], r.off, r.add>>
    ELSE <<"s", r.to, r.add>>

\* compute_digest.
Content(i, C) == <<l.body[i], [n \in DOMAIN l.rels[i] |-> Place(l.rels[i][n], C)]>>

\* gather_edges: the candidates that i refers to, in order.
Edges(i, C) ==
    LET rels == l.rels[i]
        out[n \in 0..Len(rels)] ==
            IF n = 0 THEN <<>>
            ELSE IF ToCandidate(rels[n], C) THEN Append(out[n - 1], l.redirect[rels[n].to])
            ELSE out[n - 1]
    IN  out[Len(rels)]

\* Faulty variant: the targets count by their numbers, not by their digests.
Propagate_ByNumber(c) == [i \in cands |-> {j \in c[i] : Edges(j, cands) = Edges(i, cands)}]

\* propagate: the next digest is of the last one and the targets' last ones.
Propagate(c) ==
    [i \in cands |-> {j \in c[i] :
        [n \in DOMAIN Edges(j, cands) |-> c[Edges(j, cands)[n]]]
            = [n \in DOMAIN Edges(i, cands) |-> c[Edges(i, cands)[n]]]}]

\* The candidates and their base digests; with fewer than two there is
\* nothing to fold.
Prepare ==
    /\ phase = "prepare"
    /\ \/ /\ Cardinality(Eligible) < 2
          /\ phase' = "done"
          /\ UNCHANGED <<cands, class>>
       \/ /\ Cardinality(Eligible) >= 2
          /\ phase' = "refine"
          /\ cands' = Eligible
          /\ class' = [i \in Eligible |-> {j \in Eligible : Content(j, Eligible) = Content(i, Eligible)}]
    /\ UNCHANGED <<l, numClasses, replacement, p2align>>

\* The loop of icf_sections: three propagations and a count.
Refine ==
    /\ phase = "refine"
    /\ class' = Propagate(Propagate(Propagate(class)))
    /\ numClasses' = Cardinality(Range(class'))
    /\ phase' = IF numClasses' = numClasses THEN "fold" ELSE "refine"
    /\ UNCHANGED <<l, cands, replacement, p2align>>

Leader(i) == Min(class[i])

\* The end of icf_sections.
Fold ==
    /\ phase = "fold"
    /\ replacement' = [i \in Isec |->
          IF i \in cands /\ i # Leader(i) THEN Leader(i) ELSE replacement[i]]
    /\ p2align' = [i \in Isec |->
          IF i \in cands /\ i = Leader(i) THEN Max({p2align[j] : j \in class[i]}) ELSE p2align[i]]
    /\ phase' = "done"
    /\ UNCHANGED <<l, cands, class, numClasses>>

Next == Prepare \/ Refine \/ Fold

\* The linker goes on.
Spec == Init /\ [][Next]_vars /\ WF_vars(Next)

-----------------------------------------------------------------------------
(***************************************************************************)
(* Properties.                                                             *)
(***************************************************************************)

\* The variables keep their types; classes are sets of candidates that each
\* member shares.
TypeOK ==
    /\ IsLink(l) /\ phase \in {"prepare", "refine", "fold", "done"}
    /\ cands \subseteq l.text /\ DOMAIN class = cands
    /\ \A i \in cands : i \in class[i] /\ \A j \in class[i] : class[j] = class[i]
    /\ numClasses \in -1..Cardinality(cands)
    /\ replacement \in [Isec -> Isec] /\ p2align \in [Isec -> Nat]

\* Where a relocation leads once functions are folded.
Leads(r) == IF ToCandidate(r, cands) THEN <<"c", replacement[l.redirect[r.to]], r.add + r.off>>
            ELSE Place(r, cands)

\* The copy that stays can stand for every function folded into it: the same
\* content, and every relocation leads to the same place.
FoldedAreIdentical ==
    phase = "done" => \A i \in cands :
        LET k == replacement[i]
        IN  /\ l.body[i] = l.body[k] /\ Len(l.rels[i]) = Len(l.rels[k])
            /\ \A n \in DOMAIN l.rels[i] : Leads(l.rels[i][n]) = Leads(l.rels[k][n])

\* Functions that could be folded are: any way to put the candidates into
\* classes of interchangeable functions, cycles included, is no coarser than
\* the one that was found.
Interchangeable(f) ==
    \A i, j \in cands : f[i] = f[j] =>
        /\ Content(i, cands) = Content(j, cands)
        /\ \A n \in DOMAIN Edges(i, cands) : f[Edges(i, cands)[n]] = f[Edges(j, cands)[n]]
\* (f maps each candidate to the first of its class.)
EquivalentAreFolded ==
    phase = "done" => \A f \in [cands -> cands] :
        (\A i \in cands : f[i] <= i /\ f[f[i]] = f[i]) /\ Interchangeable(f)
            => \A i, j \in cands : f[i] = f[j] => replacement[i] = replacement[j]

\* Two functions whose addresses the program can see, and may compare, keep
\* different addresses.
AddressesStayApart ==
    LET Seen == {l.redirect[i] : i \in l.exported}
                    \cup {l.redirect[r.to] : r \in {q \in UNION {Range(l.rels[i]) : i \in Isec} :
                            ~q.call /\ q.to \in Isec /\ \E i \in Emitted : q \in Range(l.rels[i])}}
    IN  \A i, j \in Seen \ l.insignificant : i # j => replacement[i] # replacement[j]

\* The program cannot tell that functions were folded.
FoldingIsSafe == FoldedAreIdentical /\ AddressesStayApart

\* What resolve finds for a subsection, merged copies included, is in the
\* output itself, two steps away at most, and a folded function's is aligned
\* for all it stands for.
ReplacementIsEmitted ==
    \A i \in Isec :
        /\ LET k == replacement[replacement[i]] IN k \in Emitted /\ replacement[k] = k
        /\ phase = "done" /\ i \in cands => p2align[replacement[i]] >= l.p2align[i]

\* The rounds come to an end.
Ends == <>(phase = "done")
=============================================================================
