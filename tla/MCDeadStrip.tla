---------------------------- MODULE MCDeadStrip ----------------------------
(***************************************************************************)
(* Graphs of five subsections for TLC.  a and b may be roots, b fans out,  *)
(* c and d may form a cycle, d may be live support or a copy merged into   *)
(* a, and e is reached last or belongs to an archive member left out.      *)
(***************************************************************************)
EXTENDS DeadStrip

Graph(ta, tb, tc, roots, merged, support, out, serial) ==
    [target |-> [i \in Isec |-> CASE i = "a" -> ta [] i = "b" -> tb [] i = "c" -> tc
                                  [] i = "d" -> IF support = <<"d">> THEN {"c", "e"} ELSE {"c"}
                                  [] OTHER -> {"a"}],
     redirect |-> [i \in Isec |-> IF i \in merged THEN "a" ELSE i],
     inLink |-> Isec \ out,
     kept |-> (roots \cap {"a"}) \cup out, inits |-> roots \cap {"d"},
     symRoots |-> roots \cap {"b"}, undefines |-> {},
     bitcode |-> roots \cap {"c"},
     support |-> support,
     names |-> [i \in Isec |-> {}], defined |-> {}, pinned |-> {},
     whyLive |-> serial]

MCStripGraphs ==
    {Graph(ta, tb, tc, roots, merged, support, {}, serial) :
        ta \in {{"b"}, {"b", "d"}}, tb \in {{"c"}, {"c", "d"}, {"a", "d", "e"}},
        tc \in {{"b"}, {"d", "e"}},
        roots \in {{"a"}, {"a", "b", "d"}, {}}, merged \in {{}, {"d"}},
        support \in {<<>>, <<"d">>, <<"d", "e">>}, serial \in BOOLEAN}
    \cup {Graph({"b"}, {"c"}, {}, roots, {}, <<"d">>, {"e"}, serial) :
            roots \in {{"a"}, {"b"}}, serial \in BOOLEAN}

(***************************************************************************)
(* Links with bitcode, where e is what LTO makes of it: the walk before    *)
(* LTO sees no e, and what the bitcode refers to are roots.  Only after it *)
(* some are merged: c is a copy of b, or e has copies of b or c.           *)
(***************************************************************************)
LtoLink(target, bitcode, roots, merged, support, defined) ==
    LET Before == [target |-> [i \in Isec |-> IF i = "e" THEN {} ELSE target[i] \ {"e"}],
                   redirect |-> [i \in Isec |-> i], inLink |-> Isec \ {"e"},
                   kept |-> {}, inits |-> {}, symRoots |-> roots \ {"e"}, undefines |-> {},
                   bitcode |-> bitcode, support |-> SelectSeq(support, LAMBDA i : i # "e"),
                   names |-> [a |-> {"f"}, b |-> {}, c |-> {"f"}, d |-> {"h"}, e |-> {}],
                   defined |-> {"f", "h"}, pinned |-> {}, whyLive |-> FALSE]
    IN  <<Before,
          [Before EXCEPT !.target = target, !.redirect = [i \in Isec |-> IF i \in DOMAIN merged THEN merged[i] ELSE i],
                         !.inLink = Isec, !.symRoots = roots, !.bitcode = {}, !.support = support,
                         !.defined = defined]>>

Targets5(ta, tb, tc, td, te) == [a |-> ta, b |-> tb, c |-> tc, d |-> td, e |-> te]

\* Nothing is merged; and the links with merges that LtoAdds allows.
MCLtoLinks ==
    {LtoLink(Targets5({"b", "e"}, tb, {}, td, bitcode), bitcode, roots, <<>>, support, {}) :
        tb \in {{"c"}, {"e"}}, td \in {{"b"}, {"c"}}, bitcode \in {{}, {"c"}, {"b", "d"}},
        roots \in {{"a"}, {"e"}}, support \in {<<>>, <<"d">>}}
    \cup {l \in {LtoLink(Targets5(ta, tb, tb, {}, te), bitcode, roots, merged, support, {"f"}) :
                    ta \in {{"b"}, {"c"}, {"d", "e"}}, tb \in {{}, {"d"}, {"e"}}, te \in {{}, {"c"}, {"d"}},
                    bitcode \in {{}, {"d"}}, roots \in {{"a"}, {"e"}},
                    merged \in {[c |-> "b"], [e |-> "b"], [c |-> "b", e |-> "b"], [e |-> "c"]},
                    support \in {<<>>, <<"e">>}} :
              LtoAdds(l[1], l[2])}

\* What LtoPreservesUsed is proved for.
ASSUME LtoAssumption == \A l \in LtoLinks : LtoAdds(l[1], l[2])

\* Links that LtoAdds leaves out, where a symbol that native code uses is
\* missed.  Live support refers to what the bitcode defines;
SupportOfBitcode == {LtoLink(Targets5({"b", "e"}, {"c"}, {}, {"e"}, {}), {}, {"a"}, <<>>, <<"d">>, {})}
\* the bitcode has a weak definition of its own, and native d's copy won;
PreemptedCopy == {LtoLink(Targets5({"b", "e"}, {"c"}, {}, {}, {"d"}), {}, {"a"}, <<>>, <<>>, {})}
\* d's copy lost to the bitcode's and wins against that of LTO's output;
CopyWinsLate ==
    {[l EXCEPT ![1].target["a"] = {}] : l \in {LtoLink(Targets5({"d"}, {}, {}, {}, {}), {}, {"a"}, <<>>, <<>>, {})}}
\* a refers to its own weak copy c, which d's copy, of other code, replaces.
CopiesDiffer == {LtoLink(Targets5({"c"}, {}, {}, {}, {}), {}, {"a"}, [c |-> "d"], <<>>, {})}
=============================================================================
