--------------------------------- MODULE Glob ---------------------------------
(***************************************************************************)
(* The matcher of symbol name patterns (macho/util/glob.rs): a builder     *)
(* sorts each pattern to the simplest way of matching it - a string        *)
(* comparison, an Aho-Corasick automaton for substrings, a backtracking    *)
(* matcher, or one automaton for many patterns that keeps a bit for each   *)
(* state - and a query finds the largest value of a pattern that matches.  *)
(* A character is a number; a pattern and a name are sequences of them.    *)
(***************************************************************************)
EXTENDS Integers, Sequences, SequencesExt, FiniteSets, TLC

CONSTANTS Lists,      \* families of pattern lists: sequences of [pat, literal]
          Names,      \* the names looked up
          Chars,      \* the characters
          Word,       \* the bits of a word (64)
          Many,       \* how many patterns are matched by the NFA (64)
          Star, Question, Open, Close, Backslash, Dash,   \* the characters with a meaning
          None

VARIABLES l,          \* the patterns to add; the value of each is its number less one
          glob,       \* the Glob, as far as it is built
          added,      \* how many patterns were added
          refused,    \* those add returned false for
          built,
          asked       \* the last query and its answer

globVars == <<l, glob, added, refused, built, asked>>

Nul == 0

MaxOf(a, b) == IF a > b THEN a ELSE b

IsLiteral(pat) == ToSet(pat) \cap {Star, Question, Open, Backslash} = {}

StripPrefixStar(pat) == IF pat # <<>> /\ Head(pat) = Star THEN Tail(pat) ELSE pat
StripSuffixStar(pat) == IF pat # <<>> /\ Last(pat) = Star THEN Front(pat) ELSE pat

-----------------------------------------------------------------------------
(* Pattern: the tokens of a pattern, and the matcher that tries the last   *)
(* star again. A token is a literal, a star, a question or a class.        *)

\* The characters of a bracket expression, None if it is malformed
RECURSIVE Bracket(_, _, _)
Bracket(class, prev, chars) ==
    IF class = <<>> THEN chars
    ELSE LET c == Head(class)
         IN IF c # Dash THEN Bracket(Tail(class), c, chars \cup {c})
            ELSE IF prev = None \/ Len(class) = 1 THEN None
            ELSE Bracket(SubSeq(class, 3, Len(class)), Dash, chars \cup (prev .. class[2]))

PushChar(tokens, c) ==
    IF tokens # <<>> /\ Last(tokens).t = "str" THEN [tokens EXCEPT ![Len(tokens)].s = Append(@, c)]
    ELSE Append(tokens, [t |-> "str", s |-> <<c>>])

RECURSIVE Compile(_, _)
Compile(pat, tokens) ==
    IF pat = <<>> THEN tokens
    ELSE LET c == Head(pat)
             rest == Tail(pat)
         IN CASE c = Open ->
                     LET ends == {i \in DOMAIN rest : rest[i] = Close}
                         end == CHOOSE i \in ends : \A j \in ends : i <= j
                         chars == Bracket(SubSeq(rest, 1, end - 1), None, {})
                     IN IF ends = {} \/ chars = None THEN None
                        ELSE Compile(SubSeq(rest, end + 1, Len(rest)), Append(tokens, [t |-> "class", s |-> chars]))
              [] c = Question -> Compile(rest, Append(tokens, [t |-> "question"]))
              [] c = Star -> Compile(rest, IF tokens # <<>> /\ Last(tokens).t = "star" THEN tokens
                                           ELSE Append(tokens, [t |-> "star"]))
              [] c = Backslash /\ rest # <<>> -> Compile(Tail(rest), PushChar(tokens, Head(rest)))
              [] OTHER -> Compile(rest, PushChar(tokens, c))

\* The first place in s, from x on, that literal occurs at, 0 for none
FindFrom(s, x, literal) ==
    LET at == {i \in x .. Len(s) - Len(literal) + 1 : SubSeq(s, i, i + Len(literal) - 1) = literal}
    IN IF at = {} THEN 0 ELSE CHOOSE i \in at : \A j \in at : i <= j

\* The state of the matcher is the place in the name, that in the tokens, and
\* where to go on if the last star takes one more character
RECURSIVE Step(_, _, _, _, _)
Step(tokens, s, x, y, next) ==
    LET atEnd == x > Len(s)
        tok == tokens[y]
        Retry == IF next = None \/ next[1] > Len(s) + 1 THEN FALSE ELSE Step(tokens, s, next[1], next[2], next)
        Takes == CASE tok.t = "question" -> ~atEnd
                   [] tok.t = "class" -> ~atEnd /\ s[x] \in tok.s
                   [] OTHER -> FALSE
    IN IF atEnd /\ y > Len(tokens) THEN TRUE
       ELSE IF y > Len(tokens) THEN Retry
       ELSE CASE tok.t = "str" ->
                     IF IsPrefix(tok.s, SubSeq(s, x, Len(s))) THEN Step(tokens, s, x + Len(tok.s), y + 1, next) ELSE Retry
              [] tok.t = "star" ->
                     IF y < Len(tokens) /\ tokens[y + 1].t = "str"
                     THEN LET pos == FindFrom(s, x, tokens[y + 1].s)
                          IN pos # 0 /\ Step(tokens, s, pos + Len(tokens[y + 1].s), y + 2, <<pos + 1, y>>)
                     ELSE Step(tokens, s, x, y + 1, <<x + 1, y>>)
              [] OTHER -> IF Takes THEN Step(tokens, s, x + 1, y + 1, next) ELSE Retry

PatternMatches(tokens, s) ==
    /\ tokens # <<>> /\ Last(tokens).t = "str" => IsSuffix(Last(tokens).s, s)
    /\ Step(tokens, s, 1, 1, None)

-----------------------------------------------------------------------------
(* Nfa: a bit for each state of all the patterns, in words.                *)

SetBit(words, pos) == [words EXCEPT ![pos \div Word] = @ \cup {pos % Word}]

NumStates(tokens) == 1 + FoldLeft(LAMBDA n, tok : n + (CASE tok.t = "str" -> Len(tok.s) [] tok.t = "star" -> 0 [] OTHER -> 1), 0, tokens)

NfaCompile(patterns) ==
    LET states == FoldLeft(LAMBDA n, p : n + NumStates(p.tokens), 0, patterns)
        none   == [i \in 0 .. ((states + Word - 1) \div Word) - 1 |-> {}]
        Reads(n, c) == [n EXCEPT !.state = @ + 1, !.masks = [ch \in Chars |-> IF ch \in c THEN SetBit(@[ch], n.state + 1) ELSE @[ch]]]
        Token(n, tok) ==
            CASE tok.t = "str" -> FoldLeft(LAMBDA m, c : Reads(m, {c}), n, tok.s)
              [] tok.t = "star" -> [n EXCEPT !.star = SetBit(@, n.state)]
              [] tok.t = "question" -> Reads(n, Chars)
              [] OTHER -> Reads(n, tok.s)
        Add(n, p) ==
            LET m == FoldLeft(Token, [n EXCEPT !.initial = SetBit(@, n.state)], p.tokens)
            IN [m EXCEPT !.accept = SetBit(@, m.state), !.values = (m.state :> p.value) @@ @, !.state = @ + 1]
    IN FoldLeft(Add, [initial |-> none, star |-> none, accept |-> none, masks |-> [c \in Chars |-> none],
                      values |-> <<>>, state |-> 0], patterns)

\* Faulty variant: a word takes no bit from the one before it.
Shifted_NoCarry(states, i) == {b + 1 : b \in states[i]} \ {Word}

\* Word i of the states shifted by one, with what the word before carries
Shifted(states, i) ==
    ({b + 1 : b \in states[i]} \ {Word}) \cup (IF i > 0 /\ Word - 1 \in states[i - 1] THEN {0} ELSE {})

NfaMatches(nfa, s) ==
    LET Read(states, c) == [i \in DOMAIN states |-> (states[i] \cap nfa.star[i]) \cup (Shifted(states, i) \cap nfa.masks[c][i])]
        last == FoldLeft(Read, nfa.initial, s)
        hits == {nfa.values[i * Word + b] : <<i, b>> \in {<<i, b>> \in (DOMAIN last) \X (0 .. Word - 1) :
                                                             b \in last[i] \cap nfa.accept[i]}}
    IN IF hits = {} THEN -1 ELSE CHOOSE v \in hits : \A w \in hits : w <= v

-----------------------------------------------------------------------------
(* AhoCorasick: a trie of the patterns that are substrings, whose nodes    *)
(* have a link to the longest suffix that is in the trie too. Node 1 is    *)
(* the root; a pattern's ends are Nul.                                     *)

CanHandle(pat) ==
    LET body == StripSuffixStar(StripPrefixStar(pat)) IN body # <<>> /\ IsLiteral(body)

NewNode == [value |-> -1, link |-> 0, child |-> <<>>]

FindChild(nodes, n, c) == IF c \in DOMAIN nodes[n].child THEN nodes[n].child[c] ELSE 0

AddChild(acc, c) ==
    LET found == FindChild(acc.nodes, acc.at, c)
        new == Len(acc.nodes) + 1
    IN IF found # 0 THEN [acc EXCEPT !.at = found]
       ELSE [nodes |-> Append([acc.nodes EXCEPT ![acc.at].child = (c :> new) @@ @], NewNode), at |-> new]

AhoAdd(aho, pat, value) ==
    LET word == (IF Head(pat) = Star THEN <<>> ELSE <<Nul>>) \o SelectSeq(pat, LAMBDA c : c # Star)
                \o (IF Last(pat) = Star THEN <<>> ELSE <<Nul>>)
        end == FoldLeft(AddChild, [nodes |-> IF aho.nodes = <<>> THEN <<NewNode>> ELSE aho.nodes, at |-> 1], word)
    IN [nodes |-> [end.nodes EXCEPT ![end.at].value = MaxOf(@, value)], max |-> MaxOf(aho.max, value)]

\* The node that the suffixes of n, from link on, lead to by c
RECURSIVE SuffixBy(_, _, _)
SuffixBy(nodes, link, c) ==
    IF FindChild(nodes, link, c) # 0 THEN FindChild(nodes, link, c)
    ELSE IF link = 1 THEN 1 ELSE SuffixBy(nodes, nodes[link].link, c)

\* The node that parent leads to by c gets its link and what its suffix matches
Linked(nodes, parent, c) ==
    LET n == nodes[parent].child[c]
        link == IF parent = 1 THEN 1 ELSE SuffixBy(nodes, nodes[parent].link, c)
    IN [nodes EXCEPT ![n].link = link, ![n].value = MaxOf(@, nodes[link].value)]

\* Breadth first
RECURSIVE AhoCompile(_, _)
AhoCompile(nodes, queue) ==
    IF queue = <<>> THEN nodes
    ELSE LET parent == Head(queue)
             cs == SetToSeq(DOMAIN nodes[parent].child)
         IN AhoCompile(FoldLeft(LAMBDA ns, c : Linked(ns, parent, c), nodes, cs),
                       Tail(queue) \o [i \in DOMAIN cs |-> nodes[parent].child[cs[i]]])

\* From node j by c: the node, 1 if no suffix goes on, and the value so far
RECURSIVE WalkFrom(_, _, _)
WalkFrom(nodes, j, c) ==
    IF j = 0 THEN 1
    ELSE IF FindChild(nodes, j, c) # 0 THEN FindChild(nodes, j, c)
    ELSE WalkFrom(nodes, nodes[j].link, c)

AhoFind(aho, s) ==
    LET Walk(acc, c) ==
            IF acc.done THEN acc
            ELSE LET to == WalkFrom(aho.nodes, acc.at, c)
                     value == IF to = 1 THEN acc.value ELSE MaxOf(acc.value, aho.nodes[to].value)
                 IN [at |-> to, value |-> value, done |-> value = aho.max]
    IN IF aho.nodes = <<>> THEN -1
       ELSE FoldLeft(Walk, [at |-> 1, value |-> -1, done |-> FALSE], <<Nul>> \o s \o <<Nul>>).value

-----------------------------------------------------------------------------
(* GlobBuilder and Glob.                                                   *)

NewGlob == [match_all |-> -1, max |-> -1, exacts |-> <<>>, prefixes |-> <<>>, suffixes |-> <<>>, patterns |-> <<>>,
            aho |-> [nodes |-> <<>>, max |-> 0], nfa |-> None]

Entry(pat, value) == [pat |-> pat, value |-> value]

AddLiteral(g, pat, value) == [g EXCEPT !.max = MaxOf(@, value), !.exacts = Append(@, Entry(pat, value))]

\* The glob with a pattern added, which stays as it is (but for max) if the pattern is malformed
AddTo(g0, pat, value) ==
    LET g == [g0 EXCEPT !.max = MaxOf(@, value)]
    IN IF pat = <<Star>> THEN [g EXCEPT !.match_all = MaxOf(@, value)]
       ELSE IF IsLiteral(pat) THEN AddLiteral(g, pat, value)
       ELSE IF Last(pat) = Star /\ IsLiteral(Front(pat)) THEN [g EXCEPT !.prefixes = Append(@, Entry(Front(pat), value))]
       ELSE IF Head(pat) = Star /\ IsLiteral(Tail(pat)) THEN [g EXCEPT !.suffixes = Append(@, Entry(Tail(pat), value))]
       ELSE IF CanHandle(pat) THEN [g EXCEPT !.aho = AhoAdd(@, pat, value)]
       ELSE IF Compile(pat, <<>>) = None THEN g
       ELSE [g EXCEPT !.patterns = Append(@, [tokens |-> Compile(pat, <<>>), value |-> value])]

BuildGlob(g) ==
    IF g.match_all = g.max THEN g
    ELSE LET many == Len(g.patterns) >= Many
         IN [g EXCEPT !.nfa = IF many THEN NfaCompile(g.patterns) ELSE None,
                      !.patterns = IF many THEN <<>> ELSE @,
                      !.aho.nodes = IF @ = <<>> THEN @ ELSE AhoCompile(@, <<1>>)]

\* The larger of value and the values of the entries that Matches takes
Best(value, entries, Matches(_)) ==
    FoldLeft(LAMBDA v, e : IF v < e.value /\ Matches(e) THEN e.value ELSE v, value, entries)

Find(g, s) ==
    LET exact    == Best(g.match_all, g.exacts, LAMBDA e : e.pat = s)
        prefix   == Best(exact, g.prefixes, LAMBDA e : IsPrefix(e.pat, s))
        literal  == Best(prefix, g.suffixes, LAMBDA e : IsSuffix(e.pat, s))
        aho      == MaxOf(literal, AhoFind(g.aho, s))
        nfa      == IF g.nfa = None THEN aho ELSE MaxOf(aho, NfaMatches(g.nfa, s))
    IN IF g.match_all = g.max THEN g.match_all
       ELSE IF literal = g.max THEN literal
       ELSE IF aho = g.max THEN aho
       ELSE Best(nfa, g.patterns, LAMBDA p : PatternMatches(p.tokens, s))

-----------------------------------------------------------------------------

Add ==
    /\ ~built /\ added < Len(l)
    /\ LET p == l[added + 1]
       IN /\ glob' = IF p.literal THEN AddLiteral(glob, p.pat, added) ELSE AddTo(glob, p.pat, added)
          /\ refused' = IF ~p.literal /\ [glob' EXCEPT !.max = glob.max] = glob THEN refused \cup {added + 1} ELSE refused
    /\ added' = added + 1
    /\ UNCHANGED <<l, built, asked>>

Build ==
    /\ ~built /\ added = Len(l)
    /\ glob' = BuildGlob(glob)
    /\ built' = TRUE
    /\ UNCHANGED <<l, added, refused, asked>>

Query(s) ==
    /\ built
    /\ asked' = [name |-> s, value |-> Find(glob, s)]
    /\ UNCHANGED <<l, glob, added, refused, built>>

GlobInit ==
    /\ \E family \in Lists : l \in family
    /\ glob = NewGlob /\ added = 0 /\ refused = {} /\ built = FALSE /\ asked = None

GlobNext == Add \/ Build \/ \E s \in Names : Query(s)

GlobSpec == GlobInit /\ [][GlobNext]_globVars

-----------------------------------------------------------------------------
(* What a pattern means: a star stands for any characters, a question for  *)
(* any one and a class for one of its own.                                 *)

RECURSIVE Means(_, _)
Means(pat, s) ==
    IF pat = <<>> THEN s = <<>>
    ELSE LET c == Head(pat)
             rest == Tail(pat)
             One(chars, after) == s # <<>> /\ Head(s) \in chars /\ Means(after, Tail(s))
         IN CASE c = Star -> \E k \in 0 .. Len(s) : Means(rest, SubSeq(s, k + 1, Len(s)))
              [] c = Question -> One(Chars, rest)
              [] c = Backslash /\ rest # <<>> -> One({Head(rest)}, Tail(rest))
              [] c = Open -> LET end == CHOOSE i \in DOMAIN rest : rest[i] = Close /\ \A j \in 1 .. i - 1 : rest[j] # Close
                             IN One(Bracket(SubSeq(rest, 1, end - 1), None, {}), SubSeq(rest, end + 1, Len(rest)))
              [] OTHER -> One({c}, rest)

\* The answer to a query is the largest value of a pattern that means the name
\* asked for, -1 if there is none, however the builder sorted the patterns and
\* whatever was asked before; a malformed pattern means nothing (GlobBuilder::add,
\* build and Glob::find)
LargestMatchIsFound ==
    asked # None =>
        LET hits == {i \in 1 .. Len(l) \ refused : IF l[i].literal THEN l[i].pat = asked.name ELSE Means(l[i].pat, asked.name)}
        IN asked.value = IF hits = {} THEN -1 ELSE (CHOOSE i \in hits : \A j \in hits : j <= i) - 1
=============================================================================
