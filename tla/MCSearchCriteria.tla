------------------------- MODULE MCSearchCriteria --------------------------
(***************************************************************************)
(* Three messages on three days with UIDs 2, 4, 6 (so "*" is 6), a 3-bit   *)
(* UID so that after_uid + 1 can wrap, and predicate trees of depth two    *)
(* over a handful of leaves.                                               *)
(***************************************************************************)
EXTENDS SearchCriteria

MCAtoms == {"a", "b"}
MCToday == 3
MCUIDWidth == 3
MCMailbox ==
    { [uid |-> 2, date |-> 1, atoms |-> {"a"}],
      [uid |-> 4, date |-> 2, atoms |-> {"a", "b"}],
      [uid |-> 6, date |-> 3, atoms |-> {"b"}] }

\* A SearchConfig with nothing set, and the leaves used below.
Blank == [op |-> "", conds |-> <<>>, since |-> 0, before |-> 0, on |-> 0,
          within |-> 0, has |-> {}, hasNot |-> {}]
LeafA     == [Blank EXCEPT !.has = {"a"}]
LeafB     == [Blank EXCEPT !.has = {"b"}]
LeafNotA  == [Blank EXCEPT !.hasNot = {"a"}]
LeafOn2   == [Blank EXCEPT !.on = 2]
LeafRange == [Blank EXCEPT !.since = 2, !.before = 3]
LeafWithin1 == [Blank EXCEPT !.within = 1]
LeafBad   == [Blank EXCEPT !.since = BadDate]
\* Two leaves setting date fields that the compiler assigns to the same
\* criteria field.
LeafBeforeOn == [Blank EXCEPT !.before = 2, !.on = 3]
LeafSinceWithin == [Blank EXCEPT !.since = 3, !.within = 2]

Node(op, cs) == [Blank EXCEPT !.op = op, !.conds = cs]
Nodes(ops, S, lens) == {Node(op, cs) : op \in ops, cs \in UNION {[1..k -> S] : k \in lens}}

Leaves == {LeafA, LeafB, LeafNotA, LeafOn2, LeafRange, LeafWithin1, LeafBad}
\* Depth one: every operator the YAML may name, with zero to two children.
Depth1 == Nodes({"and", "or", "not", "xor"}, Leaves, 0..2)
\* Depth two over a smaller set of inner trees.
Inner == {LeafA, LeafB, LeafNotA} \cup Nodes({"and", "or", "not"}, {LeafA, LeafB, LeafNotA}, 1..2)
Depth2 == Nodes({"and", "or", "not"}, Inner, 1..2)

\* OutputConfig.UnmarshalYAML drops after_uid and before_uid: every rule
\* read from a file has both 0.
YAMLOutputs == {NoOutput}
AllOutputs == [after : 0..UIDMod - 1, before : 0..UIDMod - 1]
\* Bounds that leave a non-empty range below "*": before_uid >= after_uid + 2
\* and after_uid below the largest UID.
PlainOutputs ==
    {o \in AllOutputs : /\ o.before = 0 \/ o.before >= o.after + 2
                        /\ o.after < StarUID}

RulesCompile   == [search : Leaves \cup Depth1 \cup Depth2, output : YAMLOutputs]
RulesUIDWindow == [search : Leaves \cup Nodes({"and"}, Leaves, 1..2), output : PlainOutputs]
RulesUIDEdges  == [search : {LeafA, LeafB}, output : AllOutputs]
RulesUIDNot    == [search : Nodes({"not"}, {LeafA, LeafB}, 1..1), output : PlainOutputs]
RulesUIDOr     == [search : Nodes({"or"}, {LeafA, LeafB}, 2..2), output : PlainOutputs]
RulesWideOr    == [search : Nodes({"or"}, {LeafA, LeafB, LeafNotA}, 3..3), output : YAMLOutputs]
RulesDateFields == [search : {LeafBeforeOn, LeafSinceWithin}, output : YAMLOutputs]

\* The rule sets of the runs: every tree without bounds together with leaf
\* and AND rules under ordinary bounds; and every rule the compiler reads
\* differently from the spec (bounds at the edges, under NOT and OR, wide
\* OR, conflicting date fields).
RulesCompileAndWindow == RulesCompile \cup RulesUIDWindow
RulesUIDEscape == RulesUIDEdges \cup RulesUIDNot \cup RulesUIDOr
RulesMeaning == RulesUIDEscape \cup RulesWideOr \cup RulesDateFields
=============================================================================
