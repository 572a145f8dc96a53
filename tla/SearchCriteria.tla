--------------------------- MODULE SearchCriteria ---------------------------
(***************************************************************************)
(* The rule's search section from loading to the server's answer:         *)
(* SearchConfig.Validate, the criteria compiler BuildSearchCriteria with   *)
(* its AND / OR / NOT builders, and an IMAP server evaluating the compiled *)
(* imap.SearchCriteria over a fixed mailbox.                               *)
(*                                                                         *)
(* A SearchConfig node is a record carrying both the combinator fields     *)
(* (op, conds) and the leaf fields, as the Go struct does.  Leaf data is   *)
(* abstracted: every positive condition (header, subject, body, text,      *)
(* flags.has, size) is an element of Atoms that a message satisfies or     *)
(* not, flags.not_has is a set of such atoms, and dates are day numbers.   *)
(* The compiled query is a record with the imap.SearchCriteria fields the  *)
(* compiler sets: Since, Before, positive and NotFlag conditions, the UID  *)
(* sets, the Not list and the Or pair list.                                *)
(***************************************************************************)
EXTENDS Integers, FiniteSets, SequencesExt

CONSTANTS
    Atoms,      \* positive leaf conditions a message may satisfy
    Today,      \* the day time.Now() falls on; days are 1..Today
    BadDate,    \* a date string parseDate rejects
    UIDWidth,   \* bits of an imap.UID (32 in the code)
    Mailbox,    \* the messages: [uid, date, atoms]
    Rules       \* the (search, output) pairs a caller may hand over

Days == 1..Today
UIDMod == 2^UIDWidth

ASSUME Mailbox # {} /\ \A m \in Mailbox : m.uid \in 1..UIDMod-1 /\ m.date \in Days

VARIABLES
    rule,       \* [search |-> SearchConfig, output |-> [after, before]]
    validated,  \* Rule.Validate has accepted the rule
    stage,      \* where the rule is: loaded, rejected, compiled, failed, searched
    criteria,   \* the compiled imap.SearchCriteria
    found       \* the messages the server's SEARCH answered with

vars == <<rule, validated, stage, criteria, found>>

-----------------------------------------------------------------------------
(* The compiled query and the compiler's (criteria, error) result.         *)

EmptyQuery ==
    [since |-> 0, before |-> 0, has |-> {}, notFlag |-> {},
     uid |-> {}, not |-> {}, or |-> {}]
Ok(q) == [err |-> FALSE, q |-> q]
Err   == [err |-> TRUE, q |-> EmptyQuery]

\* A nil *OutputConfig; only the UID bounds of an output config reach the
\* compiled query.
NoOutput == [after |-> 0, before |-> 0]

\* imap.SearchCriteria.And: the conjunction of two queries.  Since and
\* Before keep the tighter bound, the list fields are concatenated.
Conjoin(q1, q2) ==
    [since   |-> IF q1.since >= q2.since THEN q1.since ELSE q2.since,
     before  |-> CASE q1.before = 0 -> q2.before
                   [] q2.before = 0 -> q1.before
                   [] OTHER -> IF q1.before <= q2.before THEN q1.before ELSE q2.before,
     has     |-> q1.has \cup q2.has,
     notFlag |-> q1.notFlag \cup q2.notFlag,
     uid     |-> q1.uid \cup q2.uid,
     not     |-> q1.not \cup q2.not,
     or      |-> q1.or \cup q2.or]

-----------------------------------------------------------------------------
(* The leaf branch of BuildSearchCriteria.                                 *)

DateError(c) == BadDate \in {c.since, c.before, c.on}

\* criteria.Since is assigned by since, then overwritten by on, then by
\* within_days; criteria.Before by before, then overwritten by on.
LeafSinceWithinForward(c) ==
    IF c.within > 0 THEN Today + c.within ELSE IF c.on # 0 THEN c.on ELSE c.since
LeafSince(c) ==
    IF c.within > 0 THEN Today - c.within ELSE IF c.on # 0 THEN c.on ELSE c.since
LeafBeforeSameDay(c) == IF c.on # 0 THEN c.on ELSE c.before
LeafBefore(c) == IF c.on # 0 THEN c.on + 1 ELSE c.before

\* uint32 arithmetic on UIDs.
Wrap(n) == n % UIDMod

\* The UID range put on the query for after_uid / before_uid; a bound 0
\* passed to UIDSet.AddRange stands for "*".
UIDRange(out) ==
    CASE out.after > 0 /\ out.before > 0 -> {<<Wrap(out.after + 1), Wrap(out.before - 1)>>}
      [] out.after > 0 -> {<<Wrap(out.after + 1), 0>>}
      [] out.before > 0 -> {<<1, Wrap(out.before - 1)>>}
      [] OTHER -> {}

BuildLeaf(c, out) ==
    IF DateError(c) THEN Err
    ELSE Ok([EmptyQuery EXCEPT !.since = LeafSince(c), !.before = LeafBefore(c),
                               !.has = c.has, !.notFlag = c.hasNot,
                               !.uid = UIDRange(out)])

-----------------------------------------------------------------------------
(* The combinator builders.  Every child is compiled independently; the    *)
(* output config is passed to the first child of AND, to the only child    *)
(* of a one-child OR and to the child of NOT, and nil everywhere else.     *)

RECURSIVE BuildSearchCriteria(_, _), BuildComplex(_, _), BuildSingle(_, _),
          BuildAnd(_, _), BuildOr(_, _), BuildNot(_, _)

BuildAnd(cs, out) ==
    LET first == BuildSingle(cs[1], out)
        rest  == [i \in 1..Len(cs) - 1 |-> BuildSingle(cs[i + 1], NoOutput)]
    IN  IF first.err \/ \E i \in DOMAIN rest : rest[i].err THEN Err
        ELSE Ok(FoldLeft(LAMBDA q, r : Conjoin(q, r.q), first.q, rest))

\* Children are paired (1,2), (3,4), ...; an odd last child is paired with
\* itself.  The pairs become the Or list of an otherwise empty query.
BuildOr(cs, out) ==
    IF Len(cs) = 1 THEN BuildSingle(cs[1], out)
    ELSE LET pairs == 1..((Len(cs) + 1) \div 2)
             left  == [k \in pairs |-> BuildSingle(cs[2 * k - 1], NoOutput)]
             right == [k \in pairs |-> IF 2 * k <= Len(cs)
                                       THEN BuildSingle(cs[2 * k], NoOutput)
                                       ELSE left[k]]
         IN  IF \E k \in pairs : left[k].err \/ right[k].err THEN Err
             ELSE Ok([EmptyQuery EXCEPT !.or = {<<left[k].q, right[k].q>> : k \in pairs}])

BuildNot(c, out) ==
    LET sub == BuildSingle(c, out)
    IN  IF sub.err THEN Err ELSE Ok([EmptyQuery EXCEPT !.not = {sub.q}])

BuildComplex(c, out) ==
    CASE c.op = "and" -> BuildAnd(c.conds, out)
      [] c.op = "or"  -> BuildOr(c.conds, out)
      [] c.op = "not" -> IF Len(c.conds) > 1 THEN Err ELSE BuildNot(c.conds[1], out)
      [] OTHER        -> Err

BuildSingle(c, out) ==
    IF c.op # "" /\ c.conds # <<>> THEN BuildComplex(c, out)
    ELSE BuildSearchCriteria(c, out)

BuildSearchCriteria(c, out) ==
    IF c.op # "" THEN IF c.conds = <<>> THEN Err ELSE BuildComplex(c, out)
    ELSE BuildLeaf(c, out)

-----------------------------------------------------------------------------
(* SearchConfig.Validate.                                                  *)

ValidOperatorNodeAnyArity(s) ==
    s.op \in {"and", "or", "not"} /\ s.conds # <<>>
ValidOperatorNode(s) ==
    /\ s.op \in {"and", "or", "not"}
    /\ s.conds # <<>>
    /\ s.op = "not" => Len(s.conds) <= 1

RECURSIVE Validate(_)
Validate(s) ==
    /\ ~DateError(s)
    /\ s.op # "" => /\ ValidOperatorNode(s)
                    /\ \A i \in DOMAIN s.conds : Validate(s.conds[i])

-----------------------------------------------------------------------------
(* The IMAP server's SEARCH.  In a UID set "*" is the largest UID in the   *)
(* mailbox, and a range a:b contains the same UIDs as b:a.                 *)

StarUID == CHOOSE u \in {m.uid : m \in Mailbox} : \A m \in Mailbox : m.uid <= u
Resolve(x) == IF x = 0 THEN StarUID ELSE x
InUIDRange(r, u) ==
    LET a == Resolve(r[1])
        b == Resolve(r[2])
    IN  (a <= u /\ u <= b) \/ (b <= u /\ u <= a)

RECURSIVE Matches(_, _)
Matches(q, m) ==
    /\ m.date >= q.since
    /\ q.before = 0 \/ m.date < q.before
    /\ q.has \subseteq m.atoms
    /\ q.notFlag \cap m.atoms = {}
    /\ \A r \in q.uid : InUIDRange(r, m.uid)
    /\ \A n \in q.not : ~Matches(n, m)
    /\ \A p \in q.or : Matches(p[1], m) \/ Matches(p[2], m)

-----------------------------------------------------------------------------

Init ==
    /\ rule \in Rules
    /\ validated = FALSE
    /\ stage = "loaded"
    /\ criteria = EmptyQuery
    /\ found = {}

\* Rule.Validate, run by the rule loader before the rule is used.
AcceptRule ==
    /\ stage = "loaded" /\ ~validated
    /\ Validate(rule.search)
    /\ validated' = TRUE
    /\ UNCHANGED <<rule, stage, criteria, found>>

RejectRule ==
    /\ stage = "loaded" /\ ~validated
    /\ ~Validate(rule.search)
    /\ stage' = "rejected"
    /\ UNCHANGED <<rule, validated, criteria, found>>

\* Step 1 of FetchMessages, which any caller of the package may reach with
\* a rule that was never validated.
BuildCriteria ==
    /\ stage = "loaded"
    /\ LET res == BuildSearchCriteria(rule.search, rule.output)
       IN  \/ /\ ~res.err
              /\ stage' = "compiled"
              /\ criteria' = res.q
           \/ /\ res.err
              /\ stage' = "failed"
              /\ UNCHANGED criteria
    /\ UNCHANGED <<rule, validated, found>>

\* Step 2 of FetchMessages: the server evaluates the criteria.
ExecuteSearch ==
    /\ stage = "compiled"
    /\ found' = {m \in Mailbox : Matches(criteria, m)}
    /\ stage' = "searched"
    /\ UNCHANGED <<rule, validated, criteria>>

Finished ==
    /\ stage \in {"rejected", "failed", "searched"}
    /\ UNCHANGED vars

Next == AcceptRule \/ RejectRule \/ BuildCriteria \/ ExecuteSearch \/ Finished

Spec == Init /\ [][Next]_vars

-----------------------------------------------------------------------------
(* What a rule means (spec sections 3 and 4.1): the fields set on one leaf *)
(* are ANDed; AND, OR and NOT are the boolean connectives over all the     *)
(* children, whatever their number; after_uid and before_uid are strict   *)
(* bounds on the UID ("Fetch messages with UIDs greater / less than this   *)
(* value", OutputConfig).                                                  *)

LeafHolds(c, m) ==
    /\ c.since = 0 \/ m.date >= c.since
    /\ c.before = 0 \/ m.date < c.before
    /\ c.on = 0 \/ m.date = c.on
    /\ c.within = 0 \/ m.date >= Today - c.within
    /\ c.has \subseteq m.atoms
    /\ c.hasNot \cap m.atoms = {}

RECURSIVE Denote(_, _)
Denote(c, m) ==
    CASE c.op = "and" -> \A i \in DOMAIN c.conds : Denote(c.conds[i], m)
      [] c.op = "or"  -> \E i \in DOMAIN c.conds : Denote(c.conds[i], m)
      [] c.op = "not" -> ~Denote(c.conds[1], m)
      [] OTHER        -> LeafHolds(c, m)

InUIDBounds(out, u) ==
    /\ out.after = 0 \/ u > out.after
    /\ out.before = 0 \/ u < out.before

RECURSIVE QueryOK(_)
QueryOK(q) ==
    /\ DOMAIN q = {"since", "before", "has", "notFlag", "uid", "not", "or"}
    /\ q.since \in 0..Today
    /\ q.before \in 0..Today + 1
    /\ q.has \subseteq Atoms /\ q.notFlag \subseteq Atoms
    /\ q.uid \subseteq (0..UIDMod - 1) \X (0..UIDMod - 1)
    /\ \A n \in q.not : QueryOK(n)
    /\ \A p \in q.or : QueryOK(p[1]) /\ QueryOK(p[2])

\* The compiled criteria are a well-formed imap.SearchCriteria whose dates
\* lie within the calendar so far, however deeply the combinators nest.
TypeOK ==
    /\ validated \in BOOLEAN
    /\ stage \in {"loaded", "rejected", "compiled", "failed", "searched"}
    /\ QueryOK(criteria)
    /\ found \subseteq Mailbox

\* A rule that SearchConfig.Validate accepted never makes
\* BuildSearchCriteria fail: the validator rejects every tree the compiler
\* cannot translate, at any depth (unknown operator, empty condition list,
\* NOT with several children, unparseable date).
ValidatedRulesCompile ==
    stage = "failed" => ~validated

\* The messages the server returns for the compiled criteria are exactly
\* the messages the rule's predicate tree describes, inside the UID
\* bounds: compiling each child separately, merging AND children with
\* SearchCriteria.And, OR pairs and NOT wrappers preserves the meaning.
SearchMatchesRule ==
    stage = "searched" =>
        found = {m \in Mailbox : Denote(rule.search, m) /\ InUIDBounds(rule.output, m.uid)}


=============================================================================
