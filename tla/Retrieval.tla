----------------------------- MODULE Retrieval -----------------------------
(***************************************************************************)
(* What Rule.FetchMessages promises its caller, whichever fetcher runs:    *)
(* one call either fails or returns, once, the page of the search result   *)
(* the rule's output asks for.  The page skips the `offset` newest matches *)
(* and keeps the next `limit` (all when limit is 0), each message exactly  *)
(* once, carrying the total number of matches and only parts its rule     *)
(* selects, each part holding that message's own section or no content.   *)
(* The order of the page is left open.                                     *)
(***************************************************************************)
EXTENDS Integers, FiniteSets, Sequences

CONSTANTS
    NumMsgs,        \* messages in the mailbox: sequence numbers 1..NumMsgs
    Limits,         \* output.limit values a rule may carry
    Offsets,        \* output.offset values a rule may carry
    Modes,          \* content projections a rule may ask for
    Needed(_, _)    \* Needed(mode, s): part paths of message s the mode selects

VARIABLES
    rule,       \* [limit, offset, mode]
    matches,    \* the messages the rule's search matches
    status,     \* "running", "done" or "failed"
    page        \* the returned messages: Seq([seq, parts, total])

vars == <<rule, matches, status, page>>

Seqs == 1..NumMsgs

\* The content of a part whose section the server did not send.
NoContent == <<>>

Newer(m) == Cardinality({x \in matches : x > m})

\* The messages of the requested page, by rank among the matches.
Window ==
    {m \in matches : /\ Newer(m) >= rule.offset
                     /\ rule.limit = 0 \/ Newer(m) < rule.offset + rule.limit}

\* A returned message carries the match count, and parts of its own: each
\* path at most once, selected by the rule, with its own section or none.
Faithful(e) ==
    LET paths == {part.path : part \in e.parts} IN
    /\ e.total = Cardinality(matches)
    /\ Cardinality(paths) = Cardinality(e.parts)
    /\ paths \subseteq Needed(rule.mode, e.seq)
    /\ \A part \in e.parts : part.content \in {<<e.seq, part.path>>, NoContent}

IsPage(p) ==
    /\ Len(p) = Cardinality(Window)
    /\ {p[i].seq : i \in DOMAIN p} = Window
    /\ \A i \in DOMAIN p : Faithful(p[i])

Init ==
    /\ rule \in [limit : Limits, offset : Offsets, mode : Modes]
    /\ matches \in SUBSET Seqs
    /\ status = "running"
    /\ page = <<>>

\* The call returns the page.  (A predicate on page': the abstract
\* specification is checked as the image of a fetcher, never run alone.)
Return ==
    /\ status = "running"
    /\ status' = "done"
    /\ IsPage(page')
    /\ UNCHANGED <<rule, matches>>

\* The call returns an error and no messages.
Fail ==
    /\ status = "running"
    /\ status' = "failed"
    /\ page' = <<>>
    /\ UNCHANGED <<rule, matches>>

Next == Return \/ Fail

\* Every call returns: the caller is never left waiting.  A page exists
\* whenever the call is running, so ENABLED Next is status = "running" and
\* WF_vars(Next) says exactly this.
Returns == <>(status # "running")

Spec == Init /\ [][Next]_vars /\ Returns
=============================================================================
