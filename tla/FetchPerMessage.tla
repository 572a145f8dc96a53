-------------------------- MODULE FetchPerMessage --------------------------
(***************************************************************************)
(* Rule.FetchMessages of pkg/dsl/processor.go.  Steps 1-6 (search,         *)
(* count-only recovery, pagination, the structure FETCH) are the same code *)
(* as in the batched pipeline and are taken from FetchMessages by          *)
(* INSTANCE.  Step 7 differs: the messages are processed one at a time, a  *)
(* message that needs MIME content gets a FETCH of its own sections, the   *)
(* sections are stored under their part path alone, and every needed part  *)
(* is built from the content map, empty when the server sent nothing.     *)
(***************************************************************************)
EXTENDS Integers, SequencesExt

CONSTANTS NumMsgs, Body, Modes, FilterTypes, Limits, Offsets,
          CountOnlyServer, FragmentsMayBeLost

VARIABLES
    rule, matches, pc, seqNums, totalFound, seqSet, messages,
    cur,        \* msgIdx + 1: the message of the step-7 loop being processed
    lost,       \* sections requested and not returned (history)
    result      \* result: the EmailMessages appended so far

vars == <<rule, matches, pc, seqNums, totalFound, seqSet, messages, cur, lost, result>>

\* The batched pipeline's first six steps; it has no batch state here.
Shared == INSTANCE FetchMessages WITH toFetch <- <<>>, contentMap <- <<>>

\* MimePart content of a part whose section is not in the content map.
NoContent == <<>>

Init == Shared!Init /\ cur = 1

\* Steps 1-3: BuildSearchCriteria, SEARCH, totalFound, count-only recovery.
SearchSteps == (Shared!ExecuteSearch \/ Shared!FetchMostRecent) /\ UNCHANGED cur

\* Steps 4-6: the window, BuildFetchOptions and the structure FETCH.
WindowSteps == (Shared!Paginate \/ Shared!FetchStructure) /\ UNCHANGED cur

\* Mutant: the message's index in the window taken as its sequence number.
FetchedMessageByIndex(i) == i

\* msgSeqSet := imap.SeqSetNum(msg.SeqNum): the message the body FETCH names.
FetchedMessage(i) == messages[i]

\* Mutant: only the parts whose section came back are built.
PartsFoundOnly(f, needed, returned) ==
    {[path |-> p, content |-> Shared!Fragment(f, p)] : p \in returned}

\* One MimePart per needed path, with contentMap[path], empty if absent.
PartsOf(f, needed, returned) ==
    {[path |-> p, content |-> IF p \in returned THEN Shared!Fragment(f, p)
                                               ELSE NoContent] : p \in needed}

\* A message with no required sections is converted without a second FETCH.
ConvertMessage ==
    /\ pc = "analyse"
    /\ cur <= Len(messages)
    /\ Shared!RequiredPaths(messages[cur]) = {}
    /\ result' = Append(result, [seq |-> messages[cur], parts |-> {}, total |-> totalFound])
    /\ cur' = cur + 1
    /\ UNCHANGED <<rule, matches, pc, seqNums, totalFound, seqSet, messages, lost>>

\* The second FETCH for one message: the server returns some of the needed
\* sections (those of the message it was asked for), or no message data,
\* or an error, or a literal that cannot be read; the last three abort the
\* whole call.
FetchBody ==
    LET s         == messages[cur]
        needed    == Shared!RequiredPaths(s)
        f         == FetchedMessage(cur)
        available == {p \in needed : p \in {part.path : part \in Body[f]}}
    IN
    /\ pc = "analyse"
    /\ cur <= Len(messages)
    /\ needed # {}
    /\ \/ \E returned \in (IF FragmentsMayBeLost THEN SUBSET available ELSE {available}) :
            /\ result' = Append(result, [seq |-> s, parts |-> PartsOf(f, needed, returned),
                                         total |-> totalFound])
            /\ lost' = lost \cup {<<s, p>> : p \in needed \ returned}
            /\ cur' = cur + 1
            /\ UNCHANGED pc
       \/ /\ pc' = "failed"
          /\ UNCHANGED <<result, lost, cur>>
    /\ UNCHANGED <<rule, matches, seqNums, totalFound, seqSet, messages>>

\* The loop is over: FetchMessages returns the result.
Finish ==
    /\ pc = "analyse"
    /\ cur > Len(messages)
    /\ pc' = "done"
    /\ UNCHANGED <<rule, matches, seqNums, totalFound, seqSet, messages, cur, lost, result>>

Returned ==
    /\ pc \in {"done", "failed"}
    /\ UNCHANGED vars

Next ==
    \/ SearchSteps \/ WindowSteps
    \/ ConvertMessage \/ FetchBody \/ Finish
    \/ Returned

Spec == Init /\ [][Next]_vars

\* As in the batched pipeline, every step returns once the server answers.
FairSpec == Spec /\ WF_vars(Next)

-----------------------------------------------------------------------------
Abstract == INSTANCE Retrieval WITH
    Needed <- Shared!ModePaths,
    status <- CASE pc = "done"   -> "done"
                [] pc = "failed" -> "failed"
                [] OTHER         -> "running",
    page   <- IF pc = "done" THEN result ELSE <<>>

\* Every call of the per-message FetchMessages returns, and what it returns
\* is a step of Retrieval: the requested page, each message once, with the
\* match count and only its own sections, or an error with nothing.
PerMessageRefinesRetrieval == Abstract!Spec

\* spec 4.3 step 4 and P9: every part the rule selects is returned, and its
\* content is empty exactly when the server left its section out of that
\* message's FETCH.
MissingSectionsKeptEmpty ==
    pc = "done" =>
        \A i \in DOMAIN result :
            /\ {part.path : part \in result[i].parts} = Shared!RequiredPaths(result[i].seq)
            /\ \A part \in result[i].parts :
                   part.content = NoContent <=> <<result[i].seq, part.path>> \in lost
=============================================================================
