--------------------------- MODULE FetchMessages ---------------------------
(***************************************************************************)
(* Rule.FetchMessages of the batched pipeline (src/unnamed/part_001): one  *)
(* search, pagination of the matches into a newest-first window, a first   *)
(* FETCH of structure for the window, a single batched FETCH of every      *)
(* needed MIME section, and assembly of the fragments back onto their      *)
(* messages by a (sequence number, part path) key.                         *)
(*                                                                         *)
(* The IMAP server is the environment: which messages the search matched, *)
(* whether it answers a COUNT without the ALL list, which fragments it     *)
(* returns and whether a round trip fails are nondeterministic choices.    *)
(***************************************************************************)
EXTENDS Integers, SequencesExt

CONSTANTS
    NumMsgs,        \* messages in the selected mailbox: sequence numbers 1..NumMsgs
    Body,           \* Body[s]: MIME parts of message s, records [path, mt]
    Modes,          \* content projections a rule may ask for
    FilterTypes,    \* the mime_parts "types" list used in filter mode
    Limits,         \* values of output.limit a rule may carry
    Offsets,        \* values of output.offset a rule may carry
    CountOnlyServer,    \* the server may answer ESEARCH with COUNT and no ALL
    FragmentsMayBeLost  \* the server may omit a requested body section

Seqs == 1..NumMsgs
Paths == {part.path : part \in UNION {Body[s] : s \in Seqs}}

ASSUME NumMsgs \in Nat \ {0}
ASSUME Body \in [Seqs -> SUBSET [path : Nat, mt : [type : STRING, subtype : STRING]]]
ASSUME Modes \subseteq {"none", "text_only", "full", "filter"}
ASSUME Limits \subseteq Nat /\ Offsets \subseteq Nat
ASSUME CountOnlyServer \in BOOLEAN /\ FragmentsMayBeLost \in BOOLEAN

VARIABLES
    rule,       \* [limit, offset, mode]: the rule's output config (read only)
    matches,    \* the set of sequence numbers the server's search matches
    pc,         \* the step of FetchMessages about to run
    seqNums,    \* seqNums: sequence numbers the search (or UID fetch) returned
    totalFound, \* totalFound: the count reported to the caller
    seqSet,     \* seqSet: the paginated window sent to the first FETCH
    messages,   \* messages: sequence numbers returned by the first FETCH, in order
    toFetch,    \* messagesToFetch: messages that need MIME content
    contentMap, \* contentMap: section key -> fragment returned by the batch FETCH
    lost,       \* fragments the server was asked for and did not return (history)
    result      \* result: assembled EmailMessages, in the order they are appended

vars == <<rule, matches, pc, seqNums, totalFound, seqSet, messages, toFetch,
          contentMap, lost, result>>

(***************************************************************************)
(* Data abstraction.  A fragment's content is the identity of the section  *)
(* the server sent it for, so that attribution can be checked.             *)
(***************************************************************************)
Fragment(s, p) == <<s, p>>
Content == Seqs \X Paths
EmailRecord == [seq : Seqs, parts : SUBSET [path : Paths, content : Content],
                total : Nat]

\* ContentField.ShouldInclude: whether a part's media type is selected.
ShouldInclude(mode, mt) ==
    CASE mode = "text_only" -> mt.type = "text" /\ mt.subtype = "plain"
      [] mode = "filter"    -> \/ FilterTypes = {}
                               \/ \E t \in FilterTypes :
                                    IF t.subtype = "*" THEN t.type = mt.type
                                                       ELSE t = mt
      [] OTHER              -> TRUE

\* determineRequiredBodySections: paths of the parts whose content is needed;
\* none when the output asks for neither body nor mime_parts content.
ModePaths(mode, s) ==
    IF mode = "none" THEN {}
    ELSE {part.path : part \in {q \in Body[s] : ShouldInclude(mode, q.mt)}}
RequiredPaths(s) == ModePaths(rule.mode, s)

\* sectionKey: the composite key under which a fragment is stored and looked up.
SectionKey(s, p) == <<s, p>>

\* Mutant: a message with a single needed part is treated as needing none.
NeedsSeveralParts(s) == Cardinality(RequiredPaths(s)) > 1

\* Only messages with MIME parts to fetch are queued for the batch.
NeedsContent(s) == RequiredPaths(s) # {}

\* A sequence range as the server reads it: 0 stands for "*", the largest
\* sequence number, and a:b names the same messages as b:a.
IMAPSeqRange(a, b) ==
    LET lo == IF a = 0 THEN NumMsgs ELSE a
        hi == IF b = 0 THEN NumMsgs ELSE b
    IN  {s \in Seqs : (lo <= s /\ s <= hi) \/ (hi <= s /\ s <= lo)}

Ascending(S) ==
    [i \in 1..Cardinality(S) |-> CHOOSE x \in S : Cardinality({y \in S : y < x}) = i - 1]
Cap(limit, n) == IF limit > 0 /\ limit < n THEN limit ELSE n
MaxOf(a, b) == IF a > b THEN a ELSE b

\* Mutant: the newest recovered number counted from zero.
StartSeqZeroBased(total, offset) == total - offset - 1

\* startSeq: the newest sequence number of the count-only recovery range.
StartSeq(total, offset) == total - offset

\* Mutant: the server count is added to, not preferred over, the list length.
TotalFoundAddsCount(count, list) == count + Len(list)

\* totalFound: the server's count when it sent one, else the list length.
TotalFound(count, list) == IF count > 0 THEN count ELSE Len(list)

\* Mutant: the window reaches one index further back.
EndIdxOneMore(startIdx, limit) == MaxOf(0, startIdx - limit)

\* endIdx: the oldest index of the page, clamped at the first match.
EndIdx(startIdx, limit) == MaxOf(0, startIdx - limit + 1)

(***************************************************************************)
(* Initial state: a rule with any of the allowed pagination/projection     *)
(* settings, against a mailbox in which any subset of messages matches.    *)
(***************************************************************************)
Init ==
    /\ rule \in [limit : Limits, offset : Offsets, mode : Modes]
    /\ matches \in SUBSET Seqs
    /\ pc = "search"
    /\ seqNums = <<>>
    /\ totalFound = 0
    /\ seqSet = {}
    /\ messages = <<>>
    /\ toFetch = <<>>
    /\ contentMap = <<>>
    /\ lost = {}
    /\ result = <<>>

\* Steps 1-3: BuildSearchCriteria asks for ALL and COUNT when limit > 0; the
\* server answers with the ascending match list, or (a count-only server)
\* with just the count; or the command fails.  totalFound prefers the count.
ExecuteSearch ==
    LET wantCount == rule.limit > 0
        count     == IF wantCount THEN Cardinality(matches) ELSE 0
        lists     == IF wantCount /\ CountOnlyServer
                     THEN {Ascending(matches), <<>>} ELSE {Ascending(matches)}
    IN
    /\ pc = "search"
    /\ \/ \E list \in lists :
            LET total == TotalFound(count, list) IN
            /\ seqNums' = list
            /\ totalFound' = total
            /\ pc' = CASE total = 0    -> "done"
                       [] list = <<>> -> "countonly"
                       [] OTHER       -> "paginate"
       \/ /\ pc' = "failed"
          /\ UNCHANGED <<seqNums, totalFound>>
    /\ UNCHANGED <<rule, matches, seqSet, messages, toFetch, contentMap, lost, result>>

\* A count but no sequence numbers: rebuild the newest messages as the
\* sequence range [endSeq, startSeq], fetch their UIDs and reverse them.
FetchMostRecent ==
    LET limit    == Cap(rule.limit, totalFound)
        startSeq == StartSeq(totalFound, rule.offset)
        endSeq   == MaxOf(1, startSeq - limit + 1)
    IN
    /\ pc = "countonly"
    /\ \/ /\ rule.offset > totalFound
          /\ pc' = "done"
          /\ UNCHANGED seqNums
       \/ /\ rule.offset <= totalFound
          /\ seqNums' = Reverse(Ascending(IMAPSeqRange(endSeq, startSeq)))
          /\ pc' = "paginate"
       \/ /\ rule.offset <= totalFound
          /\ pc' = "failed"
          /\ UNCHANGED seqNums
    /\ UNCHANGED <<rule, matches, totalFound, seqSet, messages, toFetch,
                   contentMap, lost, result>>

\* Step 4: clamp limit and offset, index the newest messages from the end.
Paginate ==
    LET n        == Len(seqNums)
        limit    == Cap(rule.limit, n)
        offset   == IF rule.offset > n THEN n ELSE rule.offset
        startIdx == n - 1 - offset
        endIdx   == EndIdx(startIdx, limit)
    IN
    /\ pc = "paginate"
    /\ \/ /\ 0 <= startIdx /\ startIdx < n
          /\ seqSet' = {seqNums[i + 1] : i \in endIdx..startIdx}
          /\ pc' = "structure"
       \/ /\ ~(0 <= startIdx /\ startIdx < n)
          /\ pc' = "done"
          /\ UNCHANGED seqSet
    /\ UNCHANGED <<rule, matches, seqNums, totalFound, messages, toFetch,
                   contentMap, lost, result>>

\* Steps 5-6: one FETCH of envelope, flags and structure for the whole set;
\* the server answers in ascending sequence order.
FetchStructure ==
    /\ pc = "structure"
    /\ \/ messages' = Ascending(seqSet) /\ pc' = "analyse"
       \/ pc' = "failed" /\ UNCHANGED messages
    /\ UNCHANGED <<rule, matches, seqNums, totalFound, seqSet, toFetch,
                   contentMap, lost, result>>

\* Step 7, first pass: messages needing no content are converted at once;
\* the others are queued for the batch.  No queued message ends the call.
AnalyseStructures ==
    LET plain  == SelectSeq(messages, LAMBDA s : ~NeedsContent(s))
        queued == SelectSeq(messages, LAMBDA s : NeedsContent(s))
    IN
    /\ pc = "analyse"
    /\ toFetch' = queued
    /\ result' = result \o [i \in 1..Len(plain) |->
                     [seq |-> plain[i], parts |-> {}, total |-> totalFound]]
    /\ pc' = IF queued = <<>> THEN "done" ELSE "batch"
    /\ UNCHANGED <<rule, matches, seqNums, totalFound, seqSet, messages,
                   contentMap, lost>>

\* Second pass: one FETCH for every queued message and the union of their
\* sections.  Each fragment is stored under its key, the later write
\* winning; sections a message does not have come back without a literal.
BatchFetch ==
    LET batch     == ToSet(toFetch)
        sections  == UNION {RequiredPaths(s) : s \in batch}
        available == {<<s, p>> \in batch \X sections :
                        p \in {part.path : part \in Body[s]}}
        \* the server streams messages by ascending number, sections in order
        last(F)   == CHOOSE f \in F : \A g \in F :
                         g[1] < f[1] \/ (g[1] = f[1] /\ g[2] <= f[2])
        Store(returned) ==
            [k \in {SectionKey(f[1], f[2]) : f \in returned} |->
                LET f == last({g \in returned : SectionKey(g[1], g[2]) = k})
                IN  Fragment(f[1], f[2])]
    IN
    /\ pc = "batch"
    /\ \/ \E returned \in (IF FragmentsMayBeLost THEN SUBSET available
                                                 ELSE {available}) :
            /\ contentMap' = Store(returned)
            /\ lost' = available \ returned
            /\ pc' = "assemble"
       \/ pc' = "failed" /\ UNCHANGED <<contentMap, lost>>
    /\ UNCHANGED <<rule, matches, seqNums, totalFound, seqSet, messages,
                   toFetch, result>>

\* Third pass: each queued message gets the parts whose key is in the
\* content map; a part with no fragment is skipped.
AssembleBatch ==
    LET partsOf(s) == {[path |-> p, content |-> contentMap[SectionKey(s, p)]] :
                         p \in {q \in RequiredPaths(s) :
                                   SectionKey(s, q) \in DOMAIN contentMap}}
    IN
    /\ pc = "assemble"
    /\ result' = result \o [i \in 1..Len(toFetch) |->
                     [seq |-> toFetch[i], parts |-> partsOf(toFetch[i]),
                      total |-> totalFound]]
    /\ pc' = "done"
    /\ UNCHANGED <<rule, matches, seqNums, totalFound, seqSet, messages,
                   toFetch, contentMap, lost>>

\* FetchMessages has returned (results or nil, or an error).
Returned ==
    /\ pc \in {"done", "failed"}
    /\ UNCHANGED vars

Next ==
    \/ ExecuteSearch
    \/ FetchMostRecent
    \/ Paginate
    \/ FetchStructure
    \/ AnalyseStructures
    \/ BatchFetch
    \/ AssembleBatch
    \/ Returned

Spec == Init /\ [][Next]_vars

\* Each step of FetchMessages runs once its predecessor has returned: the
\* function is a straight sequence of calls, every one of which the server
\* answers (with data or an error).
FairSpec == Spec /\ WF_vars(Next)

-----------------------------------------------------------------------------
(***************************************************************************)
(* Properties.                                                             *)
(***************************************************************************)
PathsIn(parts) == {part.path : part \in parts}
ResultSeqs == {result[i].seq : i \in DOMAIN result}

TypeOK ==
    /\ rule \in [limit : Limits, offset : Offsets, mode : Modes]
    /\ matches \subseteq Seqs
    /\ pc \in {"search", "countonly", "paginate", "structure", "analyse",
               "batch", "assemble", "done", "failed"}
    /\ seqNums \in Seq(Seqs)
    /\ totalFound \in 0..NumMsgs
    /\ seqSet \subseteq Seqs
    /\ messages \in Seq(Seqs) /\ toFetch \in Seq(Seqs)
    /\ \A k \in DOMAIN contentMap : contentMap[k] \in Content
    /\ lost \subseteq Seqs \X Paths
    /\ result \in Seq(EmailRecord)

\* The page the rule asks for, stated by rank rather than by index: skip the
\* `offset` newest matches and keep the next `limit` (all when limit = 0).
NewerMatches(m) == Cardinality({x \in matches : x > m})
ExpectedWindow ==
    {m \in matches : /\ NewerMatches(m) >= rule.offset
                     /\ rule.limit = 0 \/ NewerMatches(m) < rule.offset + rule.limit}

\* When FetchMessages returns without error it has returned each message of
\* the requested page exactly once and nothing else: the index arithmetic
\* over the search result, the offset clamping and the two passes that
\* split messages by whether they need content lose and duplicate nothing.
ResultIsRequestedPage ==
    pc = "done" =>
        /\ ResultSeqs = ExpectedWindow
        /\ Len(result) = Cardinality(ExpectedWindow)

\* A part the projection selects is missing from a returned message only if
\* the server left that section out of the batch response: every needed
\* section was requested from the right message.
MissingOnlyWhenServerDropped ==
    pc = "done" =>
        \A i \in DOMAIN result :
            \A p \in RequiredPaths(result[i].seq) :
                p \in PathsIn(result[i].parts) \/ <<result[i].seq, p>> \in lost

\* The batched fetcher implements Retrieval: the caller sees nothing until
\* FetchMessages returns, and then the result or an error.
Abstract == INSTANCE Retrieval WITH
    Needed <- ModePaths,
    status <- CASE pc = "done"   -> "done"
                [] pc = "failed" -> "failed"
                [] OTHER         -> "running",
    page   <- IF pc = "done" THEN result ELSE <<>>

\* Every call of the batched FetchMessages returns, and what it returns is
\* a step of Retrieval: the requested page, each message once, with the
\* match count and its own sections, or an error with nothing.
BatchedRefinesRetrieval == Abstract!Spec

\* The count-only recovery rebuilds the window as the sequence range
\* [count - offset - limit + 1, count - offset], i.e. as if the search had
\* matched messages 1..count.  On that premise, for a rule read from a file
\* (offset 0), the UID FETCH of the range, its reversal and the second
\* pagination of step 4 together return exactly the requested page.
CountOnlyExactOnItsPremise ==
    pc = "done" /\ rule.offset = 0 /\ matches = 1..Cardinality(matches) =>
        /\ ResultSeqs = ExpectedWindow
        /\ Len(result) = Cardinality(ExpectedWindow)

\* spec 4.2, 4.3 step 4 and P9: the result is assembled as the spec
\* describes it.  The window is iterated newest first, so the returned
\* messages are in descending sequence order; and a needed part whose
\* fragment is absent is still returned, with empty content, next to the
\* parts that were found.
AssembledAsSpecified ==
    pc = "done" =>
        /\ \A i, j \in DOMAIN result : i < j => result[i].seq > result[j].seq
        /\ \A i \in DOMAIN result :
               PathsIn(result[i].parts) = RequiredPaths(result[i].seq)

=============================================================================
