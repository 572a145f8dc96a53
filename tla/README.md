# TLA+ models of smailnail's rule engine

smailnail runs YAML "rules" against an IMAP mailbox. A rule is a search
(a tree of AND/OR/NOT over leaf conditions), an output section (limit,
offset, UID bounds, which MIME parts to return) and optional actions
(flag, copy, move, delete, export). This directory holds TLA+ models of
the parts of that pipeline whose correctness depends on orderings,
index arithmetic and partial answers from the server: things a unit test
against one mock server hardly reaches.

## Inventory

| Part | Source | State | Operations | Status |
|---|---|---|---|---|
| Result windower | `src/unnamed/part_001` 30-190 (`Rule.FetchMessages` steps 1-4) | match list, count, window | SEARCH (list and/or count, or error), count-only recovery FETCH, limit/offset paging | modelled |
| Batched structure-aware fetcher | `src/unnamed/part_001` 192-479, `ContentField.ShouldInclude` (`src/unnamed/part_002` 349-403) | messages, to-fetch list, content map | structure FETCH, split, one section FETCH for all messages, assembly by `seq:path` key | modelled |
| Criteria compiler | `src/pkg/mailgen/funcs.go` 212-551 | none (pure) | `BuildSearchCriteria`, AND, OR pairing, NOT, UID bounds | modelled (ESEARCH RETURN options abstracted) |
| Config validation / YAML decoding | `src/unnamed/part_002` 108-329 | none (pure) | `SearchConfig.Validate`, `OutputConfig.Validate`, `OutputConfig.UnmarshalYAML` | partly (SearchConfig.Validate) |
| Per-message fetcher | `src/pkg/dsl/processor.go` 14-352 | as the batched fetcher, plus the loop index | steps 1-6 as above, then one section FETCH per message, content map keyed by part path | modelled |
| Legacy per-message fetcher | `FetchMessages` in `src/pkg/mailgen/funcs.go` 630-884 | as above | the same loop without ESEARCH COUNT and without `TotalCount` | not modelled (a stale copy; see Not modelled) |
| Action executor | `src/pkg/dsl/actions.go`, flag names of `convertToIMAPFlag` (funcs.go 589-616) | mailbox contents, UIDs, sequence numbers, flags | flag, copy, move, delete (Trash or \Deleted+EXPUNGE), export | modelled |
| imap-tests CLI | `src/cmd/imap-tests/...`, parts 013-014 | server mailboxes | list/delete/create mailbox, APPEND messages | partly (the store commands, as a second client of `ExecuteActions`) |
| mailgen | `src/pkg/mailgen` (`funcs.go` 117-198, `mailgen.go`), `src/cmd/mailgen/cmds/generate.go` | config files, generated emails, rows, files, appended messages | `validateVariables`, `TemplateConfig.Validate`, `Generate`'s loops, the command's read/prepare/emit loop | modelled in `MailGen` (template text abstracted) |

How they interact: `ProcessRule` compiles the search, `FetchMessages`
runs it and windows the result, the fetcher attaches the requested
parts, and the caller formats or acts on the messages. The server is the
only other actor; it answers each command with a full answer, a partial
answer (a count without a list, some sections missing) or an error.
Nothing in the code runs concurrently, so the model's nondeterminism is
entirely the server's. What the two fetchers promise their caller is
written once, as the abstract specification `Retrieval.tla`, and both
are shown to implement it.

mailgen is a separate tool that produces test mail. Its `generate`
command reads YAML configs, validates them and renders emails. It then
writes them as rows, as files and, optionally, as IMAP APPENDs. It
shares nothing with the rule engine except the server it may append to.

Hard behaviours (each is listed with its line in `PROJECT.json`
"hazards"): the count-only recovery that guesses sequence numbers from a
count; offset/limit arithmetic at 0 and at the list length; the loss of
newest-first order once the window becomes a sequence set; demultiplexing
one batched FETCH back into messages and parts; sections the server
omits; OR pairs that IMAP ANDs together; UID bounds at 1 and at 2^32-1;
UIDs sent as sequence numbers by every action; delete before export.

## Modules

### `FetchMessages.tla` (core)

One call of the batched `Rule.FetchMessages`. A `pc` variable walks the
steps of the function in the code's order; every server answer is a
nondeterministic choice.

| Variable | Code |
|---|---|
| `rule` | `rule.Output.Limit`, `Offset`, and the content-field mode |
| `matches` | the messages the server's SEARCH matches (sequence numbers `1..NumMsgs`) |
| `seqNums`, `totalFound` | `seqNums`, `totalFound` after SEARCH |
| `seqSet` | the window sent to the structure FETCH |
| `messages`, `toFetch` | `messages` and `messagesToFetch` of the first pass |
| `contentMap`, `lost` | the `sectionKey -> content` map of the batch, and the sections the server left out |
| `result` | the returned `[]*EmailMessage` (seq, parts, total count) |

Actions: `ExecuteSearch` (SEARCH with RETURN ALL/COUNT, preferring the
count), `FetchMostRecent` (count-only recovery: sequence range, UID
fetch, reverse), `Paginate` (offset clamp, `startIdx`/`endIdx`),
`FetchStructure`, `AnalyseStructures` (first pass), `BatchFetch` (one
FETCH of all needed sections; the server may drop sections or fail),
`AssembleBatch` (third pass), and `Returned`, the stutter of a finished
call. A part's content is modelled as the `<<seq, path>>` it was sent
for, so the model can tell whose content ended up where; bodies and MIME
types are a small fixed set of messages. `determineRequiredBodySections`
is not under `src/` and is modelled from the spec (`RequiredPaths`).

`MCFetchMessages.tla` fixes four messages (plain, plain+image,
html+image, html), all four content modes, limits `{0,1,2,3}` and
offsets `{0,1,3,5}`: limit 0 (all), limits below, at and above the
match count, offsets 0, inside the list and past its end. Every subset
of the messages may match, so every window position is reached.

### `Retrieval.tla` (abstract)

This is what a call of `Rule.FetchMessages` promises. It either fails
with nothing, or returns once the page the output asks for. The page
skips the `offset` newest matches and keeps the next `limit`. Each
message appears once and carries the match count. Each part is one the
rule selects and holds that message's own section or no content. The
order is left open, because neither fetcher keeps newest-first (see
`fetch_assembly`). `Returns` says every call returns. `Return`
states the page as a predicate on `page'`, so the module is checked only
as the image of a fetcher.

### `FetchPerMessage.tla`

This is `Rule.FetchMessages` of `pkg/dsl/processor.go`. Its steps 1-6
are the same lines as the batched pipeline's. The module takes them from
`FetchMessages` by `Shared == INSTANCE FetchMessages WITH toFetch <- <<>>,
contentMap <- <<>>` (`SearchSteps`, `WindowSteps`). Step 7 is its own:
- `ConvertMessage`: a message needing no section is converted at once.
- `FetchBody`: one FETCH of `SeqSetNum(msg.SeqNum)` (`FetchedMessage`).
  The server returns some of the sections, or fails. An absent message
  or an unreadable literal aborts the call.
- `PartsOf`: one part per needed path, with empty content when the path
  is missing from the content map.
- `Finish` ends the loop.

`cur` is the loop index and `lost` records omitted sections.

`FetchFixtures.tla` holds the four-message mailbox that both
fetcher MC modules use.

### `SearchCriteria.tla`

A rule's search section from loading to the server's answer. The
variables are the `rule` (search tree and UID bounds), whether
`Rule.Validate` accepted it (`validated`), the `stage`, the compiled
`criteria` and the messages `found`. Actions: `AcceptRule` /
`RejectRule` (`Rule.Validate` -> `SearchConfig.Validate`),
`BuildCriteria` (step 1 of `FetchMessages`, reachable with or without
validation since any package caller may call it), `ExecuteSearch` (the
server evaluates the criteria) and `Finished`.

The compiler is six mutually `RECURSIVE` operators named after the Go
functions (`BuildSearchCriteria`, `BuildComplex`, `BuildSingle`,
`BuildAnd`, `BuildOr`, `BuildNot`), each passing the output config to
the children the Go code passes it to and nil to the others. The leaf
branch keeps the order in which `since`, `before`, `on` and
`within_days` assign `criteria.Since`/`Before`, and the UID range keeps
the `uint32` arithmetic (`% 2^UIDWidth`) and go-imap's `0 = *`. Leaf
conditions other than dates (headers, body, text, flags, size) are
atoms a message satisfies or not; parse failures of a date are
`BadDate` (size strings are not modelled). `Conjoin` is go-imap's
`SearchCriteria.And` and `Matches` the server's SEARCH: the fields of a
query and the entries of its `Not` and `Or` lists are all ANDed, `*` is
the largest UID in the mailbox and `a:b` equals `b:a`. `Denote` is the
reference meaning the spec gives a tree (leaf fields ANDed, the
connectives over all children, strict UID bounds).

`MCSearchCriteria.tla`: three messages (UIDs 2, 4, 6 on days 1-3), a
3-bit UID so wrap-around is reachable, seven leaves (two atoms, a
negated atom, `on`, a since/before range, `within_days`, a bad date)
and all trees of depth one (operators and/or/not/xor with 0-2 children)
plus depth-two trees over three leaves: 4879 rules. Search options
(ReturnAll/ReturnCount) are not modelled: a plain SEARCH and ESEARCH
RETURN (ALL) hand `FetchMessages` the same list.

### `ExecuteActions.tla`

`ExecuteActions` in `pkg/dsl/actions.go` applied to the messages a rule
matched. INBOX is a sequence of `[uid, flags]` records, so a message's
sequence number is its position. That is how UIDs and sequence numbers
come apart after an EXPUNGE. `inbox0` keeps INBOX as it was, so
properties can compare against it.

| Variable | Code |
|---|---|
| `acts` | the `*ActionConfig` (flags add/remove, copy_to, move_to, delete as nil / bool / `trash` map, export) |
| `matched` | the UIDs of the `messages` argument |
| `inbox`, `target`, `trash` | the server's INBOX, the copy/move mailbox and Trash |
| `exported` | files written, as `<<UID in the file name, UID of the content>>` |
| `pc`, `i` | the step of `ExecuteActions` and the export loop index |

Actions follow the code's order:
- `Start` (the empty-config return);
- `ExecuteFlagsAdd` and `ExecuteFlagsRemove` (the two STOREs of `executeFlags`);
- `ExecuteCopy`;
- `ExecuteMove` (a successful move returns at once);
- `ExecuteDelete` (MOVE to Trash only for `trash: true`, otherwise STORE `\Deleted`);
- `Expunge`;
- `ExecuteExport` (one FETCH per message; an empty answer is skipped);
- `CommandFails`;
- `StoreTextMessage` and `StoreAttachment`: another client running
  imap-tests `store-text-message` or `store-attachment` against the same
  INBOX, at any point of the call. `StoreFlags` is the flag list built from
  the `--seen`/`--flagged`/`--answered`/`--draft`/`--deleted` switches
  (store_text_message.go 156-172). `AppendMessage` is `storeMessage`'s
  APPEND: the message goes to the end of INBOX with the next UID
  (`uidNext`) and is recorded in `appended`. A store command that fails
  before or during the APPEND adds nothing, which is a stuttering step;
  one whose `Wait` fails after the server stored the message is an
  append. `MaxAppends` bounds the appends.

Every command addresses `SeqSetOf(UIDs)`, the UIDs read as sequence
numbers, as `uidSet.AddNum` on an `imap.SeqSet` does. A server may
reject a set that names a number past the end of the mailbox, or apply
the command to the numbers that exist. Any command may also fail, and
`ExecuteActions` then returns with the earlier steps left in place.

Flag names are `[prefix, word, capitalised]`. `ActionFlag` is
`convertToIMAPFlags` (actions.go) and `SearchFlag` is
`convertToIMAPFlag` (the criteria compiler). The model keeps the case
mappings only as far as they decide which flag the server stores.

`MCExecuteActions.tla` has three INBOXes of three messages:
- fresh (UIDs 1-3);
- gapped (UIDs 2, 4, 5);
- fresh with one message already `\Deleted`.

It also has every configuration built from four flag names (five for
the name-mismatch run), the five delete forms, copy, move and export:
400 or 500 configurations. Every non-empty subset of INBOX may match.
The store commands may use every switch combination without `--deleted`
(`MCStoreSettings`, in `actions_fresh`, with up to two appends) or every
combination of `--flagged` and `--deleted` (`MCAllStoreSettings`, in
`actions_untouched`). The two violation runs about export and flag names
allow no append, so their traces stay about what they show.

### `MailGen.tla`

This is the mailgen `generate` command. Its parts are:
- `Validate`: `TemplateConfig.Validate`.
- `ValidateVariables` and `ValueValid`: `validateVariables`, written as a
  RECURSIVE operator over tagged values (string, list of element kinds,
  map).
- `ReadConfig`: read and parse each `--config` file. Either step may fail.
- `ValidateConfig`: `Generate` starts by calling `Validate`.
- `GenerateEmail` and `NextEntry`: `Generate`'s loops over the generate
  entries and their counts. Email `i` takes variation
  `i % len(Variations)` and renders its values and then the template.
  The template text is abstracted to whether `text/template` fails on
  it (`VariationFails`, `TemplateFails`).
- `Prepare`: `MkdirAll`, connect and SELECT.
- `EmitEmail`: per email, `AddRow`, `WriteFile` and APPEND. A failure at
  any of these calls ends the command and keeps what the earlier calls
  did. An APPEND whose `Wait` fails may still have been stored.

`MCMailGen.tla` gives eight one-rule configs. Each differs in the one
thing a `Validate` check or a render step looks at:
- a good config;
- no variations;
- a failing variation;
- a failing template;
- an empty value;
- an unknown template;
- count 0;
- a nested list holding a number.

Each config is run alone, and two lists hold two files. Writing files
and storing to IMAP are each on or off.

## Runs

| Run | Cfg | Expect | What it shows |
|---|---|---|---|
| fetch_pipeline | `FetchMessages.cfg` | pass | With a server that returns the match list and may drop sections, a part is missing only if the server dropped it (`MissingOnlyWhenServerDropped`). Under weak fairness the batched fetcher refines `Retrieval` (`BatchedRefinesRetrieval`): every call returns, and a successful one returns exactly the requested page, each message once with the match count, and each part with its own message's section although one batched FETCH interleaves them. |
| fetch_countonly_recovery | `FetchCountOnlyRecovery.cfg` | pass | With a server that may send only a count, the count-only recovery (sequence range, UID FETCH, reversal, then the second pagination of step 4) returns exactly the requested page for offset 0 when its premise holds: the matches are messages 1..count (`CountOnlyExactOnItsPremise`). It pins the count-only bug to that premise. |
| fetch_per_message | `FetchPerMessage.cfg` | pass | The per-message fetcher refines `Retrieval`: every call returns the requested page with its own sections and the match count, or an error (`PerMessageRefinesRetrieval`). It keeps a part whose section the server omitted, with empty content exactly then, as spec P9 asks and the batched fetcher does not (`MissingSectionsKeptEmpty`). |
| fetch_countonly_window | `FetchCountOnlyWindow.cfg` | violation | Count-only recovery fetches sequence numbers as if the matches were 1..count: for a rule from a file (offset 0) and limit 1, the only match is a message other than message 1, the recovery fetches `1:1`, and message 1 is returned. |
| fetch_assembly | `FetchAssembly.cfg` | violation | The batched result is not assembled as spec 4.2-4.3 say (`AssembledAsSpecified`). TLC's shortest trace: limit 0 returns message 1, then message 2, not newest first. With the order conjunct removed, it finds message 2 under text_only returned with no parts after the server omitted its section, where P9 keeps the part empty. |
| search_compile | `SearchCompile.cfg` | pass | Over all 4879 trees, with no UID bounds (a rule file cannot set them) and for leaf and AND rules under UID bounds that leave a range below `*`, `Validate` rejects every tree the compiler cannot build (`ValidatedRulesCompile`), and the server's answer is exactly what the tree means inside the bounds (`SearchMatchesRule`): AND merging, two-child OR, NOT and nesting preserve the meaning. |
| search_meaning | `SearchMeaning.cfg` | violation | The server's answer differs from what the tree means (`SearchMatchesRule`). UID bounds escape: `before_uid: 1` becomes `1:*`, reversed, `n:*` and wrapped ranges escape, NOT puts the range inside the negation, and OR with two or more children drops it. OR[A,B,C] is searched as (A or B) and C. On one leaf, `on` overwrites `before` and `within_days` overwrites `since`. |
| actions_fresh | `ActionsFresh.cfg` | pass | On a mailbox whose UIDs equal its sequence numbers, with any command failing and another client storing up to two messages (without `--deleted`) meanwhile, no unmatched message, old or newly stored, is touched (`OnlyMatchedMessagesChanged`). A successful call leaves every matched message where the config sends it: copy, move with its early return, delete to Trash only for `trash: true` (`MatchedMessagesReachDestination`). Flags set with names both conversions agree on are found by search (`FlaggedMessagesFoundBySearch`). |
| actions_untouched | `ActionsUntouched.cfg` | violation | With UID gaps, UIDs sent as sequence numbers flag, move or delete unmatched messages. A permanent delete's EXPUNGE also removes a message another client flagged `\Deleted`, or stored with `--deleted` between the rule's STORE and EXPUNGE. |
| actions_delete_then_export | `ActionsDeleteExport.cfg` | violation | Delete runs before export. After the delete (here a MOVE to Trash; an EXPUNGE does the same), `message-1.eml` gets the content of the message that moved into position 1. |
| actions_flag_names | `ActionsFlagNames.cfg` | violation | `flags.add: [important]` stores the keyword `important`, but `flags.has: [important]` searches for `$Important`. |
| mailgen_panic | `MailGenPanic.cfg` | violation | A config whose rule has no `variations` passes `TemplateConfig.Validate`, and `Generate` then panics on `i % len(rule.Variations)` (`ValidatedConfigNeverPanics`). |

Each property of a passing run has a mutant in `PROJECT.json` (an
off-by-one in `endIdx`, `startSeq` counted from zero, adding instead of preferring the count, routing only multi-part messages
to the batch, a move that does not return, `-FLAGS` sent as `FLAGS`)
that TLC catches.

Fairness. Each model is one sequential function call. Its steps run one
after the other once the server has answered the previous command.
`FetchMessages` and `FetchPerMessage` therefore check their refinement
under `FairSpec == Spec /\ WF_vars(Next)`. That is weak fairness of the
whole call, and it assumes the server answers every command, with data
or an error. The code sets no timeout, so a server that never answers
blocks the call forever; this is listed as a liveness hazard. The
remaining runs check safety only. `Returned` and `Finished` let a
finished call stutter, so deadlock checking stays on and catches a step
with no successor.

## Plan

1. (done) `FetchMessages`: windowing and batched content fetch.
2. (done) `SearchCriteria`: validation, compiler and server search.
3. (done) `ExecuteActions`: a mailbox with UIDs and sequence numbers
   diverging after EXPUNGE, actions through a sequence set, delete before
   export, move's early return, failing commands.
4. (done) `FetchPerMessage` and the abstract `Retrieval`, which both
   fetchers refine under weak fairness.
5. (done) `MailGen`: the mailgen generate command. Its run replaces a
   run of the legacy fetcher, because the legacy fetcher is a stale
   copy. The two batched-assembly runs became one, `fetch_assembly`.
6. `OutputConfig.UnmarshalYAML` as a decoding operator feeding the
   windower, showing offsets written in a file never reach it. This
   needs a violation run.
7. (partly done) The imap-tests store commands are composed with
   `ExecuteActions` as a second client. Left: `create-mailbox --force`
   (DELETE then CREATE with no rollback), run on a mailbox a rule copies
   or moves to, which can only be shown as a violation of
   `MatchedMessagesReachDestination` in a run of its own.
8. The legacy per-message fetcher in funcs.go. It needs a violation run,
   because it never sets `TotalCount` (funcs.go:859).

Each of items 6-8 needs a run of its own. The project keeps twelve runs
and all are in use, so a run must be merged or retired before any of
them is added.

A second client that EXPUNGEs while a fetcher runs does not need a model
of its own. The fetchers send only SEARCH and FETCH. RFC 3501 7.4.1 bars
EXPUNGE responses during both commands, so sequence numbers cannot shift
within a call. Another client's EXPUNGE therefore reaches the fetcher
only as a FETCH that returns fewer sections, no message, or NO.
`FetchBody` and `BatchFetch` already model those answers.

## Not modelled

- Legacy fetcher: the `FetchMessages` copy in `pkg/mailgen/funcs.go` is
  left out. It is processor.go's per-message loop without the COUNT, and
  every message it returns has total 0. It also calls a two-result
  `BuildSearchCriteria` that is no longer in the sources.
- mailgen template text: `text/template`/sprig rendering and
  `pickRandom`. `pickRandom` is never registered, because
  `NewMailGenerator` installs only sprig.
- The CLIs: the cobra/glazed setup of both CLIs, flag parsing, MIME
  construction of the stored messages (`createTextMessage`,
  `createMessageWithAttachment`, the content-type switch) and printing.
- `create-mailbox` (see plan item 7). Its DELETE-then-CREATE under
  `--force` loses the mailbox if CREATE fails; it is listed as a hazard.
- Output: `OutputMessages` formatting.
- Parsing: date and size parsing beyond the values the compiler uses.
