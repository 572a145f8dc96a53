--------------------------- MODULE ExecuteActions ---------------------------
(***************************************************************************)
(* ExecuteActions (pkg/dsl/actions.go) applied to the messages a rule      *)
(* matched: flags, copy, move, delete and export, in the code's order and  *)
(* with its early return after a move, against an IMAP server whose INBOX  *)
(* is a sequence of messages (the sequence number of a message is its      *)
(* position, its UID is stored in it).  Every command the code sends       *)
(* addresses an imap.SeqSet built from the messages' UIDs.  The server may *)
(* answer any command with an error, and may reject a sequence set that    *)
(* names a number past the end of the mailbox.                             *)
(***************************************************************************)
EXTENDS Integers, FiniteSets, SequencesExt

CONSTANTS
    UIDs,           \* UIDs a message may have
    Inboxes,        \* the INBOX contents the rule may find: Seq([uid, flags])
    ActionConfigs,  \* the ActionConfig values a rule may hold
    ServerMayFail,  \* whether a command may fail for reasons of its own
    StoreSettings,  \* flag switches another client's store command may use
    MaxAppends      \* how many messages other clients append during the run

VARIABLES
    acts,       \* the ActionConfig being executed
    matched,    \* UIDs of the []*EmailMessage handed to ExecuteActions
    inbox,      \* the INBOX on the server
    inbox0,     \* the INBOX before ExecuteActions (history, for properties)
    target,     \* messages in the copy_to / move_to mailbox: <<uid, how>>
    trash,      \* UIDs of messages moved to Trash
    exported,   \* files written: <<UID in the file name, UID of the content>>
    pc,         \* the step of ExecuteActions
    i,          \* the export loop's index into matched
    uidNext,    \* the UID the server gives the next appended message
    appended    \* messages other clients appended: [uid, flags] (history)

vars == <<acts, matched, inbox, inbox0, target, trash, exported, pc, i, uidNext, appended>>

-----------------------------------------------------------------------------
(* Flag names.  A name as written in the rule is [p, w, cap]: its prefix   *)
(* ("", "\" or "$"), its word in lower case, and whether it was written    *)
(* capitalised.  IMAP compares flags without regard to case, so the server *)
(* identifies a flag by its prefix and word.                               *)

Key(f) == <<f.p, f.w>>
Lower(f) == [f EXCEPT !.cap = FALSE]
System(w) == [p |-> "\\", w |-> w, cap |-> TRUE]
DeletedKey == Key(System("deleted"))

\* convertToIMAPFlags in actions.go: lower-case the name, map five system
\* flag names, prefix "recent" with a backslash, keep anything else.
ActionFlag(f) ==
    LET l == Lower(f)
    IN  CASE l.p = "" /\ l.w \in {"seen", "answered", "flagged", "deleted", "draft"} -> System(l.w)
          [] l.p = "" /\ l.w = "recent" -> System("recent")
          [] OTHER -> l

\* convertToIMAPFlag in the search compiler: a prefixed name is kept, the
\* standard names (important included) are mapped, anything else kept.
SearchFlag(f) ==
    CASE f.p # "" -> f
      [] f.w \in {"seen", "answered", "flagged", "deleted", "draft", "recent"} -> System(f.w)
      [] f.w = "important" -> [p |-> "$", w |-> "important", cap |-> TRUE]
      [] OTHER -> f

-----------------------------------------------------------------------------
(* The server.                                                             *)

UIDsOf(box) == {box[k].uid : k \in DOMAIN box}
FlagsOf(u) == (CHOOSE m \in ToSet(inbox) : m.uid = u).flags

\* The sequence set the code builds: uidSet.AddNum(uint32(msg.UID)) on an
\* imap.SeqSet, i.e. the UIDs read as sequence numbers.
SeqSetOf(us) == us

\* The positions a sequence set names that exist.  A server either rejects
\* a command whose set names a number past the end of the mailbox (see
\* CommandFails) or applies it to these.
Addressed(S) == S \cap DOMAIN inbox
Acceptable(S) == S \subseteq DOMAIN inbox

StoreAdd(S, keys) ==
    [k \in DOMAIN inbox |-> IF k \in S THEN [inbox[k] EXCEPT !.flags = @ \cup keys]
                                       ELSE inbox[k]]
\* Mutant: the removal sent as STORE FLAGS (replace) instead of -FLAGS.
StoreDelAsSet(S, keys) ==
    [k \in DOMAIN inbox |-> IF k \in S THEN [inbox[k] EXCEPT !.flags = keys]
                                       ELSE inbox[k]]
StoreDel(S, keys) ==
    [k \in DOMAIN inbox |-> IF k \in S THEN [inbox[k] EXCEPT !.flags = @ \ keys]
                                       ELSE inbox[k]]
Without(us) == SelectSeq(inbox, LAMBDA m : m.uid \notin us)

MatchedSet == ToSet(matched)
Target == SeqSetOf(MatchedSet)
\* Mutant: any delete set to true moves to Trash.
MoveToTrashAnyTrue(d) == d.kind # "nil" /\ d.val = TRUE
MoveToTrash(d) == d.kind = "map" /\ d.val = TRUE

-----------------------------------------------------------------------------

Init ==
    /\ inbox \in Inboxes
    /\ inbox0 = inbox
    /\ \E S \in SUBSET UIDsOf(inbox) \ {{}} : matched = SetToSortSeq(S, <)
    /\ acts \in ActionConfigs
    /\ target = {} /\ trash = {} /\ exported = {}
    /\ pc = "start"
    /\ i = 1
    /\ uidNext = Max(UIDsOf(inbox)) + 1
    /\ appended = {}

Fail(from) ==
    /\ pc = from
    /\ pc' = "failed"
    /\ UNCHANGED <<acts, matched, inbox, inbox0, target, trash, exported, i, uidNext, appended>>

\* An ActionConfig with nothing set returns at once.
Start ==
    /\ pc = "start"
    /\ pc' = IF acts = [acts EXCEPT !.add = {}, !.remove = {}, !.copyTo = FALSE,
                                    !.moveTo = FALSE, !.delete = [kind |-> "nil", val |-> FALSE],
                                    !.export = FALSE]
             THEN "done" ELSE "flags"
    /\ UNCHANGED <<acts, matched, inbox, inbox0, target, trash, exported, i, uidNext, appended>>

\* executeFlags, first STORE: +FLAGS.SILENT of the added flags.
ExecuteFlagsAdd ==
    /\ pc = "flags"
    /\ \/ /\ acts.add = {}
          /\ pc' = "unflag" /\ UNCHANGED inbox
       \/ /\ acts.add # {}
          /\ inbox' = StoreAdd(Addressed(Target), {Key(ActionFlag(f)) : f \in acts.add})
          /\ pc' = "unflag"
    /\ UNCHANGED <<acts, matched, inbox0, target, trash, exported, i, uidNext, appended>>

\* executeFlags, second STORE: -FLAGS.SILENT of the removed flags.
ExecuteFlagsRemove ==
    /\ pc = "unflag"
    /\ \/ /\ acts.remove = {}
          /\ pc' = "copy" /\ UNCHANGED inbox
       \/ /\ acts.remove # {}
          /\ inbox' = StoreDel(Addressed(Target), {Key(ActionFlag(f)) : f \in acts.remove})
          /\ pc' = "copy"
    /\ UNCHANGED <<acts, matched, inbox0, target, trash, exported, i, uidNext, appended>>

ExecuteCopy ==
    /\ pc = "copy"
    /\ \/ /\ ~acts.copyTo
          /\ pc' = "move" /\ UNCHANGED target
       \/ /\ acts.copyTo
          /\ target' = target \cup {<<inbox[k].uid, "copy">> : k \in Addressed(Target)}
          /\ pc' = "move"
    /\ UNCHANGED <<acts, matched, inbox, inbox0, trash, exported, i, uidNext, appended>>

\* Mutant: the move does not return, delete and export follow it.
ExecuteMoveContinues ==
    /\ pc = "move"
    /\ \/ /\ ~acts.moveTo
          /\ pc' = "delete" /\ UNCHANGED <<inbox, target>>
       \/ /\ acts.moveTo
          /\ LET gone == {inbox[k].uid : k \in Addressed(Target)}
             IN  /\ target' = target \cup {<<u, "move">> : u \in gone}
                 /\ inbox' = Without(gone)
          /\ pc' = "delete"
    /\ UNCHANGED <<acts, matched, inbox0, trash, exported, i, uidNext, appended>>

\* A successful move ends ExecuteActions: delete and export are skipped.
ExecuteMove ==
    /\ pc = "move"
    /\ \/ /\ ~acts.moveTo
          /\ pc' = "delete" /\ UNCHANGED <<inbox, target>>
       \/ /\ acts.moveTo
          /\ LET gone == {inbox[k].uid : k \in Addressed(Target)}
             IN  /\ target' = target \cup {<<u, "move">> : u \in gone}
                 /\ inbox' = Without(gone)
          /\ pc' = "done"
    /\ UNCHANGED <<acts, matched, inbox0, trash, exported, i, uidNext, appended>>

\* executeDelete: MOVE to Trash when the map form says trash: true,
\* otherwise STORE +FLAGS (\Deleted) followed by EXPUNGE.
ExecuteDelete ==
    /\ pc = "delete"
    /\ \/ /\ acts.delete.kind = "nil"
          /\ pc' = "export" /\ UNCHANGED <<inbox, trash>>
       \/ /\ acts.delete.kind # "nil" /\ MoveToTrash(acts.delete)
          /\ LET gone == {inbox[k].uid : k \in Addressed(Target)}
             IN  /\ trash' = trash \cup gone
                 /\ inbox' = Without(gone)
          /\ pc' = "export"
       \/ /\ acts.delete.kind # "nil" /\ ~MoveToTrash(acts.delete)
          /\ inbox' = StoreAdd(Addressed(Target), {DeletedKey})
          /\ pc' = "expunge" /\ UNCHANGED trash
    /\ UNCHANGED <<acts, matched, inbox0, target, exported, i, uidNext, appended>>

\* EXPUNGE removes every message of the mailbox flagged \Deleted.
Expunge ==
    /\ pc = "expunge"
    /\ inbox' = SelectSeq(inbox, LAMBDA m : DeletedKey \notin m.flags)
    /\ pc' = "export"
    /\ UNCHANGED <<acts, matched, inbox0, target, trash, exported, i, uidNext, appended>>

\* executeExport: one FETCH per message, of the sequence number equal to
\* its UID; an empty answer is skipped, a fetched body written to
\* message-<UID>.eml.
ExecuteExport ==
    /\ pc = "export"
    /\ \/ /\ ~acts.export \/ i > Len(matched)
          /\ pc' = "done" /\ UNCHANGED <<exported, i>>
       \/ /\ acts.export /\ i <= Len(matched)
          /\ LET n == matched[i] IN
             \/ /\ n \in DOMAIN inbox
                /\ exported' = exported \cup {<<n, inbox[n].uid>>}
                /\ i' = i + 1 /\ pc' = "export"
             \/ /\ n \notin DOMAIN inbox
                /\ i' = i + 1 /\ pc' = "export"
                /\ UNCHANGED exported
    /\ UNCHANGED <<acts, matched, inbox, inbox0, target, trash, uidNext, appended>>

\* Any command may be answered with an error (and MkdirAll or WriteFile may
\* fail during export); a command whose sequence set names a message past
\* the end of the mailbox may be rejected.  ExecuteActions then returns the
\* error, leaving what earlier commands did in place.
CommandFails ==
    \E from \in {"flags", "unflag", "copy", "move", "delete", "expunge", "export"} :
        /\ pc = from
        /\ \/ ServerMayFail
           \/ from # "expunge" /\ from # "export" /\ ~Acceptable(Target)
           \/ from = "export" /\ i <= Len(matched) /\ matched[i] \notin DOMAIN inbox
        /\ Fail(from)

-----------------------------------------------------------------------------
(* Another client: imap-tests store-text-message or store-attachment       *)
(* (cmd/imap-tests/commands/store_text_message.go) run against the same    *)
(* INBOX while ExecuteActions runs.  A run that stops early (no password,  *)
(* no connection, a missing attachment) or whose Write or Close fails      *)
(* appends nothing, which is a stuttering step here; one whose APPEND      *)
(* succeeds, or whose Wait fails after the server stored it, adds a        *)
(* message at the end of the mailbox with the next UID.                    *)

\* The []imap.Flag built from the --seen, --flagged, --answered, --draft and
\* --deleted switches.
StoreFlags(s) ==
    {Key(System(w)) : w \in {w \in {"seen", "flagged", "answered", "draft", "deleted"} : s[w]}}

\* storeMessage: APPEND to --mailbox (here INBOX) with AppendOptions{Flags,
\* Time}; the server gives the message the next UID.
AppendMessage(flags) ==
    LET m == [uid |-> uidNext, flags |-> flags]
    IN  /\ inbox' = Append(inbox, m)
        /\ appended' = appended \cup {m}
        /\ uidNext' = uidNext + 1

\* StoreTextMessageCommand.RunIntoGlazeProcessor: check the password,
\* connect, createTextMessage, collect the flags, storeMessage, AddRow.
StoreTextMessage ==
    /\ Cardinality(appended) < MaxAppends
    /\ \E s \in StoreSettings : AppendMessage(StoreFlags(s))
    /\ UNCHANGED <<acts, matched, inbox0, target, trash, exported, pc, i>>

\* StoreAttachmentCommand.RunIntoGlazeProcessor: the same after os.Stat and
\* os.ReadFile of the attachment, with createMessageWithAttachment.
StoreAttachment ==
    /\ Cardinality(appended) < MaxAppends
    /\ \E s \in StoreSettings : AppendMessage(StoreFlags(s))
    /\ UNCHANGED <<acts, matched, inbox0, target, trash, exported, pc, i>>

Finished ==
    /\ pc \in {"done", "failed"}
    /\ UNCHANGED vars

Next ==
    \/ Start \/ ExecuteFlagsAdd \/ ExecuteFlagsRemove \/ ExecuteCopy
    \/ ExecuteMove \/ ExecuteDelete \/ Expunge \/ ExecuteExport
    \/ CommandFails \/ StoreTextMessage \/ StoreAttachment \/ Finished

Spec == Init /\ [][Next]_vars

-----------------------------------------------------------------------------
(* What the actions promise: the messages handed in, and only they, are    *)
(* flagged, copied, moved, deleted and exported as the ActionConfig says,  *)
(* with a boolean delete or trash: false deleting permanently and          *)
(* trash: true moving to Trash (spec sections 6 and 9).                    *)

InInbox(u) == u \in UIDsOf(inbox)
Deletes == acts.delete.kind # "nil"
TrashDelete == [kind |-> "map", val |-> TRUE]

\* A message the rule did not match, whether it was in INBOX when the rule
\* ran or another client's store command appended it meanwhile, is never
\* touched: it stays in INBOX with the flags it had or was stored with, and
\* no copy of it appears in the target mailbox or in Trash, whatever steps
\* ExecuteActions took before returning or failing.
OnlyMatchedMessagesChanged ==
    \A m \in ToSet(inbox0) \cup appended :
        LET u == m.uid IN
        u \notin MatchedSet =>
            /\ InInbox(u)
            /\ FlagsOf(u) = m.flags
            /\ u \notin trash
            /\ \A how \in {"copy", "move"} : <<u, how>> \notin target

\* When ExecuteActions returns without error every matched message is
\* where the configuration sends it: copied when copy_to is set, moved out
\* of INBOX when move_to is set (and then nothing else happens to it),
\* otherwise removed when delete is set (into Trash for trash: true and
\* only then) and
\* left in INBOX when it is not.
MatchedMessagesReachDestination ==
    pc = "done" =>
        \A u \in MatchedSet :
            /\ acts.copyTo => <<u, "copy">> \in target
            /\ acts.moveTo => <<u, "move">> \in target /\ ~InInbox(u)
            /\ ~acts.moveTo /\ Deletes => ~InInbox(u)
            /\ ~acts.moveTo => (u \in trash <=> acts.delete = TrashDelete)
            /\ ~acts.moveTo /\ ~Deletes => InInbox(u)

\* A flag that the rule's flags.add sets (and flags.remove does not clear)
\* is found afterwards by a search rule naming the same flag in flags.has:
\* the two flag-name conversions (actions.go and the criteria compiler)
\* agree on every name Validate accepts.
FlaggedMessagesFoundBySearch ==
    pc = "done" =>
        \A u \in MatchedSet \cap UIDsOf(inbox), f \in acts.add :
            Key(ActionFlag(f)) \notin {Key(ActionFlag(r)) : r \in acts.remove} =>
                Key(SearchFlag(f)) \in FlagsOf(u)

\* When ExecuteActions returns without error after an export, one file was
\* written per matched message, named after its UID and holding that
\* message.
ExportWritesMatchedMessages ==
    pc = "done" /\ acts.export /\ ~acts.moveTo =>
        exported = {<<u, u>> : u \in MatchedSet}

=============================================================================
