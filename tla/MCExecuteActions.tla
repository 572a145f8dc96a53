------------------------- MODULE MCExecuteActions --------------------------
(***************************************************************************)
(* Three-message INBOXes and every ActionConfig built from a few flag      *)
(* names, the copy/move switches, the five delete forms and export.        *)
(***************************************************************************)
EXTENDS ExecuteActions

MCUIDs == 1..6
SeenKey == <<"\\", "seen">>

\* A mailbox that has never seen an EXPUNGE: UID k is at position k.
FreshInbox ==
    <<[uid |-> 1, flags |-> {}], [uid |-> 2, flags |-> {SeenKey}], [uid |-> 3, flags |-> {}]>>
\* The usual mailbox: earlier expunges left gaps between UIDs.
GappedInbox ==
    <<[uid |-> 2, flags |-> {}], [uid |-> 4, flags |-> {SeenKey}], [uid |-> 5, flags |-> {}]>>
\* A fresh mailbox in which another client has flagged a message \Deleted
\* without expunging it.
PendingDeleteInbox ==
    <<[uid |-> 1, flags |-> {}], [uid |-> 2, flags |-> {}],
      [uid |-> 3, flags |-> {<<"\\", "deleted">>}]>>

\* Flag names as written in a rule.
Name(p, w, cap) == [p |-> p, w |-> w, cap |-> cap]
ConsistentNames ==
    {Name("", "seen", TRUE), Name("\\", "seen", TRUE),
     Name("$", "important", TRUE), Name("", "todo", TRUE)}
AllNames == ConsistentNames \cup {Name("", "important", FALSE)}

DeleteForms ==
    {[kind |-> "nil", val |-> FALSE], [kind |-> "bool", val |-> TRUE],
     [kind |-> "bool", val |-> FALSE], [kind |-> "map", val |-> TRUE],
     [kind |-> "map", val |-> FALSE]}

Configs(names) ==
    [add : {{}} \cup {{f} : f \in names}, remove : {{}, {Name("", "seen", FALSE)}},
     copyTo : BOOLEAN, moveTo : BOOLEAN, delete : DeleteForms, export : BOOLEAN]

\* The switches of a store command: every combination but --deleted, and
\* every combination.
Switches == [seen : BOOLEAN, flagged : BOOLEAN, answered : BOOLEAN, draft : BOOLEAN, deleted : BOOLEAN]
MCStoreSettings == {s \in Switches : ~s.deleted /\ (s.seen => s.flagged) /\ ~s.answered /\ ~s.draft}
MCAllStoreSettings == {s \in Switches : ~s.answered /\ ~s.draft /\ ~s.seen}

MCFreshInboxes == {FreshInbox}
MCUntouchedInboxes == {GappedInbox, PendingDeleteInbox}
MCConfigs == Configs(ConsistentNames)
MCAllConfigs == Configs(AllNames)
=============================================================================
