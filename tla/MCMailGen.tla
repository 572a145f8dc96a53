----------------------------- MODULE MCMailGen -----------------------------
(***************************************************************************)
(* Config files for the generate command.  Each config has one template   *)
(* and one rule; they differ in the one thing each Validate check or      *)
(* render step looks at.  Variables are flat and valid, or hold a list    *)
(* with a number inside a nested map (rejected by validateVariables).     *)
(***************************************************************************)
EXTENDS MailGen

Str == [t |-> "string"]
GoodVars == [sender |-> Str, topics |-> [t |-> "list", elems |-> <<"string", "string">>],
             nested |-> [t |-> "map", m |-> [name |-> Str]]]
BadVars  == [nested |-> [t |-> "map", m |-> [ids |-> [t |-> "list", elems |-> <<"string", "int">>]]]]

Ok     == [empty |-> FALSE, broken |-> FALSE]
Broken == [empty |-> FALSE, broken |-> TRUE]
Empty  == [empty |-> TRUE, broken |-> FALSE]

Config(vs, tmplBroken, template, variations, count) ==
    [vars |-> vs, templates |-> {"ticket"}, broken |-> tmplBroken,
     rules |-> [ack |-> [template |-> template, variations |-> variations]],
     generate |-> <<[rule |-> "ack", count |-> count]>>]

Good          == Config(GoodVars, {}, "ticket", <<Ok, Ok>>, 3)
NoVariations  == Config(GoodVars, {}, "ticket", <<>>, 1)
BadVariation  == Config(GoodVars, {}, "ticket", <<Ok, Broken>>, 2)
BrokenTmpl    == Config(GoodVars, {"ticket"}, "ticket", <<Ok>>, 1)
EmptyValue    == Config(GoodVars, {}, "ticket", <<Empty>>, 1)
UnknownTmpl   == Config(GoodVars, {}, "notice", <<Ok>>, 1)
NoEmails      == Config(GoodVars, {}, "ticket", <<Ok>>, 0)
InvalidVars   == Config(BadVars, {}, "ticket", <<Ok>>, 1)

MCConfigs == {Good, NoVariations, BadVariation, BrokenTmpl, EmptyValue,
              UnknownTmpl, NoEmails, InvalidVars}
MCFileLists == {<<c>> : c \in MCConfigs} \cup {<<Good, Good>>, <<Good, NoVariations>>}
=============================================================================
