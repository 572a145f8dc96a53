------------------------------ MODULE MailGen ------------------------------
(***************************************************************************)
(* The mailgen `generate` command: cmd/mailgen/cmds/generate.go reads each *)
(* config file, MailGenerator.Generate (pkg/mailgen/mailgen.go) validates  *)
(* it (TemplateConfig.Validate) and renders Count emails per generate      *)
(* entry, cycling through the rule's variations; then every email becomes *)
(* a row, optionally a file and optionally an IMAP APPEND.                 *)
(*                                                                         *)
(* Template text is abstracted to whether rendering it fails: a template   *)
(* or variation value is `broken` when text/template cannot parse or run  *)
(* it.  I/O (reading a file, mkdir, connecting, writing) may fail at any   *)
(* call.  A Go runtime panic is the state "panic".                         *)
(***************************************************************************)
EXTENDS Integers, Sequences

CONSTANTS
    FileLists   \* the --config lists a run may be given: Seq(config)

(***************************************************************************)
(* A config is [vars, templates, broken, rules, generate]:                 *)
(*   vars      the variables map; a value is a tagged record, "string",    *)
(*             "list" (elems: the element kinds), "map" (m: a map) or     *)
(*             another YAML kind;                                          *)
(*   templates the defined template names; broken: those that fail;      *)
(*   rules     rule name -> [template, variations]; a variation is        *)
(*             [empty, broken]: it has an empty value / fails to render;  *)
(*   generate  Seq([rule, count]).                                        *)
(***************************************************************************)

\* validateVariables: every value is a string, a list of strings, or a map
\* that is valid in turn.
RECURSIVE ValidateVariables(_)
ValueValid(v) ==
    CASE v.t = "string" -> TRUE
      [] v.t = "list"   -> \A j \in DOMAIN v.elems : v.elems[j] = "string"
      [] v.t = "map"    -> ValidateVariables(v.m)
      [] OTHER          -> FALSE
ValidateVariables(vars) == \A k \in DOMAIN vars : ValueValid(vars[k])

\* TemplateConfig.Validate.
Validate(c) ==
    /\ ValidateVariables(c.vars)
    /\ c.templates # {}
    /\ DOMAIN c.rules # {}
    /\ c.generate # <<>>
    /\ \A r \in DOMAIN c.rules :
          /\ c.rules[r].template \in c.templates
          /\ \A j \in DOMAIN c.rules[r].variations : ~c.rules[r].variations[j].empty
    /\ \A j \in DOMAIN c.generate :
          /\ c.generate[j].rule \in DOMAIN c.rules
          /\ c.generate[j].count > 0

VARIABLES
    files, writeFiles, storeIMAP,   \* the command's settings (read only)
    pc,         \* the step about to run
    f,          \* the config file being processed
    g, i,       \* Generate's loop: generate entry g, email index i
    emails,     \* allEmails: [file, entry, index, variation]
    k,          \* the email being output
    rows, written, stored   \* rows emitted, files written, messages appended

vars == <<files, writeFiles, storeIMAP, pc, f, g, i, emails, k, rows, written, stored>>

Cfg == files[f]

Init ==
    /\ files \in FileLists
    /\ writeFiles \in BOOLEAN /\ storeIMAP \in BOOLEAN
    /\ pc = "read" /\ f = 1 /\ g = 1 /\ i = 0
    /\ emails = <<>> /\ k = 1
    /\ rows = 0 /\ written = {} /\ stored = <<>>

\* os.ReadFile and yaml.Unmarshal of the next config file; an error ends
\* the command.  After the last file the outputs are prepared.
ReadConfig ==
    /\ pc = "read"
    /\ \/ /\ f <= Len(files)
          /\ pc' \in {"validate", "failed"}
       \/ /\ f > Len(files)
          /\ pc' = "prepare"
    /\ UNCHANGED <<files, writeFiles, storeIMAP, f, g, i, emails, k, rows, written, stored>>

\* Generate: Validate first; an invalid config is an error.
ValidateConfig ==
    /\ pc = "validate"
    /\ pc' = IF Validate(Cfg) THEN "generate" ELSE "failed"
    /\ g' = 1 /\ i' = 0
    /\ UNCHANGED <<files, writeFiles, storeIMAP, f, emails, k, rows, written, stored>>

\* processTemplate over each value of the variation: one that text/template
\* cannot parse or execute is an error.
VariationFails(variation) == variation.broken

\* processEmailTemplate: subject, from, the optional headers and the body,
\* each through processTemplate; the first that fails is the error.
TemplateFails(rule) == rule.template \in Cfg.broken

\* One iteration of the inner loop: variation i % len(Variations), its values
\* rendered, then the email template; a failed render is an error, and an
\* empty variation list divides by zero.
GenerateEmail ==
    LET e    == Cfg.generate[g]
        rule == Cfg.rules[e.rule]
        n    == Len(rule.variations)
        v    == i % n
    IN
    /\ pc = "generate"
    /\ g <= Len(Cfg.generate)
    /\ i < e.count
    /\ \/ /\ n = 0
          /\ pc' = "panic"
          /\ UNCHANGED <<i, emails>>
       \/ /\ n > 0
          /\ VariationFails(rule.variations[v + 1]) \/ TemplateFails(rule)
          /\ pc' = "failed"
          /\ UNCHANGED <<i, emails>>
       \/ /\ n > 0
          /\ ~VariationFails(rule.variations[v + 1]) /\ ~TemplateFails(rule)
          /\ emails' = Append(emails, [file |-> f, entry |-> g, index |-> i, variation |-> v])
          /\ i' = i + 1
          /\ UNCHANGED pc
    /\ UNCHANGED <<files, writeFiles, storeIMAP, f, g, k, rows, written, stored>>

\* The outer loop: the next generate entry, or the next config file.
NextEntry ==
    /\ pc = "generate"
    /\ \/ /\ g <= Len(Cfg.generate)
          /\ i = Cfg.generate[g].count
          /\ g' = g + 1 /\ i' = 0
          /\ UNCHANGED <<pc, f>>
       \/ /\ g > Len(Cfg.generate)
          /\ pc' = "read" /\ f' = f + 1
          /\ UNCHANGED <<g, i>>
    /\ UNCHANGED <<files, writeFiles, storeIMAP, emails, k, rows, written, stored>>

\* MkdirAll when writing files; connect and SELECT when storing.
Prepare ==
    /\ pc = "prepare"
    /\ \/ pc' = "emit"
       \/ /\ writeFiles \/ storeIMAP
          /\ pc' = "failed"
    /\ UNCHANGED <<files, writeFiles, storeIMAP, f, g, i, emails, k, rows, written, stored>>

\* One email: AddRow, then WriteFile, then APPEND (Write, Close, Wait).  Each
\* call may fail and end the command, leaving what the earlier calls did.
\* An APPEND whose Wait fails may still have been stored by the server.
EmitEmail ==
    LET row   == rows + 1
        file  == IF writeFiles THEN written \cup {k} ELSE written
        store == IF storeIMAP THEN Append(stored, k) ELSE stored
    IN
    /\ pc = "emit"
    /\ k <= Len(emails)
    /\ \/ /\ rows' = row /\ written' = file /\ stored' = store
          /\ k' = k + 1
          /\ UNCHANGED pc
       \/ /\ pc' = "failed"
          /\ UNCHANGED <<rows, written, stored, k>>
       \/ /\ writeFiles
          /\ pc' = "failed" /\ rows' = row
          /\ UNCHANGED <<written, stored, k>>
       \/ /\ storeIMAP
          /\ pc' = "failed" /\ rows' = row /\ written' = file
          /\ stored' \in {stored, store}
          /\ UNCHANGED k
    /\ UNCHANGED <<files, writeFiles, storeIMAP, f, g, i, emails>>

Finish ==
    /\ pc = "emit"
    /\ k > Len(emails)
    /\ pc' = "done"
    /\ UNCHANGED <<files, writeFiles, storeIMAP, f, g, i, emails, k, rows, written, stored>>

Ended ==
    /\ pc \in {"done", "failed", "panic"}
    /\ UNCHANGED vars

Next ==
    \/ ReadConfig \/ ValidateConfig \/ GenerateEmail \/ NextEntry
    \/ Prepare \/ EmitEmail \/ Finish \/ Ended

Spec == Init /\ [][Next]_vars

-----------------------------------------------------------------------------
\* TemplateConfig.Validate is the guard Generate runs before rendering: on a
\* configuration it accepts, generation returns emails or an error and the
\* command never dies of a runtime panic.
ValidatedConfigNeverPanics == pc # "panic"
=============================================================================
