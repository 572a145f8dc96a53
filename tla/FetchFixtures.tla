--------------------------- MODULE FetchFixtures ---------------------------
(***************************************************************************)
(* A four-message mailbox for checking the fetchers.  The bodies are       *)
(* chosen so that every projection mode selects a different set of parts:  *)
(* text_only needs messages 1-2, filter image/* needs 2-3, full needs all, *)
(* and messages share part paths so that keys can collide across them.    *)
(***************************************************************************)
EXTENDS Naturals, TLC

TextPlain == [type |-> "text", subtype |-> "plain"]
TextHtml  == [type |-> "text", subtype |-> "html"]
ImagePng  == [type |-> "image", subtype |-> "png"]

MCNumMsgs == 4
MCBody ==
    (1 :> {[path |-> 1, mt |-> TextPlain]}) @@
    (2 :> {[path |-> 1, mt |-> TextPlain], [path |-> 2, mt |-> ImagePng]}) @@
    (3 :> {[path |-> 1, mt |-> TextHtml], [path |-> 2, mt |-> ImagePng]}) @@
    (4 :> {[path |-> 1, mt |-> TextHtml]})
MCModes == {"none", "text_only", "full", "filter"}
MCFilterTypes == {[type |-> "image", subtype |-> "*"]}
MCLimits == {0, 1, 2, 3}
MCOffsets == {0, 1, 3, 5}
\* OutputConfig.UnmarshalYAML does not decode offset: a rule read from a
\* file always has offset 0.
MCYAMLOffsets == {0}
=============================================================================
