----------------------------- MODULE MCRawFiles -----------------------------
(* Instances of RawFiles: a script, a document and an image.               *)
EXTENDS RawFiles, TLC

CONSTANTS script, doc, ru

MCLangs == {ru}

(* Of the first version the translation is as long as the file, of later   *)
(* ones longer; deflated it is as long as the file again.                  *)
MCLength(version, lang) == IF lang = NoLang \/ version = 1 THEN 10 ELSE 12
MCPacked(length) == length - 2

Symmetry == Permutations(Workers)
=============================================================================
