----------------------------- MODULE MCAutosave -----------------------------
(* Small instances of Autosave for TLC. *)
EXTENDS Autosave
=============================================================================
