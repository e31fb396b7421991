------------------------------ MODULE MCNotepad ------------------------------
(* Two documents: a C++ source and a plain text. *)
EXTENDS Notepad
CONSTANTS source, text
MCLanguage == (source :> "cpp") @@ (text :> "")
=============================================================================
