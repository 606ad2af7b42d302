--------------------------- MODULE MCEditorPrompt ---------------------------
(* EditorPrompt on one editor with two flows. *)
EXTENDS EditorPrompt
=============================================================================
