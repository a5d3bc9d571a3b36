---------------------------- MODULE MCNoteWrites ----------------------------
(* Model-checking instance of NoteWrites.  Two requests at once are enough *)
(* because what a third could do to them, a client can do too.             *)
EXTENDS NoteWrites

=============================================================================
