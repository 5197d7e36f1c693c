----------------------------- MODULE MCKeyInput -----------------------------
(***************************************************************************)
(* A dialog with a text field in it.  `g' is text; the two others are not. *)
(***************************************************************************)
EXTENDS KeyInput

DialogAndField == {"dialog", "field"}
ParentIn == [e \in DialogAndField |-> IF e = "field" THEN "dialog" ELSE "none"]

\* A keymap where keystrokes find a binding and may grow, and where a binding
\* of the dialog is disabled in the field; and one with a single long binding.
Chords ==
  <<Binding(<<"g">>, "any", "Open"),
    Binding(<<"g", "x">>, "dialog", "Close"),
    OfBase(Binding(<<"g", "x">>, "field", "NoAction")),
    Binding(<<"g", "x", "y">>, "field", "Jump"),
    Binding(<<"x", "y">>, "Workspace", "Save"),
    Unbind(<<"x">>, "field", "Save")>>

Sequence == <<Binding(<<"g", "x", "y">>, "any", "Jump")>>

SomeMaps == {Chords, Sequence}
=============================================================================
