--------------------------- MODULE MCEditSession ---------------------------
(* Instances of EditSession for TLC. *)
EXTENDS EditSession

\* The second value of the property is one the validation refuses.
InvalidValues == {2}
CancelOrDiscard == {"cancel", "discard"}

=============================================================================
