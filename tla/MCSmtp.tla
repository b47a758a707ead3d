------------------------------- MODULE MCSmtp -------------------------------
(* The smtp provider with the values of maxRetries at its two limits and near. *)
EXTENDS Smtp

MCRetries == {-1, 0, 2, 11}
=============================================================================
