---------------------------- MODULE MCPartsGrid ----------------------------
(* Small pages of cards for TLC. *)
EXTENDS PartsGrid

\* A second outcome is shown and polled like the first.
OneOutcome == {"Completed"}
=============================================================================
