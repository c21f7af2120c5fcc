------------------------------ MODULE MCQuote ------------------------------
(* Small quotes for TLC. *)
EXTENDS Quote, TLC

\* Windows and machines are interchangeable where only safety is checked.
Interchangeable == Permutations(Windows) \cup Permutations(Machines)
=============================================================================
