------------------------- MODULE MCBallooningEditor -------------------------
(* Small instances of BallooningEditor for TLC. *)
EXTENDS BallooningEditor, TLC

EveryScope == Pages \cup {Whole, SkipDone}
=============================================================================
