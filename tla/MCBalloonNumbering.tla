------------------------ MODULE MCBalloonNumbering -------------------------
(* Small drawings for TLC. *)
EXTENDS BalloonNumbering
=============================================================================
