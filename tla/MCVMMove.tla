------------------------------ MODULE MCVMMove ------------------------------
(* Model values for the runs of VMMove.                                    *)
EXTENDS VMMove

CONSTANTS p1, p2

TwoPools == {p1, p2}
OneLossy == {p1}
NoneLossy == {}
NoRace == {}
DrainRace == {"drain"}
MaterializerRace == {"materializer"}
=============================================================================
