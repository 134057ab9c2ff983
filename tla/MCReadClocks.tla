----------------------------- MODULE MCReadClocks -----------------------------
(* Instance of the ReadClocks for TLC: a second has two instants, and a     *)
(* tick that is missed altogether can be reached when Lag is larger.        *)
EXTENDS ReadClocks
MCCredits == {0, 2}
=============================================================================
