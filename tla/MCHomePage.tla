----------------------------- MODULE MCHomePage -----------------------------
(* Instances of HomePage for TLC. *)
EXTENDS HomePage

CONSTANTS p1, p2

TwoPosts == {p1, p2}

Everything == EnvironmentKinds
=============================================================================
