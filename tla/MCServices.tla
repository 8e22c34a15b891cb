---------------------------- MODULE MCServices ----------------------------
(* An instance of Services for TLC: two users, two requests in flight. *)
EXTENDS Services, TLC

Bounds == [g \in Groups |-> CASE g = "post" -> 4
                              [] g = "chat" -> 4
                              [] g = "media" -> 5
                              [] g = "search" -> 4
                              [] OTHER      -> 2]
Symmetry == Permutations(Requests)
=============================================================================
