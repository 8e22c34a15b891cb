---------------------------- MODULE MCFrontend ----------------------------
(* An instance of Frontend for TLC: two cards of one post and one of another,
   an upright and a wide photo, and feeds with and without own stories. *)
EXTENDS Frontend, TLC

Photos == [upright |-> [w |-> 1, h |-> 2], wide |-> [w |-> 3, h |-> 2]]
Drags == {-2, 1}
Watches == "a" :> 1 @@ "b" :> 1 @@ "c" :> 2
OwnAndOther == <<[author |-> 1, stories |-> 1], [author |-> 2, stories |-> 2]>>
Others == <<[author |-> 2, stories |-> 2], [author |-> 3, stories |-> 1]>>
TwoFeeds == {OwnAndOther, Others}
Bounds == [s \in Screens |-> CASE s \in {"search", "camera"} -> 4
                               [] s = "notes"                -> 2
                               [] OTHER                      -> 3]
=============================================================================
