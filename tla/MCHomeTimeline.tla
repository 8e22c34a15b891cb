--------------------------- MODULE MCHomeTimeline ---------------------------
(* Instances of HomeTimeline for TLC: f and g may follow author a; f may also
   follow r, who reposts. *)
EXTENDS HomeTimeline, TLC

CONSTANTS a, f, g, r, p, q

Readers == {a, f, g}
WithReposter == {a, f, r}
OnePost == {p}
TwoPosts == {p, q}
PostsOfA == (p :> a) @@ (q :> a)
OnePostOfA == p :> a

FollowA == {<<f, a>>, <<g, a>>}
FollowAOrR == {<<f, a>>, <<f, r>>}

AllActs == EdgeEvents \union PostEvents

ReaderSymmetry == Permutations({f, g})

NoFaults == {}
Losses == {"lost"}
AllFaults == FaultKinds
=============================================================================
