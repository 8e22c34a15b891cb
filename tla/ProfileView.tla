----------------------------- MODULE ProfileView -----------------------------
(***************************************************************************)
(* A profile (frontend/components/profile-view.tsx), the viewer's own or     *)
(* another's: the follow button with its flag, block and close friend with   *)
(* a shared one, and the grids loaded when their tab is first opened.  The   *)
(* field server is the relation user-svc holds.                              *)
(***************************************************************************)
EXTENDS Fetch, Integers

CONSTANT MaxActs    \* bound: clicks during one visit

VARIABLE profile

Relation == [following : BOOLEAN, blocking : BOOLEAN, closeFriend : BOOLEAN]
Stranger == [following |-> FALSE, blocking |-> FALSE, closeFriend |-> FALSE]

\* Blocking severs the other ties, and none is made while it lasts.
ServerRelations == {r \in Relation : r.blocking => ~r.following /\ ~r.closeFriend}

Tabs == {"posts", "saved", "tagged"}
Grids == {"saved", "tagged"}

TypeOK == profile \in [
    isMe : BOOLEAN, load : [at : Calls, answer : Relation],
    profile : BOOLEAN, loading : BOOLEAN, relation : Relation,
    follow : [at : Calls \union {"checked", "refused"}, next : BOOLEAN],
    action : [at : Calls, on : {"blocking", "closeFriend"}, next : BOOLEAN],
    tab : Tabs, grid : [Grids -> {"null", "shown"}],
    gridLoad : [Grids -> Calls], tabLoading : BOOLEAN,
    server : Relation, acts : 0..MaxActs, crossed : BOOLEAN, failed : BOOLEAN]

Init == \E me \in BOOLEAN, r \in ServerRelations : profile = [
    isMe |-> me, load |-> [at |-> "sent", answer |-> Stranger],
    profile |-> FALSE, loading |-> TRUE, relation |-> Stranger,
    follow |-> [at |-> "idle", next |-> FALSE],
    action |-> [at |-> "idle", on |-> "blocking", next |-> FALSE],
    tab |-> "posts", grid |-> [g \in Grids |-> "null"],
    gridLoad |-> [g \in Grids |-> "idle"], tabLoading |-> FALSE,
    server |-> IF me THEN Stranger ELSE r,
    acts |-> 0, crossed |-> FALSE, failed |-> FALSE]

Arrived(at) == at \in Ends

\* The profile is on screen and the user may click once more.
Act == profile.profile /\ ~profile.loading /\ profile.acts < MaxActs
Clicked == [profile EXCEPT !.acts = @ + 1]
-----------------------------------------------------------------------------
ServeLoad == \E end \in Ends :
    /\ profile.load.at = "sent"
    /\ profile' = [profile EXCEPT !.load = [at |-> end, answer |-> profile.server],
                                  !.failed = @ \/ end # "ok"]

\* Without a profile the page is "User not found".
Loaded ==
    /\ Arrived(profile.load.at)
    /\ LET p == [profile EXCEPT !.load.at = "idle", !.loading = FALSE] IN
       profile' = IF profile.load.at # "ok" THEN p
                  ELSE [p EXCEPT !.profile = TRUE, !.relation = profile.load.answer]
-----------------------------------------------------------------------------
\* Offered while the profile is not blocked.
ToggleFollow ==
    /\ Act /\ ~profile.isMe /\ ~profile.relation.blocking
    /\ profile.follow.at = "idle"
    /\ LET next == ~profile.relation.following IN
       profile' = [Clicked EXCEPT !.relation.following = next,
                                  !.follow = [at |-> "sent", next |-> next]]

\* Follow.post looks for a block, and writes the edge in a second query.
CheckFollow ==
    /\ profile.follow = [at |-> "sent", next |-> TRUE]
    /\ profile' = [profile EXCEPT !.follow.at =
                      IF profile.server.blocking THEN "refused" ELSE "checked"]

ServeFollow == \E end \in Ends : \E done \in Effects(end) :
    /\ profile.follow.at = IF profile.follow.next THEN "checked" ELSE "sent"
    /\ profile' = [profile EXCEPT !.follow.at = end, !.failed = @ \/ end # "ok",
                     !.crossed = @ \/ (profile.follow.next /\ profile.server.blocking),
                     !.server.following = IF done THEN profile.follow.next ELSE @]

FollowAnswered ==
    /\ Arrived(profile.follow.at) \/ profile.follow.at = "refused"
    /\ profile' = IF profile.follow.at = "ok" THEN [profile EXCEPT !.follow.at = "idle"]
                  ELSE [profile EXCEPT !.follow.at = "idle",
                                       !.relation.following = ~profile.follow.next]
-----------------------------------------------------------------------------
\* Not optimistic.
ToggleBlock ==
    /\ Act /\ ~profile.isMe /\ profile.action.at = "idle"
    /\ profile' = [Clicked EXCEPT !.action =
                     [at |-> "sent", on |-> "blocking", next |-> ~profile.relation.blocking]]

\* Offered while the profile is not blocked; optimistic.
ToggleCloseFriend ==
    /\ Act /\ ~profile.isMe /\ profile.action.at = "idle" /\ ~profile.relation.blocking
    /\ LET next == ~profile.relation.closeFriend IN
       profile' = [Clicked EXCEPT !.relation.closeFriend = next,
                     !.action = [at |-> "sent", on |-> "closeFriend", next |-> next]]

\* user-svc: a block removes the other two ties.
After(server, on, next) ==
    IF on = "blocking" /\ next THEN [Stranger EXCEPT !.blocking = TRUE]
                               ELSE [server EXCEPT ![on] = next]

ServeAction == \E end \in Ends : \E done \in Effects(end) :
    /\ profile.action.at = "sent"
    /\ profile' = [profile EXCEPT !.action.at = end, !.failed = @ \/ end # "ok",
                     !.crossed = @ \/ (profile.action = [at |-> "sent", on |-> "blocking", next |-> FALSE]
                                        /\ profile.follow.at \in {"sent", "checked"}),
                     !.server = IF done THEN After(@, profile.action.on, profile.action.next)
                                ELSE @]

\* Mutant: the follow and close friend buttons survive a block.
ActionAnsweredKept ==
    /\ Arrived(profile.action.at)
    /\ LET a == profile.action
           p == [profile EXCEPT !.action.at = "idle"] IN
       profile' = CASE a.on = "blocking" /\ a.at = "ok" -> [p EXCEPT !.relation.blocking = a.next]
                    [] a.on = "closeFriend" /\ a.at # "ok" ->
                         [p EXCEPT !.relation.closeFriend = ~a.next]
                    [] OTHER -> p

ActionAnswered ==
    /\ Arrived(profile.action.at)
    /\ LET a == profile.action
           p == [profile EXCEPT !.action.at = "idle"] IN
       profile' = CASE a.on = "blocking" /\ a.at = "ok" ->
                         [p EXCEPT !.relation = After(@, "blocking", a.next)]
                    [] a.on = "closeFriend" /\ a.at # "ok" ->
                         [p EXCEPT !.relation.closeFriend = ~a.next]
                    [] OTHER -> p
-----------------------------------------------------------------------------
\* The saved tab is offered on the own profile.  The effect asks for a grid
\* that is still null, again if its first call is not back.
SetTab == \E t \in Tabs \ {profile.tab} :
    /\ Act /\ (t = "saved" => profile.isMe)
    /\ profile' = IF t \in Grids /\ profile.grid[t] = "null"
                  THEN [Clicked EXCEPT !.tab = t, !.gridLoad[t] = "sent", !.tabLoading = TRUE]
                  ELSE [Clicked EXCEPT !.tab = t]

ServeGrid == \E g \in Grids, end \in Ends :
    /\ profile.gridLoad[g] = "sent"
    /\ profile' = [profile EXCEPT !.gridLoad[g] = end]

\* A failed call shows an empty grid.
GridLoaded == \E g \in Grids :
    /\ Arrived(profile.gridLoad[g])
    /\ profile' = [profile EXCEPT !.gridLoad[g] = "idle", !.grid[g] = "shown",
                                  !.tabLoading = FALSE]

Progress == \/ ServeLoad \/ Loaded \/ CheckFollow \/ ServeFollow \/ FollowAnswered
            \/ ServeAction \/ ActionAnswered \/ ServeGrid \/ GridLoaded

Next == ToggleFollow \/ ToggleBlock \/ ToggleCloseFriend \/ SetTab \/ Progress

Spec == Init /\ [][Next]_profile

Quiet == /\ profile.load.at = "idle" /\ profile.follow.at = "idle"
         /\ profile.action.at = "idle" /\ \A g \in Grids : profile.gridLoad[g] = "idle"
         /\ ~profile.loading /\ ~profile.tabLoading
         /\ profile.tab \in Grids => profile.grid[profile.tab] = "shown"

\* The buttons of a profile at rest offer what user-svc would do, although a
\* follow and a block may be in flight together and be answered in any order,
\* unless a call failed, or a follow was still in flight when user-svc wrote
\* it over a block made after its check, or when the profile was unblocked.
RelationshipAgrees ==
    Quiet /\ ~profile.failed /\ ~profile.crossed => profile.relation = profile.server
=============================================================================
