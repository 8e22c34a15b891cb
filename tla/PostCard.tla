------------------------------ MODULE PostCard ------------------------------
(***************************************************************************)
(* The like, save and repost buttons of a post card                          *)
(* (frontend/components/post-card.tsx): optimistic toggles whose calls race  *)
(* with the initial reads of the card.  The fields named s... are what       *)
(* interaction-svc and post-svc hold for this viewer.  The pushed like count *)
(* is left out: Engagement says what the services push.                      *)
(***************************************************************************)
EXTENDS Fetch, Integers, FiniteSets

CONSTANT MaxActs    \* bound: what the user does during one visit

VARIABLE card

Clicks == 1..MaxActs

TypeOK == card \in [
    liked : BOOLEAN, likeLoad : [at : Calls, liked : BOOLEAN],
    like : [at : Calls, next : BOOLEAN],
    saved : BOOLEAN, set : [at : Calls \union {"loaded"}, has : BOOLEAN],
    save : [at : Calls \union {"waiting"}, next : BOOLEAN],
    reposted : BOOLEAN, repostId : {0} \union Clicks, repostCount : Nat,
    repost : [at : Calls, next : BOOLEAN, id : {0} \union Clicks],
    sLiked : BOOLEAN, sSaved : BOOLEAN, sReposts : SUBSET Clicks,
    acts : 0..MaxActs, raced : BOOLEAN, failed : BOOLEAN]

\* The reads of the mount effects are on their way; a repost of an earlier
\* visit is not looked up, so the button starts unpressed.
Init == \E liked, saved \in BOOLEAN : card = [
    liked |-> FALSE, likeLoad |-> [at |-> "sent", liked |-> FALSE],
    like |-> [at |-> "idle", next |-> FALSE],
    saved |-> FALSE, set |-> [at |-> "sent", has |-> FALSE],
    save |-> [at |-> "idle", next |-> FALSE],
    reposted |-> FALSE, repostId |-> 0, repostCount |-> 0,
    repost |-> [at |-> "idle", next |-> FALSE, id |-> 0],
    sLiked |-> liked, sSaved |-> saved, sReposts |-> {},
    acts |-> 0, raced |-> FALSE, failed |-> FALSE]

Arrived(call) == call.at \in Ends

\* A call is handled: its effect, and how it will end.
Handle(call, end) == [card EXCEPT ![call].at = end, !.failed = @ \/ end # "ok"]
-----------------------------------------------------------------------------
(* Likes.                                                                   *)

ServeLikeLoad == \E end \in Ends :
    /\ card.likeLoad.at = "sent"
    /\ card' = [Handle("likeLoad", end) EXCEPT !.likeLoad.liked = card.sLiked]

\* Applied whenever it comes, over whatever was clicked meanwhile.
LikeLoaded ==
    /\ Arrived(card.likeLoad)
    /\ card' = [card EXCEPT !.likeLoad.at = "idle",
                  !.liked = IF card.likeLoad.at = "ok" THEN card.likeLoad.liked ELSE @]

\* A double click on the picture only likes; the guard next === liked makes
\* it the same toggle.
ToggleLike ==
    /\ card.acts < MaxActs /\ card.like.at = "idle"
    /\ card' = [card EXCEPT !.acts = @ + 1, !.liked = ~@,
                  !.like = [at |-> "sent", next |-> ~card.liked],
                  !.raced = @ \/ card.likeLoad.at # "idle"]

ServeLike == \E end \in Ends : \E done \in Effects(end) :
    /\ card.like.at = "sent"
    /\ card' = [Handle("like", end) EXCEPT
                  !.sLiked = IF done THEN card.like.next ELSE @]

\* An answer that is not ok leaves the optimistic state.
LikeAnswered ==
    /\ Arrived(card.like)
    /\ card' = [card EXCEPT !.like.at = "idle",
                  !.liked = CASE card.like.at = "ok"      -> card.like.next
                              [] card.like.at = "refused" -> @
                              [] card.like.at = "lost"    -> ~card.like.next]
-----------------------------------------------------------------------------
(* Saves: the set of saved posts is read once and shared by all cards.      *)

ServeSavedSet == \E end \in Ends :
    /\ card.set.at = "sent"
    /\ card' = [Handle("set", end) EXCEPT
                  !.set.has = (end = "ok" /\ card.sSaved)]

\* The mount effect was first to wait for the set, a toggle comes after it.
SavedSetLoaded ==
    /\ Arrived(card.set)
    /\ card' = IF card.save.at = "waiting"
               THEN [card EXCEPT !.saved = card.set.has, !.save.at = "sent",
                       !.set = [at |-> "loaded", has |-> card.save.next]]
               ELSE [card EXCEPT !.saved = card.set.has, !.set.at = "loaded"]

ToggleSave ==
    /\ card.acts < MaxActs /\ card.save.at = "idle"
    /\ card' = IF card.set.at = "loaded"
               THEN [card EXCEPT !.acts = @ + 1, !.saved = ~@, !.set.has = ~card.saved,
                       !.save = [at |-> "sent", next |-> ~card.saved]]
               ELSE [card EXCEPT !.acts = @ + 1, !.saved = ~@, !.raced = TRUE,
                       !.save = [at |-> "waiting", next |-> ~card.saved]]

ServeSave == \E end \in Ends : \E done \in Effects(end) :
    /\ card.save.at = "sent"
    /\ card' = [Handle("save", end) EXCEPT
                  !.sSaved = IF done THEN card.save.next ELSE @]

SaveAnswered ==
    /\ Arrived(card.save)
    /\ card' = IF card.save.at = "ok"
               THEN [card EXCEPT !.save.at = "idle"]
               ELSE [card EXCEPT !.save.at = "idle", !.saved = ~card.save.next,
                       !.set.has = ~card.save.next]
-----------------------------------------------------------------------------
(* Reposts.                                                                 *)

Bump(count, up) == IF up THEN count + 1 ELSE IF count = 0 THEN 0 ELSE count - 1

\* Withdrawn by id: without one nothing is sent.
ToggleRepost ==
    /\ card.acts < MaxActs /\ card.repost.at = "idle"
    /\ card' = [card EXCEPT !.acts = @ + 1, !.reposted = ~@,
                  !.repostCount = Bump(@, ~card.reposted),
                  !.repost = [at |-> IF card.reposted /\ card.repostId = 0
                                     THEN "idle" ELSE "sent",
                              next |-> ~card.reposted, id |-> card.repostId]]

\* Every POST makes another repost, numbered by the click; a repost that is
\* gone cannot be withdrawn again.
ServeRepost == \E end \in Ends : \E done \in Effects(end) :
    /\ card.repost.at = "sent"
    /\ card.repost.next \/ card.repost.id \in card.sReposts \/ end # "ok"
    /\ LET id == IF card.repost.next THEN card.acts ELSE card.repost.id IN
       card' = [Handle("repost", end) EXCEPT
                  !.repost.id = id,
                  !.sReposts = IF ~done THEN @ ELSE
                     IF card.repost.next THEN @ \union {id} ELSE @ \ {id}]

\* Mutant: the id of a repost is not kept for withdrawing it.
RepostForgotten ==
    /\ Arrived(card.repost)
    /\ card' = IF card.repost.at = "ok"
               THEN [card EXCEPT !.repost.at = "idle"]
               ELSE [card EXCEPT !.repost.at = "idle", !.reposted = ~card.repost.next,
                       !.repostCount = Bump(@, ~card.repost.next)]

RepostAnswered ==
    /\ Arrived(card.repost)
    /\ card' = IF card.repost.at = "ok"
               THEN [card EXCEPT !.repost.at = "idle",
                       !.repostId = IF card.repost.next THEN card.repost.id ELSE 0]
               ELSE [card EXCEPT !.repost.at = "idle", !.reposted = ~card.repost.next,
                       !.repostCount = Bump(@, ~card.repost.next)]
-----------------------------------------------------------------------------
Click == ToggleLike \/ ToggleSave \/ ToggleRepost

Progress ==
    \/ ServeLikeLoad \/ LikeLoaded \/ ServeLike \/ LikeAnswered
    \/ ServeSavedSet \/ SavedSetLoaded \/ ServeSave \/ SaveAnswered
    \/ ServeRepost \/ RepostAnswered

Next == Click \/ Progress

Spec == Init /\ [][Next]_card

Quiet == /\ card.likeLoad.at = "idle" /\ card.set.at = "loaded"
         /\ \A call \in {"like", "save", "repost"} : card[call].at = "idle"

\* A card at rest shows what the services hold, and can withdraw exactly the
\* repost it made, unless a call failed or a button was pressed before the
\* card knew its own state (the mount effects do not look at the toggles).
SettledCardAgrees ==
    Quiet /\ ~card.failed /\ ~card.raced =>
        /\ card.liked = card.sLiked
        /\ card.saved = card.sSaved /\ card.set.has = card.sSaved
        /\ card.sReposts = IF card.reposted THEN {card.repostId} ELSE {}
        /\ card.repostCount = Cardinality(card.sReposts)
=============================================================================
