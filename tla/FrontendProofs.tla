--------------------------- MODULE FrontendProofs ---------------------------
(***************************************************************************)
(* Proofs about Frontend, for every number of clicks and mounts, every       *)
(* feed, query, post and photo, and every choice of faults.  A component on  *)
(* screen is followed by an invariant of its own (CardInv, GridInv, ...),    *)
(* that says what every call on its way will still change; the invariant of  *)
(* the tab is that of the component on screen.  The sections are in the      *)
(* order post card, comments, profile page, search, story viewer, story      *)
(* camera, upload page, grid, realtime client, profile dialog,               *)
(* notifications, messages, tab.                                             *)
(***************************************************************************)
EXTENDS FrontendInvariants, FiniteSetTheorems, TLAPS

LEMMA Bounds ==
  /\ Faults \subseteq {"refused", "lost"}
  /\ \A s \in Screens : MaxActs[s] \in Nat
  BY BoundsAssumption

-----------------------------------------------------------------------------
(* Lists.                                                                    *)

LEMMA ListTail ==
  ASSUME NEW S, NEW s \in Seq(S), s # <<>>
  PROVE  /\ Head(s) = s[1] /\ Head(s) \in S /\ Tail(s) \in Seq(S)
         /\ Len(s) \in Nat /\ Len(s) >= 1 /\ DOMAIN s = 1..Len(s)
         /\ Len(Tail(s)) = Len(s) - 1 /\ DOMAIN Tail(s) = 1..(Len(s) - 1)
         /\ \A i \in 1..(Len(s) - 1) : Tail(s)[i] = s[i + 1]
  OBVIOUS

LEMMA ListAppend ==
  ASSUME NEW S, NEW s \in Seq(S), NEW e \in S
  PROVE  /\ Append(s, e) \in Seq(S) /\ Len(s) \in Nat
         /\ Len(Append(s, e)) = Len(s) + 1
         /\ DOMAIN s = 1..Len(s) /\ DOMAIN Append(s, e) = 1..(Len(s) + 1)
         /\ \A i \in 1..Len(s) : Append(s, e)[i] = s[i]
         /\ Append(s, e)[Len(s) + 1] = e
  OBVIOUS

LEMMA ListCons ==
  ASSUME NEW S, NEW s \in Seq(S), NEW e \in S
  PROVE  /\ <<e>> \o s \in Seq(S) /\ Len(s) \in Nat
         /\ Len(<<e>> \o s) = Len(s) + 1
         /\ DOMAIN s = 1..Len(s) /\ DOMAIN (<<e>> \o s) = 1..(Len(s) + 1)
         /\ \A i \in 1..Len(s) : (<<e>> \o s)[i + 1] = s[i]
         /\ (<<e>> \o s)[1] = e
  OBVIOUS

LEMMA ListSize ==
  ASSUME NEW s, NEW l \in Nat, NEW T, ListOf(s, l, T)
  PROVE  IsFiniteSet(T) /\ Cardinality(T) = l
<1> DEFINE f == [i \in 1..l |-> s[i]]
<1>1. f \in Bijection(1..l, T)
  BY DEF ListOf, Bijection, Injection, Surjection, IsInjective
<1>2. ExistsBijection(1..l, T)
  BY <1>1 DEF ExistsBijection
<1>3. IsFiniteSet(1..l) /\ Cardinality(1..l) = l
  BY FS_Interval
<1>4. IsFiniteSet(T) /\ Cardinality(T) = Cardinality(1..l)
  BY <1>2, <1>3, FS_Bijection
<1> QED
  BY <1>3, <1>4
-----------------------------------------------------------------------------
(* post-card.tsx, the buttons: what each shows is what the service holds, or *)
(* what it will hold when the call that is on its way has been handled.      *)

LEMMA CardBounds == Faults \subseteq {"refused", "lost"} /\ MaxActs["card"] \in Nat
  BY Bounds DEF Screens

LEMMA CardCardSame == \A S : Card!Cardinality(S) = Cardinality(S)
  BY DEF Card!Cardinality, Cardinality

LEMMA CardCallEnds ==
  /\ "idle" \notin Card!Ends /\ "sent" \notin Card!Ends /\ "loaded" \notin Card!Ends /\ "waiting" \notin Card!Ends
  /\ Card!Ends \subseteq Card!Calls /\ Card!Ends \subseteq {"ok", "refused", "lost"}
  /\ "idle" \in Card!Calls /\ "sent" \in Card!Calls
  BY CardBounds DEF Card!Ends, Card!Calls

LEMMA CardHowItEnds ==
  ASSUME NEW end \in Card!Ends, NEW done \in Card!Effects(end)
  PROVE  done \in BOOLEAN /\ (end = "ok" => done = TRUE)
  BY CardBounds DEF Card!Ends, Card!Effects

LEMMA CardInitInv ==
  ASSUME Card!Init PROVE CardInv
<1>1. PICK liked, saved \in BOOLEAN : view = [
        liked |-> FALSE, likeLoad |-> [at |-> "sent", liked |-> FALSE],
        like |-> [at |-> "idle", next |-> FALSE],
        saved |-> FALSE, set |-> [at |-> "sent", has |-> FALSE],
        save |-> [at |-> "idle", next |-> FALSE],
        reposted |-> FALSE, repostId |-> 0, repostCount |-> 0,
        repost |-> [at |-> "idle", next |-> FALSE, id |-> 0],
        sLiked |-> liked, sSaved |-> saved, sReposts |-> {},
        acts |-> 0, raced |-> FALSE, failed |-> FALSE]
  BY DEF Card!Init
<1>2. view \in CardState
  BY <1>1, CardCallEnds, CardBounds DEF CardState, CardCall, CardSet, CardRepost
<1>3. /\ view.likeLoad.at = "sent" /\ view.like.at = "idle"
      /\ view.set.at = "sent" /\ view.save.at = "idle"
      /\ view.repost.at = "idle" /\ view.reposted = FALSE /\ view.repostCount = 0
      /\ view.sReposts = {}
  BY <1>1
<1> QED
  BY <1>2, <1>3 DEF CardInv, CardGood, CardLikes, CardSaves, CardReposts

\* A call is handled: nothing else changes but that it may have failed.
LEMMA CardLikeLoadEnds ==
  ASSUME view \in CardState, NEW end \in Card!Ends
  PROVE  \E l \in [at : Card!Calls, liked : BOOLEAN], failed \in BOOLEAN :
            /\ Card!Handle("likeLoad", end) = [view EXCEPT !.likeLoad = l, !.failed = failed]
            /\ l.at = end /\ l.liked = view.likeLoad.liked
            /\ failed <=> view.failed \/ end # "ok"
<1> DEFINE l == [view.likeLoad EXCEPT !.at = end]
<1>1. l \in [at : Card!Calls, liked : BOOLEAN] /\ l.at = end /\ l.liked = view.likeLoad.liked
  BY CardCallEnds DEF CardState, CardCall, CardSet, CardRepost
<1>2. PICK failed \in BOOLEAN : failed <=> view.failed \/ end # "ok"
  OBVIOUS
<1>3. Card!Handle("likeLoad", end) = [view EXCEPT !.likeLoad = l, !.failed = failed]
  BY <1>2 DEF Card!Handle, CardState
<1> HIDE DEF l
<1> QED
  BY <1>1, <1>2, <1>3

LEMMA CardLikeEnds ==
  ASSUME view \in CardState, NEW end \in Card!Ends
  PROVE  \E l \in CardCall, failed \in BOOLEAN :
            /\ Card!Handle("like", end) = [view EXCEPT !.like = l, !.failed = failed]
            /\ l.at = end /\ l.next = view.like.next
            /\ failed <=> view.failed \/ end # "ok"
<1> DEFINE l == [view.like EXCEPT !.at = end]
<1>1. l \in CardCall /\ l.at = end /\ l.next = view.like.next
  BY CardCallEnds DEF CardState, CardCall, CardSet, CardRepost
<1>2. PICK failed \in BOOLEAN : failed <=> view.failed \/ end # "ok"
  OBVIOUS
<1>3. Card!Handle("like", end) = [view EXCEPT !.like = l, !.failed = failed]
  BY <1>2 DEF Card!Handle, CardState
<1> HIDE DEF l
<1> QED
  BY <1>1, <1>2, <1>3

LEMMA CardSetEnds ==
  ASSUME view \in CardState, NEW end \in Card!Ends
  PROVE  \E l \in CardSet, failed \in BOOLEAN :
            /\ Card!Handle("set", end) = [view EXCEPT !.set = l, !.failed = failed]
            /\ l.at = end /\ l.has = view.set.has
            /\ failed <=> view.failed \/ end # "ok"
<1> DEFINE l == [view.set EXCEPT !.at = end]
<1>1. l \in CardSet /\ l.at = end /\ l.has = view.set.has
  BY CardCallEnds DEF CardState, CardCall, CardSet, CardRepost
<1>2. PICK failed \in BOOLEAN : failed <=> view.failed \/ end # "ok"
  OBVIOUS
<1>3. Card!Handle("set", end) = [view EXCEPT !.set = l, !.failed = failed]
  BY <1>2 DEF Card!Handle, CardState
<1> HIDE DEF l
<1> QED
  BY <1>1, <1>2, <1>3

LEMMA CardSaveEnds ==
  ASSUME view \in CardState, NEW end \in Card!Ends
  PROVE  \E l \in [at : Card!Calls \union {"waiting"}, next : BOOLEAN], failed \in BOOLEAN :
            /\ Card!Handle("save", end) = [view EXCEPT !.save = l, !.failed = failed]
            /\ l.at = end /\ l.next = view.save.next
            /\ failed <=> view.failed \/ end # "ok"
<1> DEFINE l == [view.save EXCEPT !.at = end]
<1>1. l \in [at : Card!Calls \union {"waiting"}, next : BOOLEAN] /\ l.at = end /\ l.next = view.save.next
  BY CardCallEnds DEF CardState, CardCall, CardSet, CardRepost
<1>2. PICK failed \in BOOLEAN : failed <=> view.failed \/ end # "ok"
  OBVIOUS
<1>3. Card!Handle("save", end) = [view EXCEPT !.save = l, !.failed = failed]
  BY <1>2 DEF Card!Handle, CardState
<1> HIDE DEF l
<1> QED
  BY <1>1, <1>2, <1>3

LEMMA CardRepostEnds ==
  ASSUME view \in CardState, NEW end \in Card!Ends
  PROVE  \E l \in CardRepost, failed \in BOOLEAN :
            /\ Card!Handle("repost", end) = [view EXCEPT !.repost = l, !.failed = failed]
            /\ l.at = end /\ l.next = view.repost.next /\ l.id = view.repost.id
            /\ failed <=> view.failed \/ end # "ok"
<1> DEFINE l == [view.repost EXCEPT !.at = end]
<1>1. l \in CardRepost /\ l.at = end /\ l.next = view.repost.next /\ l.id = view.repost.id
  BY CardCallEnds DEF CardState, CardCall, CardSet, CardRepost
<1>2. PICK failed \in BOOLEAN : failed <=> view.failed \/ end # "ok"
  OBVIOUS
<1>3. Card!Handle("repost", end) = [view EXCEPT !.repost = l, !.failed = failed]
  BY <1>2 DEF Card!Handle, CardState
<1> HIDE DEF l
<1> QED
  BY <1>1, <1>2, <1>3

LEMMA CardLikesChange ==
  ASSUME CardInv, NEW h \in CardState, h.acts # 0 \/ h.acts = view.acts,
         CardSavesSame(h), CardRepostsSame(h),
         ~h.failed /\ ~h.raced => ~view.failed /\ ~view.raced,
         ~h.failed /\ ~h.raced /\ CardLikes(view) => CardLikes(h)
  PROVE  CardGood(h)
<1>1. CardSaves(view) => CardSaves(h)
  BY DEF CardSaves, CardSavesSame
<1>2. CardReposts(view) => CardReposts(h)
  BY DEF CardReposts, CardRepostsSame
<1> QED
  BY <1>1, <1>2 DEF CardInv, CardGood, CardRepostsSame

LEMMA CardSavesChange ==
  ASSUME CardInv, NEW h \in CardState, h.acts # 0 \/ h.acts = view.acts,
         CardLikesSame(h), CardRepostsSame(h),
         ~h.failed /\ ~h.raced => ~view.failed /\ ~view.raced,
         ~h.failed /\ ~h.raced /\ CardSaves(view) => CardSaves(h)
  PROVE  CardGood(h)
<1>1. CardLikes(view) => CardLikes(h)
  BY DEF CardLikes, CardLikesSame
<1>2. CardReposts(view) => CardReposts(h)
  BY DEF CardReposts, CardRepostsSame
<1> QED
  BY <1>1, <1>2 DEF CardInv, CardGood, CardRepostsSame

LEMMA CardRepostsChange ==
  ASSUME CardInv, NEW h \in CardState, h.repost.at = "sent" => h.acts # 0,
         CardLikesSame(h), CardSavesSame(h),
         ~h.failed /\ ~h.raced => ~view.failed /\ ~view.raced,
         ~h.failed /\ ~h.raced /\ CardReposts(view) => CardReposts(h)
  PROVE  CardGood(h)
<1>1. CardLikes(view) => CardLikes(h)
  BY DEF CardLikes, CardLikesSame
<1>2. CardSaves(view) => CardSaves(h)
  BY DEF CardSaves, CardSavesSame
<1> QED
  BY <1>1, <1>2 DEF CardInv, CardGood

LEMMA CardLikeStep ==
  ASSUME CardInv, Card!ServeLikeLoad \/ Card!LikeLoaded \/ Card!ToggleLike \/ Card!ServeLike \/ Card!LikeAnswered
  PROVE  CardInv'
<1>0. view \in CardState
  BY DEF CardInv, CardGood
<1>1. CASE Card!ServeLikeLoad
  <2>1. PICK end \in Card!Ends :
          /\ view.likeLoad.at = "sent"
          /\ view' = [Card!Handle("likeLoad", end) EXCEPT !.likeLoad.liked = view.sLiked]
    BY <1>1 DEF Card!ServeLikeLoad
  <2>2. PICK l \in [at : Card!Calls, liked : BOOLEAN], failed \in BOOLEAN :
          /\ Card!Handle("likeLoad", end) = [view EXCEPT !.likeLoad = l, !.failed = failed]
          /\ l.at = end
          /\ failed <=> view.failed \/ end # "ok"
    BY <1>0, CardLikeLoadEnds
  <2> DEFINE m == [l EXCEPT !.liked = view.sLiked]
  <2>3. m \in [at : Card!Calls, liked : BOOLEAN] /\ m.at = end /\ m.liked = view.sLiked
    BY <1>0, <2>2 DEF CardState
  <2>4. view' = [view EXCEPT !.likeLoad = m, !.failed = failed]
    BY <1>0, <2>1, <2>2, <2>3 DEF CardState
  <2> HIDE DEF m
  <2>5. /\ view' \in CardState /\ CardSavesSame(view') /\ CardRepostsSame(view')
        /\ view'.liked = view.liked /\ view'.likeLoad = m /\ view'.like = view.like
        /\ view'.sLiked = view.sLiked /\ view'.acts = view.acts
        /\ view'.raced = view.raced /\ view'.failed = failed
    BY <1>0, <2>3, <2>4 DEF CardState, CardSavesSame, CardRepostsSame
  <2>6. ~failed /\ CardLikes(view) => CardLikes(view')
    BY <2>1, <2>2, <2>3, <2>5 DEF CardLikes
  <2> QED
    BY <2>2, <2>5, <2>6, CardLikesChange DEF CardInv
<1>2. CASE Card!LikeLoaded
  <2>1. /\ view.likeLoad.at \in Card!Ends
        /\ view' = [view EXCEPT !.likeLoad.at = "idle",
                      !.liked = IF view.likeLoad.at = "ok" THEN view.likeLoad.liked ELSE @]
    BY <1>2 DEF Card!LikeLoaded, Card!Arrived
  <2> DEFINE m == [view.likeLoad EXCEPT !.at = "idle"]
  <2>2. m \in [at : Card!Calls, liked : BOOLEAN] /\ m.at = "idle"
    BY <1>0, CardCallEnds DEF CardState
  <2>3. PICK liked \in BOOLEAN :
          liked = IF view.likeLoad.at = "ok" THEN view.likeLoad.liked ELSE view.liked
    BY <1>0 DEF CardState
  <2>4. view' = [view EXCEPT !.likeLoad = m, !.liked = liked]
    BY <1>0, <2>1, <2>2, <2>3 DEF CardState
  <2> HIDE DEF m
  <2>5. /\ view' \in CardState /\ CardSavesSame(view') /\ CardRepostsSame(view')
        /\ view'.liked = liked /\ view'.likeLoad = m /\ view'.like = view.like
        /\ view'.sLiked = view.sLiked /\ view'.acts = view.acts
        /\ view'.raced = view.raced /\ view'.failed = view.failed
    BY <1>0, <2>2, <2>3, <2>4 DEF CardState, CardSavesSame, CardRepostsSame
  <2>6. CardLikes(view) => CardLikes(view')
    BY <2>1, <2>2, <2>3, <2>5, CardCallEnds DEF CardLikes
  <2> QED
    BY <2>5, <2>6, CardLikesChange DEF CardInv
<1>3. CASE Card!ToggleLike
  <2>1. /\ view.acts < MaxActs["card"] /\ view.like.at = "idle"
        /\ view' = [view EXCEPT !.acts = @ + 1, !.liked = ~@,
                      !.like = [at |-> "sent", next |-> ~view.liked],
                      !.raced = @ \/ view.likeLoad.at # "idle"]
    BY <1>3 DEF Card!ToggleLike
  <2>2. PICK n \in 0..MaxActs["card"] : n = view.acts + 1 /\ n # 0
    BY <1>0, <2>1, CardBounds DEF CardState
  <2>3. PICK liked \in BOOLEAN : liked = ~view.liked
    OBVIOUS
  <2> DEFINE like == [at |-> "sent", next |-> liked]
  <2>4. like \in CardCall /\ like.at = "sent" /\ like.next = liked
    BY <2>3, CardCallEnds DEF CardCall
  <2>5. PICK raced \in BOOLEAN : raced = (view.raced \/ view.likeLoad.at # "idle")
    OBVIOUS
  <2>6. view' = [view EXCEPT !.acts = n, !.liked = liked, !.like = like, !.raced = raced]
    BY <1>0, <2>1, <2>2, <2>3, <2>4, <2>5 DEF CardState
  <2> HIDE DEF like
  <2>6a. n \in 0..MaxActs["card"] /\ liked \in BOOLEAN /\ raced \in BOOLEAN
    BY <2>2, <2>3, <2>5
  <2>7. /\ view' \in CardState /\ CardSavesSame(view') /\ CardRepostsSame(view')
        /\ view'.liked = liked /\ view'.likeLoad = view.likeLoad /\ view'.like = like
        /\ view'.sLiked = view.sLiked /\ view'.acts = n /\ view'.raced = raced
        /\ view'.failed = view.failed
    BY <1>0, <2>4, <2>6, <2>6a DEF CardState, CardSavesSame, CardRepostsSame
  <2>8. ~raced /\ CardLikes(view) => CardLikes(view')
    BY <2>1, <2>4, <2>5, <2>7 DEF CardLikes
  <2> QED
    BY <2>2, <2>5, <2>7, <2>8, CardLikesChange DEF CardInv
<1>4. CASE Card!ServeLike
  <2>1. PICK end \in Card!Ends : \E done \in Card!Effects(end) :
          /\ view.like.at = "sent"
          /\ view' = [Card!Handle("like", end) EXCEPT !.sLiked = IF done THEN view.like.next ELSE @]
    BY <1>4 DEF Card!ServeLike
  <2>1a. PICK done \in Card!Effects(end) :
          /\ view.like.at = "sent"
          /\ view' = [Card!Handle("like", end) EXCEPT !.sLiked = IF done THEN view.like.next ELSE @]
    BY <2>1
  <2>2. PICK l \in CardCall, failed \in BOOLEAN :
          /\ Card!Handle("like", end) = [view EXCEPT !.like = l, !.failed = failed]
          /\ l.at = end /\ l.next = view.like.next
          /\ failed <=> view.failed \/ end # "ok"
    BY <1>0, CardLikeEnds
  <2>3. PICK sLiked \in BOOLEAN :
          sLiked = IF done THEN view.like.next ELSE view.sLiked
    BY <1>0 DEF CardState, CardCall
  <2>4. view' = [view EXCEPT !.like = l, !.failed = failed, !.sLiked = sLiked]
    BY <1>0, <2>1a, <2>2, <2>3 DEF CardState
  <2>5. /\ view' \in CardState /\ CardSavesSame(view') /\ CardRepostsSame(view')
        /\ view'.liked = view.liked /\ view'.likeLoad = view.likeLoad /\ view'.like = l
        /\ view'.sLiked = sLiked /\ view'.acts = view.acts /\ view'.raced = view.raced
        /\ view'.failed = failed
    BY <1>0, <2>2, <2>3, <2>4 DEF CardState, CardSavesSame, CardRepostsSame
  <2>6. end = "ok" => sLiked = view.like.next
    BY <2>3, CardHowItEnds
  <2>7. ~failed /\ CardLikes(view) => CardLikes(view')
    BY <2>1a, <2>2, <2>5, <2>6 DEF CardLikes
  <2> QED
    BY <2>2, <2>5, <2>7, CardLikesChange DEF CardInv
<1>5. CASE Card!LikeAnswered
  <2>1. /\ view.like.at \in Card!Ends
        /\ view' = [view EXCEPT !.like.at = "idle",
                      !.liked = CASE view.like.at = "ok"      -> view.like.next
                                  [] view.like.at = "refused" -> @
                                  [] view.like.at = "lost"    -> ~view.like.next]
    BY <1>5 DEF Card!LikeAnswered, Card!Arrived
  <2> DEFINE like == [view.like EXCEPT !.at = "idle"]
  <2>2. like \in CardCall /\ like.at = "idle"
    BY <1>0, CardCallEnds DEF CardState, CardCall
  <2>2a. view.liked \in BOOLEAN /\ view.like.next \in BOOLEAN
    BY <1>0 DEF CardState, CardCall
  <2>3. PICK liked \in BOOLEAN :
          /\ liked = CASE view.like.at = "ok"      -> view.like.next
                       [] view.like.at = "refused" -> view.liked
                       [] view.like.at = "lost"    -> ~view.like.next
          /\ view.like.at = "ok" => liked = view.like.next
    <3>1. CASE view.like.at = "ok"
      BY <2>2a, <3>1
    <3>2. CASE view.like.at = "refused"
      BY <2>2a, <3>2
    <3>3. CASE view.like.at = "lost"
      <4>1. PICK liked \in BOOLEAN : liked = ~view.like.next
        OBVIOUS
      <4> QED
        BY <3>3, <4>1
    <3> QED
      BY <2>1, <3>1, <3>2, <3>3, CardCallEnds
  <2>4. view' = [view EXCEPT !.like = like, !.liked = liked]
    BY <1>0, <2>1, <2>2, <2>3 DEF CardState
  <2> HIDE DEF like
  <2>5. /\ view' \in CardState /\ CardSavesSame(view') /\ CardRepostsSame(view')
        /\ view'.liked = liked /\ view'.likeLoad = view.likeLoad /\ view'.like = like
        /\ view'.sLiked = view.sLiked /\ view'.acts = view.acts
        /\ view'.raced = view.raced /\ view'.failed = view.failed
    BY <1>0, <2>2, <2>3, <2>4 DEF CardState, CardSavesSame, CardRepostsSame
  <2>6. CardLikes(view) => CardLikes(view')
    BY <2>1, <2>2, <2>3, <2>5, CardCallEnds DEF CardLikes
  <2> QED
    BY <2>5, <2>6, CardLikesChange DEF CardInv
<1> QED
  BY <1>1, <1>2, <1>3, <1>4, <1>5

LEMMA CardSaveStep ==
  ASSUME CardInv, Card!ServeSavedSet \/ Card!SavedSetLoaded \/ Card!ToggleSave \/ Card!ServeSave \/ Card!SaveAnswered
  PROVE  CardInv'
<1> DEFINE Save == [at : Card!Calls \union {"waiting"}, next : BOOLEAN]
<1>0. view \in CardState
  BY DEF CardInv, CardGood
<1>a. /\ view.set \in CardSet /\ view.set.has \in BOOLEAN /\ view.save \in Save
      /\ view.save.next \in BOOLEAN /\ view.saved \in BOOLEAN /\ view.sSaved \in BOOLEAN
  BY <1>0 DEF CardState, CardSet
<1>1. CASE Card!ServeSavedSet
  <2>1. PICK end \in Card!Ends :
          /\ view.set.at = "sent"
          /\ view' = [Card!Handle("set", end) EXCEPT !.set.has = (end = "ok" /\ view.sSaved)]
    BY <1>1 DEF Card!ServeSavedSet
  <2>2. PICK l \in CardSet, failed \in BOOLEAN :
          /\ Card!Handle("set", end) = [view EXCEPT !.set = l, !.failed = failed]
          /\ l.at = end
          /\ failed <=> view.failed \/ end # "ok"
    BY <1>0, CardSetEnds
  <2>3. PICK has \in BOOLEAN : has = (end = "ok" /\ view.sSaved)
    OBVIOUS
  <2> DEFINE m == [l EXCEPT !.has = has]
  <2>3a. m \in CardSet /\ m.at = end /\ m.has = has
    BY <2>2 DEF CardSet
  <2>4. view' = [view EXCEPT !.set = m, !.failed = failed]
    BY <1>0, <2>1, <2>2, <2>3, <2>3a DEF CardState
  <2> HIDE DEF m
  <2>5. /\ view' \in CardState /\ CardLikesSame(view') /\ CardRepostsSame(view')
        /\ view'.saved = view.saved /\ view'.set = m /\ view'.save = view.save
        /\ view'.sSaved = view.sSaved /\ view'.acts = view.acts
        /\ view'.raced = view.raced /\ view'.failed = failed
    BY <1>0, <2>3a, <2>4 DEF CardState, CardLikesSame, CardRepostsSame
  <2>5a. end = "ok" => has = view.sSaved
    BY <1>a, <2>3
  <2>6. ~failed /\ CardSaves(view) => CardSaves(view')
    BY <2>1, <2>2, <2>3a, <2>5, <2>5a DEF CardSaves
  <2> QED
    BY <2>2, <2>5, <2>6, CardSavesChange DEF CardInv
<1>2. CASE Card!SavedSetLoaded /\ view.save.at = "waiting"
  <2>1. /\ view.set.at \in Card!Ends
        /\ view' = [view EXCEPT !.saved = view.set.has, !.save.at = "sent",
                       !.set = [at |-> "loaded", has |-> view.save.next]]
    BY <1>2 DEF Card!SavedSetLoaded, Card!Arrived
  <2> DEFINE save == [view.save EXCEPT !.at = "sent"]
  <2>2. save \in Save /\ save.at = "sent"
    BY <1>a, CardCallEnds
  <2> DEFINE set == [at |-> "loaded", has |-> view.save.next]
  <2>3. set \in CardSet
    BY <1>a DEF CardSet
  <2>4. view' = [view EXCEPT !.saved = view.set.has, !.save = save, !.set = set]
    BY <1>0, <2>1, <2>2, <2>3 DEF CardState
  <2> HIDE DEF save, set
  <2>5. /\ view' \in CardState /\ CardLikesSame(view') /\ CardRepostsSame(view')
        /\ view'.saved = view.set.has /\ view'.set = set /\ view'.save = save
        /\ view'.sSaved = view.sSaved /\ view'.acts = view.acts
        /\ view'.raced = view.raced /\ view'.failed = view.failed
    BY <1>0, <1>a, <2>2, <2>3, <2>4 DEF CardState, CardLikesSame, CardRepostsSame
  <2>6. ~CardSaves(view)
    BY <1>2 DEF CardSaves
  <2> QED
    BY <2>5, <2>6, CardSavesChange DEF CardInv
<1>3. CASE Card!SavedSetLoaded /\ view.save.at # "waiting"
  <2>1. /\ view.set.at \in Card!Ends
        /\ view' = [view EXCEPT !.saved = view.set.has, !.set.at = "loaded"]
    BY <1>3 DEF Card!SavedSetLoaded, Card!Arrived
  <2> DEFINE set == [view.set EXCEPT !.at = "loaded"]
  <2>2. set \in CardSet /\ set.at = "loaded" /\ set.has = view.set.has
    BY <1>a DEF CardSet
  <2>4. view' = [view EXCEPT !.saved = view.set.has, !.set = set]
    BY <1>0, <2>1, <2>2 DEF CardState
  <2> HIDE DEF set
  <2>5. /\ view' \in CardState /\ CardLikesSame(view') /\ CardRepostsSame(view')
        /\ view'.saved = view.set.has /\ view'.set = set /\ view'.save = view.save
        /\ view'.sSaved = view.sSaved /\ view'.acts = view.acts
        /\ view'.raced = view.raced /\ view'.failed = view.failed
    BY <1>0, <1>a, <2>2, <2>4 DEF CardState, CardLikesSame, CardRepostsSame
  <2>6. CardSaves(view) => CardSaves(view')
    BY <2>1, <2>2, <2>5, CardCallEnds DEF CardSaves
  <2> QED
    BY <2>5, <2>6, CardSavesChange DEF CardInv
<1>4. CASE Card!ToggleSave
  <2>1. /\ view.acts < MaxActs["card"] /\ view.save.at = "idle"
        /\ view' = IF view.set.at = "loaded"
               THEN [view EXCEPT !.acts = @ + 1, !.saved = ~@, !.set.has = ~view.saved,
                       !.save = [at |-> "sent", next |-> ~view.saved]]
               ELSE [view EXCEPT !.acts = @ + 1, !.saved = ~@, !.raced = TRUE,
                       !.save = [at |-> "waiting", next |-> ~view.saved]]
    BY <1>4 DEF Card!ToggleSave
  <2>2. PICK n \in 0..MaxActs["card"] : n = view.acts + 1 /\ n # 0
    BY <1>0, <2>1, CardBounds DEF CardState
  <2>3. PICK saved \in BOOLEAN : saved = ~view.saved
    OBVIOUS
  <2>4. CASE view.set.at = "loaded"
    <3> DEFINE save == [at |-> "sent", next |-> saved]
    <3>1. save \in Save /\ save.at = "sent" /\ save.next = saved
      BY <2>3, CardCallEnds
    <3> DEFINE set == [view.set EXCEPT !.has = saved]
    <3>2. set \in CardSet /\ set.at = "loaded" /\ set.has = saved
      BY <1>a, <2>3, <2>4 DEF CardSet
    <3>3. view' = [view EXCEPT !.acts = n, !.saved = saved, !.set = set, !.save = save]
      BY <1>0, <2>1, <2>2, <2>3, <2>4, <3>1, <3>2 DEF CardState
    <3> HIDE DEF save, set
    <3>4. /\ view' \in CardState /\ CardLikesSame(view') /\ CardRepostsSame(view')
          /\ view'.saved = saved /\ view'.set = set /\ view'.save = save
          /\ view'.sSaved = view.sSaved /\ view'.acts = n /\ view'.raced = view.raced
          /\ view'.failed = view.failed
      BY <1>0, <2>2, <2>3, <3>1, <3>2, <3>3 DEF CardState, CardLikesSame, CardRepostsSame
    <3>5. CardSaves(view) => CardSaves(view')
      BY <2>1, <2>4, <3>1, <3>2, <3>4 DEF CardSaves
    <3> QED
      BY <2>2, <3>4, <3>5, CardSavesChange DEF CardInv
  <2>5. CASE view.set.at # "loaded"
    <3> DEFINE save == [at |-> "waiting", next |-> saved]
    <3>1. save \in Save
      BY <2>3
    <3>3. view' = [view EXCEPT !.acts = n, !.saved = saved, !.raced = TRUE, !.save = save]
      BY <1>0, <2>1, <2>2, <2>3, <2>5, <3>1 DEF CardState
    <3> HIDE DEF save
    <3>4. /\ view' \in CardState /\ CardLikesSame(view') /\ CardRepostsSame(view')
          /\ view'.saved = saved /\ view'.set = view.set /\ view'.save = save
          /\ view'.sSaved = view.sSaved /\ view'.acts = n /\ view'.raced = TRUE
          /\ view'.failed = view.failed
      BY <1>0, <2>2, <2>3, <3>1, <3>3 DEF CardState, CardLikesSame, CardRepostsSame
    <3> QED
      BY <2>2, <3>4, CardSavesChange DEF CardInv
  <2> QED
    BY <2>4, <2>5
<1>5. CASE Card!ServeSave
  <2>1. PICK end \in Card!Ends : \E done \in Card!Effects(end) :
          /\ view.save.at = "sent"
          /\ view' = [Card!Handle("save", end) EXCEPT !.sSaved = IF done THEN view.save.next ELSE @]
    BY <1>5 DEF Card!ServeSave
  <2>1a. PICK done \in Card!Effects(end) :
          /\ view.save.at = "sent"
          /\ view' = [Card!Handle("save", end) EXCEPT !.sSaved = IF done THEN view.save.next ELSE @]
    BY <2>1
  <2>2. PICK l \in Save, failed \in BOOLEAN :
          /\ Card!Handle("save", end) = [view EXCEPT !.save = l, !.failed = failed]
          /\ l.at = end /\ l.next = view.save.next
          /\ failed <=> view.failed \/ end # "ok"
    BY <1>0, CardSaveEnds
  <2>3. PICK sSaved \in BOOLEAN :
          sSaved = IF done THEN view.save.next ELSE view.sSaved
    BY <1>a
  <2>4. view' = [view EXCEPT !.save = l, !.failed = failed, !.sSaved = sSaved]
    BY <1>0, <2>1a, <2>2, <2>3 DEF CardState
  <2>5. /\ view' \in CardState /\ CardLikesSame(view') /\ CardRepostsSame(view')
        /\ view'.saved = view.saved /\ view'.set = view.set /\ view'.save = l
        /\ view'.sSaved = sSaved /\ view'.acts = view.acts /\ view'.raced = view.raced
        /\ view'.failed = failed
    BY <1>0, <2>2, <2>3, <2>4 DEF CardState, CardLikesSame, CardRepostsSame
  <2>6. end = "ok" => sSaved = view.save.next
    BY <2>3, CardHowItEnds
  <2>7. ~failed /\ CardSaves(view) => CardSaves(view')
    BY <2>1a, <2>2, <2>5, <2>6 DEF CardSaves
  <2> QED
    BY <2>2, <2>5, <2>7, CardSavesChange DEF CardInv
<1>6. CASE Card!SaveAnswered
  <2>1. /\ view.save.at \in Card!Ends
        /\ view' = IF view.save.at = "ok"
               THEN [view EXCEPT !.save.at = "idle"]
               ELSE [view EXCEPT !.save.at = "idle", !.saved = ~view.save.next,
                       !.set.has = ~view.save.next]
    BY <1>6 DEF Card!SaveAnswered, Card!Arrived
  <2> DEFINE save == [view.save EXCEPT !.at = "idle"]
  <2>2. save \in Save /\ save.at = "idle"
    BY <1>a, CardCallEnds
  <2>3. CASE view.save.at = "ok"
    <3>1. view' = [view EXCEPT !.save = save]
      BY <1>0, <2>1, <2>2, <2>3 DEF CardState
    <3> HIDE DEF save
    <3>2. /\ view' \in CardState /\ CardLikesSame(view') /\ CardRepostsSame(view')
          /\ view'.saved = view.saved /\ view'.set = view.set /\ view'.save = save
          /\ view'.sSaved = view.sSaved /\ view'.acts = view.acts
          /\ view'.raced = view.raced /\ view'.failed = view.failed
      BY <1>0, <2>2, <3>1 DEF CardState, CardLikesSame, CardRepostsSame
    <3>3. CardSaves(view) => CardSaves(view')
      BY <2>1, <2>2, <2>3, <3>2 DEF CardSaves
    <3> QED
      BY <3>2, <3>3, CardSavesChange DEF CardInv
  <2>4. CASE view.save.at # "ok"
    <3>1. PICK saved \in BOOLEAN : saved = ~view.save.next
      OBVIOUS
    <3> DEFINE set == [view.set EXCEPT !.has = saved]
    <3>2. set \in CardSet
      BY <1>a, <3>1 DEF CardSet
    <3>3. view' = [view EXCEPT !.save = save, !.saved = saved, !.set = set]
      BY <1>0, <2>1, <2>2, <2>4, <3>1, <3>2 DEF CardState
    <3> HIDE DEF save, set
    <3>4. /\ view' \in CardState /\ CardLikesSame(view') /\ CardRepostsSame(view')
          /\ view'.saved = saved /\ view'.set = set /\ view'.save = save
          /\ view'.sSaved = view.sSaved /\ view'.acts = view.acts
          /\ view'.raced = view.raced /\ view'.failed = view.failed
      BY <1>0, <2>2, <3>1, <3>2, <3>3 DEF CardState, CardLikesSame, CardRepostsSame
    <3>5. ~CardSaves(view)
      BY <2>1, <2>4, CardCallEnds DEF CardSaves
    <3> QED
      BY <3>4, <3>5, CardSavesChange DEF CardInv
  <2> QED
    BY <2>3, <2>4
<1> QED
  BY <1>1, <1>2, <1>3, <1>4, <1>5, <1>6

LEMMA CardRepostStep ==
  ASSUME CardInv, Card!ToggleRepost \/ Card!ServeRepost \/ Card!RepostAnswered
  PROVE  CardInv'
<1>0. view \in CardState
  BY DEF CardInv, CardGood
<1>a. /\ view.repost \in CardRepost /\ view.repost.next \in BOOLEAN /\ view.reposted \in BOOLEAN
      /\ view.repost.id \in {0} \union Card!Clicks /\ view.repostId \in {0} \union Card!Clicks
      /\ view.sReposts \in SUBSET Card!Clicks /\ view.repostCount \in Nat /\ 0 \notin Card!Clicks
      /\ view.acts \in 0..MaxActs["card"]
  BY <1>0, CardBounds DEF CardState, CardRepost, Card!Clicks
<1>b. view.repost.at = "sent" => view.acts # 0
  BY DEF CardInv, CardGood
<1>1. CASE Card!ToggleRepost
  <2>1. /\ view.acts < MaxActs["card"] /\ view.repost.at = "idle"
        /\ view' = [view EXCEPT !.acts = @ + 1, !.reposted = ~@,
                      !.repostCount = Card!Bump(@, ~view.reposted),
                      !.repost = [at |-> IF view.reposted /\ view.repostId = 0
                                         THEN "idle" ELSE "sent",
                                  next |-> ~view.reposted, id |-> view.repostId]]
    BY <1>1 DEF Card!ToggleRepost
  <2>2. PICK n \in 0..MaxActs["card"] : n = view.acts + 1 /\ n # 0
    BY <1>0, <2>1, CardBounds DEF CardState
  <2>3. PICK reposted \in BOOLEAN : reposted = ~view.reposted
    OBVIOUS
  <2>4. PICK at \in {"idle", "sent"} :
          at = IF view.reposted /\ view.repostId = 0 THEN "idle" ELSE "sent"
    OBVIOUS
  <2> DEFINE repost == [at |-> at, next |-> reposted, id |-> view.repostId]
  <2>5. repost \in CardRepost /\ repost.at = at /\ repost.next = reposted /\ repost.id = view.repostId
    BY <1>a, <2>3, <2>4, CardCallEnds DEF CardRepost
  <2>6. PICK count \in Nat :
          /\ count = Card!Bump(view.repostCount, reposted)
          /\ view.repostCount = 0 /\ reposted => count = 1
          /\ view.repostCount = 1 /\ ~reposted => count = 0
    BY <1>a DEF Card!Bump
  <2>7. view' = [view EXCEPT !.acts = n, !.reposted = reposted, !.repostCount = count,
                             !.repost = repost]
    BY <1>0, <2>1, <2>2, <2>3, <2>4, <2>5, <2>6 DEF CardState
  <2> HIDE DEF repost
  <2>8. /\ view' \in CardState /\ CardLikesSame(view') /\ CardSavesSame(view')
        /\ view'.reposted = reposted /\ view'.repostId = view.repostId
        /\ view'.repostCount = count /\ view'.repost = repost
        /\ view'.sReposts = view.sReposts /\ view'.acts = n /\ view'.raced = view.raced
        /\ view'.failed = view.failed
    BY <1>0, <2>2, <2>3, <2>5, <2>6, <2>7 DEF CardState, CardLikesSame, CardSavesSame
  <2>9. ASSUME CardReposts(view) PROVE CardReposts(view')
    <3>1. CASE view.reposted
      <4>1. reposted = FALSE /\ count = 0 /\ at = "sent" /\ view.sReposts = {view.repostId}
        BY <1>a, <2>1, <2>3, <2>4, <2>6, <2>9, <3>1 DEF CardReposts
      <4> QED
        BY <2>5, <2>8, <4>1 DEF CardReposts
    <3>2. CASE ~view.reposted
      <4>1. reposted = TRUE /\ count = 1 /\ at = "sent" /\ view.sReposts = {}
        BY <1>a, <2>1, <2>3, <2>4, <2>6, <2>9, <3>2 DEF CardReposts
      <4> QED
        BY <2>5, <2>8, <4>1 DEF CardReposts
    <3> QED
      BY <3>1, <3>2
  <2> QED
    BY <2>2, <2>8, <2>9, CardRepostsChange DEF CardInv
<1>2. CASE Card!ServeRepost
  <2> DEFINE id == IF view.repost.next THEN view.acts ELSE view.repost.id
  <2>1. PICK end \in Card!Ends : \E done \in Card!Effects(end) :
          /\ view.repost.at = "sent"
          /\ view.repost.next \/ view.repost.id \in view.sReposts \/ end # "ok"
          /\ view' = [Card!Handle("repost", end) EXCEPT
                        !.repost.id = id,
                        !.sReposts = IF ~done THEN @ ELSE
                           IF view.repost.next THEN @ \union {id} ELSE @ \ {id}]
    BY <1>2 DEF Card!ServeRepost
  <2>1a. PICK done \in Card!Effects(end) :
          /\ view.repost.at = "sent"
          /\ view.repost.next \/ view.repost.id \in view.sReposts \/ end # "ok"
          /\ view' = [Card!Handle("repost", end) EXCEPT
                        !.repost.id = id,
                        !.sReposts = IF ~done THEN @ ELSE
                           IF view.repost.next THEN @ \union {id} ELSE @ \ {id}]
    BY <2>1
  <2>1b. /\ id \in {0} \union Card!Clicks
         /\ view.repost.next => id = view.acts /\ id \in Card!Clicks
         /\ ~view.repost.next => id = view.repost.id
    BY <1>a, <1>b, <2>1a, CardBounds DEF Card!Clicks
  <2> HIDE DEF id
  <2>2. PICK l \in CardRepost, failed \in BOOLEAN :
          /\ Card!Handle("repost", end) = [view EXCEPT !.repost = l, !.failed = failed]
          /\ l.at = end /\ l.next = view.repost.next
          /\ failed <=> view.failed \/ end # "ok"
    BY <1>0, CardRepostEnds
  <2> DEFINE m == [l EXCEPT !.id = id]
  <2>3. m \in CardRepost /\ m.at = end /\ m.next = view.repost.next /\ m.id = id
    BY <2>1b, <2>2 DEF CardRepost
  <2>4. PICK sReposts \in SUBSET Card!Clicks :
          sReposts = IF ~done THEN view.sReposts ELSE
                     IF view.repost.next THEN view.sReposts \union {id}
                                         ELSE view.sReposts \ {id}
    BY <1>a, <2>1b
  <2>5. view' = [view EXCEPT !.repost = m, !.failed = failed, !.sReposts = sReposts]
    BY <1>0, <2>1a, <2>2, <2>3, <2>4 DEF CardState
  <2> HIDE DEF m
  <2>6. /\ view' \in CardState /\ CardLikesSame(view') /\ CardSavesSame(view')
        /\ view'.reposted = view.reposted /\ view'.repostId = view.repostId
        /\ view'.repostCount = view.repostCount /\ view'.repost = m
        /\ view'.sReposts = sReposts /\ view'.acts = view.acts /\ view'.raced = view.raced
        /\ view'.failed = failed
    BY <1>0, <2>2, <2>3, <2>4, <2>5 DEF CardState, CardLikesSame, CardSavesSame
  <2>7. ASSUME ~failed, CardReposts(view) PROVE CardReposts(view')
    <3>1. end = "ok" /\ done = TRUE
      BY <2>2, <2>7, CardHowItEnds
    <3>2. CASE view.repost.next
      <4>1. sReposts = {id} /\ id # 0
        BY <1>a, <2>1a, <2>1b, <2>4, <2>7, <3>1, <3>2 DEF CardReposts
      <4> QED
        BY <2>1a, <2>3, <2>6, <2>7, <3>1, <3>2, <4>1 DEF CardReposts
    <3>3. CASE ~view.repost.next
      <4>1. sReposts = {}
        BY <1>a, <2>1a, <2>1b, <2>4, <2>7, <3>1, <3>3 DEF CardReposts
      <4> QED
        BY <2>1a, <2>3, <2>6, <2>7, <3>1, <3>3, <4>1 DEF CardReposts
    <3> QED
      BY <3>2, <3>3
  <2>8. view'.repost.at = "sent" => view'.acts # 0
    BY <2>3, <2>6, CardCallEnds
  <2> QED
    BY <2>2, <2>6, <2>7, <2>8, CardRepostsChange DEF CardInv
<1>3. CASE Card!RepostAnswered
  <2>1. /\ view.repost.at \in Card!Ends
        /\ view' = IF view.repost.at = "ok"
               THEN [view EXCEPT !.repost.at = "idle",
                       !.repostId = IF view.repost.next THEN view.repost.id ELSE 0]
               ELSE [view EXCEPT !.repost.at = "idle", !.reposted = ~view.repost.next,
                       !.repostCount = Card!Bump(@, ~view.repost.next)]
    BY <1>3 DEF Card!RepostAnswered, Card!Arrived
  <2> DEFINE repost == [view.repost EXCEPT !.at = "idle"]
  <2>2. repost \in CardRepost /\ repost.at = "idle"
    BY <1>a, CardCallEnds DEF CardRepost
  <2>3. CASE view.repost.at = "ok"
    <3>1. PICK id \in {0} \union Card!Clicks : id = IF view.repost.next THEN view.repost.id ELSE 0
      BY <1>a
    <3>2. view' = [view EXCEPT !.repost = repost, !.repostId = id]
      BY <1>0, <2>1, <2>2, <2>3, <3>1 DEF CardState
    <3> HIDE DEF repost
    <3>3. /\ view' \in CardState /\ CardLikesSame(view') /\ CardSavesSame(view')
          /\ view'.reposted = view.reposted /\ view'.repostId = id
          /\ view'.repostCount = view.repostCount /\ view'.repost = repost
          /\ view'.sReposts = view.sReposts /\ view'.acts = view.acts
          /\ view'.raced = view.raced /\ view'.failed = view.failed
      BY <1>0, <2>2, <3>1, <3>2 DEF CardState, CardLikesSame, CardSavesSame
    <3>4. CardReposts(view) => CardReposts(view')
      BY <2>2, <2>3, <3>1, <3>3 DEF CardReposts
    <3> QED
      BY <2>2, <3>3, <3>4, CardRepostsChange DEF CardInv
  <2>4. CASE view.repost.at # "ok"
    <3>1. PICK reposted \in BOOLEAN : reposted = ~view.repost.next
      OBVIOUS
    <3>2. PICK count \in Nat : count = Card!Bump(view.repostCount, reposted)
      BY <1>a DEF Card!Bump
    <3>3. view' = [view EXCEPT !.repost = repost, !.reposted = reposted, !.repostCount = count]
      BY <1>0, <2>1, <2>2, <2>4, <3>1, <3>2 DEF CardState
    <3> HIDE DEF repost
    <3>4. /\ view' \in CardState /\ CardLikesSame(view') /\ CardSavesSame(view')
          /\ view'.reposted = reposted /\ view'.repostId = view.repostId
          /\ view'.repostCount = count /\ view'.repost = repost
          /\ view'.sReposts = view.sReposts /\ view'.acts = view.acts
          /\ view'.raced = view.raced /\ view'.failed = view.failed
      BY <1>0, <2>2, <3>1, <3>2, <3>3 DEF CardState, CardLikesSame, CardSavesSame
    <3>5. ~CardReposts(view)
      BY <2>1, <2>4, CardCallEnds DEF CardReposts
    <3> QED
      BY <2>2, <3>4, <3>5, CardRepostsChange DEF CardInv
  <2> QED
    BY <2>3, <2>4
<1> QED
  BY <1>1, <1>2, <1>3

LEMMA CardNextInv ==
  ASSUME CardInv, [Card!Next]_view PROVE CardInv'
<1>1. CASE UNCHANGED view
  BY <1>1 DEF CardInv, CardGood, CardLikes, CardSaves, CardReposts
<1> QED
  BY <1>1, CardLikeStep, CardSaveStep, CardRepostStep DEF Card!Next, Card!Click,
     Card!Progress

LEMMA CardInvTyped == CardInv => Card!TypeOK
  BY DEF CardInv, CardGood, CardState, CardCall, CardSet, CardRepost, Card!TypeOK

LEMMA CardInvAgrees == CardInv => Card!SettledCardAgrees
<1> SUFFICES ASSUME CardInv, Card!Quiet, ~view.failed, ~view.raced
             PROVE  /\ view.liked = view.sLiked
                    /\ view.saved = view.sSaved /\ view.set.has = view.sSaved
                    /\ view.sReposts = IF view.reposted THEN {view.repostId} ELSE {}
                    /\ view.repostCount = Cardinality(view.sReposts)
  BY CardCardSame DEF Card!SettledCardAgrees
<1>0. view \in CardState /\ CardLikes(view) /\ CardSaves(view) /\ CardReposts(view)
  BY DEF CardInv, CardGood
<1>1. /\ view.likeLoad.at = "idle" /\ view.set.at = "loaded" /\ view.like.at = "idle"
      /\ view.save.at = "idle" /\ view.repost.at = "idle"
  BY DEF Card!Quiet
<1>2. view.sReposts = IF view.reposted THEN {view.repostId} ELSE {}
  BY <1>0, <1>1 DEF CardReposts
<1>3. view.repostCount = Cardinality(view.sReposts)
  <2>1. view.repostCount = IF view.reposted THEN 1 ELSE 0
    BY <1>0 DEF CardReposts
  <2>2. Cardinality({view.repostId}) = 1 /\ Cardinality({}) = 0
    BY FS_EmptySet, FS_Singleton, CardCardSame
  <2> QED
    BY <1>2, <2>1, <2>2
<1> QED
  BY <1>0, <1>1, <1>2, <1>3 DEF CardLikes, CardSaves

-----------------------------------------------------------------------------
(* post-card.tsx, comments: a draft is on screen or on its way until its     *)
(* comment is made, and gone when the answer is in.                          *)

LEMMA CommentsBounds == Faults \subseteq {"refused", "lost"} /\ MaxActs["comments"] \in Nat
  BY Bounds DEF Screens

LEMMA CommentsCardSame == \A S : Comments!Cardinality(S) = Cardinality(S)
  BY DEF Comments!Cardinality, Cardinality

LEMMA CommentsInitInv == Comments!Init => CommentsInv
<1> SUFFICES ASSUME Comments!Init PROVE CommentsInv
  OBVIOUS
<1>1. CommentsShape(view)
  BY CommentsBounds DEF Comments!Init, CommentsShape, Comments!Calls, Comments!Drafts,
     Comments!Comments
<1>2. CommentsNumbered(view) /\ CommentsOnce(view)
  BY CommentsBounds DEF Comments!Init, CommentsNumbered, CommentsOnce, Comments!Comments
<1> QED
  BY <1>1, <1>2 DEF CommentsInv, CommentsGood

LEMMA CommentsCallEnds ==
  /\ "idle" \notin Comments!Ends /\ "sent" \notin Comments!Ends /\ Comments!Ends \subseteq Comments!Calls
  /\ "idle" \in Comments!Calls /\ "sent" \in Comments!Calls
  BY CommentsBounds DEF Comments!Ends, Comments!Calls

LEMMA CommentsHowItEnds ==
  ASSUME NEW end \in Comments!Ends, NEW done \in Comments!Effects(end)
  PROVE  /\ done \in BOOLEAN /\ (end = "ok" => done = TRUE)
         /\ done /\ end # "ok" => end = "lost"
  BY CommentsBounds DEF Comments!Ends, Comments!Effects

\* Reading, deleting and the pushes leave the viewer's own comments alone.
LEMMA CommentsFrameGood ==
  ASSUME NEW t, CommentsGood(t), NEW u, CommentsShape(u),
         u.draft = t.draft, u.posting = t.posting, u.made = t.made, u.own = t.own,
         u.lost = t.lost, u.acts = t.acts \/ u.acts = t.acts + 1
  PROVE  CommentsGood(u)
<1>1. /\ t.acts \in Nat /\ t.made \in Nat /\ t.draft \in Nat /\ t.posting.draft \in Nat
      /\ \A c \in Comments!Comments : t.own[c] \in Nat
  BY CommentsBounds DEF CommentsGood, CommentsShape, Comments!Drafts
<1>2. CommentsNumbered(u)
  BY <1>1 DEF CommentsGood, CommentsNumbered
<1> QED
  BY <1>2 DEF CommentsGood, CommentsOnce

LEMMA CommentsLoadIs ==
  ASSUME NEW t, CommentsShape(t), Comments!Load(t)
  PROVE  /\ CommentsShape(view') /\ view'.draft = t.draft /\ view'.posting = t.posting
         /\ view'.made = t.made /\ view'.own = t.own /\ view'.lost = t.lost
         /\ view'.acts = t.acts
<1>1. PICK l \in Comments!Loads : view' = [t EXCEPT !.load[l].at = "sent"]
  BY DEF Comments!Load
<1>2. PICK load : load = [t.load EXCEPT ![l].at = "sent"]
  OBVIOUS
<1>3. view' = [t EXCEPT !.load = load]
  BY <1>1, <1>2 DEF CommentsShape
<1> QED
  BY <1>3 DEF CommentsShape

LEMMA CommentsAskStep ==
  ASSUME CommentsInv, Comments!ServeLoad \/ Comments!Loaded \/ Comments!ToggleComments \/ Comments!Commented \/ Comments!PushLost
  PROVE  CommentsInv'
<1>0. CommentsGood(view) /\ CommentsShape(view)
  BY DEF CommentsInv, CommentsGood
<1> USE DEF CommentsInv
<1>1. CASE Comments!ServeLoad
  <2>1. PICK load : view' = [view EXCEPT !.load = load]
    BY <1>0, <1>1 DEF Comments!ServeLoad, CommentsShape
  <2> QED
    BY <1>0, <2>1, CommentsFrameGood DEF CommentsShape
<1>2. CASE Comments!Loaded
  <2>1. PICK l \in Comments!Loads :
          LET t == [view EXCEPT !.load[l] = [at |-> "idle", items |-> <<>>]] IN
          view' = t \/ view' = [t EXCEPT !.comments = view.load[l].items,
                                             !.commentCount = Len(view.load[l].items)]
    BY <1>2 DEF Comments!Loaded
  <2>2. PICK load : load = [view.load EXCEPT ![l] = [at |-> "idle", items |-> <<>>]]
    OBVIOUS
  <2>3. PICK comments, count : comments = view.load[l].items /\ count = Len(comments)
    OBVIOUS
  <2> DEFINE t == [view EXCEPT !.load = load]
  <2>4. view' = t \/ view' = [t EXCEPT !.comments = comments, !.commentCount = count]
    BY <2>1, <2>2, <2>3
  <2>5. CASE view' = t
    BY <1>0, <2>5, CommentsFrameGood DEF CommentsShape
  <2>6. CASE view' = [t EXCEPT !.comments = comments, !.commentCount = count]
    BY <1>0, <2>6, CommentsFrameGood DEF CommentsShape
  <2> QED
    BY <2>4, <2>5, <2>6
<1>3. CASE Comments!ToggleComments
  <2> DEFINE t == [view EXCEPT !.acts = @ + 1, !.showComments = ~@]
  <2>1. Comments!Act /\ (Comments!Load(t) \/ view' = t)
    BY <1>3 DEF Comments!ToggleComments
  <2>2. view.acts + 1 \in 0..MaxActs["comments"]
    BY <1>0, <2>1, CommentsBounds DEF Comments!Act, CommentsShape
  <2>3. /\ CommentsShape(t) /\ t.draft = view.draft /\ t.posting = view.posting
        /\ t.made = view.made /\ t.own = view.own /\ t.lost = view.lost
        /\ t.acts = view.acts + 1
    BY <1>0, <2>2 DEF CommentsShape
  <2> HIDE DEF t
  <2>4. CommentsGood(t)
    BY <1>0, <2>3, CommentsFrameGood
  <2>5. ASSUME Comments!Load(t) PROVE CommentsGood(view')
    BY <2>3, <2>4, <2>5, CommentsLoadIs, CommentsFrameGood
  <2> QED
    BY <2>1, <2>4, <2>5
<1>4. CASE Comments!Commented
  <2> DEFINE t == [view EXCEPT !.pushes = @ - 1, !.commentCount = @ + 1]
  <2>1. Comments!Load(t) \/ view' = t
    BY <1>4 DEF Comments!Commented
  <2>3. /\ CommentsShape(t) /\ t.draft = view.draft /\ t.posting = view.posting
        /\ t.made = view.made /\ t.own = view.own /\ t.lost = view.lost
        /\ t.acts = view.acts
    BY <1>0 DEF CommentsShape
  <2> HIDE DEF t
  <2>4. CommentsGood(t)
    BY <1>0, <2>3, CommentsFrameGood
  <2>5. ASSUME Comments!Load(t) PROVE CommentsGood(view')
    BY <2>3, <2>4, <2>5, CommentsLoadIs, CommentsFrameGood
  <2> QED
    BY <2>1, <2>4, <2>5
<1>5. CASE Comments!PushLost
  <2>1. view' = [view EXCEPT !.pushes = view.pushes - 1]
    BY <1>5 DEF Comments!PushLost
  <2> QED
    BY <1>0, <2>1, CommentsFrameGood DEF CommentsShape
<1> QED
  BY <1>1, <1>2, <1>3, <1>4, <1>5

LEMMA CommentsDeleteStep ==
  ASSUME CommentsInv, Comments!DeleteComment \/ Comments!ServeDelete \/ Comments!DeleteAnswered
  PROVE  CommentsInv'
<1>0. CommentsGood(view) /\ CommentsShape(view)
  BY DEF CommentsInv, CommentsGood
<1>1. CASE Comments!DeleteComment
  <2>1. Comments!Act /\ \E d : view' = [view EXCEPT !.acts = @ + 1, !.deleting = d]
    BY <1>1 DEF Comments!DeleteComment
  <2>2. PICK d : view' = [view EXCEPT !.acts = @ + 1, !.deleting = d]
    BY <2>1
  <2>3. view.acts + 1 \in 0..MaxActs["comments"]
    BY <1>0, <2>1, CommentsBounds DEF Comments!Act, CommentsShape
  <2>4. /\ CommentsShape(view') /\ view'.draft = view.draft
        /\ view'.posting = view.posting /\ view'.made = view.made
        /\ view'.own = view.own /\ view'.lost = view.lost
        /\ view'.acts = view.acts + 1
    BY <1>0, <2>2, <2>3 DEF CommentsShape
  <2> QED
    BY <1>0, <2>4, CommentsFrameGood DEF CommentsInv
<1>2. CASE Comments!ServeDelete
  <2>1. PICK end \in Comments!Ends : \E done \in Comments!Effects(end) :
          view' = [view EXCEPT !.deleting.at = end,
                       !.sComments = IF done THEN Comments!Without(@, view.deleting.comment) ELSE @]
    BY <1>2 DEF Comments!ServeDelete
  <2>2. PICK d, s : view' = [view EXCEPT !.deleting = d, !.sComments = s]
    <3>1. PICK done \in Comments!Effects(end) :
            view' = [view EXCEPT !.deleting.at = end,
                         !.sComments = IF done THEN Comments!Without(@, view.deleting.comment) ELSE @]
      BY <2>1
    <3>2. PICK s : s = IF done THEN Comments!Without(view.sComments, view.deleting.comment)
                       ELSE view.sComments
      OBVIOUS
    <3>3. PICK d : d = [view.deleting EXCEPT !.at = end]
      OBVIOUS
    <3>4. view' = [view EXCEPT !.deleting = d, !.sComments = s]
      BY <3>1, <3>2, <3>3
    <3> QED
      BY <3>4
  <2> QED
    BY <1>0, <2>2, CommentsFrameGood DEF CommentsInv, CommentsShape
<1>3. CASE Comments!DeleteAnswered
  <2> DEFINE t == [view EXCEPT !.deleting = [at |-> "idle", comment |-> 0]]
  <2>1. PICK s : s = Comments!Without(view.comments, view.deleting.comment)
    OBVIOUS
  <2>2. view' = t \/ \E n : view' = [t EXCEPT !.comments = s, !.commentCount = n]
    BY <1>3, <2>1 DEF Comments!DeleteAnswered
  <2>3. PICK n : view' = t \/ view' = [t EXCEPT !.comments = s, !.commentCount = n]
    BY <2>2
  <2> QED
    BY <1>0, <2>3, CommentsFrameGood DEF CommentsInv, CommentsShape
<1> QED
  BY <1>1, <1>2, <1>3

LEMMA CommentsOtherStep ==
  ASSUME CommentsInv, Comments!OtherComments \/ Comments!Type
  PROVE  CommentsInv'
<1>0. CommentsGood(view) /\ CommentsShape(view)
  BY DEF CommentsInv, CommentsGood
<1>1. /\ view.acts \in Nat /\ view.made \in Nat /\ view.draft \in Nat
      /\ view.posting.draft \in Nat
      /\ \A c \in Comments!Comments : view.own[c] \in Nat /\ c \in Nat
  BY <1>0, CommentsBounds DEF CommentsShape, Comments!Drafts, Comments!Comments
<1>2. CASE Comments!OtherComments
  <2>1. PICK s, p : Comments!Act /\ view' = [view EXCEPT !.acts = @ + 1, !.made = @ + 1,
                                       !.pushes = p, !.sComments = s]
    BY <1>2 DEF Comments!OtherComments
  <2>2. view.acts + 1 \in 0..MaxActs["comments"] /\ view.made + 1 \in Nat
    BY <1>0, <1>1, <2>1, CommentsBounds DEF Comments!Act, CommentsShape
  <2>3. /\ CommentsShape(view') /\ view'.draft = view.draft
        /\ view'.posting = view.posting /\ view'.made = view.made + 1
        /\ view'.own = view.own /\ view'.lost = view.lost
        /\ view'.acts = view.acts + 1
    BY <1>0, <2>1, <2>2 DEF CommentsShape
  <2>4. CommentsNumbered(view')
    BY <1>0, <1>1, <2>3 DEF CommentsGood, CommentsNumbered
  <2> QED
    BY <1>0, <2>3, <2>4 DEF CommentsInv, CommentsGood, CommentsOnce
<1>3. CASE Comments!Type
  <2>1. Comments!Act /\ view.draft = 0 /\ view' = [view EXCEPT !.draft = view.acts + 1]
    BY <1>3 DEF Comments!Type
  <2>2. view.acts + 1 \in Comments!Drafts /\ view.acts + 1 # 0
    BY <1>0, <1>1, <2>1, CommentsBounds DEF Comments!Act, CommentsShape, Comments!Drafts
  <2>3. /\ CommentsShape(view') /\ view'.draft = view.acts + 1
        /\ view'.posting = view.posting /\ view'.made = view.made
        /\ view'.own = view.own /\ view'.lost = view.lost
        /\ view'.acts = view.acts
    BY <1>0, <2>1, <2>2 DEF CommentsShape
  <2>4. CommentsNumbered(view')
    BY <1>0, <1>1, <2>3 DEF CommentsGood, CommentsNumbered
  <2>5. \A c \in Comments!Comments : view.own[c] # view.acts + 1
    BY <1>0, <1>1 DEF CommentsGood, CommentsNumbered
  <2>6. CommentsOnce(view) => view.posting.at = "idle" /\ CommentsOnce(view')
    BY <2>1, <2>3, <2>5 DEF CommentsOnce
  <2> QED
    BY <1>0, <2>3, <2>4, <2>6 DEF CommentsInv, CommentsGood
<1> QED
  BY <1>2, <1>3

LEMMA CommentsPostStep ==
  ASSUME CommentsInv, Comments!SubmitComment \/ Comments!ServeComment \/ Comments!CommentAnswered
  PROVE  CommentsInv'
<1>0. CommentsGood(view) /\ CommentsShape(view)
  BY DEF CommentsInv, CommentsGood
<1>1. /\ view.acts \in Nat /\ view.made \in Nat /\ view.draft \in Nat
      /\ view.posting.draft \in Nat
      /\ \A c \in Comments!Comments : view.own[c] \in Nat /\ c \in Nat
  BY <1>0, CommentsBounds DEF CommentsShape, Comments!Drafts, Comments!Comments
<1>2. CASE Comments!SubmitComment
  <2>1. /\ Comments!Act /\ view.draft # 0 /\ view.posting.at = "idle"
        /\ view' = [view EXCEPT !.acts = @ + 1,
                        !.posting = [at |-> "sent", draft |-> view.draft, comment |-> 0]]
    BY <1>2 DEF Comments!SubmitComment
  <2> DEFINE posting == [at |-> "sent", draft |-> view.draft, comment |-> 0]
  <2>2. view.acts + 1 \in 0..MaxActs["comments"]
    BY <1>0, <2>1, CommentsBounds DEF Comments!Act, CommentsShape
  <2>3. /\ posting \in [at : Comments!Calls, draft : Comments!Drafts, comment : Comments!Comments \union {0}]
        /\ posting.at = "sent" /\ posting.draft = view.draft
    BY <1>0, CommentsCallEnds DEF CommentsShape
  <2>4. view' = [view EXCEPT !.acts = view.acts + 1, !.posting = posting]
    BY <2>1
  <2> HIDE DEF posting
  <2>5. /\ CommentsShape(view') /\ view'.draft = view.draft /\ view'.posting = posting
        /\ view'.made = view.made /\ view'.own = view.own
        /\ view'.lost = view.lost /\ view'.acts = view.acts + 1
    BY <1>0, <2>2, <2>3, <2>4 DEF CommentsShape
  <2>6. CommentsNumbered(view')
    BY <1>0, <1>1, <2>3, <2>5 DEF CommentsGood, CommentsNumbered
  <2>7. CommentsOnce(view) => CommentsOnce(view')
    BY <2>1, <2>3, <2>5 DEF CommentsOnce
  <2> QED
    BY <1>0, <2>5, <2>6, <2>7 DEF CommentsInv, CommentsGood
<1>3. CASE Comments!ServeComment
  <2> DEFINE new == view.made + 1
             posting(end) == [view.posting EXCEPT !.at = end]
             t(end) == [view EXCEPT !.posting.at = end, !.lost = @ \/ end = "lost"]
  <2>1. PICK end \in Comments!Ends : \E done \in Comments!Effects(end) :
          /\ view.posting.at = "sent"
          /\ view' = IF ~done THEN t(end)
                       ELSE [t(end) EXCEPT !.posting.comment = new, !.made = new,
                               !.pushes = @ + 1, !.own[new] = view.posting.draft,
                               !.sComments = Append(@, new)]
    BY <1>3 DEF Comments!ServeComment
  <2>2. PICK done \in Comments!Effects(end) :
          /\ view.posting.at = "sent"
          /\ view' = IF ~done THEN t(end)
                       ELSE [t(end) EXCEPT !.posting.comment = new, !.made = new,
                               !.pushes = @ + 1, !.own[new] = view.posting.draft,
                               !.sComments = Append(@, new)]
    BY <2>1
  <2>3. new \in Comments!Comments /\ new \in Nat /\ new <= view.acts
    BY <1>0, <1>1, <2>2, CommentsBounds DEF CommentsGood, CommentsNumbered, CommentsShape,
       Comments!Comments
  <2>4. end \in Comments!Calls /\ end # "sent" /\ end # "idle"
    BY CommentsCallEnds
  <2>6. PICK lost \in BOOLEAN : lost <=> view.lost \/ end = "lost"
    OBVIOUS
  <2>7. CASE ~done
    <3>1. view' = [view EXCEPT !.posting = posting(end), !.lost = lost]
      BY <1>0, <2>2, <2>6, <2>7 DEF CommentsShape
    <3>2. /\ posting(end) \in [at : Comments!Calls, draft : Comments!Drafts, comment : Comments!Comments \union {0}]
          /\ posting(end).at = end /\ posting(end).draft = view.posting.draft
      BY <1>0, <2>4 DEF CommentsShape
    <3> HIDE DEF posting
    <3>3. /\ CommentsShape(view') /\ view'.draft = view.draft
          /\ view'.posting = posting(end) /\ view'.made = view.made
          /\ view'.own = view.own /\ view'.lost = lost /\ view'.acts = view.acts
      BY <1>0, <3>1, <3>2 DEF CommentsShape
    <3>4. CommentsNumbered(view')
      BY <1>0, <1>1, <2>4, <3>2, <3>3 DEF CommentsGood, CommentsNumbered
    <3>5. end # "ok"
      BY <2>7, CommentsHowItEnds
    <3>6. CommentsOnce(view) => CommentsOnce(view')
      BY <2>2, <2>4, <3>2, <3>3, <3>5 DEF CommentsOnce
    <3> QED
      BY <1>0, <2>6, <3>3, <3>4, <3>6 DEF CommentsInv, CommentsGood
  <2>8. CASE done
    <3> DEFINE made == [posting(end) EXCEPT !.comment = new]
               own == [view.own EXCEPT ![new] = view.posting.draft]
    <3>1. PICK p, s : p = view.pushes + 1 /\ s = Append(view.sComments, new)
      OBVIOUS
    <3>2. view' = [view EXCEPT !.posting = made, !.lost = lost, !.made = new,
                       !.pushes = p, !.own = own, !.sComments = s]
      BY <1>0, <2>2, <2>6, <2>8, <3>1 DEF CommentsShape
    <3>3. /\ made \in [at : Comments!Calls, draft : Comments!Drafts, comment : Comments!Comments \union {0}]
          /\ made.at = end /\ made.draft = view.posting.draft
      BY <1>0, <2>3, <2>4 DEF CommentsShape
    <3>4. /\ own \in [Comments!Comments -> Comments!Drafts] /\ own[new] = view.posting.draft
          /\ \A c \in Comments!Comments \ {new} : own[c] = view.own[c]
      BY <1>0, <2>3 DEF CommentsShape
    <3> HIDE DEF made, own
    <3>5. /\ CommentsShape(view') /\ view'.draft = view.draft /\ view'.posting = made
          /\ view'.made = new /\ view'.own = own /\ view'.lost = lost
          /\ view'.acts = view.acts
      BY <1>0, <2>3, <3>2, <3>3, <3>4 DEF CommentsShape
    <3>6. CommentsNumbered(view')
      BY <1>0, <1>1, <2>3, <2>4, <3>3, <3>4, <3>5 DEF CommentsGood, CommentsNumbered
    <3>7. ASSUME ~view'.lost PROVE CommentsOnce(view')
      <4>1. CommentsOnce(view) /\ end = "ok"
        BY <1>0, <2>6, <2>8, <3>5, <3>7, CommentsHowItEnds DEF CommentsGood
      <4>2. view.draft # 0 /\ view.posting.draft = view.draft
            /\ \A c \in Comments!Comments : view.own[c] # view.draft
        BY <2>2, <4>1 DEF CommentsOnce
      <4>3. \A c, d \in Comments!Comments : own[c] = own[d] /\ own[c] # 0 => c = d
        BY <3>4, <4>1, <4>2 DEF CommentsOnce
      <4> QED
        BY <3>3, <3>5, <4>1, <4>2, <4>3 DEF CommentsOnce
    <3> QED
      BY <3>5, <3>6, <3>7 DEF CommentsInv, CommentsGood
  <2> QED
    BY <2>7, <2>8, CommentsHowItEnds
<1>4. CASE Comments!CommentAnswered
  <2> DEFINE posting == [at |-> "idle", draft |-> 0, comment |-> 0]
             t == [view EXCEPT !.posting = posting]
  <2>1. /\ view.posting.at \in Comments!Ends
        /\ view' = IF view.posting.at # "ok" THEN t
                     ELSE [t EXCEPT !.comments = Append(@, view.posting.comment),
                             !.commentCount = @ + 1, !.showComments = TRUE, !.draft = 0]
    BY <1>4 DEF Comments!CommentAnswered, Comments!Arrived
  <2>2. /\ posting \in [at : Comments!Calls, draft : Comments!Drafts, comment : Comments!Comments \union {0}]
        /\ posting.at = "idle" /\ posting.draft = 0
    BY CommentsCallEnds, CommentsBounds DEF Comments!Drafts
  <2> HIDE DEF posting
  <2>3. CASE view.posting.at # "ok"
    <3>1. view' = [view EXCEPT !.posting = posting]
      BY <2>1, <2>3
    <3>2. /\ CommentsShape(view') /\ view'.draft = view.draft
          /\ view'.posting = posting /\ view'.made = view.made
          /\ view'.own = view.own /\ view'.lost = view.lost /\ view'.acts = view.acts
      BY <1>0, <2>2, <3>1 DEF CommentsShape
    <3>3. CommentsNumbered(view')
      BY <1>0, <1>1, <2>2, <3>2 DEF CommentsGood, CommentsNumbered
    <3>4. CommentsOnce(view) => CommentsOnce(view')
      BY <2>2, <2>3, <3>2 DEF CommentsOnce
    <3> QED
      BY <1>0, <3>2, <3>3, <3>4 DEF CommentsInv, CommentsGood
  <2>4. CASE view.posting.at = "ok"
    <3>1. PICK s, n : view' = [view EXCEPT !.posting = posting, !.comments = s,
                                   !.commentCount = n, !.showComments = TRUE, !.draft = 0]
      BY <1>0, <2>1, <2>4 DEF CommentsShape
    <3>2. /\ CommentsShape(view') /\ view'.draft = 0
          /\ view'.posting = posting /\ view'.made = view.made
          /\ view'.own = view.own /\ view'.lost = view.lost /\ view'.acts = view.acts
      BY <1>0, <2>2, <3>1, CommentsBounds DEF CommentsShape, Comments!Drafts
    <3>3. CommentsNumbered(view')
      BY <1>0, <1>1, <2>2, <3>2 DEF CommentsGood, CommentsNumbered
    <3>4. CommentsOnce(view) => CommentsOnce(view')
      BY <2>2, <3>2 DEF CommentsOnce
    <3> QED
      BY <1>0, <3>2, <3>3, <3>4 DEF CommentsInv, CommentsGood
  <2> QED
    BY <2>3, <2>4
<1> QED
  BY <1>2, <1>3, <1>4

LEMMA CommentsNextInv == CommentsInv /\ [Comments!Next]_view => CommentsInv'
<1>1. CommentsInv /\ UNCHANGED view => CommentsInv'
  BY DEF CommentsInv
<1> QED
  BY <1>1, CommentsAskStep, CommentsDeleteStep, CommentsOtherStep, CommentsPostStep DEF
     Comments!Next, Comments!Progress

LEMMA CommentsInvOnce == CommentsInv => Comments!PostedOnce
<1>1. ASSUME NEW S, \A x, y \in S : x = y PROVE Cardinality(S) <= 1
  <2>1. CASE S = {}
    BY <2>1, FS_EmptySet
  <2>2. CASE S # {}
    <3>1. PICK x \in S : S = {x}
      BY <1>1, <2>2
    <3>2. Cardinality({x}) = 1
      BY FS_Singleton
    <3> QED
      BY <3>1, <3>2
  <2> QED
    BY <2>1, <2>2
<1>2. ASSUME CommentsInv, ~view.lost, NEW d \in Comments!Drafts \ {0}
      PROVE  Cardinality({c \in Comments!Comments : view.own[c] = d}) <= 1
  <2>1. CommentsOnce(view)
    BY <1>2 DEF CommentsInv, CommentsGood
  <2>2. \A x, y \in {c \in Comments!Comments : view.own[c] = d} : x = y
    BY <2>1 DEF CommentsOnce
  <2> QED
    BY <1>1, <2>2
<1> QED
  BY <1>2, CommentsCardSame DEF Comments!PostedOnce

\* What is kept of a list is a list: every place up to the last is taken by
\* exactly one of the elements that stay.
LEMMA CommentsWithout ==
  ASSUME NEW S, NEW list \in Seq(S), NEW c
  PROVE  Comments!Without(list, c) \in Seq(S)
<1> DEFINE kept == {i \in DOMAIN list : list[i] # c}
           below(i) == {k \in kept : k <= i}
           n == Cardinality(kept)
           place == [i \in kept |-> Cardinality(below(i))]
<1>1. Len(list) \in Nat /\ DOMAIN list = 1..Len(list) /\ \A i \in DOMAIN list : list[i] \in S
  OBVIOUS
<1>2. IsFiniteSet(kept) /\ n \in Nat
  <2>1. IsFiniteSet(DOMAIN list)
    BY <1>1, FS_Interval
  <2>2. kept \in SUBSET DOMAIN list
    OBVIOUS
  <2> HIDE DEF kept
  <2>3. IsFiniteSet(kept)
    BY <2>1, <2>2, FS_Subset
  <2> QED
    BY <2>3, FS_CardinalityType
<1>3. \A i \in kept : i \in Nat /\ list[i] \in S
  BY <1>1
<1> HIDE DEF kept, n
<1>4. ASSUME NEW i \in kept
      PROVE  IsFiniteSet(below(i)) /\ Cardinality(below(i)) \in Nat /\ Cardinality(below(i)) \in 1..n
  <2>1. below(i) \in SUBSET kept /\ i \in below(i)
    BY <1>3
  <2> HIDE DEF below
  <2>2. IsFiniteSet(below(i)) /\ Cardinality(below(i)) <= n
    BY <1>2, <2>1, FS_Subset DEF n
  <2>3. Cardinality(below(i)) \in Nat
    BY <2>2, FS_CardinalityType
  <2>4. Cardinality(below(i)) # 0
    BY <2>1, <2>2, FS_EmptySet
  <2> QED
    BY <1>2, <2>2, <2>3, <2>4
<1>5. ASSUME NEW i \in kept, NEW j \in kept, i < j
      PROVE  Cardinality(below(i)) # Cardinality(below(j))
  <2>1. below(i) \in SUBSET below(j) /\ j \in below(j) /\ j \notin below(i)
    BY <1>3, <1>5
  <2> HIDE DEF below
  <2>2. IsFiniteSet(below(j))
    BY <1>4
  <2>3. Cardinality(below(j)) = Cardinality(below(i)) => below(j) = below(i)
    BY <2>1, <2>2, FS_Subset
  <2> QED
    BY <2>1, <2>3
<1>6. place \in Injection(kept, 1..n)
  <2>1. place \in [kept -> 1..n] /\ \A i \in kept : place[i] = Cardinality(below(i))
    BY <1>4
  <2> HIDE DEF place, below
  <2>2. ASSUME NEW i \in kept, NEW j \in kept, place[i] = place[j] PROVE i = j
    BY <1>3, <1>5, <2>1, <2>2
  <2> QED
    BY <2>1, <2>2 DEF Injection, IsInjective
<1>7. place \in Surjection(kept, 1..n)
  <2>1. IsFiniteSet(1..n) /\ Cardinality(1..n) = n
    BY <1>2, FS_Interval
  <2> HIDE DEF place
  <2> QED
    BY <1>6, <2>1, FS_Injection DEF n
<1>8. \A m \in 1..n : \E i \in kept : Cardinality(below(i)) = m
  <2>1. \A m \in 1..n : \E i \in kept : place[i] = m
    BY <1>7 DEF Surjection
  <2> QED
    BY <2>1
<1> DEFINE nth(m) == CHOOSE i \in kept : Comments!Cardinality(below(i)) = m
<1>9. \A m \in 1..n : nth(m) \in kept
  <2>1. \A m \in 1..n : \E i \in kept : Comments!Cardinality(below(i)) = m
    BY <1>8, CommentsCardSame
  <2> HIDE DEF below
  <2> QED
    BY <2>1
<1>10. Comments!Without(list, c) = [m \in 1..Comments!Cardinality(kept) |-> list[nth(m)]]
  BY DEF Comments!Without, kept
<1>11. Comments!Cardinality(kept) = n
  BY CommentsCardSame DEF n
<1> HIDE DEF nth
<1>12. \A m \in 1..n : list[nth(m)] \in S
  BY <1>3, <1>9
<1> QED
  BY <1>2, <1>10, <1>11, <1>12

LEMMA CommentsInitTyped ==
  ASSUME Comments!Init PROVE CommentsTyped
<1>1. <<>> \in Seq(Comments!Comments)
  OBVIOUS
<1>2. [at |-> "idle", items |-> <<>>] \in CommentsLoad
  BY <1>1, CommentsCallEnds DEF CommentsLoad
<1>3. /\ view.comments = <<>> /\ view.sComments = <<>> /\ view.commentCount = 0 /\ view.pushes = 0
      /\ view.showComments = FALSE /\ view.deleting = [at |-> "idle", comment |-> 0]
      /\ view.posting.at = "idle"
  BY DEF Comments!Init
<1>4. view.load \in [Comments!Loads -> CommentsLoad]
  <2>1. view.load = [l \in Comments!Loads |-> [at |-> "idle", items |-> <<>>]]
    BY DEF Comments!Init
  <2> QED
    BY <1>2, <2>1
<1>5. view.deleting \in [at : Comments!Calls, comment : Comments!Comments \union {0}]
  BY <1>3, CommentsCallEnds
<1>6. view.comments \in Seq(Comments!Comments) /\ view.sComments \in Seq(Comments!Comments)
  BY <1>1, <1>3
<1>7. /\ view.commentCount \in Nat /\ view.pushes \in Nat /\ view.showComments \in BOOLEAN
      /\ view.posting.at # "ok"
  <2>1. view.commentCount \in Nat /\ view.pushes \in Nat
    BY <1>3
  <2>2. view.showComments \in BOOLEAN
    BY <1>3
  <2>3. view.posting.at # "ok"
    BY <1>3
  <2> QED
    BY <2>1, <2>2, <2>3
<1> QED
  BY <1>4, <1>5, <1>6, <1>7 DEF CommentsTyped, CommentsLists

LEMMA CommentsLoadTyped ==
  ASSUME NEW t, CommentsShape(t), CommentsLists(t), Comments!Load(t)
  PROVE  CommentsLists(view')
<1>1. PICK l \in Comments!Loads : view' = [t EXCEPT !.load[l].at = "sent"]
  BY DEF Comments!Load
<1>2. t.load \in [Comments!Loads -> CommentsLoad]
  BY DEF CommentsLists
<1>3. [t.load[l] EXCEPT !.at = "sent"] \in CommentsLoad
  BY <1>2, CommentsCallEnds DEF CommentsLoad
<1> DEFINE load == [t.load EXCEPT ![l] = [t.load[l] EXCEPT !.at = "sent"]]
<1>4. load \in [Comments!Loads -> CommentsLoad]
  BY <1>2, <1>3
<1>5. view' = [t EXCEPT !.load = load]
  BY <1>1 DEF CommentsShape
<1> HIDE DEF load
<1> QED
  BY <1>4, <1>5 DEF CommentsLists, CommentsShape

LEMMA CommentsAskTyped ==
  ASSUME CommentsInv, CommentsTyped,
         Comments!ServeLoad \/ Comments!Loaded \/ Comments!ToggleComments
           \/ Comments!Commented \/ Comments!PushLost
  PROVE  CommentsTyped'
<1>0. CommentsShape(view) /\ CommentsLists(view)
  BY DEF CommentsInv, CommentsGood, CommentsTyped
<1>00. view.load \in [Comments!Loads -> CommentsLoad]
  BY <1>0 DEF CommentsLists
<1>01. \A l \in Comments!Loads : view.load[l].items \in Seq(Comments!Comments)
  BY <1>00 DEF CommentsLoad
<1>02. <<>> \in Seq(Comments!Comments)
  OBVIOUS
<1> USE DEF CommentsTyped
<1>1. CASE Comments!ServeLoad
  <2>1. PICK l \in Comments!Loads, end \in Comments!Ends :
          view' = [view EXCEPT !.load[l] =
                     [at |-> end, items |-> IF end = "ok" THEN view.sComments ELSE <<>>]]
    BY <1>1 DEF Comments!ServeLoad
  <2> DEFINE answer == IF end = "ok" THEN view.sComments ELSE <<>>
             call == [at |-> end, items |-> answer]
             load == [view.load EXCEPT ![l] = call]
  <2>2. answer \in Seq(Comments!Comments)
    BY <1>0, <1>02 DEF CommentsLists
  <2>3. view' = [view EXCEPT !.load = load]
    BY <1>0, <2>1 DEF CommentsShape
  <2> HIDE DEF answer
  <2>4. call \in CommentsLoad
    BY <2>2, CommentsCallEnds DEF CommentsLoad
  <2> HIDE DEF call
  <2>5. load \in [Comments!Loads -> CommentsLoad]
    BY <1>00, <2>4
  <2> HIDE DEF load
  <2> QED
    BY <1>0, <2>3, <2>5 DEF CommentsLists, CommentsShape
<1>2. CASE Comments!Loaded
  <2>1. PICK l \in Comments!Loads :
          LET t == [view EXCEPT !.load[l] = [at |-> "idle", items |-> <<>>]] IN
          view' = t \/ view' = [t EXCEPT !.comments = view.load[l].items,
                                         !.commentCount = Len(view.load[l].items)]
    BY <1>2 DEF Comments!Loaded
  <2> DEFINE call == [at |-> "idle", items |-> <<>>]
             load == [view.load EXCEPT ![l] = call]
             list == view.load[l].items
             count == Len(list)
             t == [view EXCEPT !.load = load]
  <2>2. view' = t \/ view' = [t EXCEPT !.comments = list, !.commentCount = count]
    BY <2>1
  <2>3. call \in CommentsLoad
    BY <1>02, CommentsCallEnds DEF CommentsLoad
  <2>4. list \in Seq(Comments!Comments) /\ count \in Nat
    BY <1>01
  <2> HIDE DEF call
  <2>5. load \in [Comments!Loads -> CommentsLoad]
    BY <1>00, <2>3
  <2> HIDE DEF load, list, count
  <2>6. CASE view' = t
    BY <1>0, <2>5, <2>6 DEF CommentsLists, CommentsShape
  <2>7. CASE view' = [t EXCEPT !.comments = list, !.commentCount = count]
    BY <1>0, <2>4, <2>5, <2>7 DEF CommentsLists, CommentsShape
  <2> QED
    BY <2>2, <2>6, <2>7
<1>3. CASE Comments!ToggleComments
  <2> DEFINE t == [view EXCEPT !.acts = @ + 1, !.showComments = ~@]
  <2>1. Comments!Act /\ (Comments!Load(t) \/ view' = t)
    BY <1>3 DEF Comments!ToggleComments
  <2>2. view.acts + 1 \in 0..MaxActs["comments"]
    BY <1>0, <2>1, CommentsBounds DEF Comments!Act, CommentsShape
  <2>3. CommentsShape(t)
    BY <1>0, <2>2 DEF CommentsShape
  <2>4. CommentsLists(t)
    BY <1>0 DEF CommentsLists, CommentsShape
  <2> HIDE DEF t
  <2> QED
    BY <2>1, <2>3, <2>4, CommentsLoadTyped
<1>4. CASE Comments!Commented
  <2> DEFINE t == [view EXCEPT !.pushes = @ - 1, !.commentCount = @ + 1]
  <2>1. view.pushes > 0 /\ (Comments!Load(t) \/ view' = t)
    BY <1>4 DEF Comments!Commented
  <2>2. view.pushes - 1 \in Nat /\ view.commentCount + 1 \in Nat
    BY <1>0, <2>1 DEF CommentsLists
  <2>3. CommentsShape(t)
    BY <1>0 DEF CommentsShape
  <2>4. CommentsLists(t)
    BY <1>0, <2>2 DEF CommentsLists, CommentsShape
  <2> HIDE DEF t
  <2> QED
    BY <2>1, <2>3, <2>4, CommentsLoadTyped
<1>5. CASE Comments!PushLost
  <2>1. view.pushes > 0 /\ view' = [view EXCEPT !.pushes = view.pushes - 1]
    BY <1>5 DEF Comments!PushLost
  <2>2. view.pushes - 1 \in Nat
    BY <1>0, <2>1 DEF CommentsLists
  <2> QED
    BY <1>0, <2>1, <2>2 DEF CommentsLists, CommentsShape
<1> QED
  BY <1>1, <1>2, <1>3, <1>4, <1>5

LEMMA CommentsDeleteTyped ==
  ASSUME CommentsInv, CommentsTyped,
         Comments!DeleteComment \/ Comments!ServeDelete \/ Comments!DeleteAnswered
  PROVE  CommentsTyped'
<1>0. CommentsShape(view) /\ CommentsLists(view)
  BY DEF CommentsInv, CommentsGood, CommentsTyped
<1> USE DEF CommentsTyped
<1> DEFINE Delete == [at : Comments!Calls, comment : Comments!Comments \union {0}]
<1>1. CASE Comments!DeleteComment
  <2>1. PICK c \in Comments!Comments :
          view' = [view EXCEPT !.acts = @ + 1, !.deleting = [at |-> "sent", comment |-> c]]
    BY <1>1 DEF Comments!DeleteComment
  <2>2. [at |-> "sent", comment |-> c] \in Delete
    BY CommentsCallEnds
  <2> QED
    BY <1>0, <2>1, <2>2 DEF CommentsLists, CommentsShape
<1>2. CASE Comments!ServeDelete
  <2>1. PICK end \in Comments!Ends : \E done \in Comments!Effects(end) :
          view' = [view EXCEPT !.deleting.at = end,
                     !.sComments = IF done THEN Comments!Without(@, view.deleting.comment) ELSE @]
    BY <1>2 DEF Comments!ServeDelete
  <2>2. PICK done \in Comments!Effects(end) :
          view' = [view EXCEPT !.deleting.at = end,
                     !.sComments = IF done THEN Comments!Without(@, view.deleting.comment) ELSE @]
    BY <2>1
  <2> DEFINE call == [view.deleting EXCEPT !.at = end]
             list == IF done THEN Comments!Without(view.sComments, view.deleting.comment)
                     ELSE view.sComments
  <2>3. list \in Seq(Comments!Comments)
    BY <1>0, CommentsWithout DEF CommentsLists
  <2>4. call \in Delete
    BY <1>0, CommentsCallEnds DEF CommentsLists
  <2>5. view' = [view EXCEPT !.deleting = call, !.sComments = list]
    BY <1>0, <2>2 DEF CommentsShape
  <2> HIDE DEF call, list
  <2> QED
    BY <1>0, <2>3, <2>4, <2>5 DEF CommentsLists, CommentsShape
<1>3. CASE Comments!DeleteAnswered
  <2> DEFINE none == [at |-> "idle", comment |-> 0]
             t == [view EXCEPT !.deleting = none]
             list == Comments!Without(view.comments, view.deleting.comment)
             count == IF view.commentCount = 0 THEN 0 ELSE view.commentCount - 1
  <2>1. view' = t \/ view' = [t EXCEPT !.comments = list, !.commentCount = count]
    BY <1>0, <1>3 DEF Comments!DeleteAnswered, CommentsShape
  <2>2. none \in Delete
    BY CommentsCallEnds
  <2>3. list \in Seq(Comments!Comments)
    BY <1>0, CommentsWithout DEF CommentsLists
  <2>4. count \in Nat
    BY <1>0 DEF CommentsLists
  <2> HIDE DEF none, list, count
  <2>5. CASE view' = t
    BY <1>0, <2>2, <2>5 DEF CommentsLists, CommentsShape
  <2>6. CASE view' = [t EXCEPT !.comments = list, !.commentCount = count]
    BY <1>0, <2>2, <2>3, <2>4, <2>6 DEF CommentsLists, CommentsShape
  <2> QED
    BY <2>1, <2>5, <2>6
<1> QED
  BY <1>1, <1>2, <1>3

LEMMA CommentsOtherTyped ==
  ASSUME CommentsInv, CommentsTyped, Comments!OtherComments \/ Comments!Type
  PROVE  CommentsTyped'
<1>0. CommentsShape(view) /\ CommentsLists(view) /\ CommentsNumbered(view)
  BY DEF CommentsInv, CommentsGood, CommentsTyped
<1> USE DEF CommentsTyped
<1>1. CASE Comments!OtherComments
  <2> DEFINE new == view.made + 1
             list == Append(view.sComments, new)
             pushes == view.pushes + 1
  <2>1. Comments!Act /\ view' = [view EXCEPT !.acts = @ + 1, !.made = new,
                                             !.pushes = pushes, !.sComments = list]
    BY <1>0, <1>1 DEF Comments!OtherComments, CommentsShape
  <2>2. new \in Comments!Comments
    <3>1. view.made \in Nat /\ view.acts \in Nat /\ view.made <= view.acts
          /\ view.acts < MaxActs["comments"] /\ MaxActs["comments"] \in Nat
      BY <1>0, <2>1, CommentsBounds DEF Comments!Act, CommentsShape, CommentsNumbered
    <3> QED
      BY <3>1 DEF Comments!Comments
  <2>3. pushes \in Nat /\ view.sComments \in Seq(Comments!Comments)
    BY <1>0 DEF CommentsLists
  <2> HIDE DEF new, pushes
  <2>4. list \in Seq(Comments!Comments)
    BY <2>2, <2>3
  <2> HIDE DEF list
  <2> QED
    BY <1>0, <2>1, <2>3, <2>4 DEF CommentsLists, CommentsShape
<1>2. CASE Comments!Type
  <2>1. view' = [view EXCEPT !.draft = view.acts + 1]
    BY <1>2 DEF Comments!Type
  <2> QED
    BY <1>0, <2>1 DEF CommentsLists, CommentsShape
<1> QED
  BY <1>1, <1>2

LEMMA CommentsPostTyped ==
  ASSUME CommentsInv, CommentsTyped,
         Comments!SubmitComment \/ Comments!ServeComment \/ Comments!CommentAnswered
  PROVE  CommentsTyped'
<1>0. CommentsShape(view) /\ CommentsLists(view) /\ CommentsNumbered(view)
  BY DEF CommentsInv, CommentsGood, CommentsTyped
<1> USE DEF CommentsTyped
<1>1. CASE Comments!SubmitComment
  <2> DEFINE posting == [at |-> "sent", draft |-> view.draft, comment |-> 0]
  <2>1. view' = [view EXCEPT !.acts = @ + 1, !.posting = posting]
    BY <1>1 DEF Comments!SubmitComment
  <2>2. posting.at # "ok"
    OBVIOUS
  <2> HIDE DEF posting
  <2> QED
    BY <1>0, <2>1, <2>2 DEF CommentsLists, CommentsShape
<1>2. CASE Comments!ServeComment
  <2> DEFINE new == view.made + 1
             posting(end) == [view.posting EXCEPT !.at = end]
             t(end) == [view EXCEPT !.posting.at = end, !.lost = @ \/ end = "lost"]
  <2>1. PICK end \in Comments!Ends : \E done \in Comments!Effects(end) :
          /\ view.posting.at = "sent"
          /\ view' = IF ~done THEN t(end)
                     ELSE [t(end) EXCEPT !.posting.comment = new, !.made = new,
                             !.pushes = @ + 1, !.own[new] = view.posting.draft,
                             !.sComments = Append(@, new)]
    BY <1>2 DEF Comments!ServeComment
  <2>2. PICK done \in Comments!Effects(end) :
          /\ view.posting.at = "sent"
          /\ view' = IF ~done THEN t(end)
                     ELSE [t(end) EXCEPT !.posting.comment = new, !.made = new,
                             !.pushes = @ + 1, !.own[new] = view.posting.draft,
                             !.sComments = Append(@, new)]
    BY <2>1
  <2>3. new \in Comments!Comments
    <3>1. view.made \in Nat /\ view.acts \in Nat /\ view.made < view.acts
          /\ view.acts <= MaxActs["comments"] /\ MaxActs["comments"] \in Nat
      BY <1>0, <2>2, CommentsBounds DEF CommentsShape, CommentsNumbered
    <3> QED
      BY <3>1 DEF Comments!Comments
  <2>4. PICK lost \in BOOLEAN : lost <=> view.lost \/ end = "lost"
    OBVIOUS
  <2>5. CASE ~done
    <3>1. view' = [view EXCEPT !.posting = posting(end), !.lost = lost]
      BY <1>0, <2>2, <2>4, <2>5 DEF CommentsShape
    <3>2. posting(end).at # "ok"
      BY <1>0, <2>5, CommentsHowItEnds DEF CommentsShape
    <3> HIDE DEF posting
    <3> QED
      BY <1>0, <3>1, <3>2 DEF CommentsLists, CommentsShape
  <2>6. CASE done
    <3> DEFINE made == [posting(end) EXCEPT !.comment = new]
               own == [view.own EXCEPT ![new] = view.posting.draft]
               pushes == view.pushes + 1
               list == Append(view.sComments, new)
    <3>1. view' = [view EXCEPT !.posting = made, !.lost = lost, !.made = new,
                       !.pushes = pushes, !.own = own, !.sComments = list]
      BY <1>0, <2>2, <2>4, <2>6 DEF CommentsShape
    <3>2. made.comment = new
      BY <1>0 DEF CommentsShape
    <3>3. pushes \in Nat /\ view.sComments \in Seq(Comments!Comments)
      BY <1>0 DEF CommentsLists
    <3> HIDE DEF new, made, own, pushes
    <3>4. list \in Seq(Comments!Comments)
      BY <2>3, <3>3
    <3> HIDE DEF list
    <3> QED
      BY <1>0, <2>3, <3>1, <3>2, <3>3, <3>4 DEF CommentsLists, CommentsShape
  <2> QED
    BY <2>5, <2>6, CommentsHowItEnds
<1>3. CASE Comments!CommentAnswered
  <2> DEFINE posting == [at |-> "idle", draft |-> 0, comment |-> 0]
             t == [view EXCEPT !.posting = posting]
             list == Append(view.comments, view.posting.comment)
             count == view.commentCount + 1
  <2>1. \/ view' = t
        \/ /\ view.posting.at = "ok"
           /\ view' = [t EXCEPT !.comments = list, !.commentCount = count,
                                !.showComments = TRUE, !.draft = 0]
    BY <1>0, <1>3 DEF Comments!CommentAnswered, CommentsShape
  <2>2. posting.at # "ok"
    OBVIOUS
  <2>3. count \in Nat
    BY <1>0 DEF CommentsLists
  <2>4. view.posting.at = "ok" => list \in Seq(Comments!Comments)
    BY <1>0 DEF CommentsLists
  <2> HIDE DEF posting, list, count
  <2>5. CASE view' = t
    BY <1>0, <2>2, <2>5 DEF CommentsLists, CommentsShape
  <2>6. CASE /\ view.posting.at = "ok"
             /\ view' = [t EXCEPT !.comments = list, !.commentCount = count,
                                  !.showComments = TRUE, !.draft = 0]
    BY <1>0, <2>2, <2>3, <2>4, <2>6 DEF CommentsLists, CommentsShape
  <2> QED
    BY <2>1, <2>5, <2>6
<1> QED
  BY <1>1, <1>2, <1>3

LEMMA CommentsNextTyped == CommentsInv /\ CommentsTyped /\ [Comments!Next]_view => CommentsTyped'
<1>1. CommentsTyped /\ UNCHANGED view => CommentsTyped'
  BY DEF CommentsTyped
<1> QED
  BY <1>1, CommentsAskTyped, CommentsDeleteTyped, CommentsOtherTyped, CommentsPostTyped DEF
     Comments!Next, Comments!Progress

LEMMA CommentsInvTyped ==
  ASSUME CommentsInv, CommentsTyped PROVE Comments!TypeOK
<1>1. CommentsShape(view) /\ CommentsLists(view)
  BY DEF CommentsInv, CommentsGood, CommentsTyped
<1>2. \A l \in Comments!Loads : view.load[l].at \in Comments!Calls
                                /\ view.load[l].items \in Seq(Comments!Comments)
  BY <1>1 DEF CommentsLists, CommentsLoad
<1> QED
  BY <1>1, <1>2 DEF Comments!TypeOK, CommentsShape, CommentsLists
-----------------------------------------------------------------------------
(* profile-view.tsx: how the relation on screen and the one user-svc holds   *)
(* may differ while a follow and a block are on their way.                   *)

LEMMA ProfileBounds == Faults \subseteq {"refused", "lost"} /\ MaxActs["profile"] \in Nat
  BY Bounds DEF Screens

LEMMA ProfileCallEnds ==
  /\ "idle" \notin Profile!Ends /\ "sent" \notin Profile!Ends /\ "checked" \notin Profile!Ends
  /\ Profile!Ends \subseteq Profile!Calls /\ Profile!Ends \subseteq {"ok", "refused", "lost"}
  /\ "idle" \in Profile!Calls /\ "sent" \in Profile!Calls
  BY ProfileBounds DEF Profile!Ends, Profile!Calls

LEMMA ProfileHowItEnds ==
  ASSUME NEW end \in Profile!Ends, NEW done \in Profile!Effects(end)
  PROVE  done \in BOOLEAN /\ (end = "ok" => done = TRUE)
  BY ProfileBounds DEF Profile!Ends, Profile!Effects

LEMMA ProfileStrangerIs ==
  /\ Profile!Stranger \in Profile!Relation /\ Profile!Stranger.following = FALSE
  /\ Profile!Stranger.blocking = FALSE /\ Profile!Stranger.closeFriend = FALSE
  BY DEF Profile!Stranger, Profile!Relation

LEMMA ProfileInitInv ==
  ASSUME Profile!Init PROVE ProfileInv
<1>1. PICK me \in BOOLEAN, r \in Profile!ServerRelations : view = [
        isMe |-> me, load |-> [at |-> "sent", answer |-> Profile!Stranger],
        profile |-> FALSE, loading |-> TRUE, relation |-> Profile!Stranger,
        follow |-> [at |-> "idle", next |-> FALSE],
        action |-> [at |-> "idle", on |-> "blocking", next |-> FALSE],
        tab |-> "posts", grid |-> [g \in Profile!Grids |-> "null"],
        gridLoad |-> [g \in Profile!Grids |-> "idle"], tabLoading |-> FALSE,
        server |-> IF me THEN Profile!Stranger ELSE r,
        acts |-> 0, crossed |-> FALSE, failed |-> FALSE]
  BY DEF Profile!Init
<1>2. PICK s \in Profile!Relation :
        /\ s = IF me THEN Profile!Stranger ELSE r
        /\ s.blocking => ~s.following /\ ~s.closeFriend
  BY ProfileStrangerIs DEF Profile!ServerRelations
<1>3. view \in ProfileState
  BY <1>1, <1>2, ProfileStrangerIs, ProfileCallEnds, ProfileBounds
  DEF ProfileState, ProfileFollow, ProfileAction, Profile!Tabs, Profile!Grids
<1>4. /\ view.profile = FALSE /\ view.follow.at = "idle" /\ view.action.at = "idle"
      /\ view.load.at = "sent" /\ view.server = s
  BY <1>1, <1>2
<1> QED
  BY <1>2, <1>3, <1>4 DEF ProfileInv, ProfileGood, ProfileWaits

\* The grids of the tabs have no part in it.
LEMMA ProfileFrameGood ==
  ASSUME NEW p, ProfileGood(p), NEW q \in ProfileState,
         q.load = p.load, q.profile = p.profile, q.relation = p.relation,
         q.follow = p.follow, q.action = p.action, q.server = p.server,
         q.crossed = p.crossed, q.failed = p.failed
  PROVE  ProfileGood(q)
  BY DEF ProfileGood, ProfileWaits, ProfileShown, ProfileSevers

LEMMA ProfileActedIs ==
  ASSUME ProfileInv, Profile!Act
  PROVE  /\ Profile!Clicked = [view EXCEPT !.acts = view.acts + 1] /\ Profile!Clicked \in ProfileState
         /\ view.acts + 1 \in 0..MaxActs["profile"] /\ view.profile = TRUE
         /\ Profile!Clicked.load = view.load /\ Profile!Clicked.profile = view.profile
         /\ Profile!Clicked.relation = view.relation /\ Profile!Clicked.follow = view.follow
         /\ Profile!Clicked.action = view.action /\ Profile!Clicked.server = view.server
         /\ Profile!Clicked.crossed = view.crossed /\ Profile!Clicked.failed = view.failed
         /\ Profile!Clicked.gridLoad = view.gridLoad
<1>0. view \in ProfileState
  BY DEF ProfileInv, ProfileGood
<1>1. view.acts + 1 \in 0..MaxActs["profile"] /\ view.profile = TRUE
  BY <1>0, ProfileBounds DEF Profile!Act, ProfileState
<1>2. PICK n \in 0..MaxActs["profile"] : n = view.acts + 1
  BY <1>1
<1>3. PICK c : c = Profile!Clicked
  OBVIOUS
<1>4. c = [view EXCEPT !.acts = n]
  BY <1>2, <1>3 DEF Profile!Clicked
<1>5. /\ c \in ProfileState
      /\ c.load = view.load /\ c.profile = view.profile
      /\ c.relation = view.relation /\ c.follow = view.follow
      /\ c.action = view.action /\ c.server = view.server
      /\ c.crossed = view.crossed /\ c.failed = view.failed
      /\ c.gridLoad = view.gridLoad
  BY <1>0, <1>4 DEF ProfileState
<1> QED
  BY <1>1, <1>2, <1>3, <1>4, <1>5

LEMMA ProfileTabStep ==
  ASSUME ProfileInv, Profile!SetTab \/ Profile!ServeGrid \/ Profile!GridLoaded
  PROVE  ProfileInv'
<1>0. view \in ProfileState /\ ProfileGood(view)
  BY DEF ProfileInv, ProfileGood
<1>1. CASE Profile!SetTab
  <2>1. PICK t \in Profile!Tabs :
          /\ Profile!Act
          /\ view' = IF t \in Profile!Grids /\ view.grid[t] = "null"
                  THEN [Profile!Clicked EXCEPT !.tab = t, !.gridLoad[t] = "sent", !.tabLoading = TRUE]
                  ELSE [Profile!Clicked EXCEPT !.tab = t]
    BY <1>1 DEF Profile!SetTab
  <2>2. PICK c \in ProfileState : c = Profile!Clicked
    BY <2>1, ProfileActedIs
  <2>3. ProfileGood(c)
    BY <1>0, <2>1, <2>2, ProfileActedIs, ProfileFrameGood
  <2>4. CASE t \in Profile!Grids /\ view.grid[t] = "null"
    <3> DEFINE gridLoad == [c.gridLoad EXCEPT ![t] = "sent"]
    <3>1. gridLoad \in [Profile!Grids -> Profile!Calls]
      BY <2>2, <2>4, ProfileCallEnds DEF ProfileState
    <3>2. view' = [c EXCEPT !.tab = t, !.gridLoad = gridLoad, !.tabLoading = TRUE]
      BY <2>1, <2>2, <2>4 DEF ProfileState
    <3> HIDE DEF gridLoad
    <3> QED
      BY <2>3, <3>1, <3>2, ProfileFrameGood DEF ProfileState, ProfileInv
  <2>5. CASE ~(t \in Profile!Grids /\ view.grid[t] = "null")
    BY <2>1, <2>2, <2>3, <2>5, ProfileFrameGood DEF ProfileState, ProfileInv
  <2> QED
    BY <2>4, <2>5
<1>2. CASE Profile!ServeGrid
  <2>1. PICK g \in Profile!Grids, end \in Profile!Ends : view' = [view EXCEPT !.gridLoad[g] = end]
    BY <1>2 DEF Profile!ServeGrid
  <2> DEFINE gridLoad == [view.gridLoad EXCEPT ![g] = end]
  <2>2. gridLoad \in [Profile!Grids -> Profile!Calls]
    BY <1>0, ProfileCallEnds DEF ProfileState
  <2>3. view' = [view EXCEPT !.gridLoad = gridLoad]
    BY <1>0, <2>1 DEF ProfileState
  <2> HIDE DEF gridLoad
  <2> QED
    BY <1>0, <2>2, <2>3, ProfileFrameGood DEF ProfileState, ProfileInv
<1>3. CASE Profile!GridLoaded
  <2>1. PICK g \in Profile!Grids : view' = [view EXCEPT !.gridLoad[g] = "idle",
                                        !.grid[g] = "shown", !.tabLoading = FALSE]
    BY <1>3 DEF Profile!GridLoaded
  <2> DEFINE gridLoad == [view.gridLoad EXCEPT ![g] = "idle"]
             shown == [view.grid EXCEPT ![g] = "shown"]
  <2>2. gridLoad \in [Profile!Grids -> Profile!Calls] /\ shown \in [Profile!Grids -> {"null", "shown"}]
    BY <1>0, ProfileCallEnds DEF ProfileState
  <2>3. view' = [view EXCEPT !.gridLoad = gridLoad, !.grid = shown, !.tabLoading = FALSE]
    BY <1>0, <2>1 DEF ProfileState
  <2> HIDE DEF gridLoad, shown
  <2> QED
    BY <1>0, <2>2, <2>3, ProfileFrameGood DEF ProfileState, ProfileInv
<1> QED
  BY <1>1, <1>2, <1>3

LEMMA ProfileLoadStep ==
  ASSUME ProfileInv, Profile!ServeLoad \/ Profile!Loaded
  PROVE  ProfileInv'
<1>0. view \in ProfileState /\ ProfileGood(view)
  BY DEF ProfileInv, ProfileGood
<1>1. CASE Profile!ServeLoad
  <2>1. PICK end \in Profile!Ends :
          /\ view.load.at = "sent"
          /\ view' = [view EXCEPT !.load = [at |-> end, answer |-> view.server],
                                        !.failed = @ \/ end # "ok"]
    BY <1>1 DEF Profile!ServeLoad
  <2> DEFINE load == [at |-> end, answer |-> view.server]
  <2>2. load \in [at : Profile!Calls, answer : Profile!Relation] /\ load.at = end /\ load.answer = view.server
    BY <1>0, ProfileCallEnds DEF ProfileState
  <2>3. PICK failed \in BOOLEAN : failed <=> view.failed \/ end # "ok"
    OBVIOUS
  <2>4. view' = [view EXCEPT !.load = load, !.failed = failed]
    BY <1>0, <2>1, <2>3 DEF ProfileState
  <2> HIDE DEF load
  <2>5. /\ view' \in ProfileState
        /\ view'.load = load /\ view'.profile = view.profile
        /\ view'.relation = view.relation /\ view'.follow = view.follow
        /\ view'.action = view.action /\ view'.server = view.server
        /\ view'.crossed = view.crossed /\ view'.failed = failed
    BY <1>0, <2>2, <2>4 DEF ProfileState
  <2> QED
    BY <1>0, <2>1, <2>2, <2>3, <2>5
    DEF ProfileInv, ProfileGood, ProfileWaits, ProfileShown
<1>2. CASE Profile!Loaded
  <2> DEFINE load == [view.load EXCEPT !.at = "idle"]
             p == [view EXCEPT !.load.at = "idle", !.loading = FALSE]
  <2>1. /\ Profile!Arrived(view.load.at)
        /\ view' = IF view.load.at # "ok" THEN p
                      ELSE [p EXCEPT !.profile = TRUE, !.relation = view.load.answer]
    BY <1>2 DEF Profile!Loaded
  <2>2. load \in [at : Profile!Calls, answer : Profile!Relation] /\ load.at = "idle" /\ view.load.answer \in Profile!Relation
    BY <1>0, ProfileCallEnds DEF ProfileState
  <2>3. view.load.at \notin {"idle", "sent"}
    BY <2>1, ProfileCallEnds DEF Profile!Arrived
  <2>4. p = [view EXCEPT !.load = load, !.loading = FALSE]
    BY <1>0 DEF ProfileState
  <2> HIDE DEF load, p
  <2>5. CASE view.load.at # "ok"
    <3>1. /\ view' \in ProfileState
          /\ view'.crossed = view.crossed /\ view'.failed = view.failed
      BY <1>0, <2>1, <2>2, <2>4, <2>5 DEF ProfileState
    <3> QED
      BY <1>0, <2>3, <2>5, <3>1 DEF ProfileInv, ProfileGood, ProfileWaits, ProfileShown
  <2>6. CASE view.load.at = "ok"
    <3>1. view' = [view EXCEPT !.load = load, !.loading = FALSE, !.profile = TRUE,
                                     !.relation = view.load.answer]
      BY <2>1, <2>4, <2>6
    <3>2. /\ view' \in ProfileState
          /\ view'.load = load /\ view'.profile = TRUE
          /\ view'.relation = view.load.answer /\ view'.follow = view.follow
          /\ view'.action = view.action /\ view'.server = view.server
          /\ view'.crossed = view.crossed /\ view'.failed = view.failed
      BY <1>0, <2>2, <3>1 DEF ProfileState
    <3>3. ASSUME ProfileWaits(view) PROVE ProfileShown(view')
      BY <2>2, <2>6, <3>2, <3>3 DEF ProfileWaits, ProfileShown
    <3> QED
      BY <1>0, <2>6, <3>2, <3>3 DEF ProfileInv, ProfileGood, ProfileShown
  <2> QED
    BY <2>5, <2>6
<1> QED
  BY <1>1, <1>2

LEMMA ProfileAfterIs ==
  ASSUME NEW r \in Profile!Relation, NEW b \in BOOLEAN
  PROVE  /\ Profile!After(r, "blocking", b) \in Profile!Relation
         /\ Profile!After(r, "blocking", b).blocking = b
         /\ Profile!After(r, "blocking", b).following = IF b THEN FALSE ELSE r.following
         /\ Profile!After(r, "blocking", b).closeFriend = IF b THEN FALSE ELSE r.closeFriend
<1>1. CASE b = TRUE
  <2>1. Profile!After(r, "blocking", b) = [following |-> FALSE, blocking |-> TRUE, closeFriend |-> FALSE]
    BY <1>1 DEF Profile!After, Profile!Stranger
  <2>2. PICK a : a = [following |-> FALSE, blocking |-> TRUE, closeFriend |-> FALSE]
    OBVIOUS
  <2>3. a \in Profile!Relation
    BY <2>2 DEF Profile!Relation
  <2>4. a.blocking = TRUE /\ a.following = FALSE /\ a.closeFriend = FALSE
    BY <2>2
  <2> QED
    BY <1>1, <2>1, <2>2, <2>3, <2>4
<1>2. CASE b = FALSE
  <2>1. Profile!After(r, "blocking", b) = [r EXCEPT !.blocking = FALSE]
    BY <1>2 DEF Profile!After
  <2>2. PICK a : a = Profile!After(r, "blocking", b)
    OBVIOUS
  <2> QED
    BY <1>2, <2>1, <2>2 DEF Profile!Relation
<1> QED
  BY <1>1, <1>2

LEMMA ProfileFollowClicked ==
  ASSUME ProfileInv, Profile!ToggleFollow PROVE ProfileInv'
<1>0. view \in ProfileState /\ ProfileGood(view)
  BY DEF ProfileInv, ProfileGood
<1> DEFINE next == ~view.relation.following
           relation == [view.relation EXCEPT !.following = next]
           follow == [at |-> "sent", next |-> next]
<1>1. /\ Profile!Act /\ ~view.relation.blocking /\ view.follow.at = "idle"
      /\ view' = [Profile!Clicked EXCEPT !.relation.following = next, !.follow = follow]
  BY DEF Profile!ToggleFollow
<1>2. PICK c \in ProfileState : c = Profile!Clicked
  BY <1>1, ProfileActedIs
<1>3. view.relation \in Profile!Relation /\ next \in BOOLEAN /\ view.relation.blocking = FALSE
  BY <1>0, <1>1 DEF ProfileState, Profile!Relation
<1>4. /\ relation \in Profile!Relation /\ relation.following = next
      /\ relation.blocking = view.relation.blocking
      /\ relation.closeFriend = view.relation.closeFriend
  BY <1>1, <1>3 DEF Profile!Relation
<1>5. follow \in ProfileFollow /\ follow.at = "sent" /\ follow.next = next
  BY ProfileCallEnds DEF ProfileFollow
<1>6. view' = [c EXCEPT !.relation = relation, !.follow = follow]
  BY <1>1, <1>2, ProfileActedIs DEF ProfileState
<1> HIDE DEF next, relation, follow
<1>7. /\ view' \in ProfileState
      /\ view'.load = view.load /\ view'.profile = TRUE
      /\ view'.relation = relation /\ view'.follow = follow
      /\ view'.action = view.action /\ view'.server = view.server
      /\ view'.crossed = view.crossed /\ view'.failed = view.failed
  BY <1>1, <1>2, <1>4, <1>5, <1>6, ProfileActedIs DEF ProfileState
<1>8. ASSUME ProfileShown(view) PROVE ProfileShown(view')
  BY <1>1, <1>3, <1>4, <1>5, <1>7, <1>8 DEF ProfileShown, ProfileSevers
<1>9. ~ProfileWaits(view)
  BY <1>1, ProfileActedIs DEF ProfileWaits
<1> QED
  BY <1>0, <1>7, <1>8, <1>9 DEF ProfileInv, ProfileGood

LEMMA ProfileFollowStep ==
  ASSUME ProfileInv, Profile!CheckFollow \/ Profile!ServeFollow \/ Profile!FollowAnswered
  PROVE  ProfileInv'
<1>0. view \in ProfileState /\ ProfileGood(view)
  BY DEF ProfileInv, ProfileGood
<1>a. /\ view.follow \in ProfileFollow /\ view.follow.next \in BOOLEAN
      /\ view.relation \in Profile!Relation /\ view.server \in Profile!Relation
      /\ view.server.blocking \in BOOLEAN /\ view.server.following \in BOOLEAN
  BY <1>0 DEF ProfileState, ProfileFollow, Profile!Relation
<1>1. CASE Profile!CheckFollow
  <2> DEFINE to == IF view.server.blocking THEN "refused" ELSE "checked"
             follow == [view.follow EXCEPT !.at = to]
  <2>1. /\ view.follow = [at |-> "sent", next |-> TRUE]
        /\ view' = [view EXCEPT !.follow.at = to]
    BY <1>1 DEF Profile!CheckFollow
  <2>1a. view.follow.at = "sent" /\ view.follow.next = TRUE
    BY <2>1
  <2>2. follow \in ProfileFollow /\ follow.at = to /\ follow.next = TRUE
    <3>1. PICK a \in {"refused", "checked"} : a = to
      OBVIOUS
    <3>2. follow \in ProfileFollow /\ follow.at = a /\ follow.next = view.follow.next
      BY <1>a, <3>1 DEF ProfileFollow
    <3> QED
      BY <2>1a, <3>1, <3>2
  <2>3. view' = [view EXCEPT !.follow = follow]
    BY <1>0, <2>1 DEF ProfileState
  <2> HIDE DEF follow
  <2>3a. to = IF view.server.blocking THEN "refused" ELSE "checked"
    OBVIOUS
  <2> HIDE DEF to
  <2>4. /\ view' \in ProfileState
        /\ view'.load = view.load /\ view'.profile = view.profile
        /\ view'.relation = view.relation /\ view'.follow = follow
        /\ view'.action = view.action /\ view'.server = view.server
        /\ view'.crossed = view.crossed /\ view'.failed = view.failed
    BY <1>0, <2>2, <2>3 DEF ProfileState
  <2>5. ASSUME ProfileShown(view),
               view.server.blocking => ~view.server.following
        PROVE  ProfileShown(view')
    BY <1>a, <2>1a, <2>2, <2>3a, <2>4, <2>5 DEF ProfileShown, ProfileSevers
  <2>6. ~ProfileWaits(view)
    BY <2>1a DEF ProfileWaits
  <2> QED
    BY <1>0, <2>4, <2>5, <2>6 DEF ProfileInv, ProfileGood
<1>2. CASE Profile!ServeFollow
  <2>1. PICK end \in Profile!Ends : \E done \in Profile!Effects(end) :
          /\ view.follow.at = IF view.follow.next THEN "checked" ELSE "sent"
          /\ view' = [view EXCEPT !.follow.at = end, !.failed = @ \/ end # "ok",
               !.crossed = @ \/ (view.follow.next /\ view.server.blocking),
               !.server.following = IF done THEN view.follow.next ELSE @]
    BY <1>2 DEF Profile!ServeFollow
  <2>2. PICK done \in Profile!Effects(end) :
          /\ view.follow.at = IF view.follow.next THEN "checked" ELSE "sent"
          /\ view' = [view EXCEPT !.follow.at = end, !.failed = @ \/ end # "ok",
               !.crossed = @ \/ (view.follow.next /\ view.server.blocking),
               !.server.following = IF done THEN view.follow.next ELSE @]
    BY <2>1
  <2>3. PICK f \in BOOLEAN : f = IF done THEN view.follow.next ELSE view.server.following
    BY <1>a
  <2>4. PICK failed \in BOOLEAN : failed <=> view.failed \/ end # "ok"
    OBVIOUS
  <2>5. PICK crossed \in BOOLEAN :
          crossed <=> view.crossed \/ (view.follow.next /\ view.server.blocking)
    OBVIOUS
  <2> DEFINE follow == [view.follow EXCEPT !.at = end]
             server == [view.server EXCEPT !.following = f]
  <2>6. follow \in ProfileFollow /\ follow.at = end /\ follow.next = view.follow.next
    BY <1>a, ProfileCallEnds DEF ProfileFollow
  <2>7. /\ server \in Profile!Relation /\ server.following = f
        /\ server.blocking = view.server.blocking
        /\ server.closeFriend = view.server.closeFriend
    BY <1>a DEF Profile!Relation
  <2>8. view' = [view EXCEPT !.follow = follow, !.failed = failed, !.crossed = crossed,
                                   !.server = server]
    BY <1>0, <2>2, <2>3, <2>4, <2>5 DEF ProfileState
  <2> HIDE DEF follow, server
  <2>9. /\ view' \in ProfileState
        /\ view'.load = view.load /\ view'.profile = view.profile
        /\ view'.relation = view.relation /\ view'.follow = follow
        /\ view'.action = view.action /\ view'.server = server
        /\ view'.crossed = crossed /\ view'.failed = failed
    BY <1>0, <2>6, <2>7, <2>8 DEF ProfileState
  <2>10. ASSUME ~failed, ~crossed
         PROVE  /\ ProfileShown(view')
                /\ server.blocking => ~server.following /\ ~server.closeFriend
    <3>1. /\ ~view.failed /\ ~view.crossed /\ end = "ok" /\ f = view.follow.next
          /\ view.server.blocking => ~view.follow.next
      BY <2>3, <2>4, <2>5, <2>10, ProfileHowItEnds
    <3>2. ~ProfileWaits(view)
      BY <2>2 DEF ProfileWaits
    <3>3. /\ ProfileShown(view)
          /\ view.server.blocking => ~view.server.following /\ ~view.server.closeFriend
      BY <1>0, <3>1, <3>2 DEF ProfileGood
    <3>4. view.relation.following = f
      BY <1>a, <2>2, <3>1, <3>3 DEF ProfileShown, Profile!Relation
    <3>5. ProfileShown(view')
      BY <2>6, <2>7, <2>9, <3>1, <3>3, <3>4 DEF ProfileShown, ProfileSevers
    <3> QED
      BY <2>7, <3>1, <3>3, <3>5
  <2> QED
    BY <2>9, <2>10 DEF ProfileInv, ProfileGood
<1>3. CASE Profile!FollowAnswered
  <2> DEFINE follow == [view.follow EXCEPT !.at = "idle"]
             back == [view.relation EXCEPT !.following = ~view.follow.next]
  <2>1. /\ view.follow.at \in Profile!Ends \union {"refused"}
        /\ view' = IF view.follow.at = "ok" THEN [view EXCEPT !.follow.at = "idle"]
                      ELSE [view EXCEPT !.follow.at = "idle",
                                           !.relation.following = ~view.follow.next]
    BY <1>3 DEF Profile!FollowAnswered, Profile!Arrived
  <2>2. PICK relation \in Profile!Relation : relation = IF view.follow.at = "ok"
                                                THEN view.relation ELSE back
    BY <1>a DEF Profile!Relation
  <2>3. follow \in ProfileFollow /\ follow.at = "idle"
    BY <1>a, ProfileCallEnds DEF ProfileFollow
  <2>4. view' = [view EXCEPT !.follow = follow, !.relation = relation]
    BY <1>0, <2>1, <2>2 DEF ProfileState
  <2>4a. /\ back.following = ~view.follow.next /\ back.blocking = view.relation.blocking
         /\ back.closeFriend = view.relation.closeFriend
    BY <1>a DEF Profile!Relation
  <2> HIDE DEF follow, back
  <2>5. /\ view' \in ProfileState
        /\ view'.load = view.load /\ view'.profile = view.profile
        /\ view'.relation = relation /\ view'.follow = follow
        /\ view'.action = view.action /\ view'.server = view.server
        /\ view'.crossed = view.crossed /\ view'.failed = view.failed
    BY <1>0, <2>3, <2>4 DEF ProfileState
  <2>6. ASSUME ProfileShown(view) PROVE ProfileShown(view')
    <3>1. CASE view.follow.at = "ok"
      BY <2>2, <2>3, <2>5, <2>6, <3>1 DEF ProfileShown, ProfileSevers
    <3>2. CASE view.follow.at = "refused"
      <4>1. relation = back /\ back.following = view.server.following
        BY <1>a, <2>2, <2>4a, <2>6, <3>2 DEF ProfileShown
      <4> QED
        BY <2>3, <2>4a, <2>5, <2>6, <4>1 DEF ProfileShown, ProfileSevers
    <3> QED
      BY <2>1, <2>6, <3>1, <3>2, ProfileCallEnds DEF ProfileShown
  <2>7. ~ProfileWaits(view)
    BY <2>1, ProfileCallEnds DEF ProfileWaits
  <2> QED
    BY <1>0, <2>5, <2>6, <2>7 DEF ProfileInv, ProfileGood
<1> QED
  BY <1>1, <1>2, <1>3

LEMMA ProfileActionClicked ==
  ASSUME ProfileInv, Profile!ToggleBlock \/ Profile!ToggleCloseFriend
  PROVE  ProfileInv'
<1>0. view \in ProfileState /\ ProfileGood(view)
  BY DEF ProfileInv, ProfileGood
<1>a. /\ view.relation \in Profile!Relation
      /\ view.relation.blocking \in BOOLEAN /\ view.relation.closeFriend \in BOOLEAN
  BY <1>0 DEF ProfileState, Profile!Relation
<1>1. CASE Profile!ToggleBlock
  <2> DEFINE next == ~view.relation.blocking
             action == [at |-> "sent", on |-> "blocking", next |-> next]
  <2>1. Profile!Act /\ view.action.at = "idle" /\ view' = [Profile!Clicked EXCEPT !.action = action]
    BY <1>1 DEF Profile!ToggleBlock
  <2>2. PICK c \in ProfileState : c = Profile!Clicked
    BY <2>1, ProfileActedIs
  <2>3. /\ action \in ProfileAction /\ action.at = "sent" /\ action.on = "blocking"
    BY ProfileCallEnds DEF ProfileAction
  <2> HIDE DEF action
  <2>4. /\ view' \in ProfileState
        /\ view'.load = view.load /\ view'.profile = TRUE
        /\ view'.relation = view.relation /\ view'.follow = view.follow
        /\ view'.action = action /\ view'.server = view.server
        /\ view'.crossed = view.crossed /\ view'.failed = view.failed
    BY <2>1, <2>2, <2>3, ProfileActedIs DEF ProfileState
  <2>5. ASSUME ProfileShown(view) PROVE ProfileShown(view')
    BY <2>1, <2>3, <2>4, <2>5 DEF ProfileShown, ProfileSevers
  <2>6. ~ProfileWaits(view)
    BY <2>1, ProfileActedIs DEF ProfileWaits
  <2> QED
    BY <1>0, <2>4, <2>5, <2>6 DEF ProfileInv, ProfileGood
<1>2. CASE Profile!ToggleCloseFriend
  <2> DEFINE next == ~view.relation.closeFriend
             relation == [view.relation EXCEPT !.closeFriend = next]
             action == [at |-> "sent", on |-> "closeFriend", next |-> next]
  <2>1. /\ Profile!Act /\ view.action.at = "idle" /\ ~view.relation.blocking
        /\ view' = [Profile!Clicked EXCEPT !.relation.closeFriend = next, !.action = action]
    BY <1>2 DEF Profile!ToggleCloseFriend
  <2>2. PICK c \in ProfileState : c = Profile!Clicked
    BY <2>1, ProfileActedIs
  <2>3. /\ action \in ProfileAction /\ action.at = "sent" /\ action.on = "closeFriend"
        /\ action.next = next /\ next \in BOOLEAN
    BY ProfileCallEnds DEF ProfileAction
  <2>4. /\ relation \in Profile!Relation /\ relation.closeFriend = next
        /\ relation.blocking = view.relation.blocking
        /\ relation.following = view.relation.following
    BY <1>a DEF Profile!Relation
  <2>5. view' = [c EXCEPT !.relation = relation, !.action = action]
    BY <2>1, <2>2, ProfileActedIs DEF ProfileState
  <2> HIDE DEF action, relation, next
  <2>6. /\ view' \in ProfileState
        /\ view'.load = view.load /\ view'.profile = TRUE
        /\ view'.relation = relation /\ view'.follow = view.follow
        /\ view'.action = action /\ view'.server = view.server
        /\ view'.crossed = view.crossed /\ view'.failed = view.failed
    BY <2>1, <2>2, <2>3, <2>4, <2>5, ProfileActedIs DEF ProfileState
  <2>7. ASSUME ProfileShown(view) PROVE ProfileShown(view')
    BY <1>a, <2>1, <2>3, <2>4, <2>6, <2>7 DEF ProfileShown, ProfileSevers
  <2>8. ~ProfileWaits(view)
    BY <2>1, ProfileActedIs DEF ProfileWaits
  <2> QED
    BY <1>0, <2>6, <2>7, <2>8 DEF ProfileInv, ProfileGood
<1> QED
  BY <1>1, <1>2

LEMMA ProfileActionServed ==
  ASSUME ProfileInv, Profile!ServeAction PROVE ProfileInv'
<1>0. view \in ProfileState /\ ProfileGood(view)
  BY DEF ProfileInv, ProfileGood
<1>a. /\ view.action \in ProfileAction /\ view.action.next \in BOOLEAN
      /\ view.action.on \in {"blocking", "closeFriend"}
      /\ view.relation \in Profile!Relation /\ view.server \in Profile!Relation
  BY <1>0 DEF ProfileState, ProfileAction
<1>b. /\ view.server.blocking \in BOOLEAN /\ view.server.following \in BOOLEAN
      /\ view.server.closeFriend \in BOOLEAN
      /\ view.relation.blocking \in BOOLEAN /\ view.relation.following \in BOOLEAN
      /\ view.relation.closeFriend \in BOOLEAN
  BY <1>a DEF Profile!Relation
<1> DEFINE unblocks == /\ view.action = [at |-> "sent", on |-> "blocking", next |-> FALSE]
                       /\ view.follow.at \in {"sent", "checked"}
           after == Profile!After(view.server, view.action.on, view.action.next)
<1>1. PICK end \in Profile!Ends : \E done \in Profile!Effects(end) :
        /\ view.action.at = "sent"
        /\ view' = [view EXCEPT !.action.at = end, !.failed = @ \/ end # "ok",
                         !.crossed = @ \/ unblocks, !.server = IF done THEN after ELSE @]
  BY DEF Profile!ServeAction
<1>2. PICK done \in Profile!Effects(end) :
        /\ view.action.at = "sent"
        /\ view' = [view EXCEPT !.action.at = end, !.failed = @ \/ end # "ok",
                         !.crossed = @ \/ unblocks, !.server = IF done THEN after ELSE @]
  BY <1>1
<1>3. /\ after \in Profile!Relation
      /\ view.action.on = "blocking" =>
            /\ after.blocking = view.action.next
            /\ after.following = IF view.action.next THEN FALSE ELSE view.server.following
            /\ after.closeFriend = IF view.action.next THEN FALSE ELSE view.server.closeFriend
      /\ view.action.on = "closeFriend" =>
            /\ after.blocking = view.server.blocking
            /\ after.following = view.server.following
            /\ after.closeFriend = view.action.next
  <2>1. CASE view.action.on = "blocking"
    <3>1. after = Profile!After(view.server, "blocking", view.action.next)
      BY <2>1
    <3> HIDE DEF after
    <3>2. /\ after \in Profile!Relation /\ after.blocking = view.action.next
          /\ after.following = IF view.action.next THEN FALSE ELSE view.server.following
          /\ after.closeFriend = IF view.action.next THEN FALSE
                                 ELSE view.server.closeFriend
      BY <1>a, <3>1, ProfileAfterIs
    <3> QED
      BY <2>1, <3>2
  <2>2. CASE view.action.on = "closeFriend"
    <3>1. PICK s : s = [view.server EXCEPT !.closeFriend = view.action.next]
      OBVIOUS
    <3>2. after = s
      BY <2>2, <3>1 DEF Profile!After
    <3>3. s \in Profile!Relation /\ s.closeFriend = view.action.next
          /\ s.blocking = view.server.blocking /\ s.following = view.server.following
      BY <1>a, <3>1 DEF Profile!Relation
    <3> QED
      BY <2>2, <3>2, <3>3
  <2> QED
    BY <1>a, <2>1, <2>2
<1> HIDE DEF after
<1>4. PICK server \in Profile!Relation : server = IF done THEN after ELSE view.server
  BY <1>a, <1>3
<1>5. PICK failed \in BOOLEAN : failed <=> view.failed \/ end # "ok"
  OBVIOUS
<1>6. PICK crossed \in BOOLEAN : crossed <=> view.crossed \/ unblocks
  OBVIOUS
<1> DEFINE action == [view.action EXCEPT !.at = end]
<1>7. /\ action \in ProfileAction /\ action.at = end /\ action.on = view.action.on
      /\ action.next = view.action.next
  BY <1>a, ProfileCallEnds DEF ProfileAction
<1>8. view' = [view EXCEPT !.action = action, !.failed = failed, !.crossed = crossed,
                                 !.server = server]
  BY <1>0, <1>2, <1>4, <1>5, <1>6 DEF ProfileState
<1> HIDE DEF action
<1>9. /\ view' \in ProfileState
      /\ view'.load = view.load /\ view'.profile = view.profile
      /\ view'.relation = view.relation /\ view'.follow = view.follow
      /\ view'.action = action /\ view'.server = server
      /\ view'.crossed = crossed /\ view'.failed = failed
  BY <1>0, <1>4, <1>7, <1>8 DEF ProfileState
<1>10. ASSUME ~failed, ~crossed
       PROVE  /\ ProfileShown(view')
              /\ server.blocking => ~server.following /\ ~server.closeFriend
  <2>1. ~view.failed /\ ~view.crossed /\ end = "ok" /\ server = after /\ ~unblocks
    BY <1>4, <1>5, <1>6, <1>10, ProfileHowItEnds
  <2>2. ~ProfileWaits(view)
    BY <1>2 DEF ProfileWaits
  <2>3. /\ ProfileShown(view)
        /\ view.server.blocking => ~view.server.following /\ ~view.server.closeFriend
    BY <1>0, <2>1, <2>2 DEF ProfileGood
  <2>4. CASE view.action.on = "closeFriend"
    <3>1. /\ server.blocking = view.server.blocking
          /\ server.following = view.server.following
          /\ server.closeFriend = view.action.next
      BY <1>3, <2>1, <2>4
    <3>2. /\ view.relation.closeFriend = view.action.next
          /\ ~view.relation.blocking /\ ~view.server.blocking
      BY <1>2, <2>3, <2>4 DEF ProfileShown
    <3>3. ProfileShown(view')
      BY <1>2, <1>7, <1>9, <2>1, <2>3, <2>4, <3>1, <3>2 DEF ProfileShown, ProfileSevers
    <3> QED
      BY <3>1, <3>2, <3>3
  <2>5. CASE view.action.on = "blocking" /\ view.action.next = TRUE
    <3>1. server.blocking = TRUE /\ server.following = FALSE /\ server.closeFriend = FALSE
      BY <1>3, <2>1, <2>5
    <3>2. ProfileShown(view')
      BY <1>b, <1>2, <1>7, <1>9, <2>1, <2>3, <2>5, <3>1 DEF ProfileShown, ProfileSevers
    <3> QED
      BY <3>1, <3>2
  <2>6. CASE view.action.on = "blocking" /\ view.action.next = FALSE
    <3>1. /\ server.blocking = FALSE /\ server.following = view.server.following
          /\ server.closeFriend = view.server.closeFriend
      BY <1>3, <2>1, <2>6
    <3>2. view.action = [at |-> "sent", on |-> "blocking", next |-> FALSE]
      BY <1>a, <1>2, <2>6 DEF ProfileAction
    <3>3. view.follow.at \notin {"sent", "checked"}
      BY <2>1, <3>2
    <3>4. ProfileShown(view')
      BY <1>2, <1>7, <1>9, <2>1, <2>3, <2>6, <3>1, <3>3 DEF ProfileShown, ProfileSevers
    <3> QED
      BY <3>1, <3>4
  <2> QED
    BY <1>a, <2>4, <2>5, <2>6
<1> QED
  BY <1>9, <1>10 DEF ProfileInv, ProfileGood

LEMMA ProfileActionOver ==
  ASSUME ProfileInv, Profile!ActionAnswered PROVE ProfileInv'
<1>0. view \in ProfileState /\ ProfileGood(view)
  BY DEF ProfileInv, ProfileGood
<1>a. /\ view.action \in ProfileAction /\ view.action.next \in BOOLEAN
      /\ view.action.on \in {"blocking", "closeFriend"}
      /\ view.relation \in Profile!Relation /\ view.server \in Profile!Relation
  BY <1>0 DEF ProfileState, ProfileAction
<1>b. /\ view.server.blocking \in BOOLEAN /\ view.server.following \in BOOLEAN
      /\ view.server.closeFriend \in BOOLEAN
      /\ view.relation.blocking \in BOOLEAN /\ view.relation.following \in BOOLEAN
      /\ view.relation.closeFriend \in BOOLEAN
  BY <1>a DEF Profile!Relation
<1> DEFINE a == view.action
           action == [view.action EXCEPT !.at = "idle"]
           p == [view EXCEPT !.action.at = "idle"]
           after == Profile!After(view.relation, "blocking", a.next)
           back == [view.relation EXCEPT !.closeFriend = ~a.next]
<1>1. /\ a.at \in Profile!Ends
      /\ view' = CASE a.on = "blocking" /\ a.at = "ok" ->
                           [p EXCEPT !.relation = Profile!After(@, "blocking", a.next)]
                      [] a.on = "closeFriend" /\ a.at # "ok" ->
                           [p EXCEPT !.relation.closeFriend = ~a.next]
                      [] OTHER -> p
  BY DEF Profile!ActionAnswered, Profile!Arrived
<1>2. /\ action \in ProfileAction /\ action.at = "idle"
  BY <1>a, ProfileCallEnds DEF ProfileAction
<1>3. p = [view EXCEPT !.action = action]
  BY <1>0 DEF ProfileState
<1>4. /\ after \in Profile!Relation /\ after.blocking = a.next
      /\ after.following = IF a.next THEN FALSE ELSE view.relation.following
      /\ after.closeFriend = IF a.next THEN FALSE ELSE view.relation.closeFriend
  BY <1>a, ProfileAfterIs
<1>5. back \in Profile!Relation
  BY <1>a DEF Profile!Relation
<1>6. a.at # "idle" /\ a.at # "sent" /\ ~ProfileWaits(view)
  BY <1>1, ProfileCallEnds DEF ProfileWaits
<1> HIDE DEF action, p, after, back
<1>7. p \in ProfileState /\ p.relation = view.relation
  BY <1>0, <1>2, <1>3 DEF ProfileState
<1>8. PICK relation \in Profile!Relation :
        /\ view' = [view EXCEPT !.action = action, !.relation = relation]
        /\ relation = IF a.on = "blocking" /\ a.at = "ok" THEN after
                      ELSE IF a.on = "closeFriend" /\ a.at # "ok" THEN back
                      ELSE view.relation
  <2>1. CASE a.on = "blocking" /\ a.at = "ok"
    <3>1. view' = [p EXCEPT !.relation = after]
      BY <1>1, <1>7, <2>1 DEF after
    <3>2. view' = [view EXCEPT !.action = action, !.relation = after]
      BY <1>0, <1>3, <3>1 DEF ProfileState
    <3> QED
      BY <1>4, <2>1, <3>2
  <2>2. CASE a.on = "closeFriend" /\ a.at # "ok"
    <3>1. view' = [p EXCEPT !.relation.closeFriend = ~a.next]
      BY <1>1, <2>2
    <3>2. view' = [view EXCEPT !.action = action, !.relation = back]
      BY <1>0, <1>3, <3>1 DEF ProfileState, back
    <3> QED
      BY <1>5, <2>2, <3>2
  <2>3. CASE ~(a.on = "blocking" /\ a.at = "ok") /\ ~(a.on = "closeFriend" /\ a.at # "ok")
    <3>1. view' = p
      BY <1>1, <2>3
    <3>2. view' = [view EXCEPT !.action = action, !.relation = view.relation]
      BY <1>0, <1>3, <3>1 DEF ProfileState
    <3> QED
      BY <1>a, <2>3, <3>2
  <2> QED
    BY <2>1, <2>2, <2>3
<1>9. /\ view' \in ProfileState
      /\ view'.load = view.load /\ view'.profile = view.profile
      /\ view'.relation = relation /\ view'.follow = view.follow
      /\ view'.action = action /\ view'.server = view.server
      /\ view'.crossed = view.crossed /\ view'.failed = view.failed
  BY <1>0, <1>2, <1>8 DEF ProfileState
<1>10. ASSUME ProfileShown(view),
              view.server.blocking => ~view.server.following /\ ~view.server.closeFriend
       PROVE  ProfileShown(view')
  <2>1. a.at = "ok"
    BY <1>6, <1>10 DEF ProfileShown
  <2>2. CASE a.on = "closeFriend"
    <3>1. relation = view.relation
      BY <1>8, <2>1, <2>2
    <3> QED
      BY <1>2, <1>9, <1>10, <2>1, <2>2, <3>1 DEF ProfileShown, ProfileSevers
  <2>3. CASE a.on = "blocking" /\ a.next = TRUE
    <3>1. relation.blocking = TRUE /\ relation.following = FALSE /\ relation.closeFriend = FALSE
      BY <1>4, <1>8, <2>1, <2>3
    <3>2. view.server.blocking = TRUE
      BY <1>10, <2>1, <2>3 DEF ProfileShown
    <3>3. view.server.following = FALSE /\ view.server.closeFriend = FALSE
      BY <1>b, <1>10, <3>2
    <3> QED
      BY <1>2, <1>9, <1>10, <3>1, <3>2, <3>3 DEF ProfileShown, ProfileSevers
  <2>4. CASE a.on = "blocking" /\ a.next = FALSE
    <3>1. /\ relation.blocking = FALSE /\ relation.following = view.relation.following
          /\ relation.closeFriend = view.relation.closeFriend
      BY <1>4, <1>8, <2>1, <2>4
    <3>2. view.server.blocking = FALSE
      BY <1>10, <2>1, <2>4 DEF ProfileShown
    <3> QED
      BY <1>2, <1>9, <1>10, <2>1, <2>4, <3>1, <3>2 DEF ProfileShown, ProfileSevers
  <2> QED
    BY <1>a, <2>2, <2>3, <2>4
<1> QED
  BY <1>0, <1>6, <1>9, <1>10 DEF ProfileInv, ProfileGood

LEMMA ProfileNextInv == ProfileInv /\ [Profile!Next]_view => ProfileInv'
<1>1. ProfileInv /\ UNCHANGED view => ProfileInv'
  BY DEF ProfileInv
<1> QED
  BY <1>1, ProfileTabStep, ProfileLoadStep, ProfileFollowClicked, ProfileFollowStep,
     ProfileActionClicked, ProfileActionServed, ProfileActionOver
  DEF Profile!Next, Profile!Progress

LEMMA ProfileInvTyped == ProfileInv => Profile!TypeOK
  BY DEF ProfileInv, ProfileGood, ProfileState, ProfileFollow, ProfileAction, Profile!TypeOK

LEMMA ProfileInvAgrees == ProfileInv => Profile!RelationshipAgrees
<1> SUFFICES ASSUME ProfileInv, Profile!Quiet, ~view.failed, ~view.crossed
             PROVE  view.relation = view.server
  BY DEF Profile!RelationshipAgrees
<1>1. /\ view.load.at = "idle" /\ view.follow.at = "idle" /\ view.action.at = "idle"
  BY DEF Profile!Quiet
<1>2. ProfileShown(view)
  BY <1>1 DEF ProfileInv, ProfileGood, ProfileWaits
<1>3. /\ view.relation.blocking = view.server.blocking
      /\ view.relation.following = view.server.following
      /\ view.relation.closeFriend = view.server.closeFriend
  BY <1>1, <1>2 DEF ProfileShown, ProfileSevers
<1>4. view.relation \in Profile!Relation /\ view.server \in Profile!Relation
  BY DEF ProfileInv, ProfileGood, ProfileState
<1> QED
  BY <1>3, <1>4 DEF Profile!Relation

-----------------------------------------------------------------------------
(* use-search.ts: of the calls on their way one at most is for the query     *)
(* that is asked now, and there is none when nothing is being loaded.        *)

LEMMA SearchBounds == Faults \subseteq {"refused", "lost"} /\ MaxActs["search"] \in Nat
  BY Bounds DEF Screens

LEMMA SearchInvTyped == SearchInv => Search!TypeOK
  BY DEF SearchInv, Search!TypeOK, SearchState, SearchCall

LEMMA SearchInitInv == Search!Init => SearchInv
<1> SUFFICES ASSUME Search!Init PROVE SearchInv
  OBVIOUS
<1>1. view \in SearchState
  BY SearchBounds DEF Search!Init, SearchState, Search!Hooks, Search!Answers
<1>2. /\ view.calls = {} /\ view.enabled = FALSE
      /\ view.loading = (view.hook # "search")
  BY DEF Search!Init
<1> QED
  BY <1>1, <1>2 DEF SearchInv, SearchLiveCalls

\* The calls that the cleanup of the effect leaves answer to nobody.
LEMMA SearchDroppedAre ==
  ASSUME view \in SearchState
  PROVE  Search!Dropped \in SUBSET SearchCall /\ \A call \in Search!Dropped : ~call.live
<1> SUFFICES ASSUME NEW call \in Search!Dropped PROVE call \in SearchCall /\ ~call.live
  OBVIOUS
<1>1. PICK c \in view.calls : call = [c EXCEPT !.live = FALSE]
  BY DEF Search!Dropped
<1>2. c \in SearchCall
  BY DEF SearchState
<1> QED
  BY <1>1, <1>2 DEF SearchCall

\* A query that is asked has one call, the new one.
LEMMA SearchEffectInv ==
  ASSUME NEW s \in SearchState, s.calls = Search!Dropped, view \in SearchState,
         view' = Search!Effect(s),
         s.hook = "search" \/ (s.enabled /\ s.loading)
  PROVE  SearchInv'
<1>0. s.calls \in SUBSET SearchCall /\ \A call \in s.calls : ~call.live
  BY SearchDroppedAre
<1>1. CASE s.enabled /\ s.query # Search!NoQuery
  <2> DEFINE new == [n |-> s.acts + 1, q |-> s.query, live |-> TRUE,
                     at |-> IF s.hook = "search" THEN "timer" ELSE "sent"]
  <2>1. s.acts + 1 \in 0..MaxActs["search"] + 1
    BY SearchBounds DEF SearchState
  <2>2. new \in SearchCall
    BY <1>1, <2>1 DEF SearchCall, SearchState
  <2>3. new.live /\ new.q = s.query
    OBVIOUS
  <2> DEFINE calls == s.calls \union {new}
  <2>4. view' = [s EXCEPT !.loading = TRUE, !.error = FALSE, !.failed = FALSE,
                     !.calls = calls]
    BY <1>1 DEF Search!Effect
  <2>5. calls \in SUBSET SearchCall
    BY <1>0, <2>2
  <2>6. \A call \in calls : call = new \/ ~call.live
    BY <1>0
  <2> HIDE DEF new, calls
  <2>7. view' \in SearchState
    BY <2>4, <2>5 DEF SearchState
  <2>8. /\ view'.enabled = s.enabled /\ view'.loading = TRUE /\ view'.query = s.query
        /\ view'.calls = calls
    BY <2>4 DEF SearchState
  <2>9. SearchLiveCalls'
    BY <1>1, <2>3, <2>6, <2>8 DEF SearchLiveCalls
  <2> QED
    BY <2>7, <2>8, <2>9 DEF SearchInv
<1>2. CASE ~(s.enabled /\ s.query # Search!NoQuery) /\ s.hook = "search"
  <2>1. view' = [s EXCEPT !.loading = FALSE, !.shown = "nothing", !.failed = FALSE]
    BY <1>2 DEF Search!Effect
  <2>2. view' \in SearchState
    BY <2>1 DEF SearchState, Search!Answers
  <2>3. /\ view'.calls = s.calls /\ view'.shown = "nothing"
        /\ view'.enabled = s.enabled /\ view'.query = s.query
        /\ view'.hook = s.hook
    BY <2>1 DEF SearchState
  <2>4. SearchLiveCalls'
    BY <1>0, <2>3 DEF SearchLiveCalls
  <2> QED
    BY <1>2, <2>2, <2>3, <2>4 DEF SearchInv
<1>3. CASE ~(s.enabled /\ s.query # Search!NoQuery) /\ s.hook # "search"
  <2>1. view' = s
    BY <1>3 DEF Search!Effect
  <2>2. SearchLiveCalls'
    BY <1>0, <2>1 DEF SearchLiveCalls
  <2> QED
    BY <1>3, <2>1, <2>2 DEF SearchInv
<1> QED
  BY <1>1, <1>2, <1>3

\* A call goes on, or is taken away.
LEMMA SearchReplaceInv ==
  ASSUME SearchInv, NEW call \in view.calls,
         NEW at \in {"timer", "sent", "hydrating"} \union Search!Ends,
         view' = Search!Replace(call, at)
  PROVE  SearchInv'
<1> DEFINE new == [call EXCEPT !.at = at]
<1>0. view \in SearchState /\ call \in SearchCall
  BY DEF SearchInv, SearchState
<1>1. new \in SearchCall /\ new.live = call.live /\ new.q = call.q
  BY <1>0 DEF SearchCall
<1>2. view' = [view EXCEPT !.calls = (@ \ {call}) \union {new}]
  BY DEF Search!Replace
<1> HIDE DEF new
<1>3. view' \in SearchState
  BY <1>0, <1>1, <1>2 DEF SearchState
<1>4. /\ view'.calls = (view.calls \ {call}) \union {new}
      /\ view'.enabled = view.enabled /\ view'.loading = view.loading
      /\ view'.query = view.query /\ view'.failed = view.failed
      /\ view'.shown = view.shown /\ view'.hook = view.hook
  BY <1>0, <1>2 DEF SearchState
<1>5. SearchLiveCalls'
  BY <1>1, <1>4 DEF SearchInv, SearchLiveCalls
<1> QED
  BY <1>3, <1>4, <1>5 DEF SearchInv

LEMMA SearchAnsweredInv == SearchInv /\ Search!Answered => SearchInv'
<1> SUFFICES ASSUME SearchInv, NEW call \in view.calls, call.at \in Search!Ends,
                    view' = IF call.live THEN Search!Show(call)
                              ELSE [view EXCEPT !.calls = @ \ {call}]
             PROVE  SearchInv'
  BY DEF Search!Answered
<1>0. view \in SearchState /\ call \in SearchCall
  BY DEF SearchInv, SearchState
<1>1. CASE ~call.live
  <2>1. view' = [view EXCEPT !.calls = @ \ {call}]
    BY <1>1
  <2>2. view' \in SearchState
    BY <1>0, <2>1 DEF SearchState
  <2>3. /\ view'.calls = view.calls \ {call}
        /\ view'.enabled = view.enabled /\ view'.loading = view.loading
        /\ view'.query = view.query /\ view'.failed = view.failed
        /\ view'.shown = view.shown /\ view'.hook = view.hook
    BY <1>0, <2>1 DEF SearchState
  <2> QED
    BY <2>2, <2>3 DEF SearchInv, SearchLiveCalls
<1>2. CASE call.live
  <2>1. view' = Search!Show(call)
    BY <1>2
  <2>2. call.q \in Queries /\ call.q \in Search!Answers /\ "nothing" \in Search!Answers
    BY <1>0 DEF SearchCall, Search!Answers
  <2>3. view' \in SearchState
    <3> DEFINE shown == IF call.at = "ok" THEN call.q
                        ELSE IF view.hook = "search" THEN "nothing" ELSE view.shown
               failed == IF call.at = "ok" THEN view.failed ELSE TRUE
               error == IF call.at = "ok" THEN view.error ELSE view.hook = "hits"
               calls == view.calls \ {call}
    <3>1. view' = [view EXCEPT !.calls = calls, !.loading = FALSE, !.shown = shown,
                                   !.failed = failed, !.error = error]
      BY <1>0, <2>1 DEF Search!Show, SearchState
    <3>2. shown \in Search!Answers /\ failed \in BOOLEAN /\ error \in BOOLEAN
          /\ calls \in SUBSET SearchCall
      BY <1>0, <2>2 DEF SearchState
    <3> HIDE DEF shown, failed, error, calls
    <3> QED
      BY <1>0, <3>1, <3>2 DEF SearchState
  <2>4. /\ view'.calls = view.calls \ {call} /\ view'.hook = view.hook
        /\ view'.enabled = view.enabled /\ view'.query = view.query
        /\ view'.failed \/ view'.shown = call.q
    BY <1>0, <2>1 DEF SearchState, Search!Show
  <2>5. call.q = view.query /\ view.query # Search!NoQuery
    BY <1>2 DEF SearchInv, SearchLiveCalls
  <2>6. \A d \in view'.calls : ~d.live
    BY <1>2, <2>4 DEF SearchInv, SearchLiveCalls
  <2> QED
    BY <2>3, <2>4, <2>5, <2>6 DEF SearchInv, SearchLiveCalls
<1> QED
  BY <1>1, <1>2

LEMMA SearchNextInv == SearchInv /\ [Search!Next]_view => SearchInv'
<1> SUFFICES ASSUME SearchInv, [Search!Next]_view PROVE SearchInv'
  OBVIOUS
<1>0. view \in SearchState
  BY DEF SearchInv
<1>1. CASE Search!SetQuery
  <2>1. PICK q \in Queries \union {Search!NoQuery} :
          /\ view.hook = "search" /\ view.acts < MaxActs["search"]
          /\ view' = Search!Effect([view EXCEPT !.acts = @ + 1, !.query = q, !.calls = Search!Dropped])
    BY <1>1 DEF Search!SetQuery
  <2> DEFINE s == [view EXCEPT !.acts = @ + 1, !.query = q, !.calls = Search!Dropped]
  <2>2. view.acts + 1 \in 0..MaxActs["search"]
    BY <1>0, <2>1, SearchBounds DEF SearchState
  <2>3. s \in SearchState /\ s.calls = Search!Dropped /\ s.hook = "search"
    BY <1>0, <2>1, <2>2, SearchDroppedAre DEF SearchState
  <2>4. view' = Search!Effect(s)
    BY <2>1
  <2> HIDE DEF s
  <2> QED
    BY <1>0, <2>3, <2>4, SearchEffectInv
<1>2. CASE Search!Ready
  <2> DEFINE s == [view EXCEPT !.enabled = TRUE, !.calls = Search!Dropped]
  <2>1. s \in SearchState /\ s.calls = Search!Dropped /\ s.hook = view.hook
        /\ s.query = view.query /\ s.loading = view.loading
    BY <1>0, SearchDroppedAre DEF SearchState
  <2>2. view' = Search!Effect(s)
    BY <1>2 DEF Search!Ready
  <2>3. ~view.enabled /\ s.enabled
    BY <1>0, <1>2 DEF Search!Ready, SearchState
  <2>4. s.hook = "search" \/ s.loading
    BY <2>1, <2>3 DEF SearchInv
  <2> HIDE DEF s
  <2> QED
    BY <1>0, <2>1, <2>2, <2>3, <2>4, SearchEffectInv
<1>3. CASE Search!Timer
  BY <1>3, SearchReplaceInv DEF Search!Timer
<1>4. CASE Search!Serve
  BY <1>4, SearchReplaceInv DEF Search!Serve
<1>5. CASE Search!Hydrate
  BY <1>5, SearchReplaceInv DEF Search!Hydrate
<1>6. CASE Search!Answered
  BY <1>6, SearchAnsweredInv
<1>7. CASE UNCHANGED view
  BY <1>7, <1>0 DEF SearchInv, SearchLiveCalls
<1> QED
  BY <1>1, <1>2, <1>3, <1>4, <1>5, <1>6, <1>7 DEF Search!Next, Search!Progress

LEMMA SearchInvMatches == SearchInv => Search!ResultsMatchQuery
  BY DEF SearchInv, SearchLiveCalls, Search!ResultsMatchQuery

-----------------------------------------------------------------------------
(* story-viewer.tsx: the picture on screen, and the one on its way, are      *)
(* those of the story the viewer is at.                                      *)

LEMMA StoriesGiven == Stories!FeedAssumption
  BY ComponentAssumption

LEMMA StoriesBounds == Faults \subseteq {"refused", "lost"} /\ MaxActs["stories"] \in Nat
  BY Bounds DEF Screens

LEMMA StoriesFeedIs ==
  ASSUME NEW feed \in StoriesFeeds
  PROVE  feed \in Seq(StoriesGroups)
<1>1. <<>> \in Seq(StoriesGroups)
  OBVIOUS
<1>2. Feeds \subseteq Seq(StoriesGroups)
  BY StoriesGiven DEF Stories!FeedAssumption, StoriesGroups
<1> QED
  BY <1>1, <1>2 DEF StoriesFeeds

\* Where a viewer stands that has a story to show.
LEMMA StoriesStoryIs ==
  ASSUME NEW s \in StoriesState
  PROVE  /\ Stories!Story(s) \in StoriesShown
         /\ s.open /\ s.groupIdx <= Len(s.groups)
              /\ s.storyIdx <= s.groups[s.groupIdx].stories => Stories!Story(s) # Stories!NoStory
         /\ ~s.open => Stories!Story(s) = Stories!NoStory
         /\ Stories!Story(s) # Stories!NoStory => Stories!Story(s)[1] \in Stories!Authors
<1>1. s.groups \in Seq(StoriesGroups)
  BY StoriesFeedIs DEF StoriesState
<1>2. CASE s.open /\ s.groupIdx <= Len(s.groups)
              /\ s.storyIdx <= s.groups[s.groupIdx].stories
  <2>1. s.groups[s.groupIdx] \in StoriesGroups
    BY <1>1, <1>2 DEF StoriesState
  <2>2. s.groups[s.groupIdx].author \in Stories!Authors /\ s.storyIdx \in Nat \ {0}
    BY <2>1 DEF StoriesGroups, StoriesState
  <2>3. Stories!Story(s) = <<s.groups[s.groupIdx].author, s.storyIdx>>
    BY <1>2 DEF Stories!Story
  <2> QED
    BY <1>2, <2>2, <2>3 DEF StoriesShown, Stories!NoStory
<1>3. CASE ~(s.open /\ s.groupIdx <= Len(s.groups)
              /\ s.storyIdx <= s.groups[s.groupIdx].stories)
  <2>1. Stories!Story(s) = Stories!NoStory
    BY <1>3 DEF Stories!Story
  <2> QED
    BY <1>3, <2>1 DEF StoriesShown
<1> QED
  BY <1>2, <1>3

\* A viewer whose picture is fetched stands where it stood.
LEMMA StoriesFetchedIs ==
  ASSUME NEW s \in StoriesState
  PROVE  LET f == Stories!View(Stories!FetchImage(s)) IN
         /\ f \in StoriesState
         /\ f.image = Stories!NoStory /\ f.media.of = Stories!Story(s)
         /\ f.open = s.open /\ f.reloaded = s.reloaded /\ f.groups = s.groups
         /\ f.groupIdx = s.groupIdx /\ f.storyIdx = s.storyIdx
<1> DEFINE call == [at |-> IF Stories!Story(s) = Stories!NoStory THEN "idle" ELSE "sent", of |-> Stories!Story(s)]
           f == [s EXCEPT !.image = Stories!NoStory, !.failed = FALSE, !.media = call]
<1>1. call \in [at : Stories!Calls, of : StoriesShown] /\ call.of = Stories!Story(s)
  BY StoriesStoryIs DEF Stories!Calls
<1>2. Stories!FetchImage(s) = f
  BY DEF Stories!FetchImage
<1>3. Stories!NoStory \in StoriesShown
  BY DEF StoriesShown
<1> HIDE DEF call
<1>4. /\ f \in StoriesState /\ f.image = Stories!NoStory /\ f.media.of = Stories!Story(s)
      /\ f.open = s.open /\ f.reloaded = s.reloaded /\ f.groups = s.groups
      /\ f.groupIdx = s.groupIdx /\ f.storyIdx = s.storyIdx
  BY <1>1, <1>3 DEF StoriesState
<1> HIDE DEF f
<1>5. CASE Stories!View(f) = f
  BY <1>2, <1>4, <1>5
<1>6. CASE Stories!View(f) = [f EXCEPT !.hasUnseen = @ \ {Stories!Story(f)[1]}]
  <2> DEFINE unseen == f.hasUnseen \ {Stories!Story(f)[1]}
  <2>1. unseen \in SUBSET Stories!Authors
    BY <1>4 DEF StoriesState
  <2>2. Stories!View(f) = [f EXCEPT !.hasUnseen = unseen]
    BY <1>6
  <2> HIDE DEF unseen
  <2> QED
    BY <1>2, <1>4, <2>1, <2>2 DEF StoriesState
<1> QED
  BY <1>5, <1>6 DEF Stories!View

LEMMA StoriesSameStory ==
  ASSUME NEW s, NEW t, t.open = s.open, t.groups = s.groups,
         t.groupIdx = s.groupIdx, t.storyIdx = s.storyIdx
  PROVE  Stories!Story(t) = Stories!Story(s)
  BY DEF Stories!Story

\* What is shown next has its own picture.
LEMMA StoriesShowInv ==
  ASSUME StoriesInv, NEW s \in StoriesState, view' = Stories!Show(s),
         s.image = view.image, s.media = view.media,
         s.open /\ Stories!Story(s) = Stories!NoStory => s.reloaded
  PROVE  StoriesInv'
<1>1. CASE Stories!Story(s) = Stories!Story(view)
  <2>1. view' = s
    BY <1>1 DEF Stories!Show
  <2> QED
    BY <1>1, <2>1 DEF StoriesInv
<1>2. CASE Stories!Story(s) # Stories!Story(view)
  <2>1. view' = Stories!View(Stories!FetchImage(s))
    BY <1>2 DEF Stories!Show
  <2>2. /\ view' \in StoriesState
        /\ view'.image = Stories!NoStory /\ view'.media.of = Stories!Story(s)
        /\ view'.open = s.open /\ view'.reloaded = s.reloaded
        /\ view'.groups = s.groups
        /\ view'.groupIdx = s.groupIdx /\ view'.storyIdx = s.storyIdx
    BY <2>1, StoriesFetchedIs
  <2>3. Stories!Story(view') = Stories!Story(s)
    BY <2>2, StoriesSameStory
  <2> QED
    BY <2>2, <2>3 DEF StoriesInv
<1> QED
  BY <1>1, <1>2

LEMMA StoriesInitInv ==
  ASSUME Stories!Init PROVE StoriesInv
<1>1. view \in StoriesState
  BY StoriesBounds DEF Stories!Init, StoriesState, StoriesFeeds, StoriesShown, Stories!Calls
<1> QED
  BY <1>1 DEF Stories!Init, StoriesInv, Stories!Story

\* The feed is asked for, and comes.
LEMMA StoriesLoadInv ==
  ASSUME StoriesInv, Stories!Posted \/ Stories!ServeLoad \/ Stories!Loaded PROVE StoriesInv'
<1>0. view \in StoriesState
  BY DEF StoriesInv
<1>1. ASSUME Stories!Posted \/ Stories!ServeLoad PROVE StoriesInv'
  <2>1. PICK load \in [at : Stories!Calls, feed : StoriesFeeds], acts \in 0..MaxActs["stories"] :
          view' = [view EXCEPT !.load = load, !.acts = acts]
    <3>1. CASE Stories!Posted
      <4> DEFINE load == [view.load EXCEPT !.at = "sent"]
      <4>1. view.acts + 1 \in 0..MaxActs["stories"]
        BY <1>0, <3>1, StoriesBounds DEF Stories!Posted, Stories!Act, StoriesState
      <4>2. load \in [at : Stories!Calls, feed : StoriesFeeds]
        BY <1>0 DEF StoriesState, Stories!Calls
      <4>3. view' = [view EXCEPT !.load = load, !.acts = view.acts + 1]
        BY <1>0, <3>1 DEF Stories!Posted, Stories!Acted, StoriesState
      <4> HIDE DEF load
      <4> QED
        BY <4>1, <4>2, <4>3
    <3>2. CASE Stories!ServeLoad
      <4>1. PICK end \in Stories!Ends, feed \in Feeds :
              view' = [view EXCEPT
                !.load = [at |-> end, feed |-> IF end = "ok" THEN feed ELSE <<>>]]
        BY <3>2 DEF Stories!ServeLoad
      <4> DEFINE load == [at |-> end, feed |-> IF end = "ok" THEN feed ELSE <<>>]
      <4>2. load \in [at : Stories!Calls, feed : StoriesFeeds]
        BY DEF Stories!Calls, StoriesFeeds
      <4>3. view' = [view EXCEPT !.load = load, !.acts = view.acts]
        BY <1>0, <4>1 DEF StoriesState
      <4> HIDE DEF load
      <4> QED
        BY <1>0, <4>2, <4>3 DEF StoriesState
    <3> QED
      BY <1>1, <3>1, <3>2
  <2>2. view' \in StoriesState
    BY <1>0, <2>1 DEF StoriesState
  <2>3. /\ view'.image = view.image /\ view'.media = view.media
        /\ view'.open = view.open /\ view'.reloaded = view.reloaded
        /\ view'.groups = view.groups
        /\ view'.groupIdx = view.groupIdx /\ view'.storyIdx = view.storyIdx
    BY <1>0, <2>1 DEF StoriesState
  <2>4. Stories!Story(view') = Stories!Story(view)
    BY <2>3, StoriesSameStory
  <2> QED
    BY <2>2, <2>3, <2>4 DEF StoriesInv
<1>2. CASE Stories!Loaded
  <2>1. PICK unseen \in SUBSET Stories!Authors :
          view' = Stories!View(Stories!FetchImage([view EXCEPT !.load = [at |-> "idle", feed |-> <<>>],
                          !.groups = view.load.feed, !.hasUnseen = unseen,
                          !.loading = FALSE, !.reloaded = @ \/ view.open]))
    BY <1>2 DEF Stories!Loaded
  <2> DEFINE s == [view EXCEPT !.load = [at |-> "idle", feed |-> <<>>],
                          !.groups = view.load.feed, !.hasUnseen = unseen,
                          !.loading = FALSE, !.reloaded = @ \/ view.open]
  <2>2. [at |-> "idle", feed |-> <<>>] \in [at : Stories!Calls, feed : StoriesFeeds]
    BY DEF Stories!Calls, StoriesFeeds
  <2>3. view.load.feed \in StoriesFeeds
    BY <1>0 DEF StoriesState
  <2>4. s \in StoriesState
    BY <1>0, <2>2, <2>3 DEF StoriesState
  <2>5. s.open = view.open /\ s.reloaded = (view.reloaded \/ view.open)
    BY <1>0 DEF StoriesState
  <2>6. view' = Stories!View(Stories!FetchImage(s))
    BY <2>1
  <2> HIDE DEF s
  <2>7. /\ view' \in StoriesState
        /\ view'.image = Stories!NoStory /\ view'.media.of = Stories!Story(s)
        /\ view'.open = s.open /\ view'.reloaded = s.reloaded
        /\ view'.groups = s.groups
        /\ view'.groupIdx = s.groupIdx /\ view'.storyIdx = s.storyIdx
    BY <2>4, <2>6, StoriesFetchedIs
  <2>8. Stories!Story(view') = Stories!Story(s)
    BY <2>7, StoriesSameStory
  <2> QED
    BY <2>5, <2>7, <2>8 DEF StoriesInv
<1> QED
  BY <1>1, <1>2

\* A picture comes, or does not.
LEMMA StoriesMediaInv ==
  ASSUME StoriesInv, Stories!ServeMedia \/ Stories!MediaLoaded PROVE StoriesInv'
<1>0. view \in StoriesState
  BY DEF StoriesInv
<1>1. CASE Stories!ServeMedia
  <2>1. PICK end \in Stories!Ends : view' = [view EXCEPT !.media.at = end]
    BY <1>1 DEF Stories!ServeMedia
  <2>2. end \in Stories!Calls /\ view.media.at = "sent"
    BY <1>1 DEF Stories!Calls, Stories!ServeMedia
  <2>3. view' \in StoriesState
    BY <1>0, <2>1, <2>2 DEF StoriesState
  <2>4. /\ view'.image = view.image /\ view'.media.of = view.media.of
        /\ view'.open = view.open /\ view'.reloaded = view.reloaded
        /\ view'.groups = view.groups
        /\ view'.groupIdx = view.groupIdx /\ view'.storyIdx = view.storyIdx
    BY <1>0, <2>1 DEF StoriesState
  <2>5. Stories!Story(view') = Stories!Story(view)
    BY <2>4, StoriesSameStory
  <2> QED
    BY <2>2, <2>3, <2>4, <2>5 DEF StoriesInv
<1>2. CASE Stories!MediaLoaded
  <2> DEFINE image == IF view.media.at = "ok" THEN view.media.of ELSE view.image
             media == [at |-> "idle", of |-> Stories!NoStory]
             failed == view.media.at # "ok"
  <2>1. view' = [view EXCEPT !.media = media, !.image = image, !.failed = failed]
    BY <1>0, <1>2 DEF Stories!MediaLoaded, StoriesState
  <2>2. image \in StoriesShown /\ image \in {Stories!NoStory, Stories!Story(view)}
    BY <1>0 DEF StoriesInv, StoriesState
  <2>3. media \in [at : Stories!Calls, of : StoriesShown] /\ media.at = "idle"
    BY DEF Stories!Calls, StoriesShown
  <2>a. failed \in BOOLEAN
    OBVIOUS
  <2> HIDE DEF image, media, failed
  <2>4. view' \in StoriesState
    BY <1>0, <2>1, <2>2, <2>3, <2>a DEF StoriesState
  <2>5. /\ view'.image = image /\ view'.media = media
        /\ view'.open = view.open /\ view'.reloaded = view.reloaded
        /\ view'.groups = view.groups
        /\ view'.groupIdx = view.groupIdx /\ view'.storyIdx = view.storyIdx
    BY <1>0, <2>1 DEF StoriesState
  <2>6. Stories!Story(view') = Stories!Story(view)
    BY <2>5, StoriesSameStory
  <2> QED
    BY <2>2, <2>3, <2>4, <2>5, <2>6 DEF StoriesInv
<1> QED
  BY <1>1, <1>2

LEMMA StoriesCloseInv ==
  ASSUME StoriesInv, NEW s \in StoriesState, view' = Stories!Close(s),
         s.image = view.image, s.media = view.media
  PROVE  StoriesInv'
<1> DEFINE t == [s EXCEPT !.open = FALSE]
<1>1. /\ t \in StoriesState /\ t.image = s.image /\ t.media = s.media /\ t.open = FALSE
  BY DEF StoriesState
<1>2. view' = Stories!Show(t)
  BY DEF Stories!Close
<1> HIDE DEF t
<1> QED
  BY <1>1, <1>2, StoriesShowInv

LEMMA StoriesAfterInv ==
  ASSUME StoriesInv, NEW s, StoriesHere(s), view' = Stories!After(s)
  PROVE  StoriesInv'
<1>0. s \in StoriesState /\ s.groups \in Seq(StoriesGroups)
  BY StoriesFeedIs DEF StoriesHere, StoriesState
<1>1. CASE s.groupIdx <= Len(s.groups) /\ s.storyIdx < s.groups[s.groupIdx].stories
  <2> DEFINE t == [s EXCEPT !.storyIdx = @ + 1]
  <2>1. s.groups[s.groupIdx] \in StoriesGroups
    BY <1>0, <1>1 DEF StoriesState
  <2>2. s.groups[s.groupIdx].stories \in Nat
    BY <2>1 DEF StoriesGroups
  <2>a. s.storyIdx + 1 \in Nat \ {0}
    BY <1>0 DEF StoriesState
  <2>3. /\ t \in StoriesState /\ t.image = s.image /\ t.media = s.media
        /\ t.groups = s.groups /\ t.groupIdx = s.groupIdx /\ t.storyIdx = s.storyIdx + 1
    BY <1>0, <2>a DEF StoriesState
  <2>4. t.storyIdx <= t.groups[t.groupIdx].stories
    BY <1>0, <1>1, <2>2, <2>3 DEF StoriesState
  <2>5. view' = Stories!Show(t)
    BY <1>1 DEF Stories!After
  <2> HIDE DEF t
  <2> QED
    BY <1>1, <2>3, <2>4, <2>5, StoriesStoryIs, StoriesShowInv DEF StoriesHere
<1>2. CASE ~(s.groupIdx <= Len(s.groups) /\ s.storyIdx < s.groups[s.groupIdx].stories)
           /\ s.groupIdx < Len(s.groups)
  <2> DEFINE t == [s EXCEPT !.groupIdx = @ + 1, !.storyIdx = 1]
  <2>1. s.groupIdx + 1 \in 1..Len(s.groups) /\ s.groupIdx + 1 \in Nat \ {0}
    BY <1>0, <1>2 DEF StoriesState
  <2>2. s.groups[s.groupIdx + 1] \in StoriesGroups
    BY <1>0, <2>1
  <2>a. 1 \in Nat \ {0}
    OBVIOUS
  <2>3. /\ t \in StoriesState /\ t.image = s.image /\ t.media = s.media
        /\ t.groups = s.groups /\ t.groupIdx = s.groupIdx + 1 /\ t.storyIdx = 1
    BY <1>0, <2>1, <2>a DEF StoriesState
  <2>4. t.groupIdx <= Len(t.groups) /\ t.storyIdx <= t.groups[t.groupIdx].stories
    BY <1>0, <2>1, <2>2, <2>3 DEF StoriesGroups
  <2>5. view' = Stories!Show(t)
    BY <1>2 DEF Stories!After
  <2> HIDE DEF t
  <2> QED
    BY <2>3, <2>4, <2>5, StoriesStoryIs, StoriesShowInv DEF StoriesHere
<1>3. CASE ~(s.groupIdx <= Len(s.groups) /\ s.storyIdx < s.groups[s.groupIdx].stories)
           /\ ~(s.groupIdx < Len(s.groups))
  <2> DEFINE t == [s EXCEPT !.storyIdx = 1]
  <2>1. /\ t \in StoriesState /\ t.image = s.image /\ t.media = s.media
    BY <1>0 DEF StoriesState
  <2>2. view' = Stories!Close(t)
    BY <1>3 DEF Stories!After
  <2> HIDE DEF t
  <2> QED
    BY <2>1, <2>2, StoriesCloseInv DEF StoriesHere
<1> QED
  BY <1>1, <1>2, <1>3

LEMMA StoriesBeforeInv ==
  ASSUME StoriesInv, NEW s, StoriesHere(s), view' = Stories!Before(s),
         s.storyIdx > 1 \/ s.groupIdx <= Len(s.groups) + 1
  PROVE  StoriesInv'
<1>0. s \in StoriesState /\ s.groups \in Seq(StoriesGroups)
  BY StoriesFeedIs DEF StoriesHere, StoriesState
<1>1. CASE s.storyIdx > 1
  <2> DEFINE t == [s EXCEPT !.storyIdx = @ - 1]
  <2>1. s.storyIdx - 1 \in Nat \ {0}
    BY <1>0, <1>1 DEF StoriesState
  <2>2. /\ t \in StoriesState /\ t.image = s.image /\ t.media = s.media
        /\ t.open = s.open /\ t.reloaded = s.reloaded
        /\ t.groups = s.groups /\ t.groupIdx = s.groupIdx /\ t.storyIdx = s.storyIdx - 1
    BY <1>0, <2>1 DEF StoriesState
  <2>3. view' = Stories!Show(t)
    BY <1>1 DEF Stories!Before
  <2> HIDE DEF t
  <2>4. ASSUME t.open, Stories!Story(t) = Stories!NoStory PROVE t.reloaded
    <3>1. ~(t.groupIdx <= Len(t.groups) /\ t.storyIdx <= t.groups[t.groupIdx].stories)
      BY <2>2, <2>4, StoriesStoryIs
    <3>2. ASSUME s.groupIdx <= Len(s.groups) PROVE ~(s.storyIdx <= s.groups[s.groupIdx].stories)
      <4>1. s.groups[s.groupIdx] \in StoriesGroups
        BY <1>0, <3>2 DEF StoriesState
      <4>2. s.groups[s.groupIdx].stories \in Nat /\ s.storyIdx \in Nat
        BY <1>0, <4>1 DEF StoriesGroups, StoriesState
      <4> QED
        BY <2>2, <3>1, <3>2, <4>2
    <3>3. Stories!Story(view) = Stories!NoStory
      BY <3>2 DEF Stories!Story, StoriesHere
    <3> QED
      BY <2>2, <2>4, <3>3 DEF StoriesInv, StoriesHere
  <2> QED
    BY <2>2, <2>3, <2>4, StoriesShowInv DEF StoriesHere
<1>2. CASE ~(s.storyIdx > 1) /\ s.groupIdx > 1
  <2> DEFINE last == s.groups[s.groupIdx - 1].stories
             t == [s EXCEPT !.groupIdx = @ - 1, !.storyIdx = last]
  <2>1. s.groupIdx - 1 \in 1..Len(s.groups) /\ s.groupIdx - 1 \in Nat \ {0}
    BY <1>0, <1>2 DEF StoriesState
  <2>2. s.groups[s.groupIdx - 1] \in StoriesGroups
    BY <1>0, <2>1
  <2>3. last \in Nat \ {0}
    BY <2>2 DEF StoriesGroups
  <2>4. /\ t \in StoriesState /\ t.image = s.image /\ t.media = s.media
        /\ t.groups = s.groups /\ t.groupIdx = s.groupIdx - 1 /\ t.storyIdx = last
    BY <1>0, <2>1, <2>3 DEF StoriesState
  <2>5. t.groupIdx <= Len(t.groups) /\ t.storyIdx <= t.groups[t.groupIdx].stories
    BY <1>0, <2>1, <2>3, <2>4
  <2>6. view' = Stories!Show(t)
    BY <1>2 DEF Stories!Before
  <2> HIDE DEF t
  <2> QED
    BY <2>4, <2>5, <2>6, StoriesStoryIs, StoriesShowInv DEF StoriesHere
<1>3. CASE ~(s.storyIdx > 1) /\ ~(s.groupIdx > 1)
  <2>1. view' = s
    BY <1>3 DEF Stories!Before
  <2>2. Stories!Story(s) = Stories!Story(view)
    BY StoriesSameStory DEF StoriesHere
  <2> QED
    BY <2>1, <2>2 DEF StoriesInv, StoriesHere
<1> QED
  BY <1>1, <1>2, <1>3

LEMMA StoriesWalkInv ==
  ASSUME StoriesInv, Stories!Open \/ Stories!Tap \/ Stories!Advance PROVE StoriesInv'
<1>0. view \in StoriesState
  BY DEF StoriesInv
<1>1. Stories!Act => StoriesHere(Stories!Acted)
  <2>1. Stories!Act => view.acts + 1 \in 0..MaxActs["stories"]
    BY <1>0, StoriesBounds DEF Stories!Act, StoriesState
  <2> QED
    BY <1>0, <2>1 DEF Stories!Acted, StoriesHere, StoriesState
<1>2. CASE Stories!Open
  <2>1. PICK i \in 1..Len(view.groups) :
          view' = Stories!Show([Stories!Acted EXCEPT !.open = TRUE, !.groupIdx = i, !.storyIdx = 1,
                                        !.reloaded = FALSE])
    BY <1>2 DEF Stories!Open
  <2>a. PICK a : a = Stories!Acted
    OBVIOUS
  <2> DEFINE t == [a EXCEPT !.open = TRUE, !.groupIdx = i, !.storyIdx = 1,
                            !.reloaded = FALSE]
  <2>2. view.groups \in Seq(StoriesGroups) /\ i \in Nat \ {0}
    BY <1>0, StoriesFeedIs DEF StoriesState
  <2>b. Stories!Act
    BY <1>2 DEF Stories!Open
  <2>c. 1 \in Nat \ {0}
    OBVIOUS
  <2>3. StoriesHere(a)
    BY <1>1, <2>a, <2>b
  <2>4. /\ t \in StoriesState /\ t.image = view.image /\ t.media = view.media
        /\ t.groups = view.groups /\ t.groupIdx = i /\ t.storyIdx = 1
    BY <2>2, <2>3, <2>c DEF StoriesHere, StoriesState
  <2>5. view.groups[i] \in StoriesGroups
    BY <2>2
  <2>6. t.groupIdx <= Len(t.groups) /\ t.storyIdx <= t.groups[t.groupIdx].stories
    BY <2>2, <2>4, <2>5 DEF StoriesGroups
  <2>7. view' = Stories!Show(t)
    BY <2>1, <2>a
  <2> HIDE DEF t
  <2> QED
    BY <2>4, <2>6, <2>7, StoriesStoryIs, StoriesShowInv
<1>3. CASE Stories!Tap
  <2>1. StoriesHere(Stories!Acted)
    BY <1>1, <1>3 DEF Stories!Tap
  <2>2. CASE view' = Stories!After(Stories!Acted)
    BY <2>1, <2>2, StoriesAfterInv
  <2>3. CASE view' = Stories!Close(Stories!Acted)
    BY <2>1, <2>3, StoriesCloseInv DEF StoriesHere
  <2>4. CASE /\ view.storyIdx > 1 \/ view.groupIdx <= Len(view.groups) + 1
             /\ view' = Stories!Before(Stories!Acted)
    <3>1. Stories!Acted.storyIdx > 1 \/ Stories!Acted.groupIdx <= Len(Stories!Acted.groups) + 1
      BY <2>1, <2>4 DEF StoriesHere
    <3> QED
      BY <2>1, <2>4, <3>1, StoriesBeforeInv
  <2> QED
    BY <1>3, <2>2, <2>3, <2>4 DEF Stories!Tap
<1>4. CASE Stories!Advance
  <2>1. StoriesHere(view)
    BY <1>0 DEF StoriesHere
  <2> QED
    BY <1>4, <2>1, StoriesAfterInv DEF Stories!Advance
<1> QED
  BY <1>2, <1>3, <1>4

LEMMA StoriesNextInv == StoriesInv /\ [Stories!Next]_view => StoriesInv'
<1>1. ASSUME StoriesInv, UNCHANGED view PROVE StoriesInv'
  BY <1>1 DEF StoriesInv, Stories!Story
<1> QED
  BY <1>1, StoriesLoadInv, StoriesMediaInv, StoriesWalkInv DEF Stories!Next,
     Stories!Progress

LEMMA StoriesInvTyped == StoriesInv => Stories!TypeOK
<1>1. \A story \in StoriesShown : Stories!IsStory(story)
  BY DEF StoriesShown, Stories!IsStory
<1> QED
  BY <1>1 DEF StoriesInv, StoriesState, StoriesFeeds, Stories!TypeOK

LEMMA StoriesInvShows == StoriesInv => Stories!ViewerShowsStory
  BY DEF StoriesInv, Stories!ViewerShowsStory

-----------------------------------------------------------------------------
(* story-camera-dialog.tsx: a share flow belongs to the capture that was on  *)
(* screen when it started; while one is under way for it no other starts,    *)
(* unless the end of another flow frees the button.                          *)

LEMMA CameraBounds == Faults \subseteq {"refused", "lost"} /\ MaxActs["camera"] \in Nat
  BY Bounds DEF Screens

LEMMA CameraInitInv ==
  ASSUME Camera!Init PROVE CameraInv
<1>1. view \in CameraState
  BY CameraBounds DEF Camera!Init, CameraState, Camera!Idle, Camera!Calls, Camera!None,
     Camera!Acts
<1>2. CameraCaptures(view) /\ CameraOnce(view)
  BY CameraBounds DEF Camera!Init, CameraCaptures, CameraOnce, CameraOwn, Camera!Idle,
     Camera!None, Camera!Acts
<1> QED
  BY <1>1, <1>2 DEF CameraInv, CameraGood

LEMMA CameraCallEnds ==
  /\ "idle" \notin Camera!Ends /\ "sent" \notin Camera!Ends /\ "ok" \notin Faults /\ Camera!Ends \subseteq Camera!Calls
  /\ Camera!Ends \intersect Camera!UploadSteps = {} /\ "idle" \in Camera!Calls /\ "sent" \in Camera!Calls
  /\ "ok" \in Camera!Ends /\ Faults \subseteq Camera!Ends
  BY CameraBounds DEF Camera!Ends, Camera!Calls, Camera!UploadSteps

LEMMA CameraHowItEnds ==
  ASSUME NEW end \in Camera!Ends, NEW done \in Camera!Effects(end)
  PROVE  /\ done \in BOOLEAN /\ (end = "ok" => done = TRUE)
         /\ done /\ end # "ok" => end = "lost"
  BY CameraBounds DEF Camera!Ends, Camera!Effects

\* The camera follows the dialog and touches nothing else.
LEMMA CameraDriveIs ==
  ASSUME NEW c \in CameraState, c.open => c.acts \in Camera!Acts
  PROVE  /\ Camera!Drive(c) \in CameraState
         /\ Camera!Drive(c).open = c.open /\ Camera!Drive(c).busy = c.busy
         /\ Camera!Drive(c).captured = c.captured /\ Camera!Drive(c).blob = c.blob
         /\ Camera!Drive(c).share = c.share /\ Camera!Drive(c).stored = c.stored
         /\ Camera!Drive(c).acts = c.acts /\ Camera!Drive(c).lost = c.lost
         /\ Camera!Drive(c).freed = c.freed
<1> DEFINE s == [c EXCEPT !.live = c.live \ {c.streamRef}, !.streamRef = Camera!None]
           t == [s EXCEPT !.starting = c.starting \union {c.acts}]
<1>1. Camera!Stop(c) = s
  BY DEF Camera!Stop
<1>2. s \in CameraState /\ s.acts = c.acts /\ s.starting = c.starting
  BY DEF CameraState, Camera!None
<1>3. Camera!Drive(c) = IF c.open /\ c.captured = Camera!None THEN t ELSE s
  BY <1>1, <1>2 DEF Camera!Drive
<1>4. CASE c.open /\ c.captured = Camera!None
  <2>1. PICK starting \in SUBSET Camera!Acts : starting = c.starting \union {c.acts}
    BY <1>4 DEF CameraState
  <2>2. Camera!Drive(c) = [s EXCEPT !.starting = starting]
    BY <1>3, <1>4, <2>1
  <2> HIDE DEF s
  <2>3. /\ s.open = c.open /\ s.busy = c.busy /\ s.captured = c.captured /\ s.blob = c.blob
        /\ s.share = c.share /\ s.stored = c.stored /\ s.acts = c.acts
        /\ s.lost = c.lost /\ s.freed = c.freed
    BY DEF s, CameraState
  <2> QED
    BY <1>2, <2>2, <2>3 DEF CameraState
<1>5. CASE ~(c.open /\ c.captured = Camera!None)
  BY <1>2, <1>3, <1>5 DEF CameraState
<1> QED
  BY <1>4, <1>5

\* So a step may be looked at before the camera follows.
LEMMA CameraDriveGood ==
  ASSUME NEW c, CameraGood(c), c.open => c.acts \in Camera!Acts
  PROVE  CameraGood(Camera!Drive(c))
<1>1. c \in CameraState
  BY DEF CameraGood
<1> DEFINE d == Camera!Drive(c)
<1>2. /\ d \in CameraState
      /\ d.busy = c.busy /\ d.captured = c.captured /\ d.blob = c.blob
      /\ d.share = c.share /\ d.stored = c.stored /\ d.acts = c.acts
      /\ d.lost = c.lost /\ d.freed = c.freed
  BY <1>1, CameraDriveIs
<1> HIDE DEF d
<1>3. CameraGood(d)
  BY <1>2 DEF CameraGood, CameraCaptures, CameraOnce, CameraOwn
<1> QED
  BY <1>3 DEF d

\* Nothing but the camera and the count of acts has changed.
LEMMA CameraFrameGood ==
  ASSUME NEW c, CameraGood(c), NEW d \in CameraState,
         d.busy = c.busy, d.captured = c.captured, d.blob = c.blob, d.share = c.share,
         d.stored = c.stored, c.acts <= d.acts, d.lost = c.lost, d.freed = c.freed
  PROVE  CameraGood(d)
<1>1. \A x \in {Camera!None} \union Camera!Acts : x <= c.acts => x <= d.acts
  BY CameraBounds DEF CameraGood, CameraState, Camera!None, Camera!Acts
<1>2. CameraCaptures(d)
  BY <1>1, CameraBounds DEF CameraGood, CameraCaptures, CameraState, Camera!None,
     Camera!Acts
<1> QED
  BY <1>2 DEF CameraGood, CameraOnce, CameraOwn

LEMMA CameraActedIs ==
  ASSUME CameraInv, Camera!Act
  PROVE  /\ Camera!Acted = [view EXCEPT !.acts = view.acts + 1] /\ Camera!Acted \in CameraState
         /\ view.acts + 1 \in Camera!Acts /\ Camera!Acted.acts = view.acts + 1
         /\ Camera!Acted.open = view.open /\ Camera!Acted.busy = view.busy
         /\ Camera!Acted.captured = view.captured /\ Camera!Acted.blob = view.blob
         /\ Camera!Acted.share = view.share /\ Camera!Acted.stored = view.stored
         /\ Camera!Acted.lost = view.lost /\ Camera!Acted.freed = view.freed
         /\ CameraGood(Camera!Acted)
<1> DEFINE a == Camera!Acted
<1>0. view \in CameraState /\ CameraGood(view)
  BY DEF CameraInv, CameraGood
<1>1. view.acts + 1 \in Camera!Acts /\ view.acts + 1 \in 0..MaxActs["camera"] /\ view.acts <= view.acts + 1
  BY <1>0, CameraBounds DEF Camera!Act, CameraState, Camera!Acts
<1>2. PICK n \in 0..MaxActs["camera"] : n = view.acts + 1
  BY <1>1
<1>3. a = [view EXCEPT !.acts = n]
  BY <1>2 DEF Camera!Acted
<1> HIDE DEF a
<1>4. /\ a \in CameraState /\ a.acts = n /\ a.open = view.open
      /\ a.busy = view.busy /\ a.captured = view.captured /\ a.blob = view.blob
      /\ a.share = view.share /\ a.stored = view.stored
      /\ a.lost = view.lost /\ a.freed = view.freed
  BY <1>0, <1>3 DEF CameraState
<1>5. CameraGood(a)
  BY <1>0, <1>1, <1>2, <1>4, CameraFrameGood
<1> QED
  BY <1>1, <1>2, <1>3, <1>4, <1>5 DEF a

LEMMA CameraDialogStep ==
  ASSUME CameraInv, Camera!Open \/ Camera!Close \/ Camera!Flip \/ Camera!Started
  PROVE  CameraInv'
<1>0. view \in CameraState /\ CameraGood(view)
  BY DEF CameraInv, CameraGood
<1> DEFINE a == Camera!Acted
<1>1. ASSUME Camera!Act
      PROVE  /\ a = [view EXCEPT !.acts = view.acts + 1] /\ a \in CameraState
             /\ view.acts + 1 \in Camera!Acts /\ a.acts = view.acts + 1
             /\ CameraGood(a)
  BY <1>1, CameraActedIs
<1> HIDE DEF a
<1>2. CASE Camera!Open
  <2>1. Camera!Act /\ view' = Camera!Drive([a EXCEPT !.open = TRUE])
    BY <1>2 DEF Camera!Open, a
  <2> DEFINE b == [a EXCEPT !.open = TRUE]
  <2>2. /\ b \in CameraState /\ b.acts = a.acts
        /\ b.busy = a.busy /\ b.captured = a.captured /\ b.blob = a.blob
        /\ b.share = a.share /\ b.stored = a.stored
        /\ b.lost = a.lost /\ b.freed = a.freed
    BY <1>1, <2>1 DEF CameraState
  <2> HIDE DEF b
  <2>3. a.acts <= b.acts
    BY <1>1, <2>1, <2>2, CameraBounds DEF Camera!Acts
  <2>4. CameraGood(b)
    BY <1>1, <2>1, <2>2, <2>3, CameraFrameGood
  <2>5. CameraGood(Camera!Drive(b))
    BY <1>1, <2>1, <2>2, <2>4, CameraDriveGood
  <2> QED
    BY <2>1, <2>5 DEF b, CameraInv
<1>3. CASE Camera!Close
  <2> DEFINE b == [Camera!Reset(a) EXCEPT !.open = FALSE]
  <2>1. Camera!Act /\ view' = Camera!Drive(b)
    BY <1>3 DEF Camera!Close, Camera!Closed, a
  <2>2. b = [a EXCEPT !.captured = Camera!None, !.busy = FALSE, !.open = FALSE]
    BY <1>1, <2>1 DEF Camera!Reset, CameraState
  <2> HIDE DEF b
  <2>3. /\ b \in CameraState /\ b.open = FALSE /\ b.captured = Camera!None
        /\ b.acts = a.acts /\ b.blob = a.blob /\ b.share = a.share /\ b.stored = a.stored
        /\ b.lost = a.lost /\ b.freed = a.freed
    BY <1>1, <2>1, <2>2 DEF CameraState, Camera!None
  <2>4. CameraCaptures(b)
    BY <1>1, <2>1, <2>3, CameraBounds DEF CameraGood, CameraCaptures, Camera!None, Camera!Acts
  <2>5. CameraOnce(b)
    <3>1. \A x \in Camera!Acts : x # b.captured
      BY <2>3, CameraBounds DEF Camera!None, Camera!Acts
    <3> QED
      BY <1>1, <2>1, <2>3, <3>1 DEF CameraGood, CameraOnce, CameraOwn
  <2> QED
    BY <2>1, <2>3, <2>4, <2>5, CameraDriveGood DEF CameraInv, CameraGood
<1>4. CASE Camera!Flip
  <2>1. Camera!Act /\ view' = Camera!Drive(a)
    BY <1>4 DEF Camera!Flip, a
  <2>2. CameraGood(Camera!Drive(a))
    BY <1>1, <2>1, CameraDriveGood
  <2> QED
    BY <2>1, <2>2 DEF CameraInv
<1>5. CASE Camera!Started
  <2>1. PICK s \in view.starting :
          LET c == [view EXCEPT !.starting = @ \ {s}] IN
          view' \in {c, [c EXCEPT !.live = @ \union {s}, !.streamRef = s]}
    BY <1>5 DEF Camera!Started
  <2>2. s \in Camera!Acts /\ view.live \union {s} \in SUBSET Camera!Acts /\ view.starting \ {s} \in SUBSET Camera!Acts
    BY <1>0 DEF CameraState
  <2>3. PICK starting, live \in SUBSET Camera!Acts, ref \in {Camera!None} \union Camera!Acts :
          view' = [view EXCEPT !.starting = starting, !.live = live, !.streamRef = ref]
    <3>1. CASE view' = [view EXCEPT !.starting = @ \ {s}]
      <4>1. view' = [view EXCEPT !.starting = view.starting \ {s},
                         !.live = view.live, !.streamRef = view.streamRef]
        BY <1>0, <3>1 DEF CameraState
      <4> QED
        BY <1>0, <2>2, <4>1 DEF CameraState
    <3>2. CASE view' = [[view EXCEPT !.starting = @ \ {s}] EXCEPT
                            !.live = @ \union {s}, !.streamRef = s]
      <4>1. view' = [view EXCEPT !.starting = view.starting \ {s},
                         !.live = view.live \union {s}, !.streamRef = s]
        BY <1>0, <3>2 DEF CameraState
      <4> QED
        BY <2>2, <4>1
    <3> QED
      BY <2>1, <3>1, <3>2
  <2>4. /\ view' \in CameraState /\ view'.acts = view.acts
        /\ view'.busy = view.busy /\ view'.captured = view.captured
        /\ view'.blob = view.blob /\ view'.share = view.share
        /\ view'.stored = view.stored /\ view'.lost = view.lost
        /\ view'.freed = view.freed
    BY <1>0, <2>3 DEF CameraState
  <2>5. view.acts <= view'.acts
    BY <1>0, <2>4, CameraBounds DEF CameraState
  <2>6. CameraGood(view')
    BY <1>0, <2>4, <2>5, CameraFrameGood
  <2> QED
    BY <2>6 DEF CameraInv
<1> QED
  BY <1>2, <1>3, <1>4, <1>5

LEMMA CameraCaptureStep ==
  ASSUME CameraInv, Camera!Capture \/ Camera!BlobReady \/ Camera!PickFile \/ Camera!Retake
  PROVE  CameraInv'
<1>0. view \in CameraState /\ CameraGood(view)
  BY DEF CameraInv, CameraGood
<1> DEFINE n == view.acts + 1
<1>1. CASE Camera!Capture
  <2>1. Camera!Act /\ view.blob = Camera!None /\ view.captured = Camera!None /\ view' = [Camera!Acted EXCEPT !.blob = n]
    BY <1>1 DEF Camera!Capture
  <2>2. /\ view' \in CameraState /\ view'.acts = n /\ view'.blob = n
        /\ view'.captured = view.captured /\ view'.busy = view.busy
        /\ view'.share = view.share /\ view'.stored = view.stored
        /\ view'.lost = view.lost /\ view'.freed = view.freed
    BY <2>1, CameraActedIs DEF CameraState
  <2>3. n \in Camera!Acts /\ CameraGood(Camera!Acted) /\ Camera!Acted.acts = n /\ n # Camera!None
    BY <2>1, CameraActedIs, CameraBounds DEF Camera!Acts, Camera!None
  <2>4. view.acts \in Nat /\ ~(n <= view.acts) /\ view.acts <= n
    BY <1>0 DEF CameraState
  <2> HIDE DEF n
  <2>5. CameraCaptures(view)
    BY <1>0 DEF CameraGood
  <2>6. \A f \in Camera!Flows : view.share[f].at # "idle" =>
            view.share[f].capture \in 1..n /\ view.share[f].capture # n
    BY <2>3, <2>4, <2>5, CameraBounds DEF CameraCaptures, Camera!Acts
  <2>7. \A a \in Camera!Acts : view.stored[a] # 0 => a <= n /\ a # n
    BY <2>3, <2>4, <2>5, CameraBounds DEF CameraCaptures, Camera!Acts
  <2>8. n <= n /\ view.captured <= n
    BY <2>1, <2>3, CameraBounds DEF Camera!None, Camera!Acts
  <2>9. CameraCaptures(view')
    BY <2>1, <2>2, <2>3, <2>6, <2>7, <2>8 DEF CameraCaptures
  <2>10. CameraOnce(view')
    BY <1>0, <2>2, <2>7 DEF CameraGood, CameraOnce, CameraOwn
  <2> QED
    BY <2>2, <2>9, <2>10 DEF CameraInv, CameraGood
<1>2. CASE Camera!BlobReady
  <2> DEFINE b == [view EXCEPT !.blob = Camera!None, !.captured = view.blob]
  <2>1. view.blob # Camera!None /\ view' = Camera!Drive([[view EXCEPT !.blob = Camera!None] EXCEPT !.captured = view.blob])
    BY <1>2 DEF Camera!BlobReady, Camera!Apply
  <2>2. /\ b \in CameraState /\ b.acts = view.acts /\ b.blob = Camera!None
        /\ b.captured = view.blob /\ b.busy = view.busy
        /\ b.share = view.share /\ b.stored = view.stored
        /\ b.lost = view.lost /\ b.freed = view.freed
    BY <1>0 DEF CameraState, Camera!None
  <2>3. view' = Camera!Drive(b)
    BY <2>1
  <2> HIDE DEF b
  <2>4. view.blob \in Camera!Acts /\ view.blob <= view.acts /\ view.acts \in Camera!Acts /\ 0 <= view.acts
    BY <1>0, <2>1, CameraBounds DEF CameraGood, CameraCaptures, CameraState, Camera!None,
       Camera!Acts
  <2>5. \A f \in Camera!Flows : view.share[f].at # "idle" =>
            /\ view.share[f].capture \in 1..view.acts /\ view.share[f].capture # Camera!None
            /\ view.share[f].capture # view.blob
    BY <1>0, CameraBounds DEF CameraGood, CameraCaptures, CameraState, Camera!None
  <2>6. CameraCaptures(b)
    BY <1>0, <2>2, <2>4, <2>5 DEF CameraGood, CameraCaptures, Camera!None
  <2>7. \A a \in Camera!Acts : a # Camera!None
    BY CameraBounds DEF Camera!Acts, Camera!None
  <2>8. CameraOnce(b)
    BY <1>0, <2>2, <2>5, <2>7 DEF CameraGood, CameraOnce, CameraOwn
  <2>9. CameraGood(Camera!Drive(b))
    BY <2>2, <2>4, <2>6, <2>8, CameraDriveGood DEF CameraGood
  <2> QED
    BY <2>3, <2>9 DEF CameraInv
<1>3. CASE Camera!PickFile
  <2> DEFINE b == [Camera!Acted EXCEPT !.captured = n]
  <2>1. Camera!Act /\ view' = Camera!Drive([Camera!Acted EXCEPT !.captured = n])
    BY <1>3 DEF Camera!PickFile, Camera!Apply
  <2>2. /\ b \in CameraState /\ b.acts = n /\ b.captured = n
        /\ b.blob = view.blob /\ b.busy = view.busy
        /\ b.share = view.share /\ b.stored = view.stored
        /\ b.lost = view.lost /\ b.freed = view.freed
    BY <2>1, CameraActedIs DEF CameraState
  <2>a. view' = Camera!Drive(b)
    BY <2>1
  <2> HIDE DEF b
  <2>3. n \in Camera!Acts /\ CameraGood(Camera!Acted) /\ Camera!Acted.acts = n /\ n # Camera!None
        /\ Camera!Acted.blob = view.blob /\ Camera!Acted.share = view.share /\ Camera!Acted.stored = view.stored
    BY <2>1, CameraActedIs, CameraBounds DEF Camera!Acts, Camera!None
  <2>4. view.acts \in Nat /\ ~(n <= view.acts) /\ n <= n
    BY <1>0 DEF CameraState
  <2> HIDE DEF n
  <2>5. view.blob # n
    BY <1>0, <2>4 DEF CameraGood, CameraCaptures
  <2>6. \A a \in Camera!Acts : view.stored[a] # 0 => a # n
    BY <1>0, <2>4 DEF CameraGood, CameraCaptures
  <2>7. CameraCaptures(b)
    BY <2>2, <2>3, <2>4, <2>5 DEF CameraGood, CameraCaptures
  <2>b. \A f \in Camera!Flows : view.share[f].at # "idle" => view.share[f].capture # n
    BY <1>0, <2>4 DEF CameraGood, CameraCaptures
  <2>8. CameraOnce(b)
    BY <1>0, <2>2, <2>6, <2>b DEF CameraGood, CameraOnce, CameraOwn
  <2>9. CameraGood(Camera!Drive(b))
    BY <2>2, <2>3, <2>7, <2>8, CameraDriveGood DEF CameraGood
  <2> QED
    BY <2>a, <2>9 DEF CameraInv
<1>4. CASE Camera!Retake
  <2> DEFINE b == Camera!Reset(Camera!Acted)
  <2>1. Camera!Act /\ ~view.busy /\ view' = Camera!Drive(b)
    BY <1>4 DEF Camera!Retake
  <2>2. /\ b \in CameraState /\ b.acts = n /\ b.captured = Camera!None /\ b.busy = FALSE
        /\ b.blob = view.blob
        /\ b.share = view.share /\ b.stored = view.stored
        /\ b.lost = view.lost /\ b.freed = view.freed
    BY <2>1, CameraActedIs DEF CameraState, Camera!Reset, Camera!None
  <2> HIDE DEF b
  <2>3. /\ n \in Camera!Acts /\ CameraGood(Camera!Acted) /\ Camera!Acted.acts = n /\ 0 <= n /\ Camera!Acted.busy = FALSE
        /\ Camera!Acted.blob = view.blob /\ Camera!Acted.share = view.share /\ Camera!Acted.stored = view.stored
        /\ Camera!Acted.lost = view.lost /\ Camera!Acted.freed = view.freed
    BY <1>0, <2>1, CameraActedIs, CameraBounds DEF Camera!Acts, CameraState
  <2> HIDE DEF n
  <2>4. CameraCaptures(b)
    BY <2>2, <2>3 DEF CameraGood, CameraCaptures, Camera!None
  <2>5. \A a \in Camera!Acts : a # Camera!None
    BY CameraBounds DEF Camera!Acts, Camera!None
  <2>6. CameraOnce(b)
    BY <2>2, <2>3, <2>5 DEF CameraGood, CameraOnce, CameraOwn
  <2>7. CameraGood(Camera!Drive(b))
    BY <2>2, <2>3, <2>4, <2>6, CameraDriveGood DEF CameraGood
  <2> QED
    BY <2>1, <2>7 DEF CameraInv
<1> QED
  BY <1>1, <1>2, <1>3, <1>4

\* A flow that changes: the record that replaces it.
LEMMA CameraFlowIs ==
  ASSUME NEW c \in CameraState, NEW f \in Camera!Flows,
         NEW r \in [at : Camera!Calls \union Camera!UploadSteps, capture : {Camera!None} \union Camera!Acts]
  PROVE  /\ [c EXCEPT !.share[f] = r] \in CameraState
         /\ [c EXCEPT !.share[f] = r].share = [c.share EXCEPT ![f] = r]
         /\ [c EXCEPT !.share[f] = r].share[f] = r
         /\ \A g \in Camera!Flows \ {f} : [c EXCEPT !.share[f] = r].share[g] = c.share[g]
<1> DEFINE share == [c.share EXCEPT ![f] = r]
<1>1. /\ share \in [Camera!Flows -> [at : Camera!Calls \union Camera!UploadSteps, capture : {Camera!None} \union Camera!Acts]]
      /\ share[f] = r /\ \A g \in Camera!Flows \ {f} : share[g] = c.share[g]
  BY DEF CameraState
<1>2. [c EXCEPT !.share[f] = r] = [c EXCEPT !.share = share]
  BY DEF CameraState
<1> HIDE DEF share
<1>3. [c EXCEPT !.share = share] \in CameraState /\ [c EXCEPT !.share = share].share = share
  BY <1>1 DEF CameraState
<1> QED
  BY <1>1, <1>2, <1>3 DEF share

LEMMA CameraShareStarts ==
  ASSUME CameraInv, Camera!Share PROVE CameraInv'
<1>0. view \in CameraState /\ CameraGood(view)
  BY DEF CameraInv, CameraGood
<1>1. PICK f \in Camera!Flows :
        /\ Camera!Act /\ view.captured # Camera!None /\ ~view.busy /\ view.share[f].at = "idle"
        /\ view' = [Camera!Acted EXCEPT !.busy = TRUE,
                        !.share[f] = [at |-> "ticket", capture |-> view.captured]]
  BY DEF Camera!Share
<1> DEFINE r == [at |-> "ticket", capture |-> view.captured]
           b == [Camera!Acted EXCEPT !.share[f] = r]
<1>2. r \in [at : Camera!Calls \union Camera!UploadSteps, capture : {Camera!None} \union Camera!Acts]
      /\ r.at = "ticket" /\ r.capture = view.captured
  BY <1>0 DEF CameraState, Camera!UploadSteps
<1> HIDE DEF r
<1>3. /\ b \in CameraState /\ b.share[f] = r /\ \A g \in Camera!Flows \ {f} : b.share[g] = view.share[g]
  BY <1>1, <1>2, CameraActedIs, CameraFlowIs
<1>4. /\ b.acts = view.acts + 1 /\ b.captured = view.captured /\ b.blob = view.blob
      /\ b.stored = view.stored /\ b.lost = view.lost /\ b.freed = view.freed
  BY <1>1, CameraActedIs DEF CameraState
<1>5. view' = [b EXCEPT !.busy = TRUE]
  BY <1>1, CameraActedIs DEF r, CameraState
<1> HIDE DEF b
<1>6. /\ view' \in CameraState /\ view'.busy = TRUE
      /\ view'.share = b.share /\ view'.acts = view.acts + 1
      /\ view'.captured = view.captured /\ view'.blob = view.blob
      /\ view'.stored = view.stored /\ view'.lost = view.lost
      /\ view'.freed = view.freed
  BY <1>3, <1>4, <1>5 DEF CameraState
<1>7. /\ CameraGood(Camera!Acted) /\ Camera!Acted.acts = view.acts + 1 /\ Camera!Acted.share = view.share
      /\ Camera!Acted.captured = view.captured /\ Camera!Acted.blob = view.blob
      /\ Camera!Acted.stored = view.stored
  BY <1>1, CameraActedIs
<1>8. view.captured \in 1..view.acts + 1 /\ view.captured # view.blob
  BY <1>0, <1>1, <1>7, CameraBounds DEF CameraGood, CameraCaptures, CameraState,
     Camera!None, Camera!Acts
<1>9. CameraCaptures(view')
  BY <1>2, <1>3, <1>6, <1>7, <1>8 DEF CameraGood, CameraCaptures
<1>10. ASSUME NEW a \in Camera!Acts \ (view'.lost \union view'.freed)
       PROVE  CameraOwn(view', a)
  <2>1. CameraOwn(view, a)
    BY <1>0, <1>6 DEF CameraGood, CameraOnce
  <2>2. view'.share[f].at = "ticket" /\ view'.share[f].capture = view.captured
        /\ \A g \in Camera!Flows \ {f} : view'.share[g] = view.share[g]
    BY <1>2, <1>3, <1>6
  <2>3. CASE a = view.captured
    <3>1. \A g \in Camera!Flows : view.share[g].at # "idle" => view.share[g].capture # a
      BY <1>1, <2>1, <2>3 DEF CameraOwn
    <3>2. view.stored[a] = 0
      BY <1>1, <2>1, <2>3, <3>1 DEF CameraOwn
    <3> QED
      BY <1>6, <2>2, <2>3, <3>1, <3>2 DEF CameraOwn
  <2>4. CASE a # view.captured
    BY <1>1, <1>6, <2>1, <2>2, <2>4 DEF CameraOwn
  <2> QED
    BY <2>3, <2>4
<1> QED
  BY <1>6, <1>9, <1>10 DEF CameraInv, CameraGood, CameraOnce

LEMMA CameraShareRuns ==
  ASSUME CameraInv, Camera!UploadStep PROVE CameraInv'
<1>0. view \in CameraState /\ CameraGood(view)
  BY DEF CameraInv, CameraGood
<1>1. PICK f \in Camera!Flows : view.share[f].at \in Camera!UploadSteps
        /\ \E to \in {Camera!AfterUpload(view.share[f].at, "sent")} \union Faults :
              view' = [view EXCEPT !.share[f].at = to]
  BY DEF Camera!UploadStep
<1>2. PICK to \in {Camera!AfterUpload(view.share[f].at, "sent")} \union Faults :
        view' = [view EXCEPT !.share[f].at = to]
  BY <1>1
<1>3. to \in Camera!Calls \union Camera!UploadSteps /\ to \notin {"idle", "ok"}
  <2>1. Camera!AfterUpload(view.share[f].at, "sent") \in {"put", "register", "sent"}
    BY <1>1 DEF Camera!AfterUpload, Camera!UploadSteps
  <2> QED
    BY <2>1, CameraBounds DEF Camera!Calls, Camera!Ends, Camera!UploadSteps
<1> DEFINE r == [view.share[f] EXCEPT !.at = to]
<1>4. /\ r \in [at : Camera!Calls \union Camera!UploadSteps, capture : {Camera!None} \union Camera!Acts]
      /\ r.at = to /\ r.capture = view.share[f].capture
      /\ view' = [view EXCEPT !.share[f] = r]
  BY <1>0, <1>2, <1>3 DEF CameraState
<1> HIDE DEF r
<1>5. /\ view' \in CameraState /\ view'.share[f] = r
      /\ \A g \in Camera!Flows \ {f} : view'.share[g] = view.share[g]
  BY <1>0, <1>4, CameraFlowIs
<1>6. /\ view'.busy = view.busy /\ view'.acts = view.acts
      /\ view'.captured = view.captured /\ view'.blob = view.blob
      /\ view'.stored = view.stored /\ view'.lost = view.lost
      /\ view'.freed = view.freed
  BY <1>0, <1>4 DEF CameraState
<1>7. view.share[f].at \notin {"idle", "ok"} /\ view'.share[f].at \notin {"idle", "ok"}
      /\ view'.share[f].capture = view.share[f].capture
  BY <1>1, <1>3, <1>4, <1>5 DEF Camera!UploadSteps
<1>8. \A g \in Camera!Flows :
        /\ view'.share[g].at \notin {"idle", "ok"} <=> view.share[g].at \notin {"idle", "ok"}
        /\ view'.share[g].at = "idle" <=> view.share[g].at = "idle"
        /\ view'.share[g].at = "ok" <=> view.share[g].at = "ok"
        /\ view'.share[g].capture = view.share[g].capture
  BY <1>5, <1>7
<1>9. CameraCaptures(view')
  BY <1>0, <1>6, <1>8 DEF CameraGood, CameraCaptures
<1>10. CameraOnce(view) => CameraOnce(view')
  BY <1>6, <1>8 DEF CameraOnce, CameraOwn
<1> QED
  BY <1>0, <1>5, <1>6, <1>9, <1>10 DEF CameraInv, CameraGood

LEMMA CameraShareServed ==
  ASSUME CameraInv, Camera!ServeStory PROVE CameraInv'
<1>0. view \in CameraState /\ CameraGood(view)
  BY DEF CameraInv, CameraGood
<1>1. PICK f \in Camera!Flows, end \in Camera!Ends : \E done \in Camera!Effects(end) :
        /\ view.share[f].at = "sent"
        /\ view' = [view EXCEPT !.share[f].at = end,
                        !.lost = IF end = "lost" THEN @ \union {view.share[f].capture} ELSE @,
                        !.stored[view.share[f].capture] = IF done THEN @ + 1 ELSE @]
  BY DEF Camera!ServeStory
<1>2. PICK done \in Camera!Effects(end) :
        /\ view.share[f].at = "sent"
        /\ view' = [view EXCEPT !.share[f].at = end,
                        !.lost = IF end = "lost" THEN @ \union {view.share[f].capture} ELSE @,
                        !.stored[view.share[f].capture] = IF done THEN @ + 1 ELSE @]
  BY <1>1
<1> DEFINE a == view.share[f].capture
           r == [view.share[f] EXCEPT !.at = end]
           stored == [view.stored EXCEPT ![a] = IF done THEN @ + 1 ELSE @]
           lost == IF end = "lost" THEN view.lost \union {a} ELSE view.lost
           b == [view EXCEPT !.share[f] = r]
<1>3. a \in Camera!Acts /\ a <= view.acts /\ a # view.blob
  BY <1>0, <1>2, CameraBounds DEF CameraGood, CameraCaptures, CameraState, Camera!Acts
<1>4. /\ r \in [at : Camera!Calls \union Camera!UploadSteps, capture : {Camera!None} \union Camera!Acts]
      /\ r.at = end /\ r.capture = a
  BY <1>0, CameraCallEnds DEF CameraState
<1>5. PICK n \in Nat : n = IF done THEN view.stored[a] + 1 ELSE view.stored[a]
  <2>1. view.stored[a] \in Nat
    BY <1>0, <1>3 DEF CameraState
  <2> QED
    BY <2>1
<1>6. /\ stored \in [Camera!Acts -> Nat] /\ stored[a] = n
      /\ \A x \in Camera!Acts \ {a} : stored[x] = view.stored[x]
  BY <1>0, <1>3, <1>5 DEF CameraState
<1>7. view' = [b EXCEPT !.lost = lost, !.stored = stored]
  BY <1>0, <1>2, <1>4 DEF CameraState
<1> HIDE DEF r, stored
<1>8. b \in CameraState /\ b.share[f] = r /\ \A g \in Camera!Flows \ {f} : b.share[g] = view.share[g]
  BY <1>0, <1>4, CameraFlowIs
<1>9. /\ b.busy = view.busy /\ b.acts = view.acts /\ b.captured = view.captured
      /\ b.blob = view.blob /\ b.freed = view.freed
  BY <1>0 DEF CameraState
<1> HIDE DEF b
<1>10. lost \in SUBSET Camera!Acts /\ view.lost \subseteq lost /\ (end = "lost" => a \in lost)
  BY <1>0, <1>3 DEF CameraState
<1> HIDE DEF lost
<1>11. /\ view' \in CameraState /\ view'.share = b.share /\ view'.stored = stored
       /\ view'.busy = view.busy /\ view'.acts = view.acts
       /\ view'.captured = view.captured /\ view'.blob = view.blob
       /\ view'.freed = view.freed /\ view'.lost = lost
  BY <1>6, <1>7, <1>8, <1>9, <1>10 DEF CameraState
<1>12. end \notin {"idle", "sent"}
  BY CameraCallEnds
<1> HIDE DEF a
<1>12a. view.share[f].capture = a
  BY DEF a
<1>13. CameraCaptures(view')
  BY <1>0, <1>2, <1>3, <1>4, <1>6, <1>8, <1>11, <1>12, <1>12a DEF CameraGood, CameraCaptures
<1>14. ASSUME NEW x \in Camera!Acts \ (view'.lost \union view'.freed)
       PROVE  CameraOwn(view', x)
  <2>1. CameraOwn(view, x)
    BY <1>0, <1>10, <1>11 DEF CameraGood, CameraOnce
  <2>2. /\ view'.share[f].at = end /\ view'.share[f].capture = a
        /\ view'.stored[a] = n
        /\ \A g \in Camera!Flows \ {f} : view'.share[g] = view.share[g]
        /\ \A y \in Camera!Acts \ {a} : view'.stored[y] = view.stored[y]
    BY <1>4, <1>6, <1>8, <1>11
  <2>3. CASE x = a
    <3>1. done <=> end = "ok"
      BY <1>10, <1>11, <2>3, CameraHowItEnds
    <3>2. view.stored[a] = 0
      BY <1>2, <1>12a, <2>1, <2>3 DEF CameraOwn
    <3>3. n = IF end = "ok" THEN 1 ELSE 0
      BY <1>5, <3>1, <3>2
    <3>4. \A g \in Camera!Flows \ {f} : view.share[g].at # "idle" => view.share[g].capture # a
      BY <1>2, <1>12a, <2>1, <2>3 DEF CameraOwn
    <3>5. \A g \in Camera!Flows : view'.share[g].at # "idle" /\ view'.share[g].capture = a <=> g = f
      BY <1>12, <2>2, <3>4
    <3>6. a = view.captured => view.busy
      BY <1>2, <1>12a, <2>1, <2>3 DEF CameraOwn
    <3>7. end # "ok" => view'.stored[a] = 0
      BY <2>2, <3>3
    <3>8. view'.stored[a] <= 1
      BY <2>2, <3>3
    <3> QED
      BY <1>3, <1>11, <2>2, <2>3, <3>5, <3>6, <3>7, <3>8 DEF CameraOwn
  <2>4. CASE x # a
    BY <1>11, <1>12a, <2>1, <2>2, <2>4 DEF CameraOwn
  <2> QED
    BY <2>3, <2>4
<1> QED
  BY <1>11, <1>13, <1>14 DEF CameraInv, CameraGood, CameraOnce

LEMMA CameraShareOver ==
  ASSUME CameraInv, Camera!ShareEnds PROVE CameraInv'
<1>0. view \in CameraState /\ CameraGood(view)
  BY DEF CameraInv, CameraGood
<1> DEFINE c(f) == [view EXCEPT !.share[f] = Camera!Idle]
<1>1. PICK f \in Camera!Flows :
        /\ view.share[f].at \in Camera!Ends
        /\ view' = IF view.share[f].at = "ok" THEN Camera!Closed(c(f))
                   ELSE [c(f) EXCEPT !.busy = FALSE, !.freed = @ \union Camera!Underway(c(f))]
  BY DEF Camera!ShareEnds
<1> DEFINE d == c(f)
<1>2. Camera!Idle \in [at : Camera!Calls \union Camera!UploadSteps, capture : {Camera!None} \union Camera!Acts] /\ Camera!Idle.at = "idle"
  BY CameraCallEnds DEF Camera!Idle
<1>3. /\ d \in CameraState /\ d.share[f] = Camera!Idle
      /\ \A g \in Camera!Flows \ {f} : d.share[g] = view.share[g]
  BY <1>0, <1>2, CameraFlowIs
<1>4. /\ d.busy = view.busy /\ d.acts = view.acts /\ d.captured = view.captured
      /\ d.blob = view.blob /\ d.freed = view.freed /\ d.lost = view.lost
      /\ d.stored = view.stored
  BY <1>0 DEF CameraState
<1>4a. view' = IF view.share[f].at = "ok" THEN Camera!Closed(d)
               ELSE [d EXCEPT !.busy = FALSE, !.freed = @ \union Camera!Underway(d)]
  BY <1>1
<1> HIDE DEF d
<1>5. view.share[f].at \notin {"idle", "sent"}
  BY <1>1, CameraCallEnds
<1>6. CameraCaptures(d)
  BY <1>0, <1>2, <1>3, <1>4 DEF CameraGood, CameraCaptures
<1>7. \A a \in Camera!Acts : a # Camera!None
  BY CameraBounds DEF Camera!Acts, Camera!None
<1>8. CASE view.share[f].at = "ok"
  <2> DEFINE e == [Camera!Reset(d) EXCEPT !.open = FALSE]
  <2>1. view' = Camera!Drive(e)
    BY <1>4a, <1>8 DEF Camera!Closed
  <2>2. e = [d EXCEPT !.captured = Camera!None, !.busy = FALSE, !.open = FALSE]
    BY <1>3 DEF Camera!Reset, CameraState
  <2> HIDE DEF e
  <2>3. /\ e \in CameraState /\ e.open = FALSE /\ e.captured = Camera!None
        /\ e.share = d.share /\ e.acts = view.acts /\ e.blob = view.blob
        /\ e.freed = view.freed /\ e.lost = view.lost /\ e.stored = view.stored
    BY <1>3, <1>4, <2>2 DEF CameraState, Camera!None
  <2>4. CameraCaptures(e)
    <3>1. 0 <= view.acts
      BY <1>0 DEF CameraState
    <3> QED
      BY <1>4, <1>6, <2>3, <3>1 DEF CameraCaptures, Camera!None
  <2>5. CameraOnce(e)
    BY <1>0, <1>2, <1>3, <1>7, <2>3 DEF CameraGood, CameraOnce, CameraOwn
  <2> QED
    BY <2>1, <2>3, <2>4, <2>5, CameraDriveGood DEF CameraInv, CameraGood
<1>9. CASE view.share[f].at # "ok"
  <2> DEFINE freed == view.freed \union Camera!Underway(d)
  <2>1. view' = [d EXCEPT !.busy = FALSE, !.freed = freed]
    BY <1>3, <1>4, <1>4a, <1>9
  <2>2. freed \in SUBSET Camera!Acts /\ view.freed \subseteq freed
        /\ \A g \in Camera!Flows : d.share[g].capture \in Camera!Acts => d.share[g].capture \in freed
    BY <1>0, <1>3, <1>7 DEF CameraState, Camera!Underway
  <2> HIDE DEF freed
  <2>3. /\ view' \in CameraState /\ view'.captured = view.captured
        /\ view'.share = d.share /\ view'.acts = view.acts /\ view'.blob = view.blob
        /\ view'.freed = freed /\ view'.lost = view.lost
        /\ view'.stored = view.stored
    BY <1>3, <1>4, <2>1, <2>2 DEF CameraState
  <2>4. CameraCaptures(view')
    BY <1>4, <1>6, <2>3 DEF CameraCaptures
  <2>5. ASSUME NEW a \in Camera!Acts \ (view'.lost \union view'.freed)
        PROVE  CameraOwn(view', a)
    <3>1. CameraOwn(view, a)
      BY <1>0, <2>2, <2>3 DEF CameraGood, CameraOnce
    <3>2. \A g \in Camera!Flows : d.share[g].capture # a
      BY <2>2, <2>3
    <3>3. \A g \in Camera!Flows \ {f} : view.share[g].capture # a
      BY <1>3, <3>2
    <3>4. view.stored[a] # 0 => a # view.captured
      BY <1>9, <3>1, <3>3 DEF CameraOwn
    <3> QED
      BY <2>3, <3>1, <3>2, <3>4 DEF CameraOwn
  <2> QED
    BY <2>3, <2>4, <2>5 DEF CameraInv, CameraGood, CameraOnce
<1> QED
  BY <1>8, <1>9

LEMMA CameraNextInv == CameraInv /\ [Camera!Next]_view => CameraInv'
<1>1. CameraInv /\ UNCHANGED view => CameraInv'
  BY DEF CameraInv
<1> QED
  BY <1>1, CameraDialogStep, CameraCaptureStep, CameraShareStarts, CameraShareRuns,
     CameraShareServed, CameraShareOver
  DEF Camera!Next, Camera!Progress

LEMMA CameraInvTyped == CameraInv => Camera!TypeOK
  BY DEF CameraInv, CameraGood, CameraState, Camera!TypeOK

LEMMA CameraInvOnce == CameraInv => Camera!SharedOnce
  BY DEF CameraInv, CameraGood, CameraOnce, CameraOwn, Camera!SharedOnce

-----------------------------------------------------------------------------
(* upload/page.tsx: a post is made by the last call of a submission only, of *)
(* the medium it has registered.                                             *)

LEMMA UploadBounds == Faults \subseteq {"refused", "lost"} /\ MaxActs["upload"] \in Nat
  BY Bounds DEF Screens

LEMMA UploadPosted ==
  ASSUME NEW kind
  PROVE  Append(<<>>, kind) # <<>> /\ Len(Append(<<>>, kind)) = 1
  OBVIOUS

\* A call that is not ok may have had its effect, or not.
LEMMA UploadHowItEnds ==
  ASSUME NEW end \in Upload!Ends, NEW effect \in Upload!Effects(end)
  PROVE  effect \in BOOLEAN /\ (end = "ok" => effect = TRUE)
  BY UploadBounds DEF Upload!Ends, Upload!Effects

LEMMA UploadCallEnds == "idle" \notin Upload!Ends /\ "sent" \notin Upload!Ends
  BY UploadBounds DEF Upload!Ends

LEMMA UploadInitInv ==
  ASSUME Upload!Init PROVE UploadInv
<1>1. view \in [
    file : Upload!Kinds, busy : BOOLEAN, done : BOOLEAN, left : BOOLEAN,
    call : [at : Upload!Calls, step : Upload!UploadSteps \union {"post"}, file : Upload!Kinds],
    registered : SUBSET Upload!Submissions, failed : SUBSET Upload!Submissions,
    posts : [Upload!Submissions -> Seq({"post", "reel"})], acts : 0..MaxActs["upload"]]
  BY UploadBounds DEF Upload!Init, Upload!Kinds, Upload!Calls, Upload!UploadSteps
<1> QED
  BY <1>1, UploadBounds DEF Upload!Init, UploadInv, Upload!TypeOK, UploadFate,
     Upload!Submissions

\* A call on its way belongs to a submission.
LEMMA UploadCurrent ==
  ASSUME UploadInv, view.call.at # "idle"
  PROVE  view.busy /\ UploadUnderway /\ view.acts \in Upload!Submissions
  BY UploadBounds DEF UploadInv, Upload!TypeOK, UploadUnderway, Upload!Submissions

LEMMA UploadNextTyped ==
  ASSUME UploadInv, [Upload!Next]_view PROVE Upload!TypeOK'
<1>0. "ok" \in Upload!Calls /\ "sent" \in Upload!Calls /\ "idle" \in Upload!Calls /\ Upload!Ends \subseteq Upload!Calls
  BY DEF Upload!Calls, Upload!Ends
<1> USE DEF UploadInv
<1>1. CASE Upload!SetFile
  BY <1>1 DEF Upload!SetFile, Upload!TypeOK
<1>2. CASE Upload!HandleSubmit
  <2>1. view.acts + 1 \in 0..MaxActs["upload"]
    BY <1>2, UploadBounds DEF Upload!HandleSubmit, Upload!TypeOK
  <2> QED
    BY <1>0, <1>2, <2>1 DEF Upload!HandleSubmit, Upload!TypeOK, Upload!UploadSteps
<1>3. CASE Upload!Serve
  <2>1. view.acts \in Upload!Submissions
    BY <1>3, UploadCurrent DEF Upload!Serve
  <2>2. PICK end \in Upload!Ends, registered \in SUBSET Upload!Submissions, made \in Seq({"post", "reel"}) :
          view' = [view EXCEPT !.call.at = end, !.registered = registered,
                                   !.posts[view.acts] = made]
    <3> DEFINE some == IF view.call.file = "video" THEN "reel" ELSE "post"
               registered(effect) == IF view.call.step = "register" /\ effect
                                     THEN view.registered \union {view.acts}
                                     ELSE view.registered
               made(effect) == IF view.call.step = "post" /\ effect
                               THEN Append(view.posts[view.acts], some)
                               ELSE view.posts[view.acts]
    <3>1. PICK end \in Upload!Ends : \E effect \in Upload!Effects(end) :
            view' = [view EXCEPT !.call.at = end, !.registered = registered(effect),
                                     !.posts[view.acts] = made(effect)]
      BY <1>3 DEF Upload!Serve
    <3>a. PICK effect \in Upload!Effects(end) :
            view' = [view EXCEPT !.call.at = end, !.registered = registered(effect),
                                     !.posts[view.acts] = made(effect)]
      BY <3>1
    <3>2. registered(effect) \in SUBSET Upload!Submissions
      BY <2>1 DEF Upload!TypeOK
    <3>3. made(effect) \in Seq({"post", "reel"})
      BY <2>1 DEF Upload!TypeOK
    <3> HIDE DEF registered, made
    <3> QED
      BY <3>a, <3>2, <3>3
  <2>3. end \in Upload!Calls
    BY <1>0
  <2> DEFINE posts == [view.posts EXCEPT ![view.acts] = made]
             call == [view.call EXCEPT !.at = end]
  <2>4. posts \in [Upload!Submissions -> Seq({"post", "reel"})]
    BY <2>1 DEF Upload!TypeOK
  <2>5. call \in [at : Upload!Calls, step : Upload!UploadSteps \union {"post"}, file : Upload!Kinds]
    BY <2>3 DEF Upload!TypeOK
  <2>6. view' = [view EXCEPT !.call = call, !.registered = registered, !.posts = posts]
    BY <2>2 DEF Upload!TypeOK
  <2> HIDE DEF posts, call
  <2> QED
    BY <2>4, <2>5, <2>6 DEF Upload!TypeOK
<1>4. CASE Upload!NextCall
  <2>1. view.acts \in Upload!Submissions
    BY <1>4, UploadCurrent, UploadCallEnds DEF Upload!NextCall
  <2>2. CASE view.call.at # "ok" \/ view.call.step = "post"
    BY <1>0, <1>4, <2>1, <2>2 DEF Upload!NextCall, Upload!Ended, Upload!TypeOK
  <2>3. CASE ~(view.call.at # "ok" \/ view.call.step = "post")
    <3>1. Upload!AfterUpload(view.call.step, "post") \in Upload!UploadSteps \union {"post"}
      BY <2>3 DEF Upload!AfterUpload, Upload!UploadSteps, Upload!TypeOK
    <3>2. view' = [view EXCEPT !.call.at = "sent",
                       !.call.step = Upload!AfterUpload(view.call.step, "post")]
      BY <1>4, <2>3 DEF Upload!NextCall
    <3> QED
      BY <1>0, <3>1, <3>2 DEF Upload!TypeOK
  <2> QED
    BY <2>2, <2>3
<1>5. CASE Upload!Leave
  BY <1>5 DEF Upload!Leave, Upload!TypeOK
<1>6. CASE UNCHANGED view
  BY <1>6 DEF Upload!TypeOK
<1> QED
  BY <1>1, <1>2, <1>3, <1>4, <1>5, <1>6 DEF Upload!Next, Upload!Progress

LEMMA UploadNextFate ==
  ASSUME UploadInv, [Upload!Next]_view PROVE UploadInv'
<1>0. Upload!TypeOK'
  BY UploadNextTyped
<1>a. view \in [file : Upload!Kinds, busy : BOOLEAN, done : BOOLEAN, left : BOOLEAN,
    call : [at : Upload!Calls, step : Upload!UploadSteps \union {"post"}, file : Upload!Kinds],
    registered : SUBSET Upload!Submissions, failed : SUBSET Upload!Submissions,
    posts : [Upload!Submissions -> Seq({"post", "reel"})], acts : 0..MaxActs["upload"]]
  BY DEF UploadInv, Upload!TypeOK
<1> SUFFICES /\ \A n \in Upload!Submissions : UploadFate(n)'
             /\ view'.busy => UploadUnderway'
             /\ ~view'.busy => view'.call.at = "idle"
  BY <1>0 DEF UploadInv
<1> USE DEF UploadInv, UploadFate, UploadUnderway
<1>1. CASE Upload!SetFile
  BY <1>a, <1>1 DEF Upload!SetFile
<1>2. CASE Upload!HandleSubmit
  <2>1. /\ view'.posts = view.posts /\ view'.failed = view.failed
        /\ view'.registered = view.registered /\ view'.acts = view.acts + 1
        /\ view'.busy = TRUE /\ view'.call.at = "sent" /\ view'.call.step = "ticket"
        /\ ~view.busy /\ view.acts < MaxActs["upload"]
    BY <1>a, <1>2 DEF Upload!HandleSubmit
  <2>2. view.acts \in Nat /\ Upload!Submissions \subseteq Nat
    BY <1>a, UploadBounds DEF Upload!Submissions
  <2>3. \A n \in Upload!Submissions : n < view.acts + 1 => n < view.acts \/ n = view.acts
    BY <2>2
  <2>4. \A n \in Upload!Submissions : n <= view.acts => n <= view.acts + 1 /\ n # view.acts + 1
    BY <2>2
  <2>5. view.acts + 1 \in Upload!Submissions
    BY <2>1, <2>2, UploadBounds DEF Upload!Submissions
  <2>6. view.posts[view.acts + 1] = <<>>
    BY <2>4, <2>5
  <2> QED
    BY <2>1, <2>2, <2>3, <2>4, <2>5, <2>6
<1>3. CASE Upload!Serve
  <2>1. view.busy /\ UploadUnderway /\ view.acts \in Upload!Submissions
    BY <1>3, UploadCurrent DEF Upload!Serve
  <2>0. PICK n \in Upload!Submissions : n = view.acts
    BY <2>1
  <2> DEFINE step == view.call.step
             kind == IF view.call.file = "video" THEN "reel" ELSE "post"
  <2>1a. view.call.at = "sent"
    BY <1>3 DEF Upload!Serve
  <2>1b. PICK end \in Upload!Ends : \E effect \in Upload!Effects(end) :
           view' = [view EXCEPT !.call.at = end,
             !.registered = IF step = "register" /\ effect THEN @ \union {view.acts} ELSE @,
             !.posts[view.acts] = IF step = "post" /\ effect THEN Append(@, kind) ELSE @]
    BY <1>3 DEF Upload!Serve
  <2>1c. PICK effect \in Upload!Effects(end) :
           view' = [view EXCEPT !.call.at = end,
             !.registered = IF step = "register" /\ effect THEN @ \union {view.acts} ELSE @,
             !.posts[view.acts] = IF step = "post" /\ effect THEN Append(@, kind) ELSE @]
    BY <2>1b
  <2>2. /\ view'.posts = [view.posts EXCEPT ![n] =
               IF step = "post" /\ effect THEN Append(@, kind) ELSE @]
        /\ view'.registered = IF step = "register" /\ effect
                                  THEN view.registered \union {n} ELSE view.registered
        /\ view'.failed = view.failed /\ view'.acts = n
        /\ view'.busy = view.busy
        /\ view'.call.at = end /\ view'.call.step = step
    BY <1>a, <2>0, <2>1c
  <2>3. end # "idle" /\ end # "sent" /\ (end = "ok" => effect = TRUE)
    BY UploadHowItEnds, UploadCallEnds
  <2>k. kind \in {"post", "reel"}
    OBVIOUS
  <2> HIDE DEF kind
  <2>4. view.posts[n] = <<>>
    BY <2>0, <2>1, <2>1a, <2>2
  <2>5. view'.posts[n] = IF step = "post" /\ effect THEN Append(<<>>, kind) ELSE <<>>
    BY <1>a, <2>0, <2>1, <2>1a, <2>2, <2>4
  <2>6. \A m \in Upload!Submissions \ {n} : view'.posts[m] = view.posts[m]
    BY <1>a, <2>1, <2>1a, <2>2
  <2>7. ASSUME NEW m \in Upload!Submissions \ {n} PROVE UploadFate(m)'
    <3>1. UploadFate(m)
      OBVIOUS
    <3>2. m <= view'.acts <=> m <= view.acts
      BY <2>0, <2>2
    <3>3. m \in view.registered => m \in view'.registered
      BY <2>2
    <3>4. Len(view'.posts[m]) <= 1
      BY <3>1, <2>6
    <3>5. m < view'.acts \/ (m = view'.acts /\ ~view'.busy) =>
          m \in view'.failed \/ view'.posts[m] # <<>>
      BY <3>1, <2>0, <2>1, <2>1a, <2>2, <2>6
    <3> QED
      BY <3>1, <3>2, <3>3, <3>4, <3>5, <2>6
  <2>8. UploadFate(n)'
    <3>1. Len(view'.posts[n]) <= 1
      BY <2>5, UploadPosted
    <3>2. view'.posts[n] # <<>> => n \in view'.registered
      BY <2>0, <2>1, <2>1a, <2>2, <2>5
    <3>3. n <= view'.acts /\ ~(n < view'.acts) /\ view'.busy
      BY <2>0, <2>1, <2>1a, <2>2, UploadBounds DEF Upload!Submissions
    <3> QED
      BY <3>1, <3>2, <3>3
  <2>9. UploadUnderway'
    <3>1. step = "post" /\ end = "ok" => view'.posts[n] # <<>>
      BY <2>3, <2>5, UploadPosted
    <3>2. step # "post" => view'.posts[n] = <<>>
      BY <2>5
    <3> QED
      BY <2>0, <2>1, <2>1a, <2>2, <2>3, <3>1, <3>2
  <2> QED
    BY <2>0, <2>1, <2>1a, <2>2, <2>7, <2>8, <2>9
<1>4. CASE Upload!NextCall
  <2>1. view.busy /\ UploadUnderway /\ view.acts \in Upload!Submissions
    BY <1>4, UploadCurrent, UploadCallEnds DEF Upload!NextCall
  <2>2. /\ view'.posts = view.posts /\ view'.registered = view.registered
        /\ view'.acts = view.acts
    BY <1>a, <1>4 DEF Upload!NextCall, Upload!Ended
  <2>3. CASE view.call.at # "ok" \/ view.call.step = "post"
    <3>1. /\ view'.busy = FALSE /\ view'.call.at = "idle"
          /\ view'.failed = IF view.call.at = "ok" THEN view.failed
                              ELSE view.failed \union {view.acts}
      BY <1>a, <1>4, <2>3 DEF Upload!NextCall, Upload!Ended
    <3> QED
      BY <2>1, <2>2, <2>3, <3>1
  <2>4. CASE ~(view.call.at # "ok" \/ view.call.step = "post")
    <3>1. /\ view'.busy = view.busy /\ view'.call.at = "sent"
          /\ view'.call.step = Upload!AfterUpload(view.call.step, "post")
          /\ view'.failed = view.failed
      BY <1>a, <1>4, <2>4 DEF Upload!NextCall
    <3>2. Upload!AfterUpload(view.call.step, "post") = "post" => view.call.step = "register"
      BY <1>a, <2>4 DEF Upload!AfterUpload, Upload!UploadSteps
    <3> QED
      BY <2>1, <2>2, <2>4, <3>1, <3>2
  <2> QED
    BY <2>3, <2>4
<1>5. CASE Upload!Leave
  BY <1>a, <1>5 DEF Upload!Leave
<1>6. CASE UNCHANGED view
  BY <1>6
<1> QED
  BY <1>1, <1>2, <1>3, <1>4, <1>5, <1>6 DEF Upload!Next, Upload!Progress

LEMMA UploadInvOnce == UploadInv => Upload!UploadedOnce
<1>1. ASSUME UploadInv, NEW n \in Upload!Submissions PROVE Len(view.posts[n]) <= 1
  BY <1>1 DEF UploadInv, UploadFate
<1>2. ASSUME UploadInv, NEW n \in Upload!Submissions,
             n \notin view.failed, n <= view.acts, n < view.acts \/ ~view.busy
      PROVE  view.posts[n] # <<>>
  <2>1. n < view.acts \/ n = view.acts
    BY <1>2, UploadBounds DEF UploadInv, Upload!TypeOK, Upload!Submissions
  <2> QED
    BY <1>2, <2>1 DEF UploadInv, UploadFate
<1>3. ASSUME UploadInv, NEW n \in Upload!Submissions, view.posts[n] # <<>>
      PROVE  n \in view.registered
  BY <1>3 DEF UploadInv, UploadFate
<1> QED
  BY <1>1, <1>2, <1>3 DEF Upload!UploadedOnce

-----------------------------------------------------------------------------
(* post-grid.tsx: the counter of a cell whose dialog is closed is right, or  *)
(* the one read that is on its way will make it so.                          *)

LEMMA GridBounds == Faults \subseteq {"refused", "lost"} /\ MaxActs["grid"] \in Nat
  BY Bounds DEF Screens

LEMMA GridCallEnds ==
  /\ "idle" \notin Grid!Ends /\ "sent" \notin Grid!Ends /\ Grid!Ends \subseteq Grid!Calls
  /\ "idle" \in Grid!Calls /\ "sent" \in Grid!Calls /\ Grid!Ends \subseteq {"ok", "refused", "lost"}
  BY GridBounds DEF Grid!Ends, Grid!Calls

LEMMA GridSmall ==
  /\ 0 \in Grid!Counts /\ 1 \in Grid!Counts /\ Grid!Counts \subseteq Nat /\ Grid!None \notin Grid!Cells
  /\ Grid!Cells \subseteq Nat
  BY GridBounds DEF Grid!Counts, Grid!None, Grid!Cells

LEMMA GridNumbers ==
  ASSUME NEW g \in GridState
  PROVE  g.acts \in Nat /\ \A c \in Grid!Cells : g.server[c] \in Nat
<1>1. g.acts \in Nat
  BY GridBounds DEF GridState
<1>2. g.server \in [Grid!Cells -> Grid!Counts]
  BY DEF GridState
<1>3. \A c \in Grid!Cells : g.server[c] \in Grid!Counts
  BY <1>2
<1> QED
  BY <1>1, <1>3, GridSmall

LEMMA GridInitInv ==
  ASSUME Grid!Init PROVE GridInv
<1>1. PICK counter \in {"likes", "comments"} : view = [
        counter |-> counter, selected |-> Grid!None, author |-> Grid!None, overtaken |-> {},
        authors |-> {}, server |-> [c \in Grid!Cells |-> 1],
        shown |-> [c \in Grid!Cells |-> IF counter = "likes" THEN 0 ELSE 1],
        seed |-> [c \in Grid!Cells |-> [at |-> IF counter = "likes" THEN "sent" ELSE "idle",
                                   count |-> 0]],
        refreshes |-> {}, pending |-> {}, raced |-> {}, acts |-> 0]
  BY DEF Grid!Init
<1>2. view \in GridState
  BY <1>1, GridCallEnds, GridSmall, GridBounds DEF GridState
<1>3. GridCounted(view) /\ GridAuthors(view)
  BY <1>1 DEF GridCounted, GridAuthors
<1>4. ASSUME NEW c \in Grid!Cells PROVE GridFresh(view, c)
  <2>1. GridReads(view, c) = {}
    BY <1>1 DEF GridReads
  <2>2. GridSeeded(view) => counter # "likes"
    BY <1>1 DEF GridSeeded
  <2>3. view.seed[c].at # "ok"
    BY <1>1
  <2> QED
    BY <1>1, <2>1, <2>2, <2>3 DEF GridFresh
<1> QED
  BY <1>2, <1>3, <1>4 DEF GridInv, GridCells

\* A step that touches the counters of no cell but those it marks.
LEMMA GridCellsKept ==
  ASSUME NEW g \in GridState, GridCells(g), NEW h \in GridState,
         h.server = g.server, h.shown = g.shown, h.seed = g.seed,
         h.refreshes = g.refreshes, g.raced \subseteq h.raced,
         h.selected = g.selected \/ g.selected = Grid!None
  PROVE  GridCells(h)
<1>1. ASSUME NEW c \in Grid!Cells \ h.raced, c # h.selected PROVE GridFresh(h, c)
  <2>1. GridFresh(g, c)
    BY <1>1, GridSmall DEF GridCells
  <2>2. GridReads(h, c) = GridReads(g, c) /\ (GridSeeded(h) <=> GridSeeded(g))
    BY DEF GridReads, GridSeeded
  <2> QED
    BY <2>1, <2>2 DEF GridFresh
<1> QED
  BY <1>1 DEF GridCells

LEMMA GridDialogStep ==
  ASSUME GridInv, Grid!Open \/ Grid!AuthorAnswered \/ Grid!Click
  PROVE  GridInv'
<1>0. view \in GridState /\ GridCounted(view) /\ GridAuthors(view) /\ GridCells(view)
  BY DEF GridInv
<1>a. view.acts \in Nat /\ \A c \in Grid!Cells : view.server[c] \in Nat
  BY <1>0, GridNumbers
<1>1. CASE Grid!Open
  <2>1. PICK c \in Grid!Cells : /\ Grid!Act /\ view.selected = Grid!None
                           /\ view' = [view EXCEPT !.acts = @ + 1, !.selected = c, !.author = Grid!None,
                                !.overtaken = {a.post : a \in view.authors},
                                !.authors = @ \union {[n |-> view.acts + 1, post |-> c]}]
    BY <1>1 DEF Grid!Open
  <2> DEFINE call == [n |-> view.acts + 1, post |-> c]
  <2>2. view.acts + 1 \in 0..MaxActs["grid"] /\ call \in [n : 1..MaxActs["grid"], post : Grid!Cells] /\ call.post = c
    BY <1>0, <2>1, GridBounds DEF Grid!Act, GridState
  <2> HIDE DEF call
  <2>3. PICK authors \in SUBSET [n : 1..MaxActs["grid"], post : Grid!Cells] : authors = view.authors \union {call}
    BY <1>0, <2>2 DEF GridState
  <2>3a. PICK overtaken \in SUBSET Grid!Cells : overtaken = {a.post : a \in view.authors}
    <3>1. \A a \in view.authors : a.post \in Grid!Cells
      BY <1>0 DEF GridState
    <3> QED
      BY <3>1
  <2>4. view' = [view EXCEPT !.acts = view.acts + 1, !.selected = c, !.author = Grid!None,
                             !.overtaken = overtaken, !.authors = authors]
    BY <1>0, <2>1, <2>3, <2>3a DEF GridState, call
  <2>5. /\ view' \in GridState /\ view'.acts = view.acts + 1 /\ view'.selected = c
        /\ view'.author = Grid!None /\ view'.overtaken = overtaken /\ view'.authors = authors
        /\ view'.server = view.server /\ view'.shown = view.shown /\ view'.seed = view.seed
        /\ view'.refreshes = view.refreshes /\ view'.raced = view.raced
        /\ view'.pending = view.pending
    BY <1>0, <2>2, <2>4 DEF GridState
  <2>6. GridCells(view')
    BY <1>0, <2>1, <2>5, GridCellsKept
  <2>7. GridCounted(view')
    BY <1>0, <1>a, <2>5 DEF GridCounted
  <2>8. GridAuthors(view')
    BY <2>2, <2>3, <2>3a, <2>5 DEF GridAuthors
  <2> QED
    BY <2>5, <2>6, <2>7, <2>8 DEF GridInv
<1>2. CASE Grid!AuthorAnswered
  <2>1. PICK call \in view.authors, end \in Grid!Ends :
          view' = [view EXCEPT !.authors = @ \ {call},
                     !.author = CASE end = "ok"      -> call.post
                                  [] end = "refused" -> Grid!None
                                  [] end = "lost"    -> @]
    BY <1>2 DEF Grid!AuthorAnswered
  <2>2. call.post \in Grid!Cells /\ view.author \in Grid!Cells \union {Grid!None}
    BY <1>0 DEF GridState
  <2>3. PICK author \in {call.post, Grid!None, view.author} :
          view' = [view EXCEPT !.authors = view.authors \ {call}, !.author = author]
    <3>1. CASE end = "ok"
      BY <2>1, <3>1
    <3>2. CASE end = "refused"
      BY <2>1, <3>2
    <3>3. CASE end = "lost"
      BY <2>1, <3>3
    <3> QED
      BY <3>1, <3>2, <3>3, GridCallEnds
  <2>4. author \in Grid!Cells \union {Grid!None}
    BY <2>2
  <2>5. /\ view' \in GridState /\ view'.acts = view.acts /\ view'.selected = view.selected
        /\ view'.author = author /\ view'.overtaken = view.overtaken
        /\ view'.authors = view.authors \ {call}
        /\ view'.server = view.server /\ view'.shown = view.shown /\ view'.seed = view.seed
        /\ view'.refreshes = view.refreshes /\ view'.raced = view.raced
        /\ view'.pending = view.pending
    BY <1>0, <2>3, <2>4 DEF GridState
  <2>6. GridCells(view')
    BY <1>0, <2>5, GridCellsKept
  <2>7. GridCounted(view')
    BY <1>0, <2>5 DEF GridCounted
  <2>8. GridAuthors(view')
    BY <1>0, <2>5 DEF GridAuthors
  <2> QED
    BY <2>5, <2>6, <2>7, <2>8 DEF GridInv
<1>3. CASE Grid!Click
  <2>1. /\ Grid!Act /\ view.selected # Grid!None /\ view.selected \notin view.pending
        /\ view' = [view EXCEPT !.acts = @ + 1, !.pending = @ \union {view.selected}]
    BY <1>3 DEF Grid!Click
  <2>2. view.acts + 1 \in 0..MaxActs["grid"] /\ view.selected \in Grid!Cells
    BY <1>0, <2>1, GridBounds DEF Grid!Act, GridState
  <2>3. PICK pending \in SUBSET Grid!Cells : pending = view.pending \union {view.selected}
    BY <1>0, <2>2 DEF GridState
  <2>4. view' = [view EXCEPT !.acts = view.acts + 1, !.pending = pending]
    BY <2>1, <2>3
  <2>5. /\ view' \in GridState /\ view'.acts = view.acts + 1 /\ view'.selected = view.selected
        /\ view'.author = view.author /\ view'.overtaken = view.overtaken
        /\ view'.authors = view.authors
        /\ view'.server = view.server /\ view'.shown = view.shown /\ view'.seed = view.seed
        /\ view'.refreshes = view.refreshes /\ view'.raced = view.raced
        /\ view'.pending = pending
    BY <1>0, <2>2, <2>4 DEF GridState
  <2>6. GridCells(view')
    BY <1>0, <2>5, GridCellsKept
  <2>7. GridCounted(view')
    BY <1>0, <1>a, <2>3, <2>5 DEF GridCounted
  <2>8. GridAuthors(view')
    BY <1>0, <2>5 DEF GridAuthors
  <2> QED
    BY <2>5, <2>6, <2>7, <2>8 DEF GridInv
<1> QED
  BY <1>1, <1>2, <1>3

LEMMA GridClickServed ==
  ASSUME GridInv, Grid!ServeClick PROVE GridInv'
<1>0. view \in GridState /\ GridCounted(view) /\ GridAuthors(view) /\ GridCells(view)
  BY DEF GridInv
<1>a. view.acts \in Nat /\ \A c \in Grid!Cells : view.server[c] \in Nat
  BY <1>0, GridNumbers
<1>1. PICK c \in view.pending :
        view' = [view EXCEPT !.pending = @ \ {c}, !.server[c] = @ + 1,
                   !.raced = IF view.selected = c THEN @ ELSE @ \union {c}]
  BY DEF Grid!ServeClick
<1>2. c \in Grid!Cells
  BY <1>0, <1>1 DEF GridState
<1>3. view.server[c] + 1 \in Grid!Counts
  BY <1>0, <1>a, <1>1, <1>2, GridBounds DEF GridCounted, GridState, Grid!Counts
<1> DEFINE server == [view.server EXCEPT ![c] = view.server[c] + 1]
<1>4. /\ server \in [Grid!Cells -> Grid!Counts] /\ server[c] = view.server[c] + 1
      /\ \A d \in Grid!Cells \ {c} : server[d] = view.server[d]
  BY <1>0, <1>2, <1>3 DEF GridState
<1>5. PICK raced \in SUBSET Grid!Cells :
        raced = IF view.selected = c THEN view.raced ELSE view.raced \union {c}
  BY <1>0, <1>2 DEF GridState
<1>6. view' = [view EXCEPT !.pending = view.pending \ {c}, !.server = server, !.raced = raced]
  BY <1>0, <1>1, <1>5 DEF GridState
<1> HIDE DEF server
<1>7. /\ view' \in GridState /\ view'.acts = view.acts /\ view'.selected = view.selected
      /\ view'.author = view.author /\ view'.overtaken = view.overtaken
      /\ view'.authors = view.authors
      /\ view'.server = server /\ view'.shown = view.shown /\ view'.seed = view.seed
      /\ view'.refreshes = view.refreshes /\ view'.raced = raced
      /\ view'.pending = view.pending \ {c}
  BY <1>0, <1>4, <1>6 DEF GridState
<1>8. GridCounted(view')
  BY <1>0, <1>a, <1>1, <1>4, <1>7 DEF GridCounted
<1>9. GridAuthors(view')
  BY <1>0, <1>7 DEF GridAuthors
<1>10. ASSUME NEW d \in Grid!Cells \ view'.raced, d # view'.selected PROVE GridFresh(view', d)
  <2>1. d # c /\ d \notin view.raced
    BY <1>5, <1>7, <1>10
  <2>2. GridFresh(view, d) /\ view'.server[d] = view.server[d]
    BY <1>0, <1>4, <1>7, <1>10, <2>1 DEF GridCells
  <2> QED
    BY <1>7, <2>2 DEF GridFresh, GridReads, GridSeeded
<1> QED
  BY <1>7, <1>8, <1>9, <1>10 DEF GridInv, GridCells

\* The others change a count that is still to be read, or the cell is marked.
LEMMA GridOthersStep ==
  ASSUME GridInv, Grid!OthersClick PROVE GridInv'
<1>0. view \in GridState /\ GridCounted(view) /\ GridAuthors(view) /\ GridCells(view)
  BY DEF GridInv
<1>a. view.acts \in Nat /\ \A c \in Grid!Cells : view.server[c] \in Nat
  BY <1>0, GridNumbers
<1>1. PICK c \in Grid!Cells :
        /\ Grid!Act
        /\ view' = [view EXCEPT !.acts = @ + 1, !.server[c] = @ + 1,
                      !.raced = IF Grid!ToBeRead(c) THEN @ ELSE @ \union {c}]
  BY DEF Grid!OthersClick
<1>2. view.acts + 1 \in 0..MaxActs["grid"]
  BY <1>0, <1>1, GridBounds DEF Grid!Act, GridState
<1>3. view.server[c] + 1 \in Grid!Counts
  BY <1>0, <1>a, <1>2, GridBounds DEF GridCounted, Grid!Counts
<1> DEFINE server == [view.server EXCEPT ![c] = view.server[c] + 1]
<1>4. /\ server \in [Grid!Cells -> Grid!Counts] /\ server[c] = view.server[c] + 1
      /\ \A d \in Grid!Cells \ {c} : server[d] = view.server[d]
  BY <1>0, <1>3 DEF GridState
<1>5. PICK raced \in SUBSET Grid!Cells :
        raced = IF Grid!ToBeRead(c) THEN view.raced ELSE view.raced \union {c}
  BY <1>0 DEF GridState
<1>6. view' = [view EXCEPT !.acts = view.acts + 1, !.server = server, !.raced = raced]
  BY <1>0, <1>1, <1>5 DEF GridState
<1> HIDE DEF server
<1>7. /\ view' \in GridState /\ view'.acts = view.acts + 1 /\ view'.selected = view.selected
      /\ view'.author = view.author /\ view'.overtaken = view.overtaken
      /\ view'.authors = view.authors
      /\ view'.server = server /\ view'.shown = view.shown /\ view'.seed = view.seed
      /\ view'.refreshes = view.refreshes /\ view'.raced = raced
      /\ view'.pending = view.pending
  BY <1>0, <1>2, <1>4, <1>6 DEF GridState
<1>8. GridCounted(view')
  BY <1>0, <1>a, <1>4, <1>7 DEF GridCounted
<1>9. GridAuthors(view')
  BY <1>0, <1>7 DEF GridAuthors
<1>10. ASSUME NEW d \in Grid!Cells \ view'.raced, d # view'.selected PROVE GridFresh(view', d)
  <2>1. d \notin view.raced /\ GridFresh(view, d)
    BY <1>0, <1>5, <1>7, <1>10 DEF GridCells
  <2>2. GridReads(view', d) = GridReads(view, d) /\ (GridSeeded(view') <=> GridSeeded(view))
    BY <1>7 DEF GridReads, GridSeeded
  <2>3. CASE d # c
    BY <1>4, <1>7, <2>1, <2>2, <2>3 DEF GridFresh
  <2>4. CASE d = c
    <3>1. view.seed[c].at = "sent" \/ \E x \in GridReads(view, c) : ~x.read
      BY <1>5, <1>7, <1>10, <2>4 DEF Grid!ToBeRead, GridReads
    <3>2. CASE view.seed[c].at = "sent"
      <4>1. ~GridSeeded(view)
        BY <3>2 DEF GridSeeded
      <4> QED
        BY <1>7, <2>1, <2>2, <2>4, <3>2, <4>1 DEF GridFresh
    <3>3. CASE \E x \in GridReads(view, c) : ~x.read
      <4>1. \A x \in GridReads(view, c) : ~x.read
        BY <2>1, <2>4, <3>3 DEF GridFresh
      <4> QED
        BY <1>7, <2>1, <2>2, <2>4, <3>3, <4>1 DEF GridFresh
    <3> QED
      BY <3>1, <3>2, <3>3
  <2> QED
    BY <2>3, <2>4
<1> QED
  BY <1>7, <1>8, <1>9, <1>10 DEF GridInv, GridCells

LEMMA GridCloseStep ==
  ASSUME GridInv, Grid!Close PROVE GridInv'
<1>0. view \in GridState /\ GridCounted(view) /\ GridAuthors(view) /\ GridCells(view)
  BY DEF GridInv
<1> DEFINE c == view.selected
           call == [n |-> view.acts, post |-> c, read |-> FALSE, count |-> 0]
<1>1. /\ c # Grid!None
      /\ view' = [view EXCEPT !.selected = Grid!None, !.author = Grid!None,
                    !.raced = IF Grid!Seeded /\ ~Grid!Refreshing(view.selected)
                              THEN @ \ {view.selected} ELSE @ \union {view.selected},
                    !.refreshes = @ \union {[n |-> view.acts, post |-> view.selected,
                                             read |-> FALSE, count |-> 0]}]
  BY DEF Grid!Close
<1>2. c \in Grid!Cells /\ view.acts \in 1..MaxActs["grid"]
  BY <1>0, <1>1, GridBounds DEF GridState, GridCounted
<1>3. call \in GridRead /\ call.post = c /\ call.read = FALSE
  BY <1>2, GridSmall DEF GridRead
<1>4. Grid!Seeded <=> GridSeeded(view)
  BY DEF Grid!Seeded, GridSeeded
<1>5. Grid!Refreshing(c) <=> GridReads(view, c) # {}
  BY DEF Grid!Refreshing, GridReads
<1> HIDE DEF call
<1>6. PICK raced \in SUBSET Grid!Cells :
        raced = IF GridSeeded(view) /\ GridReads(view, c) = {}
                THEN view.raced \ {c} ELSE view.raced \union {c}
  BY <1>0, <1>2 DEF GridState
<1>7. PICK refreshes \in SUBSET GridRead : refreshes = view.refreshes \union {call}
  BY <1>0, <1>3 DEF GridState
<1>8. view' = [view EXCEPT !.selected = Grid!None, !.author = Grid!None, !.raced = raced,
                           !.refreshes = refreshes]
  BY <1>1, <1>4, <1>5, <1>6, <1>7 DEF call
<1>9. /\ view' \in GridState /\ view'.acts = view.acts /\ view'.selected = Grid!None
      /\ view'.server = view.server /\ view'.shown = view.shown /\ view'.seed = view.seed
      /\ view'.refreshes = refreshes /\ view'.raced = raced
      /\ view'.pending = view.pending
  BY <1>0, <1>8 DEF GridState
<1>10. GridCounted(view')
  BY <1>0, <1>9 DEF GridCounted
<1>11. GridAuthors(view')
  BY <1>9 DEF GridAuthors
<1>12. ASSUME NEW d \in Grid!Cells \ view'.raced PROVE GridFresh(view', d)
  <2>1. CASE d # c
    <3>1. GridFresh(view, d)
      BY <1>0, <1>6, <1>9, <1>12, <2>1 DEF GridCells
    <3>2. GridReads(view', d) = GridReads(view, d)
      BY <1>3, <1>7, <1>9, <2>1 DEF GridReads
    <3> QED
      BY <1>9, <3>1, <3>2 DEF GridFresh, GridSeeded
  <2>2. CASE d = c
    <3>1. GridSeeded(view) /\ GridReads(view, c) = {}
      BY <1>6, <1>9, <1>12, <2>2
    <3>2. GridReads(view', c) = {call}
      BY <1>3, <1>7, <1>9, <3>1 DEF GridReads
    <3>3. GridSeeded(view')
      BY <1>9, <3>1 DEF GridSeeded
    <3> QED
      BY <1>3, <1>9, <2>2, <3>2, <3>3 DEF GridFresh
  <2> QED
    BY <2>1, <2>2
<1> QED
  BY <1>9, <1>10, <1>11, <1>12 DEF GridInv, GridCells

\* Nothing but the counters changes: no dialog is concerned.
LEMMA GridCountersChange ==
  ASSUME GridInv, NEW h \in GridState, GridCells(h),
         h.acts = view.acts, h.selected = view.selected, h.author = view.author,
         h.overtaken = view.overtaken, h.authors = view.authors, h.server = view.server,
         h.pending = view.pending, h = view'
  PROVE  GridInv'
<1>1. GridCounted(h) /\ GridAuthors(h)
  BY DEF GridInv, GridCounted, GridAuthors
<1> QED
  BY <1>1 DEF GridInv

LEMMA GridReadStep ==
  ASSUME GridInv, Grid!ServeRefresh \/ Grid!Refreshed \/ Grid!RefreshFails
  PROVE  GridInv'
<1>0. view \in GridState /\ GridCells(view)
  BY DEF GridInv
<1>a. \A call \in view.refreshes : call \in GridRead /\ call.post \in Grid!Cells
  BY <1>0 DEF GridState, GridRead
<1>1. CASE Grid!ServeRefresh
  <2>1. PICK call \in view.refreshes :
          /\ ~call.read
          /\ view' = [view EXCEPT !.refreshes = (@ \ {call}) \union
                        {[call EXCEPT !.read = TRUE, !.count = view.server[call.post]]}]
    BY <1>1 DEF Grid!ServeRefresh
  <2> DEFINE read == [call EXCEPT !.read = TRUE, !.count = view.server[call.post]]
  <2>2. /\ call \in GridRead /\ call.post \in Grid!Cells /\ view.server[call.post] \in Grid!Counts
    BY <1>0, <1>a, <2>1 DEF GridState
  <2>3. /\ read \in GridRead /\ read.post = call.post /\ read.count = view.server[call.post]
    BY <2>2 DEF GridRead
  <2> HIDE DEF read
  <2>4. PICK refreshes \in SUBSET GridRead : refreshes = (view.refreshes \ {call}) \union {read}
    BY <1>0, <2>3 DEF GridState
  <2>5. view' = [view EXCEPT !.refreshes = refreshes]
    BY <2>1, <2>4 DEF read
  <2>6. /\ view' \in GridState /\ view'.acts = view.acts /\ view'.selected = view.selected
        /\ view'.author = view.author /\ view'.overtaken = view.overtaken
        /\ view'.authors = view.authors
        /\ view'.server = view.server /\ view'.shown = view.shown /\ view'.seed = view.seed
        /\ view'.refreshes = refreshes /\ view'.raced = view.raced
        /\ view'.pending = view.pending
    BY <1>0, <2>5 DEF GridState
  <2>7. ASSUME NEW d \in Grid!Cells \ view'.raced, d # view'.selected PROVE GridFresh(view', d)
    <3>1. GridFresh(view, d)
      BY <1>0, <2>6, <2>7 DEF GridCells
    <3>2. CASE d # call.post
      <4>1. GridReads(view', d) = GridReads(view, d)
        BY <2>3, <2>4, <2>6, <3>2 DEF GridReads
      <4> QED
        BY <2>6, <3>1, <4>1 DEF GridFresh, GridSeeded
    <3>3. CASE d = call.post
      <4>1. call \in GridReads(view, d) /\ \A x \in GridReads(view, d) : x = call
        BY <2>1, <3>1, <3>3 DEF GridFresh, GridReads
      <4>2. GridReads(view', d) = {read}
        BY <2>3, <2>4, <2>6, <3>3, <4>1 DEF GridReads
      <4>3. GridSeeded(view')
        BY <2>6, <3>1, <4>1 DEF GridFresh, GridSeeded
      <4> QED
        BY <2>3, <2>6, <3>3, <4>2, <4>3 DEF GridFresh
    <3> QED
      BY <3>2, <3>3
  <2>8. GridCells(view')
    BY <2>7 DEF GridCells
  <2>9. PICK h \in GridState : h = view'
    BY <2>6
  <2> QED
    BY <2>6, <2>8, <2>9, GridCountersChange
<1>2. CASE Grid!Refreshed
  <2>1. PICK call \in view.refreshes :
          /\ call.read
          /\ view' = [view EXCEPT !.refreshes = @ \ {call}, !.shown[call.post] = call.count]
    BY <1>2 DEF Grid!Refreshed
  <2> DEFINE shown == [view.shown EXCEPT ![call.post] = call.count]
  <2>2. call.post \in Grid!Cells /\ call.count \in Grid!Counts
    BY <1>a, <2>1 DEF GridRead
  <2>3. /\ shown \in [Grid!Cells -> Grid!Counts] /\ shown[call.post] = call.count
        /\ \A d \in Grid!Cells \ {call.post} : shown[d] = view.shown[d]
    BY <1>0, <2>2 DEF GridState
  <2>5. view' = [view EXCEPT !.refreshes = view.refreshes \ {call}, !.shown = shown]
    BY <1>0, <2>1 DEF GridState
  <2> HIDE DEF shown
  <2>6. /\ view' \in GridState /\ view'.acts = view.acts /\ view'.selected = view.selected
        /\ view'.author = view.author /\ view'.overtaken = view.overtaken
        /\ view'.authors = view.authors
        /\ view'.server = view.server /\ view'.shown = shown /\ view'.seed = view.seed
        /\ view'.refreshes = view.refreshes \ {call} /\ view'.raced = view.raced
        /\ view'.pending = view.pending
    BY <1>0, <2>3, <2>5 DEF GridState
  <2>7. ASSUME NEW d \in Grid!Cells \ view'.raced, d # view'.selected PROVE GridFresh(view', d)
    <3>1. GridFresh(view, d)
      BY <1>0, <2>6, <2>7 DEF GridCells
    <3>2. CASE d # call.post
      <4>1. GridReads(view', d) = GridReads(view, d)
        BY <2>6, <3>2 DEF GridReads
      <4> QED
        BY <2>3, <2>6, <3>1, <3>2, <4>1 DEF GridFresh, GridSeeded
    <3>3. CASE d = call.post
      <4>1. call \in GridReads(view, d) /\ \A x \in GridReads(view, d) : x = call
        BY <2>1, <3>1, <3>3 DEF GridFresh, GridReads
      <4>2. GridReads(view', d) = {}
        BY <2>6, <4>1 DEF GridReads
      <4>3. GridSeeded(view) /\ call.count = view.server[d]
        BY <2>1, <3>1, <4>1 DEF GridFresh
      <4> QED
        BY <2>3, <2>6, <3>3, <4>2, <4>3 DEF GridFresh, GridSeeded
    <3> QED
      BY <3>2, <3>3
  <2>8. GridCells(view')
    BY <2>7 DEF GridCells
  <2>9. PICK h \in GridState : h = view'
    BY <2>6
  <2> QED
    BY <2>6, <2>8, <2>9, GridCountersChange
<1>3. CASE Grid!RefreshFails
  <2>1. PICK call \in view.refreshes :
          view' = [view EXCEPT !.refreshes = @ \ {call}, !.raced = @ \union {call.post}]
    BY <1>3 DEF Grid!RefreshFails
  <2>2. PICK raced \in SUBSET Grid!Cells : raced = view.raced \union {call.post}
    BY <1>0, <1>a, <2>1 DEF GridState
  <2>3. view' = [view EXCEPT !.refreshes = view.refreshes \ {call}, !.raced = raced]
    BY <2>1, <2>2
  <2>6. /\ view' \in GridState /\ view'.acts = view.acts /\ view'.selected = view.selected
        /\ view'.author = view.author /\ view'.overtaken = view.overtaken
        /\ view'.authors = view.authors
        /\ view'.server = view.server /\ view'.shown = view.shown /\ view'.seed = view.seed
        /\ view'.refreshes = view.refreshes \ {call} /\ view'.raced = raced
        /\ view'.pending = view.pending
    BY <1>0, <2>3 DEF GridState
  <2>7. ASSUME NEW d \in Grid!Cells \ view'.raced, d # view'.selected PROVE GridFresh(view', d)
    <3>1. GridFresh(view, d) /\ d # call.post
      BY <1>0, <2>2, <2>6, <2>7 DEF GridCells
    <3>2. GridReads(view', d) = GridReads(view, d)
      BY <2>6, <3>1 DEF GridReads
    <3> QED
      BY <2>6, <3>1, <3>2 DEF GridFresh, GridSeeded
  <2>8. GridCells(view')
    BY <2>7 DEF GridCells
  <2>9. PICK h \in GridState : h = view'
    BY <2>6
  <2> QED
    BY <2>6, <2>8, <2>9, GridCountersChange
<1> QED
  BY <1>1, <1>2, <1>3

LEMMA GridGrowStep ==
  ASSUME GridInv, Grid!Grow PROVE GridInv'
<1>0. view \in GridState /\ GridCounted(view) /\ GridAuthors(view) /\ GridCells(view)
  BY DEF GridInv
<1>a. view.acts \in Nat /\ \A c \in Grid!Cells : view.server[c] \in Nat
  BY <1>0, GridNumbers
<1>1. Grid!Act /\ view.acts + 1 \in 0..MaxActs["grid"]
  BY <1>0, GridBounds DEF Grid!Grow, Grid!Act, GridState
<1> DEFINE seed == [c \in Grid!Cells |-> [at |-> "sent", count |-> 0]]
           ones == [c \in Grid!Cells |-> 1]
<1>2. PICK raced \in SUBSET Grid!Cells : raced = view.raced \union {c \in Grid!Cells : Grid!Refreshing(c)}
  BY <1>0 DEF GridState
<1>3. CASE view.counter = "likes"
  <2>1. view' = [view EXCEPT !.acts = view.acts + 1, !.seed = seed, !.raced = raced]
    BY <1>2, <1>3 DEF Grid!Grow
  <2>2. seed \in [Grid!Cells -> [at : Grid!Calls, count : Grid!Counts]] /\ \A c \in Grid!Cells : seed[c].at = "sent"
    BY GridCallEnds, GridSmall
  <2> HIDE DEF seed
  <2>3. /\ view' \in GridState /\ view'.acts = view.acts + 1 /\ view'.selected = view.selected
        /\ view'.author = view.author /\ view'.overtaken = view.overtaken
        /\ view'.authors = view.authors
        /\ view'.server = view.server /\ view'.shown = view.shown /\ view'.seed = seed
        /\ view'.refreshes = view.refreshes /\ view'.raced = raced
        /\ view'.pending = view.pending
    BY <1>0, <1>1, <2>1, <2>2 DEF GridState
  <2>4. ASSUME NEW c \in Grid!Cells \ view'.raced PROVE GridFresh(view', c)
    <3>1. GridReads(view', c) = {}
      BY <1>2, <2>3, <2>4 DEF GridReads, Grid!Refreshing
    <3>2. ~GridSeeded(view') /\ view'.seed[c].at = "sent"
      BY <2>2, <2>3 DEF GridSeeded
    <3> QED
      BY <3>1, <3>2 DEF GridFresh
  <2>5. GridCounted(view')
    BY <1>0, <1>a, <2>3 DEF GridCounted
  <2>6. GridAuthors(view')
    BY <1>0, <2>3 DEF GridAuthors
  <2> QED
    BY <2>3, <2>4, <2>5, <2>6 DEF GridInv, GridCells
<1>4. CASE view.counter # "likes"
  <2>1. view' = [view EXCEPT !.acts = view.acts + 1, !.shown = ones, !.raced = Grid!Cells]
    BY <1>4 DEF Grid!Grow
  <2>2. ones \in [Grid!Cells -> Grid!Counts]
    BY GridSmall
  <2> HIDE DEF ones
  <2>3. /\ view' \in GridState /\ view'.acts = view.acts + 1 /\ view'.selected = view.selected
        /\ view'.author = view.author /\ view'.overtaken = view.overtaken
        /\ view'.authors = view.authors /\ view'.server = view.server
        /\ view'.raced = Grid!Cells /\ view'.pending = view.pending
    BY <1>0, <1>1, <2>1, <2>2 DEF GridState
  <2>4. GridCells(view')
    BY <2>3 DEF GridCells
  <2>5. GridCounted(view')
    BY <1>0, <1>a, <2>3 DEF GridCounted
  <2>6. GridAuthors(view')
    BY <1>0, <2>3 DEF GridAuthors
  <2> QED
    BY <2>3, <2>4, <2>5, <2>6 DEF GridInv
<1> QED
  BY <1>3, <1>4

LEMMA GridSeedStep ==
  ASSUME GridInv, Grid!ServeSeed \/ Grid!SeedLoaded
  PROVE  GridInv'
<1>0. view \in GridState /\ GridCells(view)
  BY DEF GridInv
<1>1. CASE Grid!ServeSeed
  <2>1. PICK c \in Grid!Cells, end \in Grid!Ends :
          /\ view.seed[c].at = "sent"
          /\ view' = [view EXCEPT !.seed[c] = [at |-> end, count |-> view.server[c]]]
    BY <1>1 DEF Grid!ServeSeed
  <2> DEFINE new == [at |-> end, count |-> view.server[c]]
             seed == [view.seed EXCEPT ![c] = new]
  <2>2. new \in [at : Grid!Calls, count : Grid!Counts] /\ new.at = end /\ new.count = view.server[c]
    BY <1>0, GridCallEnds DEF GridState
  <2>2a. view' = [view EXCEPT !.seed = seed]
    BY <1>0, <2>1 DEF GridState
  <2> HIDE DEF new
  <2>3. /\ seed \in [Grid!Cells -> [at : Grid!Calls, count : Grid!Counts]] /\ seed[c] = new
        /\ \A d \in Grid!Cells \ {c} : seed[d] = view.seed[d]
    BY <1>0, <2>2 DEF GridState
  <2> HIDE DEF seed
  <2>4. /\ view' \in GridState /\ view'.acts = view.acts /\ view'.selected = view.selected
        /\ view'.author = view.author /\ view'.overtaken = view.overtaken
        /\ view'.authors = view.authors
        /\ view'.server = view.server /\ view'.shown = view.shown /\ view'.seed = seed
        /\ view'.refreshes = view.refreshes /\ view'.raced = view.raced
        /\ view'.pending = view.pending
    BY <1>0, <2>2a, <2>3 DEF GridState
  <2>5. ASSUME NEW d \in Grid!Cells \ view'.raced, d # view'.selected PROVE GridFresh(view', d)
    <3>1. GridFresh(view, d) /\ ~GridSeeded(view)
      BY <1>0, <2>1, <2>4, <2>5 DEF GridCells, GridSeeded
    <3>2. GridReads(view, d) = {} /\ GridReads(view', d) = {}
      BY <2>4, <3>1 DEF GridFresh, GridReads
    <3>3. ~GridSeeded(view')
      BY <2>2, <2>3, <2>4, GridCallEnds DEF GridSeeded
    <3> QED
      BY <2>2, <2>3, <2>4, <3>1, <3>2, <3>3 DEF GridFresh
  <2>6. GridCells(view')
    BY <2>5 DEF GridCells
  <2>7. PICK h \in GridState : h = view'
    BY <2>4
  <2> QED
    BY <2>4, <2>6, <2>7, GridCountersChange
<1>2. CASE Grid!SeedLoaded
  <2> DEFINE got == {c \in Grid!Cells : view.seed[c].at = "ok"}
             idle == [c \in Grid!Cells |-> [at |-> "idle", count |-> 0]]
             shown == [c \in Grid!Cells |-> IF c \in got THEN view.seed[c].count ELSE 0]
             settled == [view EXCEPT !.seed = idle]
             rejected == \E c \in Grid!Cells : view.seed[c].at = "lost"
  <2>1. /\ \A c \in Grid!Cells : view.seed[c].at \in Grid!Ends
        /\ view' = IF rejected THEN [settled EXCEPT !.raced = Grid!Cells]
                   ELSE [settled EXCEPT !.raced = @ \union (Grid!Cells \ got), !.shown = shown]
    BY <1>2 DEF Grid!SeedLoaded
  <2>2. idle \in [Grid!Cells -> [at : Grid!Calls, count : Grid!Counts]] /\ \A c \in Grid!Cells : idle[c].at = "idle"
    BY GridCallEnds, GridSmall
  <2>3. shown \in [Grid!Cells -> Grid!Counts] /\ \A c \in got : shown[c] = view.seed[c].count
    BY <1>0, GridSmall DEF GridState
  <2> HIDE DEF idle
  <2>4. CASE rejected
    <3>1. view' = [view EXCEPT !.seed = idle, !.raced = Grid!Cells]
      BY <2>1, <2>4
    <3>2. /\ view' \in GridState /\ view'.acts = view.acts /\ view'.selected = view.selected
          /\ view'.author = view.author /\ view'.overtaken = view.overtaken
          /\ view'.authors = view.authors /\ view'.server = view.server
          /\ view'.raced = Grid!Cells /\ view'.pending = view.pending
      BY <1>0, <2>2, <3>1 DEF GridState
    <3>3. GridCells(view')
      BY <3>2 DEF GridCells
    <3>4. PICK h \in GridState : h = view'
      BY <3>2
    <3> QED
      BY <3>2, <3>3, <3>4, GridCountersChange
  <2>5. CASE ~rejected
    <3>1. PICK raced \in SUBSET Grid!Cells : raced = view.raced \union (Grid!Cells \ got)
      BY <1>0 DEF GridState
    <3>2. view' = [view EXCEPT !.seed = idle, !.raced = raced, !.shown = shown]
      BY <1>0, <2>1, <2>5, <3>1 DEF GridState
    <3> HIDE DEF shown
    <3>3. /\ view' \in GridState /\ view'.acts = view.acts /\ view'.selected = view.selected
          /\ view'.author = view.author /\ view'.overtaken = view.overtaken
          /\ view'.authors = view.authors
          /\ view'.server = view.server /\ view'.shown = shown /\ view'.seed = idle
          /\ view'.refreshes = view.refreshes /\ view'.raced = raced
          /\ view'.pending = view.pending
      BY <1>0, <2>2, <2>3, <3>1, <3>2 DEF GridState
    <3>4. ASSUME NEW d \in Grid!Cells \ view'.raced, d # view'.selected PROVE GridFresh(view', d)
      <4>1. GridFresh(view, d) /\ d \in got
        BY <1>0, <3>1, <3>3, <3>4 DEF GridCells
      <4>2. ~GridSeeded(view)
        BY <2>1, <3>4, GridCallEnds DEF GridSeeded
      <4>3. GridReads(view, d) = {} /\ GridReads(view', d) = {}
        BY <3>3, <4>1, <4>2 DEF GridFresh, GridReads
      <4>4. view.seed[d].count = view.server[d]
        BY <4>1, <4>3 DEF GridFresh
      <4> QED
        BY <2>2, <2>3, <3>3, <4>1, <4>3, <4>4 DEF GridFresh
    <3>5. GridCells(view')
      BY <3>4 DEF GridCells
    <3>6. PICK h \in GridState : h = view'
      BY <3>3
    <3> QED
      BY <3>3, <3>5, <3>6, GridCountersChange
  <2> QED
    BY <2>4, <2>5
<1> QED
  BY <1>1, <1>2

LEMMA GridNextInv == GridInv /\ [Grid!Next]_view => GridInv'
<1>1. GridInv /\ UNCHANGED view => GridInv'
  BY DEF GridInv
<1> QED
  BY <1>1, GridDialogStep, GridClickServed, GridOthersStep, GridCloseStep, GridReadStep,
     GridGrowStep, GridSeedStep
  DEF Grid!Next, Grid!Progress

LEMMA GridInvTyped == GridInv => Grid!TypeOK
  BY DEF GridInv, GridState, GridRead, Grid!TypeOK

LEMMA GridInvAgrees ==
  ASSUME GridInv PROVE Grid!GridAgrees
<1>1. view.selected # Grid!None => view.author \in {Grid!None, view.selected} \union view.overtaken
  BY DEF GridInv, GridAuthors
<1>2. ASSUME Grid!Quiet, view.selected = Grid!None, NEW c \in Grid!Cells \ view.raced
      PROVE  view.shown[c] = view.server[c]
  <2>1. GridFresh(view, c)
    BY <1>2, GridSmall DEF GridInv, GridCells
  <2>2. GridReads(view, c) = {} /\ GridSeeded(view)
    BY <1>2 DEF Grid!Quiet, Grid!Seeded, GridSeeded, GridReads
  <2> QED
    BY <2>1, <2>2 DEF GridFresh
<1> QED
  BY <1>1, <1>2 DEF Grid!GridAgrees

-----------------------------------------------------------------------------
(* realtime.ts: what the server will send the page once it has handled the   *)
(* frames of the open socket is what has a card on screen.                   *)

LEMMA RealtimeGiven == Realtime!SocketAssumption
  BY ComponentAssumption

LEMMA RealtimeCardSame == \A S : Realtime!Cardinality(S) = Cardinality(S)
  BY DEF Realtime!Cardinality, Cardinality

LEMMA RealtimeJoinsNow ==
  ASSUME NEW g, NEW p
  PROVE  RealtimeJoins(g, <<>>, p) <=> p \in g
  BY DEF RealtimeJoins

\* The last frame decides about the posts it names.
LEMMA RealtimeJoinsLast ==
  ASSUME NEW g, NEW fs \in Seq(Realtime!Frames), NEW f \in Realtime!Frames, NEW p
  PROVE  RealtimeJoins(g, Append(fs, f), p)
           <=> IF p \in f.posts THEN f.action = "subscribe" ELSE RealtimeJoins(g, fs, p)
<1> DEFINE new == Append(fs, f)
           n == Len(fs)
<1>1. /\ n \in Nat /\ Len(new) = n + 1 /\ new[n + 1] = f
      /\ \A i \in 1..n : new[i] = fs[i]
  OBVIOUS
<1>2. f.action \in {"subscribe", "unsubscribe"}
  BY DEF Realtime!Frames
<1> HIDE DEF new, n
<1>3. CASE p \in f.posts /\ f.action = "subscribe"
  <2>1. /\ n + 1 \in 0..Len(new) /\ n + 1 # 0
        /\ new[n + 1].action = "subscribe" /\ p \in new[n + 1].posts
        /\ \A j \in n + 1 + 1..Len(new) : p \in new[j].posts => new[j].action = "subscribe"
    BY <1>1, <1>3
  <2>2. RealtimeJoins(g, new, p)
    BY <2>1 DEF RealtimeJoins
  <2> QED
    BY <1>3, <2>2 DEF new
<1>4. CASE p \in f.posts /\ f.action # "subscribe"
  <2>1. ASSUME RealtimeJoins(g, new, p) PROVE FALSE
    <3>1. PICK i \in 0..Len(new) :
            /\ IF i = 0 THEN p \in g ELSE new[i].action = "subscribe" /\ p \in new[i].posts
            /\ \A j \in i + 1..Len(new) : p \in new[j].posts => new[j].action = "subscribe"
      BY <2>1 DEF RealtimeJoins
    <3>2. i = n + 1
      BY <1>1, <1>4, <3>1
    <3> QED
      BY <1>1, <1>4, <3>1, <3>2
  <2> QED
    BY <1>4, <2>1 DEF new
<1>5. CASE p \notin f.posts
  <2>1. ASSUME RealtimeJoins(g, new, p) PROVE RealtimeJoins(g, fs, p)
    <3>1. PICK i \in 0..Len(new) :
            /\ IF i = 0 THEN p \in g ELSE new[i].action = "subscribe" /\ p \in new[i].posts
            /\ \A j \in i + 1..Len(new) : p \in new[j].posts => new[j].action = "subscribe"
      BY <2>1 DEF RealtimeJoins
    <3>2. i \in 0..n
      BY <1>1, <1>5, <3>1
    <3>3. IF i = 0 THEN p \in g ELSE fs[i].action = "subscribe" /\ p \in fs[i].posts
      BY <1>1, <3>1, <3>2
    <3>4. \A j \in i + 1..n : p \in fs[j].posts => fs[j].action = "subscribe"
      BY <1>1, <3>1, <3>2
    <3> QED
      BY <3>2, <3>3, <3>4 DEF RealtimeJoins, n
  <2>2. ASSUME RealtimeJoins(g, fs, p) PROVE RealtimeJoins(g, new, p)
    <3>1. PICK i \in 0..n :
            /\ IF i = 0 THEN p \in g ELSE fs[i].action = "subscribe" /\ p \in fs[i].posts
            /\ \A j \in i + 1..n : p \in fs[j].posts => fs[j].action = "subscribe"
      BY <2>2 DEF RealtimeJoins, n
    <3>2. i \in 0..Len(new)
      BY <1>1, <3>1
    <3>3. IF i = 0 THEN p \in g ELSE new[i].action = "subscribe" /\ p \in new[i].posts
      BY <1>1, <3>1
    <3>4. \A j \in i + 1..Len(new) : p \in new[j].posts => new[j].action = "subscribe"
      BY <1>1, <1>5, <3>1
    <3> QED
      BY <3>2, <3>3, <3>4 DEF RealtimeJoins
  <2> QED
    BY <1>5, <2>1, <2>2 DEF new
<1> QED
  BY <1>3, <1>4, <1>5

\* Handling the first frame changes nothing about where this ends.
LEMMA RealtimeJoinsHead ==
  ASSUME NEW g, NEW fs \in Seq(Realtime!Frames), fs # <<>>, NEW p
  PROVE  RealtimeJoins(IF Head(fs).action = "subscribe" THEN g \union Head(fs).posts
                                                        ELSE g \ Head(fs).posts, Tail(fs), p)
           <=> RealtimeJoins(g, fs, p)
<1> DEFINE f == Head(fs)
           rest == Tail(fs)
           n == Len(rest)
           h == IF f.action = "subscribe" THEN g \union f.posts ELSE g \ f.posts
<1>1. /\ n \in Nat /\ Len(fs) = n + 1 /\ fs[1] = f
      /\ \A i \in 1..n : rest[i] = fs[i + 1]
  OBVIOUS
<1>2. f \in Realtime!Frames
  OBVIOUS
<1>3. p \in h <=> (p \in f.posts /\ f.action = "subscribe") \/ (p \in g /\ p \notin f.posts)
  OBVIOUS
<1> HIDE DEF f, rest, h
<1>4. ASSUME RealtimeJoins(h, rest, p) PROVE RealtimeJoins(g, fs, p)
  <2>1. PICK i \in 0..n :
          /\ IF i = 0 THEN p \in h ELSE rest[i].action = "subscribe" /\ p \in rest[i].posts
          /\ \A j \in i + 1..n : p \in rest[j].posts => rest[j].action = "subscribe"
    BY <1>4 DEF RealtimeJoins
  <2>2. \A j \in i + 2..n + 1 : p \in fs[j].posts => fs[j].action = "subscribe"
    <3> TAKE j \in i + 2..n + 1
    <3>1. j - 1 \in i + 1..n /\ rest[j - 1] = fs[j]
      BY <1>1, <2>1
    <3> QED
      BY <2>1, <3>1
  <2>3. CASE i = 0 /\ p \in f.posts
    <3>1. 1 \in 0..Len(fs) /\ fs[1].action = "subscribe" /\ p \in fs[1].posts
      BY <1>1, <1>3, <2>1, <2>3
    <3>2. \A j \in 1 + 1..Len(fs) : p \in fs[j].posts => fs[j].action = "subscribe"
      BY <1>1, <2>2, <2>3
    <3> QED
      BY <3>1, <3>2 DEF RealtimeJoins
  <2>4. CASE i = 0 /\ p \notin f.posts
    <3>1. p \in g
      BY <1>3, <2>1, <2>4
    <3>2. \A j \in 0 + 1..Len(fs) : p \in fs[j].posts => fs[j].action = "subscribe"
      <4> TAKE j \in 0 + 1..Len(fs)
      <4>1. j = 1 \/ j \in i + 2..n + 1
        BY <1>1, <2>4
      <4> QED
        BY <1>1, <2>2, <2>4, <4>1
    <3>3. 0 \in 0..Len(fs)
      BY <1>1
    <3> QED
      BY <3>1, <3>2, <3>3 DEF RealtimeJoins
  <2>5. CASE i # 0
    <3>1. i + 1 \in 0..Len(fs) /\ i + 1 # 0
      BY <1>1, <2>1
    <3>2. fs[i + 1].action = "subscribe" /\ p \in fs[i + 1].posts
      BY <1>1, <2>1, <2>5
    <3>3. \A j \in i + 1 + 1..Len(fs) : p \in fs[j].posts => fs[j].action = "subscribe"
      BY <1>1, <2>2
    <3> QED
      BY <3>1, <3>2, <3>3 DEF RealtimeJoins
  <2> QED
    BY <2>3, <2>4, <2>5
<1>5. ASSUME RealtimeJoins(g, fs, p) PROVE RealtimeJoins(h, rest, p)
  <2>1. PICK i \in 0..n + 1 :
          /\ IF i = 0 THEN p \in g ELSE fs[i].action = "subscribe" /\ p \in fs[i].posts
          /\ \A j \in i + 1..n + 1 : p \in fs[j].posts => fs[j].action = "subscribe"
    BY <1>1, <1>5 DEF RealtimeJoins
  <2>2. CASE i \in {0, 1}
    <3>1. p \in h
      BY <1>1, <1>3, <2>1, <2>2
    <3>2. \A j \in 0 + 1..n : p \in rest[j].posts => rest[j].action = "subscribe"
      <4> TAKE j \in 0 + 1..n
      <4>1. j + 1 \in i + 1..n + 1 /\ rest[j] = fs[j + 1]
        BY <1>1, <2>2
      <4> QED
        BY <2>1, <4>1
    <3>3. 0 \in 0..n
      BY <1>1
    <3> QED
      BY <3>1, <3>2, <3>3 DEF RealtimeJoins
  <2>3. CASE i \notin {0, 1}
    <3>1. i - 1 \in 0..n /\ i - 1 # 0 /\ rest[i - 1] = fs[i]
      BY <1>1, <2>1, <2>3
    <3>2. \A j \in i - 1 + 1..n : p \in rest[j].posts => rest[j].action = "subscribe"
      <4> TAKE j \in i - 1 + 1..n
      <4>0. i - 1 + 1 = i /\ j \in i..n /\ i \in Nat \ {0}
        BY <1>1, <2>1, <2>3
      <4>1. j + 1 \in i + 1..n + 1 /\ rest[j] = fs[j + 1]
        BY <1>1, <4>0
      <4> QED
        BY <2>1, <4>1
    <3> QED
      BY <2>1, <2>3, <3>1, <3>2 DEF RealtimeJoins
  <2> QED
    BY <2>2, <2>3
<1> QED
  BY <1>4, <1>5 DEF f, rest, h

\* What a frame does to the end, if there is a socket to send it through.
LEMMA RealtimeSendIs ==
  ASSUME NEW r \in RealtimeState, NEW posts \in SUBSET Realtime!Posts,
         NEW action \in {"subscribe", "unsubscribe"}
  PROVE  LET s == Realtime!Send(r, action, posts) IN
         /\ s \in RealtimeState
         /\ s.ws = r.ws /\ s.state = r.state /\ s.groups = r.groups /\ s.mounted = r.mounted
         /\ s.mounts = r.mounts
         /\ \A t \in Realtime!Sockets : r.state[t] # "open" => s.frames[t] = r.frames[t]
         /\ r.ws # 0 /\ r.state[r.ws] = "open" => \A p \in Realtime!Posts :
               RealtimeNow(s, p)
                 <=> IF p \in posts THEN action = "subscribe" ELSE RealtimeNow(r, p)
<1> DEFINE frame == [action |-> action, posts |-> posts]
           w == r.ws
           frames == [r.frames EXCEPT ![w] = Append(r.frames[w], frame)]
           s == [r EXCEPT !.frames = frames]
<1>1. frame \in Realtime!Frames /\ frame.action = action /\ frame.posts = posts
  BY DEF Realtime!Frames
<1>2. CASE ~(w # 0 /\ r.state[w] = "open")
  <2>1. Realtime!Send(r, action, posts) = r
    BY <1>2 DEF Realtime!Send
  <2> QED
    BY <1>2, <2>1
<1>3. CASE w # 0 /\ r.state[w] = "open"
  <2>1. w \in Realtime!Sockets /\ r.frames[w] \in Seq(Realtime!Frames)
    BY <1>3 DEF RealtimeState
  <2>2. Realtime!Send(r, action, posts) = s
    BY <1>3 DEF Realtime!Send
  <2>3. /\ frames \in [Realtime!Sockets -> Seq(Realtime!Frames)]
        /\ frames[w] = Append(r.frames[w], frame)
        /\ \A t \in Realtime!Sockets \ {w} : frames[t] = r.frames[t]
    BY <1>1, <2>1 DEF RealtimeState
  <2> HIDE DEF frames, frame
  <2>4. /\ s \in RealtimeState /\ s.frames = frames
        /\ s.ws = r.ws /\ s.state = r.state /\ s.groups = r.groups /\ s.mounted = r.mounted
        /\ s.mounts = r.mounts
    BY <2>3 DEF RealtimeState
  <2> HIDE DEF s
  <2>5. \A t \in Realtime!Sockets : r.state[t] # "open" => s.frames[t] = r.frames[t]
    BY <1>3, <2>3, <2>4
  <2>6. ASSUME NEW p \in Realtime!Posts
        PROVE  RealtimeNow(s, p)
                 <=> IF p \in posts THEN action = "subscribe" ELSE RealtimeNow(r, p)
    <3>1. RealtimeJoins(r.groups[w], Append(r.frames[w], frame), p)
            <=> IF p \in frame.posts THEN frame.action = "subscribe"
                ELSE RealtimeJoins(r.groups[w], r.frames[w], p)
      BY <1>1, <2>1, RealtimeJoinsLast
    <3> QED
      BY <1>1, <2>3, <2>4, <3>1 DEF RealtimeNow
  <2> QED
    BY <2>2, <2>4, <2>5, <2>6
<1> QED
  BY <1>2, <1>3

LEMMA RealtimeSendGood ==
  ASSUME NEW r, RealtimeSockets(r), NEW posts \in SUBSET Realtime!Posts,
         NEW action \in {"subscribe", "unsubscribe"}, NEW t \in RealtimeState,
         t.ws = r.ws, t.state = r.state, t.groups = r.groups,
         t.frames = Realtime!Send(r, action, posts).frames,
         r.ws # 0 /\ r.state[r.ws] = "open" => \A p \in Realtime!Posts :
            (IF p \in posts THEN action = "subscribe" ELSE RealtimeNow(r, p))
              <=> p \in Realtime!Watched(t.mounted)
  PROVE  RealtimeGood(t)
<1>0. r \in RealtimeState
  BY DEF RealtimeSockets
<1> DEFINE s == Realtime!Send(r, action, posts)
<1>1. /\ s \in RealtimeState /\ s.ws = r.ws /\ s.groups = r.groups
      /\ \A q \in Realtime!Sockets : r.state[q] # "open" => s.frames[q] = r.frames[q]
      /\ r.ws # 0 /\ r.state[r.ws] = "open" => \A p \in Realtime!Posts :
            RealtimeNow(s, p)
              <=> IF p \in posts THEN action = "subscribe" ELSE RealtimeNow(r, p)
  BY <1>0, RealtimeSendIs
<1> HIDE DEF s
<1>2. t.frames = s.frames
  BY DEF s
<1>3. \A p \in Realtime!Posts : RealtimeNow(t, p) <=> RealtimeNow(s, p)
  BY <1>1, <1>2 DEF RealtimeNow
<1>4. RealtimeSockets(t)
  BY <1>1, <1>2 DEF RealtimeSockets
<1> QED
  BY <1>1, <1>3, <1>4 DEF RealtimeGood

\* Nothing is sent, and the same posts are watched.
LEMMA RealtimeSameGood ==
  ASSUME NEW r, RealtimeGood(r), NEW t \in RealtimeState,
         t.ws = r.ws, t.state = r.state, t.groups = r.groups, t.frames = r.frames,
         Realtime!Watched(t.mounted) = Realtime!Watched(r.mounted)
  PROVE  RealtimeGood(t)
  BY DEF RealtimeGood, RealtimeSockets, RealtimeNow

\* A new socket has a number of its own, and nothing was sent through it.
LEMMA RealtimeEnsureGood ==
  ASSUME NEW v, RealtimeGood(v), v.state = view.state, NEW r \in Realtime!Ensure(v)
  PROVE  /\ RealtimeGood(r) /\ r.mounted = v.mounted /\ r.mounts = v.mounts
<1>0. v \in RealtimeState /\ RealtimeGood(v)
  BY DEF RealtimeGood, RealtimeSockets
<1>1. CASE ~v.token \/ (v.ws # 0 /\ v.state[v.ws] \in {"open", "connecting"})
  <2>1. r = v
    BY <1>1 DEF Realtime!Ensure
  <2> QED
    BY <1>0, <2>1
<1>2. CASE ~(~v.token \/ (v.ws # 0 /\ v.state[v.ws] \in {"open", "connecting"}))
  <2>0. r \in {[v EXCEPT !.ws = s, !.state[s] = "connecting"] :
                  s \in {Cardinality(Realtime!Opened) + 1} \intersect Realtime!Sockets}
    BY <1>2, RealtimeCardSame DEF Realtime!Ensure
  <2>1. PICK s \in {Cardinality(Realtime!Opened) + 1} \intersect Realtime!Sockets :
          r = [v EXCEPT !.ws = s, !.state[s] = "connecting"]
    BY <2>0
  <2>2. PICK k \in 0..MaxSockets : Realtime!Opened = 1..k
    BY DEF RealtimeGood, RealtimeSockets, Realtime!Opened
  <2>3. k \in Nat /\ MaxSockets \in Nat
    BY RealtimeGiven, <2>2 DEF Realtime!SocketAssumption
  <2>4. Cardinality(1..k) = k
    BY <2>3, FS_Interval
  <2>5. s = k + 1 /\ s \in Realtime!Sockets
    BY <2>1, <2>2, <2>4, RealtimeCardSame
  <2>6. s \notin Realtime!Opened /\ v.state[s] = "none"
    BY <2>2, <2>3, <2>5 DEF Realtime!Opened
  <2>7. /\ r \in RealtimeState /\ r.ws = s /\ r.state = [v.state EXCEPT ![s] = "connecting"]
        /\ r.frames = v.frames /\ r.groups = v.groups
        /\ r.mounted = v.mounted /\ r.mounts = v.mounts
    BY <1>0, <2>1, <2>5 DEF RealtimeState, Realtime!States
  <2>8. r.state[s] = "connecting" /\ \A q \in Realtime!Sockets \ {s} : r.state[q] = v.state[q]
    BY <1>0, <2>5, <2>7 DEF RealtimeState
  <2>9. {q \in Realtime!Sockets : r.state[q] # "none"} = 1..k + 1
    <3>1. {q \in Realtime!Sockets : r.state[q] # "none"} = Realtime!Opened \union {s}
      BY <2>5, <2>8 DEF Realtime!Opened
    <3> QED
      BY <2>2, <2>3, <2>5, <3>1
  <2>10. k + 1 \in 0..MaxSockets
    BY <2>3, <2>5 DEF Realtime!Sockets
  <2>11. \A q \in Realtime!Sockets : r.state[q] \in {"none", "connecting"} =>
          r.frames[q] = <<>> /\ r.groups[q] = {}
    BY <1>0, <2>6, <2>7, <2>8 DEF RealtimeGood, RealtimeSockets
  <2>12. RealtimeSockets(r)
    BY <2>7, <2>9, <2>10, <2>11 DEF RealtimeSockets
  <2> QED
    BY <2>7, <2>8, <2>12 DEF RealtimeGood
<1> QED
  BY <1>1, <1>2

LEMMA RealtimeWatchedIs ==
  ASSUME NEW m \in SUBSET Cards
  PROVE  /\ Realtime!Watched(m) \in SUBSET Realtime!Posts
         /\ \A c \in Cards : PostOf[c] \in Realtime!Posts
                               /\ Realtime!Watched(m \union {c}) = Realtime!Watched(m) \union {PostOf[c]}
  BY DEF Realtime!Watched, Realtime!Posts

LEMMA RealtimeInitInv ==
  ASSUME Realtime!Init PROVE RealtimeInv
<1>1. 0 \in 0..MaxMounts /\ 0 \in 0..MaxDrops /\ 0 \in 0..MaxSockets
  BY RealtimeGiven DEF Realtime!SocketAssumption
<1> DEFINE state == [s \in Realtime!Sockets |-> "none"]
           frames == [s \in Realtime!Sockets |-> <<>>]
           groups == [s \in Realtime!Sockets |-> {}]
<1>2. /\ state \in [Realtime!Sockets -> Realtime!States]
      /\ {s \in Realtime!Sockets : state[s] # "none"} = 1..0
  BY DEF Realtime!States
<1>3. /\ frames \in [Realtime!Sockets -> Seq(Realtime!Frames)] /\ groups \in [Realtime!Sockets -> SUBSET Realtime!Posts]
      /\ \A s \in Realtime!Sockets : frames[s] = <<>> /\ groups[s] = {}
  OBVIOUS
<1>5. view = [token |-> FALSE, ws |-> 0, state |-> state, frames |-> frames, groups |-> groups,
            mounted |-> {}, reconnectTimer |-> FALSE, mounts |-> 0, drops |-> 0]
  BY DEF Realtime!Init
<1> HIDE DEF state, frames, groups
<1>6. view \in RealtimeState
  BY <1>1, <1>2, <1>3, <1>5 DEF RealtimeState
<1>7. view.ws = 0 /\ view.state = state /\ view.frames = frames /\ view.groups = groups
  BY <1>5
<1>8. \E k \in 0..MaxSockets : {s \in Realtime!Sockets : view.state[s] # "none"} = 1..k
  BY <1>1, <1>2, <1>7
<1> QED
  BY <1>3, <1>6, <1>7, <1>8 DEF RealtimeInv, RealtimeGood, RealtimeSockets

\* Signing in, and a page that listens.
LEMMA RealtimeSignInv ==
  RealtimeInv /\ (Realtime!SignIn \/ Realtime!Listen) => RealtimeInv'
<1> SUFFICES ASSUME RealtimeInv, Realtime!SignIn \/ Realtime!Listen PROVE RealtimeGood(view')
  BY DEF RealtimeInv
<1>1. view \in RealtimeState /\ RealtimeGood(view)
  BY DEF RealtimeInv, RealtimeGood, RealtimeSockets
<1>2. CASE Realtime!SignIn
  <2> DEFINE v == [view EXCEPT !.token = TRUE]
  <2>1. view' \in Realtime!Ensure(v)
    BY <1>2 DEF Realtime!SignIn
  <2>2. /\ v \in RealtimeState /\ v.ws = view.ws /\ v.state = view.state
        /\ v.groups = view.groups /\ v.frames = view.frames /\ v.mounted = view.mounted
    BY <1>1 DEF RealtimeState
  <2> HIDE DEF v
  <2>3. RealtimeGood(v)
    BY <1>1, <2>2, RealtimeSameGood
  <2> QED
    BY <2>1, <2>2, <2>3, RealtimeEnsureGood
<1>3. CASE Realtime!Listen
  BY <1>1, <1>3, RealtimeEnsureGood DEF Realtime!Listen
<1> QED
  BY <1>2, <1>3

LEMMA RealtimeMountInv == RealtimeInv /\ Realtime!Mount => RealtimeInv'
<1> SUFFICES ASSUME RealtimeInv, NEW c \in Cards \ view.mounted, view.mounts < MaxMounts,
                    NEW r \in Realtime!Ensure(view),
                    view' = [IF PostOf[c] \in Realtime!Watched(view.mounted) THEN r
                           ELSE Realtime!Send(r, "subscribe", {PostOf[c]})
                             EXCEPT !.mounted = @ \union {c}, !.mounts = @ + 1]
             PROVE  RealtimeGood(view')
  BY DEF Realtime!Mount, RealtimeInv
<1>1. RealtimeGood(r) /\ r.mounted = view.mounted /\ r.mounts = view.mounts
  BY RealtimeEnsureGood DEF RealtimeInv
<1>2. r \in RealtimeState /\ RealtimeSockets(r)
  BY <1>1 DEF RealtimeGood, RealtimeSockets
<1>3. /\ view.mounted \in SUBSET Cards /\ view.mounted \union {c} \in SUBSET Cards
      /\ r.mounts + 1 \in 0..MaxMounts
  BY <1>1, <1>2, RealtimeGiven DEF RealtimeState, Realtime!SocketAssumption
<1>4. /\ PostOf[c] \in Realtime!Posts
      /\ Realtime!Watched(view.mounted \union {c}) = Realtime!Watched(view.mounted) \union {PostOf[c]}
  BY <1>3, RealtimeWatchedIs
<1>5. CASE PostOf[c] \in Realtime!Watched(view.mounted)
  <2>1. view' = [r EXCEPT !.mounted = @ \union {c}, !.mounts = @ + 1]
    BY <1>5
  <2>2. /\ view' \in RealtimeState /\ view'.ws = r.ws /\ view'.state = r.state
        /\ view'.groups = r.groups /\ view'.frames = r.frames
        /\ view'.mounted = view.mounted \union {c}
    BY <1>1, <1>2, <1>3, <2>1 DEF RealtimeState
  <2>3. Realtime!Watched(view'.mounted) = Realtime!Watched(r.mounted)
    BY <1>1, <1>4, <1>5, <2>2
  <2> QED
    BY <1>1, <2>2, <2>3, RealtimeSameGood
<1>6. CASE PostOf[c] \notin Realtime!Watched(view.mounted)
  <2> DEFINE s == Realtime!Send(r, "subscribe", {PostOf[c]})
  <2>1. view' = [s EXCEPT !.mounted = @ \union {c}, !.mounts = @ + 1]
    BY <1>6
  <2>2. /\ s \in RealtimeState /\ s.ws = r.ws /\ s.state = r.state
        /\ s.groups = r.groups /\ s.mounted = r.mounted /\ s.mounts = r.mounts
    BY <1>2, <1>4, RealtimeSendIs
  <2> HIDE DEF s
  <2> DEFINE m == view.mounted \union {c}
             n == r.mounts + 1
  <2>a. view' = [s EXCEPT !.mounted = m, !.mounts = n]
    BY <1>1, <2>1, <2>2
  <2>b. m \in SUBSET Cards /\ n \in 0..MaxMounts
    BY <1>3
  <2> HIDE DEF m, n
  <2>c. /\ view' \in RealtimeState /\ view'.ws = r.ws /\ view'.state = r.state
        /\ view'.groups = r.groups /\ view'.frames = s.frames /\ view'.mounted = m
    BY <2>2, <2>a, <2>b DEF RealtimeState
  <2>3. view'.mounted = view.mounted \union {c}
    BY <2>c DEF m
  <2>4. ASSUME r.ws # 0, r.state[r.ws] = "open", NEW p \in Realtime!Posts
        PROVE  (IF p \in {PostOf[c]} THEN "subscribe" = "subscribe" ELSE RealtimeNow(r, p))
                 <=> p \in Realtime!Watched(view'.mounted)
    <3>1. RealtimeNow(r, p) <=> p \in Realtime!Watched(view.mounted)
      BY <1>1, <2>4 DEF RealtimeGood
    <3>2. Realtime!Watched(view'.mounted) = Realtime!Watched(view.mounted) \union {PostOf[c]}
      BY <1>4, <2>3
    <3> QED
      BY <3>1, <3>2
  <2>5. r.ws # 0 /\ r.state[r.ws] = "open" => \A p \in Realtime!Posts :
          (IF p \in {PostOf[c]} THEN "subscribe" = "subscribe" ELSE RealtimeNow(r, p))
            <=> p \in Realtime!Watched(view'.mounted)
    BY <2>4
  <2>6. {PostOf[c]} \in SUBSET Realtime!Posts
    BY <1>4
  <2>7. view'.frames = Realtime!Send(r, "subscribe", {PostOf[c]}).frames
    BY <2>c DEF s
  <2> QED
    BY <1>2, <2>c, <2>5, <2>6, <2>7, RealtimeSendGood
<1> QED
  BY <1>5, <1>6

LEMMA RealtimeUnmountInv == RealtimeInv /\ Realtime!Unmount => RealtimeInv'
<1> SUFFICES ASSUME RealtimeInv, NEW c \in view.mounted,
                    view' = [IF PostOf[c] \in Realtime!Watched(view.mounted \ {c}) THEN view
                           ELSE Realtime!Send(view, "unsubscribe", {PostOf[c]}) EXCEPT !.mounted = @ \ {c}]
             PROVE  RealtimeGood(view')
  BY DEF Realtime!Unmount, RealtimeInv
<1>1. view \in RealtimeState /\ RealtimeSockets(view) /\ RealtimeGood(view)
  BY DEF RealtimeInv, RealtimeGood, RealtimeSockets
<1>2. view.mounted \ {c} \in SUBSET Cards /\ c \in Cards
  BY <1>1 DEF RealtimeState
<1>3. (view.mounted \ {c}) \union {c} = view.mounted
  OBVIOUS
<1>4. /\ PostOf[c] \in Realtime!Posts
      /\ Realtime!Watched(view.mounted) = Realtime!Watched(view.mounted \ {c}) \union {PostOf[c]}
  BY <1>2, <1>3, RealtimeWatchedIs
<1>5. CASE PostOf[c] \in Realtime!Watched(view.mounted \ {c})
  <2>1. view' = [view EXCEPT !.mounted = @ \ {c}]
    BY <1>5
  <2>2. /\ view' \in RealtimeState /\ view'.ws = view.ws /\ view'.state = view.state
        /\ view'.groups = view.groups /\ view'.frames = view.frames
        /\ view'.mounted = view.mounted \ {c}
    BY <1>1, <1>2, <2>1 DEF RealtimeState
  <2>3. Realtime!Watched(view'.mounted) = Realtime!Watched(view.mounted)
    BY <1>4, <1>5, <2>2
  <2> QED
    BY <1>1, <2>2, <2>3, RealtimeSameGood
<1>6. CASE PostOf[c] \notin Realtime!Watched(view.mounted \ {c})
  <2> DEFINE s == Realtime!Send(view, "unsubscribe", {PostOf[c]})
  <2>1. view' = [s EXCEPT !.mounted = @ \ {c}]
    BY <1>6
  <2>2. /\ s \in RealtimeState /\ s.ws = view.ws /\ s.state = view.state
        /\ s.groups = view.groups /\ s.mounted = view.mounted
    BY <1>1, <1>4, RealtimeSendIs
  <2> HIDE DEF s
  <2>3. /\ view' \in RealtimeState /\ view'.ws = view.ws /\ view'.state = view.state
        /\ view'.groups = view.groups /\ view'.frames = s.frames
        /\ view'.mounted = view.mounted \ {c}
    BY <1>1, <1>2, <2>1, <2>2 DEF RealtimeState
  <2>4. ASSUME view.ws # 0, view.state[view.ws] = "open", NEW p \in Realtime!Posts
        PROVE  (IF p \in {PostOf[c]} THEN "unsubscribe" = "subscribe" ELSE RealtimeNow(view, p))
                 <=> p \in Realtime!Watched(view'.mounted)
    <3>1. RealtimeNow(view, p) <=> p \in Realtime!Watched(view.mounted)
      BY <1>1, <2>4 DEF RealtimeGood
    <3>2. Realtime!Watched(view'.mounted) = Realtime!Watched(view.mounted) \ {PostOf[c]}
      BY <1>4, <1>6, <2>3
    <3> QED
      BY <3>1, <3>2
  <2>5. view.ws # 0 /\ view.state[view.ws] = "open" => \A p \in Realtime!Posts :
          (IF p \in {PostOf[c]} THEN "unsubscribe" = "subscribe" ELSE RealtimeNow(view, p))
            <=> p \in Realtime!Watched(view'.mounted)
    BY <2>4
  <2>6. {PostOf[c]} \in SUBSET Realtime!Posts
    BY <1>4
  <2>7. view'.frames = Realtime!Send(view, "unsubscribe", {PostOf[c]}).frames
    BY <2>3 DEF s
  <2> QED
    BY <1>1, <2>3, <2>5, <2>6, <2>7, RealtimeSendGood
<1> QED
  BY <1>5, <1>6

LEMMA RealtimeOpenInv == RealtimeInv /\ Realtime!OnOpen => RealtimeInv'
<1> SUFFICES ASSUME RealtimeInv, NEW s \in Realtime!Sockets, view.state[s] = "connecting",
                    view' = Realtime!Send([view EXCEPT !.state[s] = "open"], "subscribe",
                               Realtime!Watched(view.mounted))
             PROVE  RealtimeGood(view')
  BY DEF Realtime!OnOpen, RealtimeInv
<1>1. view \in RealtimeState /\ RealtimeSockets(view) /\ RealtimeGood(view)
  BY DEF RealtimeInv, RealtimeGood, RealtimeSockets
<1> DEFINE r == [view EXCEPT !.state[s] = "open"]
<1>2. /\ r \in RealtimeState /\ r.ws = view.ws /\ r.state = [view.state EXCEPT ![s] = "open"]
      /\ r.frames = view.frames /\ r.groups = view.groups /\ r.mounted = view.mounted
  BY <1>1 DEF RealtimeState, Realtime!States
<1>3. view' = Realtime!Send(r, "subscribe", Realtime!Watched(view.mounted))
  OBVIOUS
<1> HIDE DEF r
<1>4. r.state[s] = "open" /\ \A q \in Realtime!Sockets \ {s} : r.state[q] = view.state[q]
  BY <1>1, <1>2 DEF RealtimeState
<1>5. {q \in Realtime!Sockets : r.state[q] # "none"} = {q \in Realtime!Sockets : view.state[q] # "none"}
  BY <1>4
<1>6. RealtimeSockets(r)
  BY <1>1, <1>2, <1>4, <1>5 DEF RealtimeSockets
<1>7. Realtime!Watched(view.mounted) \in SUBSET Realtime!Posts
  BY <1>1, RealtimeWatchedIs DEF RealtimeState
<1>8. /\ view' \in RealtimeState /\ view'.ws = r.ws /\ view'.state = r.state
      /\ view'.groups = r.groups /\ view'.mounted = view.mounted
      /\ view'.frames = Realtime!Send(r, "subscribe", Realtime!Watched(view.mounted)).frames
  BY <1>2, <1>3, <1>7, RealtimeSendIs
<1>9. ASSUME r.ws # 0, r.state[r.ws] = "open", NEW p \in Realtime!Posts
      PROVE  (IF p \in Realtime!Watched(view.mounted) THEN "subscribe" = "subscribe" ELSE RealtimeNow(r, p))
               <=> p \in Realtime!Watched(view'.mounted)
  <2>1. CASE r.ws = s
    <3>1. r.frames[s] = <<>> /\ r.groups[s] = {}
      BY <1>1, <1>2 DEF RealtimeSockets
    <3>2. ~RealtimeNow(r, p)
      BY <2>1, <3>1, RealtimeJoinsNow DEF RealtimeNow
    <3> QED
      BY <1>8, <3>2
  <2>2. CASE r.ws # s
    <3>1. r.ws \in Realtime!Sockets /\ view.state[view.ws] = "open"
      BY <1>2, <1>4, <1>9, <2>2 DEF RealtimeState
    <3>2. RealtimeNow(view, p) <=> p \in Realtime!Watched(view.mounted)
      BY <1>1, <1>2, <1>9, <3>1 DEF RealtimeGood
    <3>3. RealtimeNow(r, p) <=> RealtimeNow(view, p)
      BY <1>2 DEF RealtimeNow
    <3> QED
      BY <1>8, <3>2, <3>3
  <2> QED
    BY <2>1, <2>2
<1> QED
  BY <1>6, <1>7, <1>8, <1>9, RealtimeSendGood

LEMMA RealtimeDownInv == RealtimeInv /\ (Realtime!Drop \/ Realtime!OnClose \/ Realtime!Reconnect) => RealtimeInv'
<1> SUFFICES ASSUME RealtimeInv, Realtime!Drop \/ Realtime!OnClose \/ Realtime!Reconnect PROVE RealtimeGood(view')
  BY DEF RealtimeInv
<1>1. view \in RealtimeState /\ RealtimeSockets(view) /\ RealtimeGood(view)
  BY DEF RealtimeInv, RealtimeGood, RealtimeSockets
<1>2. CASE Realtime!Drop
  <2>1. PICK s \in Realtime!Sockets :
          /\ view.state[s] \in {"connecting", "open"} /\ view.drops < MaxDrops
          /\ view' = [view EXCEPT !.state[s] = "closing", !.drops = @ + 1]
    BY <1>2 DEF Realtime!Drop
  <2>2. view.drops + 1 \in 0..MaxDrops
    BY <1>1, <2>1, RealtimeGiven DEF RealtimeState, Realtime!SocketAssumption
  <2>3. /\ view' \in RealtimeState /\ view'.ws = view.ws
        /\ view'.state = [view.state EXCEPT ![s] = "closing"]
        /\ view'.frames = view.frames /\ view'.groups = view.groups /\ view'.mounted = view.mounted
    BY <1>1, <2>1, <2>2 DEF RealtimeState, Realtime!States
  <2>4. view'.state[s] = "closing" /\ \A q \in Realtime!Sockets \ {s} : view'.state[q] = view.state[q]
    BY <1>1, <2>3 DEF RealtimeState
  <2>5. {q \in Realtime!Sockets : view'.state[q] # "none"} = {q \in Realtime!Sockets : view.state[q] # "none"}
    BY <2>1, <2>4
  <2>6. RealtimeSockets(view')
    BY <1>1, <2>3, <2>4, <2>5 DEF RealtimeSockets
  <2>7. ASSUME view'.ws # 0, view'.state[view'.ws] = "open", NEW p \in Realtime!Posts
        PROVE  RealtimeNow(view', p) <=> p \in Realtime!Watched(view'.mounted)
    <3>1. view.ws \in Realtime!Sockets /\ view.state[view.ws] = "open"
      BY <1>1, <2>3, <2>4, <2>7 DEF RealtimeState
    <3>2. RealtimeNow(view, p) <=> p \in Realtime!Watched(view.mounted)
      BY <1>1, <2>3, <2>7, <3>1 DEF RealtimeGood
    <3> QED
      BY <2>3, <3>2 DEF RealtimeNow
  <2> QED
    BY <2>6, <2>7 DEF RealtimeGood
<1>3. CASE Realtime!OnClose
  <2>1. PICK s \in Realtime!Sockets :
          /\ view.state[s] = "closing"
          /\ view' = [view EXCEPT !.state[s] = "closed", !.frames[s] = <<>>, !.groups[s] = {},
                        !.ws = 0, !.reconnectTimer = TRUE]
    BY <1>3 DEF Realtime!OnClose
  <2> DEFINE state == [view.state EXCEPT ![s] = "closed"]
             frames == [view.frames EXCEPT ![s] = <<>>]
             groups == [view.groups EXCEPT ![s] = {}]
  <2>2. /\ state \in [Realtime!Sockets -> Realtime!States] /\ frames \in [Realtime!Sockets -> Seq(Realtime!Frames)]
        /\ groups \in [Realtime!Sockets -> SUBSET Realtime!Posts]
    BY <1>1 DEF RealtimeState, Realtime!States
  <2>3. \A q \in Realtime!Sockets \ {s} :
          state[q] = view.state[q] /\ frames[q] = view.frames[q] /\ groups[q] = view.groups[q]
    BY <1>1 DEF RealtimeState
  <2>4. state[s] = "closed"
    BY <1>1 DEF RealtimeState
  <2>5. view' = [view EXCEPT !.state = state, !.frames = frames, !.groups = groups,
                         !.ws = 0, !.reconnectTimer = TRUE]
    BY <2>1
  <2> HIDE DEF state, frames, groups
  <2>6. /\ view' \in RealtimeState /\ view'.ws = 0 /\ view'.state = state
        /\ view'.frames = frames /\ view'.groups = groups
    BY <1>1, <2>2, <2>5 DEF RealtimeState
  <2>7. {q \in Realtime!Sockets : view'.state[q] # "none"} = {q \in Realtime!Sockets : view.state[q] # "none"}
    BY <2>1, <2>3, <2>4, <2>6
  <2> QED
    BY <1>1, <2>3, <2>4, <2>6, <2>7 DEF RealtimeSockets, RealtimeGood
<1>4. CASE Realtime!Reconnect
  <2>1. PICK r \in Realtime!Ensure(view) : view' = [r EXCEPT !.reconnectTimer = FALSE]
    BY <1>4 DEF Realtime!Reconnect
  <2>2. RealtimeGood(r) /\ r \in RealtimeState
    BY RealtimeEnsureGood DEF RealtimeInv, RealtimeGood, RealtimeSockets
  <2>3. /\ view' \in RealtimeState /\ view'.ws = r.ws /\ view'.state = r.state
        /\ view'.groups = r.groups /\ view'.frames = r.frames /\ view'.mounted = r.mounted
    BY <2>1, <2>2 DEF RealtimeState
  <2> QED
    BY <2>2, <2>3, RealtimeSameGood
<1> QED
  BY <1>2, <1>3, <1>4

LEMMA RealtimeServeInv == RealtimeInv /\ Realtime!Serve => RealtimeInv'
<1> SUFFICES ASSUME RealtimeInv, NEW s \in Realtime!Sockets, view.state[s] = "open", view.frames[s] # <<>>,
                    view' = [view EXCEPT !.frames[s] = Tail(@),
                       !.groups[s] = IF Head(view.frames[s]).action = "subscribe"
                                     THEN @ \union Head(view.frames[s]).posts
                                     ELSE @ \ Head(view.frames[s]).posts]
             PROVE  RealtimeGood(view')
  BY DEF Realtime!Serve, RealtimeInv
<1>1. view \in RealtimeState /\ RealtimeSockets(view) /\ RealtimeGood(view)
  BY DEF RealtimeInv, RealtimeGood, RealtimeSockets
<1> DEFINE fs == view.frames[s]
           g == IF Head(fs).action = "subscribe" THEN view.groups[s] \union Head(fs).posts
                                                 ELSE view.groups[s] \ Head(fs).posts
           frames == [view.frames EXCEPT ![s] = Tail(fs)]
           groups == [view.groups EXCEPT ![s] = g]
<1>2. fs \in Seq(Realtime!Frames) /\ Tail(fs) \in Seq(Realtime!Frames) /\ Head(fs) \in Realtime!Frames
  BY <1>1 DEF RealtimeState
<1>3. g \in SUBSET Realtime!Posts
  BY <1>1, <1>2 DEF RealtimeState, Realtime!Frames
<1>4. /\ frames \in [Realtime!Sockets -> Seq(Realtime!Frames)] /\ groups \in [Realtime!Sockets -> SUBSET Realtime!Posts]
      /\ frames[s] = Tail(fs) /\ groups[s] = g
      /\ \A q \in Realtime!Sockets \ {s} : frames[q] = view.frames[q] /\ groups[q] = view.groups[q]
  BY <1>1, <1>2, <1>3 DEF RealtimeState
<1>5. view' = [view EXCEPT !.frames = frames, !.groups = groups]
  OBVIOUS
<1>6. \A p \in Realtime!Posts : RealtimeJoins(g, Tail(fs), p) <=> RealtimeJoins(view.groups[s], fs, p)
  BY <1>2, RealtimeJoinsHead
<1> HIDE DEF frames, groups, g, fs
<1>7. /\ view' \in RealtimeState /\ view'.ws = view.ws /\ view'.state = view.state
      /\ view'.frames = frames /\ view'.groups = groups /\ view'.mounted = view.mounted
  BY <1>1, <1>4, <1>5 DEF RealtimeState
<1>8. RealtimeSockets(view')
  BY <1>1, <1>4, <1>7 DEF RealtimeSockets
<1>9. ASSUME view.ws # 0, view.state[view.ws] = "open", NEW p \in Realtime!Posts
      PROVE  RealtimeNow(view', p) <=> p \in Realtime!Watched(view.mounted)
  <2>1. RealtimeNow(view, p) <=> p \in Realtime!Watched(view.mounted)
    BY <1>1, <1>9 DEF RealtimeGood
  <2>2. RealtimeNow(view', p) <=> RealtimeNow(view, p)
    <3>1. CASE view.ws = s
      <4>1. RealtimeNow(view', p) <=> RealtimeJoins(g, Tail(fs), p)
        BY <1>4, <1>7, <3>1 DEF RealtimeNow
      <4>2. RealtimeNow(view, p) <=> RealtimeJoins(view.groups[s], fs, p)
        BY <3>1 DEF RealtimeNow, fs
      <4> QED
        BY <1>6, <4>1, <4>2
    <3>2. CASE view.ws # s
      <4>1. view.ws \in Realtime!Sockets \ {s}
        BY <1>1, <1>9, <3>2 DEF RealtimeState
      <4> QED
        BY <1>4, <1>7, <4>1 DEF RealtimeNow
    <3> QED
      BY <3>1, <3>2
  <2> QED
    BY <2>1, <2>2
<1> QED
  BY <1>7, <1>8, <1>9 DEF RealtimeGood

LEMMA RealtimeNextInv == RealtimeInv /\ [Realtime!Next]_view => RealtimeInv'
<1>1. ASSUME RealtimeInv, UNCHANGED view PROVE RealtimeInv'
  BY <1>1 DEF RealtimeInv
<1> QED
  BY <1>1, RealtimeSignInv, RealtimeMountInv, RealtimeUnmountInv, RealtimeOpenInv, RealtimeDownInv,
     RealtimeServeInv DEF Realtime!Next, Realtime!Progress

LEMMA RealtimeInvTyped == RealtimeInv => Realtime!TypeOK
  BY DEF RealtimeInv, RealtimeGood, RealtimeSockets, RealtimeState, Realtime!TypeOK

LEMMA RealtimeInvWatches == RealtimeInv => Realtime!SubscribedWhenOpen
<1> SUFFICES ASSUME RealtimeInv, view.ws # 0, view.state[view.ws] = "open", view.frames[view.ws] = <<>>
             PROVE  view.groups[view.ws] = Realtime!Watched(view.mounted)
  BY DEF Realtime!SubscribedWhenOpen
<1>1. /\ view.groups[view.ws] \in SUBSET Realtime!Posts
      /\ Realtime!Watched(view.mounted) \in SUBSET Realtime!Posts
  BY RealtimeWatchedIs DEF RealtimeInv, RealtimeGood, RealtimeSockets, RealtimeState
<1>2. \A p \in Realtime!Posts : p \in view.groups[view.ws] <=> p \in Realtime!Watched(view.mounted)
  BY RealtimeJoinsNow DEF RealtimeInv, RealtimeGood, RealtimeNow
<1> QED
  BY <1>1, <1>2
-----------------------------------------------------------------------------
(* edit-profile-dialog.tsx and avatar-cropper.tsx: what EditProfileProofs    *)
(* proves holds of the dialog of a tab.  Dialog is the module of that proof  *)
(* over the variable of Frontend; its EditProfile and the one Frontend calls *)
(* Edit say the same.                                                        *)

Dialog == INSTANCE EditProfileProofs WITH edit <- view, MaxActs <- MaxActs["edit"]

LEMMA DialogGiven == Dialog!EditAssumption
  BY ComponentAssumption
  DEF Edit!EditAssumption, Dialog!EditAssumption, Edit!CropAssumption,
     Dialog!CropAssumption,
      Edit!FaultKinds, Dialog!FaultKinds

LEMMA DialogSame == (Edit!Init <=> Dialog!Init) /\ (Edit!Next <=> Dialog!Next)
  BY DEF
       Edit!AfterUpload, Dialog!AfterUpload, Edit!Calls, Dialog!Calls,
       Edit!Cancel, Dialog!Cancel, Edit!Clamp, Dialog!Clamp, Edit!Close,
       Dialog!Close, Edit!Confirm, Dialog!Confirm, Edit!Cover, Dialog!Cover,
       Edit!CropAssumption, Dialog!CropAssumption, Edit!CropCovers,
       Dialog!CropCovers, Edit!Cropped, Dialog!Cropped, Edit!DispW,
       Dialog!DispW, Edit!Effects, Dialog!Effects, Edit!Ends, Dialog!Ends,
       Edit!FaultKinds, Dialog!FaultKinds, Edit!Greater, Dialog!Greater,
       Edit!HandleSubmit, Dialog!HandleSubmit, Edit!ImageFails,
       Dialog!ImageFails, Edit!ImageLoaded, Dialog!ImageLoaded, Edit!Init,
       Dialog!Init, Edit!Lesser, Dialog!Lesser, Edit!Next, Dialog!Next,
       Edit!Open, Dialog!Open, Edit!Photos, Dialog!Photos, Edit!PickFile,
       Dialog!PickFile, Edit!Picture, Dialog!Picture, Edit!PointerDown,
       Dialog!PointerDown, Edit!PointerMove, Dialog!PointerMove,
       Edit!PointerUp, Dialog!PointerUp, Edit!Profiles, Dialog!Profiles,
       Edit!Progress, Dialog!Progress, Edit!Saved, Dialog!Saved,
       Edit!ServePatch, Dialog!ServePatch, Edit!Type, Dialog!Type,
       Edit!UploadAvatar, Dialog!UploadAvatar, Edit!UploadFails,
       Dialog!UploadFails, Edit!UploadSteps, Dialog!UploadSteps, Edit!Use,
       Dialog!Use, Edit!Zoom, Dialog!Zoom

LEMMA DialogInvCovers == Dialog!EditInv => Edit!CropCovers
  BY DEF Dialog!EditInv, Dialog!CropCovers, Edit!CropCovers, Dialog!DispW, Edit!DispW,
         Dialog!Cover, Edit!Cover, Dialog!Greater, Edit!Greater

LEMMA DialogInvAgrees == Dialog!EditInv => Edit!SavedProfileAgrees
  BY Dialog!EditInvAgrees DEF Dialog!SavedProfileAgrees, Edit!SavedProfileAgrees

LEMMA DialogInvTyped == Dialog!EditInv => Edit!TypeOK
  BY DEF Dialog!EditInv, Dialog!TypeOK, Edit!TypeOK, Dialog!Picture, Edit!Picture,
         Dialog!Photos, Edit!Photos, Dialog!Profiles, Edit!Profiles,
         Dialog!UploadSteps, Edit!UploadSteps, Dialog!Calls, Edit!Calls,
         Dialog!Ends, Edit!Ends
-----------------------------------------------------------------------------
(* use-realtime.ts: a list at rest and the pushes on their way are together  *)
(* the rows, and none of them twice.                                         *)

LEMMA NotesBounds == Faults \subseteq {"refused", "lost"} /\ MaxActs["notes"] \in Nat
  BY Bounds DEF Screens

LEMMA NotesCardSame == \A S : Notes!Cardinality(S) = Cardinality(S)
  BY DEF Notes!Cardinality, Cardinality

LEMMA NotesSnapshotItem ==
  ASSUME NEW ids, NEW read, NEW t \in NotesSnapshot(ids, read)
  PROVE  t.id \in ids /\ (t.read <=> t.id \in read)
<1>1. PICK i \in ids : t = [id |-> i, read |-> i \in read]
  BY DEF NotesSnapshot
<1>2. t.id = i
  BY <1>1
<1>3. t.read <=> i \in read
  BY <1>1
<1> QED
  BY <1>2, <1>3

\* The list that is made of a snapshot has each of its items once.
LEMMA NotesSnapshotSize ==
  ASSUME NEW r \in Nat, NEW f \in 0..r, NEW read
  PROVE  /\ IsFiniteSet(NotesSnapshot(f..r, read))
         /\ Cardinality(NotesSnapshot(f..r, read)) = r - f + 1
<1> DEFINE g == [i \in f..r |-> [id |-> i, read |-> i \in read]]
           T == NotesSnapshot(f..r, read)
<1>1. \A i \in f..r : g[i] \in T /\ g[i].id = i
  BY DEF NotesSnapshot
<1>2. \A t \in T : \E i \in f..r : g[i] = t
  BY DEF NotesSnapshot
<1>3. g \in Bijection(f..r, T)
  <2>1. g \in [f..r -> T]
    BY <1>1
  <2>2. \A i, j \in f..r : g[i] = g[j] => i = j
    BY <1>1
  <2> HIDE DEF g
  <2> QED
    BY <2>1, <2>2, <1>2 DEF Bijection, Injection, Surjection, IsInjective
<1>4. ExistsBijection(f..r, T)
  BY <1>3 DEF ExistsBijection
<1>5. IsFiniteSet(f..r) /\ Cardinality(f..r) = r - f + 1
  BY FS_Interval
<1> HIDE DEF T
<1>6. IsFiniteSet(T) /\ Cardinality(T) = Cardinality(f..r)
  BY <1>4, <1>5, FS_Bijection
<1> QED
  BY <1>5, <1>6 DEF T

LEMMA NotesNewestFirst ==
  ASSUME NEW r \in Nat, NEW f \in 0..r, NEW read
  PROVE  LET s == Notes!NewestFirst(NotesSnapshot(f..r, read)) IN
         /\ s \in [1..(r - f + 1) -> NotesSnapshot(f..r, read)]
         /\ \A i, j \in 1..(r - f + 1) : s[i].id = s[j].id => i = j
         /\ \A t \in NotesSnapshot(f..r, read) : \E i \in 1..(r - f + 1) : s[i] = t
<1> DEFINE T == NotesSnapshot(f..r, read)
           Sorted(q) == \A i, j \in DOMAIN q : i < j => q[i].id > q[j].id
           w == [i \in 1..(r - f + 1) |-> [id |-> r + 1 - i, read |-> (r + 1 - i) \in read]]
           s == Notes!NewestFirst(T)
<1>1. IsFiniteSet(T) /\ Cardinality(T) = r - f + 1
  BY NotesSnapshotSize
<1>2. w \in [1..(r - f + 1) -> T] /\ Sorted(w)
  <2>1. \A i \in 1..(r - f + 1) : r + 1 - i \in f..r
    OBVIOUS
  <2>2. \A i \in 1..(r - f + 1) : w[i] \in T /\ w[i].id = r + 1 - i
    BY <2>1 DEF NotesSnapshot
  <2>3. w \in [1..(r - f + 1) -> T]
    BY <2>2
  <2>4. \A i, j \in 1..(r - f + 1) : i < j => r + 1 - i > r + 1 - j
    OBVIOUS
  <2>5. DOMAIN w = 1..(r - f + 1)
    OBVIOUS
  <2> HIDE DEF w, T
  <2>6. Sorted(w)
    BY <2>2, <2>4, <2>5
  <2> QED
    BY <2>3, <2>6
<1>3. s = CHOOSE q \in [1..(r - f + 1) -> T] : Sorted(q)
  BY <1>1, NotesCardSame DEF Notes!NewestFirst
<1> HIDE DEF T, w
<1>4. s \in [1..(r - f + 1) -> T] /\ Sorted(s)
  <2> HIDE DEF Sorted, s
  <2> QED
    BY <1>2, <1>3
<1>5. \A i \in 1..(r - f + 1) : s[i] \in T /\ s[i].id \in Int
  <2> HIDE DEF s
  <2>1. \A t \in T : t.id \in Int
    BY DEF T, NotesSnapshot
  <2> QED
    BY <1>4, <2>1
<1>6. \A i, j \in 1..(r - f + 1) : s[i].id = s[j].id => i = j
  <2> HIDE DEF s
  <2> SUFFICES ASSUME NEW i \in 1..(r - f + 1), NEW j \in 1..(r - f + 1), s[i].id = s[j].id
               PROVE  i = j
    OBVIOUS
  <2>1. DOMAIN s = 1..(r - f + 1)
    BY <1>4
  <2>2. ~(i < j) /\ ~(j < i)
    BY <1>4, <1>5, <2>1
  <2> QED
    BY <2>2
<1>7. s \in Surjection(1..(r - f + 1), T)
  <2> HIDE DEF s
  <2>1. s \in Injection(1..(r - f + 1), T)
    BY <1>4, <1>6 DEF Injection, IsInjective
  <2>2. Cardinality(1..(r - f + 1)) = Cardinality(T)
    BY <1>1, FS_Interval
  <2> QED
    BY <1>1, <2>1, <2>2, FS_Injection
<1> QED
  <2> HIDE DEF s
  <2>1. \A t \in T : \E i \in 1..(r - f + 1) : s[i] = t
    BY <1>7 DEF Surjection
  <2> QED
    BY <1>4, <1>6, <2>1 DEF s, T

\* The newest rows, and how many unread ones are left out.
LEMMA NotesNewestIs ==
  ASSUME NEW k \in Nat
  PROVE  \E f \in 0..k : /\ Notes!Newest(0..k) = f..k
                         /\ f = 0 \/ f + NoteLimit - 1 = k
<1>1. NoteLimit \in Nat /\ NoteLimit >= 1
  BY ComponentAssumption DEF Notes!LimitAssumption
<1>2. Notes!Cardinality(0..k) = k + 1
  BY NotesCardSame, FS_Interval
<1>3. Notes!Newest(0..k) = {id \in 0..k : id + NoteLimit >= k + 1}
  BY <1>2 DEF Notes!Newest
<1>4. CASE NoteLimit > k
  <2>1. \A id \in 0..k : id + NoteLimit >= k + 1
    BY <1>1, <1>4
  <2>2. Notes!Newest(0..k) = 0..k
    BY <1>3, <2>1
  <2> QED
    BY <2>2
<1>5. CASE NoteLimit <= k
  <2>1. k - NoteLimit + 1 \in 0..k /\ (k - NoteLimit + 1) + NoteLimit - 1 = k
    BY <1>1, <1>5
  <2>2. \A id \in 0..k : id + NoteLimit >= k + 1 <=> id \in (k - NoteLimit + 1)..k
    BY <1>1, <1>5
  <2>3. \A id \in (k - NoteLimit + 1)..k : id \in 0..k
    BY <1>1, <1>5
  <2>4. Notes!Newest(0..k) = (k - NoteLimit + 1)..k
    BY <1>3, <2>2, <2>3
  <2> QED
    BY <2>1, <2>4
<1> QED
  BY <1>1, <1>4, <1>5

LEMMA NotesOlder ==
  ASSUME NEW k \in Nat, NEW f \in 0..k, NEW read
  PROVE  \E d \in Nat :
            /\ Cardinality((0..k) \ read) = Cardinality((f..k) \ read) + d
            /\ (f = 0 => d = 0) /\ (read = {} => d = f)
<1> DEFINE old == (0..(f - 1)) \ read
           new == (f..k) \ read
<1>1. IsFiniteSet(0..(f - 1)) /\ Cardinality(0..(f - 1)) = f /\ IsFiniteSet(f..k)
  BY FS_Interval
<1>2. IsFiniteSet(old) /\ IsFiniteSet(new)
  BY <1>1, FS_Subset
<1>3. (0..k) \ read = new \union old /\ new \intersect old = {}
  OBVIOUS
<1>4. f = 0 => old = {}
  OBVIOUS
<1>5. read = {} => old = 0..(f - 1)
  OBVIOUS
<1> HIDE DEF old, new
<1>6. Cardinality(new \union old) = Cardinality(new) + Cardinality(old) - Cardinality({})
  BY <1>2, <1>3, FS_Union
<1>7. Cardinality(new) \in Nat /\ Cardinality(old) \in Nat
  BY <1>2, FS_CardinalityType
<1>8. Cardinality({}) = 0
  BY FS_EmptySet
<1>9. Cardinality((0..k) \ read) = Cardinality(new) + Cardinality(old)
  BY <1>3, <1>6, <1>7, <1>8
<1>10. f = 0 => Cardinality(old) = 0
  BY <1>4, <1>8
<1>11. read = {} => Cardinality(old) = f
  BY <1>1, <1>5
<1> QED
  BY <1>7, <1>9, <1>10, <1>11 DEF new

LEMMA NotesCallEnds ==
  /\ Notes!Ends \subseteq {"ok", "refused", "lost"} /\ "ok" \in Notes!Ends
  /\ Notes!Pending = {"sent", "counted"} \union Notes!Ends
  /\ Notes!Hooks = {"badge", "page"} /\ Notes!Ids = 0..MaxActs["notes"]
  BY NotesBounds DEF Notes!Ends, Notes!Pending, Notes!Hooks, Notes!Ids

LEMMA NotesHowItEnds ==
  ASSUME NEW end \in Notes!Ends, NEW done \in Notes!Effects(end)
  PROVE  done \in BOOLEAN /\ (end = "ok" => done = TRUE)
  BY NotesBounds DEF Notes!Ends, Notes!Effects

LEMMA NotesInitInv == Notes!Init => NotesInv
<1> SUFFICES ASSUME Notes!Init PROVE NotesInv
  OBVIOUS
<1>0. 0 \in Notes!Ids
  BY NotesBounds DEF Notes!Ids
<1>1. view \in NotesState
  BY <1>0, NotesCallEnds DEF Notes!Init, NotesState, NotesHook
<1>2. NotesRows(view, 0)
  BY DEF Notes!Init, NotesRows, Notes!Hooks
<1>3. ASSUME NEW h \in Notes!Hooks PROVE NotesSized(view, 0, h) /\ NotesFollowed(view, h)
  BY DEF Notes!Init, NotesSized, NotesFollowed, NotesAsked, Notes!Hooks
<1> QED
  BY <1>0, <1>1, <1>2, <1>3 DEF NotesInv, NotesGood

\* Nothing has changed for a hook.
LEMMA NotesHookKept ==
  ASSUME NEW n, NEW m, NEW k, NEW h, NotesSized(n, k, h), ~n.failed => NotesFollowed(n, h),
         m.hook[h] = n.hook[h], m.rows = n.rows, m.push = n.push, m.sRead = n.sRead,
         m.reads = n.reads, n.failed => m.failed
  PROVE  NotesSized(m, k, h) /\ (~m.failed => NotesFollowed(m, h))
<1>1. NotesSized(m, k, h)
  BY DEF NotesSized
<1>2. NotesAsked(n, h) => NotesAsked(m, h)
  BY DEF NotesAsked
<1>3. \A f, d : NotesFits(n, h, f, d) => NotesFits(m, h, f, d)
  BY DEF NotesFits, NotesQueued
<1>4. NotesFollowed(n, h) => NotesFollowed(m, h)
  BY <1>2, <1>3 DEF NotesFollowed
<1> QED
  BY <1>1, <1>4

\* One hook changes, and the rows do not.
LEMMA NotesOneHook ==
  ASSUME NEW k, NotesGood(view, k), NEW h \in Notes!Hooks, NEW g \in NotesHook,
         NEW failed \in BOOLEAN, view.failed => failed,
         view' = [view EXCEPT !.hook[h] = g, !.failed = failed],
         h = "badge" => g.call # "away",
         h = "page" /\ g.call = "away" =>
             g.items = <<>> /\ view.sRead = {} /\ view.reads = {},
         NotesSized(view', k, h), ~failed => NotesFollowed(view', h)
  PROVE  NotesInv'
<1>1. /\ view \in NotesState /\ k \in Notes!Ids /\ NotesRows(view, k)
      /\ \A f \in Notes!Hooks : NotesSized(view, k, f) /\ (~view.failed => NotesFollowed(view, f))
  BY DEF NotesGood
<1>2. PICK hook : hook = [view.hook EXCEPT ![h] = g]
  OBVIOUS
<1>3. view' = [view EXCEPT !.hook = hook, !.failed = failed]
  BY <1>1, <1>2 DEF NotesState
<1>4. hook \in [Notes!Hooks -> NotesHook]
  BY <1>1, <1>2 DEF NotesState
<1>5. /\ view' \in NotesState /\ view'.hook = hook /\ view'.failed = failed
      /\ view'.rows = view.rows /\ view'.push = view.push /\ view'.sRead = view.sRead
      /\ view'.reads = view.reads
  BY <1>1, <1>3, <1>4 DEF NotesState
<1>6. \A f \in Notes!Hooks : hook[f] = IF f = h THEN g ELSE view.hook[f]
  BY <1>1, <1>2 DEF NotesState
<1>7. NotesRows(view', k)
  BY <1>1, <1>5, <1>6 DEF NotesRows, Notes!Hooks
<1>8. ASSUME NEW f \in Notes!Hooks, f # h
      PROVE  NotesSized(view', k, f) /\ (~view'.failed => NotesFollowed(view', f))
  <2>1. /\ view'.hook[f] = view.hook[f] /\ (view.failed => view'.failed)
        /\ NotesSized(view, k, f) /\ (~view.failed => NotesFollowed(view, f))
    BY <1>1, <1>5, <1>6, <1>8
  <2> QED
    BY <1>5, <2>1, NotesHookKept
<1>9. NotesGood(view', k)
  BY <1>1, <1>5, <1>7, <1>8 DEF NotesGood
<1> QED
  BY <1>1, <1>9 DEF NotesInv

LEMMA NotesReadStep ==
  ASSUME NotesInv, Notes!Visit \/ Notes!ServeCount \/ Notes!ServeItems
  PROVE  NotesInv'
<1>0. PICK k \in Notes!Ids : NotesGood(view, k)
  BY DEF NotesInv
<1>00. /\ view \in NotesState /\ NotesRows(view, k)
       /\ \A h \in Notes!Hooks : /\ NotesSized(view, k, h) /\ (~view.failed => NotesFollowed(view, h))
                                 /\ view.hook[h] \in NotesHook
       /\ view.failed \in BOOLEAN
  BY <1>0 DEF NotesGood, NotesState
<1>1. CASE Notes!Visit
  <2> DEFINE g == [view.hook["page"] EXCEPT !.call = "sent", !.raced = (view.push # <<>>)]
  <2>1. "page" \in Notes!Hooks /\ view.hook["page"].call = "away"
    BY <1>1 DEF Notes!Visit, Notes!Hooks
  <2>2. g \in NotesHook /\ g.call = "sent" /\ g.items = <<>> /\ g.raced = (view.push # <<>>)
    BY <1>00, <2>1 DEF NotesHook, NotesRows, Notes!Pending
  <2>3. view' = [view EXCEPT !.hook["page"] = g, !.failed = view.failed]
    BY <1>1, <1>00, <2>1 DEF Notes!Visit, NotesState, NotesHook
  <2> HIDE DEF g
  <2>4. /\ view'.hook["page"] = g /\ view'.push = view.push
        /\ view'.sRead = {} /\ view'.reads = {}
    BY <1>00, <2>1, <2>3 DEF NotesState, NotesRows
  <2>5. NotesSized(view', k, "page") /\ NotesFollowed(view', "page")
    <3>1. Len(view.push) <= k /\ Len(view.push) \in Nat /\ k \in Nat /\ Len(<<>>) = 0
      BY <1>00, NotesCallEnds, NotesBounds DEF NotesRows, NotesState
    <3>2. NotesSized(view', k, "page")
      <4>1. Len(g.items) = 0 /\ g.call # "ok"
        BY <2>2, <3>1
      <4>2. Len(g.items) + Len(view.push) <= k + k + 2
        BY <3>1, <4>1
      <4> QED
        BY <2>4, <4>1, <4>2 DEF NotesSized
    <3>3. ~g.raced => NotesAsked(view', "page")
      BY <2>2, <2>4 DEF NotesAsked
    <3> QED
      BY <2>2, <2>4, <3>2, <3>3 DEF NotesFollowed
  <2> QED
    BY <1>0, <1>00, <2>1, <2>2, <2>3, <2>5, NotesOneHook
<1>2. CASE Notes!ServeCount
  <2>1. PICK h \in Notes!Hooks : /\ view.hook[h].call = "sent"
           /\ view' = [view EXCEPT !.hook[h].call = "counted",
                         !.hook[h].count = Notes!Cardinality(view.rows \ view.sRead)]
    BY <1>2 DEF Notes!ServeCount
  <2>2. PICK c : c = Cardinality(view.rows \ view.sRead)
    OBVIOUS
  <2>3. c \in Nat
    <3>1. view.rows = 0..k /\ k \in Int
      BY <1>00, NotesBounds DEF NotesRows, Notes!Ids
    <3>2. IsFiniteSet(0..k) /\ view.rows \ view.sRead \in SUBSET (0..k)
      BY <3>1, FS_Interval
    <3>3. IsFiniteSet(view.rows \ view.sRead)
      BY <3>2, FS_Subset
    <3> QED
      BY <2>2, <3>3, FS_CardinalityType
  <2> DEFINE g == [view.hook[h] EXCEPT !.call = "counted", !.count = c]
  <2>4. /\ g \in NotesHook /\ g.call = "counted" /\ g.count = c /\ g.items = view.hook[h].items
        /\ g.raced = view.hook[h].raced
    BY <1>00, <2>1, <2>3 DEF NotesHook, Notes!Pending
  <2>5. view' = [view EXCEPT !.hook[h] = g, !.failed = view.failed]
    BY <1>00, <2>1, <2>2, NotesCardSame DEF NotesState, NotesHook
  <2> HIDE DEF g
  <2>6. /\ view'.hook[h] = g /\ view'.push = view.push /\ view'.rows = view.rows
        /\ view'.sRead = view.sRead /\ view'.reads = view.reads
    BY <1>00, <2>5 DEF NotesState
  <2>7. NotesSized(view', k, h)
    BY <1>00, <2>4, <2>6 DEF NotesSized
  <2>8. ~view.failed => NotesFollowed(view', h)
    BY <1>00, <2>1, <2>2, <2>4, <2>6 DEF NotesFollowed, NotesAsked
  <2> QED
    BY <1>0, <1>00, <2>4, <2>5, <2>7, <2>8, NotesOneHook
<1>3. CASE Notes!ServeItems
  <2> DEFINE newest == Notes!Newest(view.rows)
  <2>1. PICK h \in Notes!Hooks, end \in Notes!Ends : /\ view.hook[h].call = "counted"
           /\ view' = [view EXCEPT !.hook[h].call = end, !.failed = @ \/ end # "ok",
                         !.hook[h].snapshot = {[id |-> id, read |-> id \in view.sRead] : id \in newest}]
    BY <1>3 DEF Notes!ServeItems
  <2>2. PICK failed \in BOOLEAN : failed <=> view.failed \/ end # "ok"
    OBVIOUS
  <2>3. PICK snap : snap = NotesSnapshot(newest, view.sRead)
    OBVIOUS
  <2>a. newest \in SUBSET view.rows
    BY DEF Notes!Newest
  <2> HIDE DEF newest
  <2>4. snap \in SUBSET Notes!Item
    <3>1. \A i \in newest : [id |-> i, read |-> i \in view.sRead] \in Notes!Item
      <4> SUFFICES ASSUME NEW i \in newest PROVE [id |-> i, read |-> i \in view.sRead] \in Notes!Item
        OBVIOUS
      <4>1. [id |-> i, read |-> i \in view.sRead] \in [id : {i}, read : BOOLEAN]
        OBVIOUS
      <4>2. i \in Notes!Ids
        BY <1>00, <2>a DEF NotesState
      <4> QED
        BY <4>1, <4>2 DEF Notes!Item
    <3> QED
      BY <2>3, <3>1 DEF NotesSnapshot
  <2> DEFINE g == [view.hook[h] EXCEPT !.call = end, !.snapshot = snap]
  <2>5. /\ g \in NotesHook /\ g.call = end /\ g.snapshot = snap /\ g.items = view.hook[h].items
        /\ g.count = view.hook[h].count /\ g.raced = view.hook[h].raced
    BY <1>00, <2>1, <2>4 DEF NotesHook, Notes!Pending
  <2>6. view' = [view EXCEPT !.hook[h] = g, !.failed = failed]
    <3>1. {[id |-> id, read |-> id \in view.sRead] : id \in newest} = snap
      BY <2>3 DEF NotesSnapshot
    <3>2. (view.failed \/ end # "ok") = failed
      BY <1>00, <2>2
    <3> QED
      BY <1>00, <2>1, <3>1, <3>2 DEF NotesState, NotesHook
  <2> HIDE DEF g
  <2>7. /\ view'.hook[h] = g /\ view'.push = view.push /\ view'.rows = view.rows
        /\ view'.sRead = view.sRead /\ view'.reads = view.reads
    BY <1>00, <2>6 DEF NotesState
  <2>8. NotesSized(view', k, h)
    <3>1. view.rows = 0..k /\ k \in Nat /\ k \in 0..k /\ view.sRead \in SUBSET Notes!Ids
      BY <1>00, NotesBounds DEF NotesRows, Notes!Ids, NotesState
    <3>2. PICK f \in 0..k : newest = f..k
      BY <3>1, NotesNewestIs DEF newest
    <3>3. snap = NotesSnapshot(f..k, view.sRead)
      BY <2>3, <3>2
    <3> QED
      BY <1>00, <2>5, <2>7, <3>1, <3>3 DEF NotesSized
  <2>9. ~failed => NotesFollowed(view', h)
    BY <1>00, <2>1, <2>2, <2>3, <2>5, <2>7 DEF NotesFollowed, NotesAsked, newest
  <2>10. end # "away"
    BY NotesCallEnds
  <2> QED
    BY <1>0, <1>00, <2>2, <2>5, <2>6, <2>8, <2>9, <2>10, NotesOneHook
<1> QED
  BY <1>1, <1>2, <1>3

LEMMA NotesLoadedInv ==
  ASSUME NotesInv, Notes!Loaded PROVE NotesInv'
<1>0. PICK k \in Notes!Ids : NotesGood(view, k)
  BY DEF NotesInv
<1>00. /\ view \in NotesState /\ NotesRows(view, k)
       /\ \A h \in Notes!Hooks : /\ NotesSized(view, k, h) /\ (~view.failed => NotesFollowed(view, h))
                                 /\ view.hook[h] \in NotesHook
       /\ view.failed \in BOOLEAN
  BY <1>0 DEF NotesGood, NotesState
<1>1. PICK h \in Notes!Hooks : /\ view.hook[h].call \in Notes!Ends
        /\ view' = IF view.hook[h].call = "ok"
                   THEN [view EXCEPT !.hook[h] =
                          [view.hook[h] EXCEPT !.call = "idle", !.unread = view.hook[h].count,
                             !.items = Notes!NewestFirst(view.hook[h].snapshot), !.snapshot = {}]]
                   ELSE [view EXCEPT !.hook[h].call = "idle", !.hook[h].snapshot = {}]
  BY DEF Notes!Loaded
<1>01. k \in Nat /\ Len(view.push) \in Nat /\ Len(view.push) <= k
  BY <1>00, NotesCallEnds, NotesBounds DEF NotesRows, NotesState
<1>2. CASE view.hook[h].call # "ok"
  <2> DEFINE g == [view.hook[h] EXCEPT !.call = "idle", !.snapshot = {}]
  <2>1. g \in NotesHook /\ g.call = "idle" /\ g.items = view.hook[h].items
    BY <1>00 DEF NotesHook
  <2>2. view' = [view EXCEPT !.hook[h] = g, !.failed = view.failed]
    BY <1>00, <1>1, <1>2 DEF NotesState, NotesHook
  <2> HIDE DEF g
  <2>3. view'.hook[h] = g /\ view'.push = view.push
    BY <1>00, <2>2 DEF NotesState
  <2>4. NotesSized(view', k, h)
    BY <1>00, <2>1, <2>3 DEF NotesSized
  <2>5. view.failed
    BY <1>00, <1>1, <1>2, NotesCallEnds DEF NotesFollowed
  <2> QED
    BY <1>0, <1>00, <2>1, <2>2, <2>4, <2>5, NotesOneHook
<1>3. CASE view.hook[h].call = "ok"
  <2>1. PICK r \in 0..k, read \in SUBSET Notes!Ids : \E f \in 0..r :
          view.hook[h].snapshot = NotesSnapshot(f..r, read)
    BY <1>00, <1>3 DEF NotesSized
  <2>a. PICK f \in 0..r : view.hook[h].snapshot = NotesSnapshot(f..r, read)
    BY <2>1
  <2>2. PICK s : s = Notes!NewestFirst(NotesSnapshot(f..r, read))
    OBVIOUS
  <2>3. r \in Nat /\ r <= k
    BY <1>01
  <2>4. /\ s \in [1..(r - f + 1) -> NotesSnapshot(f..r, read)]
        /\ \A i, j \in 1..(r - f + 1) : s[i].id = s[j].id => i = j
        /\ \A t \in NotesSnapshot(f..r, read) : \E i \in 1..(r - f + 1) : s[i] = t
    BY <2>2, <2>3, NotesNewestFirst
  <2>5. NotesSnapshot(f..r, read) \in SUBSET Notes!Item
    BY <1>00, <2>a DEF NotesHook
  <2>6. s \in Seq(Notes!Item) /\ Len(s) = r - f + 1 /\ DOMAIN s = 1..(r - f + 1)
    BY <2>3, <2>4, <2>5
  <2> DEFINE g == [view.hook[h] EXCEPT !.call = "idle", !.unread = view.hook[h].count,
                                       !.items = s, !.snapshot = {}]
  <2>7. /\ g \in NotesHook /\ g.call = "idle" /\ g.items = s /\ g.unread = view.hook[h].count
        /\ g.raced = view.hook[h].raced
    BY <1>00, <2>6 DEF NotesHook
  <2>8. view' = [view EXCEPT !.hook[h] = g, !.failed = view.failed]
    BY <1>00, <1>1, <1>3, <2>a, <2>2 DEF NotesState, NotesHook
  <2> HIDE DEF g
  <2>9. /\ view'.hook[h] = g /\ view'.push = view.push /\ view'.rows = view.rows
        /\ view'.sRead = view.sRead /\ view'.reads = view.reads
    BY <1>00, <2>8 DEF NotesState
  <2>10. NotesSized(view', k, h)
    <3>1. PICK l \in Nat : l = Len(view.push) /\ l <= k
      BY <1>01
    <3>2. r + 1 + l <= k + k + 2
      <4>1. k \in Nat
        BY <1>01
      <4>2. r \in Nat /\ r <= k
        BY <2>3
      <4>3. l \in Nat /\ l <= k
        BY <3>1
      <4>4. r + 1 + l \in Nat
        BY <4>2, <4>3
      <4>5. r + l <= k + k
        BY <4>1, <4>2, <4>3
      <4> QED
        BY <4>1, <4>2, <4>3, <4>5
    <3>3. r - f + 1 \in Nat /\ r - f + 1 <= r + 1
      BY <2>3
    <3>4. \A a, b, c, m \in Nat : a <= b /\ b + c <= m => a + c <= m
      OBVIOUS
    <3>5. r + 1 \in Nat /\ l \in Nat /\ k + k + 2 \in Nat
      BY <2>3, <3>1, <1>01
    <3>6. (r - f + 1) + l <= k + k + 2
      BY <3>2, <3>3, <3>4, <3>5
    <3>7. Len(s) + Len(view.push) <= k + k + 2
      BY <2>6, <3>1, <3>6
    <3> QED
      BY <2>7, <2>9, <3>7 DEF NotesSized
  <2>11. ASSUME ~view.failed, ~g.raced
         PROVE  \E e \in view'.rows, d \in Nat : NotesFits(view', h, e, d)
    <3>1. NotesAsked(view, h)
      BY <1>00, <1>3, <2>7, <2>11 DEF NotesFollowed
    <3>2. /\ view.push = <<>> /\ (h = "page" => view.sRead = {} /\ view.reads = {})
          /\ g.unread = Cardinality(view.rows \ view.sRead)
          /\ NotesSnapshot(f..r, read) = NotesSnapshot(Notes!Newest(view.rows), view.sRead)
      BY <1>3, <2>a, <2>7, <3>1 DEF NotesAsked
    <3>a. view.rows = 0..k
      BY <1>00 DEF NotesRows
    <3>b. PICK e \in 0..k : /\ Notes!Newest(view.rows) = e..k
                            /\ e = 0 \/ e + NoteLimit - 1 = k
      BY <1>01, <3>a, NotesNewestIs
    <3>c. PICK d \in Nat :
            /\ Cardinality((0..k) \ view.sRead) = Cardinality((e..k) \ view.sRead) + d
            /\ (e = 0 => d = 0) /\ (view.sRead = {} => d = e)
      BY <1>01, NotesOlder
    <3> DEFINE new == e..k
    <3>d. new = {id \in view.rows : id >= e}
      BY <1>01, <3>a
    <3> HIDE DEF new
    <3>e. NotesSnapshot(f..r, read) = NotesSnapshot(new, view.sRead)
      BY <3>2, <3>b DEF new
    <3>3. \A i \in DOMAIN s : s[i].id \in new /\ (s[i].read <=> s[i].id \in view.sRead)
      <4>1. \A t \in NotesSnapshot(new, view.sRead) :
              t.id \in new /\ (t.read <=> t.id \in view.sRead)
        BY NotesSnapshotItem
      <4> QED
        BY <2>4, <2>6, <3>e, <4>1
    <3>4. \A id \in new : \E i \in DOMAIN s : s[i].id = id
      <4> SUFFICES ASSUME NEW id \in new PROVE \E i \in DOMAIN s : s[i].id = id
        OBVIOUS
      <4>1. [id |-> id, read |-> id \in view.sRead] \in NotesSnapshot(f..r, read)
        BY <3>e DEF NotesSnapshot
      <4>2. PICK i \in 1..(r - f + 1) : s[i] = [id |-> id, read |-> id \in view.sRead]
        BY <2>4, <4>1
      <4> QED
        BY <2>6, <4>2
    <3>5. NotesQueued(view') = {}
      BY <2>9, <3>2 DEF NotesQueued
    <3>6. NotesListed(s) = new
      BY <3>3, <3>4 DEF NotesListed
    <3>7. NotesUnread(s) = new \ view.sRead
      BY <3>3, <3>4 DEF NotesUnread
    <3>8. \A i, j \in DOMAIN s : s[i].id = s[j].id => i = j
      BY <2>4, <2>6
    <3>9. g.unread = Cardinality(NotesUnread(s)) + d
      BY <3>2, <3>7, <3>a, <3>c DEF new
    <3>10. e = 0 \/ e + NoteLimit - 1 \in view.rows
      BY <1>01, <3>a, <3>b
    <3>11. (e = 0 => d = 0) /\ (h = "page" => d = e)
      BY <3>2, <3>c
    <3>12. NotesListed(s) \union NotesQueued(view') = {id \in view.rows : id >= e}
      BY <3>5, <3>6, <3>d
    <3>13. h = "page" => view.sRead \union view.reads = {}
      BY <3>2
    <3>14. NotesFits(view', h, e, d)
      BY <2>7, <2>9, <3>3, <3>5, <3>8, <3>9, <3>10, <3>11, <3>12, <3>13 DEF NotesFits
    <3> QED
      BY <2>9, <3>a, <3>14
  <2>12. ~view.failed => NotesFollowed(view', h)
    BY <2>7, <2>9, <2>11 DEF NotesFollowed
  <2> QED
    BY <1>0, <1>00, <2>7, <2>8, <2>10, <2>12, NotesOneHook
<1> QED
  BY <1>2, <1>3

\* The first push is taken from the queue.
LEMMA NotesTaken ==
  ASSUME NEW n, NEW m, NEW k, n \in NotesState, k \in Notes!Ids, NotesRows(n, k), n.push # <<>>,
         m.push = Tail(n.push)
  PROVE  /\ m.push \in Seq(Notes!Ids) /\ Len(m.push) = Len(n.push) - 1
         /\ Len(m.push) \in Nat /\ Len(m.push) <= k /\ k \in Nat
         /\ Head(n.push) \in Notes!Ids /\ Head(n.push) \in 0..k
         /\ NotesQueued(n) = NotesQueued(m) \union {Head(n.push)}
         /\ Head(n.push) \notin NotesQueued(m)
         /\ \A i, j \in DOMAIN m.push : i < j => m.push[i] < m.push[j]
         /\ \A i \in DOMAIN m.push : m.push[i] <= k
<1>0. k \in Nat /\ Notes!Ids \subseteq Nat
  BY NotesBounds DEF Notes!Ids
<1>1. n.push \in Seq(Notes!Ids)
  BY DEF NotesState
<1> DEFINE q == n.push
           l == Len(n.push)
<1> HIDE DEF q, l
<1>2. /\ q \in Seq(Notes!Ids) /\ l \in Nat /\ l >= 1 /\ DOMAIN q = 1..l /\ l <= k
      /\ Head(q) = q[1] /\ Head(q) \in Notes!Ids
      /\ m.push \in Seq(Notes!Ids) /\ Len(m.push) = l - 1 /\ DOMAIN m.push = 1..(l - 1)
      /\ \A i \in 1..(l - 1) : m.push[i] = q[i + 1]
  BY <1>1, ListTail DEF q, l, NotesRows
<1>3. /\ \A i, j \in 1..l : i < j => q[i] < q[j]
      /\ \A i \in 1..l : q[i] <= k /\ q[i] \in Nat
  <2>1. /\ \A i, j \in DOMAIN q : i < j => q[i] < q[j]
        /\ \A i \in DOMAIN q : q[i] <= k
    BY DEF q, NotesRows
  <2>2. \A i \in 1..l : q[i] \in Notes!Ids
    BY <1>2
  <2> QED
    BY <1>0, <1>2, <2>1, <2>2
<1>4. NotesQueued(n) = NotesQueued(m) \union {Head(q)}
  <2>1. NotesQueued(n) = {q[i] : i \in 1..l} /\ NotesQueued(m) = {m.push[i] : i \in 1..(l - 1)}
    BY <1>2 DEF NotesQueued, q
  <2>2. \A i \in 1..l : q[i] = Head(q) \/ q[i] \in {m.push[j] : j \in 1..(l - 1)}
    <3> SUFFICES ASSUME NEW i \in 1..l, i # 1 PROVE q[i] \in {m.push[j] : j \in 1..(l - 1)}
      BY <1>2
    <3>1. i - 1 \in 1..(l - 1) /\ m.push[i - 1] = q[i]
      BY <1>2
    <3> QED
      BY <3>1
  <2>3. \A j \in 1..(l - 1) : m.push[j] \in {q[i] : i \in 1..l}
    BY <1>2
  <2>4. Head(q) \in {q[i] : i \in 1..l}
    BY <1>2
  <2> QED
    BY <2>1, <2>2, <2>3, <2>4
<1>5. Head(q) \notin NotesQueued(m)
  BY <1>2, <1>3 DEF NotesQueued
<1>6. \A i, j \in DOMAIN m.push : i < j => m.push[i] < m.push[j]
  BY <1>2, <1>3
<1>7. \A i \in DOMAIN m.push : m.push[i] <= k
  BY <1>2, <1>3
<1>8. Head(q) \in 0..k
  BY <1>0, <1>2, <1>3
<1> QED
  BY <1>0, <1>2, <1>4, <1>5, <1>6, <1>7, <1>8 DEF q, l

\* The other fields take what values they may, and the invariant comes from its parts.
LEMMA NotesPushedInv ==
  ASSUME NotesInv, Notes!Pushed PROVE NotesInv'
<1>0. PICK k \in Notes!Ids : NotesGood(view, k)
  BY DEF NotesInv
<1>00. /\ view \in NotesState /\ NotesRows(view, k)
       /\ \A h \in Notes!Hooks : /\ NotesSized(view, k, h) /\ (~view.failed => NotesFollowed(view, h))
                                 /\ view.hook[h] \in NotesHook
  BY <1>0 DEF NotesGood, NotesState
<1> DEFINE item == [id |-> Head(view.push), read |-> FALSE]
           hook == [h \in Notes!Hooks |->
                     IF view.hook[h].call = "away" THEN view.hook[h]
                     ELSE [view.hook[h] EXCEPT !.items = <<item>> \o @, !.unread = @ + 1]]
<1>3. view.push # <<>> /\ view' = [view EXCEPT !.push = Tail(view.push), !.hook = hook]
  BY <1>00 DEF Notes!Pushed, NotesState
<1>1. item = [id |-> Head(view.push), read |-> FALSE]
  OBVIOUS
<1>2. hook = [h \in Notes!Hooks |->
                IF view.hook[h].call = "away" THEN view.hook[h]
                ELSE [view.hook[h] EXCEPT !.items = <<item>> \o @, !.unread = @ + 1]]
  OBVIOUS
<1> HIDE DEF item, hook
<1>4. /\ view'.hook = hook /\ view'.push = Tail(view.push) /\ view'.rows = view.rows
      /\ view'.sRead = view.sRead /\ view'.reads = view.reads /\ view'.failed = view.failed
  BY <1>00, <1>3 DEF NotesState
<1>5. /\ view'.push \in Seq(Notes!Ids) /\ Len(view'.push) = Len(view.push) - 1
      /\ Len(view'.push) \in Nat /\ Len(view'.push) <= k /\ k \in Nat
      /\ Head(view.push) \in Notes!Ids /\ Head(view.push) \in 0..k
      /\ NotesQueued(view) = NotesQueued(view') \union {Head(view.push)}
      /\ Head(view.push) \notin NotesQueued(view')
      /\ \A i, j \in DOMAIN view'.push : i < j => view'.push[i] < view'.push[j]
      /\ \A i \in DOMAIN view'.push : view'.push[i] <= k
  <2>1. view.push # <<>> /\ view'.push = Tail(view.push)
    BY <1>3, <1>4
  <2>2. view \in NotesState /\ k \in Notes!Ids /\ NotesRows(view, k)
    BY <1>0, <1>00
  <2> QED
    BY <2>1, <2>2, NotesTaken
<1>6. item \in Notes!Item /\ item.id = Head(view.push) /\ ~item.read
  BY <1>1, <1>5 DEF Notes!Item
\* What has become of one hook.
<1>7. ASSUME NEW h \in Notes!Hooks, view.hook[h].call # "away"
      PROVE  /\ hook[h] \in NotesHook /\ hook[h].call = view.hook[h].call
             /\ hook[h].raced = view.hook[h].raced /\ hook[h].snapshot = view.hook[h].snapshot
             /\ hook[h].items = <<item>> \o view.hook[h].items
             /\ hook[h].unread = view.hook[h].unread + 1
  <2>1. <<item>> \o view.hook[h].items \in Seq(Notes!Item)
    BY <1>00, <1>6, ListCons DEF NotesHook
  <2>2. hook[h] = [view.hook[h] EXCEPT !.items = <<item>> \o @, !.unread = @ + 1]
    BY <1>2, <1>7
  <2>3. PICK longer \in Seq(Notes!Item) : longer = <<item>> \o view.hook[h].items
    BY <2>1
  <2>4. view.hook[h].unread + 1 \in Nat
    BY <1>00 DEF NotesHook
  <2>5. hook[h] = [view.hook[h] EXCEPT !.items = longer, !.unread = view.hook[h].unread + 1]
    BY <1>00, <2>2, <2>3 DEF NotesHook
  <2> QED
    BY <1>00, <2>3, <2>4, <2>5 DEF NotesHook
<1>8. ASSUME NEW h \in Notes!Hooks, view.hook[h].call = "away"
      PROVE  hook[h] = view.hook[h]
  BY <1>2, <1>8
<1>9. view' \in NotesState
  <2>1. hook \in [Notes!Hooks -> NotesHook]
    <3>1. \A h \in Notes!Hooks : hook[h] \in NotesHook
      BY <1>00, <1>7, <1>8
    <3> QED
      BY <1>2, <3>1
  <2> QED
    BY <1>00, <1>3, <1>4, <1>5, <2>1 DEF NotesState
<1>10. NotesRows(view', k)
  <2>1. view'.hook["badge"].call # "away"
    BY <1>00, <1>4, <1>7 DEF NotesRows, Notes!Hooks
  <2>2. view'.hook["page"].call = "away" =>
          view'.hook["page"].items = <<>> /\ view'.sRead = {} /\ view'.reads = {}
    <3>1. "page" \in Notes!Hooks
      BY DEF Notes!Hooks
    <3> QED
      BY <1>00, <1>4, <1>7, <1>8, <3>1 DEF NotesRows
  <2> QED
    BY <1>00, <1>4, <1>5, <2>1, <2>2 DEF NotesRows
<1>11. ASSUME NEW h \in Notes!Hooks PROVE NotesSized(view', k, h)
  <2>1. /\ view.hook[h].items \in Seq(Notes!Item) /\ Len(view.hook[h].items) \in Nat
        /\ Len(view.push) \in Nat
        /\ Len(view.hook[h].items) + Len(view.push) <= k + k + 2
    <3>1. Len(view.hook[h].items) + Len(view.push) <= k + k + 2
      BY <1>00 DEF NotesSized
    <3>2. view.hook[h].items \in Seq(Notes!Item) /\ view.push \in Seq(Notes!Ids)
      BY <1>00 DEF NotesHook, NotesState
    <3>3. Len(view.hook[h].items) \in Nat
      BY <3>2
    <3>4. Len(view.push) \in Nat
      BY <3>2
    <3> QED
      BY <3>1, <3>2, <3>3, <3>4
  <2>0. PICK a, b \in Nat : /\ a = Len(view.hook[h].items) /\ b = Len(view.push)
                            /\ a + b <= k + k + 2 /\ b - 1 \in Nat
    BY <1>5, <2>1
  <2>2. CASE view.hook[h].call = "away"
    <3>0. view'.hook[h].items = view.hook[h].items /\ view'.hook[h].call # "ok"
      BY <1>4, <1>8, <2>2
    <3>1. Len(view'.hook[h].items) + Len(view'.push) <= k + k + 2 /\ view'.hook[h].call # "ok"
      <4>1. Len(view'.hook[h].items) = a /\ Len(view'.push) = b - 1
        BY <1>5, <2>0, <3>0
      <4>2. a + (b - 1) <= k + k + 2
        <5>1. k \in Nat
          BY <1>5
        <5>2. a + b <= k + k + 2
          BY <2>0
        <5> QED
          BY <5>1, <5>2
      <4> QED
        BY <3>0, <4>1, <4>2
    <3> QED
      BY <3>1 DEF NotesSized
  <2>3. CASE view.hook[h].call # "away"
    <3>1. Len(<<item>> \o view.hook[h].items) = Len(view.hook[h].items) + 1
      BY <1>6, <2>1, ListCons
    <3>2. Len(view'.hook[h].items) + Len(view'.push) <= k + k + 2
      <4>1. Len(view'.hook[h].items) = a + 1 /\ Len(view'.push) = b - 1
        BY <1>4, <1>5, <1>7, <2>0, <2>3, <3>1
      <4>2. (a + 1) + (b - 1) <= k + k + 2
        <5>1. k \in Nat
          BY <1>5
        <5>2. a + b <= k + k + 2
          BY <2>0
        <5> QED
          BY <5>1, <5>2
      <4> QED
        BY <4>1, <4>2
    <3>3. view'.hook[h].call = view.hook[h].call /\ view'.hook[h].snapshot = view.hook[h].snapshot
      BY <1>4, <1>7, <2>3
    <3> QED
      BY <1>00, <3>2, <3>3 DEF NotesSized
  <2> QED
    BY <2>2, <2>3
<1>12. ASSUME NEW h \in Notes!Hooks, ~view.failed PROVE NotesFollowed(view', h)
  <2>1. NotesFollowed(view, h)
    BY <1>00, <1>12
  <2>2. CASE view.hook[h].call # "idle" \/ view.hook[h].raced
    <3>1. /\ view'.hook[h].call = view.hook[h].call
          /\ view'.hook[h].raced = view.hook[h].raced
      BY <1>4, <1>7, <1>8
    <3>2. ~NotesAsked(view, h)
      BY <1>3 DEF NotesAsked
    <3> QED
      BY <2>1, <2>2, <3>1, <3>2 DEF NotesFollowed
  <2>3. CASE view.hook[h].call = "idle" /\ ~view.hook[h].raced
    <3> DEFINE items == view.hook[h].items
               l == Len(items)
               longer == view'.hook[h].items
    <3>1. PICK f \in view.rows, d \in Nat : NotesFits(view, h, f, d)
      BY <1>12, <2>1, <2>3 DEF NotesFollowed
    <3>2. items \in Seq(Notes!Item) /\ l \in Nat /\ DOMAIN items = 1..l
      BY <1>00 DEF NotesHook
    <3>3. /\ longer = <<item>> \o items /\ view'.hook[h].unread = view.hook[h].unread + 1
          /\ view'.hook[h].call = "idle"
      BY <1>4, <1>7, <2>3
    <3>4. /\ \A i, j \in DOMAIN items : items[i].id = items[j].id => i = j
          /\ NotesListed(items) \intersect NotesQueued(view) = {}
          /\ NotesListed(items) \union NotesQueued(view) = {id \in view.rows : id >= f}
          /\ view.hook[h].unread = Cardinality(NotesUnread(items)) + d
          /\ h = "page" =>
                /\ \A i \in DOMAIN items :
                      items[i].read <=> items[i].id \in view.sRead \union view.reads
                /\ view.sRead \union view.reads \subseteq NotesListed(items)
      BY <3>1 DEF NotesFits
    <3> HIDE DEF items, l, longer
    <3>5. /\ DOMAIN longer = 1..(l + 1) /\ longer[1] = item
          /\ \A i \in 1..l : longer[i + 1] = items[i]
      BY <1>6, <3>2, <3>3, ListCons DEF l
    <3>6. \A i \in 2..(l + 1) : i - 1 \in 1..l /\ longer[i] = items[i - 1]
      BY <3>2, <3>5
    <3>7. Head(view.push) \notin NotesListed(items)
      BY <1>5, <3>4
    <3>8. \A i \in 1..l : items[i].id # item.id
      BY <1>6, <3>2, <3>7 DEF NotesListed
    <3>9. \A i, j \in DOMAIN longer : longer[i].id = longer[j].id => i = j
      <4> SUFFICES ASSUME NEW i \in 1..(l + 1), NEW j \in 1..(l + 1),
                          longer[i].id = longer[j].id, i # j
                   PROVE  FALSE
        BY <3>5
      <4>1. CASE i = 1
        <5>1. j \in 2..(l + 1)
          BY <3>2, <4>1
        <5> QED
          BY <3>5, <3>6, <3>8, <4>1, <5>1
      <4>2. CASE j = 1
        <5>1. i \in 2..(l + 1)
          BY <3>2, <4>2
        <5> QED
          BY <3>5, <3>6, <3>8, <4>2, <5>1
      <4>3. CASE i # 1 /\ j # 1
        <5>1. i \in 2..(l + 1) /\ j \in 2..(l + 1)
          BY <3>2, <4>3
        <5>2. i - 1 = j - 1
          BY <3>2, <3>4, <3>6, <5>1
        <5> QED
          BY <5>1, <5>2
      <4> QED
        BY <4>1, <4>2, <4>3
    <3>10. NotesListed(longer) = NotesListed(items) \union {item.id}
      <4>1. \A i \in DOMAIN longer : longer[i].id \in NotesListed(items) \union {item.id}
        <5> SUFFICES ASSUME NEW i \in 1..(l + 1), i # 1 PROVE longer[i].id \in NotesListed(items)
          BY <3>5
        <5>1. i \in 2..(l + 1)
          BY <3>2
        <5> QED
          BY <3>2, <3>6, <5>1 DEF NotesListed
      <4>2. \A i \in DOMAIN items : items[i].id \in NotesListed(longer)
        <5> SUFFICES ASSUME NEW i \in 1..l PROVE items[i].id \in NotesListed(longer)
          BY <3>2
        <5>1. i + 1 \in DOMAIN longer /\ longer[i + 1].id = items[i].id
          BY <3>2, <3>5
        <5> QED
          BY <5>1 DEF NotesListed
      <4>3. item.id \in NotesListed(longer)
        <5>1. 1 \in DOMAIN longer
          BY <3>2, <3>5
        <5> QED
          BY <3>5, <5>1 DEF NotesListed
      <4> QED
        BY <4>1, <4>2, <4>3 DEF NotesListed
    <3>11. NotesUnread(longer) = NotesUnread(items) \union {item.id}
      <4>1. \A i \in DOMAIN longer : ~longer[i].read =>
              longer[i].id \in NotesUnread(items) \union {item.id}
        <5> SUFFICES ASSUME NEW i \in 1..(l + 1), i # 1, ~longer[i].read
                     PROVE  longer[i].id \in NotesUnread(items)
          BY <3>5
        <5>1. i \in 2..(l + 1)
          BY <3>2
        <5> QED
          BY <3>2, <3>6, <5>1 DEF NotesUnread
      <4>2. \A i \in DOMAIN items : ~items[i].read => items[i].id \in NotesUnread(longer)
        <5> SUFFICES ASSUME NEW i \in 1..l, ~items[i].read
                     PROVE items[i].id \in NotesUnread(longer)
          BY <3>2
        <5>1. i + 1 \in DOMAIN longer /\ longer[i + 1] = items[i]
          BY <3>2, <3>5
        <5> QED
          BY <5>1 DEF NotesUnread
      <4>3. item.id \in NotesUnread(longer)
        <5>1. 1 \in DOMAIN longer
          BY <3>2, <3>5
        <5> QED
          BY <1>6, <3>5, <5>1 DEF NotesUnread
      <4> QED
        BY <4>1, <4>2, <4>3 DEF NotesUnread
    <3>12. view.hook[h].unread + 1 = Cardinality(NotesUnread(longer)) + d
      <4>1. NotesUnread(items) \subseteq NotesListed(items)
        BY DEF NotesUnread, NotesListed
      <4>2. NotesUnread(items) \in SUBSET (0..k) /\ item.id \notin NotesUnread(items)
        BY <1>00, <1>6, <3>4, <3>7, <4>1 DEF NotesRows
      <4>3. IsFiniteSet(NotesUnread(items))
        <5>1. IsFiniteSet(0..k)
          BY <1>5, FS_Interval
        <5> QED
          BY <4>2, <5>1, FS_Subset
      <4>4. Cardinality(NotesUnread(longer)) = Cardinality(NotesUnread(items)) + 1
        BY <3>11, <4>2, <4>3, FS_AddElement
      <4>5. Cardinality(NotesUnread(items)) \in Nat
        BY <4>3, FS_CardinalityType
      <4> QED
        BY <3>1, <3>4, <4>4, <4>5
    <3>13. h = "page" =>
             /\ \A i \in DOMAIN longer :
                   longer[i].read <=> longer[i].id \in view.sRead \union view.reads
             /\ view.sRead \union view.reads \subseteq NotesListed(longer)
      <4> SUFFICES ASSUME h = "page" PROVE
             /\ \A i \in DOMAIN longer :
                   longer[i].read <=> longer[i].id \in view.sRead \union view.reads
             /\ view.sRead \union view.reads \subseteq NotesListed(longer)
        OBVIOUS
      <4>1. ~longer[1].read /\ longer[1].id \notin view.sRead \union view.reads
        BY <1>6, <3>4, <3>5, <3>7
      <4>2. ASSUME NEW i \in 2..(l + 1)
            PROVE  longer[i].read <=> longer[i].id \in view.sRead \union view.reads
        BY <3>2, <3>4, <3>6
      <4>3. ASSUME NEW i \in 1..(l + 1) PROVE i = 1 \/ i \in 2..(l + 1)
        BY <3>2
      <4> QED
        BY <3>4, <3>5, <3>10, <4>1, <4>2, <4>3
    <3>14. NotesListed(longer) \intersect NotesQueued(view') = {}
      BY <1>5, <1>6, <3>4, <3>10
    <3>15. NotesListed(longer) \union NotesQueued(view') = {id \in view.rows : id >= f}
      BY <1>5, <1>6, <3>4, <3>10
    <3>16. NotesFits(view', h, f, d)
      <4>1. /\ f = 0 \/ f + NoteLimit - 1 \in view'.rows
            /\ (f = 0 => d = 0) /\ (h = "page" => d = f)
        BY <1>4, <3>1 DEF NotesFits
      <4>2. view'.hook[h].unread = Cardinality(NotesUnread(longer)) + d
        BY <3>3, <3>12
      <4> QED
        BY <1>4, <3>9, <3>13, <3>14, <3>15, <4>1, <4>2 DEF NotesFits, longer
    <3> QED
      BY <1>4, <3>3, <3>16 DEF NotesFollowed
  <2> QED
    BY <2>2, <2>3
<1>13. NotesGood(view', k)
  BY <1>4, <1>9, <1>10, <1>11, <1>12 DEF NotesGood
<1> QED
  BY <1>13 DEF NotesInv

LEMMA NotesRoom ==
  ASSUME NEW a \in Nat, NEW b \in Nat, NEW k \in Nat, a + b <= k + k + 2
  PROVE  /\ a + (b - 1) <= k + k + 2
         /\ a + (b + 1) <= (k + 1) + (k + 1) + 2
  OBVIOUS

LEMMA NotesLostInv ==
  ASSUME NotesInv, Notes!PushLost PROVE NotesInv'
<1>0. PICK k \in Notes!Ids : NotesGood(view, k)
  BY DEF NotesInv
<1>00. /\ view \in NotesState /\ NotesRows(view, k)
       /\ \A h \in Notes!Hooks : NotesSized(view, k, h) /\ view.hook[h] \in NotesHook
  BY <1>0 DEF NotesGood, NotesState
<1>1. view.push # <<>> /\ view' = [view EXCEPT !.push = Tail(view.push), !.failed = TRUE]
  BY DEF Notes!PushLost
<1>2. /\ view'.hook = view.hook /\ view'.push = Tail(view.push) /\ view'.rows = view.rows
      /\ view'.sRead = view.sRead /\ view'.reads = view.reads /\ view'.failed = TRUE
  BY <1>00, <1>1 DEF NotesState
<1>3. /\ view'.push \in Seq(Notes!Ids) /\ Len(view'.push) = Len(view.push) - 1
      /\ Len(view'.push) \in Nat /\ Len(view'.push) <= k /\ k \in Nat
      /\ \A i, j \in DOMAIN view'.push : i < j => view'.push[i] < view'.push[j]
      /\ \A i \in DOMAIN view'.push : view'.push[i] <= k
  <2>1. view.push # <<>> /\ view'.push = Tail(view.push)
    BY <1>1, <1>2
  <2>2. view \in NotesState /\ k \in Notes!Ids /\ NotesRows(view, k)
    BY <1>0, <1>00
  <2> QED
    BY <2>1, <2>2, NotesTaken
<1>4. view' \in NotesState
  BY <1>00, <1>1, <1>2, <1>3 DEF NotesState
<1>5. NotesRows(view', k)
  BY <1>00, <1>2, <1>3 DEF NotesRows
<1>6. ASSUME NEW h \in Notes!Hooks PROVE NotesSized(view', k, h)
  <2>1. Len(view.hook[h].items) + Len(view.push) <= k + k + 2
    BY <1>00 DEF NotesSized
  <2>2. view.hook[h].items \in Seq(Notes!Item) /\ view.push \in Seq(Notes!Ids)
    BY <1>00 DEF NotesHook, NotesState
  <2>3. Len(view.hook[h].items) \in Nat
    BY <2>2
  <2>4. Len(view.push) \in Nat
    BY <2>2
  <2>5. Len(view.hook[h].items) + (Len(view.push) - 1) <= k + k + 2
    <3>1. k \in Nat
      BY <1>3
    <3> QED
      BY <2>1, <2>3, <2>4, <3>1, NotesRoom
  <2>6. Len(view'.hook[h].items) + Len(view'.push) <= k + k + 2
    BY <1>2, <1>3, <2>5
  <2> QED
    BY <1>00, <1>2, <2>6 DEF NotesSized
<1>7. NotesGood(view', k)
  BY <1>0, <1>2, <1>4, <1>5, <1>6 DEF NotesGood
<1> QED
  BY <1>7 DEF NotesInv

\* The rows change: a hook whose list is being read does not count any more.
LEMMA NotesRacedIs ==
  ASSUME view \in NotesState, NEW h \in Notes!Hooks
  PROVE  /\ Notes!Raced \in [Notes!Hooks -> NotesHook]
         /\ Notes!Raced[h].call = view.hook[h].call /\ Notes!Raced[h].items = view.hook[h].items
         /\ Notes!Raced[h].snapshot = view.hook[h].snapshot
         /\ Notes!Raced[h].unread = view.hook[h].unread
         /\ Notes!Raced[h].raced <=> view.hook[h].raced \/ view.hook[h].call \in Notes!Pending
<1>0. \A f \in Notes!Hooks : view.hook[f] \in NotesHook
  BY DEF NotesState
<1>1. ASSUME NEW f \in Notes!Hooks
      PROVE  \E b \in BOOLEAN : /\ Notes!Raced[f] = [view.hook[f] EXCEPT !.raced = b]
                                /\ b <=> view.hook[f].raced \/ view.hook[f].call \in Notes!Pending
  <2>1. PICK b \in BOOLEAN : b <=> view.hook[f].raced \/ view.hook[f].call \in Notes!Pending
    OBVIOUS
  <2>2. (view.hook[f].raced \/ view.hook[f].call \in Notes!Pending) = b
    BY <1>0, <2>1 DEF NotesHook
  <2> QED
    BY <2>1, <2>2 DEF Notes!Raced
<1>2. ASSUME NEW f \in Notes!Hooks PROVE Notes!Raced[f] \in NotesHook
  BY <1>0, <1>1 DEF NotesHook
<1>3. Notes!Raced \in [Notes!Hooks -> NotesHook]
  BY <1>2 DEF Notes!Raced
<1>4. PICK b \in BOOLEAN : /\ Notes!Raced[h] = [view.hook[h] EXCEPT !.raced = b]
                           /\ b <=> view.hook[h].raced \/ view.hook[h].call \in Notes!Pending
  BY <1>1
<1> QED
  BY <1>0, <1>3, <1>4 DEF NotesHook

LEMMA NotesNotifyInv ==
  ASSUME NotesInv, Notes!Notify PROVE NotesInv'
<1>0. PICK k \in Notes!Ids : NotesGood(view, k)
  BY DEF NotesInv
<1>00. /\ view \in NotesState /\ NotesRows(view, k)
       /\ \A h \in Notes!Hooks : /\ NotesSized(view, k, h) /\ (~view.failed => NotesFollowed(view, h))
                                 /\ view.hook[h] \in NotesHook
  BY <1>0 DEF NotesGood, NotesState
<1>1. k \in Nat /\ MaxActs["notes"] \in Nat /\ view.rows = 0..k /\ view.push \in Seq(Notes!Ids)
      /\ Len(view.push) <= k
  BY <1>00, NotesBounds DEF Notes!Ids, NotesRows, NotesState
<1>2. Notes!Cardinality(view.rows) = k + 1
  BY <1>1, FS_Interval, NotesCardSame
<1>3. PICK hook : hook = Notes!Raced
  OBVIOUS
<1>4. /\ k + 1 <= MaxActs["notes"]
      /\ view' = [view EXCEPT !.rows = @ \union {k + 1}, !.push = Append(@, k + 1), !.hook = hook]
  BY <1>2, <1>3 DEF Notes!Notify
<1>5. /\ view'.hook = hook /\ view'.push = Append(view.push, k + 1)
      /\ view'.rows = view.rows \union {k + 1}
      /\ view'.sRead = view.sRead /\ view'.reads = view.reads /\ view'.failed = view.failed
  BY <1>00, <1>4 DEF NotesState
<1>6. /\ hook \in [Notes!Hooks -> NotesHook]
      /\ \A h \in Notes!Hooks :
           /\ hook[h].call = view.hook[h].call /\ hook[h].items = view.hook[h].items
           /\ hook[h].snapshot = view.hook[h].snapshot /\ hook[h].unread = view.hook[h].unread
           /\ hook[h].raced <=> view.hook[h].raced \/ view.hook[h].call \in Notes!Pending
  BY <1>00, <1>3, NotesRacedIs, NotesCallEnds
<1>7. k + 1 \in Notes!Ids /\ 0..(k + 1) = (0..k) \union {k + 1}
  BY <1>1, <1>4 DEF Notes!Ids
<1> DEFINE l == Len(view.push)
<1>8. /\ view'.push \in Seq(Notes!Ids) /\ l \in Nat /\ Len(view'.push) = l + 1
      /\ DOMAIN view.push = 1..l /\ DOMAIN view'.push = 1..(l + 1)
      /\ \A i \in 1..l : view'.push[i] = view.push[i] /\ view.push[i] \in Notes!Ids
      /\ view'.push[l + 1] = k + 1
  BY <1>1, <1>5, <1>7, ListAppend
<1> HIDE DEF l
<1>9. view' \in NotesState
  <2>1. view.rows \union {k + 1} \in SUBSET Notes!Ids
    BY <1>00, <1>7 DEF NotesState
  <2> QED
    BY <1>00, <1>4, <1>5, <1>6, <1>8, <2>1 DEF NotesState
<1>10. NotesRows(view', k + 1)
  <2>1. view'.rows = 0..(k + 1)
    BY <1>1, <1>5, <1>7
  <2>2. Len(view'.push) <= k + 1
    BY <1>1, <1>8 DEF l
  <2>3. /\ \A i, j \in 1..l : i < j => view.push[i] < view.push[j]
        /\ \A i \in 1..l : view.push[i] <= k
    BY <1>00, <1>8 DEF NotesRows
  <2>4. \A i \in 1..l : view.push[i] \in Nat
    BY <1>8, NotesBounds DEF Notes!Ids
  <2>5. \A i, j \in DOMAIN view'.push : i < j => view'.push[i] < view'.push[j]
    <3> SUFFICES ASSUME NEW i \in 1..(l + 1), NEW j \in 1..(l + 1), i < j
                 PROVE  view'.push[i] < view'.push[j]
      BY <1>8
    <3>1. i \in 1..l
      BY <1>8
    <3>2. CASE j \in 1..l
      BY <1>8, <2>3, <3>1, <3>2
    <3>3. CASE j = l + 1
      <4>1. view'.push[j] = k + 1 /\ view'.push[i] = view.push[i]
        BY <1>8, <3>1, <3>3
      <4>2. view.push[i] <= k /\ view.push[i] \in Nat
        BY <2>3, <2>4, <3>1
      <4> QED
        BY <1>1, <4>1, <4>2
    <3> QED
      BY <1>8, <3>2, <3>3
  <2>6. \A i \in DOMAIN view'.push : view'.push[i] <= k + 1
    <3> SUFFICES ASSUME NEW i \in 1..(l + 1) PROVE view'.push[i] <= k + 1
      BY <1>8
    <3>1. CASE i \in 1..l
      <4>1. view'.push[i] = view.push[i] /\ view.push[i] <= k /\ view.push[i] \in Nat
        BY <1>8, <2>3, <2>4, <3>1
      <4> QED
        BY <1>1, <4>1
    <3>2. CASE i = l + 1
      BY <1>1, <1>8, <3>2
    <3> QED
      BY <1>8, <3>1, <3>2
  <2>7. /\ view'.hook["badge"].call # "away"
        /\ view'.hook["page"].call = "away" =>
             view'.hook["page"].items = <<>> /\ view'.sRead = {} /\ view'.reads = {}
    BY <1>00, <1>5, <1>6, NotesCallEnds DEF NotesRows
  <2> QED
    BY <2>1, <2>2, <2>5, <2>6, <2>7 DEF NotesRows
<1>11. ASSUME NEW h \in Notes!Hooks PROVE NotesSized(view', k + 1, h)
  <2>1. Len(view.hook[h].items) + Len(view.push) <= k + k + 2
    BY <1>00 DEF NotesSized
  <2>2. view.hook[h].items \in Seq(Notes!Item)
    BY <1>00 DEF NotesHook
  <2>3. Len(view.hook[h].items) \in Nat
    BY <2>2
  <2>4. Len(view.hook[h].items) + (l + 1) <= (k + 1) + (k + 1) + 2
    <3>1. k \in Nat
      BY <1>1
    <3>2. l \in Nat
      BY <1>8
    <3>3. Len(view.hook[h].items) + l <= k + k + 2
      BY <2>1 DEF l
    <3> QED
      BY <2>3, <3>1, <3>2, <3>3, NotesRoom
  <2>5. Len(view'.hook[h].items) + Len(view'.push) <= (k + 1) + (k + 1) + 2
    BY <1>5, <1>6, <1>8, <2>4
  <2>6. view'.hook[h].call = "ok" =>
          \E r \in 0..(k + 1), read \in SUBSET Notes!Ids : \E f \in 0..r :
              view'.hook[h].snapshot = NotesSnapshot(f..r, read)
    <3> SUFFICES ASSUME view.hook[h].call = "ok"
                 PROVE  \E r \in 0..(k + 1), read \in SUBSET Notes!Ids : \E f \in 0..r :
                          view.hook[h].snapshot = NotesSnapshot(f..r, read)
      BY <1>5, <1>6
    <3>1. PICK r \in 0..k, read \in SUBSET Notes!Ids : \E f \in 0..r :
            view.hook[h].snapshot = NotesSnapshot(f..r, read)
      BY <1>00 DEF NotesSized
    <3>2. r \in 0..(k + 1)
      BY <1>7
    <3> QED
      BY <3>1, <3>2
  <2> QED
    BY <2>5, <2>6 DEF NotesSized
<1>12. ASSUME NEW h \in Notes!Hooks, ~view.failed PROVE NotesFollowed(view', h)
  <2>1. NotesFollowed(view, h)
    BY <1>00, <1>12
  <2>2. /\ view'.hook[h].call = view.hook[h].call /\ view'.hook[h].items = view.hook[h].items
        /\ view'.hook[h].unread = view.hook[h].unread
        /\ view'.hook[h].raced <=> view.hook[h].raced \/ view.hook[h].call \in Notes!Pending
    BY <1>5, <1>6
  <2>3. CASE view.hook[h].call # "idle" \/ view.hook[h].raced
    BY <2>1, <2>2, <2>3, NotesCallEnds DEF NotesFollowed
  <2>4. CASE view.hook[h].call = "idle" /\ ~view.hook[h].raced
    <3>1. PICK f \in view.rows, d \in Nat : NotesFits(view, h, f, d)
      BY <1>12, <2>1, <2>4 DEF NotesFollowed
    <3>2. NotesQueued(view') = NotesQueued(view) \union {k + 1}
      <4>1. \A i \in 1..(l + 1) : view'.push[i] \in NotesQueued(view) \union {k + 1}
        <5> SUFFICES ASSUME NEW i \in 1..(l + 1), i # l + 1 PROVE view'.push[i] \in NotesQueued(view)
          BY <1>8
        <5>1. i \in 1..l
          BY <1>8
        <5> QED
          BY <1>8, <5>1 DEF NotesQueued
      <4>2. \A i \in 1..l : view.push[i] \in NotesQueued(view')
        <5> SUFFICES ASSUME NEW i \in 1..l PROVE view.push[i] \in NotesQueued(view')
          OBVIOUS
        <5>1. i \in DOMAIN view'.push /\ view'.push[i] = view.push[i]
          BY <1>8
        <5> QED
          BY <5>1 DEF NotesQueued
      <4>3. k + 1 \in NotesQueued(view')
        <5>1. l + 1 \in DOMAIN view'.push /\ view'.push[l + 1] = k + 1
          BY <1>8
        <5> QED
          BY <5>1 DEF NotesQueued
      <4> QED
        BY <1>8, <4>1, <4>2, <4>3 DEF NotesQueued
    <3>3. k + 1 \notin view.rows
      BY <1>1
    <3> DEFINE items == view.hook[h].items
    <3>4. /\ NotesListed(items) \intersect NotesQueued(view) = {}
          /\ NotesListed(items) \union NotesQueued(view) = {id \in view.rows : id >= f}
          /\ f = 0 \/ f + NoteLimit - 1 \in view.rows
      BY <3>1 DEF NotesFits
    <3> HIDE DEF items
    <3>5. /\ NotesListed(items) \intersect NotesQueued(view') = {}
          /\ NotesListed(items) \union NotesQueued(view') = {id \in view'.rows : id >= f}
      <4>1. NotesListed(items) \subseteq view.rows
        BY <3>4
      <4>2. k + 1 >= f
        BY <1>1
      <4>3. {id \in view'.rows : id >= f} = {id \in view.rows : id >= f} \union {k + 1}
        BY <1>5, <4>2
      <4> QED
        BY <3>2, <3>3, <3>4, <4>1, <4>3
    <3>6. NotesFits(view', h, f, d)
      <4>1. f = 0 \/ f + NoteLimit - 1 \in view'.rows
        BY <1>5, <3>4
      <4> QED
        BY <1>5, <2>2, <3>1, <3>5, <4>1 DEF NotesFits, items
    <3> QED
      BY <1>5, <2>2, <2>4, <3>6, NotesCallEnds DEF NotesFollowed
  <2> QED
    BY <2>3, <2>4
<1>13. NotesGood(view', k + 1)
  BY <1>5, <1>7, <1>9, <1>10, <1>11, <1>12 DEF NotesGood
<1> QED
  BY <1>7, <1>13 DEF NotesInv

LEMMA NotesMarkedItems ==
  ASSUME NEW items \in Seq(Notes!Item), NEW id, NEW marked, marked = NotesMarked(items, id)
  PROVE  /\ marked \in Seq(Notes!Item) /\ Len(marked) = Len(items)
         /\ DOMAIN marked = DOMAIN items
         /\ \A i \in DOMAIN items :
              /\ marked[i].id = items[i].id
              /\ marked[i].read <=> items[i].read \/ items[i].id = id
<1>1. DOMAIN items = 1..Len(items) /\ Len(items) \in Nat /\ \A i \in DOMAIN items : items[i] \in Notes!Item
  OBVIOUS
<1>2. ASSUME NEW i \in DOMAIN items
      PROVE  /\ marked[i] \in Notes!Item /\ marked[i].id = items[i].id
             /\ marked[i].read <=> items[i].read \/ items[i].id = id
  <2>1. items[i] \in Notes!Item /\ items[i].read \in BOOLEAN
    BY <1>1 DEF Notes!Item
  <2>2. CASE items[i].id = id
    <3>1. marked[i] = [items[i] EXCEPT !.read = TRUE]
      BY <2>2 DEF NotesMarked
    <3> QED
      BY <2>1, <2>2, <3>1 DEF Notes!Item
  <2>3. CASE items[i].id # id
    <3>1. marked[i] = items[i]
      BY <2>3 DEF NotesMarked
    <3> QED
      BY <2>1, <2>3, <3>1
  <2> QED
    BY <2>2, <2>3
<1>3. marked \in [1..Len(items) -> Notes!Item]
  BY <1>1, <1>2 DEF NotesMarked
<1>4. marked \in Seq(Notes!Item) /\ Len(marked) = Len(items)
  BY <1>1, <1>3
<1> QED
  BY <1>1, <1>2, <1>3, <1>4

LEMMA NotesMarkInv ==
  ASSUME NotesInv, Notes!MarkRead PROVE NotesInv'
<1>0. PICK k \in Notes!Ids : NotesGood(view, k)
  BY DEF NotesInv
<1>00. /\ view \in NotesState /\ NotesRows(view, k)
       /\ \A h \in Notes!Hooks : /\ NotesSized(view, k, h) /\ (~view.failed => NotesFollowed(view, h))
                                 /\ view.hook[h] \in NotesHook
       /\ "page" \in Notes!Hooks /\ "badge" \in Notes!Hooks
  BY <1>0 DEF NotesGood, NotesState, Notes!Hooks
<1> DEFINE items == view.hook["page"].items
           unread == view.hook["page"].unread
<1>1. PICK i \in DOMAIN items : ~items[i].read /\ view' = Notes!Marked(items[i].id)
  BY DEF Notes!MarkRead
<1>2. PICK id : id = items[i].id
  OBVIOUS
<1>2a. PICK marked : marked = NotesMarked(items, id)
  OBVIOUS
<1> DEFINE less == IF unread = 0 THEN 0 ELSE unread - 1
           g == [view.hook["page"] EXCEPT !.unread = less, !.items = marked]
           hook == [view.hook EXCEPT !["page"] = g]
<1>3. view' = [view EXCEPT !.reads = @ \union {id}, !.hook = hook]
  BY <1>00, <1>1, <1>2, <1>2a DEF Notes!Marked, NotesMarked, NotesState, NotesHook
<1>4. items \in Seq(Notes!Item) /\ unread \in Nat /\ less \in Nat
  BY <1>00 DEF NotesHook
<1>5. /\ marked \in Seq(Notes!Item) /\ Len(marked) = Len(items)
      /\ DOMAIN marked = DOMAIN items
      /\ \A j \in DOMAIN items :
           /\ marked[j].id = items[j].id
           /\ marked[j].read <=> items[j].read \/ items[j].id = id
  <2> HIDE DEF items
  <2> QED
    BY <1>4, <1>2a, NotesMarkedItems
<1> HIDE DEF less
<1>6. /\ g \in NotesHook /\ g.call = view.hook["page"].call /\ g.items = marked
      /\ g.unread = less /\ g.raced = view.hook["page"].raced
      /\ g.snapshot = view.hook["page"].snapshot
  BY <1>00, <1>4, <1>5 DEF NotesHook
<1> HIDE DEF g
<1>7. /\ hook \in [Notes!Hooks -> NotesHook] /\ hook["page"] = g
      /\ hook["badge"] = view.hook["badge"]
  BY <1>00, <1>6 DEF NotesState
<1> HIDE DEF hook
<1>8. /\ view'.hook = hook /\ view'.push = view.push /\ view'.rows = view.rows
      /\ view'.sRead = view.sRead /\ view'.reads = view.reads \union {id}
      /\ view'.failed = view.failed
  BY <1>00, <1>3 DEF NotesState
<1>9. id \in Notes!Ids
  <2>1. items[i] \in Notes!Item
    BY <1>1, <1>4
  <2> QED
    BY <1>2, <2>1 DEF Notes!Item
<1>10. view' \in NotesState
  <2>1. view.reads \union {id} \in SUBSET Notes!Ids
    BY <1>00, <1>9 DEF NotesState
  <2> QED
    BY <1>00, <1>3, <1>7, <2>1 DEF NotesState
<1>11. view.hook["page"].call # "away"
  <2>1. items # <<>>
    BY <1>1
  <2> QED
    BY <1>00, <2>1 DEF NotesRows
<1>12. NotesRows(view', k)
  BY <1>00, <1>6, <1>7, <1>8, <1>11 DEF NotesRows
<1>13. NotesSized(view', k, "page")
  <2>1. NotesSized(view, k, "page")
    BY <1>00
  <2> QED
    BY <1>5, <1>6, <1>7, <1>8, <2>1 DEF NotesSized
<1>14. NotesSized(view', k, "badge")
  <2>1. NotesSized(view, k, "badge")
    BY <1>00
  <2> QED
    BY <1>7, <1>8, <2>1 DEF NotesSized
<1>15. ASSUME ~view.failed PROVE NotesFollowed(view', "badge")
  <2>1. NotesFollowed(view, "badge") /\ "badge" # "page"
    BY <1>00, <1>15
  <2>2. NotesAsked(view, "badge") => NotesAsked(view', "badge")
    BY <1>7, <1>8, <2>1 DEF NotesAsked
  <2>3. \A f, d : NotesFits(view, "badge", f, d) => NotesFits(view', "badge", f, d)
    BY <1>7, <1>8, <2>1 DEF NotesFits, NotesQueued
  <2> QED
    BY <1>7, <1>8, <2>1, <2>2, <2>3 DEF NotesFollowed
<1>16. ASSUME ~view.failed PROVE NotesFollowed(view', "page")
  <2>1. NotesFollowed(view, "page")
    BY <1>00, <1>16
  <2>2. ~NotesAsked(view, "page")
    <3>1. items # <<>>
      BY <1>1
    <3> QED
      BY <3>1 DEF NotesAsked
  <2>3. CASE view.hook["page"].call # "idle" \/ view.hook["page"].raced
    BY <1>6, <1>7, <1>8, <2>1, <2>2, <2>3 DEF NotesFollowed
  <2>4. CASE view.hook["page"].call = "idle" /\ ~view.hook["page"].raced
    <3>1. PICK f \in view.rows, d \in Nat : NotesFits(view, "page", f, d)
      BY <1>16, <2>1, <2>4 DEF NotesFollowed
    <3>2. /\ \A j, l \in DOMAIN items : items[j].id = items[l].id => j = l
          /\ NotesListed(items) \intersect NotesQueued(view) = {}
          /\ NotesListed(items) \union NotesQueued(view) = {r \in view.rows : r >= f}
          /\ unread = Cardinality(NotesUnread(items)) + d
          /\ \A j \in DOMAIN items :
                items[j].read <=> items[j].id \in view.sRead \union view.reads
          /\ view.sRead \union view.reads \subseteq NotesListed(items)
      BY <3>1 DEF NotesFits
    <3> HIDE DEF items, unread
    <3>3. NotesListed(marked) = NotesListed(items)
      BY <1>5 DEF NotesListed
    <3>4. NotesUnread(marked) = NotesUnread(items) \ {id}
      BY <1>5 DEF NotesUnread
    <3>5. id \in NotesUnread(items) /\ id \in NotesListed(items)
      BY <1>1, <1>2 DEF NotesUnread, NotesListed, items
    <3>6. IsFiniteSet(NotesUnread(items))
      <4>1. NotesUnread(items) \in SUBSET (0..k)
        <5>1. NotesUnread(items) \subseteq NotesListed(items)
          BY DEF NotesUnread, NotesListed
        <5> QED
          BY <1>00, <3>2, <5>1 DEF NotesRows
      <4>2. IsFiniteSet(0..k)
        <5>1. k \in Int
          BY NotesBounds DEF Notes!Ids
        <5> QED
          BY <5>1, FS_Interval
      <4> QED
        BY <4>1, <4>2, FS_Subset
    <3>7. less = Cardinality(NotesUnread(marked)) + d
      <4>1. Cardinality(NotesUnread(items) \ {id}) = Cardinality(NotesUnread(items)) - 1
        BY <3>5, <3>6, FS_RemoveElement
      <4>2. /\ Cardinality(NotesUnread(items) \ {id}) \in Nat
            /\ Cardinality(NotesUnread(items)) \in Nat
        BY <3>5, <3>6, FS_RemoveElement, FS_CardinalityType
      <4>3. unread # 0
        BY <3>1, <3>2, <4>1, <4>2, <1>4
      <4> QED
        BY <3>1, <3>2, <3>4, <4>1, <4>2, <4>3 DEF less
    <3>8. \A j \in DOMAIN marked :
             marked[j].read <=> marked[j].id \in view.sRead \union (view.reads \union {id})
      BY <1>5, <3>2
    <3>9. view.sRead \union (view.reads \union {id}) \subseteq NotesListed(marked)
      BY <3>2, <3>3, <3>5
    <3>10. \A j, l \in DOMAIN marked : marked[j].id = marked[l].id => j = l
      BY <1>5, <3>2
    <3>11. NotesQueued(view') = NotesQueued(view)
      BY <1>8 DEF NotesQueued
    <3>12. /\ NotesListed(marked) \intersect NotesQueued(view') = {}
           /\ NotesListed(marked) \union NotesQueued(view') = {r \in view.rows : r >= f}
      BY <3>2, <3>3, <3>11
    <3>13. NotesFits(view', "page", f, d)
      <4>1. f = 0 \/ f + NoteLimit - 1 \in view.rows
        BY <3>1 DEF NotesFits
      <4>2. (f = 0 => d = 0) /\ d = f
        BY <3>1 DEF NotesFits
      <4> QED
        BY <1>6, <1>7, <1>8, <3>7, <3>8, <3>9, <3>10, <3>12, <4>1, <4>2 DEF NotesFits
    <3> QED
      BY <1>6, <1>7, <1>8, <2>4, <3>13 DEF NotesFollowed
  <2> QED
    BY <2>3, <2>4
<1>17. NotesGood(view', k)
  BY <1>8, <1>10, <1>12, <1>13, <1>14, <1>15, <1>16 DEF NotesGood, Notes!Hooks
<1> QED
  BY <1>17 DEF NotesInv

LEMMA NotesServedInv ==
  ASSUME NotesInv, Notes!ServeRead PROVE NotesInv'
<1>0. PICK k \in Notes!Ids : NotesGood(view, k)
  BY DEF NotesInv
<1>00. /\ view \in NotesState /\ NotesRows(view, k)
       /\ \A h \in Notes!Hooks : /\ NotesSized(view, k, h) /\ (~view.failed => NotesFollowed(view, h))
                                 /\ view.hook[h] \in NotesHook
       /\ "page" \in Notes!Hooks
  BY <1>0 DEF NotesGood, NotesState, Notes!Hooks
<1>0a. PICK id \in view.reads, end \in Notes!Ends : \E done \in Notes!Effects(end) :
        view' = [view EXCEPT !.reads = @ \ {id}, !.failed = @ \/ end # "ok",
                   !.sRead = IF done THEN @ \union {id} ELSE @,
                   !.hook = IF done THEN Notes!Raced ELSE @]
  BY DEF Notes!ServeRead
<1>1. PICK done \in Notes!Effects(end) :
        view' = [view EXCEPT !.reads = @ \ {id}, !.failed = @ \/ end # "ok",
                   !.sRead = IF done THEN @ \union {id} ELSE @,
                   !.hook = IF done THEN Notes!Raced ELSE @]
  BY <1>0a
<1>2. done \in BOOLEAN /\ (end = "ok" => done = TRUE)
  BY NotesHowItEnds
<1>3. PICK hook : hook = IF done THEN Notes!Raced ELSE view.hook
  OBVIOUS
<1>4. PICK sRead : sRead = IF done THEN view.sRead \union {id} ELSE view.sRead
  OBVIOUS
<1>5. PICK failed \in BOOLEAN : failed <=> view.failed \/ end # "ok"
  OBVIOUS
<1>6. view' = [view EXCEPT !.reads = view.reads \ {id}, !.failed = failed,
                 !.sRead = sRead, !.hook = hook]
  <2>1. (view.failed \/ end # "ok") = failed
    BY <1>00, <1>5 DEF NotesState
  <2> QED
    BY <1>00, <1>1, <1>3, <1>4, <2>1 DEF NotesState
<1>7. /\ view'.hook = hook /\ view'.push = view.push /\ view'.rows = view.rows
      /\ view'.sRead = sRead /\ view'.reads = view.reads \ {id}
      /\ view'.failed = failed
  BY <1>00, <1>6 DEF NotesState
<1>8. /\ hook \in [Notes!Hooks -> NotesHook]
      /\ \A h \in Notes!Hooks :
           /\ hook[h].call = view.hook[h].call /\ hook[h].items = view.hook[h].items
           /\ hook[h].snapshot = view.hook[h].snapshot /\ hook[h].unread = view.hook[h].unread
           /\ done /\ view.hook[h].call \in Notes!Pending => hook[h].raced
           /\ view.hook[h].raced => hook[h].raced
  <2>1. CASE done = TRUE
    BY <1>00, <1>3, <2>1, NotesRacedIs, NotesCallEnds
  <2>2. CASE done = FALSE
    BY <1>00, <1>3, <2>2 DEF NotesState
  <2> QED
    BY <1>2, <2>1, <2>2
<1>9. view' \in NotesState
  <2>1. sRead \in SUBSET Notes!Ids /\ view.reads \ {id} \in SUBSET Notes!Ids
    BY <1>00, <1>1, <1>4 DEF NotesState
  <2> QED
    BY <1>00, <1>6, <1>8, <2>1 DEF NotesState
<1>10. view.hook["page"].call # "away"
  BY <1>00, <1>1 DEF NotesRows
<1>11. NotesRows(view', k)
  BY <1>00, <1>7, <1>8, <1>10, NotesCallEnds DEF NotesRows
<1>12. ASSUME NEW h \in Notes!Hooks PROVE NotesSized(view', k, h)
  <2>1. NotesSized(view, k, h)
    BY <1>00
  <2>2. /\ view'.hook[h].call = view.hook[h].call /\ view'.hook[h].items = view.hook[h].items
        /\ view'.hook[h].snapshot = view.hook[h].snapshot /\ view'.push = view.push
    BY <1>7, <1>8
  <2> QED
    BY <2>1, <2>2 DEF NotesSized
<1>13. ASSUME NEW h \in Notes!Hooks, ~failed PROVE NotesFollowed(view', h)
  <2>1. NotesFollowed(view, h) /\ done = TRUE
    BY <1>00, <1>2, <1>5, <1>13
  <2>2. sRead = view.sRead \union {id}
    BY <1>4, <2>1
  <2>3. sRead \union (view.reads \ {id}) = view.sRead \union view.reads
    BY <1>1, <2>2
  <2>4. CASE view.hook[h].call # "idle" \/ view.hook[h].raced
    BY <1>7, <1>8, <2>1, <2>4, NotesCallEnds DEF NotesFollowed
  <2>5. CASE view.hook[h].call = "idle" /\ ~view.hook[h].raced
    <3>1. PICK f \in view.rows, d \in Nat : NotesFits(view, h, f, d)
      BY <2>1, <2>5 DEF NotesFollowed
    <3>2. NotesFits(view', h, f, d)
      BY <1>7, <1>8, <2>3, <3>1 DEF NotesFits, NotesQueued
    <3> QED
      BY <1>7, <1>8, <2>5, <3>2 DEF NotesFollowed
  <2> QED
    BY <2>4, <2>5
<1>14. NotesGood(view', k)
  BY <1>7, <1>9, <1>11, <1>12, <1>13 DEF NotesGood
<1> QED
  BY <1>14 DEF NotesInv

LEMMA NotesNextInv ==
  ASSUME NotesInv, [Notes!Next]_view PROVE NotesInv'
<1>1. CASE UNCHANGED view
  BY <1>1 DEF NotesInv
<1>2. CASE Notes!Use
  BY <1>2, NotesReadStep, NotesNotifyInv, NotesLostInv, NotesMarkInv DEF Notes!Use
<1>3. CASE Notes!Progress
  BY <1>3, NotesReadStep, NotesLoadedInv, NotesPushedInv, NotesServedInv DEF Notes!Progress
<1> QED
  BY <1>1, <1>2, <1>3 DEF Notes!Next

LEMMA NotesInvTyped ==
  ASSUME NotesInv PROVE Notes!TypeOK
<1>0. PICK k \in Notes!Ids : NotesGood(view, k)
  BY DEF NotesInv
<1>1. view \in NotesState /\ NotesRows(view, k) /\ k \in Nat /\ k <= MaxActs["notes"]
  BY <1>0, NotesBounds DEF NotesGood, Notes!Ids
<1>2. Notes!Cardinality(Notes!Ids) = MaxActs["notes"] + 1
  BY NotesBounds, NotesCardSame, FS_Interval DEF Notes!Ids
<1>3. ASSUME NEW h \in Notes!Hooks
      PROVE  Len(view.hook[h].items) <= 2 * Notes!Cardinality(Notes!Ids)
  <2>1. Len(view.hook[h].items) + Len(view.push) <= k + k + 2
    BY <1>0 DEF NotesGood, NotesSized
  <2>2. view.hook[h].items \in Seq(Notes!Item) /\ view.push \in Seq(Notes!Ids)
    BY <1>1 DEF NotesHook, NotesState
  <2>3. PICK a, b \in Nat : a = Len(view.hook[h].items) /\ b = Len(view.push)
    BY <2>2
  <2>4. PICK m \in Nat : m = MaxActs["notes"] /\ k <= m
    BY <1>1, NotesBounds
  <2>5. a <= 2 * (m + 1)
    <3>1. a + b <= k + k + 2
      BY <2>1, <2>3
    <3>2. k \in Nat
      BY <1>1
    <3>3. k <= m
      BY <2>4
    <3>4. a <= k + k + 2
      BY <3>1, <3>2
    <3> QED
      BY <3>2, <3>3, <3>4
  <2> QED
    BY <1>2, <2>3, <2>4, <2>5
<1> QED
  BY <1>1, <1>3 DEF Notes!TypeOK, NotesState, NotesHook

LEMMA NotesInvCounts == NotesInv => Notes!UnreadCountsItems
<1> SUFFICES ASSUME NotesInv, Notes!Quiet, ~view.failed, NEW h \in Notes!Hooks,
                    view.hook[h].call = "idle", ~view.hook[h].raced
             PROVE  LET hook == view.hook[h]
                        left == Notes!Cardinality(view.rows) - Len(hook.items) IN
                    /\ {hook.items[i].id : i \in DOMAIN hook.items} = {id \in view.rows : id >= left}
                    /\ left = 0 \/ (left > 0 /\ Len(hook.items) >= NoteLimit)
                    /\ hook.unread >= Notes!Unread(hook.items)
                    /\ left = 0 => hook.unread = Notes!Unread(hook.items)
                    /\ h = "page" =>
                          /\ hook.unread = Notes!Cardinality(view.rows \ view.sRead)
                          /\ \A i \in DOMAIN hook.items :
                                hook.items[i].read <=> hook.items[i].id \in view.sRead
  BY DEF Notes!UnreadCountsItems
<1>0. PICK k \in Notes!Ids : NotesGood(view, k)
  BY DEF NotesInv
<1>1. /\ view \in NotesState /\ view.hook[h] \in NotesHook /\ NotesRows(view, k)
      /\ \E f \in view.rows, d \in Nat : NotesFits(view, h, f, d)
  BY <1>0 DEF NotesGood, NotesFollowed, NotesState
<1>1a. PICK f \in view.rows, d \in Nat : NotesFits(view, h, f, d)
  BY <1>1
<1>1b. k \in Nat /\ view.rows = 0..k /\ f \in 0..k /\ NoteLimit \in Nat \ {0}
  <2>1. k \in Nat /\ view.rows = 0..k /\ f \in view.rows
    BY <1>1, <1>1a, NotesBounds DEF NotesRows, Notes!Ids
  <2>2. NoteLimit \in Nat \ {0}
    BY ComponentAssumption DEF Notes!LimitAssumption
  <2> QED
    BY <2>1, <2>2
<1> DEFINE items == view.hook[h].items
           l == Len(items)
<1>2. items \in Seq(Notes!Item) /\ l \in Nat /\ DOMAIN items = 1..l
  BY <1>1 DEF NotesHook
<1>3. view.push = <<>> /\ view.reads = {} /\ NotesQueued(view) = {}
  BY DEF Notes!Quiet, NotesQueued
<1>4. /\ \A i, j \in 1..l : items[i].id = items[j].id => i = j
      /\ NotesListed(items) = {id \in view.rows : id >= f}
      /\ view.hook[h].unread = Cardinality(NotesUnread(items)) + d
      /\ f = 0 \/ f + NoteLimit - 1 \in view.rows
      /\ (f = 0 => d = 0) /\ (h = "page" => d = f)
      /\ h = "page" => /\ \A i \in 1..l : items[i].read <=> items[i].id \in view.sRead
                       /\ view.sRead \subseteq NotesListed(items)
  BY <1>1a, <1>2, <1>3 DEF NotesFits
<1> HIDE DEF items, l
<1>4a. NotesListed(items) = f..k
  BY <1>1b, <1>4
<1>5. l = Cardinality(f..k)
  <2> DEFINE s == [i \in 1..l |-> items[i].id]
  <2>1. /\ DOMAIN s = 1..l /\ \A i, j \in 1..l : s[i] = s[j] => i = j
    BY <1>4
  <2>2. /\ \A i \in 1..l : s[i] \in f..k
        /\ \A t \in f..k : \E i \in 1..l : s[i] = t
    BY <1>2, <1>4a DEF NotesListed
  <2> HIDE DEF s
  <2>3. l \in Nat
    BY <1>2
  <2>4. ListOf(s, l, f..k)
    BY <2>1, <2>2 DEF ListOf
  <2> QED
    BY <2>3, <2>4, ListSize
<1>6. Cardinality({i \in DOMAIN items : ~items[i].read}) = Cardinality(NotesUnread(items))
  <2> DEFINE S == {i \in DOMAIN items : ~items[i].read}
             T == NotesUnread(items)
             g == [i \in S |-> items[i].id]
  <2>1. g \in [S -> T]
    BY DEF NotesUnread
  <2>2. \A i, j \in S : g[i] = g[j] => i = j
    BY <1>2, <1>4
  <2>3. \A t \in T : \E i \in S : g[i] = t
    BY DEF NotesUnread
  <2>4. IsFiniteSet(S)
    <3>1. IsFiniteSet(1..l) /\ S \in SUBSET (1..l)
      BY <1>2, FS_Interval
    <3> QED
      BY <3>1, FS_Subset
  <2> HIDE DEF g, S, T
  <2>5. g \in Bijection(S, T)
    BY <2>1, <2>2, <2>3 DEF Bijection, Injection, Surjection, IsInjective
  <2>6. ExistsBijection(S, T)
    BY <2>5 DEF ExistsBijection
  <2>7. Cardinality(T) = Cardinality(S)
    BY <2>4, <2>6, FS_Bijection
  <2> QED
    BY <2>7 DEF S, T
<1>7. Notes!Unread(items) = Cardinality(NotesUnread(items))
  BY <1>6, NotesCardSame DEF Notes!Unread
<1>8. {items[i].id : i \in DOMAIN items} = {id \in view.rows : id >= f}
  BY <1>4 DEF NotesListed
<1>9. Notes!Cardinality(view.rows) - Len(items) = f /\ Len(items) = k - f + 1
  <2>1. Cardinality(0..k) = k + 1 /\ Cardinality(f..k) = k - f + 1
    BY <1>1b, FS_Interval
  <2>2. Notes!Cardinality(view.rows) = k + 1
    BY <1>1b, <2>1, NotesCardSame
  <2> QED
    BY <1>1b, <1>5, <2>1, <2>2 DEF l
<1>10. f = 0 \/ (f > 0 /\ Len(items) >= NoteLimit)
  <2>1. f # 0 => f + NoteLimit - 1 <= k
    BY <1>1b, <1>4
  <2>2. \A a, b \in Nat, m \in Nat \ {0} : a + m - 1 <= b => b - a + 1 >= m
    OBVIOUS
  <2> QED
    BY <1>1b, <1>9, <2>1, <2>2
<1>11. IsFiniteSet(NotesUnread(items)) /\ Cardinality(NotesUnread(items)) \in Nat
  <2>1. NotesUnread(items) \in SUBSET (f..k)
    BY <1>4a DEF NotesUnread, NotesListed
  <2>2. IsFiniteSet(f..k)
    BY <1>1b, FS_Interval
  <2> QED
    BY <2>1, <2>2, FS_Subset, FS_CardinalityType
<1>12. /\ view.hook[h].unread >= Notes!Unread(items)
       /\ f = 0 => view.hook[h].unread = Notes!Unread(items)
  BY <1>1a, <1>4, <1>7, <1>11
<1>13. ASSUME h = "page" PROVE view.hook[h].unread = Notes!Cardinality(view.rows \ view.sRead)
  <2>1. view.rows \ view.sRead = NotesUnread(items) \union 0..(f - 1)
    <3>1. NotesUnread(items) = NotesListed(items) \ view.sRead
      BY <1>2, <1>4, <1>13 DEF NotesUnread, NotesListed
    <3>2. view.sRead \subseteq f..k
      BY <1>4, <1>4a, <1>13
    <3>3. 0..k = (f..k) \union 0..(f - 1) /\ (f..k) \intersect 0..(f - 1) = {}
      BY <1>1b
    <3> QED
      BY <1>1b, <1>4a, <3>1, <3>2, <3>3
  <2>2. NotesUnread(items) \intersect 0..(f - 1) = {}
    <3>1. NotesUnread(items) \subseteq f..k
      BY <1>4a DEF NotesUnread, NotesListed
    <3> QED
      BY <1>1b, <3>1
  <2>3. IsFiniteSet(0..(f - 1)) /\ Cardinality(0..(f - 1)) = f
    <3>1. /\ IsFiniteSet(0..(f - 1))
          /\ Cardinality(0..(f - 1)) = IF 0 > f - 1 THEN 0 ELSE (f - 1) - 0 + 1
      <4>1. f - 1 \in Int
        BY <1>1b
      <4> QED
        BY <4>1, FS_Interval
    <3> QED
      BY <1>1b, <3>1
  <2>4. Cardinality(view.rows \ view.sRead) = Cardinality(NotesUnread(items)) + f
    <3>1. Cardinality({}) = 0
      BY FS_EmptySet
    <3>2. Cardinality(NotesUnread(items) \union 0..(f - 1))
            = Cardinality(NotesUnread(items)) + Cardinality(0..(f - 1))
                - Cardinality(NotesUnread(items) \intersect 0..(f - 1))
      BY <1>11, <2>3, FS_Union
    <3>3. Cardinality(view.rows \ view.sRead) = Cardinality(NotesUnread(items)) + f - 0
      BY <2>1, <2>2, <2>3, <3>1, <3>2
    <3> QED
      BY <1>1b, <1>11, <3>3
  <2> QED
    BY <1>4, <1>13, <2>4, NotesCardSame
<1> QED
  BY <1>2, <1>4, <1>8, <1>9, <1>10, <1>12, <1>13 DEF items
-----------------------------------------------------------------------------
(* messages/page.tsx: every stored message of the open thread is shown, in   *)
(* the queue of pushes, or in the answer of a send; and none of these twice. *)

LEMMA InboxBounds == Faults \subseteq {"refused", "lost"} /\ MaxActs["inbox"] \in Nat
  BY Bounds DEF Screens

LEMMA InboxAppend ==
  ASSUME NEW S, NEW list \in Seq(S), NEW e \in S
  PROVE  /\ Append(list, e) \in Seq(S)
         /\ \A d : InboxHas(Append(list, e), d) <=> InboxHas(list, d) \/ d = e
         /\ InboxOnce(list) /\ ~InboxHas(list, e) => InboxOnce(Append(list, e))
<1>1. /\ Append(list, e) \in Seq(S) /\ Len(list) \in Nat
      /\ DOMAIN list = 1..Len(list) /\ DOMAIN Append(list, e) = 1..(Len(list) + 1)
      /\ \A i \in 1..Len(list) : Append(list, e)[i] = list[i]
      /\ Append(list, e)[Len(list) + 1] = e
  BY ListAppend
<1>2. \A d : InboxHas(Append(list, e), d) <=> InboxHas(list, d) \/ d = e
  BY <1>1 DEF InboxHas
<1>3. InboxOnce(list) /\ ~InboxHas(list, e) => InboxOnce(Append(list, e))
  BY <1>1 DEF InboxHas, InboxOnce
<1> QED
  BY <1>1, <1>2, <1>3

\* A message is appended to a thread.
LEMMA InboxFromAppend ==
  ASSUME NEW S, NEW list \in Seq(S), NEW e \in S, NEW j, InboxStart(list, j)
  PROVE  /\ InboxStart(Append(list, e), j)
         /\ \A m : m \in InboxFrom(Append(list, e), j) <=> m \in InboxFrom(list, j) \/ m = e
<1> DEFINE l == Len(list)
           longer == Append(list, e)
<1>1. /\ l \in Nat /\ Len(longer) = l + 1 /\ longer[l + 1] = e
      /\ \A i \in 1..l : longer[i] = list[i]
  BY ListAppend
<1>2. j \in Nat \ {0} /\ j <= l + 1 /\ (j = 1 \/ l - j + 1 >= PageSize) /\ PageSize \in Nat \ {0}
  BY ComponentAssumption DEF InboxStart, Inbox!PageAssumption
<1> HIDE DEF l, longer
<1>3. InboxStart(longer, j)
  <2>1. j <= (l + 1) + 1 /\ (j = 1 \/ (l + 1) - j + 1 >= PageSize)
    BY <1>1, <1>2
  <2> QED
    BY <1>1, <1>2, <2>1 DEF InboxStart
<1>4. j..(l + 1) = (j..l) \union {l + 1} /\ j..l \subseteq 1..l
  BY <1>1, <1>2
<1>5. \A k \in j..l : longer[k] = list[k]
  BY <1>1, <1>4
<1>6. InboxFrom(longer, j) = {longer[k] : k \in j..(l + 1)} /\ InboxFrom(list, j) = {list[k] : k \in j..l}
  BY <1>1 DEF InboxFrom, l
<1>7. \A m : m \in InboxFrom(longer, j) <=> m \in InboxFrom(list, j) \/ m = e
  BY <1>1, <1>4, <1>5, <1>6
<1> QED
  BY <1>3, <1>7 DEF longer

\* The newest page of a thread.
LEMMA InboxPage ==
  ASSUME NEW thread \in Seq(Inbox!Numbers), InboxOnce(thread)
  PROVE  /\ Inbox!NewestPage(thread) \in Seq(Inbox!Numbers)
         /\ InboxOnce(Inbox!NewestPage(thread))
         /\ \E j : /\ InboxStart(thread, j)
                   /\ \A m : InboxHas(Inbox!NewestPage(thread), m) <=> m \in InboxFrom(thread, j)
<1> DEFINE l == Len(thread)
           j == IF l <= PageSize THEN 1 ELSE l - PageSize + 1
           page == SubSeq(thread, j, l)
<1>1. PageSize \in Nat \ {0} /\ l \in Nat /\ \A k \in 1..l : thread[k] \in Inbox!Numbers
  BY ComponentAssumption DEF Inbox!PageAssumption
<1>2. Inbox!NewestPage(thread) = page
  BY DEF Inbox!NewestPage
<1>3. j \in Nat \ {0} /\ j <= l + 1 /\ (j = 1 \/ l - j + 1 >= PageSize)
  BY <1>1
<1>4. InboxStart(thread, j)
  BY <1>3 DEF InboxStart
<1> HIDE DEF j
<1>5. /\ page = [k \in 1..(l - j + 1) |-> thread[j + k - 1]] /\ l - j + 1 \in Nat
      /\ \A k \in 1..(l - j + 1) : j + k - 1 \in 1..l
  BY <1>1, <1>3
<1> HIDE DEF page, l
<1>6. page \in Seq(Inbox!Numbers) /\ DOMAIN page = 1..(l - j + 1)
  BY <1>1, <1>5
<1>7. InboxOnce(page)
  <2> SUFFICES ASSUME NEW a \in 1..(l - j + 1), NEW b \in 1..(l - j + 1), page[a] = page[b]
               PROVE  a = b
    BY <1>6 DEF InboxOnce
  <2>1. thread[j + a - 1] = thread[j + b - 1] /\ j + a - 1 \in 1..l /\ j + b - 1 \in 1..l
    BY <1>5
  <2>2. DOMAIN thread = 1..l
    BY DEF l
  <2>3. j + a - 1 = j + b - 1
    BY <2>1, <2>2 DEF InboxOnce
  <2> QED
    BY <1>3, <2>3
<1>8. ASSUME NEW m PROVE InboxHas(page, m) <=> m \in InboxFrom(thread, j)
  <2>1. InboxFrom(thread, j) = {thread[k] : k \in j..l}
    BY DEF InboxFrom, l
  <2>2. \A k \in 1..(l - j + 1) : page[k] = thread[j + k - 1] /\ j + k - 1 \in j..l
    BY <1>1, <1>3, <1>5
  <2>3. ASSUME NEW k \in j..l PROVE k - j + 1 \in 1..(l - j + 1) /\ j + (k - j + 1) - 1 = k
    BY <1>1, <1>3
  <2>4. \A k \in j..l : k - j + 1 \in 1..(l - j + 1) /\ page[k - j + 1] = thread[k]
    BY <2>2, <2>3
  <2> QED
    BY <1>6, <2>1, <2>2, <2>4 DEF InboxHas
<1> QED
  BY <1>2, <1>4, <1>6, <1>7, <1>8

LEMMA InboxTail ==
  ASSUME NEW S, NEW list \in Seq(S), list # <<>>
  PROVE  /\ Tail(list) \in Seq(S) /\ Head(list) \in S
         /\ \A d : InboxHas(list, d) <=> InboxHas(Tail(list), d) \/ d = Head(list)
<1>1. /\ Head(list) = list[1] /\ Head(list) \in S /\ Tail(list) \in Seq(S)
      /\ Len(list) \in Nat /\ Len(list) >= 1 /\ DOMAIN list = 1..Len(list)
      /\ Len(Tail(list)) = Len(list) - 1 /\ DOMAIN Tail(list) = 1..(Len(list) - 1)
      /\ \A i \in 1..(Len(list) - 1) : Tail(list)[i] = list[i + 1]
  BY ListTail
<1>2. ASSUME NEW d, InboxHas(list, d) PROVE InboxHas(Tail(list), d) \/ d = Head(list)
  <2>1. PICK j \in 1..Len(list) : list[j] = d
    BY <1>1, <1>2 DEF InboxHas
  <2>2. CASE j = 1
    BY <1>1, <2>1, <2>2
  <2>3. CASE j # 1
    <3>1. j - 1 \in 1..(Len(list) - 1) /\ (j - 1) + 1 = j
      BY <1>1, <2>3
    <3>2. Tail(list)[j - 1] = list[j]
      BY <1>1, <3>1
    <3> QED
      BY <1>1, <2>1, <3>1, <3>2 DEF InboxHas
  <2> QED
    BY <2>2, <2>3
<1>3. ASSUME NEW d, InboxHas(Tail(list), d) \/ d = Head(list) PROVE InboxHas(list, d)
  BY <1>1, <1>3 DEF InboxHas
<1> QED
  BY <1>1, <1>2, <1>3

LEMMA InboxCallEnds ==
  /\ "idle" \notin Inbox!Ends /\ "sent" \notin Inbox!Ends /\ "ok" \in Inbox!Ends
  /\ Inbox!Ends \subseteq Inbox!Calls /\ "idle" \in Inbox!Calls /\ "sent" \in Inbox!Calls
  BY InboxBounds DEF Inbox!Ends, Inbox!Calls

LEMMA InboxHowItEnds ==
  ASSUME NEW end \in Inbox!Ends, NEW done \in Inbox!Effects(end)
  PROVE  done \in BOOLEAN /\ (end = "ok" => done = TRUE)
  BY InboxBounds DEF Inbox!Ends, Inbox!Effects

LEMMA InboxSelectionIs ==
  /\ \A c \in Conversations : c \in Inbox!Selection
  /\ \A c \in Inbox!Selection : c # Inbox!Null => c \in Conversations
  /\ Inbox!Null \in Inbox!Selection
  BY DEF Inbox!Selection

LEMMA InboxInitInv == Inbox!Init => InboxInv
<1> SUFFICES ASSUME Inbox!Init PROVE InboxInv
  OBVIOUS
<1>1. PICK c \in Inbox!Selection, old \in Conversations, n \in 0..MaxActs["inbox"] : view = [
        selected |-> Inbox!Null, messages |-> <<>>,
        stored |-> [d \in Conversations |-> IF d = old THEN [j \in 1..n |-> j] ELSE <<>>],
        last |-> [d \in Conversations |-> IF d = old THEN n ELSE 0],
        load |-> [s \in Inbox!Slots |-> Inbox!NoLoad], send |-> [s \in Inbox!Slots |-> Inbox!NoSend],
        start |-> [at |-> IF c = Inbox!Null THEN "idle" ELSE "sent", of |-> c],
        pushes |-> <<>>, acts |-> n, overlapped |-> FALSE, failed |-> FALSE]
  BY DEF Inbox!Init
<1>2. /\ view.selected = Inbox!Null /\ view.pushes = <<>> /\ view.acts = n
      /\ \A d \in Conversations : view.stored[d] = IF d = old THEN [j \in 1..n |-> j] ELSE <<>>
      /\ \A s \in Inbox!Slots : view.load[s] = Inbox!NoLoad /\ view.send[s] = Inbox!NoSend
  BY <1>1
<1>3. \A S : <<>> \in Seq(S)
  OBVIOUS
<1>4. /\ InboxOnce(<<>>) /\ \A m : ~InboxHas(<<>>, m)
      /\ InboxOnce([j \in 1..n |-> j]) /\ \A m : InboxHas([j \in 1..n |-> j], m) => m <= n
  BY DEF InboxOnce, InboxHas
<1>5. Inbox!NoLoad \in InboxLoad /\ Inbox!NoSend \in InboxSend
  BY <1>3, InboxCallEnds, InboxSelectionIs DEF Inbox!NoLoad, Inbox!NoSend, InboxLoad, InboxSend
<1>6. view \in InboxState
  <2>0. /\ [j \in 1..n |-> j] \in Seq(Inbox!Numbers) /\ n \in {0} \union Inbox!Numbers
        /\ n \in 0..MaxActs["inbox"]
    <3>1. n \in Nat /\ \A j \in 1..n : j \in Inbox!Numbers
      BY InboxBounds DEF Inbox!Numbers
    <3>2. n \in {0} \union Inbox!Numbers
      BY InboxBounds DEF Inbox!Numbers
    <3>3. [j \in 1..n |-> j] \in [1..n -> Inbox!Numbers]
      BY <3>1
    <3> QED
      BY <3>1, <3>2, <3>3
  <2>1. [d \in Conversations |-> IF d = old THEN [j \in 1..n |-> j] ELSE <<>>]
            \in [Conversations -> Seq(Inbox!Numbers)]
    BY <1>3, <2>0
  <2>2. [d \in Conversations |-> IF d = old THEN n ELSE 0] \in [Conversations -> {0} \union Inbox!Numbers]
    BY <2>0
  <2>3. [s \in Inbox!Slots |-> Inbox!NoLoad] \in [Inbox!Slots -> InboxLoad]
    BY <1>5
  <2>4. [s \in Inbox!Slots |-> Inbox!NoSend] \in [Inbox!Slots -> InboxSend]
    BY <1>5
  <2>5. [at |-> IF c = Inbox!Null THEN "idle" ELSE "sent", of |-> c] \in [at : Inbox!Calls, of : Inbox!Selection]
    BY InboxCallEnds
  <2>6. n \in 0..MaxActs["inbox"]
    OBVIOUS
  <2>7. <<>> \in Seq(Inbox!Numbers) /\ <<>> \in Seq(InboxPush)
    BY <1>3
  <2> HIDE DEF InboxPush, InboxLoad, InboxSend
  <2> QED
    BY <1>1, <2>1, <2>2, <2>3, <2>4, <2>5, <2>6, <2>7, InboxSelectionIs DEF InboxState
<1>7. Inbox!NoLoad.at = "idle" /\ Inbox!NoSend.at = "idle"
  BY DEF Inbox!NoLoad, Inbox!NoSend
<1>8. InboxNumbered(view)
  BY <1>2, <1>4, <1>7 DEF InboxNumbered
<1>9. InboxMade(view)
  BY <1>2, <1>4, <1>7 DEF InboxMade
<1>10. InboxCalls(view) /\ InboxThread(view)
  BY <1>2, <1>7 DEF InboxCalls, InboxThread, InboxNoLoad
<1> QED
  BY <1>6, <1>8, <1>9, <1>10 DEF InboxInv, InboxGood

\* What an invariant says depends on these fields only.
LEMMA InboxMadeKept ==
  ASSUME NEW i, NEW j, InboxMade(i), j.stored = i.stored, j.send = i.send, j.pushes = i.pushes
  PROVE  InboxMade(j)
  BY DEF InboxMade

LEMMA InboxCoversKept ==
  ASSUME NEW i, NEW j, NEW list, NEW from, InboxCovers(i, list, from), j.selected = i.selected,
         j.stored = i.stored, j.send = i.send, j.pushes = i.pushes
  PROVE  InboxCovers(j, list, from)
  BY DEF InboxCovers

\* Another thread is opened: no call may be on its way, or the two overlap.
LEMMA InboxSelectedIs ==
  ASSUME NEW i \in InboxState, NEW c \in Inbox!Selection, NEW j \in Inbox!Selected(i, c)
  PROVE  /\ j \in InboxState
         /\ j.selected = c /\ j.stored = i.stored /\ j.send = i.send /\ j.pushes = i.pushes
         /\ j.acts = i.acts /\ j.failed = i.failed
         /\ j.overlapped <=> i.overlapped \/ Inbox!Loading \/ Inbox!Sending
         /\ \/ c = Inbox!Null /\ j.load = i.load
            \/ /\ c # Inbox!Null
               /\ \E s \in Inbox!Slots : /\ j.load[s].at = "sent" /\ j.load[s].of = c
                                         /\ \A t \in Inbox!Slots \ {s} : j.load[t] = i.load[t]
<1>1. PICK overlapped \in BOOLEAN : overlapped <=> i.overlapped \/ Inbox!Loading \/ Inbox!Sending
  OBVIOUS
<1>2. (i.overlapped \/ Inbox!Loading \/ Inbox!Sending) = overlapped
  BY <1>1 DEF InboxState, Inbox!Loading, Inbox!Sending
<1> DEFINE k == [i EXCEPT !.selected = c, !.overlapped = overlapped]
<1>3. /\ k \in InboxState /\ k.selected = c /\ k.stored = i.stored /\ k.send = i.send
      /\ k.pushes = i.pushes /\ k.acts = i.acts /\ k.failed = i.failed
      /\ k.overlapped = overlapped /\ k.load = i.load
  BY DEF InboxState
<1>4. [i EXCEPT !.selected = c, !.overlapped = @ \/ Inbox!Loading \/ Inbox!Sending] = k
  BY <1>2
<1> HIDE DEF k
<1>5. Inbox!Selected(i, c) =
        IF c = Inbox!Null THEN {k}
        ELSE {[k EXCEPT !.load[s] = [at |-> "sent", of |-> c, items |-> <<>>]] :
                s \in {t \in Inbox!Slots : k.load[t].at = "idle"}}
  BY <1>4 DEF Inbox!Selected
<1>6. CASE c = Inbox!Null
  BY <1>1, <1>3, <1>5, <1>6
<1>7. CASE c # Inbox!Null
  <2>1. PICK s \in Inbox!Slots : j = [k EXCEPT !.load[s] = [at |-> "sent", of |-> c, items |-> <<>>]]
    BY <1>5, <1>7
  <2> DEFINE call == [at |-> "sent", of |-> c, items |-> <<>>]
  <2>2. call \in InboxLoad
    <3>1. <<>> \in Seq(Inbox!Numbers)
      OBVIOUS
    <3> QED
      BY <3>1, InboxCallEnds DEF InboxLoad
  <2>3. call.at = "sent" /\ call.of = c
    OBVIOUS
  <2> HIDE DEF call
  <2>4. j = [k EXCEPT !.load = [k.load EXCEPT ![s] = call]]
    BY <1>3, <2>1 DEF InboxState, call
  <2>5. k.load \in [Inbox!Slots -> InboxLoad]
    BY <1>3 DEF InboxState
  <2>6. [k.load EXCEPT ![s] = call] \in [Inbox!Slots -> InboxLoad]
    BY <2>2, <2>5
  <2>7. j \in InboxState
    BY <1>3, <2>4, <2>6 DEF InboxState
  <2>8. /\ j.selected = c /\ j.stored = i.stored /\ j.send = i.send
        /\ j.pushes = i.pushes /\ j.acts = i.acts /\ j.failed = i.failed
        /\ j.overlapped = overlapped /\ j.load = [k.load EXCEPT ![s] = call]
    BY <1>3, <2>4 DEF InboxState
  <2>9. j.load[s] = call /\ \A t \in Inbox!Slots \ {s} : j.load[t] = i.load[t]
    BY <1>3, <2>5, <2>8
  <2> QED
    BY <1>1, <1>7, <2>3, <2>7, <2>8, <2>9
<1> QED
  BY <1>6, <1>7

LEMMA InboxSelectedGood ==
  ASSUME InboxInv, NEW i \in InboxState, NEW c \in Inbox!Selection, view' \in Inbox!Selected(i, c),
         i.stored = view.stored, i.send = view.send, i.pushes = view.pushes, i.load = view.load,
         i.failed = view.failed, i.overlapped = view.overlapped,
         i.acts = view.acts \/ i.acts = view.acts + 1
  PROVE  InboxInv'
<1>1. /\ view' \in InboxState
      /\ view'.selected = c /\ view'.stored = view.stored /\ view'.send = view.send
      /\ view'.pushes = view.pushes /\ view'.acts = i.acts /\ view'.failed = view.failed
      /\ view'.overlapped <=> view.overlapped \/ Inbox!Loading \/ Inbox!Sending
      /\ \/ c = Inbox!Null /\ view'.load = view.load
         \/ /\ c # Inbox!Null
            /\ \E s \in Inbox!Slots : /\ view'.load[s].at = "sent" /\ view'.load[s].of = c
                                      /\ \A t \in Inbox!Slots \ {s} : view'.load[t] = view.load[t]
  BY InboxSelectedIs
<1>2. InboxNumbered(view) /\ InboxMade(view) /\ view \in InboxState
  BY DEF InboxInv, InboxGood
<1>3. view.acts \in Nat /\ i.acts \in Nat /\ view.acts <= i.acts
  BY <1>2 DEF InboxState
<1>4. InboxNumbered(view')
  <2>1. \A d \in Conversations : \A m \in Inbox!Numbers :
          InboxHas(view'.stored[d], m) => m <= view'.acts
    <3>1. \A m \in Inbox!Numbers : m <= view.acts => m <= i.acts
      BY <1>3 DEF Inbox!Numbers
    <3> QED
      BY <1>1, <1>2, <3>1 DEF InboxNumbered
  <2>2. \A s \in Inbox!Slots : view'.load[s].at # "idle" => view'.load[s].of # Inbox!Null
    BY <1>1, <1>2 DEF InboxNumbered
  <2>3. \A s \in Inbox!Slots : view'.send[s].at # "idle" =>
          view'.send[s].of # Inbox!Null /\ view'.send[s].message \in 1..view'.acts
    <3>1. \A m \in 1..view.acts : m \in 1..i.acts
      BY <1>3
    <3> QED
      BY <1>1, <1>2, <3>1 DEF InboxNumbered
  <2> QED
    BY <2>1, <2>2, <2>3 DEF InboxNumbered
<1>5. InboxMade(view')
  BY <1>1, <1>2, InboxMadeKept
<1>6. ASSUME ~view'.overlapped PROVE InboxCalls(view') /\ InboxThread(view')
  <2>1. \A s \in Inbox!Slots : view.load[s].at = "idle" /\ view'.send[s].at = "idle"
    BY <1>1, <1>6 DEF Inbox!Loading, Inbox!Sending
  <2>2. CASE c = Inbox!Null
    BY <1>1, <2>1, <2>2 DEF InboxCalls, InboxThread, InboxNoLoad, InboxNoSend
  <2>3. CASE c # Inbox!Null
    <3>1. PICK s \in Inbox!Slots : /\ view'.load[s].at = "sent" /\ view'.load[s].of = c
                                   /\ \A t \in Inbox!Slots \ {s} : view'.load[t] = view.load[t]
      BY <1>1, <2>3
    <3> QED
      BY <1>1, <2>1, <3>1 DEF InboxCalls, InboxThread, InboxNoLoad, InboxNoSend
  <2> QED
    BY <2>2, <2>3
<1> QED
  BY <1>1, <1>4, <1>5, <1>6 DEF InboxInv, InboxGood

LEMMA InboxSelectInv ==
  ASSUME InboxInv, Inbox!Select PROVE InboxInv'
<1>1. PICK c \in Inbox!Selection : Inbox!Act /\ view' \in Inbox!Selected([view EXCEPT !.acts = @ + 1], c)
  BY DEF Inbox!Select
<1> DEFINE i == [view EXCEPT !.acts = @ + 1]
<1>2. view \in InboxState
  BY DEF InboxInv, InboxGood
<1>3. view.acts + 1 \in 0..MaxActs["inbox"]
  <2>1. view.acts \in 0..MaxActs["inbox"] /\ view.acts < MaxActs["inbox"]
    BY <1>1, <1>2 DEF InboxState, Inbox!Act
  <2> QED
    BY <2>1, InboxBounds
<1>4. /\ i \in InboxState /\ i.stored = view.stored /\ i.send = view.send /\ i.pushes = view.pushes
      /\ i.load = view.load /\ i.failed = view.failed /\ i.overlapped = view.overlapped
      /\ i.acts = view.acts + 1
  BY <1>2, <1>3 DEF InboxState
<1>5. view' \in Inbox!Selected(i, c)
  BY <1>1
<1> HIDE DEF i
<1> QED
  BY <1>4, <1>5, InboxSelectedGood

\* Only the call that starts a conversation has changed.
LEMMA InboxStartKept ==
  ASSUME InboxInv, view' \in InboxState,
         view'.selected = view.selected, view'.messages = view.messages,
         view'.stored = view.stored, view'.load = view.load, view'.send = view.send,
         view'.pushes = view.pushes, view'.acts = view.acts,
         view'.overlapped = view.overlapped, ~view'.failed => ~view.failed
  PROVE  InboxInv'
<1>1. InboxNumbered(view) /\ InboxMade(view)
      /\ (~view.failed /\ ~view.overlapped => InboxCalls(view) /\ InboxThread(view))
  BY DEF InboxInv, InboxGood
<1>2. InboxNumbered(view') /\ InboxMade(view')
  BY <1>1 DEF InboxNumbered, InboxMade
<1>3. InboxCalls(view) => InboxCalls(view')
  BY DEF InboxCalls, InboxNoLoad, InboxNoSend
<1>4. InboxThread(view) => InboxThread(view')
  BY DEF InboxThread, InboxNoLoad, InboxCovers
<1> QED
  BY <1>1, <1>2, <1>3, <1>4 DEF InboxInv, InboxGood

LEMMA InboxStartInv == InboxInv /\ (Inbox!ServeStart \/ Inbox!Started) => InboxInv'
<1>1. ASSUME InboxInv, Inbox!ServeStart PROVE InboxInv'
  <2>1. PICK end \in Inbox!Ends :
          view' = [view EXCEPT !.start.at = end, !.failed = @ \/ end # "ok"]
    BY <1>1 DEF Inbox!ServeStart
  <2>2. view \in InboxState
    BY <1>1 DEF InboxInv, InboxGood
  <2>3. PICK failed \in BOOLEAN : failed <=> view.failed \/ end # "ok"
    OBVIOUS
  <2>4. (view.failed \/ end # "ok") = failed
    BY <2>2, <2>3 DEF InboxState
  <2>5. view' = [view EXCEPT !.start = [view.start EXCEPT !.at = end], !.failed = failed]
    BY <2>1, <2>2, <2>4 DEF InboxState
  <2>6. [view.start EXCEPT !.at = end] \in [at : Inbox!Calls, of : Inbox!Selection]
    BY <2>2, InboxCallEnds DEF InboxState
  <2>7. /\ view' \in InboxState
        /\ view'.selected = view.selected /\ view'.messages = view.messages
        /\ view'.stored = view.stored /\ view'.load = view.load /\ view'.send = view.send
        /\ view'.pushes = view.pushes /\ view'.acts = view.acts
        /\ view'.overlapped = view.overlapped /\ view'.failed = failed
    BY <2>2, <2>5, <2>6 DEF InboxState
  <2> QED
    BY <1>1, <2>3, <2>7, InboxStartKept
<1>2. ASSUME InboxInv, Inbox!Started PROVE InboxInv'
  <2> DEFINE i == [view EXCEPT !.start.at = "idle"]
  <2>1. view \in InboxState
    BY <1>2 DEF InboxInv, InboxGood
  <2>2. \/ view' \in Inbox!Selected(i, view.start.of)
        \/ view' = i
    BY <1>2 DEF Inbox!Started
  <2>3. i = [view EXCEPT !.start = [view.start EXCEPT !.at = "idle"]]
    BY <2>1 DEF InboxState
  <2>4. /\ [view.start EXCEPT !.at = "idle"] \in [at : Inbox!Calls, of : Inbox!Selection]
        /\ view.start.of \in Inbox!Selection
    BY <2>1, InboxCallEnds DEF InboxState
  <2> HIDE DEF i
  <2>5. /\ i \in InboxState
        /\ i.selected = view.selected /\ i.messages = view.messages
        /\ i.stored = view.stored /\ i.load = view.load /\ i.send = view.send
        /\ i.pushes = view.pushes /\ i.acts = view.acts
        /\ i.overlapped = view.overlapped /\ i.failed = view.failed
    BY <2>1, <2>3, <2>4 DEF InboxState
  <2>6. CASE view' = i
    BY <1>2, <2>5, <2>6, InboxStartKept
  <2>7. CASE view' \in Inbox!Selected(i, view.start.of)
    BY <1>2, <2>4, <2>5, <2>7, InboxSelectedGood
  <2> QED
    BY <2>2, <2>6, <2>7
<1> QED
  BY <1>1, <1>2

LEMMA InboxLoadInv ==
  ASSUME InboxInv, Inbox!ServeLoad PROVE InboxInv'
<1>1. PICK s \in Inbox!Slots, end \in Inbox!Ends :
        LET page == Inbox!NewestPage(view.stored[view.load[s].of]) IN
        /\ view.load[s].at = "sent"
        /\ view' = [view EXCEPT !.load[s].at = end, !.failed = @ \/ end # "ok",
                      !.overlapped = @ \/ Inbox!PushedLate(view.load[s].of, page),
                      !.load[s].items = IF end = "ok" THEN page ELSE <<>>]
  BY DEF Inbox!ServeLoad
<1>1a. PICK page : page = Inbox!NewestPage(view.stored[view.load[s].of])
  OBVIOUS
<1>1b. PICK late \in BOOLEAN : late <=> view.overlapped \/ Inbox!PushedLate(view.load[s].of, page)
  OBVIOUS
<1>2. /\ view \in InboxState /\ InboxNumbered(view) /\ InboxMade(view)
      /\ (~view.failed /\ ~view.overlapped => InboxCalls(view) /\ InboxThread(view))
  BY DEF InboxInv, InboxGood
<1>3. PICK failed \in BOOLEAN : failed <=> view.failed \/ end # "ok"
  OBVIOUS
<1>4. (view.failed \/ end # "ok") = failed
  BY <1>2, <1>3 DEF InboxState
<1>4a. (view.overlapped \/ Inbox!PushedLate(view.load[s].of, page)) = late
  BY <1>1b, <1>2 DEF InboxState, Inbox!PushedLate
<1> DEFINE answer == IF end = "ok" THEN page ELSE <<>>
           call == [at |-> end, of |-> view.load[s].of, items |-> answer]
<1>5. view.load[s] \in InboxLoad /\ view.load[s].of # Inbox!Null /\ view.load[s].of \in Conversations
  BY <1>1, <1>2, InboxSelectionIs DEF InboxState, InboxLoad, InboxNumbered
<1>5a. /\ page \in Seq(Inbox!Numbers) /\ InboxOnce(page)
       /\ \E j : /\ InboxStart(view.stored[view.load[s].of], j)
                 /\ \A m : InboxHas(page, m) <=> m \in InboxFrom(view.stored[view.load[s].of], j)
  <2>1. view.stored[view.load[s].of] \in Seq(Inbox!Numbers) /\ InboxOnce(view.stored[view.load[s].of])
    BY <1>2, <1>5 DEF InboxState, InboxMade
  <2> QED
    BY <1>1a, <2>1, InboxPage
<1>6. call \in InboxLoad /\ (end = "ok" => call.items = page)
      /\ call.at = end /\ call.of = view.load[s].of
  <2>1. <<>> \in Seq(Inbox!Numbers)
    OBVIOUS
  <2> QED
    BY <1>5, <1>5a, <2>1, InboxCallEnds DEF InboxLoad
<1>7. view' = [view EXCEPT !.load = [view.load EXCEPT ![s] = call], !.failed = failed,
                           !.overlapped = late]
  <2> DEFINE half == [view.load[s] EXCEPT !.at = end]
  <2>1. half = [at |-> end, of |-> view.load[s].of, items |-> view.load[s].items]
    BY <1>5 DEF InboxLoad
  <2>2. view' = [view EXCEPT !.load = [view.load EXCEPT ![s] = [half EXCEPT !.items = answer]],
                             !.failed = failed, !.overlapped = late]
    BY <1>1, <1>1a, <1>2, <1>4, <1>4a DEF InboxState
  <2> HIDE DEF half, answer
  <2>3. [half EXCEPT !.items = answer] = call
    BY <2>1
  <2> HIDE DEF call
  <2> QED
    BY <2>2, <2>3
<1> HIDE DEF call, answer
<1>9. /\ view' \in InboxState
      /\ view'.selected = view.selected /\ view'.stored = view.stored
      /\ view'.send = view.send /\ view'.pushes = view.pushes /\ view'.acts = view.acts
      /\ view'.overlapped = late /\ view'.failed = failed
      /\ view'.messages = view.messages /\ view'.load[s] = call
      /\ \A t \in Inbox!Slots \ {s} : view'.load[t] = view.load[t]
  <2>1. view.load \in [Inbox!Slots -> InboxLoad]
    BY <1>2 DEF InboxState
  <2>2. [view.load EXCEPT ![s] = call] \in [Inbox!Slots -> InboxLoad]
    BY <1>6, <2>1
  <2>3. view' \in InboxState
    BY <1>1b, <1>2, <1>3, <1>7, <2>2 DEF InboxState
  <2>4. view'.load = [view.load EXCEPT ![s] = call]
    BY <1>2, <1>7 DEF InboxState
  <2>5. view'.load[s] = call /\ \A t \in Inbox!Slots \ {s} : view'.load[t] = view.load[t]
    BY <2>1, <2>4
  <2> QED
    BY <1>2, <1>7, <2>3, <2>5 DEF InboxState
<1>10. InboxNumbered(view')
  BY <1>1, <1>2, <1>6, <1>9 DEF InboxNumbered
<1>11. InboxMade(view')
  BY <1>2, <1>9, InboxMadeKept
<1>12. ASSUME ~view'.failed, ~view'.overlapped PROVE InboxCalls(view') /\ InboxThread(view')
  <2>1. /\ InboxCalls(view) /\ InboxThread(view) /\ end = "ok"
        /\ ~Inbox!PushedLate(view.load[s].of, page)
    BY <1>1b, <1>2, <1>3, <1>9, <1>12
  <2>2. InboxNoSend(view) /\ view.load[s].of = view.selected
    BY <1>1, <2>1 DEF InboxCalls, InboxNoLoad
  <2>3. InboxCalls(view')
    BY <1>1, <1>6, <1>9, <2>1, <2>2 DEF InboxCalls, InboxNoLoad, InboxNoSend
  <2>4. \E j : InboxCovers(view, call.items, j)
    <3>1. PICK j : /\ InboxStart(view.stored[view.selected], j)
                   /\ \A m : InboxHas(page, m) <=> m \in InboxFrom(view.stored[view.selected], j)
      BY <1>5a, <2>2
    <3>2. call.items = page
      BY <1>6, <2>1
    <3>3. ASSUME NEW m \in Inbox!Numbers, InboxHas(view.pushes, [of |-> view.selected, message |-> m])
          PROVE  InboxHas(page, m)
      <4>1. PICK k \in DOMAIN view.pushes : view.pushes[k] = [of |-> view.selected, message |-> m]
        BY <3>3 DEF InboxHas
      <4>2. Inbox!Contains(page, m)
        BY <2>1, <2>2, <4>1 DEF Inbox!PushedLate
      <4> QED
        BY <4>2 DEF Inbox!Contains, InboxHas
    <3> QED
      BY <1>5a, <2>2, <3>1, <3>2, <3>3 DEF InboxCovers, InboxNoSend
  <2>5. InboxThread(view')
    <3>1. \A t \in Inbox!Slots : view'.load[t].at = "ok" =>
             \E j : InboxCovers(view, view'.load[t].items, j)
      BY <1>9, <2>1, <2>4 DEF InboxThread
    <3>2. ~InboxNoLoad(view')
      BY <1>6, <1>9, InboxCallEnds DEF InboxNoLoad
    <3> QED
      BY <1>9, <3>1, <3>2, InboxCoversKept DEF InboxThread
  <2> QED
    BY <2>3, <2>5
<1> QED
  BY <1>9, <1>10, <1>11, <1>12 DEF InboxInv, InboxGood

LEMMA InboxLoadedInv ==
  ASSUME InboxInv, Inbox!Loaded PROVE InboxInv'
<1>1. PICK s \in Inbox!Slots :
        /\ view.load[s].at \in Inbox!Ends
        /\ view' = [view EXCEPT !.load[s] = Inbox!NoLoad,
                      !.messages = IF view.load[s].at = "lost" THEN @ ELSE view.load[s].items]
  BY DEF Inbox!Loaded, Inbox!Arrived
<1>2. /\ view \in InboxState /\ InboxNumbered(view) /\ InboxMade(view)
      /\ (~view.failed /\ ~view.overlapped => InboxCalls(view) /\ InboxThread(view))
  BY DEF InboxInv, InboxGood
<1> DEFINE messages == IF view.load[s].at = "lost" THEN view.messages ELSE view.load[s].items
<1>3. messages \in Seq(Inbox!Numbers) /\ (view.load[s].at = "ok" => messages = view.load[s].items)
  BY <1>2 DEF InboxState, InboxLoad
<1>4. Inbox!NoLoad \in InboxLoad /\ Inbox!NoLoad.at = "idle"
  <2>1. <<>> \in Seq(Inbox!Numbers)
    OBVIOUS
  <2> QED
    BY <2>1, InboxCallEnds, InboxSelectionIs DEF Inbox!NoLoad, InboxLoad
<1>5. view' = [view EXCEPT !.load = [view.load EXCEPT ![s] = Inbox!NoLoad], !.messages = messages]
  BY <1>1, <1>2 DEF InboxState
<1> HIDE DEF messages
<1>7. /\ view' \in InboxState
      /\ view'.selected = view.selected /\ view'.stored = view.stored
      /\ view'.send = view.send /\ view'.pushes = view.pushes /\ view'.acts = view.acts
      /\ view'.overlapped = view.overlapped /\ view'.failed = view.failed
      /\ view'.messages = messages /\ view'.load[s] = Inbox!NoLoad
      /\ \A t \in Inbox!Slots \ {s} : view'.load[t] = view.load[t]
  <2>1. view.load \in [Inbox!Slots -> InboxLoad]
    BY <1>2 DEF InboxState
  <2>2. [view.load EXCEPT ![s] = Inbox!NoLoad] \in [Inbox!Slots -> InboxLoad]
    BY <1>4, <2>1
  <2>3. view' \in InboxState
    BY <1>2, <1>3, <1>5, <2>2 DEF InboxState
  <2>4. view'.load = [view.load EXCEPT ![s] = Inbox!NoLoad]
    BY <1>2, <1>5 DEF InboxState
  <2>5. view'.load[s] = Inbox!NoLoad /\ \A t \in Inbox!Slots \ {s} : view'.load[t] = view.load[t]
    BY <2>1, <2>4
  <2> QED
    BY <1>2, <1>5, <2>3, <2>5 DEF InboxState
<1>8. InboxNumbered(view')
  BY <1>2, <1>4, <1>7 DEF InboxNumbered
<1>9. InboxMade(view')
  BY <1>2, <1>7, InboxMadeKept
<1>10. ASSUME ~view'.failed, ~view'.overlapped PROVE InboxCalls(view') /\ InboxThread(view')
  <2>1. InboxCalls(view) /\ InboxThread(view)
    BY <1>2, <1>7, <1>10
  <2>2. view.load[s].at = "ok"
    BY <1>1, <2>1, InboxCallEnds DEF InboxCalls
  <2>3. InboxCalls(view')
    BY <1>4, <1>7, <2>1 DEF InboxCalls, InboxNoLoad, InboxNoSend
  <2>4. \E j : InboxCovers(view, messages, j)
    BY <1>3, <2>1, <2>2 DEF InboxThread
  <2>5. \A t \in Inbox!Slots : view'.load[t].at = "idle"
    BY <1>4, <1>7, <2>1, <2>2 DEF InboxCalls
  <2>6. InboxThread(view')
    BY <1>7, <2>4, <2>5, InboxCoversKept DEF InboxThread
  <2> QED
    BY <2>3, <2>6
<1> QED
  BY <1>7, <1>8, <1>9, <1>10 DEF InboxInv, InboxGood

\* The next number is free.
LEMMA InboxNextNumber ==
  ASSUME view \in InboxState, InboxNumbered(view), InboxMade(view), Inbox!Act
  PROVE  /\ view.acts + 1 \in 0..MaxActs["inbox"] /\ view.acts + 1 \in Inbox!Numbers
         /\ \A c \in Conversations : ~InboxHas(view.stored[c], view.acts + 1)
         /\ \A s \in Inbox!Slots : view.send[s].at # "idle" => view.send[s].message # view.acts + 1
         /\ \A p \in InboxPush : InboxHas(view.pushes, p) => p.message # view.acts + 1
         /\ \A m \in Inbox!Numbers : m <= view.acts => m <= view.acts + 1
         /\ \A m \in 1..view.acts : m \in 1..(view.acts + 1)
<1>1. view.acts \in Nat /\ view.acts < MaxActs["inbox"] /\ MaxActs["inbox"] \in Nat
  BY InboxBounds DEF InboxState, Inbox!Act
<1>2. view.acts + 1 \in 0..MaxActs["inbox"] /\ view.acts + 1 \in Inbox!Numbers
  BY <1>1 DEF Inbox!Numbers
<1>3. ~(view.acts + 1 <= view.acts) /\ view.acts + 1 \notin 1..view.acts
  BY <1>1
<1>4. \A c \in Conversations : ~InboxHas(view.stored[c], view.acts + 1)
  BY <1>2, <1>3 DEF InboxNumbered
<1>5. \A s \in Inbox!Slots : view.send[s].at # "idle" => view.send[s].message # view.acts + 1
  BY <1>3 DEF InboxNumbered
<1>6. \A p \in InboxPush : InboxHas(view.pushes, p) => p.message # view.acts + 1
  BY <1>4 DEF InboxMade, InboxPush
<1>7. \A m \in Inbox!Numbers : m <= view.acts => m <= view.acts + 1
  BY <1>1 DEF Inbox!Numbers
<1>8. \A m \in 1..view.acts : m \in 1..(view.acts + 1)
  BY <1>1
<1> QED
  BY <1>2, <1>4, <1>5, <1>6, <1>7, <1>8

LEMMA InboxReceiveInv ==
  ASSUME InboxInv, Inbox!Receive PROVE InboxInv'
<1>1. PICK c \in Conversations :
        /\ Inbox!Act
        /\ view' = [view EXCEPT !.acts = @ + 1, !.stored[c] = Append(@, view.acts + 1),
                      !.pushes = Append(@, [of |-> c, message |-> view.acts + 1])]
  BY DEF Inbox!Receive, Inbox!Stored
<1>2. /\ view \in InboxState /\ InboxNumbered(view) /\ InboxMade(view)
      /\ (~view.failed /\ ~view.overlapped => InboxCalls(view) /\ InboxThread(view))
  BY DEF InboxInv, InboxGood
<1> DEFINE n == view.acts + 1
           push == [of |-> c, message |-> n]
           thread == Append(view.stored[c], n)
           pushes == Append(view.pushes, push)
<1>3. /\ n \in 0..MaxActs["inbox"] /\ n \in Inbox!Numbers
      /\ \A d \in Conversations : ~InboxHas(view.stored[d], n)
      /\ \A s \in Inbox!Slots : view.send[s].at # "idle" => view.send[s].message # n
      /\ \A p \in InboxPush : InboxHas(view.pushes, p) => p.message # n
      /\ \A m \in Inbox!Numbers : m <= view.acts => m <= n
      /\ \A m \in 1..view.acts : m \in 1..n
      /\ n <= n
  <2>1. n <= n
    BY <1>2 DEF InboxState
  <2> HIDE DEF n
  <2> QED
    BY <1>1, <1>2, <2>1, InboxNextNumber DEF n
<1>4. push \in InboxPush /\ push.of = c /\ push.message = n
  BY <1>3 DEF InboxPush
<1>5. view' = [view EXCEPT !.acts = n, !.stored = [view.stored EXCEPT ![c] = thread], !.pushes = pushes]
  BY <1>1, <1>2 DEF InboxState
<1>6. push = [of |-> c, message |-> n]
  OBVIOUS
<1> HIDE DEF n, push
<1>7. /\ thread \in Seq(Inbox!Numbers)
      /\ \A m : InboxHas(thread, m) <=> InboxHas(view.stored[c], m) \/ m = n
      /\ InboxOnce(thread)
      /\ \A j : InboxStart(view.stored[c], j) =>
            /\ InboxStart(thread, j)
            /\ \A m : m \in InboxFrom(thread, j) <=> m \in InboxFrom(view.stored[c], j) \/ m = n
  <2>1. view.stored[c] \in Seq(Inbox!Numbers)
    BY <1>2 DEF InboxState
  <2>2. InboxOnce(view.stored[c]) /\ ~InboxHas(view.stored[c], n)
    BY <1>2, <1>3 DEF InboxMade
  <2> QED
    BY <1>3, <2>1, <2>2, InboxAppend, InboxFromAppend
<1>8. /\ pushes \in Seq(InboxPush)
      /\ \A p : InboxHas(pushes, p) <=> InboxHas(view.pushes, p) \/ p = push
  <2>1. view.pushes \in Seq(InboxPush)
    BY <1>2 DEF InboxState
  <2> QED
    BY <1>4, <2>1, InboxAppend
<1> HIDE DEF thread, pushes
<1>9. /\ view' \in InboxState
      /\ view'.selected = view.selected /\ view'.stored = [view.stored EXCEPT ![c] = thread]
      /\ view'.send = view.send /\ view'.pushes = pushes /\ view'.acts = n
      /\ view'.overlapped = view.overlapped /\ view'.failed = view.failed
      /\ view'.messages = view.messages /\ view'.load = view.load
  <2>1. [view.stored EXCEPT ![c] = thread] \in [Conversations -> Seq(Inbox!Numbers)]
    BY <1>2, <1>7 DEF InboxState
  <2> QED
    BY <1>2, <1>3, <1>5, <1>8, <2>1 DEF InboxState
<1>10. /\ view'.stored[c] = thread
       /\ \A d \in Conversations : \A m :
            InboxHas(view'.stored[d], m) <=> InboxHas(view.stored[d], m) \/ (d = c /\ m = n)
       /\ \A d \in Conversations : d # c => view'.stored[d] = view.stored[d]
  BY <1>2, <1>7, <1>9 DEF InboxState
<1>11. InboxNumbered(view')
  <2>1. \A d \in Conversations : \A m \in Inbox!Numbers : InboxHas(view'.stored[d], m) => m <= view'.acts
    BY <1>2, <1>3, <1>9, <1>10 DEF InboxNumbered
  <2> QED
    BY <1>2, <1>3, <1>9, <2>1 DEF InboxNumbered
<1>12. \A s \in Inbox!Slots : view.send[s].at # "idle" => view.send[s].of \in Conversations
  BY <1>2, InboxSelectionIs DEF InboxState, InboxSend, InboxNumbered
<1>13. InboxMade(view')
  <2>1. \A d \in Conversations : InboxOnce(view'.stored[d])
    BY <1>2, <1>7, <1>10 DEF InboxMade
  <2>2. \A s \in Inbox!Slots : view'.send[s].at = "sent" =>
          \A d \in Conversations : ~InboxHas(view'.stored[d], view'.send[s].message)
    BY <1>2, <1>3, <1>9, <1>10 DEF InboxMade
  <2>3. \A s \in Inbox!Slots : view'.send[s].at = "ok" =>
          InboxHas(view'.stored[view'.send[s].of], view'.send[s].message)
    BY <1>2, <1>9, <1>10, <1>12 DEF InboxMade
  <2>4. \A s, t \in Inbox!Slots : s # t /\ view'.send[s].at # "idle" /\ view'.send[t].at # "idle" =>
          view'.send[s].message # view'.send[t].message
    BY <1>2, <1>9 DEF InboxMade
  <2>5. ASSUME NEW p \in InboxPush, InboxHas(view'.pushes, p)
        PROVE  /\ InboxHas(view'.stored[p.of], p.message)
               /\ \A s \in Inbox!Slots : view'.send[s].at # "idle" => view'.send[s].message # p.message
    <3>1. p.of \in Conversations
      BY DEF InboxPush
    <3>2. CASE p = push
      BY <1>3, <1>4, <1>9, <1>10, <3>2
    <3>3. CASE InboxHas(view.pushes, p)
      BY <1>2, <1>9, <1>10, <3>1, <3>3 DEF InboxMade
    <3> QED
      BY <1>8, <1>9, <2>5, <3>2, <3>3
  <2> QED
    BY <2>1, <2>2, <2>3, <2>4, <2>5 DEF InboxMade
<1>14. ASSUME NEW list, NEW j, InboxCovers(view, list, j), view.selected # Inbox!Null
       PROVE  InboxCovers(view', list, j)
  <2>1. view.selected \in Conversations
    BY <1>2, <1>14, InboxSelectionIs DEF InboxState
  <2>0. InboxStart(view.stored[view.selected], j)
    BY <1>14 DEF InboxCovers
  <2>2. /\ InboxStart(view'.stored[view.selected], j)
        /\ \A m : m \in InboxFrom(view'.stored[view.selected], j) <=>
               m \in InboxFrom(view.stored[view.selected], j) \/ (view.selected = c /\ m = n)
    BY <1>7, <1>10, <2>0, <2>1
  <2>4. ASSUME NEW m \in Inbox!Numbers, InboxHas(pushes, [of |-> view.selected, message |-> m])
        PROVE  m \in InboxFrom(view'.stored[view.selected], j)
    <3>1. CASE InboxHas(view.pushes, [of |-> view.selected, message |-> m])
      BY <1>14, <2>2, <3>1 DEF InboxCovers
    <3>2. CASE [of |-> view.selected, message |-> m] = push
      <4>1. view.selected = c /\ m = n
        BY <1>4, <3>2
      <4> QED
        BY <2>2, <4>1
    <3> QED
      BY <1>8, <2>4, <3>1, <3>2
  <2>3. ASSUME NEW m \in Inbox!Numbers, m \in InboxFrom(view'.stored[view.selected], j)
        PROVE  \/ InboxHas(list, m)
               \/ InboxHas(pushes, [of |-> view.selected, message |-> m])
               \/ \E s \in Inbox!Slots : view.send[s].at = "ok" /\ view.send[s].message = m
    <3>1. CASE m \in InboxFrom(view.stored[view.selected], j)
      BY <1>8, <1>14, <3>1 DEF InboxCovers
    <3>2. CASE view.selected = c /\ m = n
      BY <1>6, <1>8, <3>2
    <3> QED
      BY <2>2, <2>3, <3>1, <3>2
  <2> QED
    BY <1>9, <1>14, <2>2, <2>3, <2>4 DEF InboxCovers
<1>15. ASSUME ~view'.failed, ~view'.overlapped PROVE InboxCalls(view') /\ InboxThread(view')
  <2>1. InboxCalls(view) /\ InboxThread(view)
    BY <1>2, <1>9, <1>15
  <2>2. InboxCalls(view')
    BY <1>9, <2>1 DEF InboxCalls, InboxNoLoad, InboxNoSend
  <2>3. \A s \in Inbox!Slots : view.load[s].at = "ok" => view.selected # Inbox!Null
    BY <1>2, <2>1 DEF InboxCalls, InboxNumbered
  <2>4. InboxThread(view')
    BY <1>9, <1>14, <2>1, <2>3 DEF InboxThread, InboxNoLoad
  <2> QED
    BY <2>2, <2>4
<1> QED
  BY <1>9, <1>11, <1>13, <1>15 DEF InboxInv, InboxGood

\* The first push leaves the queue.
LEMMA InboxTaken ==
  ASSUME view \in InboxState, InboxNumbered(view), InboxMade(view), view.pushes # <<>>
  PROVE  /\ Tail(view.pushes) \in Seq(InboxPush) /\ Head(view.pushes) \in InboxPush
         /\ \A p : InboxHas(view.pushes, p) <=> InboxHas(Tail(view.pushes), p) \/ p = Head(view.pushes)
         /\ InboxHas(view.stored[Head(view.pushes).of], Head(view.pushes).message)
         /\ \A s \in Inbox!Slots : view.send[s].at # "idle" =>
               view.send[s].message # Head(view.pushes).message
         /\ \A i : i.stored = view.stored /\ i.send = view.send /\ i.pushes = Tail(view.pushes) =>
               InboxMade(i)
<1>1. view.pushes \in Seq(InboxPush)
  BY DEF InboxState
<1>2. /\ Tail(view.pushes) \in Seq(InboxPush) /\ Head(view.pushes) \in InboxPush
      /\ \A p : InboxHas(view.pushes, p) <=> InboxHas(Tail(view.pushes), p) \/ p = Head(view.pushes)
  BY <1>1, InboxTail
<1>3. \A i : i.stored = view.stored /\ i.send = view.send /\ i.pushes = Tail(view.pushes) => InboxMade(i)
  BY <1>2 DEF InboxMade
<1>4. /\ InboxHas(view.stored[Head(view.pushes).of], Head(view.pushes).message)
      /\ \A s \in Inbox!Slots : view.send[s].at # "idle" =>
            view.send[s].message # Head(view.pushes).message
  BY <1>2 DEF InboxMade
<1> QED
  BY <1>2, <1>3, <1>4

LEMMA InboxPushedInv ==
  ASSUME InboxInv, Inbox!Pushed PROVE InboxInv'
<1> DEFINE push == Head(view.pushes)
           shown == push.of # view.selected \/ Inbox!Contains(view.messages, push.message)
           messages == IF shown THEN view.messages ELSE Append(view.messages, push.message)
<1>1. /\ view.pushes # <<>>
      /\ view' = [view EXCEPT !.pushes = Tail(@), !.last[push.of] = push.message,
                    !.overlapped = @ \/ Inbox!Loading, !.messages = messages]
  BY DEF Inbox!Pushed
<1>2. /\ view \in InboxState /\ InboxNumbered(view) /\ InboxMade(view)
      /\ (~view.failed /\ ~view.overlapped => InboxCalls(view) /\ InboxThread(view))
  BY DEF InboxInv, InboxGood
<1>3. /\ Tail(view.pushes) \in Seq(InboxPush) /\ push \in InboxPush
      /\ \A p : InboxHas(view.pushes, p) <=> InboxHas(Tail(view.pushes), p) \/ p = push
      /\ InboxHas(view.stored[push.of], push.message)
      /\ \A s \in Inbox!Slots : view.send[s].at # "idle" => view.send[s].message # push.message
      /\ \A i : i.stored = view.stored /\ i.send = view.send /\ i.pushes = Tail(view.pushes) =>
            InboxMade(i)
  BY <1>1, <1>2, InboxTaken
<1>4. push.of \in Conversations /\ push.message \in Inbox!Numbers
  BY <1>3 DEF InboxPush
<1>5. shown <=> push.of # view.selected \/ InboxHas(view.messages, push.message)
  BY <1>2 DEF InboxState, InboxHas, Inbox!Contains
<1>6. /\ shown => messages = view.messages
      /\ ~shown => messages = Append(view.messages, push.message)
  OBVIOUS
<1> HIDE DEF push, shown, messages
<1>7. view.messages \in Seq(Inbox!Numbers)
  BY <1>2 DEF InboxState
<1>8. /\ messages \in Seq(Inbox!Numbers)
      /\ \A m : InboxHas(messages, m) <=> InboxHas(view.messages, m) \/ (~shown /\ m = push.message)
      /\ InboxOnce(view.messages) => InboxOnce(messages)
  <2>1. CASE shown
    BY <1>6, <1>7, <2>1
  <2>2. CASE ~shown
    <3>1. ~InboxHas(view.messages, push.message) /\ messages = Append(view.messages, push.message)
      BY <1>5, <1>6, <2>2
    <3>2. /\ messages \in Seq(Inbox!Numbers)
          /\ \A m : InboxHas(messages, m) <=> InboxHas(view.messages, m) \/ m = push.message
          /\ InboxOnce(view.messages) => InboxOnce(messages)
      BY <1>4, <1>7, <3>1, InboxAppend
    <3> QED
      BY <2>2, <3>2
  <2> QED
    BY <2>1, <2>2
<1>9. PICK overlapped \in BOOLEAN : overlapped <=> view.overlapped \/ Inbox!Loading
  OBVIOUS
<1>10. (view.overlapped \/ Inbox!Loading) = overlapped
  BY <1>2, <1>9 DEF InboxState, Inbox!Loading
<1>11. view' = [view EXCEPT !.pushes = Tail(view.pushes),
                  !.last = [view.last EXCEPT ![push.of] = push.message],
                  !.overlapped = overlapped, !.messages = messages]
  BY <1>1, <1>2, <1>10 DEF InboxState
<1>12. [view.last EXCEPT ![push.of] = push.message] \in [Conversations -> {0} \union Inbox!Numbers]
  BY <1>2, <1>4 DEF InboxState
<1>13. /\ view' \in InboxState
       /\ view'.selected = view.selected /\ view'.stored = view.stored
       /\ view'.send = view.send /\ view'.pushes = Tail(view.pushes) /\ view'.acts = view.acts
       /\ view'.overlapped = overlapped /\ view'.failed = view.failed
       /\ view'.messages = messages /\ view'.load = view.load
  BY <1>2, <1>3, <1>8, <1>11, <1>12 DEF InboxState
<1>14. InboxNumbered(view')
  BY <1>2, <1>13 DEF InboxNumbered
<1>15. InboxMade(view')
  BY <1>3, <1>13
<1>16. ASSUME ~view'.failed, ~view'.overlapped PROVE InboxCalls(view') /\ InboxThread(view')
  <2>1. InboxCalls(view) /\ InboxThread(view) /\ InboxNoLoad(view)
    BY <1>2, <1>9, <1>13, <1>16 DEF Inbox!Loading, InboxNoLoad
  <2>2. InboxCalls(view')
    BY <1>13, <2>1 DEF InboxCalls, InboxNoLoad, InboxNoSend
  <2>3. ASSUME view.selected # Inbox!Null PROVE \E j : InboxCovers(view', messages, j)
    <3>1. PICK j : InboxCovers(view, view.messages, j)
      BY <2>1, <2>3 DEF InboxThread
    <3>2. ASSUME NEW m \in Inbox!Numbers, InboxHas(messages, m)
          PROVE  m \in InboxFrom(view.stored[view.selected], j)
      <4>1. CASE InboxHas(view.messages, m)
        BY <3>1, <4>1 DEF InboxCovers
      <4>2. CASE ~shown /\ m = push.message
        <5>1. push = [of |-> view.selected, message |-> m]
          BY <1>3, <1>5, <4>2 DEF InboxPush
        <5>2. InboxHas(view.pushes, [of |-> view.selected, message |-> m])
          BY <1>3, <5>1
        <5> QED
          BY <3>1, <5>2 DEF InboxCovers
      <4> QED
        BY <1>8, <3>2, <4>1, <4>2
    <3>2a. \A m \in Inbox!Numbers : InboxHas(Tail(view.pushes), [of |-> view.selected, message |-> m]) =>
             m \in InboxFrom(view.stored[view.selected], j)
      BY <1>3, <3>1 DEF InboxCovers
    <3>3. \A s \in Inbox!Slots : view.send[s].at = "ok" =>
            /\ ~InboxHas(messages, view.send[s].message)
            /\ view.send[s].message \in InboxFrom(view.stored[view.selected], j)
      BY <1>3, <1>8, <3>1 DEF InboxCovers
    <3>4. ASSUME NEW m \in Inbox!Numbers, m \in InboxFrom(view.stored[view.selected], j)
          PROVE  \/ InboxHas(messages, m)
                 \/ InboxHas(Tail(view.pushes), [of |-> view.selected, message |-> m])
                 \/ \E s \in Inbox!Slots : view.send[s].at = "ok" /\ view.send[s].message = m
      <4>1. CASE [of |-> view.selected, message |-> m] = push
        <5>1. push.of = view.selected /\ push.message = m
          BY <4>1
        <5> QED
          BY <1>5, <1>8, <5>1
      <4>2. CASE InboxHas(view.pushes, [of |-> view.selected, message |-> m])
                 /\ [of |-> view.selected, message |-> m] # push
        BY <1>3, <4>2
      <4>3. CASE ~InboxHas(view.pushes, [of |-> view.selected, message |-> m])
        BY <1>8, <3>1, <3>4, <4>3 DEF InboxCovers
      <4> QED
        BY <4>1, <4>2, <4>3
    <3> QED
      BY <1>8, <1>13, <3>1, <3>2, <3>2a, <3>3, <3>4 DEF InboxCovers
  <2>4. InboxThread(view')
    BY <1>13, <2>1, <2>3 DEF InboxThread, InboxNoLoad
  <2> QED
    BY <2>2, <2>4
<1> QED
  BY <1>13, <1>14, <1>15, <1>16 DEF InboxInv, InboxGood

LEMMA InboxLostInv ==
  ASSUME InboxInv, Inbox!PushLost PROVE InboxInv'
<1>1. view.pushes # <<>> /\ view' = [view EXCEPT !.pushes = Tail(view.pushes), !.failed = TRUE]
  BY DEF Inbox!PushLost, InboxInv, InboxGood, InboxState
<1>2. view \in InboxState /\ InboxNumbered(view) /\ InboxMade(view)
  BY DEF InboxInv, InboxGood
<1>3. /\ Tail(view.pushes) \in Seq(InboxPush)
      /\ \A i : i.stored = view.stored /\ i.send = view.send /\ i.pushes = Tail(view.pushes) =>
            InboxMade(i)
  BY <1>1, <1>2, InboxTaken
<1>4. /\ view' \in InboxState
      /\ view'.stored = view.stored /\ view'.send = view.send /\ view'.load = view.load
      /\ view'.pushes = Tail(view.pushes) /\ view'.acts = view.acts /\ view'.failed = TRUE
  BY <1>1, <1>2, <1>3 DEF InboxState
<1>5. InboxNumbered(view') /\ InboxMade(view')
  BY <1>2, <1>3, <1>4 DEF InboxNumbered
<1> QED
  BY <1>4, <1>5 DEF InboxInv, InboxGood

LEMMA InboxSendInv ==
  ASSUME InboxInv, Inbox!Send PROVE InboxInv'
<1>1. PICK s \in Inbox!Slots :
        /\ Inbox!Act /\ view.selected # Inbox!Null /\ view.send[s].at = "idle"
        /\ view' = [view EXCEPT !.acts = @ + 1, !.overlapped = @ \/ Inbox!Loading,
                      !.send[s] = [at |-> "sent", of |-> view.selected, message |-> view.acts + 1]]
  BY DEF Inbox!Send, Inbox!Stored
<1>2. /\ view \in InboxState /\ InboxNumbered(view) /\ InboxMade(view)
      /\ (~view.failed /\ ~view.overlapped => InboxCalls(view) /\ InboxThread(view))
  BY DEF InboxInv, InboxGood
<1> DEFINE n == view.acts + 1
           call == [at |-> "sent", of |-> view.selected, message |-> n]
<1>3. /\ n \in 0..MaxActs["inbox"] /\ n \in Inbox!Numbers
      /\ \A d \in Conversations : ~InboxHas(view.stored[d], n)
      /\ \A t \in Inbox!Slots : view.send[t].at # "idle" => view.send[t].message # n
      /\ \A p \in InboxPush : InboxHas(view.pushes, p) => p.message # n
      /\ \A m \in Inbox!Numbers : m <= view.acts => m <= n
      /\ \A m \in 1..view.acts : m \in 1..n
      /\ n \in 1..n
  <2>1. n \in 1..n
    BY <1>2 DEF InboxState
  <2> HIDE DEF n
  <2> QED
    BY <1>1, <1>2, <2>1, InboxNextNumber DEF n
<1>4. call \in InboxSend /\ call.at = "sent" /\ call.of = view.selected /\ call.message = n
  BY <1>2, <1>3, InboxCallEnds DEF InboxSend, InboxState
<1>5. PICK overlapped \in BOOLEAN : overlapped <=> view.overlapped \/ Inbox!Loading
  OBVIOUS
<1>6. (view.overlapped \/ Inbox!Loading) = overlapped
  BY <1>2, <1>5 DEF InboxState, Inbox!Loading
<1>7. view' = [view EXCEPT !.acts = n, !.overlapped = overlapped,
                 !.send = [view.send EXCEPT ![s] = call]]
  BY <1>1, <1>2, <1>6 DEF InboxState
<1> HIDE DEF n, call
<1>8. [view.send EXCEPT ![s] = call] \in [Inbox!Slots -> InboxSend]
  BY <1>2, <1>4 DEF InboxState
<1>9. /\ view' \in InboxState
      /\ view'.selected = view.selected /\ view'.stored = view.stored
      /\ view'.send = [view.send EXCEPT ![s] = call] /\ view'.pushes = view.pushes /\ view'.acts = n
      /\ view'.overlapped = overlapped /\ view'.failed = view.failed
      /\ view'.messages = view.messages /\ view'.load = view.load
  BY <1>2, <1>3, <1>7, <1>8 DEF InboxState
<1>10. view'.send[s] = call /\ \A t \in Inbox!Slots : t # s => view'.send[t] = view.send[t]
  BY <1>2, <1>9 DEF InboxState
<1>11. InboxNumbered(view')
  <2>1. \A d \in Conversations : \A m \in Inbox!Numbers : InboxHas(view'.stored[d], m) => m <= view'.acts
    BY <1>2, <1>3, <1>9 DEF InboxNumbered
  <2>2. \A t \in Inbox!Slots : view'.send[t].at # "idle" =>
          view'.send[t].of # Inbox!Null /\ view'.send[t].message \in 1..view'.acts
    BY <1>1, <1>2, <1>3, <1>4, <1>9, <1>10 DEF InboxNumbered
  <2> QED
    BY <1>2, <1>9, <2>1, <2>2 DEF InboxNumbered
<1>12. InboxMade(view')
  <2>1. \A t \in Inbox!Slots : view'.send[t].at = "sent" =>
          \A d \in Conversations : ~InboxHas(view'.stored[d], view'.send[t].message)
    BY <1>2, <1>3, <1>4, <1>9, <1>10 DEF InboxMade
  <2>2. \A t \in Inbox!Slots : view'.send[t].at = "ok" =>
          InboxHas(view'.stored[view'.send[t].of], view'.send[t].message)
    BY <1>2, <1>4, <1>9, <1>10 DEF InboxMade
  <2>3. \A t, u \in Inbox!Slots : t # u /\ view'.send[t].at # "idle" /\ view'.send[u].at # "idle" =>
          view'.send[t].message # view'.send[u].message
    BY <1>2, <1>3, <1>4, <1>10 DEF InboxMade
  <2>4. \A p \in InboxPush : InboxHas(view'.pushes, p) =>
          /\ InboxHas(view'.stored[p.of], p.message)
          /\ \A t \in Inbox!Slots : view'.send[t].at # "idle" => view'.send[t].message # p.message
    BY <1>2, <1>3, <1>4, <1>9, <1>10 DEF InboxMade
  <2> QED
    BY <1>2, <1>9, <2>1, <2>2, <2>3, <2>4 DEF InboxMade
<1>13. ASSUME ~view'.failed, ~view'.overlapped PROVE InboxCalls(view') /\ InboxThread(view')
  <2>1. InboxCalls(view) /\ InboxThread(view) /\ InboxNoLoad(view)
    BY <1>2, <1>5, <1>9, <1>13 DEF Inbox!Loading, InboxNoLoad
  <2>2. InboxCalls(view')
    BY <1>4, <1>9, <1>10, <2>1 DEF InboxCalls, InboxNoLoad
  <2>3. \E j : InboxCovers(view', view.messages, j)
    <3>1. PICK j : InboxCovers(view, view.messages, j)
      BY <1>1, <2>1 DEF InboxThread
    <3>2. \A t \in Inbox!Slots : view'.send[t].at = "ok" <=> view.send[t].at = "ok"
      BY <1>1, <1>4, <1>10
    <3>3. \A t \in Inbox!Slots : view'.send[t].at = "ok" => view'.send[t] = view.send[t]
      BY <1>4, <1>10
    <3> QED
      BY <1>9, <3>1, <3>2, <3>3 DEF InboxCovers
  <2>4. InboxThread(view')
    BY <1>9, <2>1, <2>3 DEF InboxThread, InboxNoLoad
  <2> QED
    BY <2>2, <2>4
<1> QED
  BY <1>9, <1>11, <1>12, <1>13 DEF InboxInv, InboxGood

LEMMA InboxSentInv ==
  ASSUME InboxInv, Inbox!ServeSend PROVE InboxInv'
<1>1. PICK s \in Inbox!Slots, end \in Inbox!Ends :
        \E done \in Inbox!Effects(end) :
          /\ view.send[s].at = "sent"
          /\ view' = [view EXCEPT !.send[s].at = end, !.failed = @ \/ end # "ok",
                        !.stored[view.send[s].of] = IF done THEN Append(@, view.send[s].message) ELSE @]
  BY DEF Inbox!ServeSend
<1>2. PICK done \in Inbox!Effects(end) :
          /\ view.send[s].at = "sent"
          /\ view' = [view EXCEPT !.send[s].at = end, !.failed = @ \/ end # "ok",
                        !.stored[view.send[s].of] = IF done THEN Append(@, view.send[s].message) ELSE @]
  BY <1>1
<1>3. /\ view \in InboxState /\ InboxNumbered(view) /\ InboxMade(view)
      /\ (~view.failed /\ ~view.overlapped => InboxCalls(view) /\ InboxThread(view))
  BY DEF InboxInv, InboxGood
<1>4. PICK failed \in BOOLEAN : failed <=> view.failed \/ end # "ok"
  OBVIOUS
<1>5. (view.failed \/ end # "ok") = failed
  BY <1>3, <1>4 DEF InboxState
<1>6. done \in BOOLEAN /\ (end = "ok" => done = TRUE)
  BY InboxHowItEnds
<1> DEFINE c == view.send[s].of
           n == view.send[s].message
           call == [view.send[s] EXCEPT !.at = end]
           thread == IF done THEN Append(view.stored[c], n) ELSE view.stored[c]
<1>7. /\ view.send[s] \in InboxSend /\ c \in Conversations /\ n \in Inbox!Numbers /\ n <= view.acts
      /\ n \in 1..view.acts
  <2>1. view.send[s] \in InboxSend /\ c # Inbox!Null /\ n \in 1..view.acts
    BY <1>2, <1>3 DEF InboxState, InboxNumbered
  <2>2. c \in Conversations
    BY <2>1, InboxSelectionIs DEF InboxSend
  <2>3. view.acts \in 0..MaxActs["inbox"]
    BY <1>3 DEF InboxState
  <2> HIDE DEF n
  <2>4. n \in Inbox!Numbers /\ n <= view.acts
    BY <2>1, <2>3, InboxBounds DEF Inbox!Numbers
  <2> QED
    BY <2>1, <2>2, <2>4
<1>8. call \in InboxSend /\ call.at = end /\ call.of = c /\ call.message = n
  BY <1>7, InboxCallEnds DEF InboxSend
<1>9. \A d \in Conversations : ~InboxHas(view.stored[d], n)
  BY <1>2, <1>3 DEF InboxMade
<1>10. \A t \in Inbox!Slots : t # s /\ view.send[t].at # "idle" => view.send[t].message # n
  BY <1>2, <1>3 DEF InboxMade
<1>11. view' = [view EXCEPT !.send = [view.send EXCEPT ![s] = call], !.failed = failed,
                            !.stored = [view.stored EXCEPT ![c] = thread]]
  <2>1. view' = [[[view EXCEPT !.send = [view.send EXCEPT ![s] = call]] EXCEPT
                   !.failed = view.failed \/ end # "ok"] EXCEPT
                   !.stored = [view.stored EXCEPT ![c] = thread]]
    BY <1>2, <1>3 DEF InboxState
  <2> HIDE DEF call, thread, c, n
  <2> QED
    BY <1>5, <2>1
<1>12. /\ thread \in Seq(Inbox!Numbers)
       /\ \A m : InboxHas(thread, m) <=> InboxHas(view.stored[c], m) \/ (done /\ m = n)
       /\ InboxOnce(thread)
       /\ \A j : InboxStart(view.stored[c], j) =>
             /\ InboxStart(thread, j)
             /\ \A m : m \in InboxFrom(thread, j) <=>
                    m \in InboxFrom(view.stored[c], j) \/ (done /\ m = n)
  <2> HIDE DEF c, n
  <2>1. view.stored[c] \in Seq(Inbox!Numbers) /\ InboxOnce(view.stored[c])
    BY <1>3, <1>7 DEF InboxState, InboxMade
  <2>2. CASE done
    <3>1. thread = Append(view.stored[c], n)
      BY <2>2
    <3> HIDE DEF thread
    <3>2. /\ thread \in Seq(Inbox!Numbers)
          /\ \A m : InboxHas(thread, m) <=> InboxHas(view.stored[c], m) \/ m = n
          /\ InboxOnce(thread)
          /\ \A j : InboxStart(view.stored[c], j) =>
                /\ InboxStart(thread, j)
                /\ \A m : m \in InboxFrom(thread, j) <=> m \in InboxFrom(view.stored[c], j) \/ m = n
      BY <1>7, <1>9, <2>1, <3>1, InboxAppend, InboxFromAppend
    <3> QED
      BY <2>2, <3>2
  <2>3. CASE ~done
    <3>1. thread = view.stored[c]
      BY <2>3
    <3> HIDE DEF thread
    <3> QED
      BY <2>1, <2>3, <3>1
  <2> QED
    BY <2>2, <2>3
<1>13. c = view.send[s].of /\ n = view.send[s].message
  OBVIOUS
<1> HIDE DEF call, thread, c, n
<1>14. /\ view' \in InboxState
       /\ view'.selected = view.selected /\ view'.stored = [view.stored EXCEPT ![c] = thread]
       /\ view'.send = [view.send EXCEPT ![s] = call] /\ view'.pushes = view.pushes
       /\ view'.acts = view.acts /\ view'.overlapped = view.overlapped /\ view'.failed = failed
       /\ view'.messages = view.messages /\ view'.load = view.load
  <2>1. [view.stored EXCEPT ![c] = thread] \in [Conversations -> Seq(Inbox!Numbers)]
    BY <1>3, <1>12 DEF InboxState
  <2>2. [view.send EXCEPT ![s] = call] \in [Inbox!Slots -> InboxSend]
    BY <1>3, <1>8 DEF InboxState
  <2>3. view' \in InboxState
    BY <1>3, <1>4, <1>11, <2>1, <2>2 DEF InboxState
  <2> QED
    BY <1>3, <1>11, <2>3 DEF InboxState
<1>15. view'.send[s] = call /\ \A t \in Inbox!Slots : t # s => view'.send[t] = view.send[t]
  BY <1>3, <1>14 DEF InboxState
<1>16. /\ view'.stored[c] = thread
       /\ \A d \in Conversations : d # c => view'.stored[d] = view.stored[d]
       /\ \A d \in Conversations : \A m :
            InboxHas(view'.stored[d], m) <=> InboxHas(view.stored[d], m) \/ (d = c /\ done /\ m = n)
  <2>1. /\ view'.stored[c] = thread
        /\ \A d \in Conversations : d # c => view'.stored[d] = view.stored[d]
    BY <1>3, <1>7, <1>14 DEF InboxState
  <2> QED
    BY <1>12, <2>1
<1>17. InboxNumbered(view')
  <2>1. \A d \in Conversations : \A m \in Inbox!Numbers : InboxHas(view'.stored[d], m) => m <= view'.acts
    BY <1>3, <1>7, <1>14, <1>16 DEF InboxNumbered
  <2>2. \A t \in Inbox!Slots : view'.send[t].at # "idle" =>
          view'.send[t].of # Inbox!Null /\ view'.send[t].message \in 1..view'.acts
    BY <1>2, <1>3, <1>7, <1>8, <1>13, <1>14, <1>15 DEF InboxNumbered
  <2> QED
    BY <1>3, <1>14, <2>1, <2>2 DEF InboxNumbered
<1>18. \A t \in Inbox!Slots : view.send[t].at # "idle" => view.send[t].of \in Conversations
  BY <1>3, InboxSelectionIs DEF InboxState, InboxSend, InboxNumbered
<1>19. InboxMade(view')
  <2>1. \A d \in Conversations : InboxOnce(view'.stored[d])
    BY <1>3, <1>12, <1>16 DEF InboxMade
  <2>2. \A t \in Inbox!Slots : view'.send[t].at = "sent" =>
          \A d \in Conversations : ~InboxHas(view'.stored[d], view'.send[t].message)
    BY <1>3, <1>8, <1>10, <1>15, <1>16, InboxCallEnds DEF InboxMade
  <2>3. ASSUME NEW t \in Inbox!Slots, view'.send[t].at = "ok"
        PROVE  InboxHas(view'.stored[view'.send[t].of], view'.send[t].message)
    <3>1. CASE t = s
      BY <1>6, <1>7, <1>8, <1>15, <1>16, <2>3, <3>1
    <3>2. CASE t # s
      BY <1>3, <1>15, <1>16, <1>18, <2>3, <3>2 DEF InboxMade
    <3> QED
      BY <3>1, <3>2
  <2>4. \A t, u \in Inbox!Slots : t # u /\ view'.send[t].at # "idle" /\ view'.send[u].at # "idle" =>
          view'.send[t].message # view'.send[u].message
    BY <1>3, <1>8, <1>10, <1>15 DEF InboxMade
  <2>5. ASSUME NEW p \in InboxPush, InboxHas(view'.pushes, p)
        PROVE  /\ InboxHas(view'.stored[p.of], p.message)
               /\ \A t \in Inbox!Slots : view'.send[t].at # "idle" => view'.send[t].message # p.message
    <3>1. p.of \in Conversations
      BY DEF InboxPush
    <3>2. /\ InboxHas(view.stored[p.of], p.message)
          /\ \A t \in Inbox!Slots : view.send[t].at # "idle" => view.send[t].message # p.message
      BY <1>3, <1>14, <2>5 DEF InboxMade
    <3> QED
      BY <1>2, <1>8, <1>13, <1>15, <1>16, <3>1, <3>2
  <2> QED
    BY <2>1, <2>2, <2>3, <2>4, <2>5 DEF InboxMade
<1>20. ASSUME ~view'.failed, ~view'.overlapped PROVE InboxCalls(view') /\ InboxThread(view')
  <2>1. InboxCalls(view) /\ InboxThread(view) /\ end = "ok"
    BY <1>3, <1>4, <1>14, <1>20
  <2>2. InboxNoLoad(view) /\ c = view.selected /\ view.selected # Inbox!Null
    BY <1>2, <1>3, <1>13, <2>1 DEF InboxCalls, InboxNoSend, InboxNumbered
  <2>3. InboxCalls(view')
    BY <1>8, <1>14, <1>15, <2>1, <2>2 DEF InboxCalls, InboxNoLoad
  <2>4. \E j : InboxCovers(view', view.messages, j)
    <3>1. PICK j : InboxCovers(view, view.messages, j)
      BY <2>1, <2>2 DEF InboxThread
    <3>2. /\ InboxStart(view'.stored[view.selected], j)
          /\ \A m : m \in InboxFrom(view'.stored[view.selected], j) <=>
                 m \in InboxFrom(view.stored[view.selected], j) \/ m = n
      <4>1. InboxStart(view.stored[c], j) /\ view'.stored[view.selected] = thread /\ done = TRUE
        BY <1>6, <1>16, <2>1, <2>2, <3>1 DEF InboxCovers
      <4> QED
        BY <1>12, <2>2, <4>1
    <3>2a. \A m \in InboxFrom(view.stored[view.selected], j) : InboxHas(view.stored[view.selected], m)
      <4>1. /\ view.stored[view.selected] \in Seq(Inbox!Numbers)
            /\ InboxStart(view.stored[view.selected], j)
        BY <1>3, <1>7, <2>2, <3>1 DEF InboxState, InboxCovers
      <4> QED
        BY <4>1 DEF InboxFrom, InboxHas, InboxStart
    <3>2b. ~InboxHas(view.messages, n)
      BY <1>7, <1>9, <2>2, <3>1, <3>2a DEF InboxCovers
    <3>3. ASSUME NEW t \in Inbox!Slots, view'.send[t].at = "ok"
          PROVE  /\ ~InboxHas(view.messages, view'.send[t].message)
                 /\ view'.send[t].message \in InboxFrom(view'.stored[view.selected], j)
      <4>1. CASE t = s
        BY <1>8, <1>15, <3>2, <3>2b, <4>1
      <4>2. CASE t # s
        BY <1>15, <3>1, <3>2, <3>3, <4>2 DEF InboxCovers
      <4> QED
        BY <4>1, <4>2
    <3>4. ASSUME NEW m \in Inbox!Numbers, m \in InboxFrom(view'.stored[view.selected], j)
          PROVE  \/ InboxHas(view.messages, m)
                 \/ InboxHas(view.pushes, [of |-> view.selected, message |-> m])
                 \/ \E t \in Inbox!Slots : view'.send[t].at = "ok" /\ view'.send[t].message = m
      <4>1. CASE m = n
        BY <1>8, <1>15, <2>1, <4>1
      <4>2. CASE m \in InboxFrom(view.stored[view.selected], j)
        <5>1. \/ InboxHas(view.messages, m)
              \/ InboxHas(view.pushes, [of |-> view.selected, message |-> m])
              \/ \E t \in Inbox!Slots : view.send[t].at = "ok" /\ view.send[t].message = m
          BY <3>1, <4>2 DEF InboxCovers
        <5> QED
          BY <1>2, <1>15, <5>1
      <4> QED
        BY <3>2, <3>4, <4>1, <4>2
    <3> QED
      BY <1>14, <3>1, <3>2, <3>3, <3>4 DEF InboxCovers
  <2>5. InboxThread(view')
    BY <1>14, <2>2, <2>4, InboxCallEnds DEF InboxThread, InboxNoLoad
  <2> QED
    BY <2>3, <2>5
<1> QED
  BY <1>14, <1>17, <1>19, <1>20 DEF InboxInv, InboxGood

LEMMA InboxAnswerInv ==
  ASSUME InboxInv, Inbox!SendAnswered PROVE InboxInv'
<1>1. PICK s \in Inbox!Slots :
        /\ view.send[s].at \in Inbox!Ends
        /\ LET m == view.send[s]
               i == [view EXCEPT !.send[s] = Inbox!NoSend] IN
           view' = IF m.at # "ok" THEN i
                   ELSE [i EXCEPT !.messages = Append(@, m.message), !.last[m.of] = m.message]
  BY DEF Inbox!SendAnswered, Inbox!Arrived
<1>2. /\ view \in InboxState /\ InboxNumbered(view) /\ InboxMade(view)
      /\ (~view.failed /\ ~view.overlapped => InboxCalls(view) /\ InboxThread(view))
  BY DEF InboxInv, InboxGood
<1> DEFINE c == view.send[s].of
           n == view.send[s].message
           sends == [view.send EXCEPT ![s] = Inbox!NoSend]
           shown == Append(view.messages, n)
<1>3. view.send[s].at # "idle"
  BY <1>1, InboxCallEnds
<1>4. c \in Conversations /\ n \in Inbox!Numbers
  <2>1. view.send[s] \in InboxSend /\ c # Inbox!Null /\ n \in 1..view.acts
    BY <1>2, <1>3 DEF InboxState, InboxNumbered
  <2>2. c \in Conversations
    BY <2>1, InboxSelectionIs DEF InboxSend
  <2>3. view.acts \in 0..MaxActs["inbox"]
    BY <1>2 DEF InboxState
  <2> HIDE DEF n
  <2>4. n \in Inbox!Numbers
    BY <2>1, <2>3, InboxBounds DEF Inbox!Numbers
  <2> QED
    BY <2>2, <2>4
<1>5. Inbox!NoSend \in InboxSend /\ Inbox!NoSend.at = "idle"
  BY InboxCallEnds, InboxSelectionIs DEF Inbox!NoSend, InboxSend
<1>6. sends \in [Inbox!Slots -> InboxSend] /\ sends[s].at = "idle"
      /\ \A t \in Inbox!Slots : t # s => sends[t] = view.send[t]
  BY <1>2, <1>5 DEF InboxState
<1>7. \/ view.send[s].at # "ok" /\ view' = [view EXCEPT !.send = sends]
      \/ /\ view.send[s].at = "ok"
         /\ view' = [view EXCEPT !.send = sends, !.messages = shown,
                                 !.last = [view.last EXCEPT ![c] = n]]
  <2>1. CASE view.send[s].at # "ok"
    BY <1>1, <1>2, <2>1 DEF InboxState
  <2>2. CASE view.send[s].at = "ok"
    BY <1>1, <1>2, <2>2 DEF InboxState
  <2> QED
    BY <2>1, <2>2
<1>8. /\ shown \in Seq(Inbox!Numbers)
      /\ \A m : InboxHas(shown, m) <=> InboxHas(view.messages, m) \/ m = n
      /\ InboxOnce(view.messages) /\ ~InboxHas(view.messages, n) => InboxOnce(shown)
  <2>1. view.messages \in Seq(Inbox!Numbers)
    BY <1>2 DEF InboxState
  <2> HIDE DEF n
  <2> QED
    BY <1>4, <2>1, InboxAppend
<1>9. c = view.send[s].of /\ n = view.send[s].message
  OBVIOUS
<1> HIDE DEF c, n, sends, shown
<1>10. /\ view' \in InboxState
       /\ view'.selected = view.selected /\ view'.stored = view.stored
       /\ view'.send = sends /\ view'.pushes = view.pushes /\ view'.acts = view.acts
       /\ view'.overlapped = view.overlapped /\ view'.failed = view.failed /\ view'.load = view.load
       /\ view.send[s].at = "ok" => view'.messages = shown
  <2>1. [view.last EXCEPT ![c] = n] \in [Conversations -> {0} \union Inbox!Numbers]
    BY <1>2, <1>4 DEF InboxState
  <2>2. CASE view.send[s].at # "ok" /\ view' = [view EXCEPT !.send = sends]
    BY <1>2, <1>6, <2>2 DEF InboxState
  <2>3. CASE /\ view.send[s].at = "ok"
             /\ view' = [view EXCEPT !.send = sends, !.messages = shown,
                                     !.last = [view.last EXCEPT ![c] = n]]
    BY <1>2, <1>6, <1>8, <2>1, <2>3 DEF InboxState
  <2> QED
    BY <1>7, <2>2, <2>3
<1>11. InboxNumbered(view')
  BY <1>2, <1>6, <1>10 DEF InboxNumbered
<1>12. InboxMade(view')
  BY <1>2, <1>6, <1>10 DEF InboxMade
<1>13. ASSUME ~view'.failed, ~view'.overlapped PROVE InboxCalls(view') /\ InboxThread(view')
  <2>1. InboxCalls(view) /\ InboxThread(view)
    BY <1>2, <1>10, <1>13
  <2>2. /\ InboxNoLoad(view) /\ view.send[s].at = "ok" /\ c = view.selected
        /\ view.selected # Inbox!Null
    BY <1>1, <1>2, <1>3, <1>9, <2>1, InboxCallEnds DEF InboxCalls, InboxNoSend, InboxNumbered
  <2>3. InboxCalls(view')
    BY <1>6, <1>10, <2>1, <2>2 DEF InboxCalls, InboxNoLoad
  <2>4. \E j : InboxCovers(view', shown, j)
    <3>1. PICK j : InboxCovers(view, view.messages, j)
      BY <2>1, <2>2 DEF InboxThread
    <3>2. ~InboxHas(view.messages, n) /\ n \in InboxFrom(view.stored[view.selected], j)
      BY <1>9, <2>2, <3>1 DEF InboxCovers
    <3>3. InboxOnce(shown)
      BY <1>8, <3>1, <3>2 DEF InboxCovers
    <3>4. \A m \in Inbox!Numbers : InboxHas(shown, m) => m \in InboxFrom(view.stored[view.selected], j)
      BY <1>8, <3>1, <3>2 DEF InboxCovers
    <3>5. \A t \in Inbox!Slots : sends[t].at = "ok" =>
            /\ ~InboxHas(shown, sends[t].message)
            /\ sends[t].message \in InboxFrom(view.stored[view.selected], j)
      <4>1. ASSUME NEW t \in Inbox!Slots, sends[t].at = "ok"
            PROVE  /\ ~InboxHas(shown, sends[t].message)
                   /\ sends[t].message \in InboxFrom(view.stored[view.selected], j)
        <5>1. t # s /\ sends[t] = view.send[t]
          BY <1>6, <4>1
        <5>2. /\ ~InboxHas(view.messages, view.send[t].message)
              /\ view.send[t].message \in InboxFrom(view.stored[view.selected], j)
          BY <3>1, <4>1, <5>1 DEF InboxCovers
        <5>3. view.send[t].message # n
          BY <1>2, <1>3, <1>9, <4>1, <5>1 DEF InboxMade
        <5> QED
          BY <1>8, <5>1, <5>2, <5>3
      <4> QED
        BY <4>1
    <3>6. ASSUME NEW m \in Inbox!Numbers, m \in InboxFrom(view.stored[view.selected], j)
          PROVE  \/ InboxHas(shown, m)
                 \/ InboxHas(view.pushes, [of |-> view.selected, message |-> m])
                 \/ \E t \in Inbox!Slots : sends[t].at = "ok" /\ sends[t].message = m
      <4>1. CASE m = n
        BY <1>8, <4>1
      <4>2. CASE m # n
        <5>1. \/ InboxHas(view.messages, m)
              \/ InboxHas(view.pushes, [of |-> view.selected, message |-> m])
              \/ \E t \in Inbox!Slots : view.send[t].at = "ok" /\ view.send[t].message = m
          BY <3>1, <3>6 DEF InboxCovers
        <5> QED
          BY <1>6, <1>8, <1>9, <4>2, <5>1
      <4> QED
        BY <4>1, <4>2
    <3> QED
      BY <1>10, <3>1, <3>3, <3>4, <3>5, <3>6 DEF InboxCovers
  <2>5. InboxThread(view')
    BY <1>10, <2>2, <2>4 DEF InboxThread, InboxNoLoad
  <2> QED
    BY <2>3, <2>5
<1> QED
  BY <1>10, <1>11, <1>12, <1>13 DEF InboxInv, InboxGood

LEMMA InboxNextInv == InboxInv /\ [Inbox!Next]_view => InboxInv'
<1>1. InboxInv /\ UNCHANGED view => InboxInv'
  BY DEF InboxInv
<1> QED
  BY <1>1, InboxSelectInv, InboxStartInv, InboxLoadInv, InboxLoadedInv, InboxReceiveInv,
     InboxPushedInv, InboxLostInv, InboxSendInv, InboxSentInv, InboxAnswerInv
     DEF Inbox!Next, Inbox!Progress

LEMMA InboxInvTyped ==
  ASSUME InboxInv PROVE Inbox!TypeOK
<1>1. view \in InboxState
  BY DEF InboxInv, InboxGood
<1>2. \A s \in Inbox!Slots : view.load[s] \in InboxLoad /\ view.send[s] \in InboxSend
  BY <1>1 DEF InboxState
<1>3. \A s \in Inbox!Slots :
        /\ view.load[s].at \in Inbox!Calls /\ view.load[s].items \in Seq(Inbox!Numbers)
        /\ view.send[s].at \in Inbox!Calls /\ view.send[s].message \in {0} \union Inbox!Numbers
        /\ view.load[s].of \in Inbox!Selection /\ view.send[s].of \in Inbox!Selection
  BY <1>2 DEF InboxLoad, InboxSend
<1>4. /\ view.selected \in Inbox!Selection /\ view.messages \in Seq(Inbox!Numbers)
      /\ \A c \in Conversations : view.stored[c] \in Seq(Inbox!Numbers)
      /\ view.last \in [Conversations -> {0} \union Inbox!Numbers]
      /\ view.start \in [at : Inbox!Calls, of : Inbox!Selection]
      /\ view.acts \in 0..MaxActs["inbox"]
      /\ view.overlapped \in BOOLEAN /\ view.failed \in BOOLEAN
  BY <1>1 DEF InboxState
<1>5. view.pushes \in Seq([of : Conversations, message : Inbox!Numbers])
  BY <1>1 DEF InboxState, InboxPush
<1> QED
  BY <1>3, <1>4, <1>5 DEF Inbox!TypeOK

LEMMA InboxInvAgrees == InboxInv => Inbox!ThreadAgrees
<1> DEFINE shown == view.messages
           thread == view.stored[view.selected]
           left == Len(thread) - Len(shown)
<1> SUFFICES ASSUME InboxInv, Inbox!Quiet, ~view.failed, ~view.overlapped, view.selected # Inbox!Null
             PROVE  /\ Inbox!ToSet(shown) = {thread[i] : i \in (left + 1)..Len(thread)}
                    /\ left = 0 \/ (left > 0 /\ Len(shown) >= PageSize)
  BY DEF Inbox!ThreadAgrees
<1>1. InboxMade(view) /\ InboxThread(view) /\ view \in InboxState
  BY DEF InboxInv, InboxGood
<1>2. view.selected \in Conversations
  BY <1>1, InboxSelectionIs DEF InboxState
<1>3. PICK j : InboxCovers(view, shown, j)
  BY <1>1 DEF InboxThread, InboxNoLoad, Inbox!Quiet, Inbox!Loading
<1>4. \A m : ~InboxHas(view.pushes, m)
  BY DEF Inbox!Quiet, InboxHas
<1>5. \A m \in Inbox!Numbers : InboxHas(shown, m) <=> m \in InboxFrom(thread, j)
  BY <1>3, <1>4 DEF InboxCovers, Inbox!Quiet, Inbox!Sending
<1>6. InboxOnce(shown) /\ InboxOnce(thread) /\ InboxStart(thread, j)
  BY <1>1, <1>2, <1>3 DEF InboxCovers, InboxMade
<1>7. shown \in Seq(Inbox!Numbers) /\ thread \in Seq(Inbox!Numbers)
  BY <1>1, <1>2 DEF InboxState
<1> HIDE DEF shown, thread
<1>8. /\ Len(shown) \in Nat /\ DOMAIN shown = 1..Len(shown)
      /\ Len(thread) \in Nat /\ DOMAIN thread = 1..Len(thread)
      /\ \A k \in DOMAIN shown : shown[k] \in Inbox!Numbers
      /\ \A k \in DOMAIN thread : thread[k] \in Inbox!Numbers
  BY <1>7
<1> DEFINE size == Len(thread) - j + 1
           rest == [k \in 1..size |-> thread[j + k - 1]]
<1>9. /\ j \in Nat \ {0} /\ j <= Len(thread) + 1 /\ (j = 1 \/ size >= PageSize)
      /\ size \in Nat /\ \A k \in 1..size : j + k - 1 \in 1..Len(thread)
  BY <1>6, <1>8 DEF InboxStart
<1>10. Inbox!ToSet(shown) = InboxFrom(thread, j)
  <2>1. \A m : m \in Inbox!ToSet(shown) <=> InboxHas(shown, m)
    BY DEF Inbox!ToSet, InboxHas
  <2>2. \A m : InboxHas(shown, m) \/ m \in InboxFrom(thread, j) => m \in Inbox!Numbers
    <3>1. j..Len(thread) \subseteq DOMAIN thread
      BY <1>8, <1>9
    <3> QED
      BY <1>8, <3>1 DEF InboxHas, InboxFrom
  <2> QED
    BY <1>5, <2>1, <2>2
<1>11. ListOf(shown, Len(shown), Inbox!ToSet(shown))
  BY <1>6, <1>8 DEF ListOf, InboxOnce, Inbox!ToSet
<1>12. ListOf(rest, size, InboxFrom(thread, j))
  <2>1. ASSUME NEW k \in 1..size PROVE j + k - 1 \in j..Len(thread) /\ rest[k] = thread[j + k - 1]
    BY <1>8, <1>9
  <2>2. ASSUME NEW k \in j..Len(thread) PROVE k - j + 1 \in 1..size /\ j + (k - j + 1) - 1 = k
    BY <1>8, <1>9
  <2>3. \A k \in j..Len(thread) : k - j + 1 \in 1..size /\ rest[k - j + 1] = thread[k]
    BY <2>1, <2>2
  <2>4. \A a, b \in 1..size : rest[a] = rest[b] => a = b
    <3> SUFFICES ASSUME NEW a \in 1..size, NEW b \in 1..size, rest[a] = rest[b] PROVE a = b
      OBVIOUS
    <3>1. thread[j + a - 1] = thread[j + b - 1] /\ j + a - 1 \in DOMAIN thread /\ j + b - 1 \in DOMAIN thread
      BY <1>8, <1>9, <2>1
    <3>2. j + a - 1 = j + b - 1
      BY <1>6, <3>1 DEF InboxOnce
    <3> QED
      BY <1>9, <3>2
  <2>5. DOMAIN rest = 1..size
    OBVIOUS
  <2>6. \A k \in 1..size : rest[k] \in InboxFrom(thread, j)
    BY <2>1 DEF InboxFrom
  <2>7. \A m \in InboxFrom(thread, j) : \E k \in 1..size : rest[k] = m
    BY <2>3 DEF InboxFrom
  <2> HIDE DEF rest
  <2> QED
    BY <2>4, <2>5, <2>6, <2>7 DEF ListOf
<1>13. Len(shown) = size
  <2> HIDE DEF rest, size
  <2>1. Cardinality(Inbox!ToSet(shown)) = Len(shown)
    BY <1>8, <1>11, ListSize
  <2>2. Cardinality(InboxFrom(thread, j)) = size
    BY <1>9, <1>12, ListSize
  <2> QED
    BY <1>10, <2>1, <2>2
<1>14. left = j - 1 /\ (left = 0 \/ (left > 0 /\ Len(shown) >= PageSize))
  BY <1>8, <1>9, <1>13
<1>15. left + 1 = j
  BY <1>9, <1>14
<1> QED
  BY <1>10, <1>14, <1>15 DEF InboxFrom

-----------------------------------------------------------------------------
(* The tab.                                                                  *)

\* The invariant of the component on screen.
Inv ==
    /\ screen \in Screens
    /\ screen = "card" => CardInv
    /\ screen = "comments" => CommentsInv /\ CommentsTyped
    /\ screen = "profile" => ProfileInv
    /\ screen = "edit" => Dialog!EditInv
    /\ screen = "search" => SearchInv
    /\ screen = "notes" => NotesInv
    /\ screen = "inbox" => InboxInv
    /\ screen = "stories" => StoriesInv
    /\ screen = "camera" => CameraInv
    /\ screen = "upload" => UploadInv
    /\ screen = "grid" => GridInv
    /\ screen = "realtime" => RealtimeInv

LEMMA InitInv == Init => Inv
<1> SUFFICES ASSUME Init PROVE Inv
  OBVIOUS
<1>1. screen = "edit" => Dialog!EditInv
  BY DialogGiven, DialogSame, Dialog!EditInitInv DEF Init
<1>2. /\ screen = "card" => CardInv
      /\ screen = "comments" => CommentsInv
      /\ screen = "profile" => ProfileInv
      /\ screen = "search" => SearchInv
      /\ screen = "stories" => StoriesInv
  BY CardInitInv, CommentsInitInv, ProfileInitInv, SearchInitInv, StoriesInitInv DEF Init
<1>3. /\ screen = "camera" => CameraInv
      /\ screen = "upload" => UploadInv
      /\ screen = "grid" => GridInv
      /\ screen = "realtime" => RealtimeInv
  BY CameraInitInv, UploadInitInv, GridInitInv, RealtimeInitInv DEF Init
<1>4. /\ screen = "notes" => NotesInv
      /\ screen = "inbox" => InboxInv
      /\ screen = "comments" => CommentsTyped
  BY NotesInitInv, InboxInitInv, CommentsInitTyped DEF Init
<1>5. screen \in Screens
  BY DEF Init, Screens
<1> QED
  BY <1>1, <1>2, <1>3, <1>4, <1>5 DEF Inv

\* The user stays at a component, and only it takes steps.
LEMMA StepIs ==
  ASSUME [Next]_<<screen, view>>
  PROVE  /\ screen' = screen
         /\ screen = "card" => [Card!Next]_view
         /\ screen = "comments" => [Comments!Next]_view
         /\ screen = "profile" => [Profile!Next]_view
         /\ screen = "edit" => [Edit!Next]_view
         /\ screen = "search" => [Search!Next]_view
         /\ screen = "notes" => [Notes!Next]_view
         /\ screen = "inbox" => [Inbox!Next]_view
         /\ screen = "stories" => [Stories!Next]_view
         /\ screen = "camera" => [Camera!Next]_view
         /\ screen = "upload" => [Upload!Next]_view
         /\ screen = "grid" => [Grid!Next]_view
         /\ screen = "realtime" => [Realtime!Next]_view
  BY DEF Next, On

LEMMA NextInv == Inv /\ [Next]_<<screen, view>> => Inv'
<1> SUFFICES ASSUME Inv, [Next]_<<screen, view>> PROVE Inv'
  OBVIOUS
<1>1. screen' = screen
  BY StepIs
<1>2. screen' = "card" => CardInv'
  BY <1>1, StepIs, CardNextInv DEF Inv
<1>3. screen' = "comments" => CommentsInv' /\ CommentsTyped'
  BY <1>1, StepIs, CommentsNextInv, CommentsNextTyped DEF Inv
<1>4. screen' = "profile" => ProfileInv'
  BY <1>1, StepIs, ProfileNextInv DEF Inv
<1>5. screen' = "edit" => Dialog!EditInv'
  <2> SUFFICES ASSUME screen = "edit" PROVE Dialog!EditInv'
    BY <1>1
  <2>1. Dialog!EditInv /\ [Dialog!Next]_view
    BY StepIs, DialogSame DEF Inv
  <2> QED
    BY <2>1, DialogGiven, Dialog!EditNextInv
<1>6. screen' = "search" => SearchInv'
  BY <1>1, StepIs, SearchNextInv DEF Inv
<1>7. screen' = "stories" => StoriesInv'
  BY <1>1, StepIs, StoriesNextInv DEF Inv
<1>8. screen' = "camera" => CameraInv'
  BY <1>1, StepIs, CameraNextInv DEF Inv
<1>9. screen' = "upload" => UploadInv'
  BY <1>1, StepIs, UploadNextFate DEF Inv
<1>10. screen' = "grid" => GridInv'
  BY <1>1, StepIs, GridNextInv DEF Inv
<1>11. screen' = "realtime" => RealtimeInv'
  BY <1>1, StepIs, RealtimeNextInv DEF Inv
<1>12. screen' = "notes" => NotesInv'
  BY <1>1, StepIs, NotesNextInv DEF Inv
<1>13. screen' = "inbox" => InboxInv'
  BY <1>1, StepIs, InboxNextInv DEF Inv
<1>14. screen' \in Screens
  BY <1>1 DEF Inv
<1> QED
  BY <1>2, <1>3, <1>4, <1>5, <1>6, <1>7, <1>8, <1>9, <1>10, <1>11, <1>12, <1>13, <1>14 DEF Inv

LEMMA Invariance == Spec => []Inv
  BY InitInv, NextInv, PTL DEF Spec
-----------------------------------------------------------------------------
\* However the reads and the toggles of a card are interleaved, a card at rest
\* shows what the services hold and can withdraw the repost it made, unless a
\* call failed or a button was pressed before the card had been read
\* (post-card.tsx:140-320).
THEOREM CardSettles == Spec => []SettledCardAgrees
<1>1. Inv => SettledCardAgrees
  BY CardInvAgrees DEF Inv, SettledCardAgrees
<1> QED
  BY <1>1, Invariance, PTL

\* Whatever follow and block calls overlap, the buttons of a profile page at rest
\* offer what user-svc would do, unless a call failed or a follow was written
\* over a block made after its check (profile-view.tsx:70-328). With no save on
\* its way the page shows the profile user-svc holds, unless the answer to the
\* last successful save was lost (edit-profile-dialog.tsx:121-156).
THEOREM PageAgrees == Spec => []ProfileAgrees
<1>1. Inv => ProfileAgrees
  BY ProfileInvAgrees, DialogInvAgrees DEF Inv, ProfileAgrees
<1> QED
  BY <1>1, Invariance, PTL

\* Whatever is picked, zoomed and dragged in whatever order pictures are
\* decoded, the crop square stays inside the picture (avatar-cropper.tsx:42-115).
THEOREM CropStaysCovered == Spec => []CropCovers
<1>1. Inv => CropCovers
  BY DialogInvCovers DEF Inv, CropCovers
<1> QED
  BY <1>1, Invariance, PTL

\* See SubmittedOnce: comments, stories and posts are made once however fast one
\* clicks, but for answers lost and flows left (post-card.tsx:245-267,
\* story-camera-dialog.tsx:141-163, upload/page.tsx:50-100).
THEOREM NothingMadeTwice == Spec => []SubmittedOnce
<1>1. Inv => SubmittedOnce
  BY CommentsInvOnce, CameraInvOnce, UploadInvOnce DEF Inv, SubmittedOnce
<1> QED
  BY <1>1, Invariance, PTL

\* See ResultsMatchQuery: the last query and its answer (use-search.ts:60-90),
\* and the counts of a grid but for reads that failed or raced and posts others
\* clicked (post-grid.tsx:23-69); DialogNamesAuthor fails.
THEOREM AnswersFitQuestions == Spec => []ResultsMatchQuery
<1>1. Inv => ResultsMatchQuery
  BY SearchInvMatches, GridInvAgrees DEF Inv, ResultsMatchQuery
<1> QED
  BY <1>1, Invariance, PTL

\* Whatever order pictures arrive in, the picture on screen is that of the story
\* shown; and an open viewer has a story to show, unless the bar was loaded again
\* under it (story-viewer.tsx:54-131).
THEOREM ViewerStaysInside == Spec => []ViewerShowsStory
<1>1. Inv => ViewerShowsStory
  BY StoriesInvShows DEF Inv, ViewerShowsStory
<1> QED
  BY <1>1, Invariance, PTL

\* However often the socket drops and cards come and go, once realtime-svc has
\* handled the frames of the open socket it sends the page exactly the posts that
\* have a card on screen (realtime.ts:44-125).
THEOREM WatchedWhenOpen == Spec => []SubscribedWhenOpen
<1>1. Inv => SubscribedWhenOpen
  BY RealtimeInvWatches DEF Inv, SubscribedWhenOpen
<1> QED
  BY <1>1, Invariance, PTL

\* See UnreadCountsItems: for every NoteLimit, a list at rest is the newest part
\* of the user's notifications, and its counter counts what is unread, left out
\* or not (use-realtime.ts, realtime/views.py:21-22).
THEOREM NotificationsCounted == Spec => []UnreadCountsItems
<1>1. Inv => UnreadCountsItems
  BY NotesInvCounts DEF Inv, UnreadCountsItems
<1> QED
  BY <1>1, Invariance, PTL

\* See ThreadAgrees: for every PageSize, a thread at rest is a page at least of
\* the newest messages, each once (messages/page.tsx:83-176, messaging/views.py:34).
THEOREM ThreadsComplete == Spec => []ThreadAgrees
<1>1. Inv => ThreadAgrees
  BY InboxInvAgrees DEF Inv, ThreadAgrees
<1> QED
  BY <1>1, Invariance, PTL

\* Every component keeps to its types whatever is clicked and however calls end:
\* no list takes in what is not its own, no count falls below zero, and no
\* number of a comment, a message or a notification passes the bound.
THEOREM TypeCorrect == Spec => []TypeOK
<1>1. ASSUME Inv
      PROVE  /\ screen \in Screens
             /\ screen = "card" => Card!TypeOK
             /\ screen = "comments" => Comments!TypeOK
             /\ screen = "profile" => Profile!TypeOK
             /\ screen = "edit" => Edit!TypeOK
             /\ screen = "search" => Search!TypeOK
             /\ screen = "notes" => Notes!TypeOK
             /\ screen = "inbox" => Inbox!TypeOK
             /\ screen = "stories" => Stories!TypeOK
             /\ screen = "camera" => Camera!TypeOK
             /\ screen = "upload" => Upload!TypeOK
             /\ screen = "grid" => Grid!TypeOK
             /\ screen = "realtime" => Realtime!TypeOK
  BY <1>1, CardInvTyped, CommentsInvTyped, ProfileInvTyped, DialogInvTyped, SearchInvTyped,
     NotesInvTyped, InboxInvTyped, StoriesInvTyped, CameraInvTyped, GridInvTyped,
     RealtimeInvTyped DEF Inv, UploadInv
<1>2. Inv => TypeOK
  BY <1>1 DEF TypeOK, Screens
<1> QED
  BY <1>2, Invariance, PTL
=============================================================================
