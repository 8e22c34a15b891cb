------------------------- MODULE HomeTimelineProofs -------------------------
(***************************************************************************)
(* Proofs about HomeTimeline, for every set of users and posts, every       *)
(* threshold and every order of delivery.  The graph cache is consistent    *)
(* because a handler that died half way left its event unhandled: the       *)
(* inductive invariant says how far the edge and the celebrity mark of the  *)
(* event in hand have got at each step; for the feeds, what the posts and   *)
(* edges that no exception names have come to.                              *)
(***************************************************************************)
EXTENDS HomeTimeline, FiniteSetTheorems, TLAPS

(* Types.                                                                   *)

\* The typed log: a post event is about a post, an edge event about a user.
LEMMA EventTyped ==
    ASSUME log \in Seq(Events), NEW i \in DOMAIN log
    PROVE  /\ log[i] \in Events
           /\ log[i].user \in Users
           /\ log[i].type \in EdgeEvents => log[i].about \in Users
           /\ log[i].type \in PostEvents => log[i].about \in Posts
           /\ i \in Nat
  <1>1. log[i] \in Events
    OBVIOUS
  <1> QED
    BY <1>1 DEF Events, EdgeEvents, PostEvents

LEMMA TrimTyped ==
    ASSUME NEW t \in Scores PROVE Trim(t) \in Scores
  BY DEF Trim, Scores

LEMMA FanOutTyped ==
    ASSUME home \in [Users -> Scores], NEW targets, NEW p, NEW ts \in Nat
    PROVE  FanOut(targets, p, ts) \in [Users -> Scores]
  <1>1. \A u \in Users : [home[u] EXCEPT ![p] = ts] \in Scores
    BY DEF Scores
  <1>2. \A u \in Users : Trim([home[u] EXCEPT ![p] = ts]) \in Scores
    BY <1>1, TrimTyped
  <1> QED
    BY <1>2 DEF FanOut

LEMMA UpdateTyped ==
    ASSUME NEW t \in [Users -> Scores], NEW u \in Users, NEW p, NEW n \in Nat
    PROVE  [t EXCEPT ![u][p] = n] \in [Users -> Scores]
  <1>1. [t[u] EXCEPT ![p] = n] \in Scores
    BY DEF Scores
  <1> QED
    BY <1>1

LEMMA RemoveFromTyped ==
    ASSUME home \in [Users -> Scores], NEW targets, NEW posts
    PROVE  RemoveFrom(targets, posts) \in [Users -> Scores]
  BY DEF RemoveFrom, Scores

LEMMA BackFilledTyped ==
    ASSUME home \in [Users -> Scores], userTimeline \in [Users -> Scores],
           NEW u \in Users, NEW author \in Users
    PROVE  BackFilled(u, author) \in [Users -> Scores]
  <1> DEFINE merged == [p \in Posts |-> IF p \in RecentPosts(author)
                                        THEN userTimeline[author][p]
                                        ELSE home[u][p]]
  <1>1. merged \in Scores
    BY DEF Scores
  <1>2. Trim(merged) \in Scores
    BY <1>1, TrimTyped
  <1>3. BackFilled(u, author) = [home EXCEPT ![u] = Trim(merged)]
    BY DEF BackFilled
  <1> HIDE DEF merged
  <1> QED
    BY <1>2, <1>3

\* An emitted event extends the log and disturbs nothing else of the model.
LEMMA EmitTyped ==
    ASSUME TypeOK, NEW type, NEW user, NEW about, Emit(type, user, about),
           [type |-> type, user |-> user, about |-> about] \in Events
    PROVE  /\ log' \in Seq(Events)
           /\ DOMAIN log' = DOMAIN log \union {Len(log) + 1}
           /\ handled' \in [Groups -> SUBSET (DOMAIN log')]
           /\ \A i \in DOMAIN log : log'[i] = log[i]
           /\ Len(log) + 1 \notin DOMAIN log
           /\ log'[Len(log) + 1].type = type
  <1>1. log' = Append(log, [type |-> type, user |-> user, about |-> about])
    BY DEF Emit
  <1>2. /\ log' \in Seq(Events)
        /\ DOMAIN log' = DOMAIN log \union {Len(log) + 1}
        /\ \A i \in DOMAIN log : log'[i] = log[i]
        /\ Len(log) + 1 \notin DOMAIN log
        /\ log'[Len(log) + 1].type = type
    BY <1>1 DEF TypeOK
  <1>3. handled' \in [Groups -> SUBSET (DOMAIN log')]
    BY <1>2 DEF Emit, TypeOK, Groups
  <1> QED
    BY <1>2, <1>3

LEMMA InitTyped == Init => TypeOK
  BY HomeAssumption DEF Init, TypeOK, Scores, Groups, Steps

\* What the event in hand is about.
LEMMA InHandTyped ==
    ASSUME TypeOK, msg # 0
    PROVE  /\ msg \in DOMAIN log
           /\ msg \in Nat
           /\ User \in Users
           /\ log[msg].type \in EdgeEvents => About \in Users
           /\ log[msg].type \in PostEvents => About \in Posts
  BY EventTyped DEF TypeOK, User, About

\* A user action keeps the types: the event it emits is well formed.
LEMMA ActTyped ==
    ASSUME TypeOK, NEW type, NEW user, NEW about, Emit(type, user, about),
           [type |-> type, user |-> user, about |-> about] \in Events,
           live' \subseteq Posts, follows' \subseteq Users \X Users,
           reposts' \subseteq reposts
               \union (IF type = "post.reposted" THEN {Len(log) + 1} ELSE {})
    PROVE  TypeOK'
<1>1. /\ live' \subseteq Posts /\ follows' \subseteq Users \X Users
      /\ log' \in Seq(Events)
      /\ handled' \in [Groups -> SUBSET (DOMAIN log')]
      /\ DOMAIN log \subseteq DOMAIN log'
  BY EmitTyped
<1>2. reposts' \subseteq {i \in DOMAIN log' : log'[i].type = "post.reposted"}
  BY EmitTyped DEF TypeOK
<1>3. lost' \subseteq Subjects
  BY DEF TypeOK, Emit
<1> QED
  BY <1>1, <1>2, <1>3 DEF TypeOK, Emit, graph, worker

\* So does one whose event is lost.
LEMMA LoseTyped ==
    ASSUME TypeOK, NEW type, NEW user, NEW about, Lose(type, user, about),
           <<user, about>> \in Subjects, reposts' = reposts,
           live' \subseteq Posts, follows' \subseteq Users \X Users
    PROVE  TypeOK'
<1>1. lost' \subseteq Subjects /\ faults' \in Nat
  BY DEF TypeOK, Lose, Fault
<1>2. UNCHANGED <<log, reposts, handled, parked, followers, following, celebrities,
                  home, userTimeline, msg, step, crossed, begun, misread, demoted>>
  BY DEF Lose, graph, worker
<1> QED
  BY <1>1, <1>2 DEF TypeOK

LEMMA TakesTyped ==
    ASSUME TypeOK, NEW g, NEW i \in DOMAIN log, Takes(g, i)
    PROVE  crossed' \in [Groups -> SUBSET Subjects] /\ begun' \subseteq DOMAIN log
<1>1. Subject(i) \in Subjects
  <2>1. log[i].user \in Users /\ log[i].about \in Users \union Posts
    BY EventTyped DEF TypeOK, Events
  <2> QED
    BY <2>1 DEF Subject, Subjects
<1>2. crossed' \in [Groups -> SUBSET Subjects]
  BY <1>1 DEF TypeOK, Takes
<1>3. begun' \subseteq DOMAIN log
  BY DEF TypeOK, Takes
<1> QED
  BY <1>2, <1>3

LEMMA NextTyped == TypeOK /\ [Next]_vars => TypeOK'
<1> SUFFICES ASSUME TypeOK, [Next]_vars PROVE TypeOK'
  OBVIOUS
<1> USE HomeAssumption
<1>1. ASSUME NEW p \in Posts, CreatePost(p)
      PROVE  TypeOK'
  <2>1. [type |-> "post.created", user |-> Author[p], about |-> p] \in Events
    BY DEF Events, PostEvents
  <2>2. <<Author[p], p>> \in Subjects
    BY DEF Subjects
  <2>3. live' \subseteq Posts /\ follows' \subseteq Users \X Users /\ reposts' = reposts
    BY <1>1 DEF CreatePost, TypeOK
  <2> QED
    BY <1>1, <2>1, <2>2, <2>3, ActTyped, LoseTyped DEF CreatePost, Publish
<1>2. ASSUME NEW p \in Posts, DeletePost(p)
      PROVE  TypeOK'
  <2>1. [type |-> "post.deleted", user |-> Author[p], about |-> p] \in Events
    BY DEF Events, PostEvents
  <2>2. <<Author[p], p>> \in Subjects
    BY DEF Subjects
  <2>3. live' \subseteq Posts /\ follows' \subseteq Users \X Users /\ reposts' = reposts
    BY <1>2 DEF DeletePost, TypeOK
  <2> QED
    BY <1>2, <2>1, <2>2, <2>3, ActTyped, LoseTyped DEF DeletePost, Publish
<1>3. ASSUME NEW u \in Users, NEW p \in Posts, Repost(u, p)
      PROVE  TypeOK'
  <2>1. [type |-> "post.reposted", user |-> u, about |-> p] \in Events
    BY DEF Events, PostEvents
  <2> QED
    BY <1>3, <2>1, ActTyped DEF Repost, TypeOK
<1>4. ASSUME NEW i \in reposts, Unrepost(i)
      PROVE  TypeOK'
  <2>1. [type |-> "post.unreposted", user |-> log[i].user,
         about |-> log[i].about] \in Events
    BY EventTyped DEF Events, PostEvents, TypeOK
  <2> QED
    BY <1>4, <2>1, ActTyped DEF Unrepost, TypeOK
<1>5. ASSUME NEW e \in MayFollow, Follow(e[1], e[2])
      PROVE  TypeOK'
  <2>1. [type |-> "user.followed", user |-> e[1], about |-> e[2]] \in Events
    BY DEF Events, EdgeEvents
  <2>2. <<e[1], e[2]>> \in Subjects
    BY DEF Subjects
  <2>3. live' \subseteq Posts /\ follows' \subseteq Users \X Users /\ reposts' = reposts
    BY <1>5 DEF Follow, TypeOK
  <2> QED
    BY <1>5, <2>1, <2>2, <2>3, ActTyped, LoseTyped DEF Follow, Publish
<1>6. ASSUME NEW e \in MayFollow, Unfollow(e[1], e[2])
      PROVE  TypeOK'
  <2>1. [type |-> "user.unfollowed", user |-> e[1], about |-> e[2]] \in Events
    BY DEF Events, EdgeEvents
  <2>2. <<e[1], e[2]>> \in Subjects
    BY DEF Subjects
  <2>3. live' \subseteq Posts /\ follows' \subseteq Users \X Users /\ reposts' = reposts
    BY <1>6 DEF Unfollow, TypeOK
  <2> QED
    BY <1>6, <2>1, <2>2, <2>3, ActTyped, LoseTyped DEF Unfollow, Publish
<1>7. ASSUME NEW i \in DOMAIN log, HandleUserTimeline(i)
      PROVE  TypeOK'
  <2>1. log[i].user \in Users /\ i \in Nat
    BY EventTyped DEF TypeOK
  <2>2. userTimeline' \in [Users -> Scores]
    <3>1. userTimeline \in [Users -> Scores]
      BY DEF TypeOK
    <3> DEFINE n == IF log[i].type \in {"post.created", "post.reposted"}
                    THEN i ELSE 0
    <3>2. \/ userTimeline' = [userTimeline EXCEPT ![log[i].user][log[i].about] = n]
          \/ userTimeline' = userTimeline
      BY <1>7 DEF HandleUserTimeline
    <3>3. n \in Nat
      BY <2>1
    <3> HIDE DEF n
    <3>4. [userTimeline EXCEPT ![log[i].user][log[i].about] = n] \in [Users -> Scores]
      BY <2>1, <3>1, <3>3, UpdateTyped
    <3> QED
      BY <3>1, <3>2, <3>4
  <2>3. /\ \/ handled' = [handled EXCEPT !["usertimeline"] = @ \union {i}]
           \/ handled' = handled
        /\ faults' = faults \/ faults' = faults + 1
        /\ parked' \subseteq parked \union {i}
    BY <1>7 DEF HandleUserTimeline, Fault
  <2>4. handled' \in [Groups -> SUBSET (DOMAIN log)] /\ faults' \in Nat
    <3>1. handled \in [Groups -> SUBSET (DOMAIN log)] /\ faults \in Nat
      BY DEF TypeOK
    <3>2. handled' \in [Groups -> SUBSET (DOMAIN log)]
      BY <2>3, <3>1 DEF Groups
    <3> QED
      BY <2>3, <3>1, <3>2
  <2>5. parked' \subseteq DOMAIN log
    BY <2>3 DEF TypeOK
  <2>6. crossed' \in [Groups -> SUBSET Subjects] /\ begun' \subseteq DOMAIN log
    BY <1>7, TakesTyped DEF HandleUserTimeline
  <2>7. UNCHANGED <<live, follows, reposts, log, followers, following, celebrities,
                    home, msg, step, lost, misread, demoted>>
    BY <1>7 DEF HandleUserTimeline, Takes, truth, graph, worker
  <2> QED
    BY <2>2, <2>4, <2>5, <2>6, <2>7 DEF TypeOK
<1>8. ASSUME NEW i \in DOMAIN log, Take(i)
      PROVE  TypeOK'
  <2>1. crossed' \in [Groups -> SUBSET Subjects] /\ begun' \subseteq DOMAIN log
    BY <1>8, TakesTyped DEF Take
  <2>2. i # 0
    BY DEF TypeOK
  <2> QED
    BY <1>8, <2>1, <2>2 DEF Take, Takes, TypeOK, truth, graph, Steps
<1>9. ASSUME PushPost
      PROVE  TypeOK'
  <2>1. home' \in [Users -> Scores]
    BY <1>9, InHandTyped, FanOutTyped
    DEF PushPost, TypeOK, At, EdgeEvents, PostEvents
  <2> QED
    BY <1>9, <2>1
    DEF PushPost, TypeOK, At, OnHome, truth, graph, Steps, Fault
<1>10. ASSUME MarkAuthor
      PROVE  TypeOK'
  BY <1>10, InHandTyped
  DEF MarkAuthor, TypeOK, At, OnGraph, EdgeEvents, truth, Steps
<1>11. ASSUME PushToAuthor
      PROVE  TypeOK'
  <2>1. home' \in [Users -> Scores]
    BY <1>11, InHandTyped, FanOutTyped
    DEF PushToAuthor, TypeOK, At, EdgeEvents, PostEvents
  <2> QED
    BY <1>11, <2>1
    DEF PushToAuthor, TypeOK, At, OnHome, truth, graph, Steps, Fault
<1>12. ASSUME RemovePost
      PROVE  TypeOK'
  <2>1. home' \in [Users -> Scores]
    BY <1>12, InHandTyped, RemoveFromTyped
    DEF RemovePost, TypeOK, At, EdgeEvents, PostEvents
  <2>2. misread' \subseteq Users \X Users
    BY <1>12, InHandTyped DEF RemovePost, At, TypeOK, Leaving
  <2> QED
    BY <1>12, <2>1, <2>2
    DEF RemovePost, TypeOK, At, OnHome, truth, graph, Steps, Fault
<1>13. ASSUME PushRepost
      PROVE  TypeOK'
  <2>1. home' \in [Users -> Scores]
    BY <1>13, InHandTyped, FanOutTyped
    DEF PushRepost, TypeOK, At, EdgeEvents, PostEvents
  <2> QED
    BY <1>13, <2>1
    DEF PushRepost, TypeOK, At, OnHome, truth, graph, Steps, Fault
<1>14. ASSUME AddFollower
      PROVE  TypeOK'
  BY <1>14, InHandTyped
  DEF AddFollower, TypeOK, At, OnGraph, EdgeEvents, truth, Steps
<1>15. ASSUME AddFollowing
      PROVE  TypeOK'
  BY <1>15, InHandTyped
  DEF AddFollowing, TypeOK, At, OnGraph, EdgeEvents, truth, Steps
<1>16. ASSUME Promote
      PROVE  TypeOK'
  BY <1>16, InHandTyped
  DEF Promote, TypeOK, At, OnGraph, EdgeEvents, truth, Steps
<1>17. ASSUME BackFill
      PROVE  TypeOK'
  <2>1. home' \in [Users -> Scores]
    BY <1>17, InHandTyped, BackFilledTyped
    DEF BackFill, TypeOK, At, EdgeEvents, PostEvents
  <2>2. misread' \subseteq Users \X Users
    BY <1>17, InHandTyped DEF BackFill, At, TypeOK, Reading, Misread, EdgeEvents
  <2> QED
    BY <1>17, <2>1, <2>2
    DEF BackFill, TypeOK, At, OnHome, truth, graph, Steps, Fault
<1>18. ASSUME RemoveFollower
      PROVE  TypeOK'
  BY <1>18, InHandTyped
  DEF RemoveFollower, TypeOK, At, OnGraph, EdgeEvents, truth, Steps
<1>19. ASSUME RemoveFollowing
      PROVE  TypeOK'
  BY <1>19, InHandTyped
  DEF RemoveFollowing, TypeOK, At, OnGraph, EdgeEvents, truth, Steps
<1>20. ASSUME DemoteIfBelow
      PROVE  TypeOK'
  BY <1>20, InHandTyped
  DEF DemoteIfBelow, TypeOK, At, OnGraph, EdgeEvents, truth, Steps
<1>21. ASSUME Purge
      PROVE  TypeOK'
  <2>1. home' \in [Users -> Scores]
    BY <1>21, InHandTyped, RemoveFromTyped
    DEF Purge, TypeOK, At, EdgeEvents, PostEvents
  <2>2. misread' \subseteq Users \X Users
    BY <1>21, InHandTyped DEF Purge, At, TypeOK, Reading, Misread, EdgeEvents
  <2> QED
    BY <1>21, <2>1, <2>2
    DEF Purge, TypeOK, At, OnHome, truth, graph, Steps, Fault
<1>22. ASSUME Mark
      PROVE  TypeOK'
  BY <1>22 DEF Mark, TypeOK, truth, graph, history, Steps, Fault, Groups
<1>23. ASSUME Crash
      PROVE  TypeOK'
  BY <1>23 DEF Crash, TypeOK, truth, graph, history, Steps, Fault
<1>24. CASE UNCHANGED vars
  BY <1>24 DEF vars, TypeOK
<1> QED
  BY <1>1, <1>2, <1>3, <1>4, <1>5, <1>6, <1>7, <1>8, <1>9, <1>10, <1>11,
     <1>12, <1>13, <1>14, <1>15, <1>16, <1>17, <1>18, <1>19, <1>20, <1>21,
     <1>22, <1>23, <1>24
  DEF Next, UserActs, UserTimelineWorker, HomeWorker, HomeHandler, TypeOK


\* Type correctness: every projection keeps its shape, and the worker has an
\* event in hand exactly when it is not idle (consume.py handlers, store.py).
THEOREM TypeCorrect == Spec => []TypeOK
  BY InitTyped, NextTyped, PTL DEF Spec

-----------------------------------------------------------------------------
(* The graph cache.                                                         *)

\* How far the follow or unfollow in hand has got with its edge.
EdgeProgress ==
    msg # 0 =>
        /\ msg \notin handled["home"]
        /\ log[msg].type = "user.followed" =>
              /\ step \in {"first", "second", "done"} => User \in followers[About]
              /\ step \in {"second", "done"} => About \in following[User]
        /\ log[msg].type = "user.unfollowed" =>
              /\ step \in {"first", "second", "third", "done"} =>
                    User \notin followers[About]
              /\ step \in {"second", "third", "done"} => About \notin following[User]

\* How far it has got with the celebrity mark.
CelebrityProgress ==
    msg # 0 =>
        /\ msg \notin handled["home"]
        /\ log[msg].type = "user.followed" /\ step = "done" =>
              (IsCelebrity(About) => About \in celebrities)
        /\ log[msg].type = "user.unfollowed" /\ step \in {"third", "done"} =>
              (About \in celebrities => IsCelebrity(About))

EdgeInv == EdgeProgress /\ EdgesAgree
CelebrityInv == CelebrityProgress /\ CelebritiesAgree

\* An author with a follower more is a celebrity if it was one before.
LEMMA MoreFollowers ==
    ASSUME NEW S \in SUBSET Users, NEW T \in SUBSET Users, S \subseteq T,
           Cardinality(S) >= Threshold
    PROVE  Cardinality(T) >= Threshold
  <1>1. IsFiniteSet(T)
    BY HomeAssumption, FS_Subset
  <1>2. IsFiniteSet(S) /\ Cardinality(S) <= Cardinality(T)
    BY <1>1, FS_Subset
  <1>3. Cardinality(S) \in Nat /\ Cardinality(T) \in Nat
    BY <1>1, <1>2, FS_CardinalityType
  <1> QED
    BY <1>2, <1>3, HomeAssumption

\* User actions only add to what is owed.
LEMMA ActOwes ==
    ASSUME TypeOK, UserActs
    PROVE  /\ \A i \in DOMAIN log : i \in DOMAIN log' /\ log'[i] = log[i]
           /\ handled'["home"] = handled["home"]
           /\ \A i \in Open : i \in Open' /\ log'[i] = log[i]
           /\ UNCHANGED <<followers, following, celebrities, msg, step>>
  <1>1. ASSUME NEW type, NEW user, NEW about, Emit(type, user, about)
        PROVE  /\ \A i \in DOMAIN log : i \in DOMAIN log' /\ log'[i] = log[i]
               /\ handled'["home"] = handled["home"]
               /\ UNCHANGED <<parked, followers, following, celebrities, msg,
                              step>>
    BY <1>1 DEF Emit, TypeOK, Groups, graph, worker
  <1>0. ASSUME NEW type, NEW user, NEW about, Lose(type, user, about)
        PROVE  /\ \A i \in DOMAIN log : i \in DOMAIN log' /\ log'[i] = log[i]
               /\ handled'["home"] = handled["home"]
               /\ UNCHANGED <<parked, followers, following, celebrities, msg,
                              step>>
    BY <1>0 DEF Lose, graph, worker
  <1>2. /\ \A i \in DOMAIN log : i \in DOMAIN log' /\ log'[i] = log[i]
        /\ handled'["home"] = handled["home"]
        /\ UNCHANGED <<parked, followers, following, celebrities, msg, step>>
    BY <1>0, <1>1
    DEF UserActs, Publish, CreatePost, DeletePost, Repost, Unrepost, Follow, Unfollow
  <1>3. parked \subseteq DOMAIN log
    BY DEF TypeOK
  <1> QED
    BY <1>2, <1>3 DEF Open

LEMMA EdgeStep ==
    ASSUME TypeOK, TypeOK', EdgeInv, [Next]_vars
    PROVE  EdgeInv'
<1> USE DEF EdgeInv, EdgeProgress, EdgesAgree, OwedEdge, Open, User, About
<1>1. ASSUME UserActs
      PROVE  EdgeInv'
  <2>1. EdgeProgress'
    BY <1>1, ActOwes DEF TypeOK
  <2>2. \A u, v \in Users : OwedEdge(u, v) => OwedEdge(u, v)'
    <3> HIDE DEF Open
    <3> QED
      BY <1>1, ActOwes
  <2>3. EdgesAgree'
    BY <1>1, <2>2, ActOwes
  <2> QED
    BY <2>1, <2>3
<1>2. ASSUME NEW i \in DOMAIN log, HandleUserTimeline(i)
      PROVE  EdgeInv'
  BY <1>2, InHandTyped
  DEF TypeOK, Groups, HandleUserTimeline, truth, worker, graph
<1>3. ASSUME NEW i \in DOMAIN log, Take(i)
      PROVE  EdgeInv'
  BY <1>3, InHandTyped DEF TypeOK, Groups, Take, Ready, truth, graph
<1>4. ASSUME PushPost
      PROVE  EdgeInv'
  BY <1>4, InHandTyped
  DEF TypeOK, Groups, PushPost, At, OnHome, OnGraph, truth, graph
<1>5. ASSUME MarkAuthor
      PROVE  EdgeInv'
  BY <1>5, InHandTyped
  DEF TypeOK, Groups, MarkAuthor, At, OnHome, OnGraph, truth, graph
<1>6. ASSUME PushToAuthor
      PROVE  EdgeInv'
  BY <1>6, InHandTyped
  DEF TypeOK, Groups, PushToAuthor, At, OnHome, OnGraph, truth, graph
<1>7. ASSUME RemovePost
      PROVE  EdgeInv'
  BY <1>7, InHandTyped
  DEF TypeOK, Groups, RemovePost, At, OnHome, OnGraph, truth, graph
<1>8. ASSUME PushRepost
      PROVE  EdgeInv'
  BY <1>8, InHandTyped
  DEF TypeOK, Groups, PushRepost, At, OnHome, OnGraph, truth, graph
<1>9. ASSUME AddFollower
      PROVE  EdgeInv'
  <2>1. /\ UNCHANGED <<log, handled, parked, msg, following>>
        /\ msg \in DOMAIN log /\ log[msg].type = "user.followed" /\ step' = "first"
        /\ User \in Users /\ About \in Users
        /\ followers' = [followers EXCEPT ![About] = @ \union {User}]
    BY <1>9, InHandTyped DEF AddFollower, At, OnGraph, EdgeEvents
  <2>2. EdgeProgress'
    BY <1>9, <2>1 DEF TypeOK, AddFollower, At
  <2>3. msg \in Open /\ OwedEdge(User, About)
    BY <1>9, <2>1 DEF AddFollower, At, EdgeEvents
  <2>4. ASSUME NEW u \in Users, NEW v \in Users,
               u \in followers'[v], u \notin followers[v]
        PROVE  u = User /\ v = About
    BY <2>1, <2>4 DEF TypeOK
  <2>5. \A u, v \in Users : u \in followers[v] => u \in followers'[v]
    BY <2>1 DEF TypeOK
  <2>6. \A u, v \in Users : OwedEdge(u, v)' <=> OwedEdge(u, v)
    BY <2>1
  <2>7. EdgesAgree'
    <3> HIDE DEF OwedEdge, Open, User, About
    <3> QED
      BY <2>1, <2>3, <2>4, <2>5, <2>6
  <2> QED
    BY <2>2, <2>7
<1>10. ASSUME AddFollowing
      PROVE  EdgeInv'
  BY <1>10, InHandTyped DEF TypeOK, AddFollowing, At, OnGraph, EdgeEvents
<1>11. ASSUME Promote
      PROVE  EdgeInv'
  BY <1>11, InHandTyped
  DEF TypeOK, Groups, Promote, At, OnHome, OnGraph, truth, graph
<1>12. ASSUME BackFill
      PROVE  EdgeInv'
  BY <1>12, InHandTyped
  DEF TypeOK, Groups, BackFill, At, OnHome, OnGraph, truth, graph
<1>13. ASSUME RemoveFollower
      PROVE  EdgeInv'
  BY <1>13, InHandTyped DEF TypeOK, RemoveFollower, At, OnGraph, EdgeEvents
<1>14. ASSUME RemoveFollowing
      PROVE  EdgeInv'
  BY <1>14, InHandTyped DEF TypeOK, RemoveFollowing, At, OnGraph, EdgeEvents
<1>15. ASSUME DemoteIfBelow
      PROVE  EdgeInv'
  BY <1>15, InHandTyped
  DEF TypeOK, Groups, DemoteIfBelow, At, OnHome, OnGraph, truth, graph
<1>16. ASSUME Purge
      PROVE  EdgeInv'
  BY <1>16, InHandTyped
  DEF TypeOK, Groups, Purge, At, OnHome, OnGraph, truth, graph
<1>17. ASSUME Mark
      PROVE  EdgeInv'
  <2>1. msg # 0 /\ msg' = 0 /\ UNCHANGED <<log, graph>>
    BY <1>17 DEF Mark, TypeOK
  <2>2. handled'["home"] = handled["home"] \union {msg}
    BY <1>17 DEF Mark, TypeOK, Groups
  <2>3. /\ parked \subseteq parked'
        /\ step = "done" \/ msg \in parked'
    BY <1>17 DEF Mark
  <2>4. ASSUME NEW u \in Users, NEW v \in Users,
               (u \in followers[v]) # (v \in following[u])
        PROVE  OwedEdge(u, v)'
    <3>1. PICK i \in Open :
              log[i].type \in EdgeEvents /\ log[i].user = u /\ log[i].about = v
      BY <2>4
    <3>2. i # msg \/ msg \in parked'
      BY <2>1, <2>3, <2>4, <3>1 DEF EdgeEvents
    <3> QED
      BY <2>1, <2>2, <2>3, <3>1, <3>2
  <2> QED
    BY <2>1, <2>4 DEF graph
<1>18. ASSUME Crash
      PROVE  EdgeInv'
  BY <1>18, InHandTyped DEF TypeOK, Groups, Crash, truth, graph
<1>19. CASE UNCHANGED vars
  BY <1>19, InHandTyped DEF TypeOK, Groups, vars
<1> QED
  BY <1>1, <1>2, <1>3, <1>4, <1>5, <1>6, <1>7, <1>8, <1>9, <1>10, <1>11,
     <1>12, <1>13, <1>14, <1>15, <1>16, <1>17, <1>18, <1>19
  DEF Next, UserTimelineWorker, HomeWorker, HomeHandler

LEMMA CelebrityStep ==
    ASSUME TypeOK, TypeOK', CelebrityInv, [Next]_vars
    PROVE  CelebrityInv'
<1> USE DEF CelebrityInv, CelebrityProgress, CelebritiesAgree, Owed, Open, User,
        About
<1>1. ASSUME UserActs
      PROVE  CelebrityInv'
  <2>1. CelebrityProgress'
    BY <1>1, ActOwes DEF TypeOK, IsCelebrity
  <2>2. \A type, a : Owed(type, a) => Owed(type, a)'
    <3> HIDE DEF Open
    <3> QED
      BY <1>1, ActOwes
  <2>3. CelebritiesAgree'
    <3> HIDE DEF Owed, Open
    <3> QED
      BY <1>1, <2>2, ActOwes DEF IsCelebrity
  <2> QED
    BY <2>1, <2>3
<1>2. ASSUME NEW i \in DOMAIN log, HandleUserTimeline(i)
      PROVE  CelebrityInv'
  BY <1>2, InHandTyped
  DEF TypeOK, Groups, IsCelebrity, HandleUserTimeline, truth, worker, graph
<1>3. ASSUME NEW i \in DOMAIN log, Take(i)
      PROVE  CelebrityInv'
  BY <1>3, InHandTyped
  DEF TypeOK, Groups, IsCelebrity, Take, Ready, truth, graph
<1>4. ASSUME PushPost
      PROVE  CelebrityInv'
  BY <1>4, InHandTyped
  DEF TypeOK, Groups, IsCelebrity, PushPost, At, OnHome, OnGraph, truth, graph
<1>5. ASSUME MarkAuthor
      PROVE  CelebrityInv'
  BY <1>5, InHandTyped
  DEF TypeOK, Groups, IsCelebrity, MarkAuthor, At, OnHome, OnGraph, truth,
      graph
<1>6. ASSUME PushToAuthor
      PROVE  CelebrityInv'
  BY <1>6, InHandTyped
  DEF TypeOK, Groups, IsCelebrity, PushToAuthor, At, OnHome, OnGraph, truth,
      graph
<1>7. ASSUME RemovePost
      PROVE  CelebrityInv'
  BY <1>7, InHandTyped
  DEF TypeOK, Groups, IsCelebrity, RemovePost, At, OnHome, OnGraph, truth,
      graph
<1>8. ASSUME PushRepost
      PROVE  CelebrityInv'
  BY <1>8, InHandTyped
  DEF TypeOK, Groups, IsCelebrity, PushRepost, At, OnHome, OnGraph, truth,
      graph
<1>9. ASSUME AddFollower
      PROVE  CelebrityInv'
  <2>1. \A v \in Users : IsCelebrity(v) => IsCelebrity(v)'
    BY <1>9, InHandTyped, MoreFollowers
    DEF AddFollower, At, TypeOK, IsCelebrity, EdgeEvents
  <2>2. \A v \in Users : v # About => (IsCelebrity(v)' <=> IsCelebrity(v))
    BY <1>9 DEF AddFollower, TypeOK, IsCelebrity
  <2> QED
    BY <1>9, <2>1, <2>2, InHandTyped
    DEF AddFollower, At, OnGraph, TypeOK, EdgeEvents
<1>10. ASSUME AddFollowing
      PROVE  CelebrityInv'
  BY <1>10, InHandTyped
  DEF TypeOK, Groups, IsCelebrity, AddFollowing, At, OnHome, OnGraph, truth,
      graph
<1>11. ASSUME Promote
      PROVE  CelebrityInv'
  BY <1>11, InHandTyped
  DEF TypeOK, Groups, IsCelebrity, Promote, At, OnHome, OnGraph, truth, graph
<1>12. ASSUME BackFill
      PROVE  CelebrityInv'
  BY <1>12, InHandTyped
  DEF TypeOK, Groups, IsCelebrity, BackFill, At, OnHome, OnGraph, truth, graph
<1>13. ASSUME RemoveFollower
      PROVE  CelebrityInv'
  <2>1. \A v \in Users : IsCelebrity(v)' => IsCelebrity(v)
    BY <1>13, InHandTyped, MoreFollowers
    DEF RemoveFollower, At, TypeOK, IsCelebrity, EdgeEvents
  <2>2. \A v \in Users : v # About => (IsCelebrity(v)' <=> IsCelebrity(v))
    BY <1>13 DEF RemoveFollower, TypeOK, IsCelebrity
  <2> QED
    BY <1>13, <2>1, <2>2, InHandTyped
    DEF RemoveFollower, At, OnGraph, TypeOK, EdgeEvents
<1>14. ASSUME RemoveFollowing
      PROVE  CelebrityInv'
  BY <1>14, InHandTyped
  DEF TypeOK, Groups, IsCelebrity, RemoveFollowing, At, OnHome, OnGraph,
      truth, graph
<1>15. ASSUME DemoteIfBelow
      PROVE  CelebrityInv'
  BY <1>15, InHandTyped
  DEF TypeOK, Groups, IsCelebrity, DemoteIfBelow, At, OnHome, OnGraph, truth,
      graph
<1>16. ASSUME Purge
      PROVE  CelebrityInv'
  BY <1>16, InHandTyped
  DEF TypeOK, Groups, IsCelebrity, Purge, At, OnHome, OnGraph, truth, graph
<1>17. ASSUME Mark
      PROVE  CelebrityInv'
  BY <1>17, InHandTyped DEF TypeOK, Groups, Mark, Fault, graph, IsCelebrity
<1>18. ASSUME Crash
      PROVE  CelebrityInv'
  BY <1>18, InHandTyped DEF TypeOK, Groups, IsCelebrity, Crash, truth, graph
<1>19. CASE UNCHANGED vars
  BY <1>19, InHandTyped DEF TypeOK, Groups, IsCelebrity, vars
<1> QED
  BY <1>1, <1>2, <1>3, <1>4, <1>5, <1>6, <1>7, <1>8, <1>9, <1>10, <1>11,
     <1>12, <1>13, <1>14, <1>15, <1>16, <1>17, <1>18, <1>19
  DEF Next, UserTimelineWorker, HomeWorker, HomeHandler

-----------------------------------------------------------------------------
\* followers:{author} and following:{user} disagree only about edges whose
\* event is still owed or was dead-lettered, in every order of delivery and
\* after every crash (add_follower, add_following, remove_follower,
\* remove_following).
THEOREM EdgesConsistent == Spec => []EdgesAgree
<1>1. Init => EdgeInv
  BY DEF Init, EdgeInv, EdgeProgress, EdgesAgree
<1>2. TypeOK /\ TypeOK' /\ EdgeInv /\ [Next]_vars => EdgeInv'
  BY EdgeStep
<1>3. EdgeInv => EdgesAgree
  BY DEF EdgeInv
<1> QED
  BY <1>1, <1>2, <1>3, TypeCorrect, PTL DEF Spec

\* The celebrities set is what the follower counts call for, but for follows
\* and unfollows still owed or dead-lettered (mark_celebrity, demote_if_below); a threshold of
\* zero would make every new account a celebrity nobody marked.
THEOREM CelebritiesConsistent ==
    ASSUME Threshold > 0 PROVE Spec => []CelebritiesAgree
<1>1. Init => CelebrityInv
  BY HomeAssumption, FS_EmptySet
  DEF Init, CelebrityInv, CelebrityProgress, CelebritiesAgree, IsCelebrity
<1>2. TypeOK /\ TypeOK' /\ CelebrityInv /\ [Next]_vars => CelebrityInv'
  BY CelebrityStep
<1>3. CelebrityInv => CelebritiesAgree
  BY DEF CelebrityInv
<1> QED
  BY <1>1, <1>2, <1>3, TypeCorrect, PTL DEF Spec
-----------------------------------------------------------------------------
(* The graph cache and user-svc's graph.  The last event of an edge says what *)
(* user-svc has, unless a later one was lost; it is also the last that the    *)
(* cache was told of, unless the worker took an earlier one after it.         *)
EdgeEvent(i, u, v) ==
    log[i].type \in EdgeEvents /\ log[i].user = u /\ log[i].about = v

LastEvent(i, u, v) ==
    EdgeEvent(i, u, v) /\ \A j \in DOMAIN log : EdgeEvent(j, u, v) => j <= i

LastWord ==
    \A i \in DOMAIN log, u, v \in Users :
        LastEvent(i, u, v) /\ <<u, v>> \notin lost =>
            (log[i].type = "user.followed" <=> <<u, v>> \in follows)

InTurn ==
    msg # 0 /\ Subject(msg) \notin crossed["home"] =>
        \A j \in handled["home"] : Subject(j) = Subject(msg) => j <= msg

GraphInv == InTurn /\ LastWord /\ GraphCurrent

\* What an emitted event leaves as it was.
LEMMA Appended ==
    ASSUME TypeOK, NEW type, NEW user, NEW about, Emit(type, user, about)
    PROVE  /\ Len(log) + 1 \in Nat /\ DOMAIN log \subseteq Nat
           /\ DOMAIN log' = DOMAIN log \union {Len(log) + 1}
           /\ \A i \in DOMAIN log : log'[i] = log[i] /\ i < Len(log) + 1
           /\ log'[Len(log) + 1] = [type |-> type, user |-> user, about |-> about]
           /\ lost' = lost \ {<<user, about>>}
           /\ handled'["home"] = handled["home"]
           /\ handled'["usertimeline"] = IF type \in EdgeEvents
                 THEN handled["usertimeline"] \union {Len(log) + 1}
                 ELSE handled["usertimeline"]
<1>1. log' = Append(log, [type |-> type, user |-> user, about |-> about])
  BY DEF Emit
<1>2. log \in Seq(Events)
  BY DEF TypeOK
<1>3. /\ Len(log) \in Nat /\ DOMAIN log = 1..Len(log)
      /\ Len(log') = Len(log) + 1 /\ DOMAIN log' = 1..(Len(log) + 1)
      /\ \A i \in 1..Len(log) : log'[i] = log[i]
      /\ log'[Len(log) + 1] = [type |-> type, user |-> user, about |-> about]
  BY <1>1, <1>2
<1>4. /\ handled'["home"] = handled["home"]
      /\ handled'["usertimeline"] = IF type \in EdgeEvents
            THEN handled["usertimeline"] \union {Len(log) + 1}
            ELSE handled["usertimeline"]
  BY DEF Emit, TypeOK, Groups
<1>5. lost' = lost \ {<<user, about>>}
  BY DEF Emit
<1> QED
  BY <1>3, <1>4, <1>5

\* What users do leaves to the workers: the log grows, or an event is lost.
LEMMA ActKeeps ==
    ASSUME TypeOK, UserActs
    PROVE  /\ \A i \in DOMAIN log : i \in DOMAIN log' /\ log'[i] = log[i]
           /\ handled'["home"] = handled["home"]
           /\ handled["usertimeline"] \subseteq handled'["usertimeline"]
           /\ \A i \in handled'["usertimeline"] :
                 i \in handled["usertimeline"] \/ log'[i].type \in EdgeEvents
           /\ UNCHANGED <<parked, followers, following, celebrities, home,
                          userTimeline, msg, step, crossed, begun, misread, demoted>>
<1>1. ASSUME NEW type, NEW user, NEW about, Emit(type, user, about)
      PROVE  /\ \A i \in DOMAIN log : i \in DOMAIN log' /\ log'[i] = log[i]
             /\ handled'["home"] = handled["home"]
             /\ handled["usertimeline"] \subseteq handled'["usertimeline"]
             /\ \A i \in handled'["usertimeline"] :
                   i \in handled["usertimeline"] \/ log'[i].type \in EdgeEvents
             /\ UNCHANGED <<parked, followers, following, celebrities, home,
                            userTimeline, msg, step, crossed, begun, misread, demoted>>
  <2>1. UNCHANGED <<parked, followers, following, celebrities, home,
                    userTimeline, msg, step, crossed, begun, misread, demoted>>
    BY <1>1 DEF Emit, graph, worker
  <2>2. \A i \in DOMAIN log : i \in DOMAIN log' /\ log'[i] = log[i]
    BY <1>1, Appended
  <2>3. /\ handled'["home"] = handled["home"]
        /\ handled["usertimeline"] \subseteq handled'["usertimeline"]
    BY <1>1, Appended
  <2>4. ASSUME NEW i \in handled'["usertimeline"], i \notin handled["usertimeline"]
        PROVE  log'[i].type \in EdgeEvents
    <3>0. handled'["usertimeline"] = IF type \in EdgeEvents
             THEN handled["usertimeline"] \union {Len(log) + 1}
             ELSE handled["usertimeline"]
      BY <1>1, Appended
    <3>1. type \in EdgeEvents /\ i = Len(log) + 1
      BY <2>4, <3>0
    <3>2. log'[Len(log) + 1] = [type |-> type, user |-> user, about |-> about]
      BY <1>1, Appended
    <3> QED
      BY <3>1, <3>2
  <2> QED
    BY <2>1, <2>2, <2>3, <2>4
<1>2. ASSUME NEW type, NEW user, NEW about, Lose(type, user, about)
      PROVE  UNCHANGED <<log, handled, parked, followers, following, celebrities, home,
                         userTimeline, msg, step, crossed, begun, misread, demoted>>
  BY <1>2 DEF Lose, graph, worker
<1>3. \/ \E type, user, about : Emit(type, user, about)
      \/ \E type, user, about : Lose(type, user, about)
  BY DEF UserActs, Publish, CreatePost, DeletePost, Repost, Unrepost, Follow, Unfollow
<1> QED
  BY <1>1, <1>2, <1>3

\* Edges and posts are different subjects.
LEMMA EdgeSubject ==
    ASSUME TypeOK, NEW i \in DOMAIN log, NEW u, NEW v \in Users, Subject(i) = <<u, v>>
    PROVE  EdgeEvent(i, u, v)
<1>1. log[i].user = u /\ log[i].about = v
  BY DEF Subject
<1>2. log[i].type \in EdgeEvents
  BY <1>1, EventTyped, HomeAssumption DEF TypeOK, Events
<1> QED
  BY <1>1, <1>2 DEF EdgeEvent

\* An event of another subject changes nothing about an edge.
LEMMA OtherEdge ==
    ASSUME TypeOK, GraphInv, NEW type, NEW user, NEW about,
           Emit(type, user, about) \/ Lose(type, user, about),
           NEW u \in Users, NEW v \in Users, <<u, v>> # <<user, about>>,
           <<u, v>> \in follows' <=> <<u, v>> \in follows
    PROVE  /\ \A i \in DOMAIN log' : LastEvent(i, u, v)' /\ <<u, v>> \notin lost' =>
                 (log'[i].type = "user.followed" <=> <<u, v>> \in follows')
           /\ \/ u \in followers'[v] <=> <<u, v>> \in follows'
              \/ OwedEdge(u, v)' \/ <<u, v>> \in lost' \union crossed'["home"]
<1>0. /\ <<u, v>> \in lost' <=> <<u, v>> \in lost
      /\ followers' = followers /\ crossed' = crossed /\ parked' = parked
      /\ handled'["home"] = handled["home"]
  BY Appended DEF Emit, Lose, graph
<1>1. CASE Emit(type, user, about)
  <2>n. PICK n \in Nat : n = Len(log) + 1
    BY <1>1, Appended
  <2>1. /\ \A i \in DOMAIN log : EdgeEvent(i, u, v)' <=> EdgeEvent(i, u, v)
        /\ ~EdgeEvent(n, u, v)'
    <3>1. ASSUME NEW i \in DOMAIN log
          PROVE  EdgeEvent(i, u, v)' <=> EdgeEvent(i, u, v)
      <4>1. log'[i] = log[i]
        BY <1>1, Appended
      <4> QED
        BY <4>1 DEF EdgeEvent
    <3>2. log'[n] = [type |-> type, user |-> user, about |-> about]
      BY <1>1, <2>n, Appended
    <3> QED
      BY <3>1, <3>2 DEF EdgeEvent
  <2>2. ASSUME NEW i \in DOMAIN log', LastEvent(i, u, v)', <<u, v>> \notin lost'
        PROVE  log'[i].type = "user.followed" <=> <<u, v>> \in follows'
    <3>1. EdgeEvent(i, u, v)' /\ \A j \in DOMAIN log' : EdgeEvent(j, u, v)' => j <= i
      BY <2>2 DEF LastEvent
    <3>2. i \in DOMAIN log /\ EdgeEvent(i, u, v)
      BY <1>1, <2>n, <2>1, <3>1, Appended
    <3>3. ASSUME NEW j \in DOMAIN log, EdgeEvent(j, u, v)
          PROVE  j <= i
      BY <1>1, <2>1, <3>1, <3>3, Appended
    <3>4. LastEvent(i, u, v)
      BY <3>2, <3>3 DEF LastEvent
    <3>5. log'[i] = log[i]
      BY <1>1, <3>2, Appended
    <3> QED
      BY <1>0, <2>2, <3>2, <3>4, <3>5 DEF GraphInv, LastWord
  <2>3. OwedEdge(u, v) => OwedEdge(u, v)'
    <3>1. parked \subseteq DOMAIN log
      BY DEF TypeOK
    <3>2. \A i \in Open : i \in Open' /\ log'[i] = log[i]
      BY <1>0, <1>1, <3>1, Appended DEF Open
    <3> QED
      BY <3>2 DEF OwedEdge
  <2> QED
    BY <1>0, <2>2, <2>3 DEF GraphInv, GraphCurrent
<1>2. CASE Lose(type, user, about)
  <2>1. log' = log /\ handled' = handled
    BY <1>2 DEF Lose
  <2>2. OwedEdge(u, v)' <=> OwedEdge(u, v)
    BY <1>0, <2>1 DEF OwedEdge, Open
  <2>3. \A i \in DOMAIN log : LastEvent(i, u, v)' <=> LastEvent(i, u, v)
    BY <2>1 DEF LastEvent, EdgeEvent
  <2>4. /\ \A i \in DOMAIN log' : LastEvent(i, u, v)' /\ <<u, v>> \notin lost' =>
              (log'[i].type = "user.followed" <=> <<u, v>> \in follows')
    BY <1>0, <2>1, <2>3 DEF GraphInv, LastWord
  <2> QED
    BY <1>0, <2>2, <2>4 DEF GraphInv, GraphCurrent
<1> QED
  BY <1>1, <1>2

LEMMA StillInTurn ==
    ASSUME TypeOK, GraphInv, UserActs
    PROVE  InTurn'
<1>1. /\ \A i \in DOMAIN log : log'[i] = log[i]
      /\ handled'["home"] = handled["home"] /\ msg' = msg /\ crossed' = crossed
  BY ActKeeps
<1>2. handled["home"] \subseteq DOMAIN log /\ msg \in DOMAIN log \union {0}
  BY DEF TypeOK, Groups
<1> QED
  BY <1>1, <1>2 DEF GraphInv, InTurn, Subject

\* What a user does to an edge is the last word on it, and is owed or lost.
LEMMA EdgeTold ==
    ASSUME TypeOK, GraphInv, UserActs,
           NEW a \in Users, NEW b \in Users, NEW type \in EdgeEvents,
           Publish(type, a, b),
           follows' = IF type = "user.followed" THEN follows \union {<<a, b>>}
                                                ELSE follows \ {<<a, b>>}
    PROVE  GraphInv'
<1>0. Emit(type, a, b) \/ Lose(type, a, b)
  BY DEF Publish
<1>1. ASSUME NEW u \in Users, NEW v \in Users, <<u, v>> # <<a, b>>
      PROVE  /\ \A i \in DOMAIN log' : LastEvent(i, u, v)' /\ <<u, v>> \notin lost' =>
                   (log'[i].type = "user.followed" <=> <<u, v>> \in follows')
             /\ \/ u \in followers'[v] <=> <<u, v>> \in follows'
                \/ OwedEdge(u, v)' \/ <<u, v>> \in lost' \union crossed'["home"]
  <2>1. <<u, v>> \in follows' <=> <<u, v>> \in follows
    BY <1>1
  <2> QED
    BY <1>0, <1>1, <2>1, OtherEdge
<1>2. /\ \A i \in DOMAIN log' : LastEvent(i, a, b)' /\ <<a, b>> \notin lost' =>
            (log'[i].type = "user.followed" <=> <<a, b>> \in follows')
      /\ OwedEdge(a, b)' \/ <<a, b>> \in lost'
  <2>1. CASE Lose(type, a, b)
    BY <2>1 DEF Lose
  <2>2. CASE Emit(type, a, b)
    <3>n. PICK n \in Nat : n = Len(log) + 1
      BY <2>2, Appended
    <3>1. n \in DOMAIN log' /\ EdgeEvent(n, a, b)' /\ log'[n].type = type
      <4>1. n \in DOMAIN log' /\ log'[n] = [type |-> type, user |-> a, about |-> b]
        BY <2>2, <3>n, Appended
      <4> QED
        BY <4>1 DEF EdgeEvent
    <3>2. ASSUME NEW i \in DOMAIN log', LastEvent(i, a, b)'
          PROVE  i = n
      <4>1. n <= i
        BY <3>1, <3>2 DEF LastEvent
      <4>2. i \in DOMAIN log \/ i = n
        BY <2>2, <3>n, Appended
      <4>3. i \in DOMAIN log => i \in Nat /\ n \in Nat /\ i < n
        BY <2>2, <3>n, Appended
      <4> QED
        BY <4>1, <4>2, <4>3
    <3>3. log'[n].type = "user.followed" <=> <<a, b>> \in follows'
      BY <3>1 DEF EdgeEvents
    <3>4. n \notin DOMAIN log
      <4>1. \A i \in DOMAIN log : i < n
        BY <2>2, <3>n, Appended
      <4>2. ~(n < n)
        BY <3>n
      <4> QED
        BY <4>1, <4>2
    <3>5. n \notin handled'["home"]
      BY <2>2, <3>4, Appended DEF TypeOK, Groups
    <3>6. n \in Open'
      BY <3>1, <3>5 DEF Open
    <3>7. /\ log'[n].type \in EdgeEvents
          /\ log'[n].user = a /\ log'[n].about = b
      BY <3>1 DEF EdgeEvent
    <3>8. OwedEdge(a, b)'
      BY <3>6, <3>7 DEF OwedEdge
    <3> QED
      BY <3>2, <3>3, <3>8
  <2> QED
    BY <1>0, <2>1, <2>2
<1>3. LastWord'
  <2> SUFFICES ASSUME NEW i \in DOMAIN log', NEW u \in Users, NEW v \in Users,
                      LastEvent(i, u, v)', <<u, v>> \notin lost'
               PROVE  log'[i].type = "user.followed" <=> <<u, v>> \in follows'
    BY DEF LastWord
  <2>1. CASE u = a /\ v = b
    BY <1>2, <2>1
  <2>2. CASE ~(u = a /\ v = b)
    BY <1>1, <2>2
  <2> QED
    BY <2>1, <2>2
<1>4. GraphCurrent'
  <2> SUFFICES ASSUME NEW u \in Users, NEW v \in Users
               PROVE  \/ u \in followers'[v] <=> <<u, v>> \in follows'
                      \/ OwedEdge(u, v)' \/ <<u, v>> \in lost' \union crossed'["home"]
    BY DEF GraphCurrent
  <2>1. CASE u = a /\ v = b
    BY <1>2, <2>1
  <2>2. CASE ~(u = a /\ v = b)
    BY <1>1, <2>2
  <2> QED
    BY <2>1, <2>2
<1> QED
  BY <1>3, <1>4, StillInTurn DEF GraphInv

LEMMA PostTold ==
    ASSUME TypeOK, GraphInv, UserActs, NEW type, NEW user, NEW about \in Posts,
           Emit(type, user, about) \/ Lose(type, user, about), follows' = follows
    PROVE  GraphInv'
<1>1. \A u, v \in Users : <<u, v>> # <<user, about>>
  BY HomeAssumption
<1>2. ASSUME NEW u \in Users, NEW v \in Users
      PROVE  /\ \A i \in DOMAIN log' : LastEvent(i, u, v)' /\ <<u, v>> \notin lost' =>
                   (log'[i].type = "user.followed" <=> <<u, v>> \in follows')
             /\ \/ u \in followers'[v] <=> <<u, v>> \in follows'
                \/ OwedEdge(u, v)' \/ <<u, v>> \in lost' \union crossed'["home"]
  BY <1>1, OtherEdge
<1>3. LastWord' /\ GraphCurrent'
  BY <1>2 DEF LastWord, GraphCurrent
<1> QED
  BY <1>3, StillInTurn DEF GraphInv

\* A step of a handler touches no edge but the one in hand, which is owed.
LEMMA HandlerStep ==
    ASSUME GraphInv, UNCHANGED <<log, follows, lost>>,
           parked \subseteq parked', crossed'["home"] = crossed["home"],
           handled'["home"] = handled["home"],
           msg' \in {msg, 0},
           \A u, v \in Users : (u \in followers'[v] <=> u \in followers[v])
                               \/ OwedEdge(u, v)
    PROVE  GraphInv'
<1>1. InTurn'
  BY DEF GraphInv, InTurn, Subject
<1>2. LastWord'
  BY DEF GraphInv, LastWord, LastEvent, EdgeEvent
<1>3. \A u, v \in Users : OwedEdge(u, v) => OwedEdge(u, v)'
  BY DEF OwedEdge, Open
<1>4. GraphCurrent'
  BY <1>3 DEF GraphInv, GraphCurrent
<1> QED
  BY <1>1, <1>2, <1>4 DEF GraphInv

\* An event is taken: its edge is owed, whatever the history says of it.
LEMMA TakeStep ==
    ASSUME TypeOK, GraphInv, NEW i \in DOMAIN log, Take(i)
    PROVE  GraphInv'
<1>1. /\ UNCHANGED <<log, follows, parked, handled, followers, lost>> /\ msg' = i
      /\ i \notin handled["home"]
      /\ crossed'["home"] =
            IF \E j \in handled["home"] : j > i /\ Subject(j) = Subject(i)
            THEN crossed["home"] \union {Subject(i)}
            ELSE crossed["home"] \ {Subject(i)}
  BY DEF Take, Takes, Ready, truth, graph, TypeOK, Groups
<1>2. InTurn'
  <2>1. SUFFICES ASSUME Subject(i) \notin crossed'["home"],
                        NEW j \in handled["home"], Subject(j) = Subject(i)
                 PROVE  j <= i
    BY <1>1 DEF InTurn, Subject
  <2>2. ~(j > i)
    BY <1>1, <2>1
  <2>3. i \in Nat /\ j \in Nat
    BY DEF TypeOK, Groups
  <2> QED
    BY <2>2, <2>3
<1>3. LastWord'
  BY <1>1 DEF GraphInv, LastWord, LastEvent, EdgeEvent
<1>4. GraphCurrent'
  <2> SUFFICES ASSUME NEW u \in Users, NEW v \in Users
               PROVE  \/ u \in followers[v] <=> <<u, v>> \in follows
                      \/ OwedEdge(u, v) \/ <<u, v>> \in lost \union crossed'["home"]
    BY <1>1 DEF GraphCurrent, OwedEdge, Open
  <2>1. CASE Subject(i) = <<u, v>>
    <3>1. EdgeEvent(i, u, v) /\ i \in Open
      BY <1>1, <2>1, EdgeSubject DEF Open
    <3> QED
      BY <3>1 DEF OwedEdge, EdgeEvent
  <2>2. CASE Subject(i) # <<u, v>>
    <3>1. <<u, v>> \in crossed["home"] => <<u, v>> \in crossed'["home"]
      BY <1>1, <2>2
    <3> QED
      BY <3>1 DEF GraphInv, GraphCurrent
  <2> QED
    BY <2>1, <2>2
<1> QED
  BY <1>2, <1>3, <1>4 DEF GraphInv

\* The end of an event: it was the last of its edge, and the cache has it, or
\* another event of the edge is owed.
LEMMA MarkStep ==
    ASSUME TypeOK, EdgeInv, GraphInv, Mark
    PROVE  GraphInv'
<1>1. /\ msg # 0 /\ msg \in DOMAIN log /\ msg \in Nat /\ msg' = 0
      /\ User \in Users
      /\ log' = log /\ follows' = follows /\ followers' = followers
      /\ lost' = lost /\ crossed' = crossed
  BY InHandTyped DEF Mark, TypeOK, truth, graph, history
<1>2. handled'["home"] = handled["home"] \union {msg}
  BY DEF Mark, TypeOK, Groups
<1>3. parked \subseteq parked' /\ (step = "done" \/ msg \in parked')
  BY DEF Mark
<1>4. InTurn'
  BY <1>1 DEF InTurn
<1>5. LastWord'
  BY <1>1 DEF GraphInv, LastWord, LastEvent, EdgeEvent
<1>6. GraphCurrent'
  <2> SUFFICES ASSUME NEW u \in Users, NEW v \in Users, ~OwedEdge(u, v)',
                      <<u, v>> \notin lost \union crossed["home"]
               PROVE  u \in followers[v] <=> <<u, v>> \in follows
    BY <1>1 DEF GraphCurrent
  <2>1. CASE ~OwedEdge(u, v)
    BY <2>1 DEF GraphInv, GraphCurrent
  <2>2. CASE OwedEdge(u, v)
    <3>1. \A j \in DOMAIN log :
             EdgeEvent(j, u, v) => j = msg \/ j \in handled["home"]
      BY <1>1, <1>2 DEF OwedEdge, Open, EdgeEvent
    <3>2. EdgeEvent(msg, u, v) /\ step = "done"
      BY <1>1, <1>2, <1>3, <2>2 DEF OwedEdge, Open, EdgeEvent
    <3>3. Subject(msg) = <<u, v>>
      BY <3>2 DEF EdgeEvent, Subject
    <3>4. ASSUME NEW j \in DOMAIN log, EdgeEvent(j, u, v)
          PROVE  j <= msg
      <4>1. CASE j = msg
        BY <1>1, <4>1
      <4>2. CASE j \in handled["home"]
        <5>1. Subject(j) = Subject(msg)
          BY <3>3, <3>4 DEF EdgeEvent, Subject
        <5> QED
          BY <1>1, <3>3, <4>2, <5>1 DEF GraphInv, InTurn
      <4> QED
        BY <3>1, <3>4, <4>1, <4>2
    <3>5. LastEvent(msg, u, v)
      BY <1>1, <3>2, <3>4 DEF LastEvent
    <3>6. log[msg].type = "user.followed" <=> <<u, v>> \in follows
      BY <1>1, <3>5 DEF GraphInv, LastWord
    <3>7. log[msg].type = "user.followed" <=> u \in followers[v]
      BY <1>1, <3>2 DEF EdgeEvent, EdgeEvents, EdgeInv, EdgeProgress, User, About
    <3> QED
      BY <3>6, <3>7
  <2> QED
    BY <2>1, <2>2
<1> QED
  BY <1>4, <1>5, <1>6 DEF GraphInv

LEMMA GraphStep ==
    ASSUME TypeOK, EdgeInv, GraphInv, [Next]_vars
    PROVE  GraphInv'
<1> USE HomeAssumption
<1>1. ASSUME NEW p \in Posts, CreatePost(p) \/ DeletePost(p)
      PROVE  GraphInv'
  BY <1>1, PostTold DEF CreatePost, DeletePost, Publish, UserActs
<1>2. ASSUME NEW u \in Users, NEW p \in Posts, Repost(u, p)
      PROVE  GraphInv'
  BY <1>2, PostTold DEF Repost, UserActs
<1>3. ASSUME NEW i \in reposts, Unrepost(i)
      PROVE  GraphInv'
  <2>1. log[i].about \in Posts
    BY EventTyped DEF TypeOK, PostEvents
  <2> QED
    BY <1>3, <2>1, PostTold DEF Unrepost, UserActs
<1>4. ASSUME NEW e \in MayFollow, Follow(e[1], e[2])
      PROVE  GraphInv'
  BY <1>4, EdgeTold DEF Follow, EdgeEvents, UserActs
<1>5. ASSUME NEW e \in MayFollow, Unfollow(e[1], e[2])
      PROVE  GraphInv'
  BY <1>5, EdgeTold DEF Unfollow, EdgeEvents, UserActs
<1>6. ASSUME NEW i \in DOMAIN log, HandleUserTimeline(i)
      PROVE  GraphInv'
  <2>1. handled'["home"] = handled["home"] /\ crossed'["home"] = crossed["home"]
        /\ parked \subseteq parked' /\ lost' = lost
    BY <1>6 DEF HandleUserTimeline, Takes, TypeOK, Groups
  <2> QED
    BY <1>6, <2>1, HandlerStep DEF HandleUserTimeline, truth, graph, worker
<1>7. ASSUME NEW i \in DOMAIN log, Take(i)
      PROVE  GraphInv'
  BY <1>7, TakeStep
<1>8. ASSUME \/ PushPost \/ MarkAuthor \/ PushToAuthor \/ RemovePost
             \/ PushRepost \/ AddFollowing \/ Promote \/ BackFill
             \/ RemoveFollowing \/ DemoteIfBelow \/ Purge
      PROVE  GraphInv'
  <2>1. UNCHANGED <<log, follows, parked, handled, followers, msg, lost, crossed>>
    BY <1>8
    DEF PushPost, MarkAuthor, PushToAuthor, RemovePost, PushRepost,
        AddFollowing, Promote, BackFill, RemoveFollowing, DemoteIfBelow, Purge,
        OnHome, OnGraph, truth, graph
  <2> QED
    BY <2>1, HandlerStep
<1>9. ASSUME AddFollower \/ RemoveFollower
      PROVE  GraphInv'
  <2>1. /\ UNCHANGED <<log, follows, parked, handled, msg, lost, crossed>>
        /\ msg # 0 /\ log[msg].type \in EdgeEvents
        /\ followers' = [followers EXCEPT ![About] = @ \union {User}]
           \/ followers' = [followers EXCEPT ![About] = @ \ {User}]
    BY <1>9
    DEF AddFollower, RemoveFollower, At, OnGraph, truth, EdgeEvents
  <2>2. msg \in Open
    BY <2>1, InHandTyped DEF EdgeInv, EdgeProgress, Open
  <2>3. OwedEdge(User, About)
    BY <2>1, <2>2 DEF OwedEdge, User, About
  <2>4. \A u, v \in Users : (u \in followers'[v] <=> u \in followers[v])
                            \/ OwedEdge(u, v)
    BY <2>1, <2>3 DEF TypeOK
  <2> QED
    BY <2>1, <2>4, HandlerStep
<1>10. ASSUME Mark
       PROVE  GraphInv'
  BY <1>10, MarkStep
<1>11. ASSUME Crash
       PROVE  GraphInv'
  BY <1>11, HandlerStep DEF Crash, truth, graph, history
<1>12. CASE UNCHANGED vars
  BY <1>12, HandlerStep DEF vars
<1> QED
  BY <1>1, <1>2, <1>3, <1>4, <1>5, <1>6, <1>7, <1>8, <1>9, <1>10, <1>11,
     <1>12
  DEF Next, UserActs, UserTimelineWorker, HomeWorker, HomeHandler

\* Under every fault and in every order of the topics, the graph cache has the
\* edges of user-svc's graph and no others, but for those whose own latest event
\* is owed, was dead-lettered or lost, or was handled before an earlier one
\* (_publish of users/views.py, add_follower, remove_follower).
THEOREM GraphFollows == Spec => []GraphCurrent
<1>1. Init => EdgeInv /\ GraphInv
  BY DEF Init, EdgeInv, EdgeProgress, EdgesAgree, GraphInv, InTurn, LastWord,
         GraphCurrent, Groups
<1>2. TypeOK /\ TypeOK' /\ EdgeInv /\ GraphInv /\ [Next]_vars => EdgeInv' /\ GraphInv'
  BY EdgeStep, GraphStep
<1>3. GraphInv => GraphCurrent
  BY DEF GraphInv
<1> QED
  BY <1>1, <1>2, <1>3, TypeCorrect, PTL DEF Spec
-----------------------------------------------------------------------------
(* The feeds.  Of a post that is clear of every exception the history names,  *)
(* the timelines of usertimeline-svc and the homes are known from what the    *)
(* two services have taken up, each in an order of its own.                   *)
Created(i, p) == log[i].type = "post.created" /\ log[i].about = p
Deleted(i, p) == log[i].type = "post.deleted" /\ log[i].about = p
Reposted(p) ==
    \E i \in DOMAIN log : log[i].type = "post.reposted" /\ log[i].about = p
Written(p) == <<Author[p], p>>

\* What the log says: a post is created once, by its author, and later deleted
\* once; only edge events pass usertimeline-svc by.
OneDeletion ==
    \A i, j \in DOMAIN log, p \in Posts :
        Deleted(j, p) => /\ p \notin live
                         /\ Created(i, p) => i < j
                         /\ Deleted(i, p) => i = j
OneCreation ==
    \A i, j \in DOMAIN log, p \in Posts : Created(i, p) /\ Created(j, p) => i = j
Alive(p) ==
    p \in live <=> /\ \E i \in DOMAIN log : Created(i, p)
                   /\ \A j \in DOMAIN log : ~Deleted(j, p)
ByAuthors ==
    \A i \in DOMAIN log :
        /\ log[i].type \in EdgeEvents => i \in handled["usertimeline"]
        /\ log[i].type \in {"post.created", "post.deleted"} =>
              log[i].user = Author[log[i].about]
        /\ \A p \in Posts :
              log[i].type = "post.unreposted" /\ log[i].about = p => Reposted(p)
Ledger ==
    /\ ByAuthors /\ OneCreation /\ OneDeletion
    /\ \A p \in Posts : Written(p) \in lost \/ Reposted(p) \/ Alive(p)

\* What the two services have taken up, and in what order.
TakenUp ==
    /\ msg # 0 => msg \in begun
    /\ \A g \in Groups : \A i \in handled[g] : log[i].type \in PostEvents => i \in begun
    /\ \A g \in Groups, p \in Posts :
          Written(p) \in crossed[g] =>
              Reposted(p) \/ \E j \in handled[g] : Deleted(j, p)

\* The posts that FeedComplete and FeedSound speak of.
Clear(p) ==
    /\ ~Reposted(p)
    /\ \A i \in parked : log[i].about # p
    /\ \A g \in Groups : Written(p) \notin crossed[g]

DeletionBegun(p) == \E j \in begun : Deleted(j, p)

UserTimelines ==
    \A p \in Posts :
        /\ \A c \in Users : userTimeline[c][p] > 0 =>
              \E i \in begun : /\ log[i].user = c /\ log[i].about = p
                               /\ log[i].type \in {"post.created", "post.reposted"}
        /\ Clear(p) => \A i \in handled["usertimeline"] :
              /\ Created(i, p) /\ ~DeletionBegun(p) => userTimeline[Author[p]][p] > 0
              /\ Deleted(i, p) => userTimeline[Author[p]][p] = 0

FeedBase == EdgeInv /\ GraphInv /\ Ledger /\ TakenUp /\ UserTimelines

\* An event emitted extends the ledger.
LEMMA LedgerGrows ==
    ASSUME TypeOK, Ledger, NEW type \in PostEvents \union EdgeEvents,
           NEW user, NEW about, Emit(type, user, about),
           type \in {"post.created", "post.deleted"} => user = Author[about],
           type = "post.unreposted" => Reposted(about),
           type = "post.created" =>
               /\ \A i \in DOMAIN log : log[i].about # about
               /\ Written(about) \notin lost /\ live' = live \union {about},
           type = "post.deleted" => about \in live /\ live' = live \ {about},
           type \notin {"post.created", "post.deleted"} => live' = live,
           type \in EdgeEvents => about \notin Posts
    PROVE  Ledger'
<1>n. PICK n \in Nat : n = Len(log) + 1
  BY Appended
<1>1. /\ DOMAIN log' = DOMAIN log \union {n}
      /\ \A i \in DOMAIN log : log'[i] = log[i] /\ i < n /\ i \in Nat
      /\ log'[n] = [type |-> type, user |-> user, about |-> about]
      /\ lost' = lost \ {<<user, about>>}
  BY <1>n, Appended
<1>2. /\ log'[n].type = type /\ log'[n].user = user /\ log'[n].about = about
      /\ n \notin DOMAIN log
  <2>1. ~(n < n)
    BY <1>n
  <2> QED
    BY <1>1, <2>1
<1>3. \A i \in DOMAIN log, p \in Posts :
         (Created(i, p)' <=> Created(i, p)) /\ (Deleted(i, p)' <=> Deleted(i, p))
  BY <1>1 DEF Created, Deleted
<1>4. \A p \in Posts : /\ Created(n, p)' <=> type = "post.created" /\ about = p
                       /\ Deleted(n, p)' <=> type = "post.deleted" /\ about = p
  BY <1>2 DEF Created, Deleted
<1>5. \A p : Reposted(p) => Reposted(p)'
  BY <1>1 DEF Reposted
<1>6. ByAuthors'
  <2> SUFFICES ASSUME NEW i \in DOMAIN log'
               PROVE  /\ log'[i].type \in EdgeEvents => i \in handled'["usertimeline"]
                      /\ log'[i].type \in {"post.created", "post.deleted"} =>
                            log'[i].user = Author[log'[i].about]
                      /\ \A p \in Posts :
                            log'[i].type = "post.unreposted" /\ log'[i].about = p =>
                                Reposted(p)'
    BY DEF ByAuthors
  <2>1. CASE i \in DOMAIN log
    <3>1. handled["usertimeline"] \subseteq handled'["usertimeline"]
      BY <1>n, Appended
    <3>2. log'[i] = log[i]
      BY <1>1, <2>1
    <3> QED
      BY <1>5, <2>1, <3>1, <3>2 DEF Ledger, ByAuthors
  <2>2. CASE i = n
    <3>1. handled'["usertimeline"] = IF type \in EdgeEvents
             THEN handled["usertimeline"] \union {n} ELSE handled["usertimeline"]
      BY <1>n, Appended
    <3> QED
      BY <1>2, <1>5, <2>2, <3>1
  <2> QED
    BY <1>1, <2>1, <2>2
<1>7. ASSUME NEW p \in Posts, type = "post.created", about = p
      PROVE  \A j \in DOMAIN log : ~Created(j, p) /\ ~Deleted(j, p)
  BY <1>7 DEF Created, Deleted
<1>8. ASSUME NEW p \in Posts, type = "post.deleted", about = p
      PROVE  \A j \in DOMAIN log : ~Deleted(j, p)
  BY <1>8 DEF Ledger, OneDeletion
<1>9. OneDeletion'
  <2> SUFFICES ASSUME NEW i \in DOMAIN log', NEW j \in DOMAIN log', NEW p \in Posts,
                      Deleted(j, p)'
               PROVE  /\ p \notin live'
                      /\ Created(i, p)' => i < j
                      /\ Deleted(i, p)' => i = j
    BY DEF OneDeletion
  <2>1. CASE j \in DOMAIN log
    <3>1. Deleted(j, p) /\ p \notin live
      BY <1>3, <2>1 DEF Ledger, OneDeletion
    <3>2. ~(type = "post.created" /\ about = p) /\ ~(type = "post.deleted" /\ about = p)
      BY <1>7, <1>8, <2>1, <3>1
    <3>3. p \notin live'
      BY <3>1, <3>2
    <3>4. CASE i \in DOMAIN log
      BY <1>3, <2>1, <3>1, <3>3, <3>4 DEF Ledger, OneDeletion
    <3>5. CASE i = n
      BY <1>4, <3>2, <3>3, <3>5
    <3> QED
      BY <1>1, <3>4, <3>5
  <2>2. CASE j = n
    <3>1. type = "post.deleted" /\ about = p
      BY <1>4, <2>2
    <3>2. p \notin live'
      BY <3>1
    <3>3. \A k \in DOMAIN log : ~Deleted(k, p)
      BY <1>8, <3>1
    <3>4. ~Created(n, p)'
      BY <1>4, <3>1
    <3> QED
      BY <1>1, <1>3, <2>2, <3>2, <3>3, <3>4
  <2> QED
    BY <1>1, <2>1, <2>2
<1>10. OneCreation'
  <2> SUFFICES ASSUME NEW i \in DOMAIN log', NEW j \in DOMAIN log', NEW p \in Posts,
                      Created(i, p)', Created(j, p)'
               PROVE  i = j
    BY DEF OneCreation
  <2>1. CASE i \in DOMAIN log /\ j \in DOMAIN log
    BY <1>3, <2>1 DEF Ledger, OneCreation
  <2>2. CASE i = n /\ j \in DOMAIN log
    BY <1>3, <1>4, <1>7, <2>2
  <2>3. CASE i \in DOMAIN log /\ j = n
    BY <1>3, <1>4, <1>7, <2>3
  <2> QED
    BY <1>1, <2>1, <2>2, <2>3
<1>11. ASSUME NEW p \in Posts
       PROVE  Written(p) \in lost' \/ Reposted(p)' \/ Alive(p)'
  <2>1. CASE type = "post.created" /\ about = p
    <3>1. Written(p) \notin lost /\ p \in live'
      BY <2>1
    <3>2. n \in DOMAIN log' /\ Created(n, p)' /\ ~Deleted(n, p)'
      BY <1>1, <1>4, <2>1
    <3>3. \A j \in DOMAIN log' : ~Deleted(j, p)'
      BY <1>1, <1>3, <1>7, <2>1, <3>2
    <3> QED
      BY <3>1, <3>2, <3>3 DEF Alive
  <2>2. CASE type = "post.deleted" /\ about = p
    <3>1. p \notin live'
      BY <2>2
    <3>2. n \in DOMAIN log' /\ Deleted(n, p)'
      BY <1>1, <1>4, <2>2
    <3> QED
      BY <3>1, <3>2 DEF Alive
  <2>3. CASE type \notin {"post.created", "post.deleted"} \/ about # p
    <3>1. p \in live' <=> p \in live
      BY <2>3
    <3>2. ~Created(n, p)' /\ ~Deleted(n, p)'
      BY <1>4, <2>3
    <3>3. Alive(p) => Alive(p)'
      BY <1>1, <1>3, <3>1, <3>2 DEF Alive
    <3>4. CASE about # p
      <4>1. Written(p) \in lost => Written(p) \in lost'
        BY <1>1, <3>4 DEF Written
      <4> QED
        BY <1>5, <3>3, <4>1 DEF Ledger
    <3>5. CASE about = p
      <4>1. type \in {"post.reposted", "post.unreposted"}
        BY <2>3, <3>5 DEF PostEvents
      <4>2. Reposted(p)'
        <5>1. CASE type = "post.reposted"
          BY <1>1, <1>2, <3>5, <5>1 DEF Reposted
        <5>2. CASE type = "post.unreposted"
          BY <1>5, <3>5, <5>2
        <5> QED
          BY <4>1, <5>1, <5>2
      <4> QED
        BY <4>2
    <3> QED
      BY <3>4, <3>5
  <2> QED
    BY <2>1, <2>2, <2>3
<1> QED
  BY <1>6, <1>9, <1>10, <1>11 DEF Ledger

\* One that is lost leaves it as it was, but for its subject.
LEMMA LedgerLoses ==
    ASSUME TypeOK, Ledger, NEW type, NEW user, NEW about, Lose(type, user, about),
           \A p \in Posts : \/ p \in live' <=> p \in live
                            \/ <<user, about>> = Written(p),
           \A p \in Posts : p \in live' /\ p \notin live =>
               \A i \in DOMAIN log : log[i].about # p
    PROVE  Ledger'
<1>1. /\ log' = log /\ handled' = handled
      /\ lost' = lost \union {<<user, about>>}
  BY DEF Lose
<1>2. ByAuthors'
  BY <1>1 DEF Ledger, ByAuthors, Reposted
<1>3. \A i \in DOMAIN log, p \in Posts :
         (Created(i, p)' <=> Created(i, p)) /\ (Deleted(i, p)' <=> Deleted(i, p))
  BY <1>1 DEF Created, Deleted
<1>4. OneDeletion'
  <2> SUFFICES ASSUME NEW i \in DOMAIN log, NEW j \in DOMAIN log, NEW p \in Posts,
                      Deleted(j, p)
               PROVE  /\ p \notin live'
                      /\ Created(i, p) => i < j
                      /\ Deleted(i, p) => i = j
    BY <1>1, <1>3 DEF OneDeletion
  <2>1. p \notin live /\ log[j].about = p
    BY DEF Ledger, OneDeletion, Deleted
  <2> QED
    BY <2>1 DEF Ledger, OneDeletion
<1>5. OneCreation'
  BY <1>1, <1>3 DEF Ledger, OneCreation
<1>6. ASSUME NEW p \in Posts
      PROVE  Written(p) \in lost' \/ Reposted(p)' \/ Alive(p)'
  <2>1. CASE <<user, about>> = Written(p)
    BY <1>1, <2>1
  <2>2. CASE p \in live' <=> p \in live
    <3>1. Alive(p)' <=> Alive(p)
      BY <1>1, <1>3, <2>2 DEF Alive
    <3>2. Reposted(p)' <=> Reposted(p)
      BY <1>1 DEF Reposted
    <3> QED
      BY <1>1, <3>1, <3>2 DEF Ledger
  <2> QED
    BY <2>1, <2>2
<1> QED
  BY <1>2, <1>4, <1>5, <1>6 DEF Ledger

\* The workers do not write it.
LEMMA LedgerKept ==
    ASSUME Ledger, UNCHANGED <<live, log, lost>>,
           handled["usertimeline"] \subseteq handled'["usertimeline"]
    PROVE  Ledger'
  BY DEF Ledger, ByAuthors, OneCreation, OneDeletion, Alive, Reposted, Created, Deleted, Written

\* The steps of a home handler leave all this as it was.
Within ==
    /\ UNCHANGED <<live, follows, reposts, log, handled, parked, userTimeline, msg,
                   lost, crossed, begun>>
    /\ misread \subseteq misread' /\ demoted \subseteq demoted'
    /\ msg # 0

LEMMA HandlersAre ==
    ASSUME HomeHandler PROVE Within
<1>1. ASSUME \/ PushPost \/ PushToAuthor \/ RemovePost \/ PushRepost
             \/ BackFill \/ Purge
      PROVE  Within
  BY <1>1
  DEF PushPost, PushToAuthor, RemovePost, PushRepost, BackFill, Purge,
      OnHome, truth, graph, Within, At, Reading, Misread
<1>2. ASSUME \/ MarkAuthor \/ AddFollower \/ AddFollowing \/ Promote
             \/ RemoveFollower \/ RemoveFollowing \/ DemoteIfBelow
      PROVE  Within
  BY <1>2
  DEF MarkAuthor, AddFollower, AddFollowing, Promote, RemoveFollower,
      RemoveFollowing, DemoteIfBelow, OnGraph, truth, Within, At
<1> QED
  BY <1>1, <1>2 DEF HomeHandler

LEMMA LedgerStep ==
    ASSUME TypeOK, Ledger, [Next]_vars
    PROVE  Ledger'
<1> USE HomeAssumption
<1>1. ASSUME NEW p \in Posts, CreatePost(p)
      PROVE  Ledger'
  <2>1. /\ \A i \in DOMAIN log : log[i].about # p
        /\ Written(p) \notin lost /\ live' = live \union {p}
        /\ Emit("post.created", Author[p], p) \/ Lose("post.created", Author[p], p)
    BY <1>1 DEF CreatePost, Publish, Written
  <2>2. CASE Emit("post.created", Author[p], p)
    BY <2>1, <2>2, LedgerGrows DEF PostEvents, EdgeEvents
  <2>3. CASE Lose("post.created", Author[p], p)
    <3>1. \A x \in Posts : \/ x \in live' <=> x \in live
                           \/ <<Author[p], p>> = Written(x)
      BY <2>1 DEF Written
    <3>2. \A x \in Posts : x \in live' /\ x \notin live =>
             \A i \in DOMAIN log : log[i].about # x
      BY <2>1
    <3> QED
      BY <2>3, <3>1, <3>2, LedgerLoses
  <2> QED
    BY <2>1, <2>2, <2>3
<1>2. ASSUME NEW p \in Posts, DeletePost(p)
      PROVE  Ledger'
  <2>1. /\ p \in live /\ live' = live \ {p}
        /\ Emit("post.deleted", Author[p], p) \/ Lose("post.deleted", Author[p], p)
    BY <1>2 DEF DeletePost, Publish
  <2>2. CASE Emit("post.deleted", Author[p], p)
    BY <2>1, <2>2, LedgerGrows DEF PostEvents, EdgeEvents
  <2>3. CASE Lose("post.deleted", Author[p], p)
    <3>1. \A x \in Posts : \/ x \in live' <=> x \in live
                           \/ <<Author[p], p>> = Written(x)
      BY <2>1 DEF Written
    <3>2. \A x \in Posts : ~(x \in live' /\ x \notin live)
      BY <2>1
    <3> QED
      BY <2>3, <3>1, <3>2, LedgerLoses
  <2> QED
    BY <2>1, <2>2, <2>3
<1>3. ASSUME NEW u \in Users, NEW p \in Posts, Repost(u, p)
      PROVE  Ledger'
  <2>1. Emit("post.reposted", u, p) /\ live' = live
    BY <1>3 DEF Repost
  <2> QED
    BY <2>1, LedgerGrows DEF PostEvents, EdgeEvents
<1>4. ASSUME NEW i \in reposts, Unrepost(i)
      PROVE  Ledger'
  <2>1. Emit("post.unreposted", log[i].user, log[i].about) /\ live' = live
    BY <1>4 DEF Unrepost
  <2>2. Reposted(log[i].about)
    BY DEF TypeOK, Reposted
  <2> QED
    BY <2>1, <2>2, LedgerGrows DEF PostEvents, EdgeEvents
<1>5. ASSUME NEW e \in MayFollow, Follow(e[1], e[2])
      PROVE  Ledger'
  <2>1. /\ live' = live /\ e[2] \notin Posts
        /\ Emit("user.followed", e[1], e[2]) \/ Lose("user.followed", e[1], e[2])
    BY <1>5 DEF Follow, Publish
  <2> QED
    BY <2>1, LedgerGrows, LedgerLoses DEF PostEvents, EdgeEvents
<1>6. ASSUME NEW e \in MayFollow, Unfollow(e[1], e[2])
      PROVE  Ledger'
  <2>1. /\ live' = live /\ e[2] \notin Posts
        /\ Emit("user.unfollowed", e[1], e[2]) \/ Lose("user.unfollowed", e[1], e[2])
    BY <1>6 DEF Unfollow, Publish
  <2> QED
    BY <2>1, LedgerGrows, LedgerLoses DEF PostEvents, EdgeEvents
<1>7. ASSUME NEW i \in DOMAIN log, HandleUserTimeline(i)
      PROVE  Ledger'
  <2>1. handled["usertimeline"] \subseteq handled'["usertimeline"]
    BY <1>7 DEF HandleUserTimeline, TypeOK, Groups
  <2> QED
    BY <1>7, <2>1, LedgerKept DEF HandleUserTimeline, Takes, truth
<1>8. ASSUME NEW i \in DOMAIN log, Take(i)
      PROVE  Ledger'
  BY <1>8, LedgerKept DEF Take, Takes, truth
<1>9. CASE HomeHandler
  BY <1>9, HandlersAre, LedgerKept DEF Within
<1>10. CASE Mark
  <2>1. handled["usertimeline"] \subseteq handled'["usertimeline"]
    BY <1>10 DEF Mark, TypeOK, Groups
  <2> QED
    BY <1>10, <2>1, LedgerKept DEF Mark, truth, history
<1>11. CASE Crash \/ UNCHANGED vars
  BY <1>11, LedgerKept DEF Crash, truth, history, vars
<1> QED
  BY <1>1, <1>2, <1>3, <1>4, <1>5, <1>6, <1>7, <1>8, <1>9, <1>10, <1>11
  DEF Next, UserActs, UserTimelineWorker, HomeWorker

\* An event taken after a later one of its post is taken after the deletion.
LEMMA AfterDeletion ==
    ASSUME TypeOK, Ledger, NEW p \in Posts, ~Reposted(p),
           NEW i \in DOMAIN log, NEW j \in DOMAIN log,
           Subject(i) = Written(p), Subject(j) = Written(p), i # j
    PROVE  i < j <=> Deleted(j, p)
<1>1. \A k \in {i, j} : /\ log[k].about = p /\ log[k].type \in PostEvents /\ k \in Nat
                        /\ Created(k, p) \/ Deleted(k, p)
  <2> SUFFICES ASSUME NEW k \in {i, j}
               PROVE  /\ log[k].about = p /\ log[k].type \in PostEvents /\ k \in Nat
                      /\ Created(k, p) \/ Deleted(k, p)
    OBVIOUS
  <2>1. log[k].about = p
    BY DEF Subject, Written
  <2>2. log[k].type \in PostEvents /\ k \in Nat
    BY <2>1, EventTyped, HomeAssumption DEF TypeOK, Events
  <2>3. log[k].type \notin {"post.reposted", "post.unreposted"}
    BY <2>1 DEF Ledger, ByAuthors, Reposted
  <2> QED
    BY <2>1, <2>2, <2>3 DEF PostEvents, Created, Deleted
<1>2. ~Deleted(i, p) \/ ~Deleted(j, p)
  BY DEF Ledger, OneDeletion
<1>3. ~Created(i, p) \/ ~Created(j, p)
  BY DEF Ledger, OneCreation
<1>4. CASE Created(i, p) /\ Deleted(j, p)
  BY <1>4 DEF Ledger, OneDeletion
<1>5. CASE Deleted(i, p) /\ Created(j, p)
  <2>1. j < i
    BY <1>5 DEF Ledger, OneDeletion
  <2> QED
    BY <1>1, <1>2, <1>5, <2>1
<1> QED
  BY <1>1, <1>2, <1>3, <1>4, <1>5

LEMMA DeletedSubject ==
    ASSUME Ledger, NEW p \in Posts, NEW j \in DOMAIN log,
           Created(j, p) \/ Deleted(j, p)
    PROVE  Subject(j) = Written(p)
  BY DEF Ledger, ByAuthors, Created, Deleted, Subject, Written

\* What the history says of an event that group g takes.
LEMMA TakenCrosses ==
    ASSUME TypeOK, Ledger, TakenUp, NEW g \in Groups, NEW i \in DOMAIN log \ handled[g],
           Takes(g, i), NEW p \in Posts, ~Reposted(p)
    PROVE  /\ Written(p) \in crossed[g] => Written(p) \in crossed'[g]
           /\ Written(p) \in crossed'[g] => \E j \in handled[g] : Deleted(j, p)
           /\ Subject(i) = Written(p) /\ (\E j \in handled[g] : Deleted(j, p)) =>
                 Written(p) \in crossed'[g]
<1>1. /\ handled[g] \subseteq DOMAIN log /\ i \notin handled[g]
      /\ crossed'[g] = IF \E j \in handled[g] : j > i /\ Subject(j) = Subject(i)
                       THEN crossed[g] \union {Subject(i)} ELSE crossed[g] \ {Subject(i)}
  BY DEF TypeOK, Takes
<1>2. Written(p) \in crossed[g] => \E j \in handled[g] : Deleted(j, p)
  BY DEF TakenUp
<1>3. CASE Subject(i) # Written(p)
  BY <1>1, <1>2, <1>3
<1>4. CASE Subject(i) = Written(p)
  <2>1. ASSUME NEW j \in handled[g], Deleted(j, p)
        PROVE  j > i /\ Subject(j) = Subject(i)
    <3>1. j \in DOMAIN log /\ i # j /\ i \in Nat /\ j \in Nat
      BY <1>1, <2>1 DEF TypeOK
    <3>2. Subject(j) = Written(p)
      BY <2>1, <3>1, DeletedSubject
    <3>3. i < j
      BY <1>4, <2>1, <3>1, <3>2, AfterDeletion
    <3> QED
      BY <1>4, <3>1, <3>2, <3>3
  <2>2. ASSUME NEW j \in handled[g], j > i, Subject(j) = Subject(i)
        PROVE  Deleted(j, p)
    <3>1. j \in DOMAIN log /\ i # j /\ i \in Nat /\ j \in Nat
      BY <1>1, <2>2 DEF TypeOK
    <3> QED
      BY <1>4, <2>2, <3>1, AfterDeletion
  <2> QED
    BY <1>1, <1>2, <1>4, <2>1, <2>2
<1> QED
  BY <1>3, <1>4

\* Which group takes what, and the marks of history it leaves.
LEMMA TakesIs ==
    ASSUME TypeOK, NEW g \in Groups, NEW i \in DOMAIN log,
           (Take(i) /\ g = "home") \/ (HandleUserTimeline(i) /\ g = "usertimeline")
    PROVE  /\ Takes(g, i) /\ i \notin handled[g] /\ log' = log
           /\ begun' = begun \union {i}
           /\ \A h \in Groups \ {g} : crossed'[h] = crossed[h] /\ handled'[h] = handled[h]
           /\ handled[g] \subseteq handled'[g] /\ handled'[g] \subseteq handled[g] \union {i}
           /\ parked \subseteq parked'
  BY DEF Take, HandleUserTimeline, Takes, Ready, TypeOK, Groups

LEMMA HistoryStep ==
    ASSUME TypeOK, Ledger, TakenUp, [Next]_vars
    PROVE  /\ TakenUp'
           /\ begun \subseteq begun'
           /\ \A p \in Posts : Clear(p)' => Clear(p)
<1>0. /\ \A g \in Groups : handled[g] \subseteq DOMAIN log
      /\ parked \subseteq DOMAIN log /\ begun \subseteq DOMAIN log
      /\ msg \in DOMAIN log \union {0}
  BY DEF TypeOK
<1>1. CASE UserActs
  <2>1. \A i \in DOMAIN log : i \in DOMAIN log' /\ log'[i] = log[i]
    BY <1>1, ActKeeps
  <2>2. UNCHANGED <<parked, msg, crossed, begun>>
    BY <1>1, ActKeeps
  <2>3. \A g \in Groups : \A i \in handled'[g] :
           i \in handled[g] \/ log'[i].type \in EdgeEvents
    BY <1>1, ActKeeps DEF Groups
  <2>4. \A g \in Groups : handled[g] \subseteq handled'[g]
    BY <1>1, ActKeeps DEF Groups
  <2>5. \A p : Reposted(p) => Reposted(p)'
    BY <2>1 DEF Reposted
  <2>6. \A j \in DOMAIN log, p \in Posts : Deleted(j, p) => Deleted(j, p)'
    BY <2>1 DEF Deleted
  <2>7. \A t \in EdgeEvents : t \notin PostEvents
    BY DEF EdgeEvents, PostEvents
  <2>8. \A g \in Groups : \A i \in handled'[g] : log'[i].type \in PostEvents => i \in begun
    BY <1>0, <2>1, <2>3, <2>7 DEF TakenUp
  <2>9. \A p : Written(p)' = Written(p)
    BY DEF Written
  <2>10. \A g \in Groups, p \in Posts : Written(p)' \in crossed[g] =>
            Reposted(p)' \/ \E j \in handled'[g] : Deleted(j, p)'
    BY <1>0, <2>4, <2>5, <2>6, <2>9 DEF TakenUp
  <2>11. TakenUp'
    BY <2>2, <2>8, <2>10 DEF TakenUp
  <2>12. \A p \in Posts : Clear(p)' => Clear(p)
    BY <1>0, <2>1, <2>2, <2>5, <2>9 DEF Clear
  <2> QED
    BY <2>2, <2>11, <2>12
<1>2. ASSUME NEW i \in DOMAIN log, NEW g \in Groups,
             (Take(i) /\ g = "home") \/ (HandleUserTimeline(i) /\ g = "usertimeline")
      PROVE  /\ TakenUp' /\ begun \subseteq begun'
             /\ \A p \in Posts : Clear(p)' => Clear(p)
  <2>1. /\ Takes(g, i) /\ i \in DOMAIN log \ handled[g] /\ log' = log
        /\ begun' = begun \union {i}
        /\ \A h \in Groups \ {g} : crossed'[h] = crossed[h] /\ handled'[h] = handled[h]
        /\ handled[g] \subseteq handled'[g] /\ handled'[g] \subseteq handled[g] \union {i}
        /\ parked \subseteq parked'
    BY <1>2, TakesIs
  <2>2. msg' # 0 => msg' \in begun'
    BY <1>2, <2>1 DEF Take, HandleUserTimeline, worker, TakenUp
  <2>3. \A h \in Groups : \A j \in handled'[h] : log[j].type \in PostEvents => j \in begun'
    BY <2>1 DEF TakenUp
  <2>4. \A p \in Posts : /\ Reposted(p)' <=> Reposted(p)
                         /\ Written(p)' = Written(p)
                         /\ \A j : Deleted(j, p)' <=> Deleted(j, p)
    BY <2>1 DEF Reposted, Written, Deleted
  <2>5. ASSUME NEW h \in Groups, NEW p \in Posts, ~Reposted(p)
        PROVE  /\ Written(p) \in crossed[h] => Written(p) \in crossed'[h]
               /\ Written(p) \in crossed'[h] => \E j \in handled'[h] : Deleted(j, p)
    <3>1. CASE h = g
      BY <2>1, <2>5, <3>1, TakenCrosses
    <3>2. CASE h # g
      BY <2>1, <2>5, <3>2 DEF TakenUp
    <3> QED
      BY <3>1, <3>2
  <2>6. TakenUp'
    <3>1. \A h \in Groups, p \in Posts : Written(p)' \in crossed'[h] =>
             Reposted(p)' \/ \E j \in handled'[h] : Deleted(j, p)'
      BY <2>4, <2>5
    <3> QED
      BY <2>1, <2>2, <2>3, <3>1 DEF TakenUp
  <2>7. \A p \in Posts : Clear(p)' => Clear(p)
    BY <2>1, <2>4, <2>5 DEF Clear
  <2> QED
    BY <2>1, <2>6, <2>7
<1>3. ASSUME UNCHANGED <<log, crossed, begun>>, msg' \in {msg, 0},
             parked \subseteq parked',
             \A g \in Groups : /\ handled[g] \subseteq handled'[g]
                               /\ handled'[g] \subseteq handled[g] \union {msg},
             msg = 0 => handled' = handled
      PROVE  /\ TakenUp' /\ begun \subseteq begun'
             /\ \A p \in Posts : Clear(p)' => Clear(p)
  <2>1. \A p \in Posts : /\ Reposted(p)' <=> Reposted(p)
                         /\ Written(p)' = Written(p)
                         /\ \A j : Deleted(j, p)' <=> Deleted(j, p)
    BY <1>3 DEF Reposted, Written, Deleted
  <2>2. msg' # 0 => msg' \in begun
    BY <1>3 DEF TakenUp
  <2>3. \A g \in Groups : \A j \in handled'[g] : log[j].type \in PostEvents => j \in begun
    BY <1>3 DEF TakenUp
  <2>4. \A g \in Groups, p \in Posts : Written(p) \in crossed[g] =>
           Reposted(p) \/ \E j \in handled'[g] : Deleted(j, p)
    BY <1>3 DEF TakenUp
  <2>5. TakenUp'
    BY <1>3, <2>1, <2>2, <2>3, <2>4 DEF TakenUp
  <2>6. \A p \in Posts : Clear(p)' => Clear(p)
    BY <1>3, <2>1 DEF Clear
  <2> QED
    BY <1>3, <2>5, <2>6
<1>4. CASE HomeHandler
  BY <1>3, <1>4, HandlersAre DEF Within
<1>5. CASE Mark
  <2>1. /\ msg # 0 /\ msg' = 0 /\ parked \subseteq parked'
        /\ UNCHANGED <<log, crossed, begun>>
        /\ \A g \in Groups : /\ handled[g] \subseteq handled'[g]
                             /\ handled'[g] \subseteq handled[g] \union {msg}
    BY <1>5 DEF Mark, history, TypeOK, Groups
  <2> QED
    BY <1>3, <2>1
<1>6. CASE Crash \/ UNCHANGED vars
  BY <1>3, <1>6 DEF Crash, history, vars
<1>7. ASSUME NEW i \in DOMAIN log, Take(i) \/ HandleUserTimeline(i)
      PROVE  /\ TakenUp' /\ begun \subseteq begun'
             /\ \A p \in Posts : Clear(p)' => Clear(p)
  <2>1. "home" \in Groups /\ "usertimeline" \in Groups
    BY DEF Groups
  <2>2. CASE Take(i)
    BY <1>2, <2>1, <2>2
  <2>3. CASE HandleUserTimeline(i)
    BY <1>2, <2>1, <2>3
  <2> QED
    BY <1>7, <2>2, <2>3
<1> QED
  BY <1>1, <1>4, <1>5, <1>6, <1>7 DEF Next, UserTimelineWorker, HomeWorker

\* usertimeline-svc adds the post at its creation and removes it at its deletion.
LEMMA HandlesUserTimeline ==
    ASSUME TypeOK, TypeOK', Ledger, TakenUp, UserTimelines,
           NEW i \in DOMAIN log, HandleUserTimeline(i)
    PROVE  UserTimelines'
<1>1. /\ Takes("usertimeline", i) /\ i \in DOMAIN log \ handled["usertimeline"]
      /\ log' = log /\ begun' = begun \union {i}
      /\ handled["usertimeline"] \subseteq handled'["usertimeline"]
      /\ handled'["usertimeline"] \subseteq handled["usertimeline"] \union {i}
      /\ handled["usertimeline"] \subseteq DOMAIN log
  BY TakesIs DEF Groups, TypeOK
<1>2. /\ log[i].type \in PostEvents /\ log[i].about \in Posts /\ log[i].user \in Users
      /\ i \in Nat /\ i > 0
  <2>1. log[i].type \in PostEvents
    BY <1>1, EventTyped DEF Ledger, ByAuthors, TypeOK, Events
  <2> QED
    BY <2>1, EventTyped DEF TypeOK
<1> DEFINE n == IF log[i].type \in {"post.created", "post.reposted"} THEN i ELSE 0
<1>3. \/ userTimeline' = [userTimeline EXCEPT ![log[i].user][log[i].about] = n]
      \/ userTimeline' = userTimeline /\ i \in parked'
  BY DEF HandleUserTimeline
<1>4. ASSUME NEW c \in Users, NEW p \in Posts, p # log[i].about \/ c # log[i].user
      PROVE  userTimeline'[c][p] = userTimeline[c][p]
  <2>1. userTimeline \in [Users -> [Posts -> Nat]]
    BY DEF TypeOK, Scores
  <2>2. CASE c = log[i].user
    BY <1>2, <1>3, <1>4, <2>1, <2>2
  <2>3. CASE c # log[i].user
    BY <1>2, <1>3, <2>1, <2>3
  <2> QED
    BY <2>2, <2>3
<1>5. \/ userTimeline'[log[i].user][log[i].about] = n
      \/ userTimeline' = userTimeline /\ i \in parked'
  BY <1>2, <1>3 DEF TypeOK, Scores
<1> HIDE DEF n
<1>6. \A p \in Posts : Clear(p)' => Clear(p) /\ ~Reposted(p)
  BY HistoryStep DEF Next, UserTimelineWorker, Clear
<1>7. \A p \in Posts : /\ \A j : Created(j, p)' <=> Created(j, p)
                       /\ \A j : Deleted(j, p)' <=> Deleted(j, p)
                       /\ DeletionBegun(p)' <=> DeletionBegun(p) \/ Deleted(i, p)
  BY <1>1 DEF Created, Deleted, DeletionBegun
<1>8. ASSUME NEW p \in Posts, NEW c \in Users, userTimeline'[c][p] > 0
      PROVE  \E j \in begun' : /\ log[j].user = c /\ log[j].about = p
                               /\ log[j].type \in {"post.created", "post.reposted"}
  <2>1. CASE userTimeline'[c][p] = userTimeline[c][p]
    BY <1>1, <1>8, <2>1 DEF UserTimelines
  <2>2. CASE c = log[i].user /\ p = log[i].about /\ userTimeline'[c][p] = n
    <3>1. log[i].type \in {"post.created", "post.reposted"}
      BY <1>8, <2>2 DEF n
    <3> QED
      BY <1>1, <2>2, <3>1
  <2> QED
    BY <1>4, <1>5, <2>1, <2>2
<1>9. ASSUME NEW p \in Posts, Clear(p)', NEW j \in handled'["usertimeline"]
      PROVE  /\ Created(j, p) /\ ~DeletionBegun(p)' => userTimeline'[Author[p]][p] > 0
             /\ Deleted(j, p) => userTimeline'[Author[p]][p] = 0
  <2>1. Clear(p) /\ ~Reposted(p) /\ Author[p] \in Users
    BY <1>6, <1>9, HomeAssumption
  <2>2. j \in handled["usertimeline"] =>
           /\ Created(j, p) /\ ~DeletionBegun(p) => userTimeline[Author[p]][p] > 0
           /\ Deleted(j, p) => userTimeline[Author[p]][p] = 0
    BY <2>1 DEF UserTimelines
  <2>3. CASE log[i].about # p
    <3>1. ~Created(i, p) /\ ~Deleted(i, p)
      BY <2>3 DEF Created, Deleted
    <3>2. userTimeline'[Author[p]][p] = userTimeline[Author[p]][p]
      BY <1>4, <2>1, <2>3
    <3> QED
      BY <1>1, <1>7, <2>2, <3>1, <3>2
  <2>4. CASE log[i].about = p
    <3>1. Created(i, p) \/ Deleted(i, p)
      BY <1>2, <2>1, <2>4 DEF Ledger, ByAuthors, PostEvents, Created, Deleted, Reposted
    <3>2. Subject(i) = Written(p)
      BY <3>1, DeletedSubject
    <3>3. log[i].user = Author[p]
      BY <3>2 DEF Subject, Written
    <3>4. i \notin parked'
      BY <1>1, <1>9, <2>4 DEF Clear
    <3>5. userTimeline'[Author[p]][p] = n
      BY <1>5, <2>4, <3>3, <3>4
    <3>6. Written(p) \notin crossed'["usertimeline"]
      BY <1>9 DEF Clear, Groups, Written
    <3>7. ~(\E k \in handled["usertimeline"] : Deleted(k, p))
      BY <1>1, <2>1, <3>2, <3>6, TakenCrosses DEF Groups
    <3>8. CASE Created(i, p)
      <4>1. n > 0 /\ ~Deleted(i, p)
        BY <1>2, <3>8 DEF n, Created, Deleted
      <4> QED
        BY <1>1, <3>5, <3>7, <4>1
    <3>9. CASE Deleted(i, p)
      <4>1. n = 0
        BY <3>9 DEF n, Deleted
      <4>2. DeletionBegun(p)'
        BY <1>7, <3>9
      <4> QED
        BY <3>5, <4>1, <4>2
    <3> QED
      BY <3>1, <3>8, <3>9
  <2> QED
    BY <2>3, <2>4
<1> QED
  BY <1>1, <1>7, <1>8, <1>9 DEF UserTimelines

\* Nobody else writes the timelines of authors.
LEMMA UserTimelinesKept ==
    ASSUME TypeOK, UserTimelines, userTimeline' = userTimeline, begun \subseteq begun',
           \A j \in DOMAIN log : log'[j] = log[j],
           \A j \in handled'["usertimeline"] :
               j \in handled["usertimeline"] \/ log'[j].type \in EdgeEvents,
           \A p \in Posts : Clear(p)' => Clear(p)
    PROVE  UserTimelines'
<1>0. begun \subseteq DOMAIN log /\ handled["usertimeline"] \subseteq DOMAIN log
  BY DEF TypeOK, Groups
<1>1. \A p \in Posts, j \in DOMAIN log :
         (Created(j, p)' <=> Created(j, p)) /\ (Deleted(j, p)' <=> Deleted(j, p))
  BY DEF Created, Deleted
<1>2. \A p \in Posts : DeletionBegun(p) => DeletionBegun(p)'
  BY <1>0, <1>1 DEF DeletionBegun
<1>3. \A p \in Posts : \A j :
         log'[j].type \in EdgeEvents => ~Created(j, p)' /\ ~Deleted(j, p)'
  BY DEF Created, Deleted, EdgeEvents
<1>4. ASSUME NEW p \in Posts, NEW c \in Users, userTimeline[c][p] > 0
      PROVE  \E i \in begun' : /\ log'[i].user = c /\ log'[i].about = p
                               /\ log'[i].type \in {"post.created", "post.reposted"}
  BY <1>0, <1>4 DEF UserTimelines
<1>5. ASSUME NEW p \in Posts, Clear(p)', NEW i \in handled'["usertimeline"]
      PROVE  /\ Created(i, p)' /\ ~DeletionBegun(p)' => userTimeline[Author[p]][p] > 0
             /\ Deleted(i, p)' => userTimeline[Author[p]][p] = 0
  BY <1>0, <1>1, <1>2, <1>3, <1>5 DEF UserTimelines
<1> QED
  BY <1>4, <1>5 DEF UserTimelines

LEMMA UserTimelinesStep ==
    ASSUME TypeOK, TypeOK', Ledger, TakenUp, UserTimelines, [Next]_vars
    PROVE  UserTimelines'
<1>0. begun \subseteq begun' /\ \A p \in Posts : Clear(p)' => Clear(p)
  BY HistoryStep
<1>1. CASE UserActs
  BY <1>0, <1>1, ActKeeps, UserTimelinesKept
<1>2. ASSUME NEW i \in DOMAIN log, HandleUserTimeline(i)
      PROVE  UserTimelines'
  BY <1>2, HandlesUserTimeline
<1>3. ASSUME UNCHANGED <<log, userTimeline>>,
             handled'["usertimeline"] = handled["usertimeline"]
      PROVE  UserTimelines'
  BY <1>0, <1>3, UserTimelinesKept
<1>4. CASE HomeHandler
  BY <1>3, <1>4, HandlersAre DEF Within
<1>5. CASE HomeWorker \/ Crash \/ UNCHANGED vars
  <2>1. ASSUME (\E i \in DOMAIN log : Take(i)) \/ Mark \/ Crash \/ UNCHANGED vars
        PROVE  /\ UNCHANGED <<log, userTimeline>>
               /\ handled'["usertimeline"] = handled["usertimeline"]
    BY <2>1 DEF Take, Mark, Crash, vars, TypeOK, Groups
  <2> QED
    BY <1>3, <1>4, <1>5, <2>1 DEF HomeWorker
<1> QED
  BY <1>1, <1>2, <1>5 DEF Next, UserTimelineWorker

LEMMA FeedBaseInit == Init => FeedBase
  BY DEF Init, FeedBase, EdgeInv, EdgeProgress, EdgesAgree, GraphInv, InTurn, LastWord,
         GraphCurrent, Ledger, ByAuthors, OneCreation, OneDeletion, Alive, TakenUp,
         UserTimelines, Groups

LEMMA FeedBaseStep ==
    ASSUME TypeOK, TypeOK', FeedBase, [Next]_vars
    PROVE  FeedBase'
  BY EdgeStep, GraphStep, LedgerStep, HistoryStep, UserTimelinesStep DEF FeedBase

-----------------------------------------------------------------------------
(* A home shows nothing else.                                               *)

\* Nothing is trimmed, and recent_posts reads whole timelines.
PostsFit ==
    IsFiniteSet(Posts) /\ Cardinality(Posts) <= MaxHome
    /\ Cardinality(Posts) <= RecentLimit

Followed(i, u, a) == log[i] = [type |-> "user.followed", user |-> u, about |-> a]
Unfollowed(i, u, a) == log[i] = [type |-> "user.unfollowed", user |-> u, about |-> a]

Leaver(u, a) == \E i \in Open : Unfollowed(i, u, a)

\* What a clear post in the home of u shows of u, of the post, and of the event
\* in hand.
Spared(u, p) ==
    msg # 0 /\ step = "done" => ~Deleted(msg, p) /\ ~Unfollowed(msg, u, Author[p])
Rightful(u, p) ==
    /\ u \in followers[Author[p]] \union {Author[p]} \/ Leaver(u, Author[p])
    /\ \A j \in handled["home"] : ~Deleted(j, p)
    /\ Spared(u, p)

SoundFor(u, p) ==
    home[u][p] > 0 =>
        /\ \E i \in begun : /\ log[i].about = p
                            /\ log[i].type \in {"post.created", "post.reposted"}
        /\ Clear(p) => <<u, Author[p]>> \in misread \/ Rightful(u, p)

Sound == \A u \in Users, p \in Posts : SoundFor(u, p)

\* As many of the posts as there may be are among the newest.
LEMMA AllNewest ==
    ASSUME IsFiniteSet(Posts), NEW n \in Nat, Cardinality(Posts) <= n,
           NEW t \in Scores, NEW p \in Posts, t[p] > 0
    PROVE  p \in Newest(t, n)
<1> DEFINE newer == {q \in Posts : t[q] > t[p]}
<1>1. newer \subseteq Posts \ {p}
  BY DEF Scores
<1> HIDE DEF newer
<1>2. IsFiniteSet(Posts \ {p}) /\ Cardinality(Posts \ {p}) = Cardinality(Posts) - 1
  BY FS_RemoveElement
<1>3. IsFiniteSet(newer) /\ Cardinality(newer) <= Cardinality(Posts \ {p})
  BY <1>1, <1>2, FS_Subset
<1>4. Cardinality(newer) \in Nat /\ Cardinality(Posts) \in Nat
  BY <1>3, FS_CardinalityType
<1>5. Cardinality(newer) < n
  BY <1>2, <1>3, <1>4
<1> QED
  BY <1>5 DEF Newest, newer

\* recent_posts reads every post in the timeline of an author.
LEMMA AllRecent ==
    ASSUME PostsFit, TypeOK, NEW a \in Users
    PROVE  RecentPosts(a) = {p \in Posts : userTimeline[a][p] > 0}
<1>1. userTimeline[a] \in Scores
  BY DEF TypeOK
<1>2. \A p \in Posts : userTimeline[a][p] > 0 => p \in Newest(userTimeline[a], RecentLimit)
  BY <1>1, AllNewest, HomeAssumption DEF PostsFit
<1> QED
  BY <1>2 DEF RecentPosts, Newest

\* With room for every post nothing is trimmed.
LEMMA NothingTrimmed ==
    ASSUME PostsFit, NEW t \in Scores
    PROVE  \A p \in Posts : Trim(t)[p] = t[p]
<1>1. \A p \in Posts : t[p] > 0 => p \in Newest(t, MaxHome)
  BY AllNewest, HomeAssumption DEF PostsFit
<1>2. \A p \in Posts : t[p] \in Nat
  BY DEF Scores
<1> QED
  BY <1>1, <1>2 DEF Trim

LEMMA FanOutIs ==
    ASSUME PostsFit, TypeOK, NEW targets, NEW q \in Posts, NEW ts \in Nat
    PROVE  \A u \in Users, p \in Posts : FanOut(targets, q, ts)[u][p] =
               IF u \in targets /\ p = q THEN ts ELSE home[u][p]
<1> SUFFICES ASSUME NEW u \in Users, NEW p \in Posts
             PROVE  FanOut(targets, q, ts)[u][p] =
                        IF u \in targets /\ p = q THEN ts ELSE home[u][p]
  OBVIOUS
<1>1. home[u] \in Scores /\ [home[u] EXCEPT ![q] = ts] \in Scores
  BY DEF TypeOK, Scores
<1>2. [home[u] EXCEPT ![q] = ts][p] = IF p = q THEN ts ELSE home[u][p]
  BY <1>1 DEF Scores
<1>3. Trim([home[u] EXCEPT ![q] = ts])[p] = [home[u] EXCEPT ![q] = ts][p]
  BY <1>1, NothingTrimmed
<1> QED
  BY <1>2, <1>3 DEF FanOut

LEMMA BackFillIs ==
    ASSUME PostsFit, TypeOK, NEW u \in Users, NEW a \in Users
    PROVE  \A v \in Users, p \in Posts : BackFilled(u, a)[v][p] =
               IF v = u /\ userTimeline[a][p] > 0 THEN userTimeline[a][p] ELSE home[v][p]
<1> DEFINE merged == [x \in Posts |-> IF x \in RecentPosts(a)
                                      THEN userTimeline[a][x] ELSE home[u][x]]
<1>1. merged \in Scores
  BY DEF TypeOK, Scores
<1>2. BackFilled(u, a) = [home EXCEPT ![u] = Trim(merged)]
  BY DEF BackFilled
<1>3. \A p \in Posts : merged[p] = IF userTimeline[a][p] > 0 THEN userTimeline[a][p]
                                                             ELSE home[u][p]
  BY AllRecent
<1> HIDE DEF merged
<1>4. \A p \in Posts : Trim(merged)[p] = merged[p]
  BY <1>1, NothingTrimmed
<1> QED
  BY <1>2, <1>3, <1>4 DEF TypeOK

\* What the timeline of an author whose posts are not in motion shows of them.
LEMMA GoodRead ==
    ASSUME TypeOK, Ledger, TakenUp, UserTimelines, NEW p \in Posts, Clear(p),
           ~Unsettled(Author[p])
    PROVE  /\ \A j \in begun : Deleted(j, p) => j \in handled["home"]
           /\ DeletionBegun(p) => userTimeline[Author[p]][p] = 0
           /\ ~DeletionBegun(p) /\ (\E i \in begun : Created(i, p)) =>
                 userTimeline[Author[p]][p] > 0
<1>1. ASSUME NEW i \in begun, Created(i, p) \/ Deleted(i, p)
      PROVE  i \in handled["home"] /\ i \in handled["usertimeline"]
  <2>1. i \in DOMAIN log
    BY DEF TypeOK
  <2>2. log[i].type \in PostEvents /\ log[i].user = Author[p]
    BY <1>1, <2>1 DEF Ledger, ByAuthors, Created, Deleted, PostEvents
  <2> QED
    BY <2>1, <2>2 DEF Unsettled
<1> QED
  BY <1>1 DEF UserTimelines, DeletionBegun

\* What the timeline of an author holds that is clear is theirs.
LEMMA ReadIsTheirs ==
    ASSUME TypeOK, Ledger, UserTimelines, NEW p \in Posts, NEW a \in Users,
           userTimeline[a][p] > 0
    PROVE  /\ \E i \in begun : /\ log[i].about = p
                               /\ log[i].type \in {"post.created", "post.reposted"}
           /\ ~Reposted(p) => a = Author[p]
<1>1. PICK i \in begun : /\ log[i].user = a /\ log[i].about = p
                         /\ log[i].type \in {"post.created", "post.reposted"}
  BY DEF UserTimelines
<1>2. i \in DOMAIN log
  BY DEF TypeOK
<1> QED
  BY <1>1, <1>2 DEF Reposted, Ledger, ByAuthors

\* A step that puts no post into a home.
LEMMA SoundKept ==
    ASSUME TypeOK, Sound, NEW u \in Users, NEW p \in Posts,
           \A i \in DOMAIN log : log'[i] = log[i],
           begun \subseteq begun', misread \subseteq misread',
           Clear(p)' => Clear(p),
           home'[u][p] > 0 => home[u][p] > 0,
           u \in followers[Author[p]] =>
               u \in followers'[Author[p]] \/ Leaver(u, Author[p])',
           Leaver(u, Author[p]) => Leaver(u, Author[p])',
           handled'["home"] = handled["home"],
           \/ msg' = msg /\ (step' = "done" => step = "done")
           \/ Spared(u, p)'
    PROVE  SoundFor(u, p)'
<1>0. /\ begun \subseteq DOMAIN log /\ handled["home"] \subseteq DOMAIN log
      /\ msg # 0 => msg \in DOMAIN log
  BY DEF TypeOK, Groups
<1> SUFFICES ASSUME home'[u][p] > 0
             PROVE  /\ \E i \in begun' : /\ log'[i].about = p
                                         /\ log'[i].type \in {"post.created", "post.reposted"}
                    /\ Clear(p)' => <<u, Author[p]>> \in misread' \/ Rightful(u, p)'
  BY DEF SoundFor
<1>1. home[u][p] > 0 /\ SoundFor(u, p)
  BY DEF Sound
<1>2. \E i \in begun' : /\ log'[i].about = p
                        /\ log'[i].type \in {"post.created", "post.reposted"}
  BY <1>0, <1>1 DEF SoundFor
<1>3. ASSUME Clear(p), <<u, Author[p]>> \notin misread
      PROVE  Rightful(u, p)'
  <2>1. Rightful(u, p)
    BY <1>1, <1>3 DEF SoundFor
  <2>2. \A j \in handled'["home"] : ~Deleted(j, p)'
    BY <1>0, <2>1 DEF Rightful, Deleted
  <2>3. Spared(u, p)'
    <3> SUFFICES ASSUME msg # 0, msg' = msg, step' = "done", step = "done"
                 PROVE  Spared(u, p)'
      BY DEF Spared
    <3>1. ~Deleted(msg, p) /\ ~Unfollowed(msg, u, Author[p])
      BY <2>1 DEF Rightful, Spared
    <3>2. log'[msg] = log[msg]
      BY <1>0
    <3> QED
      BY <3>1, <3>2 DEF Spared, Deleted, Unfollowed
  <2> QED
    BY <2>1, <2>2, <2>3 DEF Rightful
<1> QED
  BY <1>2, <1>3

\* A home handler's step that writes the homes.
LEMMA SoundWritten ==
    ASSUME TypeOK, Sound, Within, followers' = followers,
           NEW u \in Users, NEW p \in Posts,
           home'[u][p] > 0 =>
               /\ \/ home[u][p] > 0
                  \/ \E i \in begun : /\ log[i].about = p
                                      /\ log[i].type \in {"post.created", "post.reposted"}
               /\ Clear(p) /\ <<u, Author[p]>> \notin misread' =>
                     /\ home[u][p] > 0 \/ u \in followers[Author[p]] \union {Author[p]}
                     /\ home[u][p] > 0 \/ \A j \in handled["home"] : ~Deleted(j, p)
                     /\ ~Deleted(msg, p) /\ ~Unfollowed(msg, u, Author[p])
    PROVE  SoundFor(u, p)'
<1>0. /\ log' = log /\ handled' = handled /\ parked' = parked /\ begun' = begun
      /\ crossed' = crossed /\ msg' = msg /\ misread \subseteq misread'
  BY DEF Within
<1>1. /\ Clear(p)' <=> Clear(p)
      /\ Leaver(u, Author[p])' <=> Leaver(u, Author[p])
      /\ \A j : Deleted(j, p)' <=> Deleted(j, p)
      /\ ~Deleted(msg, p) /\ ~Unfollowed(msg, u, Author[p]) => Spared(u, p)'
  BY <1>0 DEF Clear, Reposted, Written, Leaver, Open, Deleted, Unfollowed, Spared
<1>2. SoundFor(u, p)
  BY DEF Sound
<1> SUFFICES ASSUME home'[u][p] > 0
             PROVE  /\ \E i \in begun : /\ log[i].about = p
                                        /\ log[i].type \in {"post.created", "post.reposted"}
                    /\ Clear(p) => <<u, Author[p]>> \in misread' \/ Rightful(u, p)'
  BY <1>0, <1>1 DEF SoundFor
<1>3. ASSUME Clear(p), <<u, Author[p]>> \notin misread'
      PROVE  Rightful(u, p)'
  <2>1. <<u, Author[p]>> \notin misread
    BY <1>0, <1>3
  <2>2. home[u][p] > 0 => Rightful(u, p)
    BY <1>2, <1>3, <2>1 DEF SoundFor
  <2>3. u \in followers[Author[p]] \union {Author[p]} \/ Leaver(u, Author[p])
    BY <1>3, <2>2 DEF Rightful
  <2>4. \A j \in handled["home"] : ~Deleted(j, p)
    BY <1>3, <2>2 DEF Rightful
  <2>5. ~Deleted(msg, p) /\ ~Unfollowed(msg, u, Author[p])
    BY <1>3
  <2> QED
    BY <1>0, <1>1, <2>3, <2>4, <2>5 DEF Rightful
<1> QED
  BY <1>2, <1>3 DEF SoundFor

\* A post is not pushed after its deletion was handled, unless history says so.
LEMMA NotDeletedYet ==
    ASSUME TypeOK, FeedBase, msg # 0, NEW p \in Posts, Created(msg, p), Clear(p)
    PROVE  \A j \in handled["home"] : ~Deleted(j, p)
<1> SUFFICES ASSUME NEW j \in handled["home"], Deleted(j, p)
             PROVE  FALSE
  OBVIOUS
<1>1. j \in DOMAIN log /\ msg \in DOMAIN log /\ j \in Nat /\ msg \in Nat
  BY DEF TypeOK, Groups
<1>2. Subject(j) = Written(p) /\ Subject(msg) = Written(p)
  BY <1>1, DeletedSubject DEF FeedBase
<1>3. j <= msg
  BY <1>2 DEF FeedBase, GraphInv, InTurn, Clear, Groups
<1>4. msg < j
  BY <1>1 DEF FeedBase, Ledger, OneDeletion
<1> QED
  BY <1>1, <1>3, <1>4

\* The event in hand, in full.
LEMMA InHand ==
    ASSUME TypeOK, FeedBase, msg # 0
    PROVE  /\ msg \in begun /\ msg \in DOMAIN log /\ msg \in Nat /\ msg > 0
           /\ msg \notin handled["home"] /\ msg \in Open
           /\ User \in Users
           /\ log[msg].type \in EdgeEvents => About \in Users
           /\ log[msg].type \in PostEvents => About \in Posts
           /\ log[msg].type \in {"post.created", "post.deleted"} => User = Author[About]
           /\ log[msg].type \in {"post.reposted", "post.unreposted"} => Reposted(About)
           /\ log[msg].type = "user.followed" => Followed(msg, User, About)
           /\ log[msg].type = "user.unfollowed" => Unfollowed(msg, User, About)
<1>1. /\ msg \in DOMAIN log /\ msg \in Nat /\ msg > 0 /\ User \in Users
      /\ log[msg].type \in EdgeEvents => About \in Users
      /\ log[msg].type \in PostEvents => About \in Posts
  BY InHandTyped
<1>2. msg \in begun /\ msg \notin handled["home"]
  BY DEF FeedBase, TakenUp, EdgeInv, EdgeProgress
<1>3. msg \in Open
  BY <1>1, <1>2 DEF Open
<1>4. log[msg].type \in {"post.created", "post.deleted"} => User = Author[About]
  BY <1>1 DEF FeedBase, Ledger, ByAuthors, User, About
<1>5. log[msg].type \in {"post.reposted", "post.unreposted"} => Reposted(About)
  <2>1. CASE log[msg].type = "post.reposted"
    BY <1>1, <2>1 DEF Reposted, About
  <2>2. CASE log[msg].type = "post.unreposted"
    BY <1>1, <2>2 DEF FeedBase, Ledger, ByAuthors, About, PostEvents
  <2> QED
    BY <2>1, <2>2
<1>6. log[msg] = [type |-> log[msg].type, user |-> User, about |-> About]
  BY <1>1 DEF TypeOK, Events, User, About
<1>7. /\ log[msg].type = "user.followed" => Followed(msg, User, About)
      /\ log[msg].type = "user.unfollowed" => Unfollowed(msg, User, About)
  BY <1>6 DEF Followed, Unfollowed
<1> QED
  BY <1>1, <1>2, <1>3, <1>4, <1>5, <1>7

LEMMA NeitherNor ==
    ASSUME NEW i, log[i].type \notin {"post.deleted", "user.unfollowed"}
    PROVE  \A u, p, a : ~Deleted(i, p) /\ ~Unfollowed(i, u, a)
  BY DEF Deleted, Unfollowed

LEMMA SoundHandler ==
    ASSUME PostsFit, TypeOK, TypeOK', FeedBase, Sound, HomeHandler
    PROVE  Sound'
<1>0. /\ Within
      /\ \A i \in DOMAIN log : log'[i] = log[i]
      /\ begun \subseteq begun' /\ misread \subseteq misread'
      /\ handled' = handled /\ parked' = parked /\ msg' = msg /\ msg # 0
  BY HandlersAre DEF Within
<1>00. \A p \in Posts : Clear(p)' <=> Clear(p)
  BY <1>0 DEF Within, Clear, Reposted, Written
<1>01. \A u, a : Leaver(u, a)' <=> Leaver(u, a)
  BY <1>0 DEF Within, Leaver, Open, Unfollowed
<1>1. CASE PushPost
  <2>1. /\ log[msg].type = "post.created" /\ followers' = followers
        /\ home' = FanOut(followers[User] \union {User}, About, msg)
    BY <1>1 DEF PushPost, At, OnHome, graph
  <2>2. /\ msg \in begun /\ msg \in Nat /\ About \in Posts /\ User = Author[About]
        /\ log[msg].about = About
    BY <1>0, <2>1, InHand DEF PostEvents, About
  <2>3. \A u \in Users, p \in Posts : home'[u][p] =
            IF u \in followers[User] \union {User} /\ p = About THEN msg ELSE home[u][p]
    BY <2>1, <2>2, FanOutIs
  <2> SUFFICES ASSUME NEW u \in Users, NEW p \in Posts
               PROVE  SoundFor(u, p)'
    BY DEF Sound
  <2>4. ~Deleted(msg, p) /\ ~Unfollowed(msg, u, Author[p])
    BY <2>1, NeitherNor
  <2>5. p = About /\ Clear(p) => \A j \in handled["home"] : ~Deleted(j, p)
    BY <1>0, <2>1, <2>2, NotDeletedYet DEF Created
  <2> QED
    BY <1>0, <2>1, <2>2, <2>3, <2>4, <2>5, SoundWritten
<1>2. CASE PushToAuthor
  <2>1. /\ log[msg].type = "post.created" /\ followers' = followers
        /\ home' = FanOut({User}, About, msg)
    BY <1>2 DEF PushToAuthor, At, OnHome, graph
  <2>2. /\ msg \in begun /\ msg \in Nat /\ About \in Posts /\ User = Author[About]
        /\ log[msg].about = About
    BY <1>0, <2>1, InHand DEF PostEvents, About
  <2>3. \A u \in Users, p \in Posts : home'[u][p] =
            IF u \in {User} /\ p = About THEN msg ELSE home[u][p]
    BY <2>1, <2>2, FanOutIs
  <2> SUFFICES ASSUME NEW u \in Users, NEW p \in Posts
               PROVE  SoundFor(u, p)'
    BY DEF Sound
  <2>4. ~Deleted(msg, p) /\ ~Unfollowed(msg, u, Author[p])
    BY <2>1, NeitherNor
  <2>5. p = About /\ Clear(p) => \A j \in handled["home"] : ~Deleted(j, p)
    BY <1>0, <2>1, <2>2, NotDeletedYet DEF Created
  <2> QED
    BY <1>0, <2>1, <2>2, <2>3, <2>4, <2>5, SoundWritten
<1>3. CASE PushRepost
  <2>1. /\ log[msg].type = "post.reposted" /\ followers' = followers
        /\ home' = FanOut(followers[User] \union {User}, About, msg)
    BY <1>3 DEF PushRepost, At, OnHome, graph
  <2>2. /\ msg \in begun /\ msg \in Nat /\ About \in Posts /\ Reposted(About)
        /\ log[msg].about = About
    BY <1>0, <2>1, InHand DEF PostEvents, About
  <2>3. \A u \in Users, p \in Posts : home'[u][p] =
            IF u \in followers[User] \union {User} /\ p = About THEN msg ELSE home[u][p]
    BY <2>1, <2>2, FanOutIs
  <2> SUFFICES ASSUME NEW u \in Users, NEW p \in Posts
               PROVE  SoundFor(u, p)'
    BY DEF Sound
  <2>4. ~Deleted(msg, p) /\ ~Unfollowed(msg, u, Author[p])
    BY <2>1, NeitherNor
  <2>5. p = About => ~Clear(p)
    BY <2>2 DEF Clear
  <2> QED
    BY <1>0, <2>1, <2>2, <2>3, <2>4, <2>5, SoundWritten
<1>4. CASE RemovePost
  <2>1. /\ log[msg].type \in {"post.deleted", "post.unreposted"} /\ followers' = followers
        /\ home' = RemoveFrom(followers[User] \union {User}, {About})
        /\ misread' = misread \union (Leaving(User) \X {User})
    BY <1>4 DEF RemovePost, At, OnHome, graph
  <2>2. \A u \in Users, p \in Posts : home'[u][p] =
            IF u \in followers[User] \union {User} /\ p = About THEN 0 ELSE home[u][p]
    BY <2>1 DEF RemoveFrom
  <2> SUFFICES ASSUME NEW u \in Users, NEW p \in Posts
               PROVE  SoundFor(u, p)'
    BY DEF Sound
  <2>3. ~Unfollowed(msg, u, Author[p])
    BY <2>1 DEF Unfollowed
  <2>4. ASSUME home'[u][p] > 0, Clear(p), <<u, Author[p]>> \notin misread'
        PROVE  ~Deleted(msg, p)
    <3> SUFFICES ASSUME Deleted(msg, p) PROVE FALSE
      OBVIOUS
    <3>1. p = About /\ User = Author[p] /\ User \in Users
      BY <1>0, InHand DEF Deleted, About
    <3>2. home[u][p] > 0 /\ u \notin followers[User] \union {User}
      BY <2>2, <2>4, <3>1
    <3>3. Leaver(u, Author[p])
      BY <2>1, <2>4, <3>1, <3>2 DEF Sound, SoundFor, Rightful
    <3>4. u \in Leaving(User)
      BY <3>1, <3>2, <3>3 DEF Leaver, Leaving, Unfollowed
    <3> QED
      BY <2>1, <2>4, <3>1, <3>4
  <2>5. home'[u][p] > 0 => home[u][p] > 0
    BY <2>2
  <2> QED
    BY <1>0, <2>1, <2>3, <2>4, <2>5, SoundWritten
<1>5. CASE BackFill
  <2>1. /\ log[msg].type = "user.followed" /\ followers' = followers
        /\ User \in followers[About]
        /\ \/ home' = BackFilled(User, About) /\ Reading
           \/ home' = home
    BY <1>0, <1>5
    DEF BackFill, At, OnHome, graph, FeedBase, EdgeInv, EdgeProgress
  <2>2. User \in Users /\ About \in Users
    BY <1>0, <2>1, InHand DEF EdgeEvents
  <2>3. ASSUME home' # home, NEW u \in Users, NEW p \in Posts
        PROVE  home'[u][p] = IF u = User /\ userTimeline[About][p] > 0
                             THEN userTimeline[About][p] ELSE home[u][p]
    BY <2>1, <2>2, <2>3, BackFillIs
  <2> SUFFICES ASSUME NEW u \in Users, NEW p \in Posts
               PROVE  SoundFor(u, p)'
    BY DEF Sound
  <2>4. ~Deleted(msg, p) /\ ~Unfollowed(msg, u, Author[p])
    BY <2>1, NeitherNor
  <2>5. CASE home'[u][p] > 0 => home[u][p] > 0
    BY <1>0, <2>1, <2>4, <2>5, SoundWritten
  <2>6. CASE home'[u][p] > 0 /\ ~(home[u][p] > 0)
    <3>1. /\ u = User /\ userTimeline[About][p] > 0
          /\ home' = BackFilled(User, About) /\ Reading
      BY <2>1, <2>3, <2>6
    <3>2. /\ \E i \in begun : /\ log[i].about = p
                              /\ log[i].type \in {"post.created", "post.reposted"}
          /\ ~Reposted(p) => About = Author[p]
      BY <2>2, <3>1, ReadIsTheirs DEF FeedBase
    <3>3. ASSUME Clear(p), <<u, Author[p]>> \notin misread'
          PROVE  /\ u \in followers[Author[p]]
                 /\ \A j \in handled["home"] : ~Deleted(j, p)
      <4>1. About = Author[p]
        BY <3>2, <3>3 DEF Clear
      <4>2. ~Unsettled(Author[p])
        BY <3>1, <3>3, <4>1 DEF Reading, Misread
      <4>3. ~DeletionBegun(p)
        BY <3>1, <3>3, <4>1, <4>2, GoodRead DEF FeedBase
      <4>4. ASSUME NEW j \in handled["home"], Deleted(j, p)
            PROVE  FALSE
        <5>1. log[j].type \in PostEvents
          BY <4>4 DEF Deleted, PostEvents
        <5>2. j \in begun
          BY <5>1 DEF FeedBase, TakenUp, Groups
        <5> QED
          BY <4>3, <4>4, <5>2 DEF DeletionBegun
      <4> QED
        BY <2>1, <3>1, <4>1, <4>4
    <3> QED
      BY <1>0, <2>1, <2>4, <3>2, <3>3, SoundWritten
  <2> QED
    BY <2>5, <2>6
<1>6. CASE Purge
  <2>1. /\ log[msg].type = "user.unfollowed" /\ followers' = followers
        /\ \/ home' = RemoveFrom({User}, RecentPosts(About)) /\ Reading
           \/ home' = home /\ misread' = Misread
    BY <1>6 DEF Purge, At, OnHome, graph
  <2>2. User \in Users /\ About \in Users
    BY <1>0, <2>1, InHand DEF EdgeEvents
  <2>3. RecentPosts(About) = {p \in Posts : userTimeline[About][p] > 0}
    BY <2>2, AllRecent
  <2>4. \A u \in Users, p \in Posts : home'[u][p] > 0 => home[u][p] > 0
    BY <2>1 DEF RemoveFrom
  <2> SUFFICES ASSUME NEW u \in Users, NEW p \in Posts
               PROVE  SoundFor(u, p)'
    BY DEF Sound
  <2>5. ~Deleted(msg, p)
    BY <2>1 DEF Deleted
  <2>6. ASSUME home'[u][p] > 0, Clear(p), <<u, Author[p]>> \notin misread'
        PROVE  ~Unfollowed(msg, u, Author[p])
    <3> SUFFICES ASSUME Unfollowed(msg, u, Author[p]) PROVE FALSE
      OBVIOUS
    <3>1. u = User /\ About = Author[p]
      BY DEF Unfollowed, User, About
    <3>2. home' = RemoveFrom({User}, RecentPosts(About)) /\ Reading
      BY <2>1, <2>6, <3>1 DEF Misread
    <3>3. ~Unsettled(Author[p]) /\ <<u, Author[p]>> \notin misread
      BY <1>0, <2>6, <3>1, <3>2 DEF Reading, Misread
    <3>4. p \notin RecentPosts(About)
      BY <2>6, <3>1, <3>2 DEF RemoveFrom
    <3>5. ~(userTimeline[Author[p]][p] > 0)
      BY <2>3, <3>1, <3>4
    <3>6. SoundFor(u, p) /\ home[u][p] > 0
      BY <2>4, <2>6 DEF Sound
    <3>7. \E i \in begun : Created(i, p)
      BY <2>6, <3>6 DEF SoundFor, Clear, Reposted, Created, TypeOK
    <3>8. \A j \in handled["home"] : ~Deleted(j, p)
      BY <2>6, <3>3, <3>6 DEF SoundFor, Rightful
    <3>9. ~DeletionBegun(p)
      BY <2>6, <3>3, <3>8, GoodRead DEF FeedBase, DeletionBegun
    <3> QED
      BY <2>6, <3>3, <3>5, <3>7, <3>9, GoodRead DEF FeedBase
  <2> QED
    BY <1>0, <2>1, <2>4, <2>5, <2>6, SoundWritten
<1>7. ASSUME \/ MarkAuthor \/ AddFollower \/ AddFollowing \/ Promote
             \/ RemoveFollowing \/ DemoteIfBelow
      PROVE  Sound'
  <2>1. /\ home' = home
        /\ step' = "done" => log[msg].type = "user.followed"
    BY <1>7
    DEF MarkAuthor, AddFollower, AddFollowing, Promote, RemoveFollowing,
        DemoteIfBelow, OnGraph, At
  <2>2. \/ followers' = followers
        \/ followers' = [followers EXCEPT ![About] = @ \union {User}]
    BY <1>7
    DEF MarkAuthor, AddFollower, AddFollowing, Promote, RemoveFollowing,
        DemoteIfBelow
  <2>3. \A a \in Users : followers[a] \subseteq followers'[a]
    BY <2>2 DEF TypeOK
  <2> SUFFICES ASSUME NEW u \in Users, NEW p \in Posts
               PROVE  SoundFor(u, p)'
    BY DEF Sound
  <2>4. step' = "done" => ~Deleted(msg, p) /\ ~Unfollowed(msg, u, Author[p])
    BY <2>1 DEF Deleted, Unfollowed
  <2>5. Spared(u, p)'
    BY <1>0, <2>4 DEF Spared, Deleted, Unfollowed, Within
  <2>6. Author[p] \in Users
    BY HomeAssumption
  <2> QED
    BY <1>0, <1>00, <1>01, <2>1, <2>3, <2>5, <2>6, SoundKept
<1>8. CASE RemoveFollower
  <2>1. /\ home' = home /\ step' = "first" /\ log[msg].type = "user.unfollowed"
        /\ followers' = [followers EXCEPT ![About] = @ \ {User}]
    BY <1>8 DEF RemoveFollower, OnGraph, At
  <2>2. Leaver(User, About)
    BY <1>0, <2>1, InHand DEF Leaver
  <2> SUFFICES ASSUME NEW u \in Users, NEW p \in Posts
               PROVE  SoundFor(u, p)'
    BY DEF Sound
  <2>3. Author[p] \in Users
    BY HomeAssumption
  <2>4. u \in followers[Author[p]] =>
           u \in followers'[Author[p]] \/ Leaver(u, Author[p])'
    BY <1>01, <2>1, <2>2, <2>3 DEF TypeOK
  <2>5. Spared(u, p)'
    BY <2>1 DEF Spared
  <2> QED
    BY <1>0, <1>00, <1>01, <2>1, <2>4, <2>5, SoundKept
<1> QED
  BY <1>1, <1>2, <1>3, <1>4, <1>5, <1>6, <1>7, <1>8 DEF HomeHandler

\* The event in hand is done with, or dead-lettered.
LEMMA SoundMark ==
    ASSUME TypeOK, TypeOK', FeedBase, Sound, Mark
    PROVE  Sound'
<1>1. /\ log' = log /\ home' = home /\ followers' = followers /\ begun' = begun
      /\ crossed' = crossed /\ misread' = misread
      /\ handled'["home"] = handled["home"] \union {msg}
      /\ parked \subseteq parked' /\ (step = "done" \/ msg \in parked')
      /\ msg # 0 /\ msg' = 0 /\ msg \in DOMAIN log
  BY DEF Mark, history, graph, TypeOK, Groups
<1> SUFFICES ASSUME NEW u \in Users, NEW p \in Posts, home[u][p] > 0
             PROVE  /\ \E i \in begun : /\ log[i].about = p
                                        /\ log[i].type \in {"post.created", "post.reposted"}
                    /\ Clear(p)' => <<u, Author[p]>> \in misread \/ Rightful(u, p)'
  BY <1>1 DEF Sound, SoundFor
<1>2. SoundFor(u, p)
  BY DEF Sound
<1>3. ASSUME Clear(p)', <<u, Author[p]>> \notin misread
      PROVE  Rightful(u, p)'
  <2>1. Clear(p)
    BY <1>1, <1>3 DEF Clear, Reposted, Written
  <2>2. Rightful(u, p)
    BY <1>2, <1>3, <2>1 DEF SoundFor
  <2>3. ~Deleted(msg, p)
    <3>1. CASE step = "done"
      BY <1>1, <2>2, <3>1 DEF Rightful, Spared
    <3>2. CASE msg \in parked'
      BY <1>1, <1>3, <3>2 DEF Clear, Deleted
    <3> QED
      BY <1>1, <3>1, <3>2
  <2>4. \A j \in handled'["home"] : ~Deleted(j, p)'
    BY <1>1, <2>2, <2>3 DEF Rightful, Deleted
  <2>5. Leaver(u, Author[p]) => Leaver(u, Author[p])'
    <3> SUFFICES ASSUME NEW i \in Open, Unfollowed(i, u, Author[p])
                 PROVE  i \in Open'
      BY <1>1 DEF Leaver, Unfollowed
    <3>1. i # msg \/ msg \in parked'
      BY <1>1, <2>2 DEF Rightful, Spared
    <3> QED
      BY <1>1, <3>1 DEF Open, TypeOK
  <2>6. Spared(u, p)'
    BY <1>1 DEF Spared
  <2> QED
    BY <1>1, <2>2, <2>4, <2>5, <2>6 DEF Rightful
<1> QED
  BY <1>2, <1>3 DEF SoundFor

LEMMA SoundStep ==
    ASSUME PostsFit, TypeOK, TypeOK', FeedBase, Sound, [Next]_vars
    PROVE  Sound'
<1>0. begun \subseteq begun' /\ \A p \in Posts : Clear(p)' => Clear(p)
  BY HistoryStep DEF FeedBase
<1>1. ASSUME \A i \in DOMAIN log : i \in DOMAIN log' /\ log'[i] = log[i],
             misread' = misread, home' = home, followers' = followers,
             handled'["home"] = handled["home"], parked \subseteq parked',
             \/ msg' = msg /\ step' = step
             \/ msg' = 0 \/ step' = "start"
      PROVE  Sound'
  <2> SUFFICES ASSUME NEW u \in Users, NEW p \in Posts
               PROVE  SoundFor(u, p)'
    BY DEF Sound
  <2>1. Leaver(u, Author[p]) => Leaver(u, Author[p])'
    <3>1. \A i \in Open : i \in Open' /\ log'[i] = log[i]
      BY <1>1 DEF Open, TypeOK
    <3> QED
      BY <3>1 DEF Leaver, Unfollowed
  <2>2. \/ msg' = msg /\ (step' = "done" => step = "done")
        \/ Spared(u, p)'
    BY <1>1 DEF Spared
  <2> QED
    BY <1>0, <1>1, <2>1, <2>2, SoundKept
<1>2. CASE UserActs
  BY <1>1, <1>2, ActKeeps
<1>3. ASSUME NEW i \in DOMAIN log, HandleUserTimeline(i)
      PROVE  Sound'
  <2>1. /\ log' = log /\ misread' = misread /\ home' = home /\ followers' = followers
        /\ handled'["home"] = handled["home"] /\ parked \subseteq parked'
        /\ msg' = msg /\ step' = step
    BY <1>3 DEF HandleUserTimeline, Takes, graph, worker, TypeOK, Groups
  <2> QED
    BY <1>1, <2>1
<1>4. ASSUME NEW i \in DOMAIN log, Take(i)
      PROVE  Sound'
  <2>1. /\ log' = log /\ misread' = misread /\ home' = home /\ followers' = followers
        /\ handled' = handled /\ parked' = parked /\ step' = "start"
    BY <1>4 DEF Take, Takes, graph
  <2> QED
    BY <1>1, <2>1
<1>5. CASE HomeHandler
  BY <1>5, SoundHandler
<1>6. CASE Mark
  BY <1>6, SoundMark
<1>7. CASE Crash \/ UNCHANGED vars
  BY <1>1, <1>7 DEF Crash, history, graph, vars
<1> QED
  BY <1>2, <1>3, <1>4, <1>5, <1>6, <1>7 DEF Next, UserTimelineWorker, HomeWorker

\* A clear post whose creation and deletion both services are done with is live
\* exactly when the homes and timelines have it.
LEMMA ClearIsLive ==
    ASSUME TypeOK, FeedBase, NEW p \in Posts, Clear(p), Written(p) \notin lost,
           NEW i \in DOMAIN log, Created(i, p),
           \A j \in DOMAIN log : ~Deleted(j, p)
    PROVE  p \in live
  BY DEF FeedBase, Ledger, Clear, Alive

LEMMA SoundSuffices ==
    ASSUME TypeOK, FeedBase, Sound
    PROVE  FeedSound
<1> SUFFICES ASSUME Quiescent, NEW u \in Users, NEW p \in Visible(u),
                    ~StrayPost(p), ~StrayEdge(u, Author[p])
             PROVE  p \in FeedOf(u)
  BY DEF FeedSound
<1>1. p \in Posts /\ Author[p] \in Users
  BY HomeAssumption DEF Visible, RecentPosts, Newest
<1>2. Clear(p) /\ Written(p) \notin lost
  <2>1. \A i \in parked : log[i].about # p
    BY DEF StrayPost, TypeOK
  <2>2. ~Reposted(p)
    BY DEF StrayPost, Reposted
  <2> QED
    BY <2>1, <2>2 DEF StrayPost, Clear, Written
<1>3. /\ <<u, Author[p]>> \notin misread \union lost \union crossed["home"]
      /\ ~OwedEdge(u, Author[p])
  BY DEF StrayEdge
<1>4. u \in followers[Author[p]] <=> <<u, Author[p]>> \in follows
  BY <1>1, <1>3 DEF FeedBase, GraphInv, GraphCurrent
<1>5. CASE home[u][p] > 0
  <2>1. SoundFor(u, p)
    BY <1>1 DEF Sound
  <2>2. Rightful(u, p)
    BY <1>2, <1>3, <1>5, <2>1 DEF SoundFor
  <2>3. ~Leaver(u, Author[p])
    BY <1>3 DEF OwedEdge, Leaver, Unfollowed, EdgeEvents
  <2>4. u \in followers[Author[p]] \union {Author[p]}
    BY <2>2, <2>3 DEF Rightful
  <2>5. \A j \in DOMAIN log : ~Deleted(j, p)
    BY <2>2 DEF Rightful, Quiescent, Groups
  <2>6. PICK i \in begun : /\ log[i].about = p
                           /\ log[i].type \in {"post.created", "post.reposted"}
    BY <1>5, <2>1 DEF SoundFor
  <2>7. i \in DOMAIN log /\ Created(i, p)
    BY <1>2, <2>6 DEF TypeOK, Clear, Reposted, Created
  <2>8. p \in live
    BY <1>1, <1>2, <2>5, <2>7, ClearIsLive
  <2> QED
    BY <1>1, <1>4, <2>4, <2>8 DEF FeedOf, Sources
<1>6. CASE \E c \in CelebsFollowed(u) : p \in RecentPosts(c)
  <2>1. PICK c \in Users : c \in following[u] /\ userTimeline[c][p] > 0
    BY <1>6 DEF CelebsFollowed, RecentPosts, Newest, TypeOK
  <2>2. c = Author[p]
    BY <1>1, <1>2, <2>1, ReadIsTheirs DEF FeedBase, Clear
  <2>3. u \in followers[Author[p]]
    BY <1>1, <1>3, <2>1, <2>2 DEF FeedBase, EdgeInv, EdgesAgree
  <2>4. PICK i \in begun : log[i].about = p /\ log[i].type \in {"post.created", "post.reposted"}
    BY <1>1, <2>1, ReadIsTheirs DEF FeedBase
  <2>5. i \in DOMAIN log /\ Created(i, p)
    BY <1>2, <2>4 DEF TypeOK, Clear, Reposted, Created
  <2>6. \A j \in DOMAIN log : ~Deleted(j, p)
    <3> SUFFICES ASSUME NEW j \in DOMAIN log, Deleted(j, p) PROVE FALSE
      OBVIOUS
    <3>1. j \in handled["usertimeline"]
      BY DEF Quiescent, Groups
    <3>2. userTimeline[Author[p]][p] = 0
      BY <1>1, <1>2, <3>1 DEF FeedBase, UserTimelines
    <3> QED
      BY <2>1, <2>2, <3>2
  <2>7. p \in live
    BY <1>1, <1>2, <2>5, <2>6, ClearIsLive
  <2> QED
    BY <1>1, <1>4, <2>3, <2>7 DEF FeedOf, Sources
<1> QED
  BY <1>5, <1>6 DEF Visible

\* When all events are handled, in whatever order topics and services took them
\* and whatever was lost, parked or cut short, a home timeline shows no deleted
\* post and no post of an account unfollowed, but for the posts and edges that
\* the faults hit (remove_post, purge of timeline/store.py).  No more posts may
\* be written than a home and recent_posts hold.
THEOREM FeedsSound ==
    ASSUME PostsFit PROVE Spec => []FeedSound
<1>1. Init => FeedBase /\ Sound
  <2>1. Init => Sound
    BY DEF Init, Sound, SoundFor
  <2> QED
    BY <2>1, FeedBaseInit
<1>2. TypeOK /\ TypeOK' /\ FeedBase /\ Sound /\ [Next]_vars => FeedBase' /\ Sound'
  BY FeedBaseStep, SoundStep
<1>3. TypeOK /\ FeedBase /\ Sound => FeedSound
  BY SoundSuffices
<1> QED
  BY <1>1, <1>2, <1>3, TypeCorrect, PTL DEF Spec

-----------------------------------------------------------------------------
(* A home misses nothing.                                                   *)
Celebrated(a) == a \in celebrities \union demoted

Pushed(p) == \E i \in handled["home"] : Created(i, p)

\* The follow of u is owed, and has not just been carried out.
Owing(u, a) ==
    /\ \E i \in Open : Followed(i, u, a)
    /\ ~(msg # 0 /\ step = "done" /\ Followed(msg, u, a))

\* What a post whose creation is in hand has reached.
Reaching(u, p) ==
    msg # 0 /\ Created(msg, p) =>
        /\ step = "marked" => Author[p] \in celebrities
        /\ step = "done" /\ u = Author[p] => home[u][p] > 0
        /\ step = "done" /\ u \in followers[Author[p]] =>
              home[u][p] > 0 \/ Celebrated(Author[p])

\* And one that was pushed.
Reached(u, p) ==
    Pushed(p) =>
        /\ u = Author[p] => home[u][p] > 0
        /\ u \in followers[Author[p]] /\ ~Owing(u, Author[p]) =>
              \/ home[u][p] > 0
              \/ <<u, Author[p]>> \in misread
              \/ Celebrated(Author[p])

CompleteFor(u, p) ==
    Clear(p) /\ ~DeletionBegun(p) => Reached(u, p) /\ Reaching(u, p)

Complete == \A u \in Users, p \in Posts : CompleteFor(u, p)

\* Nobody unfollows themselves, which would purge their own posts.
NotThemselves == \A e \in MayFollow : e[1] # e[2]
NotOneself ==
    \A i \in DOMAIN log : log[i].type \in EdgeEvents => log[i].user # log[i].about

LEMMA NotOneselfStep ==
    ASSUME NotThemselves, TypeOK, NotOneself, [Next]_vars
    PROVE  NotOneself'
<1>1. ASSUME NEW type, NEW user, NEW about, Emit(type, user, about),
             type \in EdgeEvents => user # about
      PROVE  NotOneself'
  <2>1. /\ DOMAIN log' = DOMAIN log \union {Len(log) + 1}
        /\ \A i \in DOMAIN log : log'[i] = log[i]
        /\ log'[Len(log) + 1] = [type |-> type, user |-> user, about |-> about]
    BY <1>1, Appended
  <2>2. /\ log'[Len(log) + 1].type = type /\ log'[Len(log) + 1].user = user
        /\ log'[Len(log) + 1].about = about
    BY <2>1
  <2> QED
    BY <1>1, <2>1, <2>2 DEF NotOneself
<1>2. ASSUME log' = log
      PROVE  NotOneself'
  BY <1>2 DEF NotOneself
<1>3. ASSUME NEW type, NEW user, NEW about, Publish(type, user, about),
             type \in EdgeEvents => user # about
      PROVE  NotOneself'
  BY <1>1, <1>2, <1>3 DEF Publish, Lose
<1>4. CASE UserActs
  <2>1. ASSUME NEW p \in Posts, CreatePost(p) \/ DeletePost(p)
        PROVE  NotOneself'
    BY <1>3, <2>1 DEF CreatePost, DeletePost, EdgeEvents
  <2>2. ASSUME NEW u \in Users, NEW p \in Posts, Repost(u, p)
        PROVE  NotOneself'
    BY <1>1, <2>2 DEF Repost, EdgeEvents
  <2>3. ASSUME NEW i \in reposts, Unrepost(i)
        PROVE  NotOneself'
    BY <1>1, <2>3 DEF Unrepost, EdgeEvents
  <2>4. ASSUME NEW e \in MayFollow, Follow(e[1], e[2]) \/ Unfollow(e[1], e[2])
        PROVE  NotOneself'
    BY <1>3, <2>4 DEF Follow, Unfollow, NotThemselves
  <2> QED
    BY <1>4, <2>1, <2>2, <2>3, <2>4 DEF UserActs
<1>5. CASE HomeHandler
  BY <1>2, <1>5, HandlersAre DEF Within
<1>6. ASSUME \/ \E i \in DOMAIN log : Take(i) \/ HandleUserTimeline(i)
             \/ Mark \/ Crash \/ UNCHANGED vars
      PROVE  log' = log
  BY <1>6 DEF Take, HandleUserTimeline, Mark, Crash, vars
<1> QED
  BY <1>2, <1>4, <1>5, <1>6 DEF Next, UserTimelineWorker, HomeWorker

\* A step that takes no post out of a home and finishes nothing.
LEMMA CompleteKept ==
    ASSUME TypeOK, Complete, NEW u \in Users, NEW p \in Posts,
           \A i \in DOMAIN log : log'[i] = log[i],
           begun \subseteq begun', Clear(p)' => Clear(p),
           UNCHANGED <<home, misread, demoted, celebrities, followers>>,
           handled'["home"] = handled["home"],
           \A i \in Open : i \in Open',
           \/ msg' = msg /\ step' = step
           \/ msg' = 0 \/ step' = "start"
    PROVE  CompleteFor(u, p)'
<1>0. /\ begun \subseteq DOMAIN log /\ handled["home"] \subseteq DOMAIN log
      /\ msg # 0 => msg \in DOMAIN log /\ Open \subseteq DOMAIN log
  BY DEF TypeOK, Groups, Open
<1>1. \A i \in DOMAIN log :
         /\ Created(i, p)' <=> Created(i, p)
         /\ Deleted(i, p)' <=> Deleted(i, p)
         /\ Followed(i, u, Author[p])' <=> Followed(i, u, Author[p])
  BY DEF Created, Deleted, Followed
<1> SUFFICES ASSUME Clear(p)', ~DeletionBegun(p)'
             PROVE  Reached(u, p)' /\ Reaching(u, p)'
  BY DEF CompleteFor
<1>2. Clear(p) /\ ~DeletionBegun(p)
  BY <1>0, <1>1 DEF DeletionBegun
<1>3. Reached(u, p) /\ Reaching(u, p)
  BY <1>2 DEF Complete, CompleteFor
<1>4. Pushed(p)' <=> Pushed(p)
  BY <1>0, <1>1 DEF Pushed
<1>5. Celebrated(Author[p])' <=> Celebrated(Author[p])
  BY DEF Celebrated
<1>6. ~Owing(u, Author[p])' => ~Owing(u, Author[p])
  <2> SUFFICES ASSUME Owing(u, Author[p])
               PROVE  Owing(u, Author[p])'
    OBVIOUS
  <2>1. PICK i \in Open : Followed(i, u, Author[p])
    BY DEF Owing
  <2>2. i \in Open' /\ Followed(i, u, Author[p])'
    BY <1>1, <2>1 DEF Open, TypeOK
  <2>3. ~(msg # 0 /\ step = "done" /\ Followed(msg, u, Author[p]))'
    <3>1. CASE msg' = msg /\ step' = step
      BY <1>0, <1>1, <3>1 DEF Owing, Followed
    <3>2. CASE msg' = 0 \/ step' = "start"
      BY <3>2
    <3> QED
      BY <3>1, <3>2
  <2> QED
    BY <2>2, <2>3 DEF Owing
<1>7. Reached(u, p)'
  BY <1>3, <1>4, <1>5, <1>6 DEF Reached
<1>8. Reaching(u, p)'
  <2>1. CASE msg' = msg /\ step' = step
    <3>1. msg # 0 => (Created(msg, p)' <=> Created(msg, p))
      BY <1>0, <2>1 DEF Created
    <3> QED
      BY <1>3, <1>5, <2>1, <3>1 DEF Reaching
  <2>2. CASE msg' = 0 \/ step' = "start"
    BY <2>2 DEF Reaching
  <2> QED
    BY <2>1, <2>2
<1> QED
  BY <1>7, <1>8

\* A step of a home handler.
LEMMA CompleteWithin ==
    ASSUME TypeOK, Complete, Within, NEW u \in Users, NEW p \in Posts,
           celebrities \subseteq celebrities' \union demoted',
           u \in followers'[Author[p]] =>
               \/ u \in followers[Author[p]]
               \/ step' # "done" /\ \E i \in Open : Followed(i, u, Author[p]),
           Clear(p) /\ ~DeletionBegun(p) =>
               /\ u \in followers[Author[p]] \union {Author[p]} /\ home[u][p] > 0 =>
                     home'[u][p] > 0
               /\ /\ step' = "done" /\ Followed(msg, u, Author[p])
                  /\ Pushed(p) /\ u \in followers'[Author[p]]
                  => \/ home'[u][p] > 0
                     \/ <<u, Author[p]>> \in misread'
                     \/ Celebrated(Author[p])'
               /\ Created(msg, p) =>
                     /\ step' = "marked" => Author[p] \in celebrities'
                     /\ step' = "done" /\ u = Author[p] => home'[u][p] > 0
                     /\ step' = "done" /\ u \in followers'[Author[p]] =>
                           home'[u][p] > 0 \/ Celebrated(Author[p])'
    PROVE  CompleteFor(u, p)'
<1>0. /\ log' = log /\ handled' = handled /\ parked' = parked /\ begun' = begun
      /\ crossed' = crossed /\ msg' = msg /\ msg # 0
      /\ misread \subseteq misread' /\ demoted \subseteq demoted'
  BY DEF Within
<1>1. /\ Clear(p)' <=> Clear(p)
      /\ DeletionBegun(p)' <=> DeletionBegun(p)
      /\ Pushed(p)' <=> Pushed(p)
      /\ Created(msg, p)' <=> Created(msg, p)
      /\ Open' = Open
      /\ \A i : Followed(i, u, Author[p])' <=> Followed(i, u, Author[p])
  BY <1>0 DEF Clear, Reposted, Written, DeletionBegun, Deleted, Pushed, Created, Open,
              Followed
<1> SUFFICES ASSUME Clear(p), ~DeletionBegun(p)
             PROVE  Reached(u, p)' /\ Reaching(u, p)'
  BY <1>1 DEF CompleteFor
<1>2. Reached(u, p)
  BY DEF Complete, CompleteFor
<1>3. Celebrated(Author[p]) => Celebrated(Author[p])'
  BY <1>0 DEF Celebrated
<1>4. Reaching(u, p)'
  BY <1>0, <1>1 DEF Reaching
<1>5. ASSUME Pushed(p)
      PROVE  u = Author[p] => home'[u][p] > 0
  BY <1>2, <1>5 DEF Reached
<1>6. ASSUME Pushed(p), u \in followers'[Author[p]], ~Owing(u, Author[p])'
      PROVE  \/ home'[u][p] > 0
             \/ <<u, Author[p]>> \in misread'
             \/ Celebrated(Author[p])'
  <2>1. \/ \A i \in Open : ~Followed(i, u, Author[p])
        \/ step' = "done" /\ Followed(msg, u, Author[p])
    BY <1>0, <1>1, <1>6 DEF Owing, Followed
  <2>2. CASE step' = "done" /\ Followed(msg, u, Author[p])
    BY <1>6, <2>2
  <2>3. CASE \A i \in Open : ~Followed(i, u, Author[p])
    <3>1. u \in followers[Author[p]] /\ ~Owing(u, Author[p])
      BY <1>6, <2>3 DEF Owing
    <3>2. \/ home[u][p] > 0 \/ <<u, Author[p]>> \in misread \/ Celebrated(Author[p])
      BY <1>2, <1>6, <3>1 DEF Reached
    <3> QED
      BY <1>0, <1>3, <3>1, <3>2
  <2> QED
    BY <2>1, <2>2, <2>3
<1> QED
  BY <1>1, <1>4, <1>5, <1>6 DEF Reached

\* A home handler's step, action by action.
LEMMA CompleteHandler ==
    ASSUME PostsFit, TypeOK, FeedBase, NotOneself, Complete, HomeHandler
    PROVE  Complete'
<1>0. Within
  BY HandlersAre
<1> SUFFICES ASSUME NEW u \in Users, NEW p \in Posts
             PROVE  CompleteFor(u, p)'
  BY DEF Complete
<1>1. /\ msg # 0 /\ msg \in DOMAIN log /\ msg \in Nat /\ msg > 0 /\ msg \in begun
      /\ msg \in Open /\ User \in Users /\ Author[p] \in Users
      /\ log[msg].type \in {"post.created", "post.deleted"} => User = Author[About]
  BY <1>0, InHand, HomeAssumption DEF Within
<1>2. /\ Created(msg, p) => log[msg].type = "post.created" /\ About = p /\ User = Author[p]
      /\ Followed(msg, u, Author[p]) =>
            log[msg].type = "user.followed" /\ User = u /\ About = Author[p]
  BY <1>1 DEF Created, Followed, User, About
<1>3. \A i \in Users : home[i] \in Scores
  BY DEF TypeOK
<1>4. CASE PushPost
  <2>1. /\ log[msg].type = "post.created" /\ About \in Posts /\ step' = "done"
        /\ home' = FanOut(followers[User] \union {User}, About, msg)
        /\ followers' = followers /\ celebrities' = celebrities
    BY <1>1, <1>4, InHand DEF PushPost, At, OnHome, graph, PostEvents
  <2>2. home'[u][p] = IF u \in followers[User] \union {User} /\ p = About
                      THEN msg ELSE home[u][p]
    BY <1>1, <2>1, FanOutIs
  <2>3. home[u][p] > 0 => home'[u][p] > 0
    BY <1>1, <2>2
  <2>4. Created(msg, p) /\ u \in followers[Author[p]] \union {Author[p]} =>
            home'[u][p] > 0
    BY <1>1, <1>2, <2>2
  <2>5. ~Followed(msg, u, Author[p])
    BY <1>2, <2>1
  <2> QED
    BY <1>0, <2>1, <2>3, <2>4, <2>5, CompleteWithin
<1>5. CASE MarkAuthor
  <2>1. /\ log[msg].type = "post.created" /\ step' = "marked" /\ home' = home
        /\ followers' = followers /\ celebrities' = celebrities \union {User}
    BY <1>5 DEF MarkAuthor, At, OnGraph
  <2> QED
    BY <1>0, <1>2, <2>1, CompleteWithin
<1>6. CASE PushToAuthor
  <2>1. /\ log[msg].type = "post.created" /\ About \in Posts
        /\ step = "marked" /\ step' = "done"
        /\ home' = FanOut({User}, About, msg)
        /\ followers' = followers /\ celebrities' = celebrities
    BY <1>1, <1>6, InHand DEF PushToAuthor, At, OnHome, graph, PostEvents
  <2>2. home'[u][p] = IF u \in {User} /\ p = About THEN msg ELSE home[u][p]
    BY <1>1, <2>1, FanOutIs
  <2>3. home[u][p] > 0 => home'[u][p] > 0
    BY <1>1, <2>2
  <2>4. Created(msg, p) /\ u = Author[p] => home'[u][p] > 0
    BY <1>1, <1>2, <2>2
  <2>5. Clear(p) /\ ~DeletionBegun(p) /\ Created(msg, p) => Celebrated(Author[p])'
    BY <1>1, <2>1 DEF Complete, CompleteFor, Reaching, Celebrated
  <2>6. ~Followed(msg, u, Author[p])
    BY <1>2, <2>1
  <2> QED
    BY <1>0, <2>1, <2>3, <2>4, <2>5, <2>6, CompleteWithin
<1>7. CASE RemovePost
  <2>1. /\ log[msg].type \in {"post.deleted", "post.unreposted"} /\ step' = "done"
        /\ home' = RemoveFrom(followers[User] \union {User}, {About})
        /\ followers' = followers /\ celebrities' = celebrities
    BY <1>7 DEF RemovePost, At, OnHome, graph
  <2>2. ASSUME Clear(p), ~DeletionBegun(p)
        PROVE  p # About
    <3>1. CASE log[msg].type = "post.deleted"
      BY <1>1, <2>2, <3>1 DEF DeletionBegun, Deleted, About
    <3>2. CASE log[msg].type = "post.unreposted"
      BY <1>1, <2>2, <3>2, InHand DEF Clear
    <3> QED
      BY <2>1, <3>1, <3>2
  <2>3. p # About => home'[u][p] = home[u][p]
    BY <2>1 DEF RemoveFrom
  <2>4. ~Created(msg, p) /\ ~Followed(msg, u, Author[p])
    BY <1>2, <2>1
  <2> QED
    BY <1>0, <2>1, <2>2, <2>3, <2>4, CompleteWithin
<1>8. CASE PushRepost
  <2>1. /\ log[msg].type = "post.reposted" /\ About \in Posts /\ step' = "done"
        /\ home' = FanOut(followers[User] \union {User}, About, msg)
        /\ followers' = followers /\ celebrities' = celebrities
    BY <1>1, <1>8, InHand DEF PushRepost, At, OnHome, graph, PostEvents
  <2>2. home'[u][p] = IF u \in followers[User] \union {User} /\ p = About
                      THEN msg ELSE home[u][p]
    BY <1>1, <2>1, FanOutIs
  <2>3. home[u][p] > 0 => home'[u][p] > 0
    BY <1>1, <2>2
  <2>4. ~Created(msg, p) /\ ~Followed(msg, u, Author[p])
    BY <1>2, <2>1
  <2> QED
    BY <1>0, <2>1, <2>3, <2>4, CompleteWithin
<1>9. CASE AddFollower
  <2>1. /\ log[msg].type = "user.followed" /\ step' = "first" /\ home' = home
        /\ followers' = [followers EXCEPT ![About] = @ \union {User}]
        /\ celebrities' = celebrities
    BY <1>9 DEF AddFollower, At, OnGraph
  <2>2. Followed(msg, User, About)
    BY <1>1, <2>1, InHand
  <2>3. u \in followers'[Author[p]] =>
            u \in followers[Author[p]] \/ Followed(msg, u, Author[p])
    BY <1>1, <2>1, <2>2 DEF TypeOK
  <2>4. ~Created(msg, p)
    BY <1>2, <2>1
  <2> QED
    BY <1>0, <1>1, <2>1, <2>3, <2>4, CompleteWithin
<1>10. CASE AddFollowing \/ RemoveFollowing
  <2>1. /\ log[msg].type \in EdgeEvents /\ step' = "second" /\ home' = home
        /\ followers' = followers /\ celebrities' = celebrities
    BY <1>10 DEF AddFollowing, RemoveFollowing, At, OnGraph, EdgeEvents
  <2>2. ~Created(msg, p)
    BY <1>2, <2>1 DEF EdgeEvents
  <2> QED
    BY <1>0, <2>1, <2>2, CompleteWithin
<1>11. CASE Promote
  <2>1. /\ log[msg].type = "user.followed" /\ step' = "done" /\ home' = home
        /\ followers' = followers /\ celebrities' = celebrities \union {About}
    BY <1>11 DEF Promote, At, OnGraph
  <2>2. ~Created(msg, p)
    BY <1>2, <2>1
  <2>3. Followed(msg, u, Author[p]) => Celebrated(Author[p])'
    BY <1>2, <2>1 DEF Celebrated
  <2> QED
    BY <1>0, <2>1, <2>2, <2>3, CompleteWithin
<1>12. CASE BackFill
  <2>1. /\ log[msg].type = "user.followed" /\ step' = "done"
        /\ followers' = followers /\ celebrities' = celebrities
        /\ \/ home' = BackFilled(User, About) /\ Reading
           \/ home' = home /\ misread' = Misread
    BY <1>12 DEF BackFill, At, OnHome, graph
  <2>2. About \in Users
    BY <1>1, <2>1, InHand DEF EdgeEvents
  <2>3. home' = BackFilled(User, About) =>
            home'[u][p] = IF u = User /\ userTimeline[About][p] > 0
                          THEN userTimeline[About][p] ELSE home[u][p]
    BY <1>1, <2>2, BackFillIs
  <2>4. home[u][p] > 0 => home'[u][p] > 0
    BY <2>1, <2>3
  <2>5. ~Created(msg, p)
    BY <1>2, <2>1
  <2>6. ASSUME Clear(p), ~DeletionBegun(p), Followed(msg, u, Author[p]), Pushed(p),
               <<u, Author[p]>> \notin misread'
        PROVE  home'[u][p] > 0
    <3>1. User = u /\ About = Author[p]
      BY <1>2, <2>6
    <3>2. home' = BackFilled(User, About) /\ ~Unsettled(Author[p])
      BY <2>1, <2>6, <3>1 DEF Reading, Misread
    <3>3. \E i \in begun : Created(i, p)
      <4>1. PICK i \in handled["home"] : Created(i, p)
        BY <2>6 DEF Pushed
      <4>2. log[i].type \in PostEvents
        BY <4>1 DEF Created, PostEvents
      <4> QED
        BY <4>1, <4>2 DEF FeedBase, TakenUp, Groups
    <3>4. userTimeline[Author[p]][p] > 0
      BY <2>6, <3>2, <3>3, GoodRead DEF FeedBase
    <3> QED
      BY <2>3, <3>1, <3>2, <3>4
  <2> QED
    BY <1>0, <2>1, <2>4, <2>5, <2>6, CompleteWithin
<1>13. CASE RemoveFollower
  <2>1. /\ log[msg].type = "user.unfollowed" /\ step' = "first" /\ home' = home
        /\ followers' = [followers EXCEPT ![About] = @ \ {User}]
        /\ celebrities' = celebrities
    BY <1>13 DEF RemoveFollower, At, OnGraph
  <2>2. u \in followers'[Author[p]] => u \in followers[Author[p]]
    BY <1>1, <2>1 DEF TypeOK
  <2>3. ~Created(msg, p)
    BY <1>2, <2>1
  <2> QED
    BY <1>0, <2>1, <2>2, <2>3, CompleteWithin
<1>14. CASE DemoteIfBelow
  <2>1. /\ log[msg].type = "user.unfollowed" /\ step' = "third" /\ home' = home
        /\ followers' = followers /\ celebrities \subseteq celebrities' \union demoted'
    BY <1>14 DEF DemoteIfBelow, At, OnGraph
  <2>2. ~Created(msg, p)
    BY <1>2, <2>1
  <2> QED
    BY <1>0, <2>1, <2>2, CompleteWithin
<1>15. CASE Purge
  <2>1. /\ log[msg].type = "user.unfollowed" /\ step = "third" /\ step' = "done"
        /\ followers' = followers /\ celebrities' = celebrities
        /\ \/ home' = RemoveFrom({User}, RecentPosts(About))
           \/ home' = home
    BY <1>15 DEF Purge, At, OnHome, graph
  <2>2. About \in Users /\ User # About /\ User \notin followers[About]
    BY <1>1, <2>1, InHand DEF EdgeEvents, NotOneself, FeedBase, EdgeInv, EdgeProgress,
                              User, About
  <2>3. RecentPosts(About) = {q \in Posts : userTimeline[About][q] > 0}
    BY <2>2, AllRecent
  <2>4. ASSUME Clear(p), u \in followers[Author[p]] \union {Author[p]}, home[u][p] > 0
        PROVE  home'[u][p] > 0
    <3>1. u # User \/ p \notin RecentPosts(About)
      <4> SUFFICES ASSUME u = User, userTimeline[About][p] > 0
                   PROVE  FALSE
        BY <2>3
      <4>1. About = Author[p]
        BY <2>2, <2>4, ReadIsTheirs DEF FeedBase, Clear
      <4> QED
        BY <2>2, <2>4, <4>1
    <3> QED
      BY <2>1, <2>4, <3>1 DEF RemoveFrom
  <2>5. ~Created(msg, p) /\ ~Followed(msg, u, Author[p])
    BY <1>2, <2>1
  <2> QED
    BY <1>0, <2>1, <2>4, <2>5, CompleteWithin
<1> QED
  BY <1>4, <1>5, <1>6, <1>7, <1>8, <1>9, <1>10, <1>11, <1>12, <1>13, <1>14, <1>15
  DEF HomeHandler

\* The event in hand is done with, or dead-lettered.
LEMMA CompleteMark ==
    ASSUME TypeOK, TypeOK', FeedBase, Complete, Mark
    PROVE  Complete'
<1>1. /\ log' = log /\ home' = home /\ followers' = followers /\ begun' = begun
      /\ crossed' = crossed /\ misread' = misread /\ demoted' = demoted
      /\ celebrities' = celebrities
      /\ handled'["home"] = handled["home"] \union {msg}
      /\ parked \subseteq parked' /\ (step = "done" \/ msg \in parked')
      /\ msg # 0 /\ msg' = 0 /\ msg \in DOMAIN log
  BY DEF Mark, history, graph, TypeOK, Groups
<1> SUFFICES ASSUME NEW u \in Users, NEW p \in Posts, Clear(p)', ~DeletionBegun(p)'
             PROVE  Reached(u, p)'
  BY <1>1 DEF Complete, CompleteFor, Reaching
<1>2. Clear(p) /\ ~DeletionBegun(p)
  BY <1>1 DEF Clear, Reposted, Written, DeletionBegun, Deleted
<1>3. Reached(u, p) /\ Reaching(u, p)
  BY <1>2 DEF Complete, CompleteFor
<1>4. Created(msg, p) => step = "done"
  BY <1>1 DEF Clear, Created
<1>5. Pushed(p)' <=> Pushed(p) \/ Created(msg, p)
  BY <1>1 DEF Pushed, Created
<1>6. Celebrated(Author[p])' <=> Celebrated(Author[p])
  BY <1>1 DEF Celebrated
<1>7. Owing(u, Author[p]) => Owing(u, Author[p])'
  <2> SUFFICES ASSUME NEW i \in Open, Followed(i, u, Author[p]),
                      ~(step = "done" /\ Followed(msg, u, Author[p]))
               PROVE  i \in Open' /\ Followed(i, u, Author[p])'
    BY <1>1 DEF Owing
  <2>1. i # msg \/ msg \in parked'
    BY <1>1
  <2> QED
    BY <1>1, <2>1 DEF Open, TypeOK, Followed
<1>8. CASE Pushed(p)
  BY <1>1, <1>3, <1>5, <1>6, <1>7, <1>8 DEF Reached
<1>9. CASE Created(msg, p)
  BY <1>1, <1>3, <1>4, <1>5, <1>6, <1>9 DEF Reached, Reaching
<1> QED
  BY <1>5, <1>8, <1>9 DEF Reached

LEMMA CompleteStep ==
    ASSUME PostsFit, TypeOK, TypeOK', FeedBase, NotOneself, Complete, [Next]_vars
    PROVE  Complete'
<1>0. begun \subseteq begun' /\ \A p \in Posts : Clear(p)' => Clear(p)
  BY HistoryStep DEF FeedBase
<1>1. ASSUME \A i \in DOMAIN log : i \in DOMAIN log' /\ log'[i] = log[i],
             UNCHANGED <<home, misread, demoted, celebrities, followers>>,
             handled'["home"] = handled["home"], parked \subseteq parked',
             \/ msg' = msg /\ step' = step
             \/ msg' = 0 \/ step' = "start"
      PROVE  Complete'
  <2>1. \A i \in Open : i \in Open'
    BY <1>1 DEF Open, TypeOK
  <2> QED
    BY <1>0, <1>1, <2>1, CompleteKept DEF Complete
<1>2. CASE UserActs
  BY <1>1, <1>2, ActKeeps
<1>3. ASSUME NEW i \in DOMAIN log, HandleUserTimeline(i)
      PROVE  Complete'
  <2>1. /\ log' = log /\ handled'["home"] = handled["home"] /\ parked \subseteq parked'
        /\ UNCHANGED <<home, misread, demoted, celebrities, followers, msg, step>>
    BY <1>3 DEF HandleUserTimeline, Takes, graph, worker, TypeOK, Groups
  <2> QED
    BY <1>1, <2>1
<1>4. ASSUME NEW i \in DOMAIN log, Take(i)
      PROVE  Complete'
  <2>1. /\ log' = log /\ handled' = handled /\ parked' = parked /\ step' = "start"
        /\ UNCHANGED <<home, misread, demoted, celebrities, followers>>
    BY <1>4 DEF Take, Takes, graph
  <2> QED
    BY <1>1, <2>1
<1>5. CASE HomeHandler
  BY <1>5, CompleteHandler
<1>6. CASE Mark
  BY <1>6, CompleteMark
<1>7. CASE Crash \/ UNCHANGED vars
  BY <1>1, <1>7 DEF Crash, history, graph, vars
<1> QED
  BY <1>2, <1>3, <1>4, <1>5, <1>6, <1>7 DEF Next, UserTimelineWorker, HomeWorker

LEMMA CompleteSuffices ==
    ASSUME PostsFit, TypeOK, FeedBase, Complete
    PROVE  FeedComplete
<1> SUFFICES ASSUME Quiescent, NEW u \in Users, NEW p \in FeedOf(u),
                    ~StrayPost(p), ~StrayEdge(u, Author[p]),
                    Author[p] \notin demoted \ celebrities
             PROVE  p \in Visible(u)
  BY DEF FeedComplete
<1>1. p \in Posts /\ Author[p] \in Users /\ p \in live
  BY HomeAssumption DEF FeedOf, TypeOK
<1>2. Clear(p) /\ Written(p) \notin lost
  <2>1. \A i \in parked : log[i].about # p
    BY DEF StrayPost, TypeOK
  <2>2. ~Reposted(p)
    BY DEF StrayPost, Reposted
  <2> QED
    BY <2>1, <2>2 DEF StrayPost, Clear, Written
<1>3. /\ <<u, Author[p]>> \notin misread \union lost \union crossed["home"]
      /\ ~OwedEdge(u, Author[p])
  BY DEF StrayEdge
<1>4. Alive(p)
  BY <1>1, <1>2 DEF FeedBase, Ledger, Clear
<1>5. PICK i \in DOMAIN log : Created(i, p)
  BY <1>1, <1>4 DEF Alive
<1>6. /\ i \in handled["home"] /\ i \in handled["usertimeline"]
      /\ Pushed(p) /\ ~DeletionBegun(p)
  BY <1>1, <1>4, <1>5 DEF Quiescent, Groups, Pushed, Alive, DeletionBegun, TypeOK
<1>7. Reached(u, p)
  BY <1>1, <1>2, <1>6 DEF Complete, CompleteFor
<1>8. ~Owing(u, Author[p])
  BY <1>3 DEF Owing, OwedEdge, Followed, EdgeEvents
<1>9. u = Author[p] \/ <<u, Author[p]>> \in follows
  <2>1. reposts \subseteq {j \in DOMAIN log : log[j].type = "post.reposted"}
    BY DEF TypeOK
  <2>2. \A j \in reposts : log[j].about # p
    BY <1>2, <2>1 DEF Clear, Reposted
  <2>3. Author[p] \in Sources(u)
    BY <2>2 DEF FeedOf
  <2> QED
    BY <2>3 DEF Sources
<1>10. CASE home[u][p] > 0
  BY <1>1, <1>10 DEF Visible
<1>11. CASE ~(home[u][p] > 0)
  <2>1. u \in followers[Author[p]]
    BY <1>1, <1>3, <1>6, <1>7, <1>9, <1>11 DEF FeedBase, GraphInv, GraphCurrent, Reached
  <2>2. Author[p] \in celebrities
    BY <1>3, <1>6, <1>7, <1>8, <1>11, <2>1 DEF Reached, Celebrated
  <2>3. Author[p] \in following[u]
    BY <1>1, <1>3, <2>1 DEF FeedBase, EdgeInv, EdgesAgree
  <2>4. userTimeline[Author[p]][p] > 0
    BY <1>1, <1>2, <1>5, <1>6 DEF FeedBase, UserTimelines
  <2>5. p \in RecentPosts(Author[p])
    BY <1>1, <2>4, AllRecent
  <2> QED
    BY <2>2, <2>3, <2>5 DEF Visible, CelebsFollowed
<1> QED
  BY <1>10, <1>11

\* When all events are handled, in whatever order topics and services took them
\* and whatever was lost, parked or cut short, a user sees every post of their
\* own and of the accounts they follow, pushed to the home or pulled with the
\* celebrities' (fan_out, back_fill, page of timeline/store.py), but for the
\* posts and edges that the faults hit and the posts of a demoted celebrity.  No
\* more posts may be written than a home and recent_posts hold, and nobody may
\* unfollow themselves: purge would take their own posts.
THEOREM FeedsComplete ==
    ASSUME PostsFit, NotThemselves PROVE Spec => []FeedComplete
<1>1. Init => FeedBase /\ NotOneself /\ Complete
  <2>1. Init => NotOneself /\ Complete
    BY DEF Init, NotOneself, Complete, CompleteFor, Reached, Reaching, Pushed, Groups
  <2> QED
    BY <2>1, FeedBaseInit
<1>2. TypeOK /\ TypeOK' /\ FeedBase /\ NotOneself /\ Complete /\ [Next]_vars
      => FeedBase' /\ NotOneself' /\ Complete'
  BY FeedBaseStep, NotOneselfStep, CompleteStep
<1>3. TypeOK /\ FeedBase /\ Complete => FeedComplete
  BY CompleteSuffices
<1> QED
  BY <1>1, <1>2, <1>3, TypeCorrect, PTL DEF Spec
=============================================================================
