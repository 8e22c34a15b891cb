---------------------------- MODULE HomeTimeline ----------------------------
(***************************************************************************)
(* The feed: hometimeline-svc (timeline/store.py, consume.py, clients.py)   *)
(* and usertimeline-svc build their Redis read models from the events of    *)
(* post-svc and user-svc.  Every event type is a topic of its own and each  *)
(* service consumes it in a group of its own, so events of different topics *)
(* are handled in any order, and one service may be ahead of the other.  An *)
(* event may never be published (users/views.py _publish; Outbox).  A       *)
(* worker handles one message at a time, one remote call after another, may *)
(* die between two of them, and then gets the message again (BusConsumer).  *)
(***************************************************************************)
EXTENDS Naturals, Sequences, FiniteSets

CONSTANTS
    Users,
    Posts,
    Author,         \* Author[p]: who creates post p
    MayFollow,      \* bound: the pairs <<follower, followee>> users try
    Acts,           \* which user actions, by event type, happen
    Threshold,      \* CELEBRITY_FOLLOWER_THRESHOLD
    MaxHome,        \* MAX_HOME
    RecentLimit,    \* limit of clients.recent_posts
    Faults,         \* which of FaultKinds this environment exhibits
    MaxFaults,      \* bound: lost events, crashes, failing reads, dead letters
    MaxEvents       \* bound: events emitted

PostEvents == {"post.created", "post.deleted", "post.reposted",
               "post.unreposted"}
EdgeEvents == {"user.followed", "user.unfollowed"}
FaultKinds == {"lost", "crash", "readError", "deadLetter"}
Groups == {"home", "usertimeline"}

ASSUME HomeAssumption ==
    /\ IsFiniteSet(Users) /\ Users \intersect Posts = {}
    /\ Author \in [Posts -> Users]
    /\ MayFollow \subseteq Users \X Users
    /\ Acts \subseteq PostEvents \union EdgeEvents
    /\ Threshold \in Nat /\ MaxHome \in Nat /\ RecentLimit \in Nat
    /\ Faults \subseteq FaultKinds
    /\ MaxFaults \in Nat /\ MaxEvents \in Nat

VARIABLES
    live,           \* the posts post-svc has now
    follows,        \* the FOLLOWS edges of user-svc
    reposts,        \* post-svc's repost documents, named by their event
    log,            \* the events, in the order they were emitted
    handled,        \* handled[g]: the events group g is done with
    parked,         \* those a group dead-lettered instead
    followers,      \* followers:{author}
    following,      \* following:{user}
    celebrities,    \* celebrities
    home,           \* home:{user}: post -> score, 0 when absent
    userTimeline,   \* usertimeline:{author}: post -> score, 0 when absent
    msg,            \* the event the home worker is handling, 0 when none
    step,           \* how far its handler got
    faults,         \* lost events, crashes, failing reads, dead letters so far
    (* History: where the read models may differ from the system of record. *)
    lost,           \* the subjects whose latest event was not published
    crossed,        \* crossed[g]: those of which g took an earlier event last
    begun,          \* the events a group has begun to handle
    misread,        \* the edges whose posts were read from a list in motion
    demoted         \* the authors who ceased to be celebrities

truth == <<live, follows, reposts>>
graph == <<followers, following, celebrities>>
worker == <<msg, step>>
history == <<lost, crossed, begun, misread, demoted>>
vars == <<live, follows, reposts, log, handled, parked, followers, following,
          celebrities, home, userTimeline, msg, step, faults, lost, crossed,
          begun, misread, demoted>>

Steps == {"idle", "start", "marked", "first", "second", "third", "done"}
Scores == [Posts -> Nat]
Events == [type : EdgeEvents, user : Users, about : Users]
          \union [type : PostEvents, user : Users, about : Posts]
\* What events tell of: an edge, a post of its author, a repost of a user.
Subjects == Users \X (Users \union Posts)

TypeOK ==
    /\ live \subseteq Posts
    /\ follows \subseteq Users \X Users
    /\ log \in Seq(Events)
    /\ reposts \subseteq {i \in DOMAIN log : log[i].type = "post.reposted"}
    /\ handled \in [Groups -> SUBSET (DOMAIN log)]
    /\ parked \subseteq DOMAIN log
    /\ followers \in [Users -> SUBSET Users]
    /\ following \in [Users -> SUBSET Users]
    /\ celebrities \subseteq Users
    /\ home \in [Users -> Scores]
    /\ userTimeline \in [Users -> Scores]
    /\ msg \in DOMAIN log \union {0}
    /\ step \in Steps
    /\ (step = "idle") <=> (msg = 0)
    /\ faults \in Nat
    /\ lost \subseteq Subjects
    /\ crossed \in [Groups -> SUBSET Subjects]
    /\ begun \subseteq DOMAIN log
    /\ misread \subseteq Users \X Users
    /\ demoted \subseteq Users

Fault(kind) == kind \in Faults /\ faults < MaxFaults /\ faults' = faults + 1

Init ==
    /\ live = {} /\ follows = {} /\ reposts = {}
    /\ log = <<>>
    /\ handled = [g \in Groups |-> {}] /\ parked = {}
    /\ followers = [u \in Users |-> {}]
    /\ following = [u \in Users |-> {}]
    /\ celebrities = {}
    /\ home = [u \in Users |-> [p \in Posts |-> 0]]
    /\ userTimeline = [u \in Users |-> [p \in Posts |-> 0]]
    /\ msg = 0 /\ step = "idle"
    /\ faults = 0
    /\ lost = {} /\ crossed = [g \in Groups |-> {}]
    /\ begun = {} /\ misread = {} /\ demoted = {}
-----------------------------------------------------------------------------
(* What users do.  An event's position in the log is its created_at.        *)

\* usertimeline-svc does not subscribe to the user.* topics.
Emit(type, user, about) ==
    /\ type \in Acts /\ Len(log) < MaxEvents
    /\ log' = Append(log, [type |-> type, user |-> user, about |-> about])
    /\ handled' = IF type \in EdgeEvents
                  THEN [handled EXCEPT !["usertimeline"] = @ \union {Len(log) + 1}]
                  ELSE handled
    /\ lost' = lost \ {<<user, about>>}
    /\ UNCHANGED <<parked, graph, home, userTimeline, worker, faults, crossed,
                   begun, misread, demoted>>

\* _publish of user-svc swallows its failure; the relay of post-svc may take a
\* row for sent that was not (Outbox).
Lose(type, user, about) ==
    /\ type \in Acts /\ Fault("lost")
    /\ lost' = lost \union {<<user, about>>}
    /\ UNCHANGED <<log, handled, parked, graph, home, userTimeline, worker,
                   crossed, begun, misread, demoted>>

Publish(type, user, about) == Emit(type, user, about) \/ Lose(type, user, about)

\* A post id is used once.
CreatePost(p) ==
    /\ \A i \in DOMAIN log : log[i].about # p
    /\ <<Author[p], p>> \notin lost
    /\ live' = live \union {p}
    /\ Publish("post.created", Author[p], p)
    /\ UNCHANGED <<follows, reposts>>

DeletePost(p) ==
    /\ p \in live
    /\ live' = live \ {p}
    /\ Publish("post.deleted", Author[p], p)
    /\ UNCHANGED <<follows, reposts>>

\* A repost is named by its event, so that none of them is lost here.
Repost(u, p) ==
    /\ p \in live
    /\ reposts' = reposts \union {Len(log) + 1}
    /\ Emit("post.reposted", u, p)
    /\ UNCHANGED <<live, follows>>

Unrepost(i) ==
    /\ reposts' = reposts \ {i}
    /\ Emit("post.unreposted", log[i].user, log[i].about)
    /\ UNCHANGED <<live, follows>>

\* Follow.post refuses an account that follows itself; Follow.delete does not.
Follow(u, v) ==
    /\ u # v
    /\ follows' = follows \union {<<u, v>>}
    /\ Publish("user.followed", u, v)
    /\ UNCHANGED <<live, reposts>>

\* Published whether or not there was an edge.
Unfollow(u, v) ==
    /\ follows' = follows \ {<<u, v>>}
    /\ Publish("user.unfollowed", u, v)
    /\ UNCHANGED <<live, reposts>>

UserActs ==
    \/ \E p \in Posts : CreatePost(p) \/ DeletePost(p)
    \/ \E u \in Users, p \in Posts : Repost(u, p)
    \/ \E i \in reposts : Unrepost(i)
    \/ \E e \in MayFollow : Follow(e[1], e[2]) \/ Unfollow(e[1], e[2])
-----------------------------------------------------------------------------
(* The two sorted sets and the operators of timeline/store.py.              *)

Newest(timeline, n) ==
    {p \in Posts : /\ timeline[p] > 0
                   /\ Cardinality({q \in Posts : timeline[q] > timeline[p]}) < n}

Trim(timeline) ==
    [p \in Posts |-> IF p \in Newest(timeline, MaxHome) THEN timeline[p] ELSE 0]

FanOut(targets, p, ts) ==
    [u \in Users |-> IF u \in targets THEN Trim([home[u] EXCEPT ![p] = ts])
                                      ELSE home[u]]

RemoveFrom(targets, posts) ==
    [u \in Users |-> [p \in Posts |-> IF u \in targets /\ p \in posts
                                      THEN 0 ELSE home[u][p]]]

RecentPosts(author) == Newest(userTimeline[author], RecentLimit)

\* Mutant: the arguments swapped, the author's home is back-filled.
BackFilledSwapped(u, author) ==
    [home EXCEPT ![author] = Trim([p \in Posts |-> IF p \in RecentPosts(author)
                                                   THEN userTimeline[author][p]
                                                   ELSE @[p]])]

BackFilled(u, author) ==
    [home EXCEPT ![u] = Trim([p \in Posts |-> IF p \in RecentPosts(author)
                                              THEN userTimeline[author][p]
                                              ELSE @[p]])]

IsCelebrity(author) == Cardinality(followers[author]) >= Threshold

CelebsFollowed(u) == following[u] \intersect celebrities

\* What store.page merges for u: the posts pushed and the posts pulled.
Visible(u) == {p \in Posts : home[u][p] > 0}
              \union UNION {RecentPosts(c) : c \in CelebsFollowed(u)}
-----------------------------------------------------------------------------
(* usertimeline-svc's worker: one Redis command per event.                  *)

\* Events a group may be handed now: each topic is read in order.
Ready(g) ==
    {i \in DOMAIN log \ handled[g] :
        \A j \in 1..(i - 1) : j \in handled[g] \/ log[j].type # log[i].type}

Subject(i) == <<log[i].user, log[i].about>>

\* History: group g takes event i, maybe after a later one of its subject.
Takes(g, i) ==
    /\ crossed' = [crossed EXCEPT ![g] =
          IF \E j \in handled[g] : j > i /\ Subject(j) = Subject(i)
          THEN @ \union {Subject(i)} ELSE @ \ {Subject(i)}]
    /\ begun' = begun \union {i}
    /\ UNCHANGED <<lost, misread, demoted>>

\* Added at the event's time, or removed; a crash before the mark redelivers,
\* and what fails for good is dead-lettered.
HandleUserTimeline(i) ==
    /\ i \in Ready("usertimeline")
    /\ Takes("usertimeline", i)
    /\ \/ /\ userTimeline' =
                [userTimeline EXCEPT ![log[i].user][log[i].about] =
                    IF log[i].type \in {"post.created", "post.reposted"} THEN i ELSE 0]
          /\ \/ /\ handled' = [handled EXCEPT !["usertimeline"] = @ \union {i}]
                /\ UNCHANGED faults
             \/ Fault("crash") /\ UNCHANGED handled
          /\ UNCHANGED parked
       \/ /\ Fault("deadLetter")
          /\ handled' = [handled EXCEPT !["usertimeline"] = @ \union {i}]
          /\ parked' = parked \union {i}
          /\ UNCHANGED userTimeline
    /\ UNCHANGED <<truth, log, graph, home, worker>>
-----------------------------------------------------------------------------
(* hometimeline-svc's worker.                                               *)

Take(i) ==
    /\ msg = 0 /\ i \in Ready("home")
    /\ msg' = i /\ step' = "start"
    /\ Takes("home", i)
    /\ UNCHANGED <<truth, log, handled, parked, graph, home, userTimeline, faults>>

At(type, s) == msg # 0 /\ step = s /\ log[msg].type = type
User == log[msg].user
About == log[msg].about

OnHome ==   \* What the steps that write home:* leave alone.
    UNCHANGED <<truth, log, handled, parked, graph, userTimeline, msg, lost,
                crossed, begun, demoted>>
OnGraph ==  \* What the steps that write the graph cache leave alone.
    UNCHANGED <<truth, log, handled, parked, home, userTimeline, msg, faults,
                lost, crossed, begun, misread>>

\* The events the graph cache still lacks: not handled yet, or dead-lettered.
Open == (DOMAIN log \ handled["home"]) \union parked

\* A service has taken up news of a's posts, and not both are done with it.
Unsettled(a) ==
    \E i \in begun : /\ log[i].type \in PostEvents /\ log[i].user = a
                     /\ i \notin handled["home"] \intersect handled["usertimeline"]

Misread == misread \union {<<User, About>>}
Reading == misread' = IF Unsettled(About) THEN Misread ELSE misread

\* Those an unfollow took out of a's followers, and did not get further.
Leaving(a) ==
    {u \in Users \ followers[a] :
        \E i \in Open : log[i] = [type |-> "user.unfollowed", user |-> u, about |-> a]}

\* _on_post_created.
PushPost ==
    /\ At("post.created", "start") /\ ~IsCelebrity(User)
    /\ home' = FanOut(followers[User] \union {User}, About, msg)
    /\ step' = "done"
    /\ OnHome /\ UNCHANGED <<faults, misread>>

MarkAuthor ==
    /\ At("post.created", "start") /\ IsCelebrity(User)
    /\ celebrities' = celebrities \union {User}
    /\ step' = "marked"
    /\ OnGraph /\ UNCHANGED <<followers, following, demoted>>

PushToAuthor ==
    /\ At("post.created", "marked")
    /\ home' = FanOut({User}, About, msg)
    /\ step' = "done"
    /\ OnHome /\ UNCHANGED <<faults, misread>>

\* _on_post_deleted and _on_post_unreposted.
RemovePost ==
    /\ At("post.deleted", "start") \/ At("post.unreposted", "start")
    /\ home' = RemoveFrom(followers[User] \union {User}, {About})
    /\ misread' = misread \union (Leaving(User) \X {User})
    /\ step' = "done"
    /\ OnHome /\ UNCHANGED faults

\* _on_post_reposted: celebrities fan reposts out like everybody else.
PushRepost ==
    /\ At("post.reposted", "start")
    /\ home' = FanOut(followers[User] \union {User}, About, msg)
    /\ step' = "done"
    /\ OnHome /\ UNCHANGED <<faults, misread>>

\* _on_user_followed.
\* Mutant: the arguments swapped.
AddFollowerReversed ==
    /\ At("user.followed", "start")
    /\ followers' = [followers EXCEPT ![User] = @ \union {About}]
    /\ step' = "first"
    /\ OnGraph /\ UNCHANGED <<following, celebrities, demoted>>

AddFollower ==
    /\ At("user.followed", "start")
    /\ followers' = [followers EXCEPT ![About] = @ \union {User}]
    /\ step' = "first"
    /\ OnGraph /\ UNCHANGED <<following, celebrities, demoted>>

AddFollowing ==
    /\ At("user.followed", "first")
    /\ following' = [following EXCEPT ![User] = @ \union {About}]
    /\ step' = "second"
    /\ OnGraph /\ UNCHANGED <<followers, celebrities, demoted>>

\* Mutant: mark_celebrity dropped, back_fill still skipped.
PromoteNobody ==
    /\ At("user.followed", "second") /\ IsCelebrity(About)
    /\ step' = "done"
    /\ OnGraph /\ UNCHANGED <<graph, demoted>>

Promote ==
    /\ At("user.followed", "second") /\ IsCelebrity(About)
    /\ celebrities' = celebrities \union {About}
    /\ step' = "done"
    /\ OnGraph /\ UNCHANGED <<followers, following, demoted>>

\* recent_posts turns a failing read into no posts.
BackFill ==
    /\ At("user.followed", "second") /\ ~IsCelebrity(About)
    /\ \/ home' = BackFilled(User, About) /\ Reading /\ UNCHANGED faults
       \/ Fault("readError") /\ misread' = Misread /\ UNCHANGED home
    /\ step' = "done"
    /\ OnHome

\* _on_user_unfollowed.
RemoveFollower ==
    /\ At("user.unfollowed", "start")
    /\ followers' = [followers EXCEPT ![About] = @ \ {User}]
    /\ step' = "first"
    /\ OnGraph /\ UNCHANGED <<following, celebrities, demoted>>

\* Mutant: the arguments swapped.
RemoveFollowingReversed ==
    /\ At("user.unfollowed", "first")
    /\ following' = [following EXCEPT ![About] = @ \ {User}]
    /\ step' = "second"
    /\ OnGraph /\ UNCHANGED <<followers, celebrities, demoted>>

RemoveFollowing ==
    /\ At("user.unfollowed", "first")
    /\ following' = [following EXCEPT ![User] = @ \ {About}]
    /\ step' = "second"
    /\ OnGraph /\ UNCHANGED <<followers, celebrities, demoted>>

\* Mutant: demoted one follower too late.
DemoteTooLate ==
    /\ At("user.unfollowed", "second")
    /\ celebrities' = IF Cardinality(followers[About]) + 1 >= Threshold
                      THEN celebrities ELSE celebrities \ {About}
    /\ demoted' = demoted \union (celebrities \ celebrities')
    /\ step' = "third"
    /\ OnGraph /\ UNCHANGED <<followers, following>>

DemoteIfBelow ==
    /\ At("user.unfollowed", "second")
    /\ celebrities' = IF IsCelebrity(About) THEN celebrities
                                            ELSE celebrities \ {About}
    /\ demoted' = demoted \union (celebrities \ celebrities')
    /\ step' = "third"
    /\ OnGraph /\ UNCHANGED <<followers, following>>

\* Mutant: the author's own home is purged.
PurgeAuthor ==
    /\ At("user.unfollowed", "third")
    /\ home' = RemoveFrom({About}, RecentPosts(About))
    /\ step' = "done"
    /\ OnHome /\ UNCHANGED <<faults, misread>>

Purge ==
    /\ At("user.unfollowed", "third")
    /\ \/ home' = RemoveFrom({User}, RecentPosts(About)) /\ Reading /\ UNCHANGED faults
       \/ Fault("readError") /\ misread' = Misread /\ UNCHANGED home
    /\ step' = "done"
    /\ OnHome

\* Mutant: the step is not reset.
MarkKeepsStep ==
    /\ step = "done"
    /\ handled' = [handled EXCEPT !["home"] = @ \union {msg}]
    /\ msg' = 0
    /\ UNCHANGED <<truth, log, parked, graph, home, userTimeline, step, faults,
                   history>>

\* The consumer's mark and commit, or its dead letter when a handler kept
\* failing.
Mark ==
    /\ \/ step = "done" /\ UNCHANGED <<parked, faults>>
       \/ /\ msg # 0 /\ step # "done" /\ Fault("deadLetter")
          /\ parked' = parked \union {msg}
    /\ handled' = [handled EXCEPT !["home"] = @ \union {msg}]
    /\ msg' = 0 /\ step' = "idle"
    /\ UNCHANGED <<truth, log, graph, home, userTimeline, history>>

\* The worker dies and, restarted, is handed the message again.
Crash ==
    /\ msg # 0 /\ Fault("crash")
    /\ msg' = 0 /\ step' = "idle"
    /\ UNCHANGED <<truth, log, handled, parked, graph, home, userTimeline, history>>

HomeHandler ==
    \/ PushPost \/ MarkAuthor \/ PushToAuthor
    \/ RemovePost \/ PushRepost
    \/ AddFollower \/ AddFollowing \/ Promote \/ BackFill
    \/ RemoveFollower \/ RemoveFollowing \/ DemoteIfBelow \/ Purge

HomeWorker == (\E i \in DOMAIN log : Take(i)) \/ HomeHandler \/ Mark
UserTimelineWorker == \E i \in DOMAIN log : HandleUserTimeline(i)

Next == UserActs \/ UserTimelineWorker \/ HomeWorker \/ Crash

Spec == Init /\ [][Next]_vars
-----------------------------------------------------------------------------
(* What the read models promise.                                            *)

Owed(type, author) == \E i \in Open : log[i].type = type /\ log[i].about = author

OwedEdge(u, v) ==
    \E i \in Open : log[i].type \in EdgeEvents /\ log[i].user = u /\ log[i].about = v

\* The two sets that hold each follow edge, written by separate commands
\* (store.add_follower and add_following, remove_follower and
\* remove_following), disagree only about edges of which an event is still to
\* be handled or was dead-lettered: whatever the order of the topics and
\* wherever the worker dies, redelivery repairs them.  Fan-out reads one set
\* and the celebrity pull the other.
EdgesAgree ==
    \A u, v \in Users :
        (u \in followers[v]) # (v \in following[u]) => OwedEdge(u, v)

\* An author is in the celebrities set exactly when its follower count calls
\* for it, unless a follow (still to promote it) or an unfollow (still to
\* demote it) is owed: otherwise its posts are neither pushed nor pulled, or
\* pushed and pulled (is_celebrity, mark_celebrity, demote_if_below).
CelebritiesAgree ==
    \A a \in Users :
        /\ IsCelebrity(a) /\ a \notin celebrities => Owed("user.followed", a)
        /\ ~IsCelebrity(a) /\ a \in celebrities => Owed("user.unfollowed", a)

\* The graph cache has an edge of user-svc's graph, and only then, unless news
\* of that very edge is owed, its latest event was never published, or that was
\* handled before an earlier one.  What happens to one edge, lost, parked or
\* out of order, harms no other, and the next event of the edge repairs it.
GraphCurrent ==
    \A u, v \in Users :
        \/ u \in followers[v] <=> <<u, v>> \in follows
        \/ OwedEdge(u, v) \/ <<u, v>> \in lost \union crossed["home"]

Quiescent == \A g \in Groups : handled[g] = DOMAIN log

\* "The read models will converge once the bus recovers" (users/views.py), and
\* are rebuilt from the events (store.py): with all events handled, the graph
\* cache is user-svc's graph.
GraphConverges ==
    Quiescent => \A u, v \in Users : u \in followers[v] <=> <<u, v>> \in follows

\* The posts a user should see: their own and those of the accounts they
\* follow, and what these repost.
Sources(u) == {u} \union {v \in Users : <<u, v>> \in follows}
FeedOf(u) == {p \in live : \/ Author[p] \in Sources(u)
                          \/ \E i \in reposts : /\ log[i].about = p
                                                /\ log[i].user \in Sources(u)}

\* A post that is reposted is pushed and removed with the followers of several
\* users (RemovedEverywhere); one whose news was lost, dead-lettered or taken
\* by a group in the wrong order may be shown or missing for good.
StrayPost(p) ==
    \/ <<Author[p], p>> \in lost \union UNION {crossed[g] : g \in Groups}
    \/ \E i \in DOMAIN log : /\ log[i].about = p
                             /\ i \in parked \/ log[i].type = "post.reposted"

\* So may the posts of an author for a reader, when that befell their edge, or
\* a back-fill or purge of it failed or met the author's posts in motion.
StrayEdge(u, a) ==
    <<u, a>> \in lost \union crossed["home"] \union misread \/ OwedEdge(u, a)

\* When all events are handled, every post of the accounts a user follows is
\* pushed to the user's home timeline or pulled into it, also while its author
\* becomes a celebrity (fan_out, back_fill, page), in whatever order topics and
\* services took the events and wherever workers died, but for stray posts and
\* edges, and but for posts of a demoted celebrity, which are neither pushed nor
\* back-filled.  No author may have more posts than recent_posts reads.
FeedComplete ==
    Quiescent =>
        \A u \in Users : \A p \in FeedOf(u) :
            \/ p \in Visible(u)
            \/ StrayPost(p) \/ StrayEdge(u, Author[p])
            \/ Author[p] \in demoted \ celebrities

\* When all events are handled, a home timeline shows nothing else: no deleted
\* post and no post of an account unfollowed (remove_post, purge), but for
\* stray posts and edges.  Here too no author may have more posts than
\* recent_posts reads: purge removes just those.
FeedSound ==
    Quiescent =>
        \A u \in Users : \A p \in Visible(u) :
            p \in FeedOf(u) \/ StrayPost(p) \/ StrayEdge(u, Author[p])

\* A deleted post is in no home timeline once the deletion is handled, as
\* remove_post says of every home timeline the post was pushed to.
RemovedEverywhere ==
    \A i \in handled["home"] :
        log[i].type = "post.deleted" => \A u \in Users : home[u][log[i].about] = 0
=============================================================================
