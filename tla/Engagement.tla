---------------------------- MODULE Engagement ----------------------------
(***************************************************************************)
(* The likes of one post: rows and a cached counter in interaction-svc       *)
(* (interactions/views.py, counters.py), the counter that realtime-svc       *)
(* pushes and the sums that ranking-svc keeps, both fed by the events.  The   *)
(* author of the post, for whom ranking-svc keeps no affinity, likes nothing. *)
(***************************************************************************)
EXTENDS Integers, Sequences, FiniteSets

CONSTANTS
    Users,
    Requests,   \* bound: requests in flight
    MaxActs     \* bound: requests made

EngagementAssumption ==
    /\ IsFiniteSet(Users) /\ Users # {} /\ IsFiniteSet(Requests)
    /\ MaxActs \in Nat

VARIABLES likes, readers

Cold == -1      \* no cached counter, nothing pushed yet
Counts == 0..Cardinality(Users)
Topics == {"liked", "unliked"}
Groups == {"realtime", "ranking"}
Like == [user : Users, count : Counts]
Asks == Topics \union {"count"}

\* A request: what it asks, for whom, the count it has read, and (history)
\* whether a row has changed since.  tangled is history: news of a like was
\* lost, or did not come in the order in which the rows changed.  miscounted:
\* users whose news was lost, handled twice, or told nothing new.
TypeOK ==
    /\ likes \in [
        rows : SUBSET Users, cached : Counts \union {Cold}, stale : BOOLEAN,
        request : [Requests -> [at : {"idle", "count", "set", "emit"}, asks : Asks,
                                user : Users, count : Counts, stale : BOOLEAN]],
        bus : [Topics -> Seq(Like)], tangled : BOOLEAN,
        miscounted : SUBSET Users, acts : 0..MaxActs]
    /\ readers \in [
        read : [Groups -> [Topics -> Nat]], pushed : Counts \union {Cold},
        known : BOOLEAN, half : SUBSET Topics,
        engagement : Int, affinity : [Users -> Int]]

Idle == [at |-> "idle", asks |-> "count", user |-> CHOOSE u \in Users : TRUE,
         count |-> 0, stale |-> FALSE]

\* Any likes, cached and counted.
Init == \E rows \in SUBSET Users :
    /\ likes = [rows |-> rows, cached |-> Cardinality(rows), stale |-> FALSE,
                request |-> [r \in Requests |-> Idle],
                bus |-> [t \in Topics |-> <<>>], tangled |-> FALSE,
                miscounted |-> {}, acts |-> 0]
    /\ \E known \in {TRUE, rows # {}} :
       readers = [read |-> [g \in Groups |-> [t \in Topics |-> 0]],
                  pushed |-> Cold, known |-> known, half |-> {},
                  engagement |-> Cardinality(rows),
                  affinity |-> [u \in Users |-> IF u \in rows THEN 1 ELSE 0]]

Act == likes.acts < MaxActs
Acted == [likes EXCEPT !.acts = @ + 1]
Unread(group, topic) == readers.read[group][topic] < Len(likes.bus[topic])
Upcoming(group, topic) == likes.bus[topic][readers.read[group][topic] + 1]
-----------------------------------------------------------------------------
(* interaction-svc.                                                         *)

\* Like.post and Like.delete: the row.  A like that is there, or an unlike of
\* nothing, goes on all the same.
Change(r) == \E user \in Users, topic \in Topics :
    LET rows == IF topic = "liked" THEN likes.rows \union {user} ELSE likes.rows \ {user}
        others == [likes.request EXCEPT ![r] = [Idle EXCEPT !.at = "count", !.asks = topic,
                                                            !.user = user]] IN
    /\ Act /\ likes.request[r].at = "idle"
    /\ likes' = [Acted EXCEPT !.rows = rows,
                   !.miscounted = IF rows = likes.rows THEN @ \union {user} ELSE @,
                   !.tangled = @ \/ \E q \in Requests : likes.request[q].at \in {"set", "emit"},
                   !.request = [q \in Requests |->
                       [others[q] EXCEPT !.stale = @ \/ others[q].at = "set"]]]
    /\ UNCHANGED readers

\* LikeCount.get, which counts when the cache is cold.
LoadCount(r) ==
    /\ Act /\ likes.request[r].at = "idle" /\ likes.cached = Cold
    /\ likes' = [Acted EXCEPT !.request[r] = [Idle EXCEPT !.at = "count"]]
    /\ UNCHANGED readers

Count(r) ==
    /\ likes.request[r].at = "count"
    /\ likes' = [likes EXCEPT !.request[r].at = "set",
                   !.request[r].count = Cardinality(likes.rows)]
    /\ UNCHANGED readers

\* Mutant: the counter is increased and decreased, as if every request
\* changed a row.
SetCountBlindly(r) ==
    LET request == likes.request[r] IN
    /\ request.at = "set"
    /\ likes' = [likes EXCEPT !.stale = request.stale,
                   !.cached = CASE request.asks = "liked"   -> @ + 1
                                [] request.asks = "unliked" -> @ - 1
                                [] request.asks = "count"   -> request.count,
                   !.request[r] = IF request.asks = "count" THEN Idle
                                  ELSE [request EXCEPT !.at = "emit", !.stale = FALSE]]
    /\ UNCHANGED readers

SetCount(r) ==
    LET request == likes.request[r] IN
    /\ request.at = "set"
    /\ likes' = [likes EXCEPT !.cached = request.count, !.stale = request.stale,
                   !.request[r] = IF request.asks = "count" THEN Idle
                                  ELSE [request EXCEPT !.at = "emit", !.stale = FALSE]]
    /\ UNCHANGED readers

\* _emit: what the bus does not take is logged and forgotten.
Emit(r) ==
    LET request == likes.request[r]
        done == [likes EXCEPT !.request[r] = Idle]
        like == [user |-> request.user, count |-> request.count] IN
    /\ request.at = "emit"
    /\ \/ likes' = [done EXCEPT !.bus[request.asks] = Append(@, like),
                      !.tangled = @ \/ \E t \in Topics \ {request.asks} : Unread("realtime", t)]
       \/ likes' = [done EXCEPT !.tangled = TRUE, !.miscounted = @ \union {request.user}]
    /\ UNCHANGED readers

\* Redis is wiped.
Evict == /\ likes.cached # Cold
         /\ likes' = [likes EXCEPT !.cached = Cold, !.stale = FALSE] /\ UNCHANGED readers
-----------------------------------------------------------------------------
(* realtime-svc and ranking-svc: two groups, each its own pace.             *)

\* _on_like of realtime-svc, and a push nobody gets.
Push(topic) ==
    /\ Unread("realtime", topic)
    /\ \/ /\ readers' = [readers EXCEPT !.read["realtime"][topic] = @ + 1,
                           !.pushed = Upcoming("realtime", topic).count]
          /\ UNCHANGED likes
       \/ /\ readers' = [readers EXCEPT !.read["realtime"][topic] = @ + 1]
          /\ likes' = [likes EXCEPT !.tangled = TRUE]

Weight(topic) == IF topic = "liked" THEN 1 ELSE -1

\* _on_created of ranking-svc: from now on the author of the post is known.
RecordPost == /\ ~readers.known /\ readers' = [readers EXCEPT !.known = TRUE]
              /\ UNCHANGED likes

\* The first increment of _on_liked and _on_unliked.  If the handler has been
\* here before, it failed or its worker died, and it starts over (bound: once
\* for a user).
AddEngagement(topic) ==
    /\ Unread("ranking", topic)
    /\ topic \in readers.half => Upcoming("ranking", topic).user \notin likes.miscounted
    /\ readers' = [readers EXCEPT !.engagement = @ + Weight(topic), !.half = @ \union {topic}]
    /\ likes' = IF topic \in readers.half
                THEN [likes EXCEPT !.miscounted = @ \union {Upcoming("ranking", topic).user}]
                ELSE likes

\* The second, for a post whose author is known, and the commit.
BumpAffinity(topic) ==
    LET user == Upcoming("ranking", topic).user IN
    /\ topic \in readers.half
    /\ readers' = [readers EXCEPT !.half = @ \ {topic}, !.read["ranking"][topic] = @ + 1,
                     !.affinity[user] = IF readers.known THEN @ + Weight(topic) ELSE @]
    /\ likes' = IF readers.known THEN likes
                ELSE [likes EXCEPT !.miscounted = @ \union {user}]

\* Redis fails three times: the event is parked, half handled or not at all.
ParkLike(topic) ==
    /\ Unread("ranking", topic)
    /\ readers' = [readers EXCEPT !.half = @ \ {topic}, !.read["ranking"][topic] = @ + 1]
    /\ likes' = [likes EXCEPT !.miscounted = @ \union {Upcoming("ranking", topic).user}]
-----------------------------------------------------------------------------
Next ==
    \/ \E r \in Requests : Change(r) \/ LoadCount(r) \/ Count(r) \/ SetCount(r) \/ Emit(r)
    \/ Evict \/ RecordPost
    \/ \E t \in Topics : Push(t) \/ AddEngagement(t) \/ BumpAffinity(t) \/ ParkLike(t)

Spec == Init /\ [][Next]_<<likes, readers>>
-----------------------------------------------------------------------------
\* A cached counter counts the rows, unless the request that wrote it had
\* counted before a row changed, or a request is about to write it.
CacheCounts ==
    likes.cached # Cold /\ ~likes.stale =>
        \/ likes.cached = Cardinality(likes.rows)
        \/ \E r \in Requests : likes.request[r].at \in {"count", "set"}

Emitted == \A r \in Requests : likes.request[r].at = "idle"
AllRead(group) == \A t \in Topics : ~Unread(group, t)

\* What was pushed last is the number of likes once all news has come, unless
\* news was lost or came out of order.
PushCounts == Emitted /\ AllRead("realtime") /\ ~likes.tangled =>
                  readers.pushed \in {Cold, Cardinality(likes.rows)}

\* The sums of ranking-svc are those of the rows, in whatever order the two
\* topics were read, but for users whose news was lost, counted twice, was no
\* news, or came before the post itself.
RankingCounts ==
    Emitted /\ AllRead("ranking") =>
        /\ likes.miscounted = {} => readers.engagement = Cardinality(likes.rows)
        /\ \A u \in Users \ likes.miscounted :
              readers.affinity[u] = IF u \in likes.rows THEN 1 ELSE 0

\* "The counter can never drift on retries/double-clicks": when no request is
\* under way, a cached counter counts the rows (interactions/counters.py).  The
\* code does not keep this: of two requests that overlap the older count may be
\* cached last.
CounterNeverDrifts == Emitted /\ likes.cached # Cold => likes.cached = Cardinality(likes.rows)

LikesAgree == CacheCounts /\ PushCounts /\ RankingCounts

\* "Return a score per post id": log1p has no value at -1 and below, so both
\* sums must stay above for a post that is scored.
ScoresDefined ==
    readers.known => /\ readers.engagement > -1
                     /\ \A u \in Users : readers.affinity[u] > -1
=============================================================================
