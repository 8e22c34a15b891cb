---------------------------- MODULE SocialGraph ----------------------------
(***************************************************************************)
(* The social graph of user-svc (services/user-svc/users/views.py, graph.py):*)
(* who follows whom, who is whose close friend, who blocks whom.  Every       *)
(* query of graph.py is one step; a view makes several, and then publishes    *)
(* what it did, best effort.                                                  *)
(***************************************************************************)
EXTENDS Integers, Sequences

CONSTANTS
    Users,
    Requests,   \* bound: requests in flight
    MaxActs     \* bound: what is asked of the services

GraphAssumption == MaxActs \in Nat

VARIABLE graph

Pairs == {p \in Users \X Users : p[1] # p[2]}
Reversed(p) == <<p[2], p[1]>>

Kinds == {"follow", "close_friend"}
Edges == Kinds \X Pairs
NoEdge == <<>>
Events == [kind : Kinds, added : BOOLEAN, pair : Pairs]

\* bus: the topics user.followed, user.unfollowed and so on, which are read
\* independently of each other.  Nothing consumes user.blocked and
\* user.unblocked.  raced, crossed and lost are history: edges written after a
\* block that their check did not see, edges changed before the news of their
\* last change had arrived, and edges of which news was lost.
GraphTypeOK == graph \in [
    edges : SUBSET Edges, blocks : SUBSET Pairs,
    request : [Requests -> [at : {"idle", "checked", "publish"},
                            edge : Edges \union {NoEdge}, events : Seq(Events)]],
    bus : [Kinds -> [BOOLEAN -> Seq(Pairs)]],
    raced : SUBSET Edges, crossed : SUBSET Edges, lost : SUBSET Edges,
    acts : 0..MaxActs]

Idle == [at |-> "idle", edge |-> NoEdge, events |-> <<>>]

\* Any graph without blocks.
GraphInit == \E edges \in SUBSET Edges : graph = [
    edges |-> edges, blocks |-> {}, request |-> [r \in Requests |-> Idle],
    bus |-> [k \in Kinds |-> [added \in BOOLEAN |-> <<>>]],
    raced |-> {}, crossed |-> {}, lost |-> {}, acts |-> 0]

Act == graph.acts < MaxActs
Acted == [graph EXCEPT !.acts = @ + 1]

BlocksEither(p) == p \in graph.blocks \/ Reversed(p) \in graph.blocks

Telling(events) == [at |-> "publish", edge |-> NoEdge, events |-> events]

Event(edge, added) == [kind |-> edge[1], added |-> added, pair |-> edge[2]]

\* News that the edge was added, or removed, is still to be published or to be
\* consumed.
Says(edge, added) ==
    \/ \E r \in Requests : \E i \in DOMAIN graph.request[r].events :
          graph.request[r].events[i] = Event(edge, added)
    \/ \E i \in DOMAIN graph.bus[edge[1]][added] : graph.bus[edge[1]][added][i] = edge[2]

News(edge) == \E added \in BOOLEAN : Says(edge, added)
-----------------------------------------------------------------------------
\* Follow.post and CloseFriend.post: the check, and the write it lets pass.
CheckBlocks(r) == \E edge \in Edges :
    /\ Act /\ graph.request[r].at = "idle" /\ ~BlocksEither(edge[2])
    /\ graph' = [Acted EXCEPT !.request[r] = [Idle EXCEPT !.at = "checked", !.edge = edge]]

Write(r) ==
    LET edge == graph.request[r].edge IN
    /\ graph.request[r].at = "checked"
    /\ graph' = [graph EXCEPT !.edges = @ \union {edge},
                   !.crossed = IF News(edge) THEN @ \union {edge} ELSE @,
                   !.request[r] = Telling(<<Event(edge, TRUE)>>)]

\* Follow.delete and CloseFriend.delete, which tell even if there was no edge.
Remove(r) == \E edge \in Edges :
    /\ Act /\ graph.request[r].at = "idle"
    /\ graph' = [Acted EXCEPT !.edges = @ \ {edge},
                   !.crossed = IF News(edge) THEN @ \union {edge} ELSE @,
                   !.request[r] = Telling(<<Event(edge, FALSE)>>)]

\* What is told of a block: news of the edges it tears down.
ToldOf(edge) == IF edge \in graph.edges THEN <<Event(edge, FALSE)>> ELSE <<>>

Told(p) == ToldOf(<<"follow", p>>) \o ToldOf(<<"follow", Reversed(p)>>)
           \o ToldOf(<<"close_friend", p>>) \o ToldOf(<<"close_friend", Reversed(p)>>)

Checked(p) == {graph.request[r].edge :
                 r \in {q \in Requests : /\ graph.request[q].at = "checked"
                                         /\ graph.request[q].edge[2] \in {p, Reversed(p)}}}

\* Mutant: the edges of the blocked user stay.
BlockOneWay(r) == \E p \in Pairs :
    /\ Act /\ graph.request[r].at = "idle"
    /\ graph' = [Acted EXCEPT !.blocks = @ \union {p}, !.edges = @ \ (Kinds \X {p}),
                   !.raced = (@ \ (Kinds \X {p, Reversed(p)})) \union Checked(p),
                   !.request[r] = Telling(Told(p))]

\* graph.block is one query.
Block(r) == \E p \in Pairs :
    /\ Act /\ graph.request[r].at = "idle"
    /\ graph' = [Acted EXCEPT !.blocks = @ \union {p},
                   !.edges = @ \ (Kinds \X {p, Reversed(p)}),
                   !.crossed = @ \union {e \in graph.edges :
                                           e[2] \in {p, Reversed(p)} /\ News(e)},
                   !.raced = (@ \ (Kinds \X {p, Reversed(p)})) \union Checked(p),
                   !.request[r] = Telling(Told(p))]

Unblock == \E p \in graph.blocks :
    Act /\ graph' = [Acted EXCEPT !.blocks = @ \ {p}]

\* _publish: what the bus does not take is logged and forgotten.
Publish(r) ==
    /\ graph.request[r].at = "publish" /\ graph.request[r].events # <<>>
    /\ LET event == Head(graph.request[r].events)
           g == [graph EXCEPT !.request[r].events = Tail(@)] IN
       \/ graph' = [g EXCEPT !.bus[event.kind][event.added] = Append(@, event.pair)]
       \/ graph' = [g EXCEPT !.lost = @ \union {<<event.kind, event.pair>>}]

Respond(r) ==
    /\ graph.request[r].at = "publish" /\ graph.request[r].events = <<>>
    /\ graph' = [graph EXCEPT !.request[r] = Idle]

GraphNext ==
    \/ Unblock
    \/ \E r \in Requests : CheckBlocks(r) \/ Write(r) \/ Remove(r) \/ Block(r)
                           \/ Publish(r) \/ Respond(r)

GraphSpec == GraphInit /\ [][GraphNext]_graph
-----------------------------------------------------------------------------
\* Nobody follows, or is a close friend of, a user on the other side of a
\* block, unless the edge was checked before the block and written after it.
EdgesRespectBlocks ==
    \A edge \in graph.edges : BlocksEither(edge[2]) => edge \in graph.raced
=============================================================================
