----------------------------- MODULE StoryFeed -----------------------------
(***************************************************************************)
(* stories-svc (services/stories-svc/stories/): stories that expire, markers *)
(* of the authors who have one, and copies of the social graph built from    *)
(* the events of user-svc.  Together they decide who sees a story.           *)
(***************************************************************************)
EXTENDS SocialGraph

CONSTANT MaxLive    \* bound: stories alive at a time

VARIABLE stories

Audiences == {"public", "close_friends"}
Story == [author : Users, audience : Audiences]

\* posting: the row is made, the marker is still to be set.  unmarked is
\* history: authors the last marker of whom could not be set.
FeedTypeOK == stories \in [
    edges : SUBSET Edges, live : Seq(Story), active : SUBSET Users,
    posting : SUBSET Users, unmarked : SUBSET Users]

TypeOK == GraphTypeOK /\ FeedTypeOK

Init == GraphInit /\ stories = [edges |-> graph.edges, live |-> <<>>, active |-> {},
                                posting |-> {}, unmarked |-> {}]
-----------------------------------------------------------------------------
\* StoryList.post.
Post == \E story \in Story :
    /\ Act /\ Len(stories.live) < MaxLive /\ story.author \notin stories.posting
    /\ graph' = Acted
    /\ stories' = [stories EXCEPT !.live = Append(@, story),
                     !.posting = @ \union {story.author}]

\* A marker lives as long as a story, so it covers all the author has.
MarkActive == \E author \in stories.posting :
    LET s == [stories EXCEPT !.posting = @ \ {author}] IN
    /\ stories' \in {[s EXCEPT !.active = @ \union {author}, !.unmarked = @ \ {author}],
                     [s EXCEPT !.unmarked = @ \union {author}]}
    /\ UNCHANGED graph

Alive(author) == \E i \in DOMAIN stories.live : stories.live[i].author = author

\* The oldest story comes to its end, long after its request has; the sweep
\* reclaims its row.
Expire ==
    /\ stories.live # <<>>
    /\ Head(stories.live).author \in stories.posting =>
          \E i \in 2..Len(stories.live) : stories.live[i].author = Head(stories.live).author
    /\ stories' = [stories EXCEPT !.live = Tail(@)]
    /\ UNCHANGED graph

MarkerExpires == \E author \in stories.active :
    /\ ~Alive(author) \/ author \in stories.posting \union stories.unmarked
    /\ stories' = [stories EXCEPT !.active = @ \ {author}]
    /\ UNCHANGED graph

\* Mutant: a close friend who is removed stays.
ConsumeKept(kind, added) ==
    /\ graph.bus[kind][added] # <<>>
    /\ LET edge == <<kind, Head(graph.bus[kind][added])>> IN
       /\ graph' \in {graph, [graph EXCEPT !.bus[kind][added] = Tail(@)]}
       /\ stories' = [stories EXCEPT !.edges =
                        IF added THEN @ \union {edge}
                        ELSE IF kind = "follow" THEN @ \ {edge} ELSE @]

\* The topics are read in any order.  A worker that dies before it commits is
\* given the event again.
Consume(kind, added) ==
    /\ graph.bus[kind][added] # <<>>
    /\ LET edge == <<kind, Head(graph.bus[kind][added])>> IN
       /\ graph' \in {graph, [graph EXCEPT !.bus[kind][added] = Tail(@)]}
       /\ stories' = [stories EXCEPT !.edges =
                        IF added THEN @ \union {edge} ELSE @ \ {edge}]

\* Redis fails three times, the event is parked.
DeadLetter(kind, added) ==
    /\ graph.bus[kind][added] # <<>>
    /\ LET edge == <<kind, Head(graph.bus[kind][added])>> IN
       graph' = [graph EXCEPT !.bus[kind][added] = Tail(@), !.lost = @ \union {edge}]
    /\ UNCHANGED stories

Next ==
    \/ GraphNext /\ UNCHANGED stories
    \/ Post \/ MarkActive \/ Expire \/ MarkerExpires
    \/ \E kind \in Kinds, added \in BOOLEAN : Consume(kind, added) \/ DeadLetter(kind, added)

Spec == Init /\ [][Next]_<<graph, stories>>
-----------------------------------------------------------------------------
\* Whom a story of the bar comes from, and for whom it is.
Following(viewer, author) == <<"follow", <<viewer, author>>>>
Friend(author, viewer) == <<"close_friend", <<author, viewer>>>>

\* Who may see a story by the edges of a graph.
Visible(edges, story, viewer) ==
    \/ story.author = viewer
    \/ /\ Following(viewer, story.author) \in edges
       /\ story.audience = "public" \/ Friend(story.author, viewer) \in edges

\* StoryFeed.get.
InFeed(story, viewer) ==
    story.author \in stories.active /\ Visible(stories.edges, story, viewer)

\* The copy of the edge can be trusted: all its news has come, in order.
Trusted(edge) == edge \notin graph.lost \union graph.crossed /\ ~News(edge)

\* A living story is in the bar of exactly the users user-svc lets see it:
\* the followers of its author and, if it is for close friends, of those only
\* the friends.  The exceptions: news of the edge is on its way, was lost, or
\* was overtaken by later news in another topic; the marker was not set.
StoryFeedAgrees ==
    \A i \in DOMAIN stories.live : \A viewer \in Users :
        LET story == stories.live[i] IN
        /\ story.author \notin stories.posting \union stories.unmarked
        /\ viewer # story.author =>
              Trusted(Following(viewer, story.author)) /\ Trusted(Friend(story.author, viewer))
        => (InFeed(story, viewer) <=> Visible(graph.edges, story, viewer))
=============================================================================
