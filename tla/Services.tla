------------------------------ MODULE Services ------------------------------
(***************************************************************************)
(* The services behind the post card, the story bar and the messages page.   *)
(* They share no state but the bus, and no topic of one group below is read   *)
(* in another, so that a behaviour is one of one group: user-svc and          *)
(* stories-svc; interaction-svc, ranking-svc and the live counter; the post   *)
(* document and its notifications; messaging-svc; media-svc, its worker and   *)
(* the variants of a post; search-svc.                                        *)
(***************************************************************************)
EXTENDS Integers

CONSTANTS
    Users, Owner,   \* Owner: of the post
    Requests,       \* bound: requests in flight
    MaxActs,        \* bound: by group
    MaxLive,        \* see StoryFeed
    Media,          \* see MediaPipeline
    Posts           \* see SearchIndex

\* source: the systems of record; copy: what others build from their events.
VARIABLES group, source, copy

Groups == {"stories", "likes", "post", "chat", "media", "search"}

ASSUME ServicesAssumption == Owner \in Users /\ MaxActs \in [Groups -> Nat]

Stories == INSTANCE StoryFeed
           WITH graph <- source, stories <- copy, MaxActs <- MaxActs["stories"]
Likes == INSTANCE Engagement
         WITH likes <- source, readers <- copy, MaxActs <- MaxActs["likes"]
Post == INSTANCE PostDocument
        WITH post <- source, readers <- copy, MaxActs <- MaxActs["post"]
Chat == INSTANCE Messaging
        WITH chat <- source, MaxActs <- MaxActs["chat"]
Pipeline == INSTANCE MediaPipeline
            WITH media <- source, posts <- copy, MaxActs <- MaxActs["media"]
Index == INSTANCE SearchIndex
         WITH catalog <- source, index <- copy, MaxActs <- MaxActs["search"]
ASSUME GroupAssumption ==
    Stories!GraphAssumption /\ Likes!EngagementAssumption /\ Chat!MemberAssumption
-----------------------------------------------------------------------------
Init ==
    \/ group = "stories" /\ Stories!Init
    \/ group = "likes" /\ Likes!Init
    \/ group = "post" /\ Post!Init
    \/ group = "chat" /\ Chat!Init /\ copy = <<>>
    \/ group = "media" /\ Pipeline!Init
    \/ group = "search" /\ Index!Init

In(name, step) == group = name /\ step /\ UNCHANGED group

Next ==
    \/ In("stories", Stories!Next)
    \/ In("likes", Likes!Next)
    \/ In("post", Post!Next)
    \/ In("chat", Chat!Next /\ UNCHANGED copy)
    \/ In("media", Pipeline!Next)
    \/ In("search", Index!Next)

Spec == Init /\ [][Next]_<<group, source, copy>>
-----------------------------------------------------------------------------
TypeOK ==
    /\ group \in Groups
    /\ CASE group = "stories" -> Stories!TypeOK
         [] group = "likes" -> Likes!TypeOK
         [] group = "post" -> Post!TypeOK
         [] group = "chat" -> Chat!TypeOK
         [] group = "media" -> Pipeline!TypeOK
         [] group = "search" -> Index!TypeOK

\* No edge crosses a block, but for one race (users/views.py).
EdgesRespectBlocks == group = "stories" => Stories!EdgesRespectBlocks

\* The story bar shows a story to whom user-svc lets see it (stories/views.py).
StoryFeedAgrees == group = "stories" => Stories!StoryFeedAgrees

\* What is stored twice agrees once the requests have ended, except where the
\* code lets it differ.  The like counter counts the rows, but for a request that
\* counted before another changed a row (interactions/counters.py); the pushed
\* counter, but for news lost or out of order; the sums of ranking-svc, but for
\* users whose news was lost, handled twice or no news.  The counter of a post
\* counts its reposts, but for two withdrawals of one (posts/views.py); a
\* deleted comment has no text, but for an edit under way; a comment is notified
\* once, but for a handler that ran again.  Two inboxes show the newest message,
\* but for sends side by side or broken off (messaging/cql.py).  Media are ready
\* and their posts have the variants, but for lost news and kinds the worker
\* does not know (worker.py).  The index has the posts there are, but for lost
\* news and deletions that overtook it, and users but for renames (index.py).
CopiesAgree ==
    /\ group = "likes" => Likes!LikesAgree
    /\ group = "post" => Post!PostAgrees
    /\ group = "chat" => Chat!InboxesAgree
    /\ group = "media" => Pipeline!MediaAgree
    /\ group = "search" => Index!IndexAgrees
=============================================================================
