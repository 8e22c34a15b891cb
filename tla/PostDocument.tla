--------------------------- MODULE PostDocument ---------------------------
(***************************************************************************)
(* One post and what hangs on it (services/post-svc/posts/views.py):         *)
(* comments inside the document, reposts in a collection of their own, and   *)
(* the counter of reposts.  Every view finds first and writes later, in one  *)
(* transaction with its events (see Outbox).  The notifications of its owner *)
(* are made from the events by realtime-svc.                                 *)
(***************************************************************************)
EXTENDS Integers, Sequences, FiniteSets

CONSTANTS
    Users, Owner,
    Requests,   \* bound: requests in flight
    MaxActs     \* bound: requests made

VARIABLES post, readers

Ids == 1..MaxActs   \* comments and reposts, by the request that made them
Asks == {"comment", "edit", "delete", "repost", "withdraw", "drop"}
Comment == [author : Users, body : {"written", "edited", "none"}, deleted : BOOLEAN]

\* of: what an edit, a delete or a withdrawal is about.  twice is history:
\* a repost was withdrawn when it was gone.  revived: comments deleted while
\* an edit was under way.  rerun: events the worker has handled more than once
\* or parked.
TypeOK ==
    /\ post \in [
        exists : BOOLEAN, comments : [Ids -> SUBSET Comment],
        reposts : SUBSET Ids, repostCount : Int,
        request : [Requests -> [at : {"idle", "found"}, asks : Asks, user : Users, of : {0} \union Ids]],
        bus : Seq([id : Ids, author : Users]), twice : BOOLEAN, revived : SUBSET Ids, acts : 0..MaxActs]
    /\ readers \in [half : BOOLEAN, notices : [Ids -> Nat], rerun : SUBSET Ids]

Idle == [at |-> "idle", asks |-> "comment", user |-> Owner, of |-> 0]

Init ==
    /\ post = [exists |-> TRUE, comments |-> [i \in Ids |-> {}],
               reposts |-> {}, repostCount |-> 0,
               request |-> [r \in Requests |-> Idle],
               bus |-> <<>>, twice |-> FALSE, revived |-> {}, acts |-> 0]
    /\ readers = [half |-> FALSE, notices |-> [i \in Ids |-> 0], rerun |-> {}]

\* _find_comment: a comment that is not deleted, by its id.
Found(id) == {c \in post.comments[id] : ~c.deleted}
-----------------------------------------------------------------------------
Begin(r, asks, user, of) ==
    /\ post.acts < MaxActs /\ post.request[r].at = "idle"
    /\ post' = [post EXCEPT !.acts = @ + 1,
                  !.request[r] = [at |-> "found", asks |-> asks, user |-> user, of |-> of]]
    /\ UNCHANGED readers

FindPost(r) == \E user \in Users :
    /\ post.exists
    /\ \/ Begin(r, "comment", user, post.acts + 1)
       \/ Begin(r, "repost", user, post.acts + 1)
       \/ user = Owner /\ Begin(r, "drop", user, 0)

\* An author edits, an author or the owner of the post deletes.
FindComment(r) == \E id \in Ids : \E comment \in Found(id) :
    \/ Begin(r, "edit", comment.author, id)
    \/ \E user \in {comment.author, Owner} : Begin(r, "delete", user, id)

FindRepost(r) == \E id \in post.reposts : Begin(r, "withdraw", Owner, id)

Writing(r, asks) == post.request[r].at = "found" /\ post.request[r].asks = asks
Done(r) == [post EXCEPT !.request[r] = Idle]

\* $push finds nothing to push to if the post is gone; the event goes out.
WriteComment(r) ==
    LET of == post.request[r].of
        user == post.request[r].user IN
    /\ Writing(r, "comment")
    /\ post' = [Done(r) EXCEPT
                  !.bus = Append(@, [id |-> of, author |-> user]),
                  !.comments[of] = IF post.exists
                                   THEN {[author |-> user, body |-> "written", deleted |-> FALSE]}
                                   ELSE @]
    /\ UNCHANGED readers

\* The positional $set asks for the id only, not whether it is deleted.
WriteEdit(r) ==
    LET of == post.request[r].of IN
    /\ Writing(r, "edit")
    /\ post' = [Done(r) EXCEPT !.comments[of] = {[c EXCEPT !.body = "edited"] : c \in @}]
    /\ UNCHANGED readers

\* Mutant: a deleted comment keeps its text.
WriteDeleteFlag(r) ==
    LET of == post.request[r].of IN
    /\ Writing(r, "delete")
    /\ post' = [Done(r) EXCEPT !.comments[of] = {[c EXCEPT !.deleted = TRUE] : c \in @}]
    /\ UNCHANGED readers

WriteDelete(r) ==
    LET of == post.request[r].of IN
    /\ Writing(r, "delete")
    /\ post' = [Done(r) EXCEPT
                  !.comments[of] = {[c EXCEPT !.deleted = TRUE, !.body = "none"] : c \in @},
                  !.revived = IF \E q \in Requests : Writing(q, "edit") /\ post.request[q].of = of
                              THEN @ \union {of} ELSE @]
    /\ UNCHANGED readers

WriteRepost(r) ==
    /\ Writing(r, "repost")
    /\ post' = [Done(r) EXCEPT !.reposts = @ \union {post.request[r].of},
                  !.repostCount = IF post.exists THEN @ + 1 ELSE @]
    /\ UNCHANGED readers

\* delete_one may find nothing, the counter goes down all the same.
WriteWithdraw(r) ==
    LET of == post.request[r].of IN
    /\ Writing(r, "withdraw")
    /\ post' = [Done(r) EXCEPT !.reposts = @ \ {of},
                  !.repostCount = IF post.exists THEN @ - 1 ELSE @,
                  !.twice = @ \/ of \notin post.reposts]
    /\ UNCHANGED readers

\* The reposts stay.
WriteDrop(r) ==
    /\ Writing(r, "drop")
    /\ post' = [Done(r) EXCEPT !.exists = FALSE, !.comments = [i \in Ids |-> {}],
                  !.repostCount = 0]
    /\ UNCHANGED readers
-----------------------------------------------------------------------------
\* realtime-svc, _on_comment: the row of the owner's notification, and then
\* the sends.  A send that fails, or a worker that dies before it commits,
\* has the whole handler run again (bound: once for an event).
NotifyOwner ==
    /\ post.bus # <<>>
    /\ LET event == Head(post.bus) IN
       /\ readers.half => event.id \notin readers.rerun
       /\ readers' = [readers EXCEPT !.half = TRUE,
                        !.notices[event.id] = IF event.author # Owner THEN @ + 1 ELSE @,
                        !.rerun = IF readers.half THEN @ \union {event.id} ELSE @]
    /\ UNCHANGED post

Commit ==
    /\ readers.half
    /\ readers' = [readers EXCEPT !.half = FALSE]
    /\ post' = [post EXCEPT !.bus = Tail(@)]

ParkComment ==
    /\ post.bus # <<>>
    /\ readers' = [readers EXCEPT !.half = FALSE, !.rerun = @ \union {Head(post.bus).id}]
    /\ post' = [post EXCEPT !.bus = Tail(@)]
-----------------------------------------------------------------------------
Next ==
    \/ \E r \in Requests :
          \/ FindPost(r) \/ FindComment(r) \/ FindRepost(r)
          \/ WriteComment(r) \/ WriteEdit(r) \/ WriteDelete(r)
          \/ WriteRepost(r) \/ WriteWithdraw(r) \/ WriteDrop(r)
    \/ NotifyOwner \/ Commit \/ ParkComment

Spec == Init /\ [][Next]_<<post, readers>>
-----------------------------------------------------------------------------
\* The counter of a post counts its reposts, and too few of them only when two
\* withdrawals had found the same repost.
RepostsCounted ==
    post.exists => \/ post.repostCount = Cardinality(post.reposts)
                   \/ post.repostCount < Cardinality(post.reposts) /\ post.twice

\* A deleted comment has no text, unless an edit was under way.
DeletedIsEmpty == \A id \in Ids \ post.revived : \A c \in post.comments[id] :
    c.deleted => c.body = "none"

\* Every comment of another user was notified once, unless its event was
\* handled again or parked.
OwnerNotifiedOnce ==
    ~readers.half => \A id \in Ids \ readers.rerun : \A c \in post.comments[id] :
        readers.notices[id] =
            IF c.author = Owner \/ \E i \in DOMAIN post.bus : post.bus[i].id = id
            THEN 0 ELSE 1

PostAgrees == RepostsCounted /\ DeletedIsEmpty /\ OwnerNotifiedOnce
=============================================================================
