---------------------------- MODULE PostComments ----------------------------
(***************************************************************************)
(* The comments of a post card (frontend/components/post-card.tsx): loaded   *)
(* when first opened and again for every push while open; the viewer's own   *)
(* comment is appended by its answer and pushed to the viewer as well.       *)
(* Comments and drafts are numbered; 0 is an empty draft.                    *)
(***************************************************************************)
EXTENDS Fetch, Integers, FiniteSets, SequencesExt

CONSTANT MaxComments    \* bound: what the user and others do during one visit

VARIABLE thread

Drafts == 0..MaxComments
Loads == {1, 2}     \* bound: loads in flight
Comments == 1..MaxComments

TypeOK ==
    /\ thread.comments \in Seq(Comments) /\ thread.sComments \in Seq(Comments)
    /\ thread.commentCount \in Nat /\ thread.pushes \in Nat /\ thread.made \in Nat
    /\ thread.showComments \in BOOLEAN /\ thread.lost \in BOOLEAN
    /\ thread.draft \in Drafts
    /\ thread.posting \in [at : Calls, draft : Drafts, comment : Comments \union {0}]
    /\ thread.deleting \in [at : Calls, comment : Comments \union {0}]
    /\ \A l \in Loads : /\ thread.load[l].at \in Calls
                        /\ thread.load[l].items \in Seq(Comments)
    /\ thread.own \in [Comments -> Drafts]
    /\ thread.acts \in 0..MaxComments

Init == thread = [
    comments |-> <<>>, commentCount |-> 0, showComments |-> FALSE,
    draft |-> 0, posting |-> [at |-> "idle", draft |-> 0, comment |-> 0],
    deleting |-> [at |-> "idle", comment |-> 0],
    load |-> [l \in Loads |-> [at |-> "idle", items |-> <<>>]],
    sComments |-> <<>>, made |-> 0, own |-> [c \in Comments |-> 0],
    pushes |-> 0, acts |-> 0, lost |-> FALSE]

Act == thread.acts < MaxComments

Arrived(call) == call.at \in Ends

\* The elements of a list other than c, in their order; SelectSeq says the same
\* by a recursion that the proofs could not look into.
Without(list, c) ==
    LET kept == {i \in DOMAIN list : list[i] # c}
        Place(i) == Cardinality({k \in kept : k <= i})
    IN [n \in 1..Cardinality(kept) |-> list[CHOOSE i \in kept : Place(i) = n]]
-----------------------------------------------------------------------------
\* loadComments: started from state t.
Load(t) == \E l \in Loads :
    /\ t.load[l].at = "idle" /\ \A k \in Loads : k < l => t.load[k].at # "idle"
    /\ thread' = [t EXCEPT !.load[l].at = "sent"]

ServeLoad == \E l \in Loads, end \in Ends :
    /\ thread.load[l].at = "sent"
    /\ thread' = [thread EXCEPT !.load[l] =
                     [at |-> end, items |-> IF end = "ok" THEN thread.sComments ELSE <<>>]]

\* Two loads may come back in either order.
Loaded == \E l \in Loads :
    /\ Arrived(thread.load[l])
    /\ LET t == [thread EXCEPT !.load[l] = [at |-> "idle", items |-> <<>>]] IN
       thread' = IF thread.load[l].at # "ok" THEN t
                 ELSE [t EXCEPT !.comments = thread.load[l].items,
                                !.commentCount = Len(thread.load[l].items)]

ToggleComments ==
    /\ Act
    /\ LET t == [thread EXCEPT !.acts = @ + 1, !.showComments = ~@] IN
       IF t.showComments /\ t.comments = <<>> THEN Load(t) ELSE thread' = t

\* Another viewer comments.
OtherComments ==
    /\ Act
    /\ thread' = [thread EXCEPT !.acts = @ + 1, !.made = @ + 1, !.pushes = @ + 1,
                    !.sComments = Append(@, thread.made + 1)]

\* The socket may drop a push; an open list is read again.
Commented ==
    /\ thread.pushes > 0
    /\ LET t == [thread EXCEPT !.pushes = @ - 1, !.commentCount = @ + 1] IN
       IF thread.showComments THEN Load(t) ELSE thread' = t

PushLost == thread.pushes > 0 /\ thread' = [thread EXCEPT !.pushes = @ - 1]
-----------------------------------------------------------------------------
Type == /\ Act /\ thread.showComments /\ thread.draft = 0
        /\ thread' = [thread EXCEPT !.draft = thread.acts + 1]

SubmitComment ==
    /\ Act /\ thread.showComments /\ thread.draft # 0 /\ thread.posting.at = "idle"
    /\ thread' = [thread EXCEPT !.acts = @ + 1,
                    !.posting = [at |-> "sent", draft |-> thread.draft, comment |-> 0]]

\* The comment is pushed to everyone who watches the post, its author too.
ServeComment == \E end \in Ends : \E done \in Effects(end) :
    /\ thread.posting.at = "sent"
    /\ LET new == thread.made + 1
           t == [thread EXCEPT !.posting.at = end, !.lost = @ \/ end = "lost"] IN
       thread' = IF ~done THEN t
                 ELSE [t EXCEPT !.posting.comment = new, !.made = new, !.pushes = @ + 1,
                         !.own[new] = thread.posting.draft, !.sComments = Append(@, new)]

\* Mutant: the draft is not cleared.
CommentAnsweredKept ==
    /\ Arrived(thread.posting)
    /\ LET t == [thread EXCEPT !.posting = [at |-> "idle", draft |-> 0, comment |-> 0]] IN
       thread' = IF thread.posting.at # "ok" THEN t
                 ELSE [t EXCEPT !.comments = Append(@, thread.posting.comment),
                         !.commentCount = @ + 1, !.showComments = TRUE]

CommentAnswered ==
    /\ Arrived(thread.posting)
    /\ LET t == [thread EXCEPT !.posting = [at |-> "idle", draft |-> 0, comment |-> 0]] IN
       thread' = IF thread.posting.at # "ok" THEN t
                 ELSE [t EXCEPT !.comments = Append(@, thread.posting.comment),
                         !.commentCount = @ + 1, !.showComments = TRUE, !.draft = 0]

\* Offered on the viewer's own comments.
DeleteComment == \E c \in Comments :
    /\ Act /\ thread.showComments /\ thread.deleting.at = "idle"
    /\ Contains(thread.comments, c) /\ thread.own[c] # 0
    /\ thread' = [thread EXCEPT !.acts = @ + 1, !.deleting = [at |-> "sent", comment |-> c]]

ServeDelete == \E end \in Ends : \E done \in Effects(end) :
    /\ thread.deleting.at = "sent"
    /\ Contains(thread.sComments, thread.deleting.comment) \/ end # "ok"
    /\ thread' = [thread EXCEPT !.deleting.at = end,
                    !.sComments = IF done THEN Without(@, thread.deleting.comment) ELSE @]

DeleteAnswered ==
    /\ Arrived(thread.deleting)
    /\ LET c == thread.deleting.comment
           t == [thread EXCEPT !.deleting = [at |-> "idle", comment |-> 0]] IN
       thread' = IF thread.deleting.at # "ok" THEN t
                 ELSE [t EXCEPT !.comments = Without(@, c),
                         !.commentCount = IF @ = 0 THEN 0 ELSE @ - 1]
-----------------------------------------------------------------------------
Progress == ServeLoad \/ Loaded \/ Commented \/ ServeComment \/ CommentAnswered
            \/ ServeDelete \/ DeleteAnswered

Next == \/ ToggleComments \/ OtherComments \/ Type \/ SubmitComment \/ DeleteComment
        \/ PushLost \/ Progress

Spec == Init /\ [][Next]_thread

Quiet == /\ thread.pushes = 0 /\ thread.posting.at = "idle" /\ thread.deleting.at = "idle"
         /\ \A l \in Loads : thread.load[l].at = "idle"

\* A draft becomes one comment, unless the answer was lost and it is sent again.
PostedOnce == ~thread.lost =>
    \A d \in Drafts \ {0} : Cardinality({c \in Comments : thread.own[c] = d}) <= 1
=============================================================================
