------------------------------ MODULE PostGrid ------------------------------
(***************************************************************************)
(* PostGrid (frontend/components/post-grid.tsx), the grid of the explore,    *)
(* saved, hashtag and profile pages, and the dialog its cells open           *)
(* (post-dialog.tsx).  Under a cell stands a counter, which is read with the *)
(* grid and again when the dialog of the cell is closed; in the dialog       *)
(* stands the author of the post, who is read whenever it is opened.         *)
(***************************************************************************)
EXTENDS Fetch, Naturals, FiniteSets

CONSTANT MaxActs    \* bound: what the viewer and the others do

VARIABLE grid

None == 0
Cells == {1, 2}     \* two posts of two authors, who are named like them
Counts == 0..MaxActs + 1

\* counter: "likes" are read from interaction-svc, "comments" come with the
\* cells.  pending: clicks in a dialog that the service has not handled.
\* overtaken and raced are history: the posts whose author was still asked for
\* when the dialog was opened; the cells of which a read failed, ran beside
\* another, came before a click was handled or was undone when the grid grew, or
\* whose count another user has changed with no read of it to come.
TypeOK == grid \in [
    counter : {"likes", "comments"},
    selected : Cells \union {None}, author : Cells \union {None}, overtaken : SUBSET Cells,
    authors : SUBSET [n : 1..MaxActs, post : Cells],
    server : [Cells -> Counts], shown : [Cells -> Counts],
    seed : [Cells -> [at : Calls, count : Counts]],
    refreshes : SUBSET [n : 1..MaxActs, post : Cells, read : BOOLEAN, count : Counts],
    pending : SUBSET Cells, raced : SUBSET Cells, acts : 0..MaxActs]

Init == \E counter \in {"likes", "comments"} : grid = [
    counter |-> counter, selected |-> None, author |-> None, overtaken |-> {},
    authors |-> {}, server |-> [c \in Cells |-> 1],
    shown |-> [c \in Cells |-> IF counter = "likes" THEN 0 ELSE 1],
    seed |-> [c \in Cells |-> [at |-> IF counter = "likes" THEN "sent" ELSE "idle",
                               count |-> 0]],
    refreshes |-> {}, pending |-> {}, raced |-> {}, acts |-> 0]

Act == grid.acts < MaxActs
Seeded == \A c \in Cells : grid.seed[c].at = "idle"
Refreshing(c) == \E call \in grid.refreshes : call.post = c
-----------------------------------------------------------------------------
\* The dialog covers the grid.  Its effect forgets the author and asks for the
\* new one; an earlier call that is still on its way is not called off.
Open == \E c \in Cells :
    /\ Act /\ grid.selected = None
    /\ grid' = [grid EXCEPT !.acts = @ + 1, !.selected = c, !.author = None,
                  !.overtaken = {call.post : call \in grid.authors},
                  !.authors = @ \union {[n |-> grid.acts + 1, post |-> c]}]

AuthorAnswered == \E call \in grid.authors : \E end \in Ends :
    grid' = [grid EXCEPT !.authors = @ \ {call},
               !.author = CASE end = "ok"      -> call.post
                            [] end = "refused" -> None
                            [] end = "lost"    -> @]

\* A like or a comment in the dialog, see PostCard and PostComments.
Click ==
    /\ Act /\ grid.selected # None /\ grid.selected \notin grid.pending
    /\ grid' = [grid EXCEPT !.acts = @ + 1, !.pending = @ \union {grid.selected}]

ServeClick == \E c \in grid.pending :
    grid' = [grid EXCEPT !.pending = @ \ {c}, !.server[c] = @ + 1,
               !.raced = IF grid.selected = c THEN @ ELSE @ \union {c}]

\* Whether the count of a cell is still to be read: by the seeds, by the refresh
\* of a closed dialog, or when the open one is closed.
ToBeRead(c) ==
    \/ grid.selected = c \/ grid.seed[c].at = "sent"
    \/ \E call \in grid.refreshes : call.post = c /\ ~call.read

\* Another user likes the post, or comments on it.  The grid is not told.
OthersClick == \E c \in Cells :
    /\ Act
    /\ grid' = [grid EXCEPT !.acts = @ + 1, !.server[c] = @ + 1,
                  !.raced = IF ToBeRead(c) THEN @ ELSE @ \union {c}]

\* Mutant: the counter of a closed dialog is not read again.
CloseOnly ==
    /\ grid.selected # None
    /\ grid' = [grid EXCEPT !.selected = None, !.author = None,
                  !.raced = IF Seeded /\ ~Refreshing(grid.selected)
                            THEN @ \ {grid.selected} ELSE @ \union {grid.selected}]

Close ==
    /\ grid.selected # None
    /\ grid' = [grid EXCEPT !.selected = None, !.author = None,
                  !.raced = IF Seeded /\ ~Refreshing(grid.selected)
                            THEN @ \ {grid.selected} ELSE @ \union {grid.selected},
                  !.refreshes = @ \union {[n |-> grid.acts, post |-> grid.selected,
                                           read |-> FALSE, count |-> 0]}]

ServeRefresh == \E call \in grid.refreshes :
    /\ ~call.read
    /\ grid' = [grid EXCEPT !.refreshes = (@ \ {call}) \union
                  {[call EXCEPT !.read = TRUE, !.count = grid.server[call.post]]}]

Refreshed == \E call \in grid.refreshes :
    /\ call.read
    /\ grid' = [grid EXCEPT !.refreshes = @ \ {call}, !.shown[call.post] = call.count]

RefreshFails == \E call \in grid.refreshes :
    /\ ~call.read /\ Faults # {}
    /\ grid' = [grid EXCEPT !.refreshes = @ \ {call}, !.raced = @ \union {call.post}]

\* The grid of a profile gets another page, and the effect on the cells runs
\* again: likes are read anew and what was on its way is ignored, comments are
\* those that came with the cells, whatever was read since.
Grow ==
    /\ Act
    /\ grid' = IF grid.counter = "likes"
               THEN [grid EXCEPT !.acts = @ + 1,
                       !.seed = [c \in Cells |-> [at |-> "sent", count |-> 0]],
                       !.raced = @ \union {c \in Cells : Refreshing(c)}]
               ELSE [grid EXCEPT !.acts = @ + 1, !.shown = [c \in Cells |-> 1],
                       !.raced = Cells]

\* A call for each cell, all of which are awaited together.
ServeSeed == \E c \in Cells : \E end \in Ends :
    /\ grid.seed[c].at = "sent"
    /\ grid' = [grid EXCEPT !.seed[c] = [at |-> end, count |-> grid.server[c]]]

\* What is shown is replaced as a whole, unless one of the calls was rejected.
SeedLoaded ==
    /\ \A c \in Cells : grid.seed[c].at \in Ends
    /\ LET got == {c \in Cells : grid.seed[c].at = "ok"}
           rejected == \E c \in Cells : grid.seed[c].at = "lost"
           settled == [grid EXCEPT !.seed = [c \in Cells |-> [at |-> "idle", count |-> 0]]] IN
       grid' = IF rejected THEN [settled EXCEPT !.raced = Cells]
               ELSE [settled EXCEPT !.raced = @ \union (Cells \ got),
                       !.shown = [c \in Cells |-> IF c \in got THEN grid.seed[c].count ELSE 0]]
-----------------------------------------------------------------------------
Progress == \/ AuthorAnswered \/ ServeClick
            \/ ServeRefresh \/ Refreshed \/ RefreshFails \/ ServeSeed \/ SeedLoaded

Next == Open \/ Click \/ OthersClick \/ Close \/ Grow \/ Progress

Spec == Init /\ [][Next]_grid

Quiet == Seeded /\ grid.authors = {} /\ grid.refreshes = {} /\ grid.pending = {}

\* The dialog names the author of the post it shows, or of one that was still
\* asked for when it was opened; and when all calls have ended, a cell shows the
\* count the service has, whatever was clicked in its dialog and by others,
\* but for a cell in raced.
GridAgrees ==
    /\ grid.selected # None => grid.author \in {None, grid.selected} \union grid.overtaken
    /\ Quiet /\ grid.selected = None =>
          \A c \in Cells \ grid.raced : grid.shown[c] = grid.server[c]

\* "So the dialog never flashes a stale name while loading" (post-dialog.tsx:28).
\* The code does not keep this: the answer for the post whose dialog was closed
\* is not called off.
DialogNamesAuthor == grid.selected # None => grid.author \in {None, grid.selected}

\* "The hover overlay shows live like and comment counts" (post-grid.tsx:12).  The
\* code does not keep this: a count is read with the grid and after a dialog.
CountsLive == Quiet /\ grid.selected = None => grid.shown = grid.server
=============================================================================
