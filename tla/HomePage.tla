------------------------------ MODULE HomePage ------------------------------
(***************************************************************************)
(* Infinite scroll: one viewer's useHomeTimeline hook                       *)
(* (frontend/lib/use-timeline.ts) pages through store.page of               *)
(* hometimeline-svc, which merges home:{viewer} with the recent posts of    *)
(* the celebrities followed, while the workers go on writing both.  With    *)
(* nothing to pull it is useTimeline over usertimeline-svc's store.page.    *)
(* Re-ranking permutes the posts of one page and is left out.               *)
(***************************************************************************)
EXTENDS Integers, FiniteSets

CONSTANTS
    Posts,
    Limit,          \* the page size the hook asks for
    Environment,    \* which of EnvironmentKinds may happen
    MaxScore        \* bound: the scores given out

EnvironmentKinds == {"ties", "rescore", "remove", "pullFails", "requestFails"}

ASSUME PageAssumption ==
    /\ IsFiniteSet(Posts)
    /\ Limit \in Nat \ {0}
    /\ Environment \subseteq EnvironmentKinds
    /\ MaxScore \in Nat

VARIABLES
    born,       \* the score a post was given when created, 0 before
    pushed,     \* home:{viewer}: post -> score, 0 when absent
    pulled,     \* the followed celebrities' recent posts, likewise
    deleted,    \* posts gone from post-svc
    clock,      \* the latest score
    cursor,     \* the hook's state: null (0) or a score
    done,
    rendered,   \* the cursor and done the loadMore of the last render sees
    cells,      \* how many cells show each post
    request,    \* where the request in flight stands
    asked,      \* its cursor
    pushRead,   \* what it has read of pushed
    answer,     \* its page and next_cursor
    given,      \* history: post -> the largest next_cursor it came with
    stable,     \* history: posts there, unchanged, since scrolling began
    rescored,   \* history: some post was given another score
    failed      \* history: some call failed

timelines == <<born, pushed, pulled, deleted, clock>>
hook == <<cursor, done, rendered, cells>>
vars == <<born, pushed, pulled, deleted, clock, cursor, done, rendered, cells,
          request, asked, pushRead, answer, given, stable, rescored, failed>>

Scores == [Posts -> Nat]

TypeOK ==
    /\ born \in Scores /\ pushed \in Scores /\ pulled \in Scores
    /\ deleted \subseteq Posts
    /\ clock \in Nat
    /\ cursor \in Nat
    /\ done \in BOOLEAN
    /\ rendered \in [cursor : Nat, done : BOOLEAN]
    /\ cells \in Scores
    /\ request \in {"none", "idle", "asked", "read", "answered"}
    /\ asked \in Nat
    /\ pushRead \in Scores
    /\ answer \in [items : SUBSET Posts, next : Nat]
    /\ given \in Scores
    /\ stable \subseteq Posts
    /\ rescored \in BOOLEAN /\ failed \in BOOLEAN

Nothing == [p \in Posts |-> 0]
\* Mutant: the scroll starts at -1.
NoPageNegative == [items |-> {}, next |-> 0 - 1]

NoPage == [items |-> {}, next |-> 0]

Init ==
    /\ born = Nothing /\ pushed = Nothing /\ pulled = Nothing
    /\ deleted = {}
    /\ clock = 0
    /\ cursor = 0 /\ done = FALSE
    /\ rendered = [cursor |-> 0, done |-> FALSE]
    /\ cells = Nothing
    /\ request = "none" /\ asked = 0 /\ pushRead = Nothing
    /\ answer = NoPage
    /\ given = Nothing /\ stable = {}
    /\ rescored = FALSE /\ failed = FALSE
-----------------------------------------------------------------------------
(* The timelines change under the scroll.                                   *)

Timelines(p, score, home, celebrity) ==
    /\ pushed' = IF home THEN [pushed EXCEPT ![p] = score] ELSE pushed
    /\ pulled' = IF celebrity THEN [pulled EXCEPT ![p] = score] ELSE pulled
    /\ UNCHANGED <<hook, request, asked, pushRead, answer, given>>

\* Both read models give a post the time it was created at.  Timestamps may
\* coincide.
NewPost(p, home, celebrity) ==
    /\ born[p] = 0 /\ (home \/ celebrity)
    /\ \/ clock' = clock + 1
       \/ "ties" \in Environment /\ clock > 0 /\ clock' = clock
    /\ clock' <= MaxScore
    /\ born' = [born EXCEPT ![p] = clock']
    /\ Timelines(p, clock', home, celebrity)
    /\ UNCHANGED <<stable, deleted, rescored, failed>>

\* A repost is fanned out under the time of the repost.
Rescore(p, home, celebrity) ==
    /\ "rescore" \in Environment /\ born[p] > 0 /\ (home \/ celebrity)
    /\ clock < MaxScore /\ clock' = clock + 1
    /\ rescored' = TRUE
    /\ Timelines(p, clock', home, celebrity)
    /\ stable' = stable \ {p}
    /\ UNCHANGED <<born, deleted, failed>>

\* Removed from the system of record first, from each read model later.
Delete(p) ==
    /\ "remove" \in Environment /\ born[p] > 0 /\ p \notin deleted
    /\ deleted' = deleted \union {p}
    /\ stable' = stable \ {p}
    /\ UNCHANGED <<born, pushed, pulled, clock, hook, request, asked, pushRead,
                   answer, given, rescored, failed>>

Remove(p, home, celebrity) ==
    /\ "remove" \in Environment
    /\ (home /\ pushed[p] > 0) \/ (celebrity /\ pulled[p] > 0)
    /\ Timelines(p, 0, home, celebrity)
    /\ stable' = stable \ {p}
    /\ UNCHANGED <<born, deleted, clock, rescored, failed>>
-----------------------------------------------------------------------------
(* store.page.                                                              *)

Below(score, c) == score > 0 /\ (c = 0 \/ score < c)

Listed(timeline) == {p \in Posts : timeline[p] > 0}

\* A cut of zrevrangebyscore: n posts that no other post outscores.
Cuts(timeline, n) ==
    {S \in SUBSET Listed(timeline) :
        /\ Cardinality(S) = n \/ (Cardinality(S) < n /\ S = Listed(timeline))
        /\ \A p \in S, q \in Listed(timeline) \ S : timeline[q] <= timeline[p]}

\* Mutant: the cursor is included.
BelowOrAtCursor(timeline, c) ==
    [p \in Posts |-> IF Below(timeline[p], IF c = 0 THEN 0 ELSE c + 1)
                     THEN timeline[p] ELSE 0]

\* Restricted to what lies below the cursor, which is excluded.
BelowCursor(timeline, c) ==
    [p \in Posts |-> IF Below(timeline[p], c) THEN timeline[p] ELSE 0]

ReadPush ==
    /\ request = "asked"
    /\ \E S \in Cuts(BelowCursor(pushed, asked), Limit) :
          pushRead' = [p \in Posts |-> IF p \in S THEN pushed[p] ELSE 0]
    /\ request' = "read"
    /\ UNCHANGED <<timelines, hook, asked, answer, given, stable, rescored, failed>>

\* A pulled score replaces the pushed one.
Candidates(pull) == [p \in Posts |-> IF pull[p] > 0 THEN pull[p] ELSE pushRead[p]]

\* Mutant: next_cursor is rounded down.
NextCursorRounded(candidates, S, next) ==
    IF Cardinality(S) = Limit
    THEN /\ \E p \in S : next = candidates[p] - 1
         /\ \A p \in S : next <= candidates[p] - 1
    ELSE next = 0

\* A full page is followed by one that starts below its last post.
NextCursor(candidates, S, next) ==
    IF Cardinality(S) = Limit
    THEN /\ \E p \in S : next = candidates[p]
         /\ \A p \in S : next <= candidates[p]
    ELSE next = 0

\* recent_posts is empty when usertimeline-svc cannot be read.
ReadPull ==
    /\ request = "read"
    /\ \E pull \in {BelowCursor(pulled, asked)}
                   \union (IF "pullFails" \in Environment THEN {Nothing} ELSE {}) :
          /\ \E S \in Cuts(Candidates(pull), Limit), next \in 0..clock :
                /\ NextCursor(Candidates(pull), S, next)
                /\ answer' = [items |-> S, next |-> next]
          /\ failed' = (failed \/ pull # BelowCursor(pulled, asked))
    /\ given' = [p \in Posts |-> IF p \in answer'.items /\ given[p] < answer'.next
                                THEN answer'.next ELSE given[p]]
    /\ request' = "answered"
    /\ UNCHANGED <<timelines, hook, asked, pushRead, stable, rescored>>
-----------------------------------------------------------------------------
(* useHomeTimeline.                                                         *)

\* loadMore is the closure of the last render: its cursor may be stale.
LoadMore ==
    /\ request \in {"none", "idle"} /\ ~rendered.done
    /\ asked' = rendered.cursor
    /\ stable' = IF request = "none"
                 THEN (Listed(pushed) \union Listed(pulled)) \ deleted
                 ELSE stable
    /\ request' = "asked"
    /\ UNCHANGED <<timelines, hook, pushRead, answer, given, rescored, failed>>

\* inFlight falls and the request is forgotten.
Answered ==
    /\ request' = "idle"
    /\ asked' = 0 /\ pushRead' = Nothing /\ answer' = NoPage

\* Mutant: posts already shown are appended again.
ShowPageUnfiltered ==
    /\ request = "answered"
    /\ cells' = [p \in Posts |-> IF p \in answer.items THEN cells[p] + 1
                                                       ELSE cells[p]]
    /\ cursor' = answer.next
    /\ done' = (done \/ answer.next = 0)
    /\ Answered
    /\ UNCHANGED <<timelines, rendered, given, stable, rescored, failed>>

\* Mutant: the last page does not end the scroll.
ShowPageEndless ==
    /\ request = "answered"
    /\ cells' = [p \in Posts |-> IF p \in answer.items THEN 1 ELSE cells[p]]
    /\ cursor' = answer.next
    /\ Answered
    /\ UNCHANGED <<timelines, done, rendered, given, stable, rescored, failed>>

\* posts?ids= leaves deleted posts out; posts already shown are filtered.
ShowPage ==
    /\ request = "answered"
    /\ cells' = [p \in Posts |->
          IF p \in answer.items /\ p \notin deleted /\ cells[p] = 0
          THEN 1 ELSE cells[p]]
    /\ cursor' = answer.next
    /\ done' = (done \/ answer.next = 0)
    /\ Answered
    /\ UNCHANGED <<timelines, rendered, given, stable, rescored, failed>>

\* Any failing call of loadMore ends the scroll.
RequestFails ==
    /\ "requestFails" \in Environment
    /\ request \in {"asked", "read", "answered"}
    /\ done' = TRUE /\ failed' = TRUE
    /\ Answered
    /\ UNCHANGED <<timelines, cursor, rendered, cells, given, stable, rescored>>

Render ==
    /\ rendered # [cursor |-> cursor, done |-> done]
    /\ rendered' = [cursor |-> cursor, done |-> done]
    /\ UNCHANGED <<timelines, cursor, done, cells, request, asked, pushRead,
                   answer, given, stable, rescored, failed>>

Writes == \E p \in Posts :
    \/ Delete(p)
    \/ \E home, celebrity \in BOOLEAN : \/ NewPost(p, home, celebrity)
                                        \/ Rescore(p, home, celebrity)
                                        \/ Remove(p, home, celebrity)

Scroll == LoadMore \/ ReadPush \/ ReadPull \/ ShowPage

Next == Writes \/ Scroll \/ Render \/ RequestFails

Spec == Init /\ [][Next]_vars

\* The sentinel stays in view, the service answers, and React renders.
FairSpec == Spec /\ WF_vars(Scroll) /\ WF_vars(Render)
-----------------------------------------------------------------------------
\* As long as no post changes its score, a page never returns a post of an
\* earlier page, as store.page says of its exclusive cursor, although posts
\* arrive and vanish between the two and between the two reads of one page.
PagesDisjoint ==
    [][ReadPull /\ ~rescored =>
          \A p \in answer'.items : 0 < asked => given[p] < asked]_vars

\* The feed never shows a post twice, even when loadMore runs with a stale
\* cursor and asks for a page again (the filter in setCells).
NoDuplicateCells == \A p \in Posts : cells[p] <= 1

\* No other post was made at the time of p.
Alone(p) == \A q \in Posts : born[q] = born[p] => q = p

\* A scroll that reached the end showed every post that was there all along,
\* whatever was inserted and removed meanwhile, if no post is scored anew and
\* no call fails (store.page, useHomeTimeline).  Of the posts made at one time
\* some may be skipped, as the cursor is that time alone; they cost no other
\* post its place.
NothingSkipped ==
    done /\ ~rescored /\ ~failed =>
        \A p \in stable : Alone(p) => cells[p] > 0

\* The same for equal scores, which the cursor (timestamp, post_id) of
\* docs/hometimeline-svc.md would tell apart.  It does not hold: the README
\* says on which instance.
TiesNotSkipped ==
    done /\ ~rescored /\ ~failed => \A p \in stable : cells[p] > 0

\* Scrolling comes to an end once nothing new is written.
ScrollEnds == <>[](request = "idle" /\ done)
=============================================================================
