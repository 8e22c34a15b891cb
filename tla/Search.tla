------------------------------- MODULE Search -------------------------------
(***************************************************************************)
(* The hooks that read lists of posts (frontend/lib/use-search.ts): the      *)
(* debounced search bar, whose query changes under the calls it has made,    *)
(* and the explore, hashtag and saved pages, which read one list and then    *)
(* its posts.  A result is named by the query it answers.                    *)
(***************************************************************************)
EXTENDS Fetch, Naturals

CONSTANTS Queries, MaxActs     \* bound: how often the query changes

VARIABLE search

NoQuery == ""
Hooks == {"search", "hits", "saved"}
Answers == {"nothing"} \union Queries

TypeOK == search \in [
    hook : Hooks, enabled : BOOLEAN, query : Queries \union {NoQuery},
    loading : BOOLEAN, shown : Answers, error : BOOLEAN, failed : BOOLEAN,
    calls : SUBSET [n : 0..MaxActs + 1, q : Queries, live : BOOLEAN,
                    at : {"timer", "sent", "hydrating"} \union Ends],
    acts : 0..MaxActs]

\* The path of a page is its route, which does not change while it is mounted.
Init == \E hook \in Hooks : \E query \in Queries : search = [
    hook |-> hook, enabled |-> FALSE,
    query |-> IF hook = "search" THEN NoQuery ELSE query,
    loading |-> hook # "search", shown |-> "nothing",
    error |-> FALSE, failed |-> FALSE, calls |-> {}, acts |-> 0]

\* The cleanup of the effect: a call on its way may only be ignored, one that
\* still waits for its timer is not made.
Dropped == {[call EXCEPT !.live = FALSE] :
             call \in {c \in search.calls : c.at # "timer"}}

\* The effect runs when the user is known and when the query has changed.
Effect(s) ==
    IF s.enabled /\ s.query # NoQuery
    THEN [s EXCEPT !.loading = TRUE, !.error = FALSE, !.failed = FALSE,
            !.calls = @ \union {[n |-> s.acts + 1, q |-> s.query, live |-> TRUE,
                               at |-> IF s.hook = "search" THEN "timer" ELSE "sent"]}]
    ELSE IF s.hook = "search"
    THEN [s EXCEPT !.loading = FALSE, !.shown = "nothing", !.failed = FALSE]
    ELSE s

Ready ==
    /\ ~search.enabled
    /\ search' = Effect([search EXCEPT !.enabled = TRUE, !.calls = Dropped])

SetQuery == \E q \in (Queries \union {NoQuery}) \ {search.query} :
    /\ search.hook = "search" /\ search.acts < MaxActs
    /\ search' = Effect([search EXCEPT !.acts = @ + 1, !.query = q, !.calls = Dropped])

Replace(call, at) == [search EXCEPT !.calls = (@ \ {call}) \union {[call EXCEPT !.at = at]}]

Timer == \E call \in search.calls :
    /\ call.at = "timer"
    /\ search' = Replace(call, "sent")

Serve == \E call \in search.calls : \E end \in Ends :
    /\ call.at = "sent"
    /\ search' = Replace(call, IF end = "ok" /\ search.hook # "search"
                               THEN "hydrating" ELSE end)

\* hydratePostIds: the posts of the list.
Hydrate == \E call \in search.calls : \E end \in Ends :
    /\ call.at = "hydrating"
    /\ search' = Replace(call, end)

\* A search or a list of saved posts that fails shows nothing, the other pages
\* an error.
Show(call) ==
    LET s == [search EXCEPT !.calls = @ \ {call}, !.loading = FALSE] IN
    IF call.at = "ok" THEN [s EXCEPT !.shown = call.q]
    ELSE [s EXCEPT !.failed = TRUE, !.error = (search.hook = "hits"),
            !.shown = IF search.hook = "search" THEN "nothing" ELSE @]

\* Mutant: the answer of a query that is no longer asked is shown.
AnsweredAlways == \E call \in search.calls :
    /\ call.at \in Ends
    /\ search' = Show(call)

\* Mutant: a call that fails leaves the page loading.
AnsweredIfOk == \E call \in search.calls :
    /\ call.at \in Ends
    /\ search' = IF call.live /\ call.at = "ok" THEN Show(call)
                 ELSE [search EXCEPT !.calls = @ \ {call}]

Answered == \E call \in search.calls :
    /\ call.at \in Ends
    /\ search' = IF call.live THEN Show(call)
                 ELSE [search EXCEPT !.calls = @ \ {call}]
-----------------------------------------------------------------------------
Progress == Ready \/ Timer \/ Serve \/ Hydrate \/ Answered

Next == SetQuery \/ Progress

Spec == Init /\ [][Next]_search

Quiet == search.enabled /\ ~search.loading /\ search.calls = {}

\* A page that is not loading shows the answer to what it asks for, and to
\* nothing it asked for before: the last query wins, however late the answers
\* of the earlier ones come.
ResultsMatchQuery ==
    search.enabled /\ ~search.loading =>
        /\ \A call \in search.calls : ~call.live
        /\ search.failed \/ search.shown = IF search.query = NoQuery
                                           THEN "nothing" ELSE search.query
=============================================================================
