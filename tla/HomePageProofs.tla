--------------------------- MODULE HomePageProofs ---------------------------
(***************************************************************************)
(* Proofs about HomePage, for every set of posts and every page size.  As   *)
(* long as posts keep their score, pages are disjoint; if scores differ as  *)
(* well, a scroll to the end misses nothing.  The heart of the second is    *)
(* that a stable post not yet shown lies below every cursor in use, and in  *)
(* the page or below the next cursor once a page is computed.               *)
(***************************************************************************)
EXTENDS HomePage, FiniteSetTheorems, TLAPS

USE DEF Listed, Below, Scores, Nothing, NoPage

LEMMA InitTyped == Init => TypeOK
<1>1. Nothing \in Scores
  OBVIOUS
<1>2. NoPage \in [items : SUBSET Posts, next : Nat]
  OBVIOUS
<1>3. [cursor |-> 0, done |-> FALSE] \in [cursor : Nat, done : BOOLEAN]
  OBVIOUS
<1> HIDE DEF Nothing, NoPage, Scores
<1> QED
  BY <1>1, <1>2, <1>3 DEF Init, TypeOK

LEMMA NextTyped == TypeOK /\ [Next]_vars => TypeOK'
<1> SUFFICES ASSUME TypeOK, [Next]_vars PROVE TypeOK'
  OBVIOUS
<1> USE PageAssumption DEF TypeOK, timelines, hook
<1>1. ASSUME NEW p \in Posts, Delete(p) PROVE TypeOK'
  BY <1>1 DEF Delete
<1>2. ASSUME NEW p \in Posts, NEW home \in BOOLEAN, NEW celebrity \in BOOLEAN,
             NewPost(p, home, celebrity)
      PROVE  TypeOK'
  BY <1>2 DEF NewPost, Timelines
<1>3. ASSUME NEW p \in Posts, NEW home \in BOOLEAN, NEW celebrity \in BOOLEAN,
             Rescore(p, home, celebrity)
      PROVE  TypeOK'
  BY <1>3 DEF Rescore, Timelines
<1>4. ASSUME NEW p \in Posts, NEW home \in BOOLEAN, NEW celebrity \in BOOLEAN,
             Remove(p, home, celebrity)
      PROVE  TypeOK'
  BY <1>4 DEF Remove, Timelines
<1>5. ASSUME LoadMore PROVE TypeOK'
  BY <1>5 DEF LoadMore
<1>6. ASSUME ReadPush PROVE TypeOK'
  BY <1>6 DEF ReadPush
<1>7. ASSUME ReadPull PROVE TypeOK'
  BY <1>7 DEF ReadPull, Cuts
<1>8. ASSUME ShowPage PROVE TypeOK'
  BY <1>8 DEF ShowPage, Answered
<1>9. ASSUME RequestFails PROVE TypeOK'
  BY <1>9 DEF RequestFails, Answered
<1>10. ASSUME Render PROVE TypeOK'
  BY <1>10 DEF Render
<1>11. CASE UNCHANGED vars
  BY <1>11 DEF vars
<1> QED
  BY <1>1, <1>2, <1>3, <1>4, <1>5, <1>6, <1>7, <1>8, <1>9, <1>10, <1>11
  DEF Next, Writes, Scroll

\* The hook and the page computation keep their shapes (use-timeline.ts,
\* store.page).
THEOREM TypeCorrect == Spec => []TypeOK
  BY InitTyped, NextTyped, PTL DEF Spec

\* setCells filters what is shown already, so no post is shown twice, whatever
\* pages come back (use-timeline.ts).
THEOREM CellsDistinct == Spec => []NoDuplicateCells
<1>1. Init => NoDuplicateCells
  BY DEF Init, NoDuplicateCells
<1>2. NoDuplicateCells /\ [Next]_vars => NoDuplicateCells'
  BY DEF NoDuplicateCells, Next, Writes, Scroll, NewPost, Rescore, Delete,
     Remove, Timelines, LoadMore, ReadPush, ReadPull, ShowPage, RequestFails,
     Render, hook, vars
<1> QED
  BY <1>1, <1>2, PTL DEF Spec
-----------------------------------------------------------------------------
(* Every post has one score, and what was answered lies at or above its     *)
(* page's cursor.                                                           *)
OneScore ==
    /\ \A p \in Posts : /\ pushed[p] \in {0, born[p]}
                        /\ pulled[p] \in {0, born[p]}
                        /\ pushRead[p] \in {0, born[p]}
                        /\ born[p] <= clock
                        /\ given[p] <= born[p]
    /\ request = "read" =>
          \A p \in Posts : pushRead[p] = 0 \/ Below(pushRead[p], asked)

LEMMA InitOneScore == Init => OneScore
  BY DEF Init, OneScore

\* What a step of store.page may answer.
LEMMA AnswerBelow ==
    ASSUME TypeOK, OneScore, ReadPull
    PROVE  /\ answer'.items \in SUBSET Posts
           /\ \A p \in answer'.items : /\ Below(born[p], asked)
                                       /\ answer'.next <= born[p]
  <1>a. PICK pull \in {BelowCursor(pulled, asked), Nothing} :
            \E S \in Cuts(Candidates(pull), Limit), next \in 0..clock :
                /\ NextCursor(Candidates(pull), S, next)
                /\ answer' = [items |-> S, next |-> next]
    BY DEF ReadPull
  <1>1. PICK S \in Cuts(Candidates(pull), Limit), next \in 0..clock :
                /\ NextCursor(Candidates(pull), S, next)
                /\ answer' = [items |-> S, next |-> next]
    BY <1>a
  <1>2. \A p \in Posts : Candidates(pull)[p] # 0 =>
            Candidates(pull)[p] = born[p] /\ Below(born[p], asked)
    BY <1>a DEF Candidates, BelowCursor, OneScore, TypeOK, ReadPull
  <1>3. \A p \in S : p \in Posts /\ Candidates(pull)[p] > 0
    BY <1>1 DEF Cuts
  <1>4. \A p \in S : next <= Candidates(pull)[p]
    BY <1>1, <1>2, <1>3 DEF NextCursor, TypeOK
  <1> QED
    BY <1>1, <1>2, <1>3, <1>4

LEMMA NextOneScore ==
    ASSUME TypeOK, OneScore, [Next]_vars, ~rescored'
    PROVE  OneScore'
<1> USE DEF OneScore, TypeOK, timelines, hook
<1>1. ASSUME NEW p \in Posts, Delete(p) PROVE OneScore'
  BY <1>1 DEF Delete
<1>2. ASSUME NEW p \in Posts, NEW home \in BOOLEAN, NEW celebrity \in BOOLEAN,
             NewPost(p, home, celebrity)
      PROVE  OneScore'
  BY <1>2 DEF NewPost, Timelines
<1>3. ASSUME NEW p \in Posts, NEW home \in BOOLEAN, NEW celebrity \in BOOLEAN,
             Remove(p, home, celebrity)
      PROVE  OneScore'
  BY <1>3 DEF Remove, Timelines
<1>4. ASSUME LoadMore PROVE OneScore'
  BY <1>4 DEF LoadMore
<1>5. ASSUME ReadPush PROVE OneScore'
  <2>1. PICK S \in Cuts(BelowCursor(pushed, asked), Limit) :
            pushRead' = [p \in Posts |-> IF p \in S THEN pushed[p] ELSE 0]
    BY <1>5 DEF ReadPush
  <2>2. \A p \in S : p \in Posts /\ Below(pushed[p], asked)
    <3>1. S \subseteq Listed(BelowCursor(pushed, asked))
      <4> HIDE DEF Listed
      <4> QED
        BY <2>1 DEF Cuts
    <3>2. Listed(BelowCursor(pushed, asked)) =
              {p \in Posts : Below(pushed[p], asked)}
      BY DEF BelowCursor
    <3> QED
      BY <3>1, <3>2
  <2>3. ASSUME NEW p \in Posts
        PROVE  /\ pushRead'[p] \in {0, born[p]}
               /\ pushRead'[p] = 0 \/ Below(pushRead'[p], asked)
    <3>1. CASE p \in S
      BY <2>1, <2>2, <3>1
    <3>2. CASE p \notin S
      BY <2>1, <3>2
    <3> QED
      BY <3>1, <3>2
  <2>4. UNCHANGED <<born, pushed, pulled, clock, given, asked>>
    BY <1>5 DEF ReadPush
  <2> QED
    BY <2>3, <2>4
<1>6. ASSUME ReadPull PROVE OneScore'
  BY <1>6, AnswerBelow DEF ReadPull
<1>7. ASSUME ShowPage PROVE OneScore'
  BY <1>7 DEF ShowPage, Answered
<1>8. ASSUME RequestFails PROVE OneScore'
  BY <1>8 DEF RequestFails, Answered
<1>9. ASSUME Render PROVE OneScore'
  BY <1>9 DEF Render
<1>10. CASE UNCHANGED vars
  BY <1>10 DEF vars
<1> QED
  BY <1>1, <1>2, <1>3, <1>4, <1>5, <1>6, <1>7, <1>8, <1>9, <1>10
  DEF Next, Writes, Scroll, Rescore

\* History is never forgotten.
LEMMA HistoryKept ==
    ASSUME TypeOK, [Next]_vars
    PROVE  (rescored => rescored') /\ (failed => failed')
<1>1. CASE UNCHANGED <<rescored, failed>>
  BY <1>1
<1>2. ASSUME NEW p \in Posts, NEW home \in BOOLEAN, NEW celebrity \in BOOLEAN,
             Rescore(p, home, celebrity)
      PROVE  rescored' /\ failed' = failed
  BY <1>2 DEF Rescore
<1>3. ASSUME ReadPull PROVE (failed => failed') /\ rescored' = rescored
  BY <1>3 DEF ReadPull
<1>4. ASSUME RequestFails PROVE failed' /\ rescored' = rescored
  BY <1>4 DEF RequestFails
<1> QED
  BY <1>1, <1>2, <1>3, <1>4
  DEF Next, Writes, Scroll, NewPost, Delete, Remove, LoadMore, ReadPush,
      ShowPage, Render, vars

Scored == ~rescored => OneScore

LEMMA InitScored == Init => Scored
  BY InitOneScore DEF Scored

LEMMA NextScored == TypeOK /\ Scored /\ [Next]_vars => Scored'
  BY NextOneScore, HistoryKept DEF Scored

\* Pages never overlap as long as no post changes its score: the docstring of
\* store.page holds for every page size and every interleaving with the
\* workers, equal scores and failing reads included.
THEOREM PagesNeverOverlap == Spec => PagesDisjoint
<1>1. Spec => [](TypeOK /\ Scored)
  BY InitScored, NextScored, InitTyped, NextTyped, PTL DEF Spec
<1>2. TypeOK /\ Scored /\ [Next]_vars =>
        [ReadPull /\ ~rescored =>
            \A p \in answer'.items : 0 < asked => given[p] < asked]_vars
  BY AnswerBelow DEF Scored, OneScore, TypeOK
<1> QED
  BY <1>1, <1>2, PTL DEF Spec, PagesDisjoint
-----------------------------------------------------------------------------
(* Nothing is skipped.                                                      *)

\* The push read was cut off above p.
Overtaken(p) == /\ Cardinality(Listed(pushRead)) = Limit
                /\ \A q \in Listed(pushRead) : pushRead[q] > born[p]

\* p is still to come: below every cursor in use, and in the answer on its way
\* or below the cursor that comes with it.
Waiting(p) ==
    /\ ~done /\ Below(born[p], cursor)
    /\ ~rendered.done /\ Below(born[p], rendered.cursor)
    /\ request \in {"asked", "read"} => Below(born[p], asked)
    /\ request = "read" /\ pushed[p] > 0 /\ pushRead[p] = 0 => Overtaken(p)
    /\ request = "answered" /\ p \notin answer.items =>
          answer.next > 0 /\ Below(born[p], answer.next)

Unstarted ==
    /\ stable = {} /\ cells = Nothing
    /\ cursor = 0 /\ ~done /\ rendered.cursor = 0 /\ ~rendered.done

NoSkip ==
    /\ request = "none" => Unstarted
    /\ \A p \in stable : /\ born[p] > 0 /\ p \notin deleted
                         /\ pushed[p] > 0 \/ pulled[p] > 0
    /\ ~failed => \A p \in stable : Alone(p) /\ cells[p] = 0 => Waiting(p)

SkipInv == TypeOK /\ OneScore /\ NoSkip

\* Scores once equal stay equal.
LEMMA AloneBefore ==
    ASSUME TypeOK, [Next]_vars, NEW p \in Posts, born[p] > 0, Alone(p)'
    PROVE  Alone(p)
<1>1. ASSUME NEW r \in Posts, NEW home \in BOOLEAN, NEW celebrity \in BOOLEAN,
             NewPost(r, home, celebrity)
      PROVE  Alone(p)
  <2>1. /\ born[r] = 0
        /\ \A q \in Posts : q # r => born'[q] = born[q]
    BY <1>1 DEF NewPost, TypeOK
  <2> QED
    BY <2>1 DEF Alone, TypeOK
<1>2. CASE born' = born
  BY <1>2 DEF Alone
<1> QED
  BY <1>1, <1>2 DEF Next, Writes, Scroll, Delete, Rescore, Remove, LoadMore,
     ReadPush, ReadPull, ShowPage, RequestFails, Render, timelines, vars

\* A cut of n posts out of candidates of which n score above b lies above b.
LEMMA CutAbove ==
    ASSUME NEW c \in Scores, NEW S \in Cuts(c, Limit), NEW b \in Nat,
           NEW L, L \subseteq Listed(c), Cardinality(L) = Limit,
           \A q \in L : c[q] > b
    PROVE  Cardinality(S) = Limit /\ \A s \in S : c[s] > b
<1>1. /\ S \subseteq Listed(c)
      /\ Cardinality(S) = Limit \/ (Cardinality(S) < Limit /\ S = Listed(c))
      /\ \A p \in S, q \in Listed(c) \ S : c[q] <= c[p]
  <2> HIDE DEF Listed
  <2> QED
    BY DEF Cuts
<1>2. IsFiniteSet(S) /\ IsFiniteSet(Listed(c)) /\ IsFiniteSet(L)
  <2>1. IsFiniteSet(Listed(c))
    BY PageAssumption, FS_Subset
  <2> HIDE DEF Listed
  <2> QED
    BY <1>1, <2>1, FS_Subset
<1>3. Cardinality(S) \in Nat /\ Cardinality(L) \in Nat
  BY <1>2, FS_CardinalityType
<1>4. Cardinality(S) = Limit
  <2>1. S = Listed(c) => Cardinality(L) <= Cardinality(S)
    BY <1>2, FS_Subset
  <2> QED
    BY <1>1, <1>3, <2>1, PageAssumption
<1>5. ASSUME NEW s \in S, ~(c[s] > b)
      PROVE  FALSE
  <2>1. s \notin L
    BY <1>5
  <2>2. L \subseteq S
    BY <1>1, <1>5
  <2>3. IsFiniteSet(L \union {s}) /\ Cardinality(L \union {s}) = Limit + 1
    BY <1>2, <2>1, FS_AddElement
  <2>4. Cardinality(L \union {s}) <= Cardinality(S)
    BY <1>2, <2>2, <1>5, FS_Subset
  <2> QED
    BY <1>4, <2>3, <2>4, PageAssumption
<1> QED
  BY <1>4, <1>5

\* A timeline's cut reaches p or is full of posts above it.
LEMMA CutReaches ==
    ASSUME TypeOK, NEW c \in Scores, NEW S \in Cuts(c, Limit),
           \A q \in Listed(c) : c[q] = born[q],
           NEW p \in Listed(c), p \notin S, Alone(p)
    PROVE  Cardinality(S) = Limit /\ \A s \in S : c[s] > born[p]
<1>1. /\ S \subseteq Listed(c)
      /\ Cardinality(S) = Limit \/ S = Listed(c)
      /\ \A s \in S, q \in Listed(c) \ S : c[q] <= c[s]
  <2> HIDE DEF Listed
  <2> QED
    BY DEF Cuts
<1>2. ASSUME NEW s \in S PROVE c[s] > born[p]
  <2>1. s \in Posts /\ p \in Posts /\ c[s] = born[s] /\ c[p] = born[p]
    BY <1>1
  <2>2. c[p] <= c[s] /\ s # p
    BY <1>1
  <2>3. born[s] # born[p]
    BY <2>1, <2>2 DEF Alone
  <2> QED
    BY <2>1, <2>2, <2>3 DEF TypeOK
<1> QED
  BY <1>1, <1>2

\* What the two reads and the answer leave for a post still to come.
LEMMA ReadPushWaits ==
    ASSUME SkipInv, ReadPush, NEW p \in stable, Alone(p), ~failed, cells[p] = 0
    PROVE  Waiting(p)'
<1> USE DEF SkipInv
<1>1. Waiting(p) /\ p \in Posts /\ born[p] \in Nat /\ born[p] > 0
  BY DEF NoSkip, TypeOK
<1>2. PICK S \in Cuts(BelowCursor(pushed, asked), Limit) :
          pushRead' = [q \in Posts |-> IF q \in S THEN pushed[q] ELSE 0]
  BY DEF ReadPush
<1> DEFINE c == BelowCursor(pushed, asked)
<1>3. c \in Scores /\ \A q \in Listed(c) : c[q] = born[q] /\ c[q] = pushed[q]
  BY DEF BelowCursor, OneScore, TypeOK
<1>4. S \subseteq Listed(c)
  <2> HIDE DEF Listed
  <2> QED
    BY <1>2 DEF Cuts
<1>5. Listed(pushRead') = S
  BY <1>2, <1>3, <1>4
<1>6. ASSUME pushed[p] > 0, pushRead'[p] = 0
      PROVE  Overtaken(p)'
  <2>1. p \in Listed(c)
    BY <1>1, <1>6 DEF BelowCursor, OneScore, ReadPush, Waiting, TypeOK
  <2>2. p \notin S
    BY <1>1, <1>2, <1>6
  <2>3. Cardinality(S) = Limit /\ \A q \in S : c[q] > born[p]
    BY <1>2, <1>3, <2>1, <2>2, CutReaches
  <2>4. \A q \in S : pushRead'[q] > born[p]
    BY <1>2, <1>3, <1>4, <2>3
  <2>5. born' = born
    BY DEF ReadPush, timelines
  <2> QED
    BY <1>5, <2>3, <2>4, <2>5 DEF Overtaken
<1>7. /\ UNCHANGED <<born, pushed, done, cursor, rendered, asked>>
      /\ request = "asked" /\ request' = "read"
  BY DEF ReadPush, timelines, hook
<1> QED
  BY <1>1, <1>6, <1>7 DEF Waiting

LEMMA ReadPullWaits ==
    ASSUME SkipInv, ReadPull, NEW p \in stable, Alone(p), ~failed', cells[p] = 0
    PROVE  Waiting(p)'
<1> USE DEF SkipInv
<1>1. p \in Posts /\ born[p] \in Nat /\ born[p] > 0 /\ ~failed
  BY DEF NoSkip, TypeOK, ReadPull
<1>2. Waiting(p) /\ (pushed[p] > 0 \/ pulled[p] > 0)
  BY <1>1 DEF NoSkip
<1> DEFINE c == Candidates(BelowCursor(pulled, asked))
<1>3. PICK S \in Cuts(c, Limit), next \in 0..clock :
          NextCursor(c, S, next) /\ answer' = [items |-> S, next |-> next]
  BY <1>1 DEF ReadPull
<1>4. c \in Scores /\ \A q \in Listed(c) : c[q] = born[q]
  BY DEF Candidates, BelowCursor, OneScore, TypeOK
<1>5. S \subseteq Listed(c)
  <2> HIDE DEF Listed
  <2> QED
    BY <1>3 DEF Cuts
<1>6. ASSUME p \notin S
      PROVE  Cardinality(S) = Limit /\ \A s \in S : c[s] > born[p]
  <2>1. CASE p \in Listed(c)
    BY <1>3, <1>4, <1>6, <2>1, CutReaches
  <2>2. CASE p \notin Listed(c)
    <3>1. pushed[p] > 0 /\ pushRead[p] = 0
      BY <1>1, <1>2, <2>2
      DEF Candidates, BelowCursor, OneScore, Waiting, ReadPull, TypeOK
    <3>2. Overtaken(p)
      BY <1>2, <3>1 DEF Waiting, ReadPull
    <3>3. Listed(pushRead) \subseteq Listed(c)
      BY DEF Candidates, BelowCursor, TypeOK
    <3>4. \A q \in Listed(pushRead) : c[q] > born[p]
      BY <1>1, <1>4, <3>2, <3>3 DEF Overtaken, OneScore, TypeOK
    <3> HIDE DEF Listed, c
    <3> QED
      BY <1>1, <1>3, <1>4, <3>2, <3>3, <3>4, CutAbove DEF Overtaken
  <2> QED
    BY <2>1, <2>2
<1>7. p \notin S => next > 0 /\ Below(born[p], next)
  BY <1>1, <1>3, <1>4, <1>5, <1>6 DEF NextCursor, TypeOK
<1>8. /\ UNCHANGED <<born, done, cursor, rendered>>
      /\ request' = "answered" /\ answer'.items = S /\ answer'.next = next
  BY <1>3 DEF ReadPull, timelines, hook
<1> QED
  BY <1>2, <1>7, <1>8 DEF Waiting

LEMMA NextNoSkip ==
    ASSUME SkipInv, [Next]_vars, ~rescored'
    PROVE  NoSkip'
<1> USE DEF SkipInv, NoSkip, Unstarted, TypeOK, timelines, hook
<1>1. ASSUME NEW p \in Posts, Delete(p) PROVE NoSkip'
  BY <1>1 DEF Delete, Waiting, Overtaken, Alone
<1>2. ASSUME NEW p \in Posts, NEW home \in BOOLEAN, NEW celebrity \in BOOLEAN,
             NewPost(p, home, celebrity)
      PROVE  NoSkip'
  <2>1. \A q \in stable' : q \in stable /\ q # p
    BY <1>2 DEF NewPost
  <2>2. \A q \in Posts : q # p => /\ pushed'[q] = pushed[q]
                                /\ pulled'[q] = pulled[q]
                                /\ born'[q] = born[q]
    BY <1>2 DEF NewPost, Timelines
  <2>3. UNCHANGED <<stable, deleted, hook, request, asked, pushRead, answer, failed>>
    BY <1>2 DEF NewPost, Timelines
  <2>4. \A q \in stable' : Waiting(q) => Waiting(q)'
    BY <2>1, <2>2, <2>3 DEF Waiting, Overtaken
  <2>5. \A q \in stable' : Alone(q)' => Alone(q)
    BY <1>2, <2>1, AloneBefore DEF Next, Writes
  <2> QED
    BY <2>1, <2>2, <2>3, <2>4, <2>5
<1>3. ASSUME NEW p \in Posts, NEW home \in BOOLEAN, NEW celebrity \in BOOLEAN,
             Remove(p, home, celebrity)
      PROVE  NoSkip'
  <2>1. \A q \in stable' : q \in stable /\ q # p
    BY <1>3 DEF Remove
  <2>2. \A q \in Posts : q # p => pushed'[q] = pushed[q] /\ pulled'[q] = pulled[q]
    BY <1>3 DEF Remove, Timelines
  <2>3. /\ UNCHANGED <<born, deleted, hook, request, asked, pushRead, answer, failed>>
        /\ request # "none" \/ stable' = {}
    BY <1>3 DEF Remove, Timelines
  <2>4. \A q \in stable' : Waiting(q) => Waiting(q)'
    BY <2>1, <2>2, <2>3 DEF Waiting, Overtaken
  <2>5. \A q \in stable' : Alone(q)' => Alone(q)
    BY <2>3 DEF Alone
  <2> QED
    BY <2>1, <2>2, <2>3, <2>4, <2>5
<1>4. ASSUME LoadMore PROVE NoSkip'
  <2>1. /\ UNCHANGED <<born, pushed, pulled, deleted, hook, pushRead, answer, failed>>
        /\ request' = "asked" /\ asked' = rendered.cursor /\ ~rendered.done
    BY <1>4 DEF LoadMore
  <2>2. CASE request = "none"
    <3>1. stable' = (Listed(pushed) \union Listed(pulled)) \ deleted
      BY <1>4, <2>2 DEF LoadMore
    <3>2. \A q \in stable' : /\ born[q] \in Nat /\ born[q] > 0
                             /\ q \notin deleted
                             /\ pushed[q] > 0 \/ pulled[q] > 0
      <4>1. ASSUME NEW q \in stable'
            PROVE  /\ q \in Posts /\ q \notin deleted
                   /\ born[q] \in Nat
                   /\ pushed[q] > 0 \/ pulled[q] > 0
        BY <3>1
      <4>2. ASSUME NEW q \in Posts, pushed[q] > 0 \/ pulled[q] > 0
            PROVE  born[q] > 0
        <5>1. pushed[q] \in {0, born[q]} /\ pulled[q] \in {0, born[q]}
          BY DEF OneScore
        <5> QED
          BY <4>2, <5>1
      <4> QED
        BY <4>1, <4>2
    <3>3. ~done /\ cursor = 0 /\ rendered.cursor = 0
      BY <2>2
    <3>4. \A q \in stable' : Waiting(q)'
      <4> HIDE DEF NoSkip, SkipInv, TypeOK
      <4> QED
        BY <2>1, <3>2, <3>3 DEF Waiting
    <3> HIDE DEF SkipInv, TypeOK, hook
    <3> QED
      BY <2>1, <3>2, <3>4
  <2>3. CASE request # "none"
    <3>1. stable' = stable
      BY <1>4, <2>3 DEF LoadMore
    <3>2. \A q \in stable : Waiting(q) => Waiting(q)'
      BY <2>1 DEF Waiting
    <3> QED
      BY <2>1, <3>1, <3>2 DEF Alone
  <2> QED
    BY <2>2, <2>3
<1>5. ASSUME ReadPush PROVE NoSkip'
  BY <1>5, ReadPushWaits DEF ReadPush, Alone
<1>6. ASSUME ReadPull PROVE NoSkip'
  BY <1>6, ReadPullWaits DEF ReadPull, Alone
<1>7. ASSUME ShowPage PROVE NoSkip'
  BY <1>7 DEF ShowPage, Answered, Waiting, Overtaken, Alone
<1>8. ASSUME RequestFails PROVE NoSkip'
  BY <1>8 DEF RequestFails, Answered
<1>9. ASSUME Render PROVE NoSkip'
  BY <1>9 DEF Render, Waiting, Overtaken, Alone
<1>10. CASE UNCHANGED vars
  BY <1>10 DEF vars, Waiting, Overtaken, Alone
<1> QED
  BY <1>1, <1>2, <1>3, <1>4, <1>5, <1>6, <1>7, <1>8, <1>9, <1>10
  DEF Next, Writes, Scroll, Rescore

\* What holds of every scroll: nothing is skipped as long as no post moved.
ScrollInv == TypeOK /\ Scored /\ (~rescored => NoSkip)

\* A scroll that reached the end showed every post that stayed in the feed,
\* for every page size and every interleaving of insertions, removals and
\* repeated requests, if none is scored anew, but for posts with the score of
\* another.
THEOREM ScrollComplete == Spec => []NothingSkipped
<1>1. Init => ScrollInv
  BY InitTyped, InitScored DEF Init, ScrollInv, NoSkip, Unstarted
<1>2. ScrollInv /\ [Next]_vars => ScrollInv'
  <2> SUFFICES ASSUME ScrollInv, [Next]_vars PROVE ScrollInv'
    OBVIOUS
  <2>1. TypeOK' /\ Scored'
    BY NextTyped, NextScored DEF ScrollInv
  <2>2. ASSUME ~rescored' PROVE NoSkip'
    <3>1. ~rescored
      BY <2>2, HistoryKept DEF ScrollInv
    <3>2. SkipInv
      BY <3>1 DEF ScrollInv, Scored, SkipInv
    <3> QED
      BY <2>2, <3>2, NextNoSkip
  <2> QED
    BY <2>1, <2>2 DEF ScrollInv
<1>3. ScrollInv => NothingSkipped
  BY DEF ScrollInv, NoSkip, Waiting, NothingSkipped, TypeOK
<1> QED
  BY <1>1, <1>2, <1>3, PTL DEF Spec
=============================================================================
