-------------------------- MODULE BusConsumerProofs --------------------------
(***************************************************************************)
(* Proofs about BusConsumer, for every set of workers and events, every     *)
(* combination of faults and every bound.  The inductive strengthening says *)
(* what a worker has achieved for its message at each step of the loop, and *)
(* that the owner of the partition has only accounted messages behind it.   *)
(***************************************************************************)
EXTENDS BusConsumer, Integers, FiniteSetTheorems, TLAPS

Busy(w) == pc[w] \notin {"poll", "down"}

\* Every position is inside the log, and a message in hand is a real one.
InLog ==
    /\ committed <= Len(log)
    /\ \A w \in Workers : /\ position[w] <= Len(log)
                          /\ Busy(w) => 1 <= position[w]

\* What each worker, fenced or not, has already achieved for its message.
InHand ==
    \A w \in Workers :
        /\ pc[w] = "mark" => Msg(w) \in handled
        /\ pc[w] = "commit" => Msg(w) \in Accounted

\* The owner of the partition is alive, ahead of the committed offset, and
\* left only accounted messages behind.
OwnerAhead ==
    \A w \in Workers : owner = w =>
        /\ pc[w] # "down"
        /\ committed <= position[w]
        /\ Busy(w) => committed < position[w]
        /\ \A i \in 1..position[w] :
              i < position[w] \/ ~Busy(w) => log[i] \in Accounted

LEMMA InitTyped == Init => TypeOK /\ InLog
  BY ConsumerAssumption DEF Init, TypeOK, InLog, Busy, Steps

\* The message a worker has in hand is a published event.
LEMMA MsgTyped ==
  ASSUME TypeOK, InLog, NEW w \in Workers, Busy(w)
  PROVE  Msg(w) \in Events
  BY DEF TypeOK, InLog, Msg

LEMMA NextTyped == TypeOK /\ InLog /\ [Next]_vars => TypeOK' /\ InLog'
<1> SUFFICES ASSUME TypeOK, InLog, [Next]_vars PROVE TypeOK' /\ InLog'
  OBVIOUS
<1> USE ConsumerAssumption
    DEF TypeOK, InLog, Busy, Steps, Goto, CountFault, broker, history
<1>1. CASE Publish
  BY <1>1 DEF Publish
<1>2. CASE ForgetSeen
  BY <1>2 DEF ForgetSeen
<1>3. ASSUME NEW w \in Workers, Assign(w)
      PROVE  TypeOK' /\ InLog'
  BY <1>3 DEF Assign
<1>4. ASSUME NEW w \in Workers, Crash(w)
      PROVE  TypeOK' /\ InLog'
  BY <1>4 DEF Crash
<1>5. ASSUME NEW w \in Workers, Restart(w)
      PROVE  TypeOK' /\ InLog'
  BY <1>5 DEF Restart
<1>6. ASSUME NEW w \in Workers, DlqBackground(w)
      PROVE  TypeOK' /\ InLog'
  BY <1>6 DEF DlqBackground
<1>7. ASSUME NEW w \in Workers, Poll(w)
      PROVE  TypeOK' /\ InLog'
  BY <1>7 DEF Poll, Fetches
<1>8. ASSUME NEW w \in Workers, Check(w)
      PROVE  TypeOK' /\ InLog'
  BY <1>8 DEF Check
<1>9. ASSUME NEW w \in Workers, HandleOk(w)
      PROVE  TypeOK' /\ InLog'
  <2>1. Msg(w) \in Events /\ pc[w] = "handle"
    BY <1>9, MsgTyped DEF HandleOk
  <2>2. handled' = handled \union {Msg(w)} /\ reruns' \in Nat
    BY <1>9 DEF HandleOk
  <2> HIDE DEF Msg
  <2> QED
    BY <1>9, <2>1, <2>2 DEF HandleOk
<1>10. ASSUME NEW w \in Workers, HandleFail(w)
      PROVE  TypeOK' /\ InLog'
  <2>1. CASE attempt[w] < MaxAttempts
    <3>1. attempt[w] + 1 \in 1..MaxAttempts
      BY <2>1
    <3>2. attempt' = [attempt EXCEPT ![w] = attempt[w] + 1]
      BY <1>10, <2>1 DEF HandleFail
    <3> QED
      BY <1>10, <2>1, <3>1, <3>2 DEF HandleFail
  <2>2. CASE ~(attempt[w] < MaxAttempts)
    BY <1>10, <2>2 DEF HandleFail
  <2> QED
    BY <2>1, <2>2
<1>11. ASSUME NEW w \in Workers, Drop(w)
      PROVE  TypeOK' /\ InLog'
  BY <1>11, MsgTyped DEF Drop
<1>12. ASSUME NEW w \in Workers, DeadLetter(w)
      PROVE  TypeOK' /\ InLog'
  BY <1>12, MsgTyped DEF DeadLetter
<1>13. ASSUME NEW w \in Workers, DeadLetterUnflushed(w)
      PROVE  TypeOK' /\ InLog'
  BY <1>13, MsgTyped DEF DeadLetterUnflushed
<1>14. ASSUME NEW w \in Workers, Defer(w)
      PROVE  TypeOK' /\ InLog'
  BY <1>14, MsgTyped DEF Defer
<1>15. ASSUME NEW w \in Workers, Mark(w)
      PROVE  TypeOK' /\ InLog'
  BY <1>15, MsgTyped DEF Mark
<1>16. ASSUME NEW w \in Workers, Commit(w)
      PROVE  TypeOK' /\ InLog'
  BY <1>16 DEF Commit
<1>17. CASE UNCHANGED vars
  BY <1>17 DEF vars
<1>18. ASSUME NEW w \in Workers, PollRaises(w)
       PROVE  TypeOK' /\ InLog'
  BY <1>18 DEF PollRaises, Fetches
<1> QED
  BY <1>1, <1>2, <1>3, <1>4, <1>5, <1>6, <1>7, <1>8, <1>9, <1>10, <1>11, <1>12, <1>13, <1>14, <1>15, <1>16, <1>17, <1>18 DEF Next, Loop

-----------------------------------------------------------------------------
Kept == MarkedWasHandled /\ InHand /\ OwnerAhead /\ CommittedIsAccounted

LEMMA InitKept == Init => Kept
  BY ConsumerAssumption
  DEF Init, Kept, MarkedWasHandled, InHand, OwnerAhead, CommittedIsAccounted,
      Busy

LEMMA NextKept ==
  TypeOK /\ InLog /\ TypeOK' /\ InLog' /\ Kept /\ [Next]_vars => Kept'
<1> SUFFICES ASSUME TypeOK, InLog, TypeOK', InLog', Kept, [Next]_vars
             PROVE  Kept'
  OBVIOUS
<1> USE ConsumerAssumption
    DEF TypeOK, InLog, Kept, InHand, OwnerAhead, MarkedWasHandled,
        CommittedIsAccounted, Accounted, Settled, Msg, Busy, Steps, Goto,
        CountFault, broker, history
<1>1. CASE Publish
  <2>1. PICK e \in Events : log' = Append(log, e)
    BY <1>1 DEF Publish
  <2>2. \A i \in 1..Len(log) : log'[i] = log[i]
    BY <2>1
  <2>3. /\ UNCHANGED <<committed, owner, pc, position, seen, handled>>
        /\ Accounted' = Accounted
    BY <1>1 DEF Publish
  <2>4. ASSUME NEW w \in Workers, Busy(w)
        PROVE  Msg(w)' = Msg(w)
    <3>1. position[w] \in 1..Len(log)
      BY <2>4
    <3> QED
      BY <2>2, <2>3, <3>1
  <2> HIDE DEF Accounted, Settled, Msg, TypeOK
  <2>5. InHand'
    BY <2>3, <2>4
  <2>6. OwnerAhead'
    <3>1. \A w \in Workers : \A i \in 1..position[w] : log'[i] = log[i]
      BY <2>2 DEF TypeOK
    <3> QED
      BY <2>3, <3>1 DEF TypeOK
  <2>7. CommittedIsAccounted'
    <3>1. \A i \in 1..committed : i <= Len(log) /\ log[i] \in Accounted
      BY DEF Accounted
    <3>2. Len(log') = Len(log) + 1
      BY <2>1 DEF TypeOK
    <3>3. ASSUME NEW i \in 1..committed
          PROVE  i <= Len(log') /\ log'[i] \in Accounted'
      <4>1. i <= Len(log) /\ log[i] \in Accounted /\ Len(log) \in Nat
        BY <3>1 DEF TypeOK
      <4>2. log'[i] = log[i]
        BY <2>2, <4>1
      <4> QED
        BY <2>3, <3>2, <4>1, <4>2
    <3> QED
      BY <2>3, <3>3 DEF Accounted
  <2> QED
    BY <2>3, <2>5, <2>6, <2>7
<1>2. CASE ForgetSeen
  BY <1>2 DEF ForgetSeen
<1>3. ASSUME NEW w \in Workers, Assign(w)
      PROVE  Kept'
  BY <1>3 DEF Assign
<1>4. ASSUME NEW w \in Workers, Crash(w)
      PROVE  Kept'
  BY <1>4 DEF Crash
<1>5. ASSUME NEW w \in Workers, Restart(w)
      PROVE  Kept'
  BY <1>5 DEF Restart
<1>6. ASSUME NEW w \in Workers, DlqBackground(w)
      PROVE  Kept'
  BY <1>6 DEF DlqBackground
<1>7. ASSUME NEW w \in Workers, Poll(w)
      PROVE  Kept'
  BY <1>7 DEF Poll, Fetches
<1>8. ASSUME NEW w \in Workers, Check(w)
      PROVE  Kept'
  BY <1>8 DEF Check
<1>9. ASSUME NEW w \in Workers, HandleOk(w)
      PROVE  Kept'
  BY <1>9 DEF HandleOk
<1>10. ASSUME NEW w \in Workers, HandleFail(w)
      PROVE  Kept'
  BY <1>10 DEF HandleFail
<1>11. ASSUME NEW w \in Workers, Drop(w)
      PROVE  Kept'
  BY <1>11 DEF Drop
<1>12. ASSUME NEW w \in Workers, DeadLetter(w)
      PROVE  Kept'
  BY <1>12 DEF DeadLetter
<1>13. ASSUME NEW w \in Workers, DeadLetterUnflushed(w)
      PROVE  Kept'
  BY <1>13 DEF DeadLetterUnflushed
<1>14. ASSUME NEW w \in Workers, Defer(w)
      PROVE  Kept'
  BY <1>14 DEF Defer
<1>15. ASSUME NEW w \in Workers, Mark(w)
      PROVE  Kept'
  BY <1>15 DEF Mark
<1>16. ASSUME NEW w \in Workers, Commit(w)
      PROVE  Kept'
  <2>1. /\ UNCHANGED <<log, owner, seen, handled, position>>
        /\ Accounted' = Accounted
        /\ pc[w] = "commit" /\ pc' = [pc EXCEPT ![w] = "poll"]
    BY <1>16 DEF Commit
  <2>2. committed' = committed \/ (owner = w /\ committed' = position[w])
    BY <1>16 DEF Commit
  <2> HIDE DEF Accounted, Settled
  <2>3. MarkedWasHandled' /\ InHand'
    BY <2>1
  <2>4. OwnerAhead'
    BY <2>1, <2>2
  <2>5. CommittedIsAccounted'
    BY <2>1, <2>2
  <2> QED
    BY <2>3, <2>4, <2>5
<1>17. CASE UNCHANGED vars
  BY <1>17 DEF vars
<1>18. ASSUME NEW w \in Workers, PollRaises(w)
       PROVE  Kept'
  BY <1>18 DEF PollRaises, Fetches
<1> QED
  BY <1>1, <1>2, <1>3, <1>4, <1>5, <1>6, <1>7, <1>8, <1>9, <1>10, <1>11, <1>12, <1>13, <1>14, <1>15, <1>16, <1>17, <1>18 DEF Next, Loop

-----------------------------------------------------------------------------
LEMMA Invariance == Spec => [](TypeOK /\ InLog /\ Kept)
<1>1. Init => TypeOK /\ InLog /\ Kept
  BY InitTyped, InitKept
<1>2. TypeOK /\ InLog /\ Kept /\ [Next]_vars => (TypeOK /\ InLog /\ Kept)'
  BY NextTyped, NextKept
<1> QED
  BY <1>1, <1>2, PTL DEF Spec

\* The variables of the loop, the broker and the dedupe store keep their types.
THEOREM TypeCorrect == Spec => []TypeOK
  BY Invariance, PTL

\* The committed offset never passes an event that is neither handled,
\* dead-lettered nor dropped, unless its dead-lettering failed.
THEOREM CommittedAccounted == Spec => []CommittedIsAccounted
<1>1. Kept => CommittedIsAccounted
  BY DEF Kept
<1> QED
  BY Invariance, <1>1, PTL

\* The dedupe store only ever holds events some handler run completed.
THEOREM MarksAreHandled == Spec => []MarkedWasHandled
<1>1. Kept => MarkedWasHandled
  BY DEF Kept
<1> QED
  BY Invariance, <1>1, PTL

\* No worker, fenced or not, moves the committed offset backwards.
THEOREM OffsetMonotone == Spec => CommitNeverRegresses
<1>1. TypeOK /\ OwnerAhead /\ [Next]_vars => [committed' >= committed]_committed
  <2> SUFFICES ASSUME TypeOK, OwnerAhead, [Next]_vars
               PROVE  committed' >= committed
    OBVIOUS
  <2> USE DEF TypeOK, broker
  <2>1. ASSUME NEW w \in Workers, Commit(w)
        PROVE  committed' >= committed
    BY <2>1 DEF Commit, OwnerAhead
  <2>2. ASSUME NEW w \in Workers, Loop(w), ~Commit(w)
        PROVE  committed' = committed
    BY <2>2 DEF Loop, Poll, PollRaises, Check, HandleOk, HandleFail, Drop, DeadLetter,
                DeadLetterUnflushed, Defer, Mark
  <2>3. ASSUME NEW w \in Workers,
               Assign(w) \/ Crash(w) \/ Restart(w) \/ DlqBackground(w)
        PROVE  committed' = committed
    BY <2>3 DEF Assign, Crash, Restart, DlqBackground
  <2>4. CASE Publish \/ ForgetSeen \/ UNCHANGED vars
    BY <2>4 DEF Publish, ForgetSeen, vars
  <2> QED
    BY <2>1, <2>2, <2>3, <2>4 DEF Next
<1>2. Kept => OwnerAhead
  BY DEF Kept
<1> QED
  BY Invariance, <1>1, <1>2, PTL DEF Spec, CommitNeverRegresses

-----------------------------------------------------------------------------
(* Implementation of AtLeastOnce.                                           *)

\* What the DLQ producer still holds has been reported.
AllReported == \A w \in Workers : dlqBuffer[w] \subseteq unparked

LEMMA NextReported ==
  ASSUME TypeOK, AllReported, [Next]_vars
  PROVE  AllReported'
<1> USE DEF TypeOK, AllReported, broker, history
<1>1. CASE Publish
  BY <1>1 DEF Publish
<1>2. CASE ForgetSeen
  BY <1>2 DEF ForgetSeen
<1>3. ASSUME NEW w \in Workers, Assign(w)
      PROVE  AllReported'
  BY <1>3 DEF Assign
<1>4. ASSUME NEW w \in Workers, Crash(w)
      PROVE  AllReported'
  BY <1>4 DEF Crash
<1>5. ASSUME NEW w \in Workers, Restart(w)
      PROVE  AllReported'
  BY <1>5 DEF Restart
<1>6. ASSUME NEW w \in Workers, DlqBackground(w)
      PROVE  AllReported'
  BY <1>6 DEF DlqBackground
<1>7. ASSUME NEW w \in Workers, Poll(w)
      PROVE  AllReported'
  BY <1>7 DEF Poll, Fetches
<1>8. ASSUME NEW w \in Workers, Check(w)
      PROVE  AllReported'
  BY <1>8 DEF Check
<1>9. ASSUME NEW w \in Workers, HandleOk(w)
      PROVE  AllReported'
  BY <1>9 DEF HandleOk
<1>10. ASSUME NEW w \in Workers, HandleFail(w)
      PROVE  AllReported'
  BY <1>10 DEF HandleFail
<1>11. ASSUME NEW w \in Workers, Drop(w)
      PROVE  AllReported'
  BY <1>11 DEF Drop
<1>12. ASSUME NEW w \in Workers, DeadLetter(w)
      PROVE  AllReported'
  BY <1>12 DEF DeadLetter
<1>13. ASSUME NEW w \in Workers, DeadLetterUnflushed(w)
      PROVE  AllReported'
  BY <1>13 DEF DeadLetterUnflushed
<1>14. ASSUME NEW w \in Workers, Defer(w)
      PROVE  AllReported'
  BY <1>14 DEF Defer
<1>15. ASSUME NEW w \in Workers, Mark(w)
      PROVE  AllReported'
  BY <1>15 DEF Mark
<1>16. ASSUME NEW w \in Workers, Commit(w)
      PROVE  AllReported'
  BY <1>16 DEF Commit
<1>17. CASE UNCHANGED vars
  BY <1>17 DEF vars
<1>18. ASSUME NEW w \in Workers, PollRaises(w)
       PROVE  AllReported'
  BY <1>18 DEF PollRaises, Fetches
<1> QED
  BY <1>1, <1>2, <1>3, <1>4, <1>5, <1>6, <1>7, <1>8, <1>9, <1>10, <1>11, <1>12, <1>13, <1>14, <1>15, <1>16, <1>17, <1>18 DEF Next, Loop

LEMMA StepImplements ==
  ASSUME TypeOK, InLog, Kept, AllReported, TypeOK', InLog', Kept', AllReported',
         [Next]_vars
  PROVE  [Delivery!Next]_(Delivery!vars)
<1> USE DEF Accounted, Settled, broker, history, Delivery!vars
<1>1. CASE Publish
  BY <1>1 DEF Publish, Delivery!Next, Delivery!Publish
<1>2. ASSUME NEW w \in Workers,
             \/ HandleOk(w) \/ Drop(w) \/ DeadLetter(w)
             \/ DeadLetterUnflushed(w) \/ Defer(w)
      PROVE  [Delivery!Next]_(Delivery!vars)
  <2>1. Busy(w)
    BY <1>2 DEF HandleOk, Drop, DeadLetter, DeadLetterUnflushed, Defer, Busy
  <2>2. Msg(w) \in Events /\ Msg(w) \in Delivery!Published
    BY <2>1, MsgTyped DEF InLog, TypeOK, Msg, Delivery!Published
  <2>3. /\ Accounted' = Accounted \union {Msg(w)}
        /\ UNCHANGED <<log, committed>>
    BY <1>2 DEF HandleOk, Drop, DeadLetter, DeadLetterUnflushed, Defer, AllReported
  <2>4. CASE Msg(w) \in Accounted
    BY <2>3, <2>4
  <2>5. CASE Msg(w) \notin Accounted
    <3>1. Delivery!Settle({Msg(w)})
      BY <2>2, <2>3, <2>5 DEF Delivery!Settle
    <3> QED
      BY <2>2, <3>1 DEF Delivery!Next
  <2> QED
    BY <2>4, <2>5
<1>3. ASSUME NEW w \in Workers, Commit(w)
      PROVE  [Delivery!Next]_(Delivery!vars)
  <2>1. UNCHANGED <<log, Accounted>>
    BY <1>3 DEF Commit
  <2>2. CASE committed' = committed
    BY <2>1, <2>2
  <2>3. CASE committed' # committed
    <3>1. committed' \in (committed + 1)..Len(log)
      BY <1>3, <2>1, <2>3
      DEF Commit, Kept, OwnerAhead, InLog, TypeOK
    <3>2. \A i \in 1..committed' : log[i] \in Accounted
      BY <2>1 DEF Kept, CommittedIsAccounted
    <3> QED
      BY <2>1, <3>1, <3>2 DEF Delivery!Next, Delivery!Advance
  <2> QED
    BY <2>2, <2>3
<1>4. ASSUME NEW w \in Workers,
             Poll(w) \/ Check(w) \/ HandleFail(w) \/ Mark(w)
      PROVE  UNCHANGED <<log, Accounted, committed>>
  BY <1>4 DEF Poll, Check, HandleFail, Mark
<1>5. ASSUME NEW w \in Workers,
             \/ Assign(w) \/ Crash(w) \/ Restart(w) \/ DlqBackground(w)
             \/ PollRaises(w)
      PROVE  UNCHANGED <<log, Accounted, committed>>
  BY <1>5 DEF Assign, Crash, Restart, DlqBackground, PollRaises, AllReported
<1>6. CASE ForgetSeen \/ UNCHANGED vars
  BY <1>6 DEF ForgetSeen, vars
<1> QED
  BY <1>1, <1>2, <1>3, <1>4, <1>5, <1>6 DEF Next, Loop

\* The loop implements at-least-once delivery, crash by crash and rebalance by
\* rebalance, under every combination of faults.
THEOREM ImplementsAtLeastOnce == Spec => DeliversAtLeastOnce
<1>1. Init => Delivery!Init /\ AllReported
  BY DEF Init, Delivery!Init, Accounted, Settled, AllReported
<1>2. TypeOK /\ AllReported /\ [Next]_vars => AllReported'
  BY NextReported
<1>3. TypeOK /\ InLog /\ Kept /\ AllReported /\ TypeOK' /\ InLog' /\ Kept'
        /\ AllReported' /\ [Next]_vars => [Delivery!Next]_(Delivery!vars)
  BY StepImplements
<1> QED
  BY <1>1, <1>2, <1>3, Invariance, PTL
  DEF Spec, DeliversAtLeastOnce, Delivery!Spec

NoneGivenUp == unparked = {}
CommittedIsSettled == \A i \in 1..committed : log[i] \in Settled

\* When the dead-letter topic takes what it is given, nothing is given up: each
\* committed event was handled, parked or knowingly dropped.
THEOREM CommittedSettled ==
  ASSUME "dlqDown" \notin Faults, "dlqTimeout" \notin Faults
  PROVE  Spec => []CommittedIsSettled
<1>1. Init => NoneGivenUp
  BY DEF Init, NoneGivenUp
<1>2. NoneGivenUp /\ [Next]_vars => NoneGivenUp'
  BY DEF NoneGivenUp, Next, Loop, Publish, ForgetSeen, Assign, Crash, Restart, DlqBackground,
     Poll, PollRaises, Check, HandleOk, HandleFail, Drop, DeadLetter, DeadLetterUnflushed,
     Defer, Mark, Commit, broker, history, vars
<1>3. NoneGivenUp /\ Kept => CommittedIsSettled
  BY DEF NoneGivenUp, Kept, CommittedIsAccounted, CommittedIsSettled, Accounted
<1> QED
  BY <1>1, <1>2, <1>3, Invariance, PTL DEF Spec
-----------------------------------------------------------------------------
(* Handlers that complete twice.  Every fault earns the loop the right to    *)
(* one such run, and what is still to be run twice is counted: the events    *)
(* handled and not marked that the owner is not about to mark, the workers   *)
(* that lost the partition before their handler was done, and the owner,     *)
(* when its event was marked by another after the owner had looked.          *)
Held == {Msg(w) : w \in {v \in Workers : owner = v /\ pc[v] = "mark"}}
Loose == (handled \ seen) \ Held
Fenced == {w \in Workers : owner # w /\ pc[w] \in {"check", "handle"}}
Doomed == {w \in Workers : owner = w /\ pc[w] = "handle" /\ Msg(w) \in seen}

Due == Cardinality(Loose) + Cardinality(Fenced) + Cardinality(Doomed)
RunsPaid == IsFiniteSet(handled) /\ IsFiniteSet(Fenced) /\ reruns + Due <= faults

\* T is finite and has at most n elements more than S.
Within(S, T, n) == IsFiniteSet(T) /\ Cardinality(T) <= Cardinality(S) + n

LEMMA Fewer ==
  ASSUME NEW S, IsFiniteSet(S), NEW T, T \subseteq S
  PROVE  Within(S, T, 0)
  BY FS_Subset, FS_CardinalityType DEF Within

LEMMA OneMore ==
  ASSUME NEW S, IsFiniteSet(S), NEW x, NEW T, T \subseteq S \union {x}
  PROVE  Within(S, T, 1)
<1> DEFINE More == S \union {x}
<1>1. /\ IsFiniteSet(More)
      /\ Cardinality(More) = IF x \in S THEN Cardinality(S) ELSE Cardinality(S) + 1
  BY FS_AddElement
<1> HIDE DEF More
<1>2. IsFiniteSet(T) /\ Cardinality(T) <= Cardinality(More)
  BY <1>1, FS_Subset DEF More
<1>3. Cardinality(S) \in Nat /\ Cardinality(T) \in Nat
  BY <1>2, FS_CardinalityType
<1> QED
  BY <1>1, <1>2, <1>3 DEF Within

LEMMA OneLess ==
  ASSUME NEW S, IsFiniteSet(S), NEW x \in S, NEW T, T \subseteq S \ {x}
  PROVE  Within(S, T, -1)
<1> DEFINE Rest == S \ {x}
<1>1. IsFiniteSet(Rest) /\ Cardinality(Rest) = Cardinality(S) - 1
  BY FS_RemoveElement
<1> HIDE DEF Rest
<1>2. IsFiniteSet(T) /\ Cardinality(T) <= Cardinality(Rest)
  BY <1>1, FS_Subset DEF Rest
<1>3. Cardinality(S) \in Nat /\ Cardinality(T) \in Nat
  BY <1>2, FS_CardinalityType
<1> QED
  BY <1>1, <1>2, <1>3 DEF Within

\* The three sets are finite: only the owner can be doomed.
LEMMA DueFinite ==
  ASSUME RunsPaid
  PROVE  IsFiniteSet(Loose) /\ IsFiniteSet(Fenced) /\ IsFiniteSet(Doomed)
<1>1. Loose \subseteq handled
  BY DEF Loose
<1>2. Doomed \subseteq {} \union {owner}
  BY DEF Doomed
<1> QED
  BY <1>1, <1>2, Fewer, OneMore, FS_EmptySet DEF RunsPaid, Within

\* The books of a step: what it adds to the sets and to the runs is covered by
\* what it takes from the sets and by the faults it counts.
LEMMA Balance ==
  ASSUME TypeOK, TypeOK', RunsPaid, IsFiniteSet(handled'),
         NEW l \in {-1, 0, 1}, Within(Loose, Loose', l),
         NEW f \in {-1, 0, 1}, Within(Fenced, Fenced', f),
         NEW d \in {-1, 0, 1}, Within(Doomed, Doomed', d),
         reruns' + l + f + d + faults <= reruns + faults'
  PROVE  RunsPaid'
<1>1. PICK a \in Nat, b \in Nat, c \in Nat :
         a = Cardinality(Loose) /\ b = Cardinality(Fenced) /\ c = Cardinality(Doomed)
  BY DueFinite, FS_CardinalityType
<1>2. PICK a1 \in Nat, b1 \in Nat, c1 \in Nat :
         a1 = Cardinality(Loose') /\ b1 = Cardinality(Fenced') /\ c1 = Cardinality(Doomed')
  BY FS_CardinalityType DEF Within
<1>3. PICK r \in Nat, n \in Nat, r1 \in Nat, n1 \in Nat :
         r = reruns /\ n = faults /\ r1 = reruns' /\ n1 = faults'
  BY DEF TypeOK
<1>4. r + (a + b + c) <= n
  BY <1>1, <1>3 DEF RunsPaid, Due
<1>5. a1 <= a + l /\ b1 <= b + f /\ c1 <= c + d
  BY <1>1, <1>2 DEF Within
<1>6. r1 + l + f + d + n <= r + n1
  BY <1>3
<1>7. r1 + (a1 + b1 + c1) <= n1
  BY <1>4, <1>5, <1>6
<1> QED
  BY <1>2, <1>3, <1>7 DEF Within, RunsPaid, Due

\* A step after which no more is due, and no handler has completed twice.
LEMMA Calm ==
  ASSUME TypeOK, TypeOK', RunsPaid, IsFiniteSet(handled'), reruns' = reruns, faults' = faults,
         Loose' \subseteq Loose, Fenced' \subseteq Fenced, Doomed' \subseteq Doomed
  PROVE  RunsPaid'
<1>1. /\ Within(Loose, Loose', 0) /\ Within(Fenced, Fenced', 0)
      /\ Within(Doomed, Doomed', 0)
  BY DueFinite, Fewer
<1>2. reruns' + 0 + 0 + 0 + faults <= reruns + faults'
  BY DEF TypeOK
<1> QED
  BY <1>1, <1>2, Balance

\* Only one worker owns the partition, so it holds at most one event.
LEMMA HeldByOwner ==
  ASSUME NEW w \in Workers, owner = w
  PROVE  /\ pc[w] = "mark" => Held = {Msg(w)}
         /\ pc[w] # "mark" => Held = {}
  BY DEF Held

\* Every step is covered.
LEMMA NextPaid ==
  ASSUME TypeOK, TypeOK', InLog, Kept, RunsPaid, [Next]_vars
  PROVE  RunsPaid'
<1> USE DEF TypeOK, Steps, Goto, CountFault, broker, history, Msg
<1>1. CASE Publish
  <2>1. PICK e \in Events : log' = Append(log, e)
    BY <1>1 DEF Publish
  <2>2. UNCHANGED <<owner, pc, position, seen, handled, reruns, faults>>
    BY <1>1 DEF Publish
  <2>3. ASSUME NEW w \in Workers, Busy(w)
        PROVE  Msg(w)' = Msg(w)
    BY <2>1, <2>2, <2>3 DEF InLog
  <2> HIDE DEF Msg
  <2>4. Held' = Held
    BY <2>2, <2>3 DEF Held, Busy
  <2>5. Fenced' = Fenced /\ Doomed' = Doomed
    BY <2>2, <2>3 DEF Fenced, Doomed, Busy
  <2> QED
    BY <2>2, <2>4, <2>5, Calm DEF Loose, RunsPaid
<1>2. CASE ForgetSeen
  <2>1. PICK e \in seen : seen' = seen \ {e}
    BY <1>2 DEF ForgetSeen
  <2>2. UNCHANGED <<log, owner, pc, position, handled, reruns>> /\ faults' = faults + 1
    BY <1>2 DEF ForgetSeen
  <2>3. Loose' \subseteq Loose \union {e} /\ Fenced' = Fenced /\ Doomed' \subseteq Doomed
    BY <2>1, <2>2 DEF Loose, Held, Fenced, Doomed
  <2>4. /\ Within(Loose, Loose', 1) /\ Within(Fenced, Fenced', 0)
        /\ Within(Doomed, Doomed', 0)
    BY <2>3, DueFinite, Fewer, OneMore
  <2>5. reruns' + 1 + 0 + 0 + faults <= reruns + faults'
    BY <2>2
  <2> QED
    BY <2>2, <2>4, <2>5, Balance DEF RunsPaid
<1>3. ASSUME NEW w \in Workers, Assign(w)
      PROVE  RunsPaid'
  <2>1. /\ pc[w] = "poll" /\ owner # w /\ owner' = w
        /\ \A v \in Workers \ {w} : position'[v] = position[v]
        /\ UNCHANGED <<log, pc, seen, handled, reruns>>
    BY <1>3 DEF Assign
  <2>2. Held' = {}
    BY <2>1 DEF Held
  <2>3. Doomed' = {}
    BY <2>1 DEF Doomed
  <2>4. CASE owner = NoWorker
    <3>1. Fenced' \subseteq Fenced /\ Held = {} /\ faults' = faults
      BY <1>3, <2>1, <2>4, ConsumerAssumption DEF Assign, Fenced, Held
    <3> QED
      BY <2>1, <2>2, <2>3, <3>1, Calm DEF Loose, RunsPaid
  <2>5. CASE owner # NoWorker
    <3> DEFINE u == owner
    <3>1. u \in Workers /\ faults' = faults + 1
      BY <1>3, <2>1, <2>5 DEF Assign
    <3>2. CASE pc[u] = "mark"
      <4>1. Loose' \subseteq Loose \union {Msg(u)}
        BY <2>1, <2>2, <3>1, <3>2, HeldByOwner DEF Loose
      <4>2. Fenced' \subseteq Fenced
        BY <2>1, <3>1, <3>2 DEF Fenced
      <4>3. /\ Within(Loose, Loose', 1) /\ Within(Fenced, Fenced', 0)
            /\ Within(Doomed, Doomed', 0)
        BY <2>3, <4>1, <4>2, DueFinite, Fewer, OneMore
      <4>4. reruns' + 1 + 0 + 0 + faults <= reruns + faults'
        BY <2>1, <3>1
      <4> QED
        BY <2>1, <4>3, <4>4, Balance DEF RunsPaid
    <3>3. CASE pc[u] # "mark"
      <4>1. Loose' \subseteq Loose
        BY <2>1, <2>2, <3>1, <3>3, HeldByOwner DEF Loose
      <4>2. Fenced' \subseteq Fenced \union {u}
        BY <2>1, <3>1 DEF Fenced
      <4>3. /\ Within(Loose, Loose', 0) /\ Within(Fenced, Fenced', 1)
            /\ Within(Doomed, Doomed', 0)
        BY <2>3, <4>1, <4>2, DueFinite, Fewer, OneMore
      <4>4. reruns' + 0 + 1 + 0 + faults <= reruns + faults'
        BY <2>1, <3>1
      <4> QED
        BY <2>1, <4>3, <4>4, Balance DEF RunsPaid
    <3> QED
      BY <3>2, <3>3
  <2> QED
    BY <2>4, <2>5
<1>4. ASSUME NEW w \in Workers, Crash(w)
      PROVE  RunsPaid'
  <2>1. /\ pc' = [pc EXCEPT ![w] = "down"] /\ faults' = faults + 1
        /\ owner' = IF owner = w THEN NoWorker ELSE owner
        /\ UNCHANGED <<log, position, seen, handled, reruns>>
    BY <1>4 DEF Crash
  <2>2. Held \subseteq Held' \union {Msg(w)}
    BY <2>1, ConsumerAssumption DEF Held
  <2>3. Loose' \subseteq Loose \union {Msg(w)}
    BY <2>1, <2>2 DEF Loose
  <2>4. Fenced' \subseteq Fenced /\ Doomed' \subseteq Doomed
    BY <2>1, ConsumerAssumption DEF Fenced, Doomed
  <2>5. /\ Within(Loose, Loose', 1) /\ Within(Fenced, Fenced', 0)
        /\ Within(Doomed, Doomed', 0)
    BY <2>3, <2>4, DueFinite, Fewer, OneMore
  <2>6. reruns' + 1 + 0 + 0 + faults <= reruns + faults'
    BY <2>1
  <2> QED
    BY <2>1, <2>5, <2>6, Balance DEF RunsPaid
<1>5. ASSUME NEW w \in Workers, HandleOk(w)
      PROVE  RunsPaid'
  <2> DEFINE e == Msg(w)
  <2>1. /\ pc[w] = "handle" /\ pc' = [pc EXCEPT ![w] = "mark"]
        /\ handled' = handled \union {e}
        /\ UNCHANGED <<log, owner, position, seen, faults>>
    BY <1>5 DEF HandleOk
  <2>2. reruns' = IF e \in handled THEN reruns + 1 ELSE reruns
    BY <1>5 DEF HandleOk
  <2>3. IsFiniteSet(handled')
    BY <2>1, FS_AddElement DEF RunsPaid
  <2>4. CASE owner = w
    <3>1. Held = {} /\ Held' = {e}
      BY <2>1, <2>4 DEF Held
    <3>2. Fenced' \subseteq Fenced
      BY <2>1, <2>4 DEF Fenced
    <3>3. Loose' = Loose \ {e} /\ Doomed' = {}
      BY <2>1, <2>4, <3>1 DEF Loose, Doomed
    <3>4. CASE e \notin handled
      BY <2>2, <2>1, <2>3, <3>2, <3>3, <3>4, Calm
    <3>5. CASE e \in handled \ seen
      <4>1. e \in Loose
        BY <3>1, <3>5 DEF Loose
      <4>2. /\ Within(Loose, Loose', -1) /\ Within(Fenced, Fenced', 0)
            /\ Within(Doomed, Doomed', 0)
        BY <3>2, <3>3, <4>1, DueFinite, Fewer, OneLess
      <4>3. reruns' + (-1) + 0 + 0 + faults <= reruns + faults'
        BY <2>1, <2>2, <3>5
      <4> QED
        BY <2>3, <4>2, <4>3, Balance
    <3>6. CASE e \in handled /\ e \in seen
      <4>1. w \in Doomed
        BY <2>1, <2>4, <3>6 DEF Doomed
      <4>2. /\ Within(Loose, Loose', 0) /\ Within(Fenced, Fenced', 0)
            /\ Within(Doomed, Doomed', -1)
        BY <3>2, <3>3, <4>1, DueFinite, Fewer, OneLess
      <4>3. reruns' + 0 + 0 + (-1) + faults <= reruns + faults'
        BY <2>1, <2>2, <3>6
      <4> QED
        BY <2>3, <4>2, <4>3, Balance
    <3> QED
      BY <3>4, <3>5, <3>6
  <2>5. CASE owner # w
    <3>1. w \in Fenced /\ Fenced' \subseteq Fenced \ {w}
      BY <2>1, <2>5 DEF Fenced
    <3>2. Held' = Held /\ Doomed' \subseteq Doomed
      BY <2>1, <2>5 DEF Held, Doomed
    <3>3. CASE e \notin handled
      <4>1. Loose' \subseteq Loose \union {e}
        BY <2>1, <3>2 DEF Loose
      <4>2. /\ Within(Loose, Loose', 1) /\ Within(Fenced, Fenced', -1)
            /\ Within(Doomed, Doomed', 0)
        BY <3>1, <3>2, <4>1, DueFinite, Fewer, OneLess, OneMore
      <4>3. reruns' + 1 + (-1) + 0 + faults <= reruns + faults'
        BY <2>1, <2>2, <3>3
      <4> QED
        BY <2>3, <4>2, <4>3, Balance
    <3>4. CASE e \in handled
      <4>1. Loose' \subseteq Loose
        BY <2>1, <3>2, <3>4 DEF Loose
      <4>2. /\ Within(Loose, Loose', 0) /\ Within(Fenced, Fenced', -1)
            /\ Within(Doomed, Doomed', 0)
        BY <3>1, <3>2, <4>1, DueFinite, Fewer, OneLess
      <4>3. reruns' + 0 + (-1) + 0 + faults <= reruns + faults'
        BY <2>1, <2>2, <3>4
      <4> QED
        BY <2>3, <4>2, <4>3, Balance
    <3> QED
      BY <3>3, <3>4
  <2> QED
    BY <2>4, <2>5
<1>6. ASSUME NEW w \in Workers, Mark(w)
      PROVE  RunsPaid'
  <2> DEFINE e == Msg(w)
  <2>1. /\ pc[w] = "mark" /\ pc' = [pc EXCEPT ![w] = "commit"]
        /\ seen' = seen \union {e} /\ e \in handled
        /\ UNCHANGED <<log, owner, position, handled, reruns, faults>>
    BY <1>6 DEF Mark, Kept, InHand
  <2>2. Loose' \subseteq Loose \ {e}
    BY <2>1 DEF Loose, Held
  <2>3. Fenced' \subseteq Fenced
    BY <2>1 DEF Fenced
  <2>4. CASE e \in Loose
    <3>1. Doomed' \subseteq Doomed \union {owner}
      BY <2>1 DEF Doomed
    <3>2. /\ Within(Loose, Loose', -1) /\ Within(Fenced, Fenced', 0)
          /\ Within(Doomed, Doomed', 1)
      BY <2>2, <2>3, <2>4, <3>1, DueFinite, Fewer, OneLess, OneMore
    <3>3. reruns' + (-1) + 0 + 1 + faults <= reruns + faults'
      BY <2>1
    <3> QED
      BY <2>1, <3>2, <3>3, Balance DEF RunsPaid
  <2>5. CASE e \notin Loose
    <3>1. ASSUME NEW v \in Doomed'
          PROVE  v \in Doomed
      <4>1. v \in Workers /\ v # w /\ owner = v /\ pc[v] = "handle"
        BY <2>1 DEF Doomed
      <4>2. Held = {}
        BY <4>1, HeldByOwner
      <4>3. e \in seen
        BY <2>1, <2>5, <4>2 DEF Loose
      <4> QED
        BY <2>1, <4>1, <4>3 DEF Doomed
    <3> QED
      BY <2>1, <2>2, <2>3, <3>1, Calm DEF RunsPaid
  <2> QED
    BY <2>4, <2>5
<1>7. ASSUME NEW w \in Workers, Poll(w)
      PROVE  RunsPaid'
  <2>1. /\ pc[w] = "poll" /\ pc' = [pc EXCEPT ![w] = "check"] /\ owner = w
        /\ \A v \in Workers \ {w} : position'[v] = position[v]
        /\ UNCHANGED <<log, owner, seen, handled, reruns, faults>>
    BY <1>7 DEF Poll, Fetches
  <2>2. Held' = Held /\ Fenced' \subseteq Fenced /\ Doomed' \subseteq Doomed
    BY <2>1 DEF Held, Fenced, Doomed
  <2> QED
    BY <2>1, <2>2, Calm DEF Loose, RunsPaid
<1>8. ASSUME NEW w \in Workers,
             /\ pc[w] \in {"down", "check", "handle", "deadletter", "commit"}
             /\ \E step \in {"poll", "handle", "deadletter", "commit"} :
                   /\ pc' = [pc EXCEPT ![w] = step]
                   /\ step = "handle" => pc[w] = "check" /\ Msg(w) \notin seen
             /\ UNCHANGED <<log, owner, position, seen, handled, reruns, faults>>
      PROVE  RunsPaid'
  <2>1. Held' = Held
    BY <1>8 DEF Held
  <2>2. Fenced' \subseteq Fenced /\ Doomed' \subseteq Doomed
    BY <1>8 DEF Fenced, Doomed
  <2> QED
    BY <1>8, <2>1, <2>2, Calm DEF Loose, RunsPaid
<1>9. CASE UNCHANGED <<log, owner, pc, position, seen, handled, reruns, faults>>
  <2>1. Loose' = Loose /\ Fenced' = Fenced /\ Doomed' = Doomed
    BY <1>9 DEF Loose, Held, Fenced, Doomed
  <2> QED
    BY <1>9, <2>1, Calm DEF RunsPaid
<1>13. ASSUME NEW w \in Workers, PollRaises(w)
       PROVE  RunsPaid'
  <2>1. /\ pc[w] = "poll" /\ pc' = [pc EXCEPT ![w] = "down"]
        /\ owner = w /\ owner' = NoWorker
        /\ UNCHANGED <<log, position, seen, handled, reruns, faults>>
    BY <1>13 DEF PollRaises, Fetches
  <2>2. Held = {} /\ Held' = {} /\ Doomed' = {}
    BY <2>1, ConsumerAssumption, HeldByOwner DEF Held, Doomed
  <2>3. Fenced' \subseteq Fenced
    BY <2>1 DEF Fenced
  <2> QED
    BY <2>1, <2>2, <2>3, Calm DEF Loose, RunsPaid
<1>10. ASSUME NEW w \in Workers, Loop(w)
       PROVE  RunsPaid'
  <2>1. CASE HandleOk(w) \/ Mark(w) \/ Poll(w) \/ PollRaises(w)
    BY <2>1, <1>5, <1>6, <1>7, <1>13
  <2>2. CASE Check(w)
    BY <2>2, <1>8 DEF Check
  <2>3. CASE HandleFail(w)
    BY <2>3, <1>8, <1>9 DEF HandleFail
  <2>4. CASE Drop(w) \/ DeadLetter(w) \/ DeadLetterUnflushed(w) \/ Defer(w)
    BY <2>4, <1>8 DEF Drop, DeadLetter, DeadLetterUnflushed, Defer
  <2>5. CASE Commit(w)
    BY <2>5, <1>8 DEF Commit
  <2> QED
    BY <1>10, <2>1, <2>2, <2>3, <2>4, <2>5 DEF Loop
<1>11. ASSUME NEW w \in Workers, Restart(w) \/ DlqBackground(w)
       PROVE  RunsPaid'
  BY <1>11, <1>8, <1>9 DEF Restart, DlqBackground
<1>12. CASE UNCHANGED vars
  BY <1>9, <1>12 DEF vars
<1> QED
  BY <1>1, <1>2, <1>3, <1>4, <1>10, <1>11, <1>12 DEF Next

\* Whatever is retried, committed twice, lost on the way to the broker or
\* published twice: a handler completes again on an event only if a process
\* died, lost its partition, or a dedupe key was lost (consumer.py:92-111).
THEOREM RerunsPaid == Spec => []RerunsNeedFaults
<1>1. Init => RunsPaid
  <2> SUFFICES ASSUME Init PROVE RunsPaid
    OBVIOUS
  <2>1. Loose = {} /\ Fenced = {} /\ Doomed = {} /\ handled = {}
    BY DEF Init, Loose, Fenced, Doomed
  <2>2. IsFiniteSet({}) /\ Cardinality({}) = 0
    BY FS_EmptySet
  <2>3. Due = 0 + 0 + 0
    BY <2>1, <2>2 DEF Due
  <2>4. reruns = 0 /\ faults = 0
    BY DEF Init
  <2> QED
    BY <2>1, <2>2, <2>3, <2>4 DEF RunsPaid
<1>2. TypeOK /\ RunsPaid => RerunsNeedFaults
  <2> SUFFICES ASSUME TypeOK, RunsPaid PROVE RerunsNeedFaults
    OBVIOUS
  <2>1. PICK a \in Nat, b \in Nat, c \in Nat :
           a = Cardinality(Loose) /\ b = Cardinality(Fenced) /\ c = Cardinality(Doomed)
    BY DueFinite, FS_CardinalityType
  <2>2. PICK r \in Nat, n \in Nat : r = reruns /\ n = faults
    BY DEF TypeOK
  <2>3. r + (a + b + c) <= n
    BY <2>1, <2>2 DEF RunsPaid, Due
  <2>4. r <= n
    BY <2>3
  <2> QED
    BY <2>2, <2>4 DEF RerunsNeedFaults
<1>3. TypeOK /\ TypeOK' /\ InLog /\ Kept /\ RunsPaid /\ [Next]_vars => RunsPaid'
  BY NextPaid
<1> QED
  BY <1>1, <1>2, <1>3, Invariance, PTL DEF Spec
=============================================================================
