---------------------------- MODULE OutboxProofs ----------------------------
(***************************************************************************)
(* Proofs about Outbox, for every set of requests, rows and relays and      *)
(* every batch size.  Ordered is the inductive heart: a relay that holds a  *)
(* row holds, has queued or has delivered every row it depends on.  Written  *)
(* is what the refinement of OwedEvents rests on: a row needs its write.     *)
(***************************************************************************)
EXTENDS Outbox, TLAPS

\* f belongs to a transactional request whose document e's request read.
Precedes(f, e) ==
    WriteOf[f] \in After[WriteOf[e]] /\ WriteOf[f] \in Transactional

\* The rows a relay is done with.
Out == sent \union givenUp

\* A relay works on a row exactly in these steps, and its row exists.
InHand ==
    \A r \in Relays :
        /\ entry[r] # NoEntry <=> rpc[r] \in {"flush", "mark"}
        /\ rpc[r] \in {"idle", "down"} => batch[r] = {}

Inv1 == TypeOK /\ InHand

LEMMA InitTyped == Init => Inv1
  BY OutboxAssumption DEF Init, Inv1, TypeOK, InHand

LEMMA NextTyped == Inv1 /\ [Next]_vars => Inv1'
<1> SUFFICES ASSUME Inv1, [Next]_vars PROVE Inv1'
  OBVIOUS
<1> USE OutboxAssumption
    DEF Inv1, TypeOK, InHand, Fault, InsertRows, Resume, database, relay
<1>1. ASSUME NEW w \in Writes, Begin(w)
      PROVE  Inv1'
  BY <1>1 DEF Begin
<1>2. ASSUME NEW w \in Writes, CommitTxn(w)
      PROVE  Inv1'
  BY <1>2 DEF CommitTxn
<1>3. ASSUME NEW w \in Writes, FallbackWrite(w)
      PROVE  Inv1'
  BY <1>3 DEF FallbackWrite
<1>4. ASSUME NEW w \in Writes, FallbackInsert(w)
      PROVE  Inv1'
  BY <1>4 DEF FallbackInsert
<1>5. ASSUME NEW w \in Writes, RequestFails(w)
      PROVE  Inv1'
  BY <1>5 DEF RequestFails
<1>6. ASSUME NEW r \in Relays, Fetch(r)
      PROVE  Inv1'
  BY <1>6 DEF Fetch, OldestPending, Pending
<1>7. ASSUME NEW r \in Relays, Publish(r)
      PROVE  Inv1'
  BY <1>7 DEF Publish
<1>8. ASSUME NEW r \in Relays, Flush(r)
      PROVE  Inv1'
  BY <1>8 DEF Flush
<1>9. ASSUME NEW r \in Relays, FlushTimesOut(r)
      PROVE  Inv1'
  BY <1>9 DEF FlushTimesOut
<1>10. ASSUME NEW r \in Relays, MarkPublished(r)
      PROVE  Inv1'
  BY <1>10 DEF MarkPublished
<1>11. ASSUME NEW r \in Relays, DrainBreaks(r)
      PROVE  Inv1'
  BY <1>11 DEF DrainBreaks
<1>12. ASSUME NEW r \in Relays, QueueDelivers(r)
      PROVE  Inv1'
  BY <1>12 DEF QueueDelivers
<1>13. ASSUME NEW r \in Relays, QueueExpires(r)
      PROVE  Inv1'
  BY <1>13 DEF QueueExpires
<1>14. ASSUME NEW r \in Relays, RelayCrash(r)
      PROVE  Inv1'
  BY <1>14 DEF RelayCrash
<1>15. ASSUME NEW r \in Relays, RelayRestart(r)
      PROVE  Inv1'
  BY <1>15 DEF RelayRestart
<1>16. CASE UNCHANGED vars
  BY <1>16 DEF vars
<1> QED
  BY <1>1, <1>2, <1>3, <1>4, <1>5, <1>6, <1>7, <1>8, <1>9, <1>10, <1>11,
     <1>12, <1>13, <1>14, <1>15, <1>16
  DEF Next, Request, Drain

-----------------------------------------------------------------------------
(* Rows and requests.                                                       *)

\* Rows exist only of requests that began, a row is stamped when its request
\* began, and a request began only after the ones it depends on.
Rows ==
    /\ \A e \in Entries : WriteOf[e] \in Transactional =>
          (WriteOf[e] \in visible <=> status[e] # "none")
    /\ \A e \in Entries : wpc[WriteOf[e]] = "done" => status[e] # "none"
    /\ \A w \in Writes :
          /\ w \in Transactional /\ w \in visible => wpc[w] = "done"
          /\ w \in Transactional => wpc[w] # "written"
          /\ w \in visible => wpc[w] # "idle" /\ wpc[w] # "begun"
          /\ wpc[w] # "idle" => After[w] \subseteq visible
    /\ \A e \in Entries :
          /\ status[e] # "none" => wpc[WriteOf[e]] # "idle"
          /\ wpc[WriteOf[e]] # "idle" => createdAt[e] < clock
    /\ \A e, f \in Entries :
          wpc[WriteOf[e]] # "idle" /\ Precedes(f, e) => createdAt[f] < createdAt[e]

\* A relay only holds rows of the outbox.
Held ==
    \A r \in Relays, e \in Entries :
        e \in batch[r] \/ e \in queue[r] \/ e = entry[r] => status[e] # "none"

LEMMA InitRows == Init => Rows /\ Held
  BY OutboxAssumption DEF Init, Rows, Held, Precedes

LEMMA NextRows ==
  ASSUME Inv1, Inv1', Rows, Held, [Next]_vars
  PROVE  Rows'
<1> USE OutboxAssumption
    DEF Inv1, TypeOK, Rows, Precedes, Fault, InsertRows, Resume,
        database, relay
<1>1. ASSUME NEW w \in Writes, Begin(w)
      PROVE  Rows'
  BY <1>1 DEF Begin
<1>2. ASSUME NEW w \in Writes, CommitTxn(w)
      PROVE  Rows'
  BY <1>2 DEF CommitTxn
<1>3. ASSUME NEW w \in Writes, FallbackWrite(w)
      PROVE  Rows'
  BY <1>3 DEF FallbackWrite
<1>4. ASSUME NEW w \in Writes, FallbackInsert(w)
      PROVE  Rows'
  BY <1>4 DEF FallbackInsert
<1>5. ASSUME NEW w \in Writes, RequestFails(w)
      PROVE  Rows'
  BY <1>5 DEF RequestFails
<1>6. ASSUME NEW r \in Relays, Fetch(r)
      PROVE  Rows'
  BY <1>6 DEF Fetch, OldestPending, Pending
<1>7. ASSUME NEW r \in Relays, Publish(r)
      PROVE  Rows'
  BY <1>7 DEF Publish
<1>8. ASSUME NEW r \in Relays, Flush(r)
      PROVE  Rows'
  BY <1>8 DEF Flush
<1>9. ASSUME NEW r \in Relays, FlushTimesOut(r)
      PROVE  Rows'
  BY <1>9 DEF FlushTimesOut
<1>10. ASSUME NEW r \in Relays, MarkPublished(r)
      PROVE  Rows'
  BY <1>10 DEF MarkPublished, Held, InHand
<1>11. ASSUME NEW r \in Relays, DrainBreaks(r)
      PROVE  Rows'
  BY <1>11 DEF DrainBreaks
<1>12. ASSUME NEW r \in Relays, QueueDelivers(r)
      PROVE  Rows'
  BY <1>12 DEF QueueDelivers
<1>13. ASSUME NEW r \in Relays, QueueExpires(r)
      PROVE  Rows'
  BY <1>13 DEF QueueExpires
<1>14. ASSUME NEW r \in Relays, RelayCrash(r)
      PROVE  Rows'
  BY <1>14 DEF RelayCrash
<1>15. ASSUME NEW r \in Relays, RelayRestart(r)
      PROVE  Rows'
  BY <1>15 DEF RelayRestart
<1>16. CASE UNCHANGED vars
  BY <1>16 DEF vars
<1> QED
  BY <1>1, <1>2, <1>3, <1>4, <1>5, <1>6, <1>7, <1>8, <1>9, <1>10, <1>11,
     <1>12, <1>13, <1>14, <1>15, <1>16
  DEF Next, Request, Drain

LEMMA NextHeld ==
  ASSUME Inv1, Inv1', Held, [Next]_vars
  PROVE  Held'
<1> USE OutboxAssumption
    DEF Inv1, TypeOK, InHand, Held, Fault, InsertRows, Resume, database, relay
<1>1. ASSUME NEW w \in Writes, Begin(w)
      PROVE  Held'
  BY <1>1 DEF Begin
<1>2. ASSUME NEW w \in Writes, CommitTxn(w)
      PROVE  Held'
  BY <1>2 DEF CommitTxn
<1>3. ASSUME NEW w \in Writes, FallbackWrite(w)
      PROVE  Held'
  BY <1>3 DEF FallbackWrite
<1>4. ASSUME NEW w \in Writes, FallbackInsert(w)
      PROVE  Held'
  BY <1>4 DEF FallbackInsert
<1>5. ASSUME NEW w \in Writes, RequestFails(w)
      PROVE  Held'
  BY <1>5 DEF RequestFails
<1>6. ASSUME NEW r \in Relays, Fetch(r)
      PROVE  Held'
  BY <1>6 DEF Fetch, OldestPending, Pending
<1>7. ASSUME NEW r \in Relays, Publish(r)
      PROVE  Held'
  BY <1>7 DEF Publish
<1>8. ASSUME NEW r \in Relays, Flush(r)
      PROVE  Held'
  BY <1>8 DEF Flush
<1>9. ASSUME NEW r \in Relays, FlushTimesOut(r)
      PROVE  Held'
  BY <1>9 DEF FlushTimesOut
<1>10. ASSUME NEW r \in Relays, MarkPublished(r)
      PROVE  Held'
  BY <1>10 DEF MarkPublished
<1>11. ASSUME NEW r \in Relays, DrainBreaks(r)
      PROVE  Held'
  BY <1>11 DEF DrainBreaks
<1>12. ASSUME NEW r \in Relays, QueueDelivers(r)
      PROVE  Held'
  BY <1>12 DEF QueueDelivers
<1>13. ASSUME NEW r \in Relays, QueueExpires(r)
      PROVE  Held'
  BY <1>13 DEF QueueExpires
<1>14. ASSUME NEW r \in Relays, RelayCrash(r)
      PROVE  Held'
  BY <1>14 DEF RelayCrash
<1>15. ASSUME NEW r \in Relays, RelayRestart(r)
      PROVE  Held'
  BY <1>15 DEF RelayRestart
<1>16. CASE UNCHANGED vars
  BY <1>16 DEF vars
<1> QED
  BY <1>1, <1>2, <1>3, <1>4, <1>5, <1>6, <1>7, <1>8, <1>9, <1>10, <1>11,
     <1>12, <1>13, <1>14, <1>15, <1>16
  DEF Next, Request, Drain


-----------------------------------------------------------------------------
(* Delivery and order.                                                      *)

\* A row is marked only once the bus has it or a flush gave up on it.
Acked ==
    /\ PublishedIsAccounted
    /\ \A r \in Relays :
          /\ rpc[r] = "flush" => entry[r] \in queue[r] \union Out
          /\ rpc[r] = "mark" => entry[r] \in Out

\* Whatever a relay holds or has queued, it has what comes before it too.
Ordered ==
    /\ \A r \in Relays : \A e \in batch[r], f \in Entries :
          Precedes(f, e) => f \in batch[r] \union Out \union {entry[r]}
    /\ \A r \in Relays : \A e \in queue[r], f \in Entries :
          Precedes(f, e) => f \in Out
    /\ \A e \in sent, f \in Entries : Precedes(f, e) => f \in Out

LEMMA InitOrdered == Init => Acked /\ Ordered
  BY OutboxAssumption DEF Init, Acked, PublishedIsAccounted, Out, Ordered

LEMMA NextAcked ==
  ASSUME Inv1, Inv1', Acked, [Next]_vars
  PROVE  Acked'
<1> USE OutboxAssumption
    DEF Inv1, TypeOK, InHand, Acked, PublishedIsAccounted, Out, Fault,
        InsertRows, Resume, database, relay
<1>1. ASSUME NEW w \in Writes, Begin(w)
      PROVE  Acked'
  BY <1>1 DEF Begin
<1>2. ASSUME NEW w \in Writes, CommitTxn(w)
      PROVE  Acked'
  BY <1>2 DEF CommitTxn
<1>3. ASSUME NEW w \in Writes, FallbackWrite(w)
      PROVE  Acked'
  BY <1>3 DEF FallbackWrite
<1>4. ASSUME NEW w \in Writes, FallbackInsert(w)
      PROVE  Acked'
  BY <1>4 DEF FallbackInsert
<1>5. ASSUME NEW w \in Writes, RequestFails(w)
      PROVE  Acked'
  BY <1>5 DEF RequestFails
<1>6. ASSUME NEW r \in Relays, Fetch(r)
      PROVE  Acked'
  BY <1>6 DEF Fetch
<1>7. ASSUME NEW r \in Relays, Publish(r)
      PROVE  Acked'
  BY <1>7 DEF Publish
<1>8. ASSUME NEW r \in Relays, Flush(r)
      PROVE  Acked'
  BY <1>8 DEF Flush
<1>9. ASSUME NEW r \in Relays, FlushTimesOut(r)
      PROVE  Acked'
  BY <1>9 DEF FlushTimesOut
<1>10. ASSUME NEW r \in Relays, MarkPublished(r)
      PROVE  Acked'
  BY <1>10 DEF MarkPublished
<1>11. ASSUME NEW r \in Relays, DrainBreaks(r)
      PROVE  Acked'
  BY <1>11 DEF DrainBreaks
<1>12. ASSUME NEW r \in Relays, QueueDelivers(r)
      PROVE  Acked'
  BY <1>12 DEF QueueDelivers
<1>13. ASSUME NEW r \in Relays, QueueExpires(r)
      PROVE  Acked'
  BY <1>13 DEF QueueExpires
<1>14. ASSUME NEW r \in Relays, RelayCrash(r)
      PROVE  Acked'
  BY <1>14 DEF RelayCrash
<1>15. ASSUME NEW r \in Relays, RelayRestart(r)
      PROVE  Acked'
  BY <1>15 DEF RelayRestart
<1>16. CASE UNCHANGED vars
  BY <1>16 DEF vars
<1> QED
  BY <1>1, <1>2, <1>3, <1>4, <1>5, <1>6, <1>7, <1>8, <1>9, <1>10, <1>11,
     <1>12, <1>13, <1>14, <1>15, <1>16
  DEF Next, Request, Drain

LEMMA NextOrdered ==
  ASSUME Inv1, Inv1', Rows, Held, Acked, Ordered,
         [Next]_vars
  PROVE  Ordered'
<1> USE DEF Inv1, TypeOK, Ordered, Out, Precedes, Fault, Resume, database,
            relay
<1> HIDE DEF Precedes
<1>1. ASSUME NEW w \in Writes, Begin(w)
      PROVE  Ordered'
  BY <1>1 DEF Begin
<1>2. ASSUME NEW w \in Writes, CommitTxn(w)
      PROVE  Ordered'
  BY <1>2 DEF CommitTxn
<1>3. ASSUME NEW w \in Writes, FallbackWrite(w)
      PROVE  Ordered'
  BY <1>3 DEF FallbackWrite
<1>4. ASSUME NEW w \in Writes, FallbackInsert(w)
      PROVE  Ordered'
  BY <1>4 DEF FallbackInsert
<1>5. ASSUME NEW w \in Writes, RequestFails(w)
      PROVE  Ordered'
  BY <1>5 DEF RequestFails
<1>6. ASSUME NEW r \in Relays, Fetch(r)
      PROVE  Ordered'
  <2>1. PICK S \in OldestPending : batch' = [batch EXCEPT ![r] = S]
    BY <1>6 DEF Fetch
  <2>2. /\ S \subseteq Pending
        /\ \A e \in S, f \in Pending \ S : createdAt[e] <= createdAt[f]
    BY <2>1 DEF OldestPending
  <2>3. ASSUME NEW e \in S, NEW f \in Entries, Precedes(f, e)
        PROVE  f \in S \union Out
    <3>1. status[e] # "none" /\ wpc[WriteOf[e]] # "idle"
      BY <2>2 DEF Pending, Rows
    <3>2. status[f] # "none" /\ createdAt[f] < createdAt[e]
      <4>1. /\ WriteOf[e] \in Writes /\ e \in Entries
            /\ WriteOf[f] \in After[WriteOf[e]] /\ WriteOf[f] \in Transactional
        BY <2>2, <2>3, OutboxAssumption DEF Pending, Precedes
      <4>2. WriteOf[f] \in visible
        BY <3>1, <4>1 DEF Rows
      <4> QED
        BY <2>3, <3>1, <4>1, <4>2 DEF Rows
    <3>3. CASE status[f] = "pending"
      BY <2>2, <3>2, <3>3 DEF Pending
    <3>4. CASE status[f] = "published"
      BY <3>4 DEF Acked, PublishedIsAccounted
    <3> QED
      BY <3>2, <3>3, <3>4
  <2>4. UNCHANGED <<sent, givenUp, queue, entry>>
    BY <1>6 DEF Fetch
  <2> QED
    BY <2>1, <2>2, <2>3, <2>4 DEF Pending
<1>7. ASSUME NEW r \in Relays, Publish(r)
      PROVE  Ordered'
  <2>1. PICK e \in batch[r] :
           /\ \A f \in batch[r] : createdAt[e] <= createdAt[f]
           /\ entry' = [entry EXCEPT ![r] = e]
           /\ batch' = [batch EXCEPT ![r] = @ \ {e}]
           /\ queue' = [queue EXCEPT ![r] = @ \union {e}]
    BY <1>7 DEF Publish
  <2>2. e \in Entries /\ wpc[WriteOf[e]] # "idle"
    BY DEF Held, Rows
  <2>3. ASSUME NEW f \in Entries, Precedes(f, e)
        PROVE  f \in Out
    <3>1. createdAt[f] < createdAt[e]
      BY <2>2, <2>3 DEF Rows
    <3>2. f \notin batch[r]
      BY <2>1, <2>2, <3>1
    <3>3. entry[r] = NoEntry
      BY <1>7 DEF InHand, Publish
    <3> QED
      BY <2>3, <3>2, <3>3, OutboxAssumption
  <2>4. UNCHANGED <<sent, givenUp>>
    BY <1>7 DEF Publish
  <2>5. \A q \in Relays : \A x \in queue'[q], f \in Entries :
           Precedes(f, x) => f \in Out'
    BY <2>1, <2>3, <2>4
  <2>6. \A q \in Relays : \A x \in batch'[q], f \in Entries :
           Precedes(f, x) => f \in batch'[q] \union Out' \union {entry'[q]}
    <3>1. entry[r] = NoEntry
      BY <1>7 DEF InHand, Publish
    <3> QED
      BY <2>1, <2>4, <3>1, OutboxAssumption
  <2> QED
    BY <2>4, <2>5, <2>6
<1>8. ASSUME NEW r \in Relays, Flush(r)
      PROVE  Ordered'
  BY <1>8 DEF Flush
<1>9. ASSUME NEW r \in Relays, FlushTimesOut(r)
      PROVE  Ordered'
  BY <1>9 DEF FlushTimesOut
<1>10. ASSUME NEW r \in Relays, MarkPublished(r)
      PROVE  Ordered'
  BY <1>10 DEF MarkPublished, Acked
<1>11. ASSUME NEW r \in Relays, DrainBreaks(r)
      PROVE  Ordered'
  BY <1>11 DEF DrainBreaks
<1>12. ASSUME NEW r \in Relays, QueueDelivers(r)
      PROVE  Ordered'
  BY <1>12 DEF QueueDelivers
<1>13. ASSUME NEW r \in Relays, QueueExpires(r)
      PROVE  Ordered'
  BY <1>13 DEF QueueExpires
<1>14. ASSUME NEW r \in Relays, RelayCrash(r)
      PROVE  Ordered'
  BY <1>14 DEF RelayCrash
<1>15. ASSUME NEW r \in Relays, RelayRestart(r)
      PROVE  Ordered'
  BY <1>15 DEF RelayRestart
<1>16. CASE UNCHANGED vars
  BY <1>16 DEF vars
<1> QED
  BY <1>1, <1>2, <1>3, <1>4, <1>5, <1>6, <1>7, <1>8, <1>9, <1>10, <1>11,
     <1>12, <1>13, <1>14, <1>15, <1>16
  DEF Next, Request, Drain

-----------------------------------------------------------------------------
\* The database, the requests and the relays keep their types.
THEOREM TypeCorrect == Spec => []TypeOK
<1>1. Inv1 => TypeOK
  BY DEF Inv1
<1> QED
  BY InitTyped, NextTyped, <1>1, PTL DEF Spec

\* A row marked published is on the bus unless a flush gave up on it.
THEOREM PublishedReachesBus == Spec => []PublishedIsAccounted
<1>1. Inv1 /\ Inv1' /\ Acked /\ [Next]_vars => Acked'
  BY NextAcked
<1>2. Acked => PublishedIsAccounted
  BY DEF Acked
<1> QED
  BY InitTyped, NextTyped, InitOrdered, <1>1, <1>2, PTL DEF Spec

\* Causally related events reach the bus in order, with any number of relays
\* crashing at any point; only a row a flush gave up on may be missing.
THEOREM CausalOrder == Spec => []SentInOrder
<1>1. Inv1 /\ Inv1' /\ Rows /\ Held /\ Acked /\ Ordered /\ [Next]_vars
        => Rows' /\ Held' /\ Acked' /\ Ordered'
  BY NextRows, NextHeld, NextAcked, NextOrdered
<1>2. Ordered => SentInOrder
  BY DEF Ordered, SentInOrder, Precedes, Out
<1> QED
  BY InitTyped, NextTyped, InitRows, InitOrdered, <1>1, <1>2, PTL DEF Spec

\* From request to bus: with any number of relays and whoever dies when, an event
\* of a visible document is a pending row or sent, unless its request had no
\* transaction and was cut off (outbox.py:62-64), or the producer gave up on it.
THEOREM NothingForgotten == Spec => []VisibleIsAccounted
<1>1. Inv1 /\ Inv1' /\ Rows /\ Held /\ Acked /\ [Next]_vars
        => Rows' /\ Held' /\ Acked'
  BY NextRows, NextHeld, NextAcked
<1>2. Inv1 /\ Rows /\ Acked => VisibleIsAccounted
  <2> SUFFICES ASSUME Inv1, Rows, Acked, NEW e \in Entries,
                      WriteOf[e] \in visible, ~CutOff(WriteOf[e])
               PROVE  status[e] = "pending" \/ e \in sent \union givenUp
    BY DEF VisibleIsAccounted
  <2>1. wpc[WriteOf[e]] = "done"
    BY OutboxAssumption DEF Inv1, TypeOK, Rows, CutOff
  <2>2. status[e] \in {"pending", "published"}
    BY <2>1 DEF Inv1, TypeOK, Rows
  <2> QED
    BY <2>2 DEF Acked, PublishedIsAccounted
<1> QED
  BY InitTyped, NextTyped, InitRows, InitOrdered, <1>1, <1>2, PTL DEF Spec

-----------------------------------------------------------------------------
(* The promise of OwedEvents.                                                *)

\* A row is inserted with its domain write or after it, which a request makes
\* once.
Written ==
    /\ \A w \in Writes : wpc[w] \in {"idle", "begun"} => w \notin visible
    /\ \A w \in Writes : wpc[w] = "written" => w \in visible
    /\ \A e \in Entries : status[e] # "none" => WriteOf[e] \in visible

LEMMA InitWritten == Init => Written
  BY DEF Init, Written

LEMMA NextWritten ==
  ASSUME Inv1, Held, Written, [Next]_vars
  PROVE  Written'
<1> USE OutboxAssumption DEF Inv1, TypeOK, Written, Fault, InsertRows, database, relay
<1>1. ASSUME NEW w \in Writes, Begin(w) \/ RequestFails(w)
      PROVE  Written'
  BY <1>1 DEF Begin, RequestFails
<1>2. ASSUME NEW w \in Writes, CommitTxn(w)
      PROVE  Written'
  BY <1>2 DEF CommitTxn
<1>3. ASSUME NEW w \in Writes, FallbackWrite(w)
      PROVE  Written'
  BY <1>3 DEF FallbackWrite
<1>4. ASSUME NEW w \in Writes, FallbackInsert(w)
      PROVE  Written'
  BY <1>4 DEF FallbackInsert
<1>5. ASSUME NEW r \in Relays, MarkPublished(r)
      PROVE  Written'
  <2>1. entry[r] \in Entries /\ status[entry[r]] # "none"
    BY <1>5 DEF MarkPublished, InHand, Held
  <2>2. status' = [status EXCEPT ![entry[r]] = "published"] /\ UNCHANGED <<visible, wpc>>
    BY <1>5 DEF MarkPublished
  <2> QED
    BY <2>1, <2>2
<1>6. ASSUME NEW r \in Relays,
             \/ Fetch(r) \/ Publish(r) \/ Flush(r) \/ FlushTimesOut(r) \/ DrainBreaks(r)
             \/ QueueDelivers(r) \/ QueueExpires(r) \/ RelayCrash(r) \/ RelayRestart(r)
      PROVE  Written'
  <2>1. UNCHANGED <<visible, wpc, status>>
    BY <1>6 DEF Fetch, Publish, Flush, FlushTimesOut, DrainBreaks, QueueDelivers,
       QueueExpires, RelayCrash, RelayRestart
  <2> QED
    BY <2>1
<1>7. CASE UNCHANGED vars
  BY <1>7 DEF vars
<1> QED
  BY <1>1, <1>2, <1>3, <1>4, <1>5, <1>6, <1>7 DEF Next, Request, Drain

\* Rows that leave a send queue for the bus are owed, or were sent before.
LEMMA QueuedAreOwed ==
  ASSUME Inv1, Held, Written, NEW r \in Relays, NEW S \in SUBSET queue[r],
         sent' = sent \union S, UNCHANGED visible
  PROVE  [Owed!Next]_(Owed!vars)
<1> DEFINE New == S \ sent
<1>1. queue[r] \in SUBSET Entries /\ WriteOf \in [Entries -> Writes]
  BY OutboxAssumption DEF Inv1, TypeOK
<1>2. New \subseteq Owed!Owed
  BY <1>1 DEF Held, Written, Owed!Owed
<1>3. CASE New = {}
  BY <1>3 DEF Owed!vars
<1>4. CASE New # {}
  <2>1. sent' = sent \union New
    OBVIOUS
  <2>2. Owed!Emit(New)
    BY <1>2, <1>4, <2>1 DEF Owed!Emit
  <2>3. New \in SUBSET Entries
    BY <1>1
  <2> QED
    BY <2>2, <2>3 DEF Owed!Next
<1> QED
  BY <1>3, <1>4

LEMMA StepOwes ==
  ASSUME Inv1, Held, Written, [Next]_vars
  PROVE  [Owed!Next]_(Owed!vars)
<1>1. ASSUME NEW w \in Writes, CommitTxn(w) \/ FallbackWrite(w)
      PROVE  [Owed!Next]_(Owed!vars)
  <2>1. w \notin visible /\ visible' = visible \union {w} /\ UNCHANGED sent
    BY <1>1 DEF CommitTxn, FallbackWrite, Written
  <2> QED
    BY <2>1 DEF Owed!Next, Owed!Write
<1>2. ASSUME NEW w \in Writes, Begin(w) \/ FallbackInsert(w) \/ RequestFails(w)
      PROVE  [Owed!Next]_(Owed!vars)
  BY <1>2 DEF Begin, FallbackInsert, RequestFails, database, Owed!vars
<1>3. ASSUME NEW r \in Relays, Flush(r)
      PROVE  [Owed!Next]_(Owed!vars)
  <2>1. sent' = sent \union queue[r] /\ UNCHANGED visible
    BY <1>3 DEF Flush, database
  <2> QED
    BY <2>1, QueuedAreOwed
<1>4. ASSUME NEW r \in Relays, QueueDelivers(r)
      PROVE  [Owed!Next]_(Owed!vars)
  <2>1. PICK e \in queue[r] : sent' = sent \union {e}
    BY <1>4 DEF QueueDelivers
  <2>2. {e} \in SUBSET queue[r] /\ UNCHANGED visible
    BY <1>4 DEF QueueDelivers, database
  <2> QED
    BY <2>1, <2>2, QueuedAreOwed
<1>5. ASSUME NEW r \in Relays,
             \/ Fetch(r) \/ Publish(r) \/ FlushTimesOut(r) \/ MarkPublished(r)
             \/ DrainBreaks(r) \/ QueueExpires(r) \/ RelayCrash(r) \/ RelayRestart(r)
      PROVE  [Owed!Next]_(Owed!vars)
  BY <1>5 DEF Fetch, Publish, FlushTimesOut, MarkPublished, DrainBreaks, QueueExpires,
     RelayCrash, RelayRestart, database, Owed!vars
<1>6. CASE UNCHANGED vars
  BY <1>6 DEF vars, Owed!vars
<1> QED
  BY <1>1, <1>2, <1>3, <1>4, <1>5, <1>6 DEF Next, Request, Drain

\* The outbox keeps the promise of OwedEvents, step by step: the bus has an
\* event only after the write it belongs to, whichever request or relay dies,
\* with and without transactions (outbox.py:50-66, outbox_relay.py:29-46).
THEOREM ImplementsOwedEvents == Spec => SendsOnlyOwed
<1>1. Init => Owed!Init
  BY DEF Init, Owed!Init
<1>2. Inv1 /\ Inv1' /\ Rows /\ Held /\ Written /\ [Next]_vars => Rows' /\ Held' /\ Written'
  BY NextRows, NextHeld, NextWritten
<1>3. Inv1 /\ Held /\ Written /\ [Next]_vars => [Owed!Next]_(Owed!vars)
  BY StepOwes
<1> QED
  BY InitTyped, NextTyped, InitRows, InitWritten, <1>1, <1>2, <1>3, PTL
  DEF Spec, SendsOnlyOwed, Owed!Spec
=============================================================================
