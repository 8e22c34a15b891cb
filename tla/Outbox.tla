------------------------------- MODULE Outbox -------------------------------
(***************************************************************************)
(* post-svc's transactional outbox (posts/outbox.py) and its relay          *)
(* (management/commands/outbox_relay.py): requests commit a domain write    *)
(* and its outbox rows, relays publish the pending rows, oldest first, and  *)
(* mark them.  MongoDB, the producer's send queue (librdkafka) and the bus  *)
(* are external.                                                            *)
(***************************************************************************)
EXTENDS Naturals, FiniteSets

CONSTANTS
    Writes,         \* requests that write a domain document
    Entries,        \* the outbox rows they insert; an _id is an event_id
    WriteOf,        \* WriteOf[e]: the request that inserts row e
    After,          \* After[w]: requests whose document w reads beforehand
    Relays,         \* relay processes
    NoEntry,
    Transactional,  \* the requests whose transaction MongoDB accepts
    BatchSize,      \* --batch
    Faults,         \* which of FaultKinds this environment exhibits
    MaxFaults       \* bound: crashes and failing calls

FaultKinds == {"crash", "relayCrash", "error", "flushTimeout", "deliveryFails"}

ASSUME OutboxAssumption ==
    /\ WriteOf \in [Entries -> Writes]
    /\ After \in [Writes -> SUBSET Writes]
    /\ NoEntry \notin Entries
    /\ Transactional \subseteq Writes
    /\ BatchSize \in Nat \ {0}
    /\ Faults \subseteq FaultKinds
    /\ MaxFaults \in Nat
    /\ IsFiniteSet(Entries)

VARIABLES
    visible,    \* the requests whose domain write is in the database
    status,     \* "none" (no such row), "pending" or "published"
    createdAt,  \* the rows' created_at
    clock,      \* the clock _new_entry reads
    wpc,        \* where each request stands in write_atomically
    rpc,        \* where each relay stands in _drain
    batch,      \* the rows of fetch_pending a relay has still to publish
    entry,      \* the row it is publishing
    queue,      \* rows in the relay's send queue, not yet acknowledged
    sent,       \* rows the bus has stored
    givenUp,    \* history: rows a flush or the send queue gave up on
    faults      \* crashes and failing calls so far

database == <<visible, status, createdAt, clock>>
relay == <<rpc, batch, entry, queue>>
vars == <<visible, status, createdAt, clock, wpc, rpc, batch, entry, queue,
          sent, givenUp, faults>>

TypeOK ==
    /\ visible \subseteq Writes
    /\ status \in [Entries -> {"none", "pending", "published"}]
    /\ createdAt \in [Entries -> Nat]
    /\ clock \in Nat
    /\ wpc \in [Writes -> {"idle", "begun", "written", "done", "failed"}]
    /\ rpc \in [Relays -> {"idle", "publish", "flush", "mark", "down"}]
    /\ batch \in [Relays -> SUBSET Entries]
    /\ entry \in [Relays -> Entries \union {NoEntry}]
    /\ queue \in [Relays -> SUBSET Entries]
    /\ sent \subseteq Entries
    /\ givenUp \subseteq Entries
    /\ faults \in Nat

RowsOf(w) == {e \in Entries : WriteOf[e] = w}
Fault(kind) == kind \in Faults /\ faults < MaxFaults /\ faults' = faults + 1

Init ==
    /\ visible = {} /\ clock = 0
    /\ status = [e \in Entries |-> "none"]
    /\ createdAt = [e \in Entries |-> 0]
    /\ wpc = [w \in Writes |-> "idle"]
    /\ rpc = [r \in Relays |-> "idle"]
    /\ batch = [r \in Relays |-> {}]
    /\ entry = [r \in Relays |-> NoEntry]
    /\ queue = [r \in Relays |-> {}]
    /\ sent = {} /\ givenUp = {} /\ faults = 0

-----------------------------------------------------------------------------
(* write_atomically, called by the views of post-svc.                      *)

\* The view found the documents it needs, and the rows are stamped before the
\* transaction starts.
Begin(w) ==
    /\ wpc[w] = "idle" /\ After[w] \subseteq visible
    /\ clock' = clock + 1
    /\ createdAt' = [e \in Entries |->
                        IF WriteOf[e] = w THEN clock ELSE createdAt[e]]
    /\ wpc' = [wpc EXCEPT ![w] = "begun"]
    /\ UNCHANGED <<visible, status, relay, sent, givenUp, faults>>

InsertRows(w) ==
    status' = [e \in Entries |-> IF WriteOf[e] = w THEN "pending" ELSE status[e]]

\* Domain write and rows in one transaction.
CommitTxn(w) ==
    /\ w \in Transactional /\ wpc[w] = "begun"
    /\ visible' = visible \union {w}
    /\ InsertRows(w)
    /\ wpc' = [wpc EXCEPT ![w] = "done"]
    /\ UNCHANGED <<createdAt, clock, relay, sent, givenUp, faults>>

\* Mutant: the fallback inserts the rows before the domain write.
FallbackWriteLate(w) ==
    /\ w \notin Transactional /\ wpc[w] = "begun"
    /\ InsertRows(w)
    /\ wpc' = [wpc EXCEPT ![w] = "written"]
    /\ UNCHANGED <<visible, createdAt, clock, relay, sent, givenUp, faults>>

\* A standalone MongoDB refuses the transaction: domain_write(None), ...
FallbackWrite(w) ==
    /\ w \notin Transactional /\ wpc[w] = "begun"
    /\ visible' = visible \union {w}
    /\ wpc' = [wpc EXCEPT ![w] = "written"]
    /\ UNCHANGED <<status, createdAt, clock, relay, sent, givenUp, faults>>

\* ... and then the rows.
FallbackInsert(w) ==
    /\ wpc[w] = "written"
    /\ InsertRows(w)
    /\ wpc' = [wpc EXCEPT ![w] = "done"]
    /\ UNCHANGED <<visible, createdAt, clock, relay, sent, givenUp, faults>>

\* The transaction aborts (a write conflict, an error) or the process dies.
RequestFails(w) ==
    /\ Fault("crash")
    /\ wpc[w] \in {"begun", "written"}
    /\ wpc' = [wpc EXCEPT ![w] = "failed"]
    /\ UNCHANGED <<database, relay, sent, givenUp>>

-----------------------------------------------------------------------------
(* The relay: handle() and _drain().                                       *)

Pending == {e \in Entries : status[e] = "pending"}

\* The rows fetch_pending may return: the BatchSize oldest, ties in any order.
OldestPending ==
    {S \in SUBSET Pending :
        /\ Cardinality(S) =
              IF Cardinality(Pending) < BatchSize THEN Cardinality(Pending)
                                                  ELSE BatchSize
        /\ \A e \in S, f \in Pending \ S : createdAt[e] <= createdAt[f]}

\* Mutant: fetch_pending does not sort.
FetchUnsorted(r) ==
    /\ rpc[r] = "idle" /\ Pending # {}
    /\ \E e \in Pending : batch' = [batch EXCEPT ![r] = {e}]
    /\ rpc' = [rpc EXCEPT ![r] = "publish"]
    /\ UNCHANGED <<database, wpc, entry, queue, sent, givenUp, faults>>

Fetch(r) ==
    /\ rpc[r] = "idle" /\ Pending # {}
    /\ \E S \in OldestPending : batch' = [batch EXCEPT ![r] = S]
    /\ rpc' = [rpc EXCEPT ![r] = "publish"]
    /\ UNCHANGED <<database, wpc, entry, queue, sent, givenUp, faults>>

\* producer.publish: the next row of the batch enters the send queue.
Publish(r) ==
    /\ rpc[r] = "publish"
    /\ \E e \in batch[r] :
          /\ \A f \in batch[r] : createdAt[e] <= createdAt[f]
          /\ entry' = [entry EXCEPT ![r] = e]
          /\ batch' = [batch EXCEPT ![r] = @ \ {e}]
          /\ queue' = [queue EXCEPT ![r] = @ \union {e}]
    /\ rpc' = [rpc EXCEPT ![r] = "flush"]
    /\ UNCHANGED <<database, wpc, sent, givenUp, faults>>

\* Mutant: flush() returns without waiting for the broker.
FlushAtOnce(r) ==
    /\ rpc[r] = "flush"
    /\ rpc' = [rpc EXCEPT ![r] = "mark"]
    /\ UNCHANGED <<database, wpc, batch, entry, queue, sent, givenUp, faults>>

\* flush() returns once the bus has stored the whole queue.
Flush(r) ==
    /\ rpc[r] = "flush"
    /\ sent' = sent \union queue[r]
    /\ queue' = [queue EXCEPT ![r] = {}]
    /\ rpc' = [rpc EXCEPT ![r] = "mark"]
    /\ UNCHANGED <<database, wpc, batch, entry, givenUp, faults>>

\* flush(5.0) runs out of time: it raises nothing, and the row stays queued.
FlushTimesOut(r) ==
    /\ rpc[r] = "flush" /\ "flushTimeout" \in Faults
    /\ givenUp' = givenUp \union queue[r]
    /\ rpc' = [rpc EXCEPT ![r] = "mark"]
    /\ UNCHANGED <<database, wpc, batch, entry, queue, sent, faults>>

Resume(r) ==
    rpc' = [rpc EXCEPT ![r] = IF batch[r] = {} THEN "idle" ELSE "publish"]

\* Mutant: the relay writes a status fetch_pending does not know.
MarkSent(r) ==
    /\ rpc[r] = "mark"
    /\ status' = [status EXCEPT ![entry[r]] = "sent"]
    /\ entry' = [entry EXCEPT ![r] = NoEntry]
    /\ Resume(r)
    /\ UNCHANGED <<visible, createdAt, clock, wpc, batch, queue, sent, givenUp,
                   faults>>

\* Mutant: a drained batch is marked as a whole, whatever became of its rows.
MarkBatch(r) ==
    /\ rpc[r] = "mark"
    /\ status' = [e \in Entries |->
                    IF e = entry[r] \/ e \in batch[r] THEN "published" ELSE status[e]]
    /\ entry' = [entry EXCEPT ![r] = NoEntry]
    /\ batch' = [batch EXCEPT ![r] = {}]
    /\ rpc' = [rpc EXCEPT ![r] = "idle"]
    /\ UNCHANGED <<visible, createdAt, clock, wpc, queue, sent, givenUp, faults>>

MarkPublished(r) ==
    /\ rpc[r] = "mark"
    /\ status' = [status EXCEPT ![entry[r]] = "published"]
    /\ entry' = [entry EXCEPT ![r] = NoEntry]
    /\ Resume(r)
    /\ UNCHANGED <<visible, createdAt, clock, wpc, batch, queue, sent, givenUp,
                   faults>>

\* Mutant: the relay goes on with the batch after a failing row.
DrainContinues(r) ==
    /\ Fault("error")
    /\ rpc[r] \in {"publish", "mark"} /\ batch[r] # {}
    /\ rpc' = [rpc EXCEPT ![r] = "publish"]
    /\ \E e \in batch[r] : batch' = [batch EXCEPT ![r] = @ \ {e}]
    /\ UNCHANGED <<database, wpc, entry, queue, sent, givenUp>>

\* publish() or mark_published() raises: the batch is given up.
DrainBreaks(r) ==
    /\ Fault("error")
    /\ rpc[r] \in {"publish", "mark"}
    /\ rpc' = [rpc EXCEPT ![r] = "idle"]
    /\ batch' = [batch EXCEPT ![r] = {}]
    /\ entry' = [entry EXCEPT ![r] = NoEntry]
    /\ UNCHANGED <<database, wpc, queue, sent, givenUp>>

\* The send queue's own thread delivers a row, or gives up on it.
QueueDelivers(r) ==
    /\ \E e \in queue[r] :
          /\ queue' = [queue EXCEPT ![r] = @ \ {e}]
          /\ sent' = sent \union {e}
    /\ UNCHANGED <<database, wpc, rpc, batch, entry, givenUp, faults>>

\* Nobody hears of it: publish() passes no delivery callback, and to flush() a
\* row that failed is a row that has left the queue.
QueueExpires(r) ==
    /\ "deliveryFails" \in Faults
    /\ \E e \in queue[r] :
          /\ queue' = [queue EXCEPT ![r] = @ \ {e}]
          /\ givenUp' = givenUp \union {e}
    /\ UNCHANGED <<database, wpc, rpc, batch, entry, sent, faults>>

\* The relay dies, and its send queue with it.
RelayCrash(r) ==
    /\ Fault("relayCrash")
    /\ rpc[r] # "down"
    /\ rpc' = [rpc EXCEPT ![r] = "down"]
    /\ batch' = [batch EXCEPT ![r] = {}]
    /\ entry' = [entry EXCEPT ![r] = NoEntry]
    /\ queue' = [queue EXCEPT ![r] = {}]
    /\ UNCHANGED <<database, wpc, sent, givenUp>>

RelayRestart(r) ==
    /\ rpc[r] = "down"
    /\ rpc' = [rpc EXCEPT ![r] = "idle"]
    /\ UNCHANGED <<database, wpc, batch, entry, queue, sent, givenUp, faults>>

Request(w) ==
    \/ Begin(w) \/ CommitTxn(w) \/ FallbackWrite(w) \/ FallbackInsert(w)
    \/ RequestFails(w)

Drain(r) ==
    Fetch(r) \/ Publish(r) \/ Flush(r) \/ FlushTimesOut(r) \/ MarkPublished(r)

Next ==
    \/ \E w \in Writes : Request(w)
    \/ \E r \in Relays :
          \/ Drain(r) \/ DrainBreaks(r) \/ QueueDelivers(r) \/ QueueExpires(r)
          \/ RelayCrash(r) \/ RelayRestart(r)

Spec == Init /\ [][Next]_vars

\* The relay's loop runs for ever and a dead relay is restarted; nothing is
\* assumed of requests, of failures, or of the send queue's thread.
Fairness == \A r \in Relays : WF_vars(Drain(r)) /\ WF_vars(RelayRestart(r))

FairSpec == Spec /\ Fairness

-----------------------------------------------------------------------------
\* No reader ever sees a document whose events are not at least rows of the
\* outbox, once its request is done or dead: "a post is never visible without its
\* fan-out event (no dual-write loss)" (docs/EVENTS.md).
VisibleHasRows ==
    \A e \in Entries :
        WriteOf[e] \in visible /\ wpc[WriteOf[e]] # "written" => status[e] # "none"

\* A request without a transaction that stands between its two writes, or died.
CutOff(w) == w \notin Transactional /\ wpc[w] \in {"written", "failed"}

\* From the request to the bus, an event of a visible document is lost in two
\* ways only: its request had no transaction and was cut off, or a flush or the
\* send queue gave up on its row.  Until it is sent, the relays still find it.
VisibleIsAccounted ==
    \A e \in Entries : WriteOf[e] \in visible =>
        status[e] = "pending" \/ e \in sent \union givenUp \/ CutOff(WriteOf[e])

\* A row marked published reached the bus, or the send queue still holds it.
PublishedWasSent ==
    \A e \in Entries : status[e] = "published" =>
        e \in sent \union UNION {queue[r] : r \in Relays}

\* The relay marks no row before the bus has it, unless a flush gave up on it.
PublishedIsAccounted ==
    \A e \in Entries : status[e] = "published" => e \in sent \union givenUp

\* The events of a transactional request reach the bus before those of the
\* requests that read its document (a post is read before it is deleted), although
\* they travel on different topics; only a row a flush gave up on may be missing.
\* Of a request without a transaction nothing is said: its rows come after its
\* document, so one that reads it may be announced first.
SentInOrder ==
    \A e \in sent : \A f \in Entries :
        /\ WriteOf[f] \in After[WriteOf[e]]
        /\ WriteOf[f] \in Transactional
        => f \in sent \union givenUp

\* A row of the outbox reaches the bus in the end, whatever relays do with it
\* and with the rows before it.
EveryRowSent ==
    \A e \in Entries : status[e] # "none" ~> e \in sent \union givenUp

\* The outbox implements the promise of OwedEvents.
Owed == INSTANCE OwedEvents
SendsOnlyOwed == Owed!Spec
=============================================================================
