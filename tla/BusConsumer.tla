---------------------------- MODULE BusConsumer ----------------------------
(***************************************************************************)
(* The shared bus consumer (libs/tinyinsta/bus/consumer.py) of one consumer *)
(* group on one partition: the poll loop with its dedupe check, bounded     *)
(* retry, dead-letter topic, mark and offset commit.  Workers are the       *)
(* processes of the group.  The partition, the group's committed offset,    *)
(* the partition assignment and the dead-letter topic belong to Redpanda    *)
(* and the client library, and are external.                                *)
(*                                                                          *)
(* Every remote call of the loop is an action of its own, so a crash or a   *)
(* rebalance may fall between any two of them.                              *)
(***************************************************************************)
EXTENDS Naturals, Sequences, FiniteSets

CONSTANTS
    Events,       \* event ids: what the dedupe store keys on
    Unreadable,   \* the messages Envelope.from_json raises on
    Workers,      \* processes of the consumer group
    NoWorker,     \* the partition is assigned to nobody
    MaxAttempts,  \* BUS_MAX_ATTEMPTS
    WithDlq,      \* the processes whose dlq_topic is not None
    Faults,       \* which of FaultKinds this environment exhibits
    MaxLog,       \* bound: messages published to the partition
    MaxFaults     \* bound: crashes, forced rebalances and lost dedupe keys

FaultKinds == {"crash", "rebalance", "dedupeLoss", "commitLost",
               "dlqDown", "dlqTimeout"}

ASSUME ConsumerAssumption ==
    /\ NoWorker \notin Workers
    /\ Unreadable \subseteq Events
    /\ MaxAttempts \in Nat \ {0}
    /\ WithDlq \subseteq Workers
    /\ Faults \subseteq FaultKinds
    /\ MaxLog \in Nat
    /\ MaxFaults \in Nat

VARIABLES
    log,        \* the partition (external)
    committed,  \* the group's committed offset: messages done with (external)
    owner,      \* the worker the partition is assigned to (external)
    dlq,        \* events stored in the topic dlq.<group> (external)
    seen,       \* event ids marked in the RedisDedupeStore
    pc,         \* where each worker stands in the loop
    position,   \* messages fetched so far; log[position[w]] is msg
    attempt,    \* the retry counter of _deliver
    dlqBuffer,  \* events produced to the DLQ and not yet acknowledged
    handled,    \* history: events some handler run completed
    dropped,    \* history: events dropped because the DLQ is disabled
    unparked,   \* history: events whose dead-lettering was not acknowledged
    reruns,     \* history: handler runs completed on an event already handled
    faults      \* crashes, forced rebalances and lost dedupe keys so far

broker == <<log, committed, owner>>
history == <<handled, dropped, unparked, reruns, faults>>
vars == <<log, committed, owner, dlq, seen, pc, position, attempt, dlqBuffer,
          handled, dropped, unparked, reruns, faults>>

Steps == {"down", "poll", "check", "handle", "deadletter", "mark", "commit"}

TypeOK ==
    /\ log \in Seq(Events)
    /\ committed \in Nat
    /\ owner \in Workers \union {NoWorker}
    /\ dlq \subseteq Events
    /\ seen \subseteq Events
    /\ pc \in [Workers -> Steps]
    /\ position \in [Workers -> Nat]
    /\ attempt \in [Workers -> 1..MaxAttempts]
    /\ dlqBuffer \in [Workers -> SUBSET Events]
    /\ handled \subseteq Events
    /\ dropped \subseteq Events
    /\ unparked \subseteq Events
    /\ reruns \in Nat
    /\ faults \in Nat

Msg(w) == log[position[w]]
Goto(w, step) == pc' = [pc EXCEPT ![w] = step]
CountFault == faults < MaxFaults /\ faults' = faults + 1

Init ==
    /\ log = << >> /\ committed = 0 /\ owner = NoWorker
    /\ dlq = {} /\ seen = {}
    /\ pc = [w \in Workers |-> "poll"]
    /\ position = [w \in Workers |-> 0]
    /\ attempt = [w \in Workers |-> 1]
    /\ dlqBuffer = [w \in Workers |-> {}]
    /\ handled = {} /\ dropped = {} /\ unparked = {}
    /\ reruns = 0 /\ faults = 0

-----------------------------------------------------------------------------
(* The environment of the loop.                                            *)

\* A producer appends.  The same event id may come twice: the outbox relay
\* publishes again after a crash, and an operator replays a dead letter.
Publish ==
    /\ Len(log) < MaxLog
    /\ \E e \in Events : log' = Append(log, e)
    /\ UNCHANGED <<committed, owner, dlq, seen, pc, position, attempt,
                   dlqBuffer, history>>

\* The coordinator gives the partition to w, which is waiting in poll() and
\* resumes from the committed offset ("auto.offset.reset": "earliest").  Taking
\* it from a live worker (a join, or max.poll.interval exceeded) is a fault.
Assign(w) ==
    /\ pc[w] = "poll" /\ owner # w
    /\ IF owner = NoWorker
       THEN UNCHANGED faults
       ELSE "rebalance" \in Faults /\ CountFault
    /\ owner' = w
    /\ position' = [position EXCEPT ![w] = committed]
    /\ UNCHANGED <<log, committed, dlq, seen, pc, attempt, dlqBuffer,
                   handled, dropped, unparked, reruns>>

\* The process dies: it is killed, or Redis or the broker raises out of run().
\* What its DLQ producer had not delivered dies with it.
Crash(w) ==
    /\ "crash" \in Faults /\ CountFault
    /\ pc[w] # "down" /\ Goto(w, "down")
    /\ owner' = IF owner = w THEN NoWorker ELSE owner
    /\ dlqBuffer' = [dlqBuffer EXCEPT ![w] = {}]
    /\ UNCHANGED <<log, committed, dlq, seen, position, attempt,
                   handled, dropped, unparked, reruns>>

Restart(w) ==
    /\ pc[w] = "down" /\ Goto(w, "poll")
    /\ UNCHANGED <<broker, dlq, seen, position, attempt, dlqBuffer, history>>

\* A dedupe key expires (ttl_seconds) or Redis loses it.
ForgetSeen ==
    /\ "dedupeLoss" \in Faults /\ CountFault
    /\ \E e \in seen : seen' = seen \ {e}
    /\ UNCHANGED <<broker, dlq, pc, position, attempt, dlqBuffer,
                   handled, dropped, unparked, reruns>>

\* The DLQ producer's thread delivers what flush() gave up waiting for, or
\* gives up on it itself (message.timeout.ms).
DlqBackground(w) ==
    /\ \E e \in dlqBuffer[w] :
          /\ dlqBuffer' = [dlqBuffer EXCEPT ![w] = @ \ {e}]
          /\ dlq' \in {dlq \union {e}, dlq}
    /\ UNCHANGED <<broker, seen, pc, position, attempt, history>>

-----------------------------------------------------------------------------
(* The loop of run().                                                      *)

Fetches(w) == pc[w] = "poll" /\ owner = w /\ position[w] < Len(log)
Fetched(w) == log[position[w] + 1]

Poll(w) ==
    /\ Fetches(w) /\ Fetched(w) \notin Unreadable
    /\ position' = [position EXCEPT ![w] = @ + 1]
    /\ Goto(w, "check")
    /\ UNCHANGED <<broker, dlq, seen, attempt, dlqBuffer, history>>

\* Envelope.from_json stands outside the try of _deliver: what it raises leaves
\* run() and ends the process, with nothing committed.  The finally clause
\* flushes the DLQ producer, which may time out again, and leaves the group.
PollRaises(w) ==
    /\ Fetches(w) /\ Fetched(w) \in Unreadable
    /\ Goto(w, "down")
    /\ owner' = NoWorker
    /\ \E S \in SUBSET dlqBuffer[w] : dlq' = dlq \union S
    /\ dlqBuffer' = [dlqBuffer EXCEPT ![w] = {}]
    /\ UNCHANGED <<log, committed, seen, position, attempt, history>>

\* dedupe.seen: an event already processed is committed without a handler run.
Check(w) ==
    /\ pc[w] = "check"
    /\ attempt' = [attempt EXCEPT ![w] = 1]
    /\ Goto(w, IF Msg(w) \in seen THEN "commit" ELSE "handle")
    /\ UNCHANGED <<broker, dlq, seen, position, dlqBuffer, history>>

HandleOk(w) ==
    /\ pc[w] = "handle"
    /\ handled' = handled \union {Msg(w)}
    /\ reruns' = IF Msg(w) \in handled THEN reruns + 1 ELSE reruns
    /\ Goto(w, "mark")
    /\ UNCHANGED <<broker, dlq, seen, position, attempt, dlqBuffer,
                   dropped, unparked, faults>>

\* Mutant: one attempt too many.
HandleFailOffByOne(w) ==
    /\ pc[w] = "handle"
    /\ IF attempt[w] <= MaxAttempts
       THEN /\ attempt' = [attempt EXCEPT ![w] = @ + 1]
            /\ UNCHANGED pc
       ELSE /\ Goto(w, "deadletter")
            /\ UNCHANGED attempt
    /\ UNCHANGED <<broker, dlq, seen, position, dlqBuffer, history>>

\* Mutant: the retry loop starts over instead of giving up.
HandleFailForever(w) ==
    /\ pc[w] = "handle"
    /\ attempt' = [attempt EXCEPT ![w] = IF @ < MaxAttempts THEN @ + 1 ELSE 1]
    /\ UNCHANGED <<broker, dlq, seen, pc, position, dlqBuffer, history>>

\* Mutant: an exhausted message is committed instead of dead-lettered.
HandleFailSkips(w) ==
    /\ pc[w] = "handle"
    /\ IF attempt[w] < MaxAttempts
       THEN /\ attempt' = [attempt EXCEPT ![w] = @ + 1]
            /\ UNCHANGED pc
       ELSE /\ Goto(w, "commit")
            /\ UNCHANGED attempt
    /\ UNCHANGED <<broker, dlq, seen, position, dlqBuffer, history>>

\* Mutant: an exhausted message is marked as processed.
HandleFailMarks(w) ==
    /\ pc[w] = "handle"
    /\ IF attempt[w] < MaxAttempts
       THEN /\ attempt' = [attempt EXCEPT ![w] = @ + 1]
            /\ UNCHANGED pc
       ELSE /\ Goto(w, "mark")
            /\ UNCHANGED attempt
    /\ UNCHANGED <<broker, dlq, seen, position, dlqBuffer, history>>

HandleFail(w) ==
    /\ pc[w] = "handle"
    /\ IF attempt[w] < MaxAttempts
       THEN /\ attempt' = [attempt EXCEPT ![w] = @ + 1]
            /\ UNCHANGED pc
       ELSE /\ Goto(w, "deadletter")
            /\ UNCHANGED attempt
    /\ UNCHANGED <<broker, dlq, seen, position, dlqBuffer, history>>

\* dlq_topic=None: the message is logged, dropped and committed.
Drop(w) ==
    /\ pc[w] = "deadletter" /\ w \notin WithDlq
    /\ dropped' = dropped \union {Msg(w)}
    /\ Goto(w, "commit")
    /\ UNCHANGED <<broker, dlq, seen, position, attempt, dlqBuffer,
                   handled, unparked, reruns, faults>>

\* produce() and flush() succeed; flush also delivers what was still queued.
DeadLetter(w) ==
    /\ pc[w] = "deadletter" /\ w \in WithDlq
    /\ dlq' = dlq \union {Msg(w)} \union dlqBuffer[w]
    /\ dlqBuffer' = [dlqBuffer EXCEPT ![w] = {}]
    /\ Goto(w, "commit")
    /\ UNCHANGED <<broker, seen, position, attempt, history>>

\* flush(5.0) runs out of time.  It returns the number of messages left and
\* raises nothing, so the message counts as dead-lettered.
DeadLetterUnflushed(w) ==
    /\ pc[w] = "deadletter" /\ w \in WithDlq /\ "dlqTimeout" \in Faults
    /\ dlqBuffer' = [dlqBuffer EXCEPT ![w] = @ \union {Msg(w)}]
    /\ unparked' = unparked \union {Msg(w)}
    /\ Goto(w, "commit")
    /\ UNCHANGED <<broker, dlq, seen, position, attempt,
                   handled, dropped, reruns, faults>>

\* produce() raises: "deferred".  Nothing is committed and the loop polls on.
Defer(w) ==
    /\ pc[w] = "deadletter" /\ w \in WithDlq /\ "dlqDown" \in Faults
    /\ unparked' = unparked \union {Msg(w)}
    /\ Goto(w, "poll")
    /\ UNCHANGED <<broker, dlq, seen, position, attempt, dlqBuffer,
                   handled, dropped, reruns, faults>>

\* Mutant: the dedupe store forgets to record the event.
MarkNothing(w) ==
    /\ pc[w] = "mark"
    /\ Goto(w, "commit")
    /\ UNCHANGED <<broker, dlq, seen, position, attempt, dlqBuffer, history>>

Mark(w) ==
    /\ pc[w] = "mark"
    /\ seen' = seen \union {Msg(w)}
    /\ Goto(w, "commit")
    /\ UNCHANGED <<broker, dlq, position, attempt, dlqBuffer, history>>

\* Mutant: the broker takes a commit from a worker it has fenced off.
CommitUnfenced(w) ==
    /\ pc[w] = "commit"
    /\ committed' = position[w]
    /\ Goto(w, "poll")
    /\ UNCHANGED <<log, owner, dlq, seen, position, attempt, dlqBuffer, history>>

\* consumer.commit(msg) is asynchronous: the broker takes it only from the
\* owner of the partition, and a lost commit is not reported to the loop.
Commit(w) ==
    /\ pc[w] = "commit"
    /\ \/ owner = w /\ committed' = position[w]
       \/ (owner # w \/ "commitLost" \in Faults) /\ UNCHANGED committed
    /\ Goto(w, "poll")
    /\ UNCHANGED <<log, owner, dlq, seen, position, attempt, dlqBuffer, history>>

Loop(w) ==
    \/ Poll(w) \/ PollRaises(w) \/ Check(w) \/ HandleOk(w) \/ HandleFail(w)
    \/ Drop(w) \/ DeadLetter(w) \/ DeadLetterUnflushed(w) \/ Defer(w)
    \/ Mark(w) \/ Commit(w)

Next ==
    \/ Publish \/ ForgetSeen
    \/ \E w \in Workers :
          Assign(w) \/ Crash(w) \/ Restart(w) \/ DlqBackground(w) \/ Loop(w)

Spec == Init /\ [][Next]_vars

\* The loop runs as long as its process does, a dead process is restarted (a
\* Kubernetes Deployment), and the coordinator assigns an orphan partition.
\* Nothing is assumed of producers, of faults, or of a handler ever succeeding.
Fairness ==
    /\ \A w \in Workers : WF_vars(Loop(w)) /\ WF_vars(Restart(w))
    /\ WF_vars(owner = NoWorker /\ \E w \in Workers : Assign(w))

FairSpec == Spec /\ Fairness

-----------------------------------------------------------------------------
Settled == handled \union dlq \union dropped

\* Settled, or given up because the dead-letter topic did not take it.
Accounted == Settled \union unparked

\* The committed offset only passes events that were handled, dead-lettered or
\* dropped on purpose, except those whose dead-lettering itself failed: neither
\* a crash between two calls of the loop, nor a fenced worker, nor a lost commit
\* makes an event vanish.
CommittedIsAccounted ==
    \A i \in 1..committed : i <= Len(log) /\ log[i] \in Accounted

\* What EVENTS.md promises when the DLQ is unreachable ("left uncommitted
\* (redelivered later) rather than lost"): a committed event was settled, or the
\* DLQ producer still holds it.
NothingLost ==
    \A i \in 1..committed :
        log[i] \in Settled \union UNION {dlqBuffer[w] : w \in Workers}

\* Only a completed handler run marks an event, so a dead-lettered event that
\* was never handled is run again when it is replayed.
MarkedWasHandled == seen \subseteq handled

\* A worker that lost the partition while it was handling a message cannot
\* move the group's offset back over what the new owner committed.
CommitNeverRegresses == [][committed' >= committed]_committed

\* A handler completes twice on one event only because of a crash, a rebalance
\* or a lost dedupe key: retries, lost commits and double publishes cost none.
RerunsNeedFaults == reruns <= faults

\* A message whose handler keeps failing does not stall the partition: whatever
\* the handlers and the dead-letter topic do, each event that was published
\* before the first unreadable message is accounted for in the end.
NoneUnreadable(n) == \A i \in 1..n : log[i] \notin Unreadable
EverythingSettles ==
    \A e \in Events :
        (\E i \in 1..Len(log) : log[i] = e /\ NoneUnreadable(i)) ~> e \in Accounted

\* What EVENTS.md promises of retry and dead-lettering ("so one poison message
\* can't stall the partition"), asked of the messages that can be read.
PoisonCannotStall ==
    \A e \in Events \ Unreadable :
        (\E i \in 1..Len(log) : log[i] = e) ~> e \in Accounted

\* The loop implements at-least-once delivery.
Delivery == INSTANCE AtLeastOnce WITH settled <- Accounted, frontier <- committed
DeliversAtLeastOnce == Delivery!Spec
=============================================================================
