------------------------------ MODULE MCOutbox ------------------------------
(* Instances of Outbox for TLC: a post is created with a mention, read, and
   deleted by a request that MongoDB refuses a transaction. *)
EXTENDS Outbox, TLC

CONSTANTS createP, deleteP, pCreated, pMention, pDeleted, r1, r2

TwoWrites == {createP, deleteP}
RowsOfP == {pCreated, pMention, pDeleted}
RowWrites == (pCreated :> createP) @@ (pMention :> createP)
             @@ (pDeleted :> deleteP)
ReadsBefore == (createP :> {}) @@ (deleteP :> {createP})
CreateOnly == {createP}

OneRelay == {r1}
TwoRelays == {r1, r2}
AllFaults == FaultKinds
Crashes == {"crash"}
FlushTimeout == {"flushTimeout", "relayCrash"}
DeliveryFails == {"deliveryFails"}
Nobody == {}
=============================================================================
