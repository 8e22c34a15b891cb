--------------------------- MODULE Notifications ---------------------------
(***************************************************************************)
(* useNotifications (frontend/lib/use-realtime.ts): a list that is read once *)
(* and then fed by pushes, kept twice at the same time, by the badge of the  *)
(* side bar and by the notifications page.                                   *)
(***************************************************************************)
EXTENDS Fetch, Sequences, Integers, FiniteSets

CONSTANTS
    MaxNotes,       \* bound: notifications made during the visit
    NoteLimit       \* how many of them a list is read with (50)

LimitAssumption == NoteLimit \in Nat \ {0}

VARIABLE notes

Hooks == {"badge", "page"}
Ids == 0..MaxNotes      \* 0 was there before the visit
Item == [id : Ids, read : BOOLEAN]
Pending == {"sent", "counted"} \union Ends

TypeOK ==
    /\ notes \in [rows : SUBSET Ids, sRead : SUBSET Ids,
                  push : Seq(Ids), reads : SUBSET Ids, failed : BOOLEAN,
                  hook : [Hooks -> [call : {"away", "idle"} \union Pending,
                                    snapshot : SUBSET Item, count : Nat,
                                    items : Seq(Item), unread : Nat,
                                    raced : BOOLEAN]]]
    /\ \A h \in Hooks : Len(notes.hook[h].items) <= 2 * Cardinality(Ids)

\* The badge is mounted with the page frame and reads at once.
Init == notes = [
    rows |-> {0}, sRead |-> {}, push |-> <<>>, reads |-> {}, failed |-> FALSE,
    hook |-> [h \in Hooks |-> [call |-> IF h = "badge" THEN "sent" ELSE "away",
                               snapshot |-> {}, count |-> 0, items |-> <<>>,
                               unread |-> 0, raced |-> FALSE]]]

Visit ==
    /\ notes.hook["page"].call = "away"
    /\ notes' = [notes EXCEPT !.hook["page"].call = "sent",
                   !.hook["page"].raced = (notes.push # <<>>)]

\* The rows change while a list is being read.
Raced == [h \in Hooks |-> [notes.hook[h] EXCEPT !.raced =
                            @ \/ notes.hook[h].call \in Pending]]

\* realtime-svc makes the row and then sends it.
Notify ==
    /\ Cardinality(notes.rows) <= MaxNotes
    /\ LET id == Cardinality(notes.rows) IN
       notes' = [notes EXCEPT !.rows = @ \union {id}, !.push = Append(@, id),
                   !.hook = Raced]

\* The view counts all unread rows first, and reads the newest rows later.
ServeCount == \E h \in Hooks :
    /\ notes.hook[h].call = "sent"
    /\ notes' = [notes EXCEPT !.hook[h].call = "counted",
                   !.hook[h].count = Cardinality(notes.rows \ notes.sRead)]

Newest(rows) == {id \in rows : id + NoteLimit >= Cardinality(rows)}

ServeItems == \E h \in Hooks : \E end \in Ends :
    /\ notes.hook[h].call = "counted"
    /\ notes' = [notes EXCEPT !.hook[h].call = end, !.failed = @ \/ end # "ok",
                   !.hook[h].snapshot = {[id |-> id, read |-> id \in notes.sRead] :
                                          id \in Newest(notes.rows)}]

NewestFirst(items) ==
    CHOOSE s \in [1..Cardinality(items) -> items] :
        \A i, j \in DOMAIN s : i < j => s[i].id > s[j].id

\* What was pushed before the answer is overwritten by it.
Loaded == \E h \in Hooks :
    LET hook == notes.hook[h] IN
    /\ hook.call \in Ends
    /\ notes' = IF hook.call = "ok"
                THEN [notes EXCEPT !.hook[h] =
                        [hook EXCEPT !.call = "idle", !.unread = hook.count,
                           !.items = NewestFirst(hook.snapshot), !.snapshot = {}]]
                ELSE [notes EXCEPT !.hook[h].call = "idle", !.hook[h].snapshot = {}]

\* Every mounted hook is told, and none looks whether it has the item.
Pushed ==
    /\ notes.push # <<>>
    /\ LET item == [id |-> Head(notes.push), read |-> FALSE] IN
       notes' = [notes EXCEPT !.push = Tail(@),
                   !.hook = [h \in Hooks |->
                     IF notes.hook[h].call = "away" THEN notes.hook[h]
                     ELSE [notes.hook[h] EXCEPT !.items = <<item>> \o @, !.unread = @ + 1]]]

\* The socket was down: nothing is sent again.
PushLost ==
    /\ notes.push # <<>>
    /\ notes' = [notes EXCEPT !.push = Tail(@), !.failed = TRUE]

\* Mutant: the counter has no floor.
MarkedBelow(id) ==
    [notes EXCEPT !.reads = @ \union {id}, !.hook["page"].unread = @ - 1,
       !.hook["page"].items =
         [i \in DOMAIN @ |-> IF @[i].id = id THEN [@[i] EXCEPT !.read = TRUE] ELSE @[i]]]

Marked(id) ==
    [notes EXCEPT !.reads = @ \union {id},
       !.hook["page"].unread = IF @ = 0 THEN 0 ELSE @ - 1,
       !.hook["page"].items =
         [i \in DOMAIN @ |-> IF @[i].id = id THEN [@[i] EXCEPT !.read = TRUE] ELSE @[i]]]

\* Mutant: an item may be marked that is read already.
MarkReadAgain == \E i \in DOMAIN notes.hook["page"].items :
    notes' = Marked(notes.hook["page"].items[i].id)

\* The badge is not told.
MarkRead == \E i \in DOMAIN notes.hook["page"].items :
    /\ ~notes.hook["page"].items[i].read
    /\ notes' = Marked(notes.hook["page"].items[i].id)

\* Nobody waits for the answer.
ServeRead == \E id \in notes.reads : \E end \in Ends : \E done \in Effects(end) :
    notes' = [notes EXCEPT !.reads = @ \ {id}, !.failed = @ \/ end # "ok",
                !.sRead = IF done THEN @ \union {id} ELSE @,
                !.hook = IF done THEN Raced ELSE @]
-----------------------------------------------------------------------------
Use == Visit \/ Notify \/ PushLost \/ MarkRead

Progress == ServeCount \/ ServeItems \/ Loaded \/ Pushed \/ ServeRead

Next == Use \/ Progress

Spec == Init /\ [][Next]_notes

Quiet == /\ notes.push = <<>> /\ notes.reads = {}
         /\ \A h \in Hooks : notes.hook[h].call \notin Pending

Unread(items) == Cardinality({i \in DOMAIN items : ~items[i].read})

\* A list at rest has the newest notifications of the user once each, a page of
\* them at least if there are as many; its counter counts the unread ones and,
\* if older ones are left out, what is unread of those; the page and the service
\* agree on which are read and how many are not; unless a call or a push failed,
\* or a notification was made or marked while the list was being read (then it
\* may be missing, doubled or miscounted).
UnreadCountsItems ==
    Quiet /\ ~notes.failed => \A h \in Hooks :
        LET hook == notes.hook[h]
            left == Cardinality(notes.rows) - Len(hook.items) IN
        hook.call = "idle" /\ ~hook.raced =>
            /\ {hook.items[i].id : i \in DOMAIN hook.items} = {id \in notes.rows : id >= left}
            /\ left = 0 \/ (left > 0 /\ Len(hook.items) >= NoteLimit)
            /\ hook.unread >= Unread(hook.items)
            /\ left = 0 => hook.unread = Unread(hook.items)
            /\ h = "page" =>
                  /\ hook.unread = Cardinality(notes.rows \ notes.sRead)
                  /\ \A i \in DOMAIN hook.items :
                        hook.items[i].read <=> hook.items[i].id \in notes.sRead
=============================================================================
