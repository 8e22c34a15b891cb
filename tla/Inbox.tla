------------------------------- MODULE Inbox -------------------------------
(***************************************************************************)
(* The messages page (frontend/app/messages/page.tsx).  Selecting a          *)
(* conversation loads its thread, live messages are appended to the open     *)
(* one, and the answer of a send is appended to whatever is open by then.    *)
(* Messages are numbered as messaging-svc stores them.                       *)
(***************************************************************************)
EXTENDS Fetch, Integers, FiniteSets, SequencesExt

CONSTANTS
    Conversations,
    MaxMessages,        \* bound: what the user and the peers do during one visit
    PageSize            \* how many messages a thread is loaded with (30)

PageAssumption == PageSize \in Nat \ {0}

VARIABLE inbox

Null == 0
Numbers == 1..MaxMessages
Slots == {1, 2}     \* bound: loads, and sends, in flight
Selection == Conversations \union {Null}

TypeOK ==
    /\ inbox.selected \in Selection
    /\ inbox.messages \in Seq(Numbers)
    /\ \A c \in Conversations : inbox.stored[c] \in Seq(Numbers)
    /\ inbox.last \in [Conversations -> {0} \union Numbers]
    /\ \A s \in Slots :
          /\ inbox.load[s].at \in Calls /\ inbox.load[s].items \in Seq(Numbers)
          /\ inbox.send[s].at \in Calls /\ inbox.send[s].message \in {0} \union Numbers
          /\ inbox.load[s].of \in Selection /\ inbox.send[s].of \in Selection
    /\ inbox.start \in [at : Calls, of : Selection]
    /\ inbox.pushes \in Seq([of : Conversations, message : Numbers])
    /\ inbox.acts \in 0..MaxMessages
    /\ inbox.overlapped \in BOOLEAN /\ inbox.failed \in BOOLEAN

NoLoad == [at |-> "idle", of |-> Null, items |-> <<>>]
NoSend == [at |-> "idle", of |-> Null, message |-> 0]

\* The inbox is listed; ?to= may ask for a conversation to be started.  One of
\* the conversations has messages from before.
Init == \E c \in Selection, old \in Conversations, n \in 0..MaxMessages : inbox = [
    selected |-> Null, messages |-> <<>>,
    stored |-> [d \in Conversations |-> IF d = old THEN [j \in 1..n |-> j] ELSE <<>>],
    last |-> [d \in Conversations |-> IF d = old THEN n ELSE 0],
    load |-> [s \in Slots |-> NoLoad], send |-> [s \in Slots |-> NoSend],
    start |-> [at |-> IF c = Null THEN "idle" ELSE "sent", of |-> c],
    pushes |-> <<>>, acts |-> n, overlapped |-> FALSE, failed |-> FALSE]

Arrived(call) == call.at \in Ends

Loading == \E s \in Slots : inbox.load[s].at # "idle"
Sending == \E s \in Slots : inbox.send[s].at # "idle"

Act == inbox.acts < MaxMessages
Stored == inbox.acts + 1    \* the number of the next message
-----------------------------------------------------------------------------
\* Another selection has its thread loaded; nothing in flight is cancelled.
Selected(i, c) ==
    LET j == [i EXCEPT !.selected = c, !.overlapped = @ \/ Loading \/ Sending] IN
    IF c = Null THEN {j}
    ELSE {[j EXCEPT !.load[s] = [at |-> "sent", of |-> c, items |-> <<>>]] :
             s \in {t \in Slots : j.load[t].at = "idle"}}

\* A click in the list, or Back.
Select == \E c \in Selection \ {inbox.selected} :
    /\ Act /\ inbox' \in Selected([inbox EXCEPT !.acts = @ + 1], c)

ServeStart == \E end \in Ends :
    /\ inbox.start.at = "sent"
    /\ inbox' = [inbox EXCEPT !.start.at = end, !.failed = @ \/ end # "ok"]

Started ==
    /\ Arrived(inbox.start)
    /\ LET i == [inbox EXCEPT !.start.at = "idle"] IN
       IF inbox.start.at = "ok" /\ inbox.selected # inbox.start.of
       THEN inbox' \in Selected(i, inbox.start.of) ELSE inbox' = i

\* messaging-svc answers with the newest page; the page asks for no other.
NewestPage(thread) ==
    SubSeq(thread, IF Len(thread) <= PageSize THEN 1 ELSE Len(thread) - PageSize + 1, Len(thread))

\* A push older than the page is still on its way.
PushedLate(c, page) == \E k \in DOMAIN inbox.pushes :
    inbox.pushes[k].of = c /\ ~Contains(page, inbox.pushes[k].message)

ServeLoad == \E s \in Slots, end \in Ends :
    LET c == inbox.load[s].of
        page == NewestPage(inbox.stored[c]) IN
    /\ inbox.load[s].at = "sent"
    /\ inbox' = [inbox EXCEPT !.load[s].at = end, !.failed = @ \/ end # "ok",
                   !.overlapped = @ \/ PushedLate(c, page),
                   !.load[s].items = IF end = "ok" THEN page ELSE <<>>]

\* An answer that is not ok empties the thread.
Loaded == \E s \in Slots :
    /\ Arrived(inbox.load[s])
    /\ inbox' = [inbox EXCEPT !.load[s] = NoLoad,
                   !.messages = IF inbox.load[s].at = "lost" THEN @ ELSE inbox.load[s].items]
-----------------------------------------------------------------------------
\* A peer writes; the message is pushed.
Receive == \E c \in Conversations :
    /\ Act
    /\ inbox' = [inbox EXCEPT !.acts = @ + 1, !.stored[c] = Append(@, Stored),
                   !.pushes = Append(@, [of |-> c, message |-> Stored])]

\* Mutant: a message that is already there is appended again.
PushedTwice ==
    /\ inbox.pushes # <<>>
    /\ LET m == Head(inbox.pushes) IN
       inbox' = [inbox EXCEPT !.pushes = Tail(@), !.last[m.of] = m.message,
                   !.overlapped = @ \/ Loading,
                   !.messages = IF m.of # inbox.selected THEN @ ELSE Append(@, m.message)]

Pushed ==
    /\ inbox.pushes # <<>>
    /\ LET m == Head(inbox.pushes) IN
       inbox' = [inbox EXCEPT !.pushes = Tail(@), !.last[m.of] = m.message,
                   !.overlapped = @ \/ Loading,
                   !.messages = IF m.of # inbox.selected \/ Contains(@, m.message)
                                THEN @ ELSE Append(@, m.message)]

\* Lost while the socket is down.
PushLost ==
    /\ inbox.pushes # <<>>
    /\ inbox' = [inbox EXCEPT !.pushes = Tail(@), !.failed = TRUE]

\* The draft is emptied at once, so the next send has a text of its own.
Send == \E s \in Slots :
    /\ Act /\ inbox.selected # Null /\ inbox.send[s].at = "idle"
    /\ inbox' = [inbox EXCEPT !.acts = @ + 1, !.overlapped = @ \/ Loading,
                   !.send[s] = [at |-> "sent", of |-> inbox.selected, message |-> Stored]]

ServeSend == \E s \in Slots, end \in Ends : \E done \in Effects(end) :
    /\ inbox.send[s].at = "sent"
    /\ LET c == inbox.send[s].of IN
       inbox' = [inbox EXCEPT !.send[s].at = end, !.failed = @ \/ end # "ok",
                   !.stored[c] = IF done THEN Append(@, inbox.send[s].message) ELSE @]

\* Appended to the open thread.
SendAnswered == \E s \in Slots :
    /\ Arrived(inbox.send[s])
    /\ LET m == inbox.send[s]
           i == [inbox EXCEPT !.send[s] = NoSend] IN
       inbox' = IF m.at # "ok" THEN i
                ELSE [i EXCEPT !.messages = Append(@, m.message), !.last[m.of] = m.message]
-----------------------------------------------------------------------------
Progress == ServeStart \/ Started \/ ServeLoad \/ Loaded \/ Pushed \/ ServeSend \/ SendAnswered

Next == Select \/ Receive \/ PushLost \/ Send \/ Progress

Spec == Init /\ [][Next]_inbox

Quiet == ~Loading /\ ~Sending /\ inbox.pushes = <<>> /\ inbox.start.at = "idle"

\* A thread at rest has the newest messages of its conversation, a page of them
\* and those that came since, each of them once, and no others, whichever of load,
\* push and answer came first; unless a call or push was lost, or one of them
\* overlapped with a load, or a push older than the page came after it, or the
\* user left the thread meanwhile.
ThreadAgrees ==
    Quiet /\ ~inbox.failed /\ ~inbox.overlapped /\ inbox.selected # Null =>
        LET thread == inbox.stored[inbox.selected]
            left == Len(thread) - Len(inbox.messages) IN
        /\ left = 0 \/ (left > 0 /\ Len(inbox.messages) >= PageSize)
        /\ ToSet(inbox.messages) = {thread[i] : i \in left + 1..Len(thread)}
=============================================================================
