----------------------------- MODULE Messaging -----------------------------
(***************************************************************************)
(* One conversation of messaging-svc (services/messaging-svc/messaging/      *)
(* cql.py, views.py): a message is inserted into the conversation and then   *)
(* into the two inboxes, without a batch, and then it is told to realtime-   *)
(* svc, best effort.                                                         *)
(***************************************************************************)
EXTENDS Naturals, Sequences, FiniteSets

CONSTANTS
    Users,      \* the two members of the conversation
    Requests,   \* bound: sends in flight
    MaxActs     \* bound: messages sent

MemberAssumption ==
    MaxActs \in Nat /\ \E a, b \in Users : a # b /\ Users = {a, b}

VARIABLE chat

None == 0
Messages == 1..MaxActs

\* A message is numbered in the order of its id.  torn is history: sends ran
\* side by side, or one broke off, and no send has run alone since.
TypeOK == chat \in [
    messages : SUBSET Messages, inbox : [Users -> {None} \union Messages],
    send : [Requests -> [at : {"idle", "message", "own", "peer", "publish"},
                         sender : Users, message : {None} \union Messages]],
    bus : Seq(Messages), torn : BOOLEAN, acts : 0..MaxActs]

Idle == [at |-> "idle", sender |-> CHOOSE u \in Users : TRUE, message |-> None]

Init == chat = [messages |-> {}, inbox |-> [u \in Users |-> None],
                send |-> [r \in Requests |-> Idle], bus |-> <<>>,
                torn |-> FALSE, acts |-> 0]

Peer(user) == CHOOSE u \in Users : u # user

Sending == \E r \in Requests : chat.send[r].at # "idle"
-----------------------------------------------------------------------------
Send(r) == \E user \in Users :
    /\ chat.acts < MaxActs /\ chat.send[r].at = "idle"
    /\ chat' = [chat EXCEPT !.acts = @ + 1, !.torn = Sending,
                  !.send[r] = [at |-> "message", sender |-> user, message |-> chat.acts + 1]]

InsertMessage(r) ==
    /\ chat.send[r].at = "message"
    /\ chat' = [chat EXCEPT !.send[r].at = "own", !.messages = @ \union {chat.send[r].message}]

\* The row of the sender, then that of the recipient: an upsert.
UpsertOwn(r) ==
    /\ chat.send[r].at = "own"
    /\ chat' = [chat EXCEPT !.send[r].at = "peer",
                  !.inbox[chat.send[r].sender] = chat.send[r].message]

\* Mutant: the loop writes the sender's row twice.
UpsertSame(r) ==
    /\ chat.send[r].at = "peer"
    /\ chat' = [chat EXCEPT !.send[r].at = "publish",
                  !.inbox[chat.send[r].sender] = chat.send[r].message]

UpsertPeer(r) ==
    /\ chat.send[r].at = "peer"
    /\ chat' = [chat EXCEPT !.send[r].at = "publish",
                  !.inbox[Peer(chat.send[r].sender)] = chat.send[r].message]

\* What the bus does not take is logged and forgotten.
Publish(r) ==
    /\ chat.send[r].at = "publish"
    /\ \/ chat' = [chat EXCEPT !.send[r] = Idle, !.bus = Append(@, chat.send[r].message)]
       \/ chat' = [chat EXCEPT !.send[r] = Idle]

\* An insert fails: the request ends with an error, what is written stays.
Fail(r) ==
    /\ chat.send[r].at \in {"message", "own", "peer"}
    /\ chat' = [chat EXCEPT !.send[r] = Idle, !.torn = TRUE]
-----------------------------------------------------------------------------
Next == \E r \in Requests :
    Send(r) \/ InsertMessage(r) \/ UpsertOwn(r) \/ UpsertPeer(r) \/ Publish(r) \/ Fail(r)

Spec == Init /\ [][Next]_chat
-----------------------------------------------------------------------------
\* Between sends, both inboxes show the newest message of the conversation,
\* unless sends ran side by side or one broke off between its inserts.
InboxesAgree ==
    ~Sending /\ ~chat.torn => \A user \in Users :
        /\ chat.inbox[user] \in chat.messages \union {None}
        /\ \A m \in chat.messages : m <= chat.inbox[user]
=============================================================================
