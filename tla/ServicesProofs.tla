--------------------------- MODULE ServicesProofs ---------------------------
(***************************************************************************)
(* Proofs about Services, for any users, requests in flight, media and posts *)
(* and any number of requests.  What StoryFeedProofs proves of user-svc and  *)
(* stories-svc holds of them beside the other services; every other group    *)
(* has an invariant of its own here (ChatInv, IndexInv, ...), and the        *)
(* invariant of the whole is that of the group that is looked at.            *)
(***************************************************************************)
EXTENDS Services, Sequences, FiniteSetTheorems, TLAPS

-----------------------------------------------------------------------------
(* users/views.py and stories/views.py.  Feed is the module of that proof    *)
(* over the variables of Services; its StoryFeed and the one Services calls  *)
(* Stories say the same.                                                     *)

Feed == INSTANCE StoryFeedProofs
        WITH graph <- source, stories <- copy, MaxActs <- MaxActs["stories"]

\* Both instances start in the same states ...
LEMMA SameInit == Stories!Init <=> Feed!Init
  BY DEF Stories!Kinds, Feed!Kinds, Stories!Pairs, Feed!Pairs,
       Stories!Edges, Feed!Edges, Stories!NoEdge, Feed!NoEdge,
       Stories!Idle, Feed!Idle, Stories!GraphInit, Feed!GraphInit,
       Stories!Init, Feed!Init

\* ... and take the same steps.
LEMMA SameNext == Stories!Next <=> Feed!Next
  BY DEF Stories!Kinds, Feed!Kinds, Stories!Pairs, Feed!Pairs,
       Stories!Reversed, Feed!Reversed, Stories!Edges, Feed!Edges,
       Stories!NoEdge, Feed!NoEdge, Stories!Event, Feed!Event,
       Stories!Events, Feed!Events, Stories!Idle, Feed!Idle,
       Stories!Act, Feed!Act, Stories!Acted, Feed!Acted,
       Stories!BlocksEither, Feed!BlocksEither,
       Stories!Telling, Feed!Telling, Stories!Says, Feed!Says,
       Stories!News, Feed!News, Stories!CheckBlocks, Feed!CheckBlocks,
       Stories!Write, Feed!Write, Stories!Remove, Feed!Remove,
       Stories!ToldOf, Feed!ToldOf, Stories!Told, Feed!Told,
       Stories!Checked, Feed!Checked, Stories!Block, Feed!Block,
       Stories!Unblock, Feed!Unblock, Stories!Publish, Feed!Publish,
       Stories!Respond, Feed!Respond, Stories!GraphNext, Feed!GraphNext,
       Stories!Audiences, Feed!Audiences, Stories!Story, Feed!Story,
       Stories!Post, Feed!Post, Stories!MarkActive, Feed!MarkActive,
       Stories!Alive, Feed!Alive, Stories!Expire, Feed!Expire,
       Stories!MarkerExpires, Feed!MarkerExpires,
       Stories!Consume, Feed!Consume, Stories!DeadLetter, Feed!DeadLetter,
       Stories!Next, Feed!Next

\* What Services assumes of its constants is what the proof of the group needs.
LEMMA Bounded == Feed!GraphAssumption
  BY ServicesAssumption DEF Feed!GraphAssumption, Groups
-----------------------------------------------------------------------------
(* messaging/cql.py: a send that runs alone and to its end repairs whatever  *)
(* torn sends left; the strengthening says what it has achieved at each of   *)
(* its inserts.                                                              *)

LEMMA ChatGiven == Chat!MemberAssumption
  BY GroupAssumption

ChatSendRow == [at : {"idle", "message", "own", "peer", "publish"},
            sender : Users, message : {Chat!None} \union Chat!Messages]

\* The peer is the other member, so that a user and the peer are all there is.
LEMMA ChatPeerIs ==
  ASSUME Chat!MemberAssumption, NEW user \in Users
  PROVE  Chat!Peer(user) \in Users \ {user} /\ \A u \in Users : u = user \/ u = Chat!Peer(user)
<1>1. PICK a, b : a # b /\ Users = {a, b}
  BY DEF Chat!MemberAssumption
<1>2. \E u \in Users : u # user
  BY <1>1
<1>3. Chat!Peer(user) \in Users /\ Chat!Peer(user) # user
  BY <1>2 DEF Chat!Peer
<1> QED
  BY <1>1, <1>3

LEMMA ChatIdleTyped == Chat!MemberAssumption => Chat!Idle \in ChatSendRow
  BY DEF Chat!MemberAssumption, Chat!Idle, ChatSendRow

\* Every message on its way has the number of a send that was made.
ChatNumbered ==
    /\ \A m \in source.messages : m <= source.acts
    /\ \A r \in Requests : source.send[r].at # "idle" =>
          source.send[r].message \in 1..source.acts

\* While nothing is torn, one send runs at most.
ChatAlone ==
    ~source.torn => \A r, q \in Requests :
        source.send[r].at # "idle" /\ source.send[q].at # "idle" => r = q

\* What the send that runs alone has achieved.
ChatAchieved ==
    ~source.torn => \A r \in Requests :
        LET send == source.send[r] IN
        /\ send.at # "idle" => \A m \in source.messages : m <= send.message
        /\ send.at \in {"own", "peer", "publish"} => send.message \in source.messages
        /\ send.at \in {"peer", "publish"} => source.inbox[send.sender] = send.message
        /\ send.at = "publish" => source.inbox[Chat!Peer(send.sender)] = send.message

ChatInv == Chat!TypeOK /\ ChatNumbered /\ ChatAlone /\ ChatAchieved /\ Chat!InboxesAgree

LEMMA ChatEmptyTyped == <<>> \in Seq(Chat!Messages)
  OBVIOUS

LEMMA ChatInitInv == Chat!MemberAssumption /\ Chat!Init => ChatInv
<1> SUFFICES ASSUME Chat!MemberAssumption, Chat!Init PROVE ChatInv
  OBVIOUS
<1>0. Chat!Idle \in ChatSendRow
  BY ChatIdleTyped
<1>1. 0 \in 0..MaxActs["chat"]
  BY DEF Chat!MemberAssumption
<1>2. Chat!TypeOK
  BY <1>0, <1>1, ChatEmptyTyped DEF Chat!Init, Chat!TypeOK, ChatSendRow, Chat!None
<1>3. \A r \in Requests : source.send[r].at = "idle"
  BY DEF Chat!Init, Chat!Idle
<1> QED
  BY <1>2, <1>3 DEF Chat!Init, ChatInv, ChatNumbered, ChatAlone, ChatAchieved,
     Chat!InboxesAgree

\* A step of one send, and what it leaves of the others.
LEMMA ChatNextTyped ==
  ASSUME Chat!MemberAssumption, ChatInv, Chat!Next
  PROVE  Chat!TypeOK'
<1> DEFINE With(r, q) == [source.send EXCEPT ![r] = q]
<1>0. source.send \in [Requests -> ChatSendRow]
  BY DEF ChatInv, Chat!TypeOK, ChatSendRow
<1>1. \A r \in Requests, q \in ChatSendRow : With(r, q) \in [Requests -> ChatSendRow]
  BY <1>0
<1>2. ASSUME NEW r \in Requests, Chat!Send(r) PROVE Chat!TypeOK'
  <2>1. PICK user \in Users :
          /\ source.acts < MaxActs["chat"]
          /\ source' = [source EXCEPT !.acts = @ + 1, !.torn = Chat!Sending,
                  !.send[r] = [at |-> "message", sender |-> user, message |-> source.acts + 1]]
    BY <1>2 DEF Chat!Send
  <2> DEFINE q == [at |-> "message", sender |-> user, message |-> source.acts + 1]
             acts == source.acts + 1
  <2>2. acts \in 0..MaxActs["chat"] /\ acts \in Chat!Messages
    BY <2>1 DEF ChatInv, Chat!TypeOK, Chat!MemberAssumption, Chat!Messages
  <2>3. With(r, q) \in [Requests -> ChatSendRow]
    BY <1>1, <2>2 DEF ChatSendRow
  <2>4. Chat!Sending \in BOOLEAN
    BY DEF Chat!Sending
  <2>5. source' = [source EXCEPT !.acts = acts, !.torn = Chat!Sending, !.send = With(r, q)]
    BY <2>1
  <2> HIDE DEF With, acts
  <2> QED
    BY <2>2, <2>3, <2>4, <2>5 DEF ChatInv, Chat!TypeOK, ChatSendRow
<1>3. ASSUME NEW r \in Requests, Chat!InsertMessage(r) PROVE Chat!TypeOK'
  <2> DEFINE q == [source.send[r] EXCEPT !.at = "own"]
             messages == source.messages \union {source.send[r].message}
  <2>1. source.send[r] \in ChatSendRow /\ source.send[r].message \in Chat!Messages
    BY <1>0, <1>3 DEF Chat!InsertMessage, ChatInv, ChatNumbered, Chat!TypeOK,
       Chat!MemberAssumption, Chat!Messages
  <2>2. With(r, q) \in [Requests -> ChatSendRow] /\ messages \in SUBSET Chat!Messages
    BY <1>1, <2>1 DEF ChatSendRow, ChatInv, Chat!TypeOK
  <2>3. source' = [source EXCEPT !.messages = messages, !.send = With(r, q)]
    BY <1>3 DEF Chat!InsertMessage, ChatInv, Chat!TypeOK
  <2> HIDE DEF With, messages
  <2> QED
    BY <2>2, <2>3 DEF ChatInv, Chat!TypeOK, ChatSendRow
<1>4. ASSUME NEW r \in Requests, Chat!UpsertOwn(r) \/ Chat!UpsertPeer(r) PROVE Chat!TypeOK'
  <2> DEFINE own == [source.send[r] EXCEPT !.at = "peer"]
             peer == [source.send[r] EXCEPT !.at = "publish"]
             m == source.send[r].message
             Entered(user) == [source.inbox EXCEPT ![user] = m]
  <2>1. source.send[r] \in ChatSendRow
    BY <1>0
  <2>2. /\ With(r, own) \in [Requests -> ChatSendRow] /\ With(r, peer) \in [Requests -> ChatSendRow]
    BY <1>1, <2>1 DEF ChatSendRow
  <2>3. \A user \in Users : Entered(user) \in [Users -> {Chat!None} \union Chat!Messages]
    BY <2>1 DEF ChatSendRow, ChatInv, Chat!TypeOK
  <2>4. source.send[r].sender \in Users /\ Chat!Peer(source.send[r].sender) \in Users
    BY <2>1, ChatPeerIs DEF ChatSendRow
  <2>5. \/ source' = [source EXCEPT !.send = With(r, own), !.inbox = Entered(source.send[r].sender)]
        \/ source' = [source EXCEPT !.send = With(r, peer), !.inbox = Entered(Chat!Peer(source.send[r].sender))]
    BY <1>4 DEF Chat!UpsertOwn, Chat!UpsertPeer, ChatInv, Chat!TypeOK
  <2> HIDE DEF With, Entered
  <2> QED
    BY <2>2, <2>3, <2>4, <2>5 DEF ChatInv, Chat!TypeOK, ChatSendRow
<1>5. ASSUME NEW r \in Requests, Chat!Publish(r) \/ Chat!Fail(r) PROVE Chat!TypeOK'
  <2> DEFINE bus == Append(source.bus, source.send[r].message)
  <2>1. With(r, Chat!Idle) \in [Requests -> ChatSendRow]
    BY <1>1, ChatIdleTyped
  <2>2. source.send[r].message \in Chat!Messages
    BY <1>0, <1>5 DEF Chat!Publish, Chat!Fail, ChatInv, ChatNumbered, Chat!TypeOK,
       Chat!MemberAssumption, Chat!Messages
  <2>3. bus \in Seq(Chat!Messages)
    BY <2>2 DEF ChatInv, Chat!TypeOK
  <2>4. \/ source' = [source EXCEPT !.send = With(r, Chat!Idle), !.bus = bus]
        \/ source' = [source EXCEPT !.send = With(r, Chat!Idle)]
        \/ source' = [source EXCEPT !.send = With(r, Chat!Idle), !.torn = TRUE]
    BY <1>5 DEF Chat!Publish, Chat!Fail, ChatInv, Chat!TypeOK
  <2> HIDE DEF With, bus
  <2> QED
    BY <2>1, <2>3, <2>4 DEF ChatInv, Chat!TypeOK, ChatSendRow
<1> QED
  BY <1>2, <1>3, <1>4, <1>5 DEF Chat!Next

LEMMA ChatStepInv ==
  ASSUME Chat!MemberAssumption, ChatInv, Chat!Next
  PROVE  ChatInv'
<1>0. source.send \in [Requests -> ChatSendRow] /\ Chat!TypeOK'
  BY ChatNextTyped DEF ChatInv, Chat!TypeOK, ChatSendRow
<1>a. source.acts \in Nat /\ source.messages \subseteq Nat /\ source.messages \subseteq Chat!Messages
  BY DEF ChatInv, Chat!TypeOK, Chat!MemberAssumption, Chat!Messages
<1>2. ASSUME NEW r \in Requests, Chat!Send(r) PROVE ChatInv'
  <2>1. PICK user \in Users :
          source' = [source EXCEPT !.acts = @ + 1, !.torn = Chat!Sending,
                  !.send[r] = [at |-> "message", sender |-> user, message |-> source.acts + 1]]
    BY <1>2 DEF Chat!Send
  <2>2. /\ source'.acts = source.acts + 1 /\ source'.torn = Chat!Sending
        /\ source'.messages = source.messages /\ source'.inbox = source.inbox
    BY <2>1 DEF ChatInv, Chat!TypeOK
  <2>3. ASSUME NEW q \in Requests
        PROVE  source'.send[q] = IF q = r THEN [at |-> "message", sender |-> user,
                                              message |-> source.acts + 1]
                               ELSE source.send[q]
    BY <1>0, <2>1 DEF ChatInv, Chat!TypeOK
  <2>4. ChatNumbered'
    BY <1>a, <2>2, <2>3 DEF ChatInv, ChatNumbered
  <2>5. ~source'.torn => \A q \in Requests : q = r \/ source'.send[q].at = "idle"
    BY <2>2, <2>3 DEF Chat!Sending
  <2>6. ChatAlone'
    BY <2>5 DEF ChatAlone
  <2>7. ChatAchieved'
    BY <1>a, <2>2, <2>3, <2>5 DEF ChatInv, ChatNumbered, ChatAchieved
  <2>8. Chat!InboxesAgree'
    BY <2>3 DEF Chat!InboxesAgree, Chat!Sending
  <2> QED
    BY <1>0, <2>4, <2>6, <2>7, <2>8 DEF ChatInv
<1>3. ASSUME NEW r \in Requests, Chat!InsertMessage(r) PROVE ChatInv'
  <2>1. /\ source.send[r].at = "message" /\ source'.acts = source.acts /\ source'.torn = source.torn
        /\ source'.messages = source.messages \union {source.send[r].message}
        /\ source'.inbox = source.inbox
    BY <1>3 DEF Chat!InsertMessage, ChatInv, Chat!TypeOK
  <2>2. ASSUME NEW q \in Requests
        PROVE  /\ source'.send[q].sender = source.send[q].sender
               /\ source'.send[q].message = source.send[q].message
               /\ source'.send[q].at = IF q = r THEN "own" ELSE source.send[q].at
    BY <1>0, <1>3 DEF Chat!InsertMessage, ChatInv, Chat!TypeOK, ChatSendRow
  <2>3. ChatNumbered'
    BY <1>a, <2>1, <2>2 DEF ChatInv, ChatNumbered
  <2>4. ChatAlone'
    BY <2>1, <2>2 DEF ChatInv, ChatAlone
  <2>5. ChatAchieved'
    <3> SUFFICES ASSUME ~source.torn, NEW q \in Requests, source'.send[q].at # "idle"
                 PROVE  /\ q = r
                        /\ \A m \in source'.messages : m <= source'.send[q].message
                        /\ source'.send[q].message \in source'.messages
      BY <2>1, <2>2 DEF ChatAchieved
    <3>1. q = r
      BY <2>1, <2>2 DEF ChatInv, ChatAlone
    <3>2. source.send[r].message \in Nat
      BY <1>a, <2>1 DEF ChatInv, ChatNumbered
    <3> QED
      BY <1>a, <2>1, <2>2, <3>1, <3>2 DEF ChatInv, ChatAchieved
  <2>6. Chat!InboxesAgree'
    BY <2>2 DEF Chat!InboxesAgree, Chat!Sending
  <2> QED
    BY <1>0, <2>3, <2>4, <2>5, <2>6 DEF ChatInv
<1>4. ASSUME NEW r \in Requests, Chat!UpsertOwn(r) PROVE ChatInv'
  <2>1. /\ source.send[r].at = "own" /\ source'.acts = source.acts /\ source'.torn = source.torn
        /\ source'.messages = source.messages
        /\ source'.inbox = [source.inbox EXCEPT ![source.send[r].sender] = source.send[r].message]
    BY <1>4 DEF Chat!UpsertOwn, ChatInv, Chat!TypeOK
  <2>2. ASSUME NEW q \in Requests
        PROVE  /\ source'.send[q].sender = source.send[q].sender
               /\ source'.send[q].message = source.send[q].message
               /\ source'.send[q].at = IF q = r THEN "peer" ELSE source.send[q].at
    BY <1>0, <1>4 DEF Chat!UpsertOwn, ChatInv, Chat!TypeOK, ChatSendRow
  <2>3. source.send[r].sender \in Users
    BY <1>0 DEF ChatSendRow
  <2>4. source'.inbox[source.send[r].sender] = source.send[r].message
    BY <2>1, <2>3 DEF ChatInv, Chat!TypeOK
  <2>5. ChatNumbered'
    BY <2>1, <2>2 DEF ChatInv, ChatNumbered
  <2>6. ChatAlone'
    BY <2>1, <2>2 DEF ChatInv, ChatAlone
  <2>7. ChatAchieved'
    <3> SUFFICES ASSUME ~source.torn, NEW q \in Requests, source'.send[q].at # "idle"
                 PROVE  /\ q = r
                        /\ \A m \in source'.messages : m <= source'.send[q].message
                        /\ source'.send[q].message \in source'.messages
                        /\ source'.inbox[source'.send[q].sender] = source'.send[q].message
      BY <2>1, <2>2 DEF ChatAchieved
    <3>1. q = r
      BY <2>1, <2>2 DEF ChatInv, ChatAlone
    <3> QED
      BY <2>1, <2>2, <2>4, <3>1 DEF ChatInv, ChatAchieved
  <2>8. Chat!InboxesAgree'
    BY <2>2 DEF Chat!InboxesAgree, Chat!Sending
  <2> QED
    BY <1>0, <2>5, <2>6, <2>7, <2>8 DEF ChatInv
<1>5. ASSUME NEW r \in Requests, Chat!UpsertPeer(r) PROVE ChatInv'
  <2>1. /\ source.send[r].at = "peer" /\ source'.acts = source.acts /\ source'.torn = source.torn
        /\ source'.messages = source.messages
        /\ source'.inbox = [source.inbox EXCEPT ![Chat!Peer(source.send[r].sender)] = source.send[r].message]
    BY <1>5 DEF Chat!UpsertPeer, ChatInv, Chat!TypeOK
  <2>2. ASSUME NEW q \in Requests
        PROVE  /\ source'.send[q].sender = source.send[q].sender
               /\ source'.send[q].message = source.send[q].message
               /\ source'.send[q].at = IF q = r THEN "publish" ELSE source.send[q].at
    BY <1>0, <1>5 DEF Chat!UpsertPeer, ChatInv, Chat!TypeOK, ChatSendRow
  <2>3. source.send[r].sender \in Users /\ Chat!Peer(source.send[r].sender) \in Users \ {source.send[r].sender}
    BY <1>0, ChatPeerIs DEF ChatSendRow
  <2>4. /\ source'.inbox[Chat!Peer(source.send[r].sender)] = source.send[r].message
        /\ source'.inbox[source.send[r].sender] = source.inbox[source.send[r].sender]
    BY <2>1, <2>3 DEF ChatInv, Chat!TypeOK
  <2>5. ChatNumbered'
    BY <2>1, <2>2 DEF ChatInv, ChatNumbered
  <2>6. ChatAlone'
    BY <2>1, <2>2 DEF ChatInv, ChatAlone
  <2>7. ChatAchieved'
    <3> SUFFICES ASSUME ~source.torn, NEW q \in Requests, source'.send[q].at # "idle"
                 PROVE  /\ q = r
                        /\ \A m \in source'.messages : m <= source'.send[q].message
                        /\ source'.send[q].message \in source'.messages
                        /\ source'.inbox[source'.send[q].sender] = source'.send[q].message
                        /\ source'.inbox[Chat!Peer(source'.send[q].sender)] = source'.send[q].message
      BY <2>1, <2>2 DEF ChatAchieved, Chat!Peer
    <3>1. q = r
      BY <2>1, <2>2 DEF ChatInv, ChatAlone
    <3> QED
      BY <2>1, <2>2, <2>4, <3>1 DEF ChatInv, ChatAchieved
  <2>8. Chat!InboxesAgree'
    BY <2>2 DEF Chat!InboxesAgree, Chat!Sending
  <2> QED
    BY <1>0, <2>5, <2>6, <2>7, <2>8 DEF ChatInv
<1>6. ASSUME NEW r \in Requests, Chat!Publish(r) \/ Chat!Fail(r) PROVE ChatInv'
  <2>1. /\ source'.acts = source.acts /\ source'.messages = source.messages
        /\ source'.inbox = source.inbox
        /\ source.torn => source'.torn
        /\ ~source'.torn => source.send[r].at = "publish"
    BY <1>6 DEF Chat!Publish, Chat!Fail, ChatInv, Chat!TypeOK
  <2>2. ASSUME NEW q \in Requests
        PROVE  source'.send[q] = IF q = r THEN Chat!Idle ELSE source.send[q]
    BY <1>0, <1>6 DEF Chat!Publish, Chat!Fail, ChatInv, Chat!TypeOK
  <2>3. Chat!Idle.at = "idle"
    BY DEF Chat!Idle
  <2>4. ChatNumbered'
    BY <2>1, <2>2, <2>3 DEF ChatInv, ChatNumbered
  <2>5. ChatAlone'
    BY <2>1, <2>2, <2>3 DEF ChatInv, ChatAlone
  <2>6. ChatAchieved'
    BY <2>1, <2>2, <2>3 DEF ChatInv, ChatAchieved, Chat!Peer
  <2>7. Chat!InboxesAgree'
    <3> SUFFICES ASSUME ~source'.torn, NEW user \in Users
                 PROVE  /\ source.inbox[user] \in source.messages
                        /\ \A m \in source.messages : m <= source.inbox[user]
      BY <2>1 DEF Chat!InboxesAgree
    <3>1. source.send[r].sender \in Users
      BY <1>0 DEF ChatSendRow
    <3>2. source.inbox[user] = source.send[r].message
      BY <2>1, <3>1, ChatPeerIs DEF ChatInv, ChatAchieved
    <3> QED
      BY <2>1, <3>2 DEF ChatInv, ChatAchieved
  <2> QED
    BY <1>0, <2>4, <2>5, <2>6, <2>7 DEF ChatInv
<1> QED
  BY <1>2, <1>3, <1>4, <1>5, <1>6 DEF Chat!Next

LEMMA ChatNextInv == ChatInv /\ [Chat!Next]_source => ChatInv'
<1>1. ChatInv /\ UNCHANGED source => ChatInv'
  BY DEF ChatInv, Chat!TypeOK, ChatNumbered, ChatAlone, ChatAchieved, Chat!InboxesAgree,
     Chat!Sending, Chat!Peer
<1> QED
  BY <1>1, ChatGiven, ChatStepInv

LEMMA ChatInvTyped == ChatInv => Chat!TypeOK
  BY DEF ChatInv

LEMMA ChatInvAgrees == ChatInv => Chat!InboxesAgree
  BY DEF ChatInv

-----------------------------------------------------------------------------
(* search/index.py: the index has a name or a post, or news of it is on its  *)
(* way, and the news on its way is true of the posts it is about.            *)

LEMMA IndexGiven == MaxActs["search"] \in Nat
  BY ServicesAssumption DEF Groups

IndexRecipients(topic) == IF topic = "user.created" THEN Users ELSE Posts

IndexCatalog == [
    name : [Users -> Index!Names], provisioning : SUBSET Users,
    live : SUBSET Posts, used : SUBSET Posts, bus : [Index!Topics -> Seq(Users \union Posts)],
    lost : SUBSET (Users \union Posts), crossed : SUBSET Posts, acts : 0..MaxActs["search"]]

\* News of x is on its way.
IndexComing(c, topic, x) == \E i \in DOMAIN c.bus[topic] : c.bus[topic][i] = x

\* What is on its way has the topic of its kind.
IndexAddressed(c) ==
    \A topic \in Index!Topics : \A i \in 1..Len(c.bus[topic]) :
        c.bus[topic][i] \in IndexRecipients(topic)

\* A user who has a profile is in the index, or will be.
IndexUserComes(c, x) ==
    \A u \in Users :
        /\ x.name[u] \in {"none", "first"}
        /\ c.name[u] = "none" =>
              /\ u \notin c.provisioning /\ ~IndexComing(c, "user.created", u)
              /\ x.name[u] = "none"
        /\ c.name[u] # "none" /\ u \notin c.lost =>
              u \in c.provisioning \/ IndexComing(c, "user.created", u) \/ x.name[u] = "first"

\* The news of a post is true of it, and without news the index is right.
IndexPostComes(c, x) ==
    \A p \in Posts \ (c.lost \union c.crossed) :
        /\ p \in c.live => p \in c.used
        /\ p \notin c.used =>
              /\ ~IndexComing(c, "post.created", p) /\ ~IndexComing(c, "post.deleted", p)
              /\ p \notin x.posts
        /\ p \in c.live =>
              /\ ~IndexComing(c, "post.deleted", p)
              /\ IndexComing(c, "post.created", p) \/ p \in x.posts
        /\ p \in c.used \ c.live =>
              /\ ~IndexComing(c, "post.created", p)
              /\ IndexComing(c, "post.deleted", p) \/ p \notin x.posts

IndexGood(c, x) ==
    /\ c \in IndexCatalog /\ x \in [name : [Users -> Index!Names], posts : SUBSET Posts]
    /\ IndexAddressed(c) /\ IndexUserComes(c, x) /\ IndexPostComes(c, x)

IndexInv == IndexGood(source, copy)

LEMMA IndexInvTyped == IndexInv => Index!TypeOK
  BY DEF IndexInv, IndexGood, IndexCatalog, Index!TypeOK

LEMMA IndexInvAgrees == IndexInv => Index!IndexAgrees
  BY DEF IndexInv, IndexGood, IndexUserComes, IndexPostComes, Index!IndexAgrees,
     IndexComing, Index!Topics,
         IndexCatalog, Index!Names

LEMMA IndexInitInv == Index!Init => IndexInv
<1> SUFFICES ASSUME Index!Init PROVE IndexInv
  OBVIOUS
<1>1. /\ \A topic \in Index!Topics : source.bus[topic] = <<>>
      /\ source.name = Index!Nobody /\ copy.name = Index!Nobody /\ copy.posts = {}
      /\ source.live = {} /\ source.used = {} /\ source.provisioning = {}
  BY DEF Index!Init
<1>2. \A topic \in Index!Topics : \A x : ~IndexComing(source, topic, x)
  BY <1>1 DEF IndexComing
<1>3. 0 \in 0..MaxActs["search"] /\ Index!Nobody \in [Users -> Index!Names] /\ <<>> \in Seq(Users \union Posts)
  BY IndexGiven DEF Index!Nobody, Index!Names
<1>4. source \in IndexCatalog /\ copy \in [name : [Users -> Index!Names], posts : SUBSET Posts]
  BY <1>3 DEF Index!Init, IndexCatalog
<1>5. IndexAddressed(source)
  BY <1>1 DEF IndexAddressed
<1>6. IndexUserComes(source, copy) /\ IndexPostComes(source, copy)
  BY <1>1, <1>2 DEF IndexUserComes, IndexPostComes, Index!Nobody, Index!Topics
<1> QED
  BY <1>4, <1>5, <1>6 DEF IndexInv, IndexGood

\* What an event appended to a topic, or taken from its head, leaves coming.
LEMMA IndexEmitIs ==
  ASSUME NEW c \in IndexCatalog, NEW topic \in Index!Topics, NEW what \in Users \union Posts
  PROVE  LET d == Index!Emit(c, topic, what) IN
         /\ d \in IndexCatalog
         /\ d.name = c.name /\ d.provisioning = c.provisioning /\ d.live = c.live
         /\ d.used = c.used /\ d.lost = c.lost /\ d.crossed = c.crossed /\ d.acts = c.acts
         /\ \A t \in Index!Topics : \A x : IndexComing(d, t, x) <=> IndexComing(c, t, x) \/ (t = topic /\ x = what)
         /\ IndexAddressed(c) /\ what \in IndexRecipients(topic) => IndexAddressed(d)
<1> DEFINE d == Index!Emit(c, topic, what)
           q == Append(c.bus[topic], what)
<1>1. c.bus[topic] \in Seq(Users \union Posts) /\ c.bus \in [Index!Topics -> Seq(Users \union Posts)]
  BY DEF IndexCatalog
<1>2. /\ q \in Seq(Users \union Posts) /\ Len(q) = Len(c.bus[topic]) + 1
      /\ \A i \in 1..Len(c.bus[topic]) : q[i] = c.bus[topic][i]
      /\ q[Len(c.bus[topic]) + 1] = what
  BY <1>1
<1>3. d = [c EXCEPT !.bus = [c.bus EXCEPT ![topic] = q]]
  BY DEF Index!Emit, IndexCatalog
<1> HIDE DEF q
<1>4. [c.bus EXCEPT ![topic] = q] \in [Index!Topics -> Seq(Users \union Posts)]
  BY <1>1, <1>2
<1>5. /\ d \in IndexCatalog
      /\ d.name = c.name /\ d.provisioning = c.provisioning /\ d.live = c.live
      /\ d.used = c.used /\ d.lost = c.lost /\ d.crossed = c.crossed /\ d.acts = c.acts
      /\ d.bus = [c.bus EXCEPT ![topic] = q]
  BY <1>3, <1>4 DEF IndexCatalog
<1> HIDE DEF d
<1>6. \A t \in Index!Topics : d.bus[t] = IF t = topic THEN q ELSE c.bus[t]
  BY <1>1, <1>5
<1>7. ASSUME NEW t \in Index!Topics, NEW x
      PROVE  IndexComing(d, t, x) <=> IndexComing(c, t, x) \/ (t = topic /\ x = what)
  <2>1. CASE t # topic
    BY <1>6, <2>1 DEF IndexComing
  <2>2. CASE t = topic
    <3>1. DOMAIN q = 1..Len(q) /\ DOMAIN c.bus[topic] = 1..Len(c.bus[topic])
      BY <1>1, <1>2
    <3>2. Len(c.bus[topic]) \in Nat
      BY <1>1
    <3>3. IndexComing(d, t, x) <=> \E i \in 1..(Len(c.bus[topic]) + 1) : q[i] = x
      BY <1>2, <1>6, <2>2, <3>1 DEF IndexComing
    <3>4. IndexComing(c, t, x) <=> \E i \in 1..Len(c.bus[topic]) : q[i] = x
      BY <1>2, <2>2, <3>1 DEF IndexComing
    <3> QED
      BY <1>2, <2>2, <3>2, <3>3, <3>4
  <2> QED
    BY <2>1, <2>2
<1>8. IndexAddressed(c) /\ what \in IndexRecipients(topic) => IndexAddressed(d)
  <2> SUFFICES ASSUME IndexAddressed(c), what \in IndexRecipients(topic),
                      NEW t \in Index!Topics, NEW i \in 1..Len(d.bus[t])
               PROVE  d.bus[t][i] \in IndexRecipients(t)
    BY DEF IndexAddressed
  <2>1. CASE t # topic
    BY <1>6, <2>1 DEF IndexAddressed
  <2>2. CASE t = topic
    BY <1>1, <1>2, <1>6, <2>2 DEF IndexAddressed
  <2> QED
    BY <2>1, <2>2
<1> QED
  BY <1>5, <1>7, <1>8 DEF d

LEMMA IndexTakenIs ==
  ASSUME NEW c \in IndexCatalog, NEW topic \in Index!Topics, c.bus[topic] # <<>>,
         IndexAddressed(c)
  PROVE  LET d == [c EXCEPT !.bus[topic] = Tail(@)] IN
         /\ d \in IndexCatalog
         /\ d.name = c.name /\ d.provisioning = c.provisioning /\ d.live = c.live
         /\ d.used = c.used /\ d.lost = c.lost /\ d.crossed = c.crossed /\ d.acts = c.acts
         /\ \A t \in Index!Topics : \A x : IndexComing(d, t, x) => IndexComing(c, t, x)
         /\ \A t \in Index!Topics : \A x : IndexComing(c, t, x) =>
               IndexComing(d, t, x) \/ (t = topic /\ x = Head(c.bus[topic]))
         /\ IndexComing(c, topic, Head(c.bus[topic]))
         /\ Head(c.bus[topic]) \in IndexRecipients(topic)
         /\ IndexAddressed(d)
<1> DEFINE d == [c EXCEPT !.bus[topic] = Tail(@)]
           q == Tail(c.bus[topic])
<1>1. c.bus[topic] \in Seq(Users \union Posts) /\ c.bus \in [Index!Topics -> Seq(Users \union Posts)]
  BY DEF IndexCatalog
<1>2. /\ q \in Seq(Users \union Posts) /\ Len(q) = Len(c.bus[topic]) - 1
      /\ \A i \in 1..Len(q) : q[i] = c.bus[topic][i + 1]
      /\ Head(c.bus[topic]) = c.bus[topic][1]
      /\ Len(c.bus[topic]) \in Nat \ {0}
  BY <1>1
<1>3. d = [c EXCEPT !.bus = [c.bus EXCEPT ![topic] = q]]
  BY DEF IndexCatalog
<1> HIDE DEF q
<1>4. [c.bus EXCEPT ![topic] = q] \in [Index!Topics -> Seq(Users \union Posts)]
  BY <1>1, <1>2
<1>5. /\ d \in IndexCatalog
      /\ d.name = c.name /\ d.provisioning = c.provisioning /\ d.live = c.live
      /\ d.used = c.used /\ d.lost = c.lost /\ d.crossed = c.crossed /\ d.acts = c.acts
      /\ d.bus = [c.bus EXCEPT ![topic] = q]
  BY <1>3, <1>4 DEF IndexCatalog
<1> HIDE DEF d
<1>6. \A t \in Index!Topics : d.bus[t] = IF t = topic THEN q ELSE c.bus[t]
  BY <1>1, <1>5
<1>7. DOMAIN q = 1..Len(q) /\ DOMAIN c.bus[topic] = 1..Len(c.bus[topic])
  BY <1>1, <1>2
<1>8. ASSUME NEW t \in Index!Topics, NEW x, IndexComing(d, t, x)
      PROVE  IndexComing(c, t, x)
  <2>1. CASE t # topic
    BY <1>6, <1>8, <2>1 DEF IndexComing
  <2>2. CASE t = topic
    <3>1. PICK i \in 1..Len(q) : q[i] = x
      BY <1>6, <1>7, <1>8, <2>2 DEF IndexComing
    <3>2. i + 1 \in DOMAIN c.bus[topic] /\ c.bus[topic][i + 1] = x
      BY <1>2, <1>7, <3>1
    <3> QED
      BY <2>2, <3>2 DEF IndexComing
  <2> QED
    BY <2>1, <2>2
<1>9. ASSUME NEW t \in Index!Topics, NEW x, IndexComing(c, t, x)
      PROVE  IndexComing(d, t, x) \/ (t = topic /\ x = Head(c.bus[topic]))
  <2>1. CASE t # topic
    BY <1>6, <1>9, <2>1 DEF IndexComing
  <2>2. CASE t = topic
    <3>1. PICK i \in 1..Len(c.bus[topic]) : c.bus[topic][i] = x
      BY <1>7, <1>9, <2>2 DEF IndexComing
    <3>2. CASE i = 1
      BY <1>2, <2>2, <3>1, <3>2
    <3>3. CASE i # 1
      <4>1. i - 1 \in DOMAIN q /\ q[i - 1] = c.bus[topic][i]
        BY <1>2, <1>7, <3>1, <3>3
      <4> QED
        BY <1>6, <2>2, <3>1, <4>1 DEF IndexComing
    <3> QED
      BY <3>2, <3>3
  <2> QED
    BY <2>1, <2>2
<1>10. IndexComing(c, topic, Head(c.bus[topic])) /\ Head(c.bus[topic]) \in IndexRecipients(topic)
  BY <1>2, <1>7 DEF IndexComing, IndexAddressed
<1>11. IndexAddressed(d)
  <2> SUFFICES ASSUME NEW t \in Index!Topics, NEW i \in 1..Len(d.bus[t])
               PROVE  d.bus[t][i] \in IndexRecipients(t)
    BY DEF IndexAddressed
  <2>1. CASE t # topic
    BY <1>6, <2>1 DEF IndexAddressed
  <2>2. CASE t = topic
    BY <1>2, <1>6, <2>2 DEF IndexAddressed
  <2> QED
    BY <2>1, <2>2
<1> QED
  BY <1>5, <1>8, <1>9, <1>10, <1>11 DEF d

LEMMA IndexCatalogSame ==
  ASSUME NEW c \in IndexCatalog, NEW d \in IndexCatalog, d.bus = c.bus
  PROVE  /\ \A t \in Index!Topics : \A x : IndexComing(d, t, x) <=> IndexComing(c, t, x)
         /\ IndexAddressed(c) => IndexAddressed(d)
  BY DEF IndexComing, IndexAddressed

\* An answer of the services to a request of a user.
LEMMA IndexAskedInv ==
  ASSUME IndexInv, NEW u \in Users, Index!Provision(u) \/ Index!Rename(u)
  PROVE  IndexInv'
<1>0. PICK first \in BOOLEAN : IF first THEN Index!Provision(u) ELSE Index!Rename(u)
  BY Zenon
<1> DEFINE acts == source.acts + 1
           name == [source.name EXCEPT ![u] = IF first THEN "first" ELSE "second"]
           prov == IF first THEN source.provisioning \union {u} ELSE source.provisioning
<1>1. source \in IndexCatalog /\ source.acts < MaxActs["search"] /\ copy' = copy
  BY <1>0 DEF IndexInv, IndexGood, Index!Provision, Index!Rename, Index!Act
<1>2. acts \in 0..MaxActs["search"] /\ name \in [Users -> Index!Names] /\ prov \in SUBSET Users
  BY <1>1, IndexGiven DEF IndexCatalog, Index!Names
<1>3. source' = [source EXCEPT !.acts = acts, !.name = name, !.provisioning = prov]
  BY <1>0, <1>1 DEF Index!Provision, Index!Rename, Index!Acted, IndexCatalog
<1>4. /\ source.name[u] # "none" <=> ~first
      /\ \A v \in Users : name[v] = IF v = u THEN (IF first THEN "first" ELSE "second")
                                    ELSE source.name[v]
      /\ \A v \in Users : v \in prov <=> v \in source.provisioning \/ (first /\ v = u)
  BY <1>0, <1>1 DEF Index!Provision, Index!Rename, IndexCatalog
<1> HIDE DEF acts, name, prov
<1>5. /\ source' \in IndexCatalog /\ source'.bus = source.bus
      /\ source'.name = name /\ source'.provisioning = prov
      /\ source'.live = source.live /\ source'.used = source.used
      /\ source'.lost = source.lost /\ source'.crossed = source.crossed
  BY <1>1, <1>2, <1>3 DEF IndexCatalog
<1>6. /\ \A t \in Index!Topics : \A x : IndexComing(source', t, x) <=> IndexComing(source, t, x)
      /\ IndexAddressed(source')
  BY <1>1, <1>5, IndexCatalogSame DEF IndexInv, IndexGood
<1>7. IndexUserComes(source', copy)
  BY <1>4, <1>5, <1>6 DEF IndexInv, IndexGood, IndexUserComes, Index!Topics
<1>8. IndexPostComes(source', copy)
  BY <1>5, <1>6 DEF IndexInv, IndexGood, IndexPostComes, Index!Topics
<1> QED
  BY <1>1, <1>5, <1>6, <1>7, <1>8 DEF IndexInv, IndexGood

LEMMA IndexPublishInv ==
  ASSUME IndexInv, NEW u \in Users, Index!PublishUser(u)
  PROVE  IndexInv'
<1> DEFINE prov == source.provisioning \ {u}
           told == [source EXCEPT !.provisioning = prov]
           lost == source.lost \union {u}
<1>1. source \in IndexCatalog /\ copy' = copy /\ u \in source.provisioning
  BY DEF IndexInv, IndexGood, Index!PublishUser
<1>2. source' = Index!Emit(told, "user.created", u) \/ source' = [told EXCEPT !.lost = lost]
  BY <1>1 DEF Index!PublishUser, IndexCatalog
<1>3. prov \in SUBSET Users /\ lost \in SUBSET (Users \union Posts)
  BY <1>1 DEF IndexCatalog
<1>4. /\ told \in IndexCatalog /\ told.bus = source.bus /\ told.provisioning = prov
      /\ told.name = source.name /\ told.live = source.live /\ told.used = source.used
      /\ told.lost = source.lost /\ told.crossed = source.crossed
  BY <1>1, <1>3 DEF IndexCatalog
<1>5. /\ \A t \in Index!Topics : \A x : IndexComing(told, t, x) <=> IndexComing(source, t, x)
      /\ IndexAddressed(told)
  BY <1>1, <1>4, IndexCatalogSame DEF IndexInv, IndexGood
<1> HIDE DEF told
<1>6. CASE source' = Index!Emit(told, "user.created", u)
  <2>1. "user.created" \in Index!Topics /\ u \in IndexRecipients("user.created")
    BY DEF Index!Topics, IndexRecipients
  <2>2. /\ source' \in IndexCatalog /\ IndexAddressed(source')
        /\ source'.name = told.name /\ source'.provisioning = told.provisioning
        /\ source'.live = told.live /\ source'.used = told.used
        /\ source'.lost = told.lost /\ source'.crossed = told.crossed
        /\ \A t \in Index!Topics : \A x : IndexComing(source', t, x)
              <=> IndexComing(told, t, x) \/ (t = "user.created" /\ x = u)
    BY <1>4, <1>5, <1>6, <2>1, IndexEmitIs
  <2>3. IndexUserComes(source', copy)
    BY <1>1, <1>4, <1>5, <2>1, <2>2 DEF IndexInv, IndexGood, IndexUserComes
  <2>4. IndexPostComes(source', copy)
    BY <1>4, <1>5, <2>2 DEF IndexInv, IndexGood, IndexPostComes, Index!Topics
  <2> QED
    BY <1>1, <2>2, <2>3, <2>4 DEF IndexInv, IndexGood
<1>7. CASE source' = [told EXCEPT !.lost = lost]
  <2>1. /\ source' \in IndexCatalog /\ source'.bus = told.bus
        /\ source'.name = told.name /\ source'.provisioning = told.provisioning
        /\ source'.live = told.live /\ source'.used = told.used
        /\ source'.lost = lost /\ source'.crossed = told.crossed
    BY <1>3, <1>4, <1>7 DEF IndexCatalog
  <2>2. /\ \A t \in Index!Topics : \A x : IndexComing(source', t, x) <=> IndexComing(told, t, x)
        /\ IndexAddressed(source')
    BY <1>4, <1>5, <2>1, IndexCatalogSame
  <2>3. IndexUserComes(source', copy)
    BY <1>1, <1>4, <1>5, <2>1, <2>2 DEF IndexInv, IndexGood, IndexUserComes, Index!Topics
  <2>4. IndexPostComes(source', copy)
    BY <1>4, <1>5, <2>1, <2>2 DEF IndexInv, IndexGood, IndexPostComes, Index!Topics
  <2> QED
    BY <1>1, <2>1, <2>2, <2>3, <2>4 DEF IndexInv, IndexGood
<1> QED
  BY <1>2, <1>6, <1>7

LEMMA IndexCreateInv ==
  ASSUME IndexInv, NEW p \in Posts, Index!CreatePost(p)
  PROVE  IndexInv'
<1> DEFINE acts == source.acts + 1
           live == source.live \union {p}
           used == source.used \union {p}
           made == [source EXCEPT !.acts = acts, !.live = live, !.used = used]
<1>1. /\ source \in IndexCatalog /\ copy' = copy /\ p \notin source.used
      /\ source.acts < MaxActs["search"]
  BY DEF IndexInv, IndexGood, Index!CreatePost, Index!Act
<1>2. source' = Index!Emit(made, "post.created", p)
  BY <1>1 DEF Index!CreatePost, Index!Acted, IndexCatalog
<1>3. acts \in 0..MaxActs["search"] /\ live \in SUBSET Posts /\ used \in SUBSET Posts
  BY <1>1, IndexGiven DEF IndexCatalog
<1>4. \A q : (q \in live <=> q \in source.live \/ q = p)
           /\ (q \in used <=> q \in source.used \/ q = p)
  OBVIOUS
<1> HIDE DEF acts, live, used
<1>5. /\ made \in IndexCatalog /\ made.bus = source.bus
      /\ made.provisioning = source.provisioning
      /\ made.name = source.name /\ made.live = live /\ made.used = used
      /\ made.lost = source.lost /\ made.crossed = source.crossed
  BY <1>1, <1>3 DEF IndexCatalog
<1>6. /\ \A t \in Index!Topics : \A x : IndexComing(made, t, x) <=> IndexComing(source, t, x)
      /\ IndexAddressed(made)
  BY <1>1, <1>5, IndexCatalogSame DEF IndexInv, IndexGood
<1> HIDE DEF made
<1>7. "post.created" \in Index!Topics /\ p \in IndexRecipients("post.created")
  BY DEF Index!Topics, IndexRecipients
<1>8. /\ source' \in IndexCatalog /\ IndexAddressed(source')
      /\ source'.name = made.name /\ source'.provisioning = made.provisioning
      /\ source'.live = made.live /\ source'.used = made.used
      /\ source'.lost = made.lost /\ source'.crossed = made.crossed
      /\ \A t \in Index!Topics : \A x : IndexComing(source', t, x)
            <=> IndexComing(made, t, x) \/ (t = "post.created" /\ x = p)
  BY <1>2, <1>5, <1>6, <1>7, IndexEmitIs
<1>9. IndexUserComes(source', copy)
  BY <1>5, <1>6, <1>8 DEF IndexInv, IndexGood, IndexUserComes, Index!Topics
<1>10. IndexPostComes(source', copy)
  BY <1>1, <1>4, <1>5, <1>6, <1>8 DEF IndexInv, IndexGood, IndexPostComes, Index!Topics
<1> QED
  BY <1>1, <1>8, <1>9, <1>10 DEF IndexInv, IndexGood

LEMMA IndexDeleteInv ==
  ASSUME IndexInv, NEW p \in Posts, Index!DeletePost(p)
  PROVE  IndexInv'
<1> DEFINE acts == source.acts + 1
           live == source.live \ {p}
           unheard == IndexComing(source, "post.created", p)
           crossed == IF unheard THEN source.crossed \union {p} ELSE source.crossed
           made == [source EXCEPT !.acts = acts, !.live = live, !.crossed = crossed]
<1>1. /\ source \in IndexCatalog /\ copy' = copy /\ p \in source.live
      /\ source.acts < MaxActs["search"]
  BY DEF IndexInv, IndexGood, Index!DeletePost, Index!Act
<1>2. source' = Index!Emit(made, "post.deleted", p)
  BY <1>1 DEF Index!DeletePost, Index!Acted, IndexCatalog, IndexComing
<1>3. acts \in 0..MaxActs["search"] /\ live \in SUBSET Posts /\ crossed \in SUBSET Posts
  BY <1>1, IndexGiven DEF IndexCatalog
<1>4. \A q : (q \in live <=> q \in source.live /\ q # p)
           /\ (q \in crossed <=> q \in source.crossed \/ (unheard /\ q = p))
  OBVIOUS
<1> HIDE DEF acts, live, crossed
<1>5. /\ made \in IndexCatalog /\ made.bus = source.bus
      /\ made.provisioning = source.provisioning
      /\ made.name = source.name /\ made.live = live /\ made.used = source.used
      /\ made.lost = source.lost /\ made.crossed = crossed
  BY <1>1, <1>3 DEF IndexCatalog
<1>6. /\ \A t \in Index!Topics : \A x : IndexComing(made, t, x) <=> IndexComing(source, t, x)
      /\ IndexAddressed(made)
  BY <1>1, <1>5, IndexCatalogSame DEF IndexInv, IndexGood
<1> HIDE DEF made
<1>7. "post.deleted" \in Index!Topics /\ p \in IndexRecipients("post.deleted")
  BY DEF Index!Topics, IndexRecipients
<1>8. /\ source' \in IndexCatalog /\ IndexAddressed(source')
      /\ source'.name = made.name /\ source'.provisioning = made.provisioning
      /\ source'.live = made.live /\ source'.used = made.used
      /\ source'.lost = made.lost /\ source'.crossed = made.crossed
      /\ \A t \in Index!Topics : \A x : IndexComing(source', t, x)
            <=> IndexComing(made, t, x) \/ (t = "post.deleted" /\ x = p)
  BY <1>2, <1>5, <1>6, <1>7, IndexEmitIs
<1>9. IndexUserComes(source', copy)
  BY <1>5, <1>6, <1>8 DEF IndexInv, IndexGood, IndexUserComes, Index!Topics
<1>10. IndexPostComes(source', copy)
  BY <1>1, <1>4, <1>5, <1>6, <1>8 DEF IndexInv, IndexGood, IndexPostComes, Index!Topics
<1> QED
  BY <1>1, <1>8, <1>9, <1>10 DEF IndexInv, IndexGood

LEMMA IndexConsumeInv ==
  ASSUME IndexInv, NEW topic \in Index!Topics, Index!Consume(topic) \/ Index!Park(topic)
  PROVE  IndexInv'
<1> DEFINE what == Head(source.bus[topic])
           taken == [source EXCEPT !.bus[topic] = Tail(@)]
           lost == source.lost \union {what}
<1>1. source \in IndexCatalog /\ source.bus[topic] # <<>> /\ IndexAddressed(source)
  BY DEF IndexInv, IndexGood, Index!Consume, Index!Park
<1>2. /\ taken \in IndexCatalog
      /\ taken.name = source.name /\ taken.provisioning = source.provisioning
      /\ taken.live = source.live /\ taken.used = source.used
      /\ taken.lost = source.lost /\ taken.crossed = source.crossed
      /\ \A t \in Index!Topics : \A x : IndexComing(taken, t, x) => IndexComing(source, t, x)
      /\ \A t \in Index!Topics : \A x : IndexComing(source, t, x) =>
            IndexComing(taken, t, x) \/ (t = topic /\ x = what)
      /\ IndexComing(source, topic, what) /\ what \in IndexRecipients(topic)
      /\ IndexAddressed(taken)
  BY <1>1, IndexTakenIs
<1>3. CASE Index!Park(topic)
  <2>1. source' = [taken EXCEPT !.lost = lost] /\ copy' = copy
    BY <1>1, <1>3 DEF Index!Park, IndexCatalog
  <2>2. lost \in SUBSET (Users \union Posts)
    BY <1>1, <1>2 DEF IndexCatalog, IndexRecipients
  <2>3. \A x : x \in lost <=> x \in source.lost \/ x = what
    OBVIOUS
  <2> HIDE DEF taken, what, lost
  <2>4. /\ source' \in IndexCatalog /\ source'.bus = taken.bus
        /\ source'.name = taken.name /\ source'.provisioning = taken.provisioning
        /\ source'.live = taken.live /\ source'.used = taken.used
        /\ source'.lost = lost /\ source'.crossed = taken.crossed
    BY <1>2, <2>1, <2>2 DEF IndexCatalog
  <2>5. /\ \A t \in Index!Topics : \A x : IndexComing(source', t, x) <=> IndexComing(taken, t, x)
        /\ IndexAddressed(source')
    BY <1>2, <2>4, IndexCatalogSame
  <2>6. IndexUserComes(source', copy)
    BY <1>2, <2>3, <2>4, <2>5 DEF IndexInv, IndexGood, IndexUserComes, Index!Topics
  <2>7. IndexPostComes(source', copy)
    BY <1>2, <2>3, <2>4, <2>5 DEF IndexInv, IndexGood, IndexPostComes, Index!Topics
  <2> QED
    BY <2>1, <2>4, <2>5, <2>6, <2>7 DEF IndexInv, IndexGood
<1>4. CASE Index!Consume(topic)
  <2>1. /\ source' = source \/ source' = taken
        /\ copy' = Index!Indexed(topic, what)
    BY <1>4 DEF Index!Consume
  <2> HIDE DEF taken, what
  <2>2. /\ source' \in IndexCatalog /\ IndexAddressed(source')
        /\ source'.name = source.name /\ source'.provisioning = source.provisioning
        /\ source'.live = source.live /\ source'.used = source.used
        /\ source'.lost = source.lost /\ source'.crossed = source.crossed
        /\ \A t \in Index!Topics : \A x : IndexComing(source', t, x) => IndexComing(source, t, x)
        /\ \A t \in Index!Topics : \A x : IndexComing(source, t, x) =>
              IndexComing(source', t, x) \/ (t = topic /\ x = what)
    BY <1>1, <1>2, <2>1
  <2>3. copy \in [name : [Users -> Index!Names], posts : SUBSET Posts]
    BY DEF IndexInv, IndexGood
  <2>4. CASE topic = "user.created"
    <3> DEFINE name == [copy.name EXCEPT ![what] = "first"]
    <3>1. what \in Users
      BY <1>2, <2>4 DEF IndexRecipients
    <3>2. name \in [Users -> Index!Names]
      BY <2>3 DEF Index!Names
    <3>3. \A u \in Users : name[u] = IF u = what THEN "first" ELSE copy.name[u]
      BY <2>3
    <3>4. copy' = [copy EXCEPT !.name = name]
      BY <2>1, <2>3, <2>4 DEF Index!Indexed
    <3> HIDE DEF name
    <3>5. /\ copy' \in [name : [Users -> Index!Names], posts : SUBSET Posts]
          /\ copy'.name = name /\ copy'.posts = copy.posts
      BY <2>3, <3>2, <3>4
    <3>6. IndexUserComes(source', copy')
      BY <1>2, <2>2, <2>4, <3>1, <3>3, <3>5 DEF IndexInv, IndexGood, IndexUserComes,
         Index!Topics
    <3>7. IndexPostComes(source', copy')
      BY <2>2, <2>4, <3>5 DEF IndexInv, IndexGood, IndexPostComes, Index!Topics
    <3> QED
      BY <2>2, <3>5, <3>6, <3>7 DEF IndexInv, IndexGood
  <2>5. CASE topic # "user.created"
    <3> DEFINE posts == IF topic = "post.created" THEN copy.posts \union {what}
                                                  ELSE copy.posts \ {what}
    <3>1. what \in Posts
      BY <1>2, <2>5 DEF IndexRecipients
    <3>2. posts \in SUBSET Posts
      BY <2>3, <3>1
    <3>3. \A p : p \in posts <=> IF p = what THEN topic = "post.created" ELSE p \in copy.posts
      OBVIOUS
    <3>4. copy' = [copy EXCEPT !.posts = posts]
      BY <2>1, <2>3, <2>5 DEF Index!Indexed, Index!Topics
    <3> HIDE DEF posts
    <3>5. /\ copy' \in [name : [Users -> Index!Names], posts : SUBSET Posts]
          /\ copy'.name = copy.name /\ copy'.posts = posts
      BY <2>3, <3>2, <3>4
    <3>6. IndexUserComes(source', copy')
      BY <2>2, <2>5, <3>5 DEF IndexInv, IndexGood, IndexUserComes, Index!Topics
    <3>7. IndexPostComes(source', copy')
      BY <1>2, <2>2, <2>5, <3>1, <3>3, <3>5 DEF IndexInv, IndexGood, IndexPostComes,
         Index!Topics
    <3> QED
      BY <2>2, <3>5, <3>6, <3>7 DEF IndexInv, IndexGood
  <2> QED
    BY <2>4, <2>5
<1> QED
  BY <1>3, <1>4

LEMMA IndexNextInv == IndexInv /\ [Index!Next]_<<source, copy>> => IndexInv'
<1>1. IndexInv /\ UNCHANGED <<source, copy>> => IndexInv'
  BY DEF IndexInv
<1> QED
  BY <1>1, IndexAskedInv, IndexPublishInv, IndexCreateInv, IndexDeleteInv, IndexConsumeInv
     DEF Index!Next

-----------------------------------------------------------------------------
(* media/views.py, worker.py and the consumer of post-svc: what is pending   *)
(* is on its way to the worker, and what is due on its way to its post.      *)

LEMMA PipelineGiven == MaxActs["media"] \in Nat
  BY ServicesAssumption DEF Groups

PipelineMediaState == [
    known : SUBSET Media, status : [Media -> {"none", "pending", "ready"}], registering : SUBSET Media,
    uploaded : Seq(Media), step : {"start", "marked", "told"},
    processed : Seq(Media), lost : SUBSET Media, anew : SUBSET Media, acts : 0..MaxActs["media"]]

PipelinePostsState == [made : SUBSET Media, variants : SUBSET Media, due : SUBSET Media]

\* The worker will mark m as ready, or has it to announce.
PipelineUnmarked(c, m) ==
    IF c.step = "start" THEN Pipeline!Queued(c.uploaded, m) ELSE Pipeline!Queued(Tail(c.uploaded), m)
PipelineUnannounced(c, m) ==
    IF c.step = "told" THEN Pipeline!Queued(Tail(c.uploaded), m) ELSE Pipeline!Queued(c.uploaded, m)

\* Only a registered medium is processed.
PipelineRegistered(c, p) ==
    \A m \in Media :
        \/ m \in c.registering \/ Pipeline!Queued(c.uploaded, m) \/ Pipeline!Queued(c.processed, m)
        \/ m \in p.variants
        => c.status[m] # "none"

\* What is announced, or about to be, is ready.
PipelineReadyFirst(c, p) ==
    \A m \in Media \ c.anew :
        \/ Pipeline!Queued(c.processed, m) \/ m \in p.variants
        \/ c.step = "marked" /\ m = Head(c.uploaded)
        => c.status[m] = "ready"

\* What is pending is on its way to the worker.
PipelinePendingComes(c) ==
    \A m \in Media \ c.lost :
        m \in c.known /\ c.status[m] = "pending" => m \in c.registering \/ PipelineUnmarked(c, m)

\* What is due is on its way to the post.
PipelineDueComes(c, p) ==
    \A m \in Media \ c.lost :
        m \in c.known /\ m \in p.due =>
            /\ m \in p.made
            /\ m \in p.variants \/ PipelineUnannounced(c, m) \/ Pipeline!Queued(c.processed, m)

PipelineGood(c, p) ==
    /\ c \in PipelineMediaState /\ p \in PipelinePostsState
    /\ c.step # "start" => c.uploaded # <<>>
    /\ PipelineRegistered(c, p) /\ PipelineReadyFirst(c, p) /\ PipelinePendingComes(c) /\ PipelineDueComes(c, p)

PipelineInv == PipelineGood(source, copy)

\* What a queue holds after something was appended, or its head was taken.
LEMMA PipelineQueuedEmpty == \A m : ~Pipeline!Queued(<<>>, m)
  BY DEF Pipeline!Queued

LEMMA PipelineQueuedAppend ==
  ASSUME NEW q \in Seq(Media), NEW x \in Media
  PROVE  /\ Append(q, x) \in Seq(Media) /\ Append(q, x) # <<>>
         /\ \A m : Pipeline!Queued(Append(q, x), m) <=> Pipeline!Queued(q, m) \/ m = x
         /\ q # <<>> => /\ Head(Append(q, x)) = Head(q)
                        /\ \A m : Pipeline!Queued(Tail(Append(q, x)), m) <=> Pipeline!Queued(Tail(q), m) \/ m = x
<1> DEFINE r == Append(q, x)
           n == Len(q)
<1>1. /\ r \in Seq(Media) /\ r # <<>> /\ n \in Nat /\ Len(r) = n + 1
      /\ DOMAIN q = 1..n /\ DOMAIN r = 1..(n + 1)
      /\ \A i \in 1..n : r[i] = q[i]
      /\ r[n + 1] = x
  OBVIOUS
<1>2. q # <<>> => /\ n # 0 /\ Head(q) = q[1] /\ Head(r) = r[1]
                  /\ DOMAIN Tail(q) = 1..(n - 1) /\ DOMAIN Tail(r) = 1..n
                  /\ \A i \in 1..(n - 1) : Tail(q)[i] = q[i + 1]
                  /\ \A i \in 1..n : Tail(r)[i] = r[i + 1]
  BY <1>1
<1> HIDE DEF r, n
<1>3. ASSUME NEW m PROVE Pipeline!Queued(r, m) <=> Pipeline!Queued(q, m) \/ m = x
  <2>1. Pipeline!Queued(r, m) <=> \E i \in 1..(n + 1) : r[i] = m
    BY <1>1 DEF Pipeline!Queued
  <2>2. Pipeline!Queued(q, m) <=> \E i \in 1..n : r[i] = m
    BY <1>1 DEF Pipeline!Queued
  <2> QED
    BY <1>1, <2>1, <2>2
<1>4. ASSUME NEW m, q # <<>> PROVE Pipeline!Queued(Tail(r), m) <=> Pipeline!Queued(Tail(q), m) \/ m = x
  <2>1. Pipeline!Queued(Tail(r), m) <=> \E i \in 1..n : r[i + 1] = m
    BY <1>2, <1>4 DEF Pipeline!Queued
  <2>2. Pipeline!Queued(Tail(q), m) <=> \E i \in 1..(n - 1) : r[i + 1] = m
    <3>1. Pipeline!Queued(Tail(q), m) <=> \E i \in 1..(n - 1) : q[i + 1] = m
      BY <1>2, <1>4 DEF Pipeline!Queued
    <3>2. \A i \in 1..(n - 1) : q[i + 1] = r[i + 1]
      BY <1>1
    <3> QED
      BY <3>1, <3>2
  <2>3. n \in 1..n /\ \A i \in 1..n : i \in 1..(n - 1) \/ i = n
    BY <1>1, <1>2, <1>4
  <2>4. \A i \in 1..(n - 1) : i \in 1..n
    BY <1>1
  <2> QED
    BY <1>1, <2>1, <2>2, <2>3, <2>4
<1>5. q # <<>> => Head(r) = Head(q)
  BY <1>1, <1>2
<1> QED
  BY <1>1, <1>3, <1>4, <1>5 DEF r

LEMMA PipelineQueuedTail ==
  ASSUME NEW q \in Seq(Media), q # <<>>
  PROVE  /\ Tail(q) \in Seq(Media) /\ Head(q) \in Media /\ Pipeline!Queued(q, Head(q))
         /\ \A m : Pipeline!Queued(q, m) <=> Pipeline!Queued(Tail(q), m) \/ m = Head(q)
<1>1. /\ Len(q) \in Nat \ {0} /\ DOMAIN q = 1..Len(q) /\ Head(q) = q[1]
      /\ Tail(q) \in Seq(Media) /\ DOMAIN Tail(q) = 1..(Len(q) - 1)
      /\ \A i \in 1..(Len(q) - 1) : Tail(q)[i] = q[i + 1]
      /\ \A i \in 1..Len(q) : q[i] \in Media
  OBVIOUS
<1>2. ASSUME NEW m PROVE Pipeline!Queued(q, m) <=> Pipeline!Queued(Tail(q), m) \/ m = Head(q)
  <2>1. ASSUME Pipeline!Queued(Tail(q), m) PROVE Pipeline!Queued(q, m)
    <3>1. PICK i \in 1..(Len(q) - 1) : q[i + 1] = m
      BY <1>1, <2>1 DEF Pipeline!Queued
    <3>2. i + 1 \in DOMAIN q
      BY <1>1
    <3> QED
      BY <3>1, <3>2 DEF Pipeline!Queued
  <2>2. ASSUME Pipeline!Queued(q, m), m # Head(q) PROVE Pipeline!Queued(Tail(q), m)
    <3>1. PICK i \in 1..Len(q) : q[i] = m
      BY <1>1, <2>2 DEF Pipeline!Queued
    <3>2. i # 1
      BY <1>1, <2>2, <3>1
    <3>3. i - 1 \in DOMAIN Tail(q) /\ Tail(q)[i - 1] = m
      BY <1>1, <3>1, <3>2
    <3> QED
      BY <3>3 DEF Pipeline!Queued
  <2>3. Pipeline!Queued(q, Head(q))
    BY <1>1 DEF Pipeline!Queued
  <2> QED
    BY <2>1, <2>2, <2>3
<1> QED
  BY <1>1, <1>2

LEMMA PipelineInvAgrees == PipelineInv => Pipeline!MediaAgree
<1> SUFFICES ASSUME PipelineInv PROVE Pipeline!MediaAgree
  OBVIOUS
<1>1. Pipeline!AnnouncedIsReady
  BY DEF PipelineInv, PipelineGood, PipelineReadyFirst, Pipeline!AnnouncedIsReady
<1>2. ASSUME source.registering = {}, source.uploaded = <<>>, source.processed = <<>>,
             NEW m \in source.known \ source.lost
      PROVE  /\ source.status[m] # "pending"
             /\ m \in copy.due => m \in copy.variants
  <2>1. source.step = "start"
    BY <1>2 DEF PipelineInv, PipelineGood
  <2>2. ~PipelineUnmarked(source, m) /\ ~PipelineUnannounced(source, m) /\ ~Pipeline!Queued(source.processed, m)
    BY <1>2, <2>1, PipelineQueuedEmpty DEF PipelineUnmarked, PipelineUnannounced
  <2>3. m \in Media
    BY DEF PipelineInv, PipelineGood, PipelineMediaState
  <2> QED
    BY <1>2, <2>2, <2>3 DEF PipelineInv, PipelineGood, PipelinePendingComes, PipelineDueComes
<1> QED
  BY <1>1, <1>2 DEF Pipeline!MediaAgree, Pipeline!VariantsArrive

LEMMA PipelineInvTyped == PipelineInv => Pipeline!TypeOK
  BY DEF PipelineInv, PipelineGood, PipelineMediaState, PipelinePostsState, Pipeline!TypeOK

LEMMA PipelineInitInv == Pipeline!Init => PipelineInv
<1> SUFFICES ASSUME Pipeline!Init PROVE PipelineInv
  OBVIOUS
<1> DEFINE none == [m \in Media |-> "none"]
<1>1. 0 \in 0..MaxActs["media"] /\ <<>> \in Seq(Media)
      /\ none \in [Media -> {"none", "pending", "ready"}]
  BY PipelineGiven
<1>2. /\ source.status = none /\ source.registering = {} /\ source.uploaded = <<>>
      /\ source.step = "start" /\ source.processed = <<>> /\ copy.variants = {}
      /\ copy.due = {}
  BY DEF Pipeline!Init
<1>3. source \in PipelineMediaState /\ copy \in PipelinePostsState
  BY <1>1 DEF Pipeline!Init, PipelineMediaState, PipelinePostsState
<1>4. PipelineRegistered(source, copy) /\ PipelineReadyFirst(source, copy)
  BY <1>2, PipelineQueuedEmpty DEF PipelineRegistered, PipelineReadyFirst
<1>5. PipelinePendingComes(source) /\ PipelineDueComes(source, copy)
  BY <1>2 DEF PipelinePendingComes, PipelineDueComes
<1> QED
  BY <1>2, <1>3, <1>4, <1>5 DEF PipelineInv, PipelineGood

LEMMA PipelineRegisterInv ==
  ASSUME PipelineInv, NEW m \in Media, Pipeline!Register(m)
  PROVE  PipelineInv'
<1> DEFINE acts == source.acts + 1
           status == [source.status EXCEPT ![m] = "pending"]
           registering == source.registering \union {m}
           anew == IF source.status[m] = "none" THEN source.anew ELSE source.anew \union {m}
<1>1. source \in PipelineMediaState /\ copy \in PipelinePostsState /\ copy' = copy /\ source.acts < MaxActs["media"]
  BY DEF PipelineInv, PipelineGood, Pipeline!Register, Pipeline!Act
<1>2. /\ acts \in 0..MaxActs["media"] /\ status \in [Media -> {"none", "pending", "ready"}]
      /\ registering \in SUBSET Media /\ anew \in SUBSET Media
  BY <1>1, PipelineGiven DEF PipelineMediaState
<1>3. source' = [source EXCEPT !.acts = acts, !.status = status, !.registering = registering,
                  !.anew = anew]
  BY <1>1 DEF Pipeline!Register, Pipeline!Acted, PipelineMediaState
<1>4. \A k \in Media :
        /\ status[k] = IF k = m THEN "pending" ELSE source.status[k]
        /\ k \in registering <=> k \in source.registering \/ k = m
        /\ k \in anew <=> k \in source.anew \/ (k = m /\ source.status[m] # "none")
  BY <1>1 DEF PipelineMediaState
<1> HIDE DEF acts, status, registering, anew
<1>5. /\ source' \in PipelineMediaState
      /\ source'.known = source.known /\ source'.status = status /\ source'.registering = registering /\ source'.anew = anew
      /\ source'.uploaded = source.uploaded /\ source'.step = source.step
      /\ source'.processed = source.processed /\ source'.lost = source.lost
  BY <1>1, <1>2, <1>3 DEF PipelineMediaState
<1>6. PipelineRegistered(source', copy)
  BY <1>4, <1>5 DEF PipelineInv, PipelineGood, PipelineRegistered
<1>7. PipelineReadyFirst(source', copy)
  <2>1. source.step = "marked" => Pipeline!Queued(source.uploaded, Head(source.uploaded))
    BY <1>1, PipelineQueuedTail DEF PipelineInv, PipelineGood, PipelineMediaState
  <2> QED
    BY <1>4, <1>5, <2>1 DEF PipelineInv, PipelineGood, PipelineReadyFirst,
       PipelineRegistered
<1>8. PipelinePendingComes(source') /\ PipelineDueComes(source', copy)
  BY <1>4, <1>5 DEF PipelineInv, PipelineGood, PipelinePendingComes, PipelineDueComes,
     PipelineUnmarked, PipelineUnannounced
<1> QED
  BY <1>1, <1>5, <1>6, <1>7, <1>8 DEF PipelineInv, PipelineGood

LEMMA PipelinePublishInv ==
  ASSUME PipelineInv, NEW m \in Media, Pipeline!PublishUploaded(m)
  PROVE  PipelineInv'
<1> DEFINE registering == source.registering \ {m}
           uploaded == Append(source.uploaded, m)
           lost == source.lost \union {m}
<1>1. /\ source \in PipelineMediaState /\ copy \in PipelinePostsState /\ copy' = copy
      /\ m \in source.registering
  BY DEF PipelineInv, PipelineGood, Pipeline!PublishUploaded
<1>2. registering \in SUBSET Media /\ uploaded \in Seq(Media) /\ lost \in SUBSET Media
  BY <1>1 DEF PipelineMediaState
<1>3. \/ source' = [source EXCEPT !.registering = registering, !.uploaded = uploaded]
      \/ source' = [source EXCEPT !.registering = registering, !.lost = lost]
  BY <1>1 DEF Pipeline!PublishUploaded, PipelineMediaState
<1>4. /\ \A k : k \in registering <=> k \in source.registering /\ k # m
      /\ \A k : k \in lost <=> k \in source.lost \/ k = m
  OBVIOUS
<1>5. /\ uploaded # <<>> /\ \A k : Pipeline!Queued(uploaded, k) <=> Pipeline!Queued(source.uploaded, k) \/ k = m
      /\ source.uploaded # <<>> =>
            /\ Head(uploaded) = Head(source.uploaded)
            /\ \A k : Pipeline!Queued(Tail(uploaded), k) <=> Pipeline!Queued(Tail(source.uploaded), k) \/ k = m
  BY <1>1, PipelineQueuedAppend DEF PipelineMediaState
<1>6. source.step # "start" => source.uploaded # <<>>
  BY DEF PipelineInv, PipelineGood
<1> HIDE DEF registering, uploaded, lost
<1>7. CASE source' = [source EXCEPT !.registering = registering, !.uploaded = uploaded]
  <2>1. /\ source' \in PipelineMediaState
        /\ source'.known = source.known /\ source'.status = source.status /\ source'.registering = registering
        /\ source'.anew = source.anew /\ source'.uploaded = uploaded
        /\ source'.step = source.step
        /\ source'.processed = source.processed /\ source'.lost = source.lost
    BY <1>1, <1>2, <1>7 DEF PipelineMediaState
  <2>2. PipelineRegistered(source', copy) /\ PipelineReadyFirst(source', copy)
    BY <1>1, <1>4, <1>5, <1>6, <2>1 DEF PipelineInv, PipelineGood, PipelineRegistered,
       PipelineReadyFirst
  <2>3. PipelinePendingComes(source') /\ PipelineDueComes(source', copy)
    BY <1>4, <1>5, <1>6, <2>1
       DEF PipelineInv, PipelineGood, PipelinePendingComes, PipelineDueComes,
          PipelineUnmarked, PipelineUnannounced
  <2> QED
    BY <1>1, <1>5, <2>1, <2>2, <2>3 DEF PipelineInv, PipelineGood
<1>8. CASE source' = [source EXCEPT !.registering = registering, !.lost = lost]
  <2>1. /\ source' \in PipelineMediaState
        /\ source'.known = source.known /\ source'.status = source.status /\ source'.registering = registering
        /\ source'.anew = source.anew /\ source'.uploaded = source.uploaded
        /\ source'.step = source.step
        /\ source'.processed = source.processed /\ source'.lost = lost
    BY <1>1, <1>2, <1>8 DEF PipelineMediaState
  <2>2. PipelineRegistered(source', copy) /\ PipelineReadyFirst(source', copy)
    BY <1>4, <2>1 DEF PipelineInv, PipelineGood, PipelineRegistered, PipelineReadyFirst
  <2>3. PipelinePendingComes(source') /\ PipelineDueComes(source', copy)
    BY <1>4, <2>1
       DEF PipelineInv, PipelineGood, PipelinePendingComes, PipelineDueComes,
          PipelineUnmarked, PipelineUnannounced
  <2> QED
    BY <1>1, <1>6, <2>1, <2>2, <2>3 DEF PipelineInv, PipelineGood
<1> QED
  BY <1>3, <1>7, <1>8

\* That news of m comes is what CreatePost looks for.
LEMMA PipelineComingIs ==
  ASSUME PipelineInv, NEW m \in Media
  PROVE  Pipeline!Coming(m) <=> PipelineUnannounced(source, m) \/ Pipeline!Queued(source.processed, m)
<1> DEFINE q == source.uploaded
<1>1. q \in Seq(Media) /\ (source.step # "start" => q # <<>>)
  BY DEF PipelineInv, PipelineGood, PipelineMediaState
<1>2. CASE source.step # "told"
  BY <1>2 DEF Pipeline!Coming, PipelineUnannounced, Pipeline!Queued
<1>3. CASE source.step = "told"
  <2>1. q # <<>>
    BY <1>1, <1>3
  <2>2. /\ Len(q) \in Nat \ {0} /\ DOMAIN q = 1..Len(q)
        /\ DOMAIN Tail(q) = 1..(Len(q) - 1)
        /\ \A i \in 1..(Len(q) - 1) : Tail(q)[i] = q[i + 1]
    BY <1>1, <2>1
  <2>3. (\E i \in DOMAIN q : q[i] = m /\ i # 1) <=> Pipeline!Queued(Tail(q), m)
    <3>1. ASSUME NEW i \in DOMAIN q, q[i] = m, i # 1 PROVE Pipeline!Queued(Tail(q), m)
      <4>1. i - 1 \in DOMAIN Tail(q) /\ Tail(q)[i - 1] = m
        BY <2>2, <3>1
      <4> QED
        BY <4>1 DEF Pipeline!Queued
    <3>2. ASSUME Pipeline!Queued(Tail(q), m) PROVE \E i \in DOMAIN q : q[i] = m /\ i # 1
      <4>1. PICK i \in 1..(Len(q) - 1) : q[i + 1] = m
        BY <2>2, <3>2 DEF Pipeline!Queued
      <4>2. i + 1 \in DOMAIN q /\ i + 1 # 1
        BY <2>2
      <4> QED
        BY <4>1, <4>2
    <3> QED
      BY <3>1, <3>2
  <2> QED
    BY <1>3, <2>3 DEF Pipeline!Coming, PipelineUnannounced
<1> QED
  BY <1>2, <1>3

LEMMA PipelineCreateInv ==
  ASSUME PipelineInv, NEW m \in Media, Pipeline!CreatePost(m)
  PROVE  PipelineInv'
<1> DEFINE acts == source.acts + 1
           made == copy.made \union {m}
           due == IF Pipeline!Coming(m) THEN copy.due \union {m} ELSE copy.due
<1>1. source \in PipelineMediaState /\ copy \in PipelinePostsState /\ source.acts < MaxActs["media"]
  BY DEF PipelineInv, PipelineGood, Pipeline!CreatePost, Pipeline!Act
<1>2. acts \in 0..MaxActs["media"] /\ made \in SUBSET Media /\ due \in SUBSET Media
  BY <1>1, PipelineGiven DEF PipelineMediaState, PipelinePostsState
<1>3. source' = [source EXCEPT !.acts = acts] /\ copy' = [copy EXCEPT !.made = made, !.due = due]
  BY <1>1 DEF Pipeline!CreatePost, Pipeline!Acted, PipelineMediaState, PipelinePostsState
<1>4. \A k : /\ k \in made <=> k \in copy.made \/ k = m
             /\ k \in due <=> k \in copy.due \/ (k = m /\ Pipeline!Coming(m))
  OBVIOUS
<1> HIDE DEF acts, made, due
<1>5. /\ source' \in PipelineMediaState
      /\ source'.known = source.known /\ source'.status = source.status /\ source'.registering = source.registering
      /\ source'.anew = source.anew /\ source'.uploaded = source.uploaded
      /\ source'.step = source.step
      /\ source'.processed = source.processed /\ source'.lost = source.lost
  BY <1>1, <1>2, <1>3 DEF PipelineMediaState
<1>6. copy' \in PipelinePostsState /\ copy'.made = made /\ copy'.due = due
      /\ copy'.variants = copy.variants
  BY <1>1, <1>2, <1>3 DEF PipelinePostsState
<1>7. PipelineRegistered(source', copy') /\ PipelineReadyFirst(source', copy')
  BY <1>5, <1>6 DEF PipelineInv, PipelineGood, PipelineRegistered, PipelineReadyFirst
<1>8. PipelinePendingComes(source')
  BY <1>5 DEF PipelineInv, PipelineGood, PipelinePendingComes, PipelineUnmarked
<1>9. PipelineDueComes(source', copy')
  BY <1>4, <1>5, <1>6, PipelineComingIs DEF PipelineInv, PipelineGood, PipelineDueComes,
     PipelineUnannounced
<1> QED
  BY <1>5, <1>6, <1>7, <1>8, <1>9 DEF PipelineInv, PipelineGood

\* The steps of the worker.
LEMMA PipelineMarkInv ==
  ASSUME PipelineInv, Pipeline!MarkReady
  PROVE  PipelineInv'
<1> DEFINE m == Head(source.uploaded)
           status == [source.status EXCEPT ![m] = "ready"]
           anew == source.anew \ {m}
<1>1. /\ source \in PipelineMediaState /\ copy' = copy /\ source.uploaded # <<>>
      /\ source.step = "start"
  BY DEF PipelineInv, PipelineGood, Pipeline!MarkReady
<1>2. /\ m \in Media /\ \A k : Pipeline!Queued(source.uploaded, k) <=> Pipeline!Queued(Tail(source.uploaded), k) \/ k = m
  BY <1>1, PipelineQueuedTail DEF PipelineMediaState
<1>3. status \in [Media -> {"none", "pending", "ready"}] /\ anew \in SUBSET Media
  BY <1>1, <1>2 DEF PipelineMediaState
<1>4. source' = [source EXCEPT !.step = "marked", !.status = status, !.anew = anew]
  BY <1>1 DEF Pipeline!MarkReady, PipelineMediaState
<1>5. \A k \in Media : /\ status[k] = IF k = m THEN "ready" ELSE source.status[k]
                       /\ k \in anew <=> k \in source.anew /\ k # m
  BY <1>1 DEF PipelineMediaState
<1> HIDE DEF status, anew
<1>6. /\ source' \in PipelineMediaState
      /\ source'.known = source.known /\ source'.status = status /\ source'.registering = source.registering
      /\ source'.anew = anew /\ source'.uploaded = source.uploaded
      /\ source'.step = "marked"
      /\ source'.processed = source.processed /\ source'.lost = source.lost
  BY <1>1, <1>3, <1>4 DEF PipelineMediaState
<1> HIDE DEF m
<1>7. PipelineRegistered(source', copy)
  BY <1>5, <1>6 DEF PipelineInv, PipelineGood, PipelineRegistered
<1>8. PipelineReadyFirst(source', copy)
  BY <1>5, <1>6 DEF PipelineInv, PipelineGood, PipelineReadyFirst, m
<1>9. PipelinePendingComes(source') /\ PipelineDueComes(source', copy)
  BY <1>1, <1>2, <1>5, <1>6
     DEF PipelineInv, PipelineGood, PipelinePendingComes, PipelineDueComes,
        PipelineUnmarked, PipelineUnannounced
<1> QED
  BY <1>1, <1>6, <1>7, <1>8, <1>9 DEF PipelineInv, PipelineGood

LEMMA PipelineIgnoreInv ==
  ASSUME PipelineInv, Pipeline!IgnoreUnknown
  PROVE  PipelineInv'
<1> DEFINE m == Head(source.uploaded)
<1>1. /\ source \in PipelineMediaState /\ copy' = copy /\ source.uploaded # <<>>
      /\ source.step = "start" /\ m \notin source.known
  BY DEF PipelineInv, PipelineGood, Pipeline!IgnoreUnknown
<1>2. \A k : Pipeline!Queued(source.uploaded, k) <=> Pipeline!Queued(Tail(source.uploaded), k) \/ k = m
  BY <1>1, PipelineQueuedTail DEF PipelineMediaState
<1>3. source' = [source EXCEPT !.step = "told"]
  BY DEF Pipeline!IgnoreUnknown
<1> HIDE DEF m
<1>4. /\ source' \in PipelineMediaState
      /\ source'.known = source.known /\ source'.status = source.status
      /\ source'.registering = source.registering /\ source'.anew = source.anew
      /\ source'.uploaded = source.uploaded /\ source'.step = "told"
      /\ source'.processed = source.processed /\ source'.lost = source.lost
  BY <1>1, <1>3 DEF PipelineMediaState
<1>5. PipelineRegistered(source', copy) /\ PipelineReadyFirst(source', copy)
  BY <1>4 DEF PipelineInv, PipelineGood, PipelineRegistered, PipelineReadyFirst
<1>6. PipelinePendingComes(source') /\ PipelineDueComes(source', copy)
  BY <1>1, <1>2, <1>4
     DEF PipelineInv, PipelineGood, PipelinePendingComes, PipelineDueComes,
        PipelineUnmarked, PipelineUnannounced
<1> QED
  BY <1>1, <1>4, <1>5, <1>6 DEF PipelineInv, PipelineGood

LEMMA PipelineAnnounceInv ==
  ASSUME PipelineInv, Pipeline!Announce
  PROVE  PipelineInv'
<1> DEFINE m == Head(source.uploaded)
           processed == Append(source.processed, m)
           lost == source.lost \union {m}
<1>1. source \in PipelineMediaState /\ copy' = copy /\ source.step = "marked" /\ source.uploaded # <<>>
  BY DEF PipelineInv, PipelineGood, Pipeline!Announce
<1>2. /\ m \in Media /\ Pipeline!Queued(source.uploaded, m)
      /\ \A k : Pipeline!Queued(source.uploaded, k) <=> Pipeline!Queued(Tail(source.uploaded), k) \/ k = m
  BY <1>1, PipelineQueuedTail DEF PipelineMediaState
<1>3. /\ processed \in Seq(Media) /\ lost \in SUBSET Media
      /\ \A k : Pipeline!Queued(processed, k) <=> Pipeline!Queued(source.processed, k) \/ k = m
  BY <1>1, <1>2, PipelineQueuedAppend DEF PipelineMediaState
<1>4. \A k : k \in lost <=> k \in source.lost \/ k = m
  OBVIOUS
<1>5. \/ source' = [source EXCEPT !.step = "told", !.processed = processed]
      \/ source' = [source EXCEPT !.step = "told", !.lost = lost]
  BY <1>1 DEF Pipeline!Announce
<1>m. m \notin source.anew => source.status[m] = "ready"
  BY <1>1, <1>2 DEF PipelineInv, PipelineGood, PipelineReadyFirst
<1>n. source.status[m] # "none"
  BY <1>1, <1>2 DEF PipelineInv, PipelineGood, PipelineRegistered
<1> HIDE DEF m, processed, lost
<1>6. /\ source' \in PipelineMediaState
      /\ source'.known = source.known /\ source'.status = source.status /\ source'.registering = source.registering
      /\ source'.anew = source.anew /\ source'.uploaded = source.uploaded
      /\ source'.step = "told"
      /\ \/ source'.processed = processed /\ source'.lost = source.lost
         \/ source'.processed = source.processed /\ source'.lost = lost
  BY <1>1, <1>3, <1>5 DEF PipelineMediaState
<1>7. PipelineRegistered(source', copy) /\ PipelineReadyFirst(source', copy)
  BY <1>3, <1>6, <1>m, <1>n DEF PipelineInv, PipelineGood, PipelineRegistered,
     PipelineReadyFirst
<1>8. PipelinePendingComes(source')
  BY <1>1, <1>4, <1>6 DEF PipelineInv, PipelineGood, PipelinePendingComes, PipelineUnmarked
<1>9. PipelineDueComes(source', copy)
  BY <1>1, <1>2, <1>3, <1>4, <1>6 DEF PipelineInv, PipelineGood, PipelineDueComes,
     PipelineUnannounced
<1> QED
  BY <1>1, <1>6, <1>7, <1>8, <1>9 DEF PipelineInv, PipelineGood

\* Commit and GiveUp pass to the next medium, Restart begins it again.
LEMMA PipelineTurnInv ==
  ASSUME PipelineInv, Pipeline!Commit \/ Pipeline!Restart \/ Pipeline!GiveUp
  PROVE  PipelineInv'
<1> DEFINE m == Head(source.uploaded)
           q == source.uploaded
           lost == source.lost \union {m}
           acts == source.acts + 1
<1>1. /\ source \in PipelineMediaState /\ copy' = copy /\ q # <<>>
      /\ Pipeline!Restart => source.acts < MaxActs["media"]
  BY DEF PipelineInv, PipelineGood, Pipeline!Commit, Pipeline!Restart, Pipeline!GiveUp,
     Pipeline!Act
<1>2. /\ m \in Media /\ Tail(q) \in Seq(Media)
      /\ \A k : Pipeline!Queued(q, k) <=> Pipeline!Queued(Tail(q), k) \/ k = m
  BY <1>1, PipelineQueuedTail DEF PipelineMediaState
<1>3. /\ Pipeline!Commit => source.step = "told" /\ source' = [source EXCEPT !.step = "start", !.uploaded = Tail(q)]
      /\ Pipeline!Restart => source' = [source EXCEPT !.step = "start", !.acts = acts]
      /\ Pipeline!GiveUp => source' = [source EXCEPT !.step = "start", !.uploaded = Tail(q), !.lost = lost]
  BY <1>1 DEF Pipeline!Commit, Pipeline!Restart, Pipeline!GiveUp, Pipeline!Acted,
     PipelineMediaState
<1>4. lost \in SUBSET Media /\ \A k : k \in lost <=> k \in source.lost \/ k = m
  BY <1>1, <1>2 DEF PipelineMediaState
<1>5. Pipeline!Restart => acts \in 0..MaxActs["media"]
  BY <1>1, PipelineGiven DEF PipelineMediaState
<1> HIDE DEF m, lost, acts
<1>6. /\ source' \in PipelineMediaState
      /\ source'.known = source.known /\ source'.status = source.status /\ source'.registering = source.registering
      /\ source'.anew = source.anew /\ source'.step = "start"
      /\ source'.processed = source.processed
      /\ \/ Pipeline!Commit /\ source'.uploaded = Tail(q) /\ source'.lost = source.lost
         \/ Pipeline!Restart /\ source'.uploaded = q /\ source'.lost = source.lost
         \/ Pipeline!GiveUp /\ source'.uploaded = Tail(q) /\ source'.lost = lost
  <2>1. CASE Pipeline!Commit
    BY <1>1, <1>2, <1>3, <2>1 DEF PipelineMediaState
  <2>2. CASE Pipeline!Restart
    BY <1>1, <1>3, <1>5, <2>2 DEF PipelineMediaState
  <2>3. CASE Pipeline!GiveUp
    BY <1>1, <1>2, <1>3, <1>4, <2>3 DEF PipelineMediaState
  <2> QED
    BY <2>1, <2>2, <2>3
<1>7. PipelineRegistered(source', copy) /\ PipelineReadyFirst(source', copy)
  BY <1>2, <1>6 DEF PipelineInv, PipelineGood, PipelineRegistered, PipelineReadyFirst
<1>8. PipelinePendingComes(source')
  BY <1>2, <1>3, <1>4, <1>6 DEF PipelineInv, PipelineGood, PipelinePendingComes,
     PipelineUnmarked
<1>9. PipelineDueComes(source', copy)
  BY <1>2, <1>3, <1>4, <1>6 DEF PipelineInv, PipelineGood, PipelineDueComes,
     PipelineUnannounced
<1> QED
  BY <1>1, <1>6, <1>7, <1>8, <1>9 DEF PipelineInv, PipelineGood

LEMMA PipelineAttachInv ==
  ASSUME PipelineInv, Pipeline!AttachVariants \/ Pipeline!ParkProcessed
  PROVE  PipelineInv'
<1> DEFINE m == Head(source.processed)
           q == source.processed
           lost == source.lost \union {m}
           variants == copy.variants \union (copy.made \intersect {m})
<1>1. source \in PipelineMediaState /\ copy \in PipelinePostsState /\ q # <<>>
  BY DEF PipelineInv, PipelineGood, Pipeline!AttachVariants, Pipeline!ParkProcessed
<1>2. /\ m \in Media /\ Tail(q) \in Seq(Media) /\ Pipeline!Queued(q, m)
      /\ \A k : Pipeline!Queued(q, k) <=> Pipeline!Queued(Tail(q), k) \/ k = m
  BY <1>1, PipelineQueuedTail DEF PipelineMediaState
<1>3. /\ lost \in SUBSET Media /\ \A k : k \in lost <=> k \in source.lost \/ k = m
      /\ variants \in SUBSET Media
      /\ \A k : k \in variants <=> k \in copy.variants \/ (k = m /\ m \in copy.made)
  BY <1>1, <1>2 DEF PipelineMediaState, PipelinePostsState
<1>4. \/ /\ copy' = [copy EXCEPT !.variants = variants]
         /\ source' = source \/ source' = [source EXCEPT !.processed = Tail(q)]
      \/ copy' = copy /\ source' = [source EXCEPT !.processed = Tail(q), !.lost = lost]
  BY <1>1 DEF Pipeline!AttachVariants, Pipeline!ParkProcessed
<1> HIDE DEF m, lost, variants
<1>5. /\ source' \in PipelineMediaState /\ copy' \in PipelinePostsState
      /\ source'.known = source.known /\ source'.status = source.status /\ source'.registering = source.registering
      /\ source'.anew = source.anew /\ source'.step = source.step
      /\ source'.uploaded = source.uploaded /\ copy'.made = copy.made /\ copy'.due = copy.due
      /\ \/ /\ copy'.variants = variants /\ source'.lost = source.lost
            /\ source'.processed \in {q, Tail(q)}
         \/ copy'.variants = copy.variants /\ source'.lost = lost /\ source'.processed = Tail(q)
  BY <1>1, <1>2, <1>3, <1>4 DEF PipelineMediaState, PipelinePostsState
<1>6. PipelineRegistered(source', copy') /\ PipelineReadyFirst(source', copy')
  BY <1>2, <1>3, <1>5 DEF PipelineInv, PipelineGood, PipelineRegistered, PipelineReadyFirst
<1>7. PipelinePendingComes(source') /\ PipelineDueComes(source', copy')
  BY <1>2, <1>3, <1>5
     DEF PipelineInv, PipelineGood, PipelinePendingComes, PipelineDueComes,
        PipelineUnmarked, PipelineUnannounced
<1> QED
  BY <1>5, <1>6, <1>7 DEF PipelineInv, PipelineGood

LEMMA PipelineNextInv == PipelineInv /\ [Pipeline!Next]_<<source, copy>> => PipelineInv'
<1>1. PipelineInv /\ UNCHANGED <<source, copy>> => PipelineInv'
  BY DEF PipelineInv
<1> QED
  BY <1>1, PipelineRegisterInv, PipelinePublishInv, PipelineCreateInv, PipelineMarkInv,
     PipelineIgnoreInv, PipelineAnnounceInv, PipelineTurnInv, PipelineAttachInv DEF Pipeline!Next

-----------------------------------------------------------------------------
(* posts/views.py and realtime-svc: an id belongs to one request, which no   *)
(* one has heard of before it writes; a comment is announced once, by its    *)
(* author.                                                                   *)

LEMMA PostGiven == MaxActs["post"] \in Nat
  BY ServicesAssumption DEF Groups

LEMMA PostOwnerGiven == Owner \in Users
  BY ServicesAssumption

LEMMA PostCardSame == \A S : Post!Cardinality(S) = Cardinality(S)
  BY DEF Post!Cardinality, Cardinality

PostState == [
    exists : BOOLEAN, comments : [Post!Ids -> SUBSET Post!Comment],
    reposts : SUBSET Post!Ids, repostCount : Int,
    request : [Requests -> [at : {"idle", "found"}, asks : Post!Asks, user : Users, of : {0} \union Post!Ids]],
    bus : Seq([id : Post!Ids, author : Users]), twice : BOOLEAN, revived : SUBSET Post!Ids, acts : 0..MaxActs["post"]]

PostReadersState == [half : BOOLEAN, notices : [Post!Ids -> Nat], rerun : SUBSET Post!Ids]

PostCreates(c, r) == c.request[r].at = "found" /\ c.request[r].asks \in {"comment", "repost"}
PostOnBus(c, id) == \E i \in 1..Len(c.bus) : c.bus[i].id = id

\* Nobody has heard of an id before its request writes.
PostUnheard(c, x) ==
    \A id \in Post!Ids :
        id > c.acts \/ (\E r \in Requests : PostCreates(c, r) /\ c.request[r].of = id) =>
            /\ c.comments[id] = {} /\ ~PostOnBus(c, id) /\ x.notices[id] = 0
            /\ id \notin c.reposts

\* Of the requests in flight each has an id of its own.
PostOwnId(c) ==
    \A r \in Requests : PostCreates(c, r) =>
        /\ c.request[r].of \in Post!Ids /\ c.request[r].of <= c.acts
        /\ \A q \in Requests : PostCreates(c, q) /\ c.request[q].of = c.request[r].of => q = r

PostCounted(c) ==
    c.exists => \/ c.repostCount = Cardinality(c.reposts)
                \/ c.repostCount < Cardinality(c.reposts) /\ c.twice

\* An edit on its way will find its comment as it was, or a mark that it did not.
PostEditsFind(c) ==
    \A r \in Requests : c.request[r].at = "found" /\ c.request[r].asks = "edit" =>
        /\ c.request[r].of \in Post!Ids
        /\ c.request[r].of \notin c.revived =>
              \A k \in c.comments[c.request[r].of] : ~k.deleted

PostEmptied(c) ==
    \A id \in Post!Ids : \A k \in c.comments[id] :
        /\ id \notin c.revived /\ k.deleted => k.body = "none"
        /\ \A l \in c.comments[id] : l = k

\* A comment is on the bus once, with its author, and not yet notified unless
\* the worker is half through with it.
PostAnnounced(c, x) ==
    \A i \in 1..Len(c.bus) :
        /\ \A j \in 1..Len(c.bus) : c.bus[i].id = c.bus[j].id => i = j
        /\ \A k \in c.comments[c.bus[i].id] : k.author = c.bus[i].author
        /\ c.bus[i].id \notin x.rerun =>
              x.notices[c.bus[i].id] =
                  IF i = 1 /\ x.half /\ c.bus[i].author # Owner THEN 1 ELSE 0

\* What has left the bus was notified.
PostNotified(c, x) ==
    \A id \in Post!Ids \ x.rerun : ~PostOnBus(c, id) =>
        \A k \in c.comments[id] : x.notices[id] = IF k.author = Owner THEN 0 ELSE 1

PostGood(c, x) ==
    /\ c \in PostState /\ x \in PostReadersState
    /\ x.half => c.bus # <<>>
    /\ PostUnheard(c, x) /\ PostOwnId(c) /\ PostCounted(c) /\ PostEditsFind(c) /\ PostEmptied(c)
    /\ PostAnnounced(c, x) /\ PostNotified(c, x)

PostInv == PostGood(source, copy)

LEMMA PostInvTyped == PostInv => Post!TypeOK
  BY DEF PostInv, PostGood, PostState, PostReadersState, Post!TypeOK

LEMMA PostInvAgrees == PostInv => Post!PostAgrees
<1> SUFFICES ASSUME PostInv PROVE Post!PostAgrees
  OBVIOUS
<1>1. Post!RepostsCounted
  BY PostCardSame DEF PostInv, PostGood, PostCounted, Post!RepostsCounted
<1>2. Post!DeletedIsEmpty
  BY DEF PostInv, PostGood, PostEmptied, Post!DeletedIsEmpty
<1>3. ASSUME ~copy.half, NEW id \in Post!Ids \ copy.rerun, NEW c \in source.comments[id]
      PROVE  copy.notices[id] =
                 IF c.author = Owner \/ \E i \in DOMAIN source.bus : source.bus[i].id = id
                 THEN 0 ELSE 1
  <2>1. DOMAIN source.bus = 1..Len(source.bus)
    BY DEF PostInv, PostGood, PostState
  <2>2. CASE PostOnBus(source, id)
    BY <1>3, <2>1, <2>2 DEF PostInv, PostGood, PostAnnounced, PostOnBus
  <2>3. CASE ~PostOnBus(source, id)
    BY <1>3, <2>1, <2>3 DEF PostInv, PostGood, PostNotified, PostOnBus
  <2> QED
    BY <2>2, <2>3
<1> QED
  BY <1>1, <1>2, <1>3 DEF Post!PostAgrees, Post!OwnerNotifiedOnce

LEMMA PostIdleTyped ==
  /\ Post!Idle \in [at : {"idle", "found"}, asks : Post!Asks, user : Users, of : {0} \union Post!Ids]
  /\ Post!Idle.at = "idle"
  BY PostOwnerGiven DEF Post!Idle, Post!Asks

LEMMA PostInitInv == Post!Init => PostInv
<1> SUFFICES ASSUME Post!Init PROVE PostInv
  OBVIOUS
<1> DEFINE comments == [i \in Post!Ids |-> {}]
           notices == [i \in Post!Ids |-> 0]
           request == [r \in Requests |-> Post!Idle]
<1>1. /\ 0 \in 0..MaxActs["post"] /\ comments \in [Post!Ids -> SUBSET Post!Comment] /\ notices \in [Post!Ids -> Nat]
      /\ request \in [Requests -> [at : {"idle", "found"}, asks : Post!Asks, user : Users,
                                   of : {0} \union Post!Ids]]
      /\ <<>> \in Seq([id : Post!Ids, author : Users])
  BY PostGiven, PostIdleTyped
<1>2. source \in PostState /\ copy \in PostReadersState
  BY <1>1 DEF Post!Init, PostState, PostReadersState
<1>3. /\ source.comments = comments /\ source.reposts = {} /\ source.repostCount = 0
      /\ source.request = request /\ source.bus = <<>> /\ source.twice = FALSE
      /\ copy.half = FALSE /\ copy.notices = notices
  BY DEF Post!Init
<1>4. \A id \in Post!Ids : comments[id] = {} /\ notices[id] = 0
  OBVIOUS
<1>5. \A r \in Requests : request[r].at = "idle"
  BY PostIdleTyped
<1> HIDE DEF comments, notices, request
<1>6. PostUnheard(source, copy) /\ PostOwnId(source) /\ PostEditsFind(source)
  BY <1>3, <1>4, <1>5 DEF PostUnheard, PostOwnId, PostEditsFind, PostCreates, PostOnBus
<1>7. PostCounted(source)
  BY <1>3, FS_EmptySet DEF PostCounted
<1>8. PostEmptied(source) /\ PostAnnounced(source, copy) /\ PostNotified(source, copy)
  BY <1>3, <1>4 DEF PostEmptied, PostAnnounced, PostNotified
<1> QED
  BY <1>2, <1>3, <1>6, <1>7, <1>8 DEF PostInv, PostGood

\* A request that has found what it asks for.
LEMMA PostBeginInv ==
  ASSUME PostInv, NEW r \in Requests, NEW asks \in Post!Asks, NEW user \in Users,
         NEW of \in {0} \union Post!Ids, Post!Begin(r, asks, user, of),
         asks \in {"comment", "repost"} => of = source.acts + 1,
         asks = "edit" => of \in Post!Ids /\ \A k \in source.comments[of] : ~k.deleted
  PROVE  PostInv'
<1> DEFINE acts == source.acts + 1
           found == [at |-> "found", asks |-> asks, user |-> user, of |-> of]
           request == [source.request EXCEPT ![r] = found]
<1>1. /\ source \in PostState /\ copy \in PostReadersState /\ copy' = copy
      /\ source.acts < MaxActs["post"] /\ source.request[r].at = "idle"
  BY DEF PostInv, PostGood, Post!Begin
<1>2. /\ acts \in 0..MaxActs["post"] /\ acts \in Post!Ids /\ source.acts \in Nat /\ acts = source.acts + 1
      /\ request \in [Requests -> [at : {"idle", "found"}, asks : Post!Asks, user : Users,
                                   of : {0} \union Post!Ids]]
  BY <1>1, PostGiven DEF PostState, Post!Ids
<1>3. source' = [source EXCEPT !.acts = acts, !.request = request]
  BY <1>1 DEF Post!Begin, PostState
<1>4. \A q \in Requests : request[q] = IF q = r THEN found ELSE source.request[q]
  BY <1>1 DEF PostState
<1>5. found.at = "found" /\ found.asks = asks /\ found.of = of
  OBVIOUS
<1> HIDE DEF acts, found, request
<1>6. /\ source' \in PostState /\ source'.acts = acts /\ source'.request = request
      /\ source'.exists = source.exists /\ source'.comments = source.comments
      /\ source'.reposts = source.reposts /\ source'.repostCount = source.repostCount
      /\ source'.bus = source.bus /\ source'.twice = source.twice /\ source'.revived = source.revived
  BY <1>1, <1>2, <1>3 DEF PostState
<1>7. \A q \in Requests : PostCreates(source', q) <=>
        IF q = r THEN asks \in {"comment", "repost"} ELSE PostCreates(source, q)
  BY <1>4, <1>5, <1>6 DEF PostCreates
<1>8. \A id : PostOnBus(source', id) <=> PostOnBus(source, id)
  BY <1>6 DEF PostOnBus
<1>9. PostUnheard(source', copy)
  <2> SUFFICES ASSUME NEW id \in Post!Ids,
                      id > acts \/ \E q \in Requests : PostCreates(source', q) /\ request[q].of = id
               PROVE  id > source.acts \/ \E q \in Requests : PostCreates(source, q) /\ source.request[q].of = id
    BY <1>6, <1>8 DEF PostInv, PostGood, PostUnheard
  <2>1. CASE id > acts
    BY <1>2, <2>1 DEF Post!Ids
  <2>2. CASE \E q \in Requests : PostCreates(source', q) /\ request[q].of = id
    <3>1. PICK q \in Requests : PostCreates(source', q) /\ request[q].of = id
      BY <2>2
    <3>2. CASE q = r
      BY <1>2, <1>4, <1>5, <1>7, <3>1, <3>2
    <3>3. CASE q # r
      BY <1>4, <1>7, <3>1, <3>3
    <3> QED
      BY <3>2, <3>3
  <2> QED
    BY <2>1, <2>2
<1>10. PostOwnId(source')
  <2>1. ASSUME NEW q \in Requests, q # r, PostCreates(source, q)
        PROVE  /\ source.request[q].of \in Post!Ids /\ source.request[q].of <= acts
               /\ source.request[q].of # acts
    <3>1. source.request[q].of \in Post!Ids /\ source.request[q].of <= source.acts
      BY <2>1 DEF PostInv, PostGood, PostOwnId
    <3> QED
      BY <1>2, <3>1 DEF Post!Ids
  <2>2. asks \in {"comment", "repost"} => of = acts
    BY <1>2
  <2>3. \A q \in Requests : PostCreates(source', q) =>
          /\ request[q].of \in Post!Ids /\ request[q].of <= acts
          /\ q # r => request[q].of # acts /\ request[q].of = source.request[q].of /\ PostCreates(source, q)
          /\ q = r => request[q].of = acts
    BY <1>2, <1>4, <1>5, <1>7, <2>1, <2>2
  <2>4. ASSUME NEW q \in Requests, NEW s \in Requests, PostCreates(source', q), PostCreates(source', s),
               request[s].of = request[q].of
        PROVE  s = q
    <3>1. CASE q = r \/ s = r
      BY <2>3, <2>4, <3>1
    <3>2. CASE q # r /\ s # r
      BY <2>3, <2>4, <3>2 DEF PostInv, PostGood, PostOwnId
    <3> QED
      BY <3>1, <3>2
  <2> QED
    BY <1>6, <2>3, <2>4 DEF PostOwnId
<1>11. PostEditsFind(source')
  BY <1>4, <1>5, <1>6 DEF PostInv, PostGood, PostEditsFind
<1>12. PostCounted(source') /\ PostEmptied(source') /\ PostAnnounced(source', copy) /\ PostNotified(source', copy)
  BY <1>6, <1>8 DEF PostInv, PostGood, PostCounted, PostEmptied, PostAnnounced, PostNotified
<1> QED
  BY <1>1, <1>6, <1>9, <1>10, <1>11, <1>12 DEF PostInv, PostGood

LEMMA PostFindInv ==
  ASSUME PostInv, NEW r \in Requests, Post!FindPost(r) \/ Post!FindComment(r) \/ Post!FindRepost(r)
  PROVE  PostInv'
<1>0. source \in PostState /\ Owner \in Users
  BY PostOwnerGiven DEF PostInv, PostGood
<1>1. CASE Post!FindPost(r)
  <2>1. PICK user \in Users :
          \/ Post!Begin(r, "comment", user, source.acts + 1)
          \/ Post!Begin(r, "repost", user, source.acts + 1)
          \/ Post!Begin(r, "drop", user, 0)
    BY <1>1 DEF Post!FindPost
  <2>2. source.acts < MaxActs["post"]
    BY <2>1 DEF Post!Begin
  <2>3. source.acts + 1 \in Post!Ids
    BY <1>0, <2>2, PostGiven DEF PostState, Post!Ids
  <2>4. {"comment", "repost", "drop"} \subseteq Post!Asks
    BY DEF Post!Asks
  <2>5. Post!Begin(r, "comment", user, source.acts + 1) => PostInv'
    BY <2>3, <2>4, PostBeginInv
  <2>6. Post!Begin(r, "repost", user, source.acts + 1) => PostInv'
    BY <2>3, <2>4, PostBeginInv
  <2>7. Post!Begin(r, "drop", user, 0) => PostInv'
    BY <2>4, PostBeginInv
  <2> QED
    BY <2>1, <2>5, <2>6, <2>7
<1>2. CASE Post!FindComment(r)
  <2>1. PICK id \in Post!Ids : \E comment \in Post!Found(id) :
          \/ Post!Begin(r, "edit", comment.author, id)
          \/ \E user \in {comment.author, Owner} : Post!Begin(r, "delete", user, id)
    BY <1>2 DEF Post!FindComment
  <2>2. PICK comment \in Post!Found(id) :
          \/ Post!Begin(r, "edit", comment.author, id)
          \/ \E user \in {comment.author, Owner} : Post!Begin(r, "delete", user, id)
    BY <2>1
  <2>3. comment \in source.comments[id] /\ ~comment.deleted /\ comment \in Post!Comment
    BY <1>0, <2>2 DEF Post!Found, PostState
  <2>4. comment.author \in Users
    BY <2>3 DEF Post!Comment
  <2>5. \A k \in source.comments[id] : ~k.deleted
    BY <2>3 DEF PostInv, PostGood, PostEmptied
  <2>6. {"edit", "delete"} \subseteq Post!Asks
    BY DEF Post!Asks
  <2>7. Post!Begin(r, "edit", comment.author, id) => PostInv'
    BY <2>4, <2>5, <2>6, PostBeginInv
  <2>8. ASSUME NEW user \in {comment.author, Owner}, Post!Begin(r, "delete", user, id) PROVE PostInv'
    <3>1. user \in Users
      BY <1>0, <2>4, <2>8
    <3> QED
      BY <2>6, <2>8, <3>1, PostBeginInv
  <2> QED
    BY <2>2, <2>7, <2>8
<1>3. CASE Post!FindRepost(r)
  <2>1. PICK id \in source.reposts : Post!Begin(r, "withdraw", Owner, id)
    BY <1>3 DEF Post!FindRepost
  <2>2. id \in Post!Ids /\ "withdraw" \in Post!Asks
    BY <1>0 DEF PostState, Post!Asks
  <2> QED
    BY <1>0, <2>1, <2>2, PostBeginInv
<1> QED
  BY <1>1, <1>2, <1>3

\* What a request that has written leaves of the requests.
LEMMA PostDoneIs ==
  ASSUME PostInv, NEW r \in Requests, NEW d \in PostState,
         d.request = [source.request EXCEPT ![r] = Post!Idle]
  PROVE  /\ \A q \in Requests : d.request[q] = IF q = r THEN Post!Idle ELSE source.request[q]
         /\ \A q \in Requests : PostCreates(d, q) <=> q # r /\ PostCreates(source, q)
         /\ d.acts = source.acts => PostOwnId(d)
<1>1. \A q \in Requests : d.request[q] = IF q = r THEN Post!Idle ELSE source.request[q]
  BY DEF PostInv, PostGood, PostState
<1>2. \A q \in Requests : PostCreates(d, q) <=> q # r /\ PostCreates(source, q)
  BY <1>1, PostIdleTyped DEF PostCreates
<1>3. d.acts = source.acts => PostOwnId(d)
  BY <1>1, <1>2 DEF PostInv, PostGood, PostOwnId
<1> QED
  BY <1>1, <1>2, <1>3

LEMMA PostRequestTyped ==
  ASSUME PostInv, NEW r \in Requests
  PROVE  /\ [source.request EXCEPT ![r] = Post!Idle] \in
              [Requests -> [at : {"idle", "found"}, asks : Post!Asks, user : Users, of : {0} \union Post!Ids]]
         /\ source.request[r].of \in {0} \union Post!Ids /\ source.request[r].user \in Users
         /\ source \in PostState /\ copy \in PostReadersState
  BY PostIdleTyped DEF PostInv, PostGood, PostState

LEMMA PostSeqTyped ==
  ASSUME NEW S, NEW q \in Seq(S)
  PROVE  Len(q) \in Nat /\ \A i \in 1..Len(q) : q[i] \in S
  OBVIOUS

LEMMA PostBusTyped ==
  ASSUME PostInv
  PROVE  /\ source.bus \in Seq([id : Post!Ids, author : Users]) /\ Len(source.bus) \in Nat
         /\ \A i \in 1..Len(source.bus) : source.bus[i].id \in Post!Ids /\ source.bus[i].author \in Users
<1>1. source.bus \in Seq([id : Post!Ids, author : Users])
  BY DEF PostInv, PostGood, PostState
<1>2. /\ Len(source.bus) \in Nat
      /\ \A i \in 1..Len(source.bus) : source.bus[i] \in [id : Post!Ids, author : Users]
  BY <1>1, PostSeqTyped
<1> QED
  BY <1>1, <1>2

LEMMA PostCommentInv ==
  ASSUME PostInv, NEW r \in Requests, Post!WriteComment(r)
  PROVE  PostInv'
<1> DEFINE id == source.request[r].of
           user == source.request[r].user
           event == [id |-> id, author |-> user]
           written == [author |-> user, body |-> "written", deleted |-> FALSE]
           request == [source.request EXCEPT ![r] = Post!Idle]
           bus == Append(source.bus, event)
           comments == [source.comments EXCEPT ![id] = IF source.exists THEN {written} ELSE @]
           n == Len(source.bus)
<1>1. /\ copy' = copy /\ PostCreates(source, r) /\ source \in PostState /\ copy \in PostReadersState
      /\ user \in Users
  BY PostRequestTyped DEF Post!WriteComment, Post!Writing, PostCreates
<1>2. id \in Post!Ids /\ id <= source.acts
  BY <1>1 DEF PostInv, PostGood, PostOwnId
<1>3. /\ source.comments[id] = {} /\ ~PostOnBus(source, id) /\ copy.notices[id] = 0
      /\ id \notin source.reposts
  BY <1>1, <1>2 DEF PostInv, PostGood, PostUnheard
<1>4. event \in [id : Post!Ids, author : Users] /\ written \in Post!Comment
  BY <1>1, <1>2 DEF Post!Comment
<1>5. comments \in [Post!Ids -> SUBSET Post!Comment]
  BY <1>1, <1>4 DEF PostState
<1>6. source' = [source EXCEPT !.request = request, !.bus = bus, !.comments = comments]
  BY <1>1 DEF Post!WriteComment, Post!Done, PostState
<1>7. /\ bus \in Seq([id : Post!Ids, author : Users]) /\ Len(bus) = n + 1 /\ n \in Nat
      /\ \A i \in 1..n : bus[i] = source.bus[i]
      /\ bus[n + 1] = event /\ bus # <<>>
  BY <1>1, <1>4 DEF PostState
<1>8. \A k \in Post!Ids : comments[k] = IF k = id /\ source.exists THEN {written} ELSE source.comments[k]
  BY <1>1 DEF PostState
<1>9. /\ event.id = id /\ event.author = user
      /\ written.author = user /\ written.deleted = FALSE
  OBVIOUS
<1>10. request \in [Requests -> [at : {"idle", "found"}, asks : Post!Asks, user : Users,
                                 of : {0} \union Post!Ids]]
  BY PostRequestTyped
<1> HIDE DEF id, user, event, written, bus, comments, n
<1>11. /\ source' \in PostState /\ source'.request = request /\ source'.bus = bus
       /\ source'.comments = comments
       /\ source'.exists = source.exists /\ source'.acts = source.acts
       /\ source'.reposts = source.reposts /\ source'.repostCount = source.repostCount
       /\ source'.twice = source.twice /\ source'.revived = source.revived
  BY <1>1, <1>5, <1>6, <1>7, <1>10 DEF PostState
<1>12. /\ \A q \in Requests : source'.request[q] = IF q = r THEN Post!Idle ELSE source.request[q]
       /\ \A q \in Requests : PostCreates(source', q) <=> q # r /\ PostCreates(source, q)
       /\ PostOwnId(source')
  BY <1>11, PostDoneIs
<1> HIDE DEF request
<1>13. \A i \in 1..Len(bus) : i \in 1..n \/ i = n + 1
  BY <1>7
<1>13a. \A i \in 1..n : i \in 1..Len(bus)
  BY <1>7
<1>13b. n + 1 \in 1..Len(bus)
  BY <1>7
<1>14. \A k : PostOnBus(source', k) <=> PostOnBus(source, k) \/ k = id
  <2>1. \A k : PostOnBus(source', k) <=> \E i \in 1..Len(bus) : bus[i].id = k
    BY <1>11 DEF PostOnBus
  <2>2. \A k : PostOnBus(source, k) <=> \E i \in 1..n : bus[i].id = k
    BY <1>7 DEF PostOnBus, n
  <2> QED
    BY <1>7, <1>9, <1>13, <1>13a, <1>13b, <2>1, <2>2
<1>15. PostUnheard(source', copy)
  <2> SUFFICES ASSUME NEW k \in Post!Ids,
                      \/ k > source.acts
                      \/ \E q \in Requests : PostCreates(source', q) /\ source'.request[q].of = k
               PROVE  /\ k # id
                      /\ \/ k > source.acts
                         \/ \E q \in Requests : PostCreates(source, q) /\ source.request[q].of = k
    BY <1>8, <1>11, <1>14 DEF PostInv, PostGood, PostUnheard
  <2>1. CASE k > source.acts
    BY <1>1, <1>2, <2>1 DEF PostState, Post!Ids
  <2>2. CASE \E q \in Requests : PostCreates(source', q) /\ source'.request[q].of = k
    <3>1. PICK q \in Requests : q # r /\ PostCreates(source, q) /\ source.request[q].of = k
      BY <1>12, <2>2
    <3>2. k # id
      BY <1>1, <3>1 DEF PostInv, PostGood, PostOwnId, id
    <3> QED
      BY <3>1, <3>2
  <2> QED
    BY <2>1, <2>2
<1>16. PostCounted(source')
  BY <1>11 DEF PostInv, PostGood, PostCounted
<1>17. PostEditsFind(source')
  BY <1>8, <1>9, <1>11, <1>12, PostIdleTyped DEF PostInv, PostGood, PostEditsFind
<1>18. PostEmptied(source')
  BY <1>8, <1>9, <1>11 DEF PostInv, PostGood, PostEmptied
<1>19. PostAnnounced(source', copy)
  <2>1. \A i \in 1..n : bus[i].id # id /\ bus[i].id \in Post!Ids
    BY <1>3, <1>7, PostBusTyped DEF PostOnBus, n
  <2>2. ASSUME NEW i \in 1..n
        PROVE  /\ \A j \in 1..Len(bus) : bus[i].id = bus[j].id => i = j
               /\ \A k \in comments[bus[i].id] : k.author = bus[i].author
               /\ bus[i].id \notin copy.rerun =>
                     copy.notices[bus[i].id] =
                         IF i = 1 /\ copy.half /\ bus[i].author # Owner THEN 1 ELSE 0
    <3>1. bus[i] = source.bus[i] /\ i \in 1..Len(source.bus)
      BY <1>7 DEF n
    <3>2. ASSUME NEW j \in 1..Len(bus), bus[i].id = bus[j].id PROVE i = j
      <4>1. CASE j \in 1..n
        BY <1>7, <3>1, <3>2, <4>1 DEF PostInv, PostGood, PostAnnounced, n
      <4>2. CASE j = n + 1
        BY <1>7, <1>9, <2>1, <3>2, <4>2
      <4> QED
        BY <1>13, <4>1, <4>2
    <3>3. comments[bus[i].id] = source.comments[bus[i].id]
      BY <1>8, <2>1
    <3> QED
      BY <3>1, <3>2, <3>3 DEF PostInv, PostGood, PostAnnounced
  <2>3. \A j \in 1..Len(bus) : bus[n + 1].id = bus[j].id => n + 1 = j
    BY <1>7, <1>9, <1>13, <2>1
  <2>4. \A k \in comments[bus[n + 1].id] : k.author = bus[n + 1].author
    BY <1>2, <1>3, <1>7, <1>8, <1>9
  <2>5. copy.notices[bus[n + 1].id] =
            IF n + 1 = 1 /\ copy.half /\ bus[n + 1].author # Owner THEN 1 ELSE 0
    <3>1. n + 1 = 1 => ~copy.half
      BY <1>1, <1>7 DEF PostInv, PostGood, PostState, n
    <3> QED
      BY <1>3, <1>7, <1>9, <3>1
  <2> QED
    BY <1>11, <1>13, <2>2, <2>3, <2>4, <2>5 DEF PostAnnounced
<1>20. PostNotified(source', copy)
  BY <1>8, <1>11, <1>14 DEF PostInv, PostGood, PostNotified
<1> QED
  BY <1>1, <1>7, <1>11, <1>12, <1>15, <1>16, <1>17, <1>18, <1>19, <1>20 DEF PostInv,
     PostGood

\* A change of the comments that keeps their authors.
LEMMA PostRewrittenInv ==
  ASSUME PostInv, NEW r \in Requests, copy' = copy, source' \in PostState,
         source'.request = [source.request EXCEPT ![r] = Post!Idle],
         source'.acts = source.acts, source'.bus = source.bus,
         \A id \in Post!Ids : \A k \in source'.comments[id] :
             \E l \in source.comments[id] : l.author = k.author,
         source'.reposts \subseteq source.reposts
  PROVE  /\ PostUnheard(source', copy') /\ PostOwnId(source')
         /\ PostAnnounced(source', copy') /\ PostNotified(source', copy')
         /\ copy' \in PostReadersState /\ (copy'.half => source'.bus # <<>>)
<1>1. /\ \A q \in Requests : source'.request[q] = IF q = r THEN Post!Idle ELSE source.request[q]
      /\ \A q \in Requests : PostCreates(source', q) <=> q # r /\ PostCreates(source, q)
      /\ PostOwnId(source')
  BY PostDoneIs
<1>2. \A id : PostOnBus(source', id) <=> PostOnBus(source, id)
  BY DEF PostOnBus
<1>3. \A id \in Post!Ids : source.comments[id] = {} => source'.comments[id] = {}
  OBVIOUS
<1>4. PostUnheard(source', copy')
  BY <1>1, <1>2, <1>3 DEF PostInv, PostGood, PostUnheard
<1>5. \A i \in 1..Len(source.bus) : source.bus[i].id \in Post!Ids
  BY PostBusTyped
<1>6. PostAnnounced(source', copy')
  <2>1. \A i \in 1..Len(source.bus) : \A k \in source'.comments[source.bus[i].id] :
            k.author = source.bus[i].author
    BY <1>5 DEF PostInv, PostGood, PostAnnounced
  <2> QED
    BY <2>1 DEF PostInv, PostGood, PostAnnounced
<1>7. PostNotified(source', copy')
  BY <1>2 DEF PostInv, PostGood, PostNotified
<1> QED
  BY <1>1, <1>4, <1>6, <1>7 DEF PostInv, PostGood

LEMMA PostEditInv ==
  ASSUME PostInv, NEW r \in Requests, Post!WriteEdit(r)
  PROVE  PostInv'
<1> DEFINE of == source.request[r].of
           Edited(k) == [k EXCEPT !.body = "edited"]
           comments == [source.comments EXCEPT ![of] = {Edited(k) : k \in @}]
           request == [source.request EXCEPT ![r] = Post!Idle]
<1>1. /\ source \in PostState /\ copy' = copy
      /\ request \in [Requests -> [at : {"idle", "found"}, asks : Post!Asks, user : Users,
                                   of : {0} \union Post!Ids]]
      /\ source.request[r].at = "found" /\ source.request[r].asks = "edit"
  BY PostRequestTyped DEF Post!WriteEdit, Post!Writing
<1>2. \A k \in Post!Comment : /\ Edited(k) \in Post!Comment /\ Edited(k).author = k.author
                         /\ Edited(k).deleted = k.deleted
  BY DEF Post!Comment
<1>3. of \in Post!Ids /\ (of \notin source.revived => \A k \in source.comments[of] : ~k.deleted)
  BY <1>1 DEF PostInv, PostGood, PostEditsFind
<1>4. \A id \in Post!Ids : source.comments[id] \subseteq Post!Comment
  BY <1>1 DEF PostState
<1>5. \A id \in Post!Ids : comments[id] = IF id = of THEN {Edited(k) : k \in source.comments[of]}
                                     ELSE source.comments[id]
  BY <1>1, <1>3 DEF PostState
<1> HIDE DEF Edited
<1>6. comments \in [Post!Ids -> SUBSET Post!Comment]
  BY <1>1, <1>2, <1>3, <1>4 DEF PostState
<1>7. source' = [source EXCEPT !.request = request, !.comments = comments]
  BY <1>1 DEF Post!WriteEdit, Post!Done, PostState, Edited
<1> HIDE DEF comments, of
<1>8. /\ source' \in PostState /\ source'.request = request /\ source'.comments = comments
      /\ source'.bus = source.bus /\ source'.exists = source.exists /\ source'.acts = source.acts
      /\ source'.reposts = source.reposts /\ source'.repostCount = source.repostCount
      /\ source'.twice = source.twice /\ source'.revived = source.revived
  BY <1>1, <1>6, <1>7 DEF PostState
<1>9. \A id \in Post!Ids : \A k \in comments[id] : \E l \in source.comments[id] :
         /\ l.author = k.author /\ l.deleted = k.deleted
         /\ IF id = of THEN k = Edited(l) ELSE k = l
  BY <1>2, <1>4, <1>5
<1>10. /\ PostUnheard(source', copy') /\ PostOwnId(source')
       /\ PostAnnounced(source', copy') /\ PostNotified(source', copy')
       /\ copy' \in PostReadersState /\ (copy'.half => source'.bus # <<>>)
  BY <1>1, <1>8, <1>9, PostRewrittenInv
<1>11. \A q \in Requests : source'.request[q] = IF q = r THEN Post!Idle ELSE source.request[q]
  BY <1>8, PostDoneIs
<1>12. PostEditsFind(source')
  BY <1>8, <1>9, <1>11, PostIdleTyped DEF PostInv, PostGood, PostEditsFind
<1>13. PostEmptied(source')
  <2> SUFFICES ASSUME NEW id \in Post!Ids, NEW k \in comments[id]
               PROVE  /\ id \notin source.revived /\ k.deleted => k.body = "none"
                      /\ \A l \in comments[id] : l = k
    BY <1>8 DEF PostEmptied
  <2>1. id \notin source.revived /\ k.deleted => k.body = "none"
    <3>1. PICK l \in source.comments[id] :
             /\ l.deleted = k.deleted
             /\ IF id = of THEN k = Edited(l) ELSE k = l
      BY <1>9
    <3>2. CASE id = of
      BY <1>3, <3>1, <3>2
    <3>3. CASE id # of
      BY <3>1, <3>3 DEF PostInv, PostGood, PostEmptied
    <3> QED
      BY <3>2, <3>3
  <2>2. \A l \in comments[id] : l = k
    BY <1>9 DEF PostInv, PostGood, PostEmptied
  <2> QED
    BY <2>1, <2>2
<1>14. PostCounted(source')
  BY <1>8 DEF PostInv, PostGood, PostCounted
<1> QED
  BY <1>8, <1>10, <1>12, <1>13, <1>14 DEF PostInv, PostGood

LEMMA PostDeleteInv ==
  ASSUME PostInv, NEW r \in Requests, Post!WriteDelete(r)
  PROVE  PostInv'
<1> DEFINE of == source.request[r].of
           Deleted(k) == [k EXCEPT !.deleted = TRUE, !.body = "none"]
           comments == [source.comments EXCEPT ![of] = {Deleted(k) : k \in @}]
           request == [source.request EXCEPT ![r] = Post!Idle]
           late == \E q \in Requests : Post!Writing(q, "edit") /\ source.request[q].of = of
           revived == IF late THEN source.revived \union {of} ELSE source.revived
<1>1. /\ source \in PostState /\ copy' = copy
      /\ request \in [Requests -> [at : {"idle", "found"}, asks : Post!Asks, user : Users,
                                   of : {0} \union Post!Ids]]
      /\ source.request[r].at = "found" /\ source.request[r].asks = "delete"
  BY PostRequestTyped DEF Post!WriteDelete, Post!Writing
<1>2. \A k \in Post!Comment : /\ Deleted(k) \in Post!Comment /\ Deleted(k).author = k.author
                         /\ Deleted(k).body = "none"
  BY DEF Post!Comment
<1>3. late => of \in Post!Ids
  BY DEF PostInv, PostGood, PostEditsFind, Post!Writing
<1>4. \A id \in Post!Ids : source.comments[id] \subseteq Post!Comment
  BY <1>1 DEF PostState
<1>5. \A id \in Post!Ids : comments[id] = IF id = of THEN {Deleted(k) : k \in source.comments[of]}
                                     ELSE source.comments[id]
  BY <1>1 DEF PostState
<1>5a. revived \in SUBSET Post!Ids
  BY <1>1, <1>3 DEF PostState
<1>5b. \A id : id \in revived <=> id \in source.revived \/ (late /\ id = of)
  OBVIOUS
<1> HIDE DEF Deleted
<1>6. comments \in [Post!Ids -> SUBSET Post!Comment]
  <2>1. \A id \in Post!Ids : comments[id] \in SUBSET Post!Comment
    BY <1>2, <1>4, <1>5
  <2> QED
    BY <1>1, <2>1 DEF PostState
<1>7. source' = [source EXCEPT !.request = request, !.comments = comments, !.revived = revived]
  BY <1>1 DEF Post!WriteDelete, Post!Done, PostState, Deleted
<1> HIDE DEF comments, revived
<1>8. /\ source' \in PostState /\ source'.request = request /\ source'.comments = comments
      /\ source'.bus = source.bus /\ source'.exists = source.exists /\ source'.acts = source.acts
      /\ source'.reposts = source.reposts /\ source'.repostCount = source.repostCount
      /\ source'.twice = source.twice /\ source'.revived = revived
  BY <1>1, <1>5a, <1>6, <1>7 DEF PostState
<1>9. \A id \in Post!Ids : \A k \in comments[id] : \E l \in source.comments[id] :
         /\ l.author = k.author
         /\ IF id = of THEN k = Deleted(l) /\ k.body = "none" ELSE k = l
  <2> SUFFICES ASSUME NEW id \in Post!Ids, NEW k \in comments[id]
               PROVE  \E l \in source.comments[id] :
                         /\ l.author = k.author
                         /\ IF id = of THEN k = Deleted(l) /\ k.body = "none" ELSE k = l
    OBVIOUS
  <2>1. CASE id # of
    BY <1>5, <2>1
  <2>2. CASE id = of
    <3> HIDE DEF of
    <3>1. PICK l \in source.comments[id] : k = Deleted(l)
      BY <1>5, <2>2
    <3>2. l \in Post!Comment
      BY <1>4
    <3> QED
      BY <1>2, <2>2, <3>1, <3>2
  <2> QED
    BY <2>1, <2>2
<1>10. /\ PostUnheard(source', copy') /\ PostOwnId(source')
       /\ PostAnnounced(source', copy') /\ PostNotified(source', copy')
       /\ copy' \in PostReadersState /\ (copy'.half => source'.bus # <<>>)
  BY <1>1, <1>8, <1>9, PostRewrittenInv
<1>11. \A q \in Requests : source'.request[q] = IF q = r THEN Post!Idle ELSE source.request[q]
  BY <1>8, PostDoneIs
<1>12. PostEditsFind(source')
  <2> SUFFICES ASSUME NEW q \in Requests,
                      source'.request[q].at = "found", source'.request[q].asks = "edit"
               PROVE  /\ source'.request[q].of \in Post!Ids
                      /\ source'.request[q].of \notin revived =>
                            \A k \in comments[source'.request[q].of] : ~k.deleted
    BY <1>8 DEF PostEditsFind
  <2>1. source'.request[q] = source.request[q]
    BY <1>11, PostIdleTyped
  <2>2. source.request[q].of \in Post!Ids
    BY <2>1 DEF PostInv, PostGood, PostEditsFind
  <2>3. CASE source.request[q].of = of
    BY <1>5b, <2>1, <2>2, <2>3 DEF Post!Writing
  <2>4. CASE source.request[q].of # of
    BY <1>5, <1>5b, <2>1, <2>2, <2>4 DEF PostInv, PostGood, PostEditsFind
  <2> QED
    BY <2>3, <2>4
<1> HIDE DEF of
<1>13. PostEmptied(source')
  <2> SUFFICES ASSUME NEW id \in Post!Ids, NEW k \in comments[id]
               PROVE  /\ id \notin revived /\ k.deleted => k.body = "none"
                      /\ \A l \in comments[id] : l = k
    BY <1>8 DEF PostEmptied
  <2>1. id \notin revived /\ k.deleted => k.body = "none"
    <3>1. PICK l \in source.comments[id] : IF id = of THEN k.body = "none" ELSE k = l
      BY <1>9
    <3>2. CASE id = of
      BY <3>1, <3>2
    <3>3. CASE id # of
      BY <1>5b, <3>1, <3>3 DEF PostInv, PostGood, PostEmptied
    <3> QED
      BY <3>2, <3>3
  <2>2. \A l \in comments[id] : l = k
    BY <1>9 DEF PostInv, PostGood, PostEmptied
  <2> QED
    BY <2>1, <2>2
<1>14. PostCounted(source')
  BY <1>8 DEF PostInv, PostGood, PostCounted
<1> QED
  BY <1>8, <1>10, <1>12, <1>13, <1>14 DEF PostInv, PostGood

\* Reposts are counted as they come and go.
LEMMA PostRepostsFinite ==
  ASSUME NEW S \in SUBSET Post!Ids, NEW id \in Post!Ids
  PROVE  /\ Cardinality(S) \in Nat
         /\ Cardinality(S \union {id}) = IF id \in S THEN Cardinality(S) ELSE Cardinality(S) + 1
         /\ Cardinality(S \ {id}) = IF id \in S THEN Cardinality(S) - 1 ELSE Cardinality(S)
<1>1. IsFiniteSet(Post!Ids)
  BY PostGiven, FS_Interval DEF Post!Ids
<1>2. IsFiniteSet(S)
  BY <1>1, FS_Subset
<1> QED
  BY <1>2, FS_CardinalityType, FS_AddElement, FS_RemoveElement

LEMMA PostRepostInv ==
  ASSUME PostInv, NEW r \in Requests, Post!WriteRepost(r)
  PROVE  PostInv'
<1> DEFINE id == source.request[r].of
           reposts == source.reposts \union {id}
           count == IF source.exists THEN source.repostCount + 1 ELSE source.repostCount
           request == [source.request EXCEPT ![r] = Post!Idle]
<1>1. /\ copy' = copy /\ PostCreates(source, r) /\ source \in PostState /\ copy \in PostReadersState
  BY PostRequestTyped DEF Post!WriteRepost, Post!Writing, PostCreates
<1>2. id \in Post!Ids /\ id <= source.acts
  BY <1>1 DEF PostInv, PostGood, PostOwnId
<1>3. id \notin source.reposts
  BY <1>1, <1>2 DEF PostInv, PostGood, PostUnheard
<1>4. /\ request \in [Requests -> [at : {"idle", "found"}, asks : Post!Asks, user : Users,
                                   of : {0} \union Post!Ids]]
      /\ reposts \in SUBSET Post!Ids /\ count \in Int
  BY <1>1, <1>2, PostRequestTyped DEF PostState
<1>5. source' = [source EXCEPT !.request = request, !.reposts = reposts, !.repostCount = count]
  BY <1>1 DEF Post!WriteRepost, Post!Done, PostState
<1>6. Cardinality(reposts) = Cardinality(source.reposts) + 1 /\ Cardinality(source.reposts) \in Nat
  BY <1>1, <1>2, <1>3, PostRepostsFinite DEF PostState
<1>7. source.exists => count = source.repostCount + 1
  OBVIOUS
<1>8. \A k : k \in reposts <=> k \in source.reposts \/ k = id
  OBVIOUS
<1> HIDE DEF id, reposts, count
<1>9. /\ source' \in PostState /\ source'.request = request /\ source'.comments = source.comments
      /\ source'.bus = source.bus /\ source'.exists = source.exists /\ source'.acts = source.acts
      /\ source'.reposts = reposts /\ source'.repostCount = count
      /\ source'.twice = source.twice /\ source'.revived = source.revived
  BY <1>1, <1>4, <1>5 DEF PostState
<1>10. /\ \A q \in Requests : source'.request[q] = IF q = r THEN Post!Idle ELSE source.request[q]
       /\ \A q \in Requests : PostCreates(source', q) <=> q # r /\ PostCreates(source, q)
       /\ PostOwnId(source')
  BY <1>9, PostDoneIs
<1>11. \A k : PostOnBus(source', k) <=> PostOnBus(source, k)
  BY <1>9 DEF PostOnBus
<1>12. PostUnheard(source', copy)
  <2> SUFFICES ASSUME NEW k \in Post!Ids,
                      \/ k > source.acts
                      \/ \E q \in Requests : PostCreates(source', q) /\ source'.request[q].of = k
               PROVE  /\ k # id
                      /\ \/ k > source.acts
                         \/ \E q \in Requests : PostCreates(source, q) /\ source.request[q].of = k
    BY <1>8, <1>9, <1>11 DEF PostInv, PostGood, PostUnheard
  <2>1. CASE k > source.acts
    BY <1>1, <1>2, <2>1 DEF PostState, Post!Ids
  <2>2. CASE \E q \in Requests : PostCreates(source', q) /\ source'.request[q].of = k
    <3>1. PICK q \in Requests : q # r /\ PostCreates(source, q) /\ source.request[q].of = k
      BY <1>10, <2>2
    <3>2. k # id
      BY <1>1, <3>1 DEF PostInv, PostGood, PostOwnId, id
    <3> QED
      BY <3>1, <3>2
  <2> QED
    BY <2>1, <2>2
<1>13. PostCounted(source')
  BY <1>1, <1>6, <1>7, <1>9 DEF PostInv, PostGood, PostState, PostCounted
<1>14. PostEditsFind(source')
  BY <1>9, <1>10, PostIdleTyped DEF PostInv, PostGood, PostEditsFind
<1>15. PostEmptied(source') /\ PostAnnounced(source', copy) /\ PostNotified(source', copy)
  BY <1>9, <1>11 DEF PostInv, PostGood, PostEmptied, PostAnnounced, PostNotified
<1> QED
  BY <1>1, <1>9, <1>10, <1>12, <1>13, <1>14, <1>15 DEF PostInv, PostGood

LEMMA PostWithdrawInv ==
  ASSUME PostInv, NEW r \in Requests, Post!WriteWithdraw(r)
  PROVE  PostInv'
<1> DEFINE id == source.request[r].of
           reposts == source.reposts \ {id}
           count == IF source.exists THEN source.repostCount - 1 ELSE source.repostCount
           twice == source.twice \/ id \notin source.reposts
           request == [source.request EXCEPT ![r] = Post!Idle]
<1>1. copy' = copy /\ source \in PostState /\ copy \in PostReadersState
  BY PostRequestTyped DEF Post!WriteWithdraw
<1>2. /\ request \in [Requests -> [at : {"idle", "found"}, asks : Post!Asks, user : Users,
                                   of : {0} \union Post!Ids]]
      /\ reposts \in SUBSET Post!Ids /\ count \in Int /\ twice \in BOOLEAN
  BY <1>1, PostRequestTyped DEF PostState
<1>3. source' = [source EXCEPT !.request = request, !.reposts = reposts, !.repostCount = count,
                 !.twice = twice]
  BY <1>1 DEF Post!WriteWithdraw, Post!Done, PostState
<1>4. /\ Cardinality(source.reposts) \in Nat
      /\ Cardinality(reposts) = IF id \in source.reposts THEN Cardinality(source.reposts) - 1
                                ELSE Cardinality(source.reposts)
  <2>1. source.reposts \in SUBSET Post!Ids
    BY <1>1 DEF PostState
  <2>2. CASE id \in source.reposts
    <3> HIDE DEF id
    <3>1. id \in Post!Ids
      BY <2>1, <2>2
    <3>2. /\ Cardinality(source.reposts) \in Nat
          /\ Cardinality(source.reposts \ {id}) = Cardinality(source.reposts) - 1
      BY <2>1, <2>2, <3>1, PostRepostsFinite
    <3> QED
      BY <2>2, <3>2
  <2>3. CASE id \notin source.reposts
    <3>1. reposts = source.reposts
      BY <2>3
    <3>2. IsFiniteSet(Post!Ids)
      BY PostGiven, FS_Interval DEF Post!Ids
    <3>3. IsFiniteSet(source.reposts)
      BY <2>1, <3>2, FS_Subset
    <3> QED
      BY <2>3, <3>1, <3>3, FS_CardinalityType
  <2> QED
    BY <2>2, <2>3
<1>5. /\ source.exists => count = source.repostCount - 1
      /\ twice <=> source.twice \/ id \notin source.reposts
      /\ reposts \subseteq source.reposts
  OBVIOUS
<1> HIDE DEF id, reposts, count, twice
<1>6. /\ source' \in PostState /\ source'.request = request /\ source'.comments = source.comments
      /\ source'.bus = source.bus /\ source'.exists = source.exists /\ source'.acts = source.acts
      /\ source'.reposts = reposts /\ source'.repostCount = count
      /\ source'.twice = twice /\ source'.revived = source.revived
  BY <1>1, <1>2, <1>3 DEF PostState
<1>7. \A q \in Requests : source'.request[q] = IF q = r THEN Post!Idle ELSE source.request[q]
  BY <1>6, PostDoneIs
<1>8. /\ PostUnheard(source', copy') /\ PostOwnId(source')
      /\ PostAnnounced(source', copy') /\ PostNotified(source', copy')
      /\ copy' \in PostReadersState /\ (copy'.half => source'.bus # <<>>)
  BY <1>1, <1>5, <1>6, PostRewrittenInv
<1>9. PostCounted(source')
  BY <1>1, <1>4, <1>5, <1>6 DEF PostInv, PostGood, PostState, PostCounted
<1>10. PostEditsFind(source') /\ PostEmptied(source')
  BY <1>6, <1>7, PostIdleTyped DEF PostInv, PostGood, PostEditsFind, PostEmptied
<1> QED
  BY <1>6, <1>8, <1>9, <1>10 DEF PostInv, PostGood

LEMMA PostDropInv ==
  ASSUME PostInv, NEW r \in Requests, Post!WriteDrop(r)
  PROVE  PostInv'
<1> DEFINE comments == [i \in Post!Ids |-> {}]
           count == 0
           request == [source.request EXCEPT ![r] = Post!Idle]
<1>1. copy' = copy /\ source \in PostState /\ copy \in PostReadersState
  BY PostRequestTyped DEF Post!WriteDrop
<1>2. /\ request \in [Requests -> [at : {"idle", "found"}, asks : Post!Asks, user : Users,
                                   of : {0} \union Post!Ids]]
      /\ comments \in [Post!Ids -> SUBSET Post!Comment] /\ \A id \in Post!Ids : comments[id] = {}
      /\ count \in Int
  BY <1>1, PostRequestTyped
<1>3. source' = [source EXCEPT !.request = request, !.exists = FALSE, !.comments = comments,
                 !.repostCount = count]
  BY <1>1 DEF Post!WriteDrop, Post!Done, PostState
<1> HIDE DEF comments, count
<1>4. /\ source' \in PostState /\ source'.request = request /\ source'.comments = comments
      /\ source'.bus = source.bus /\ source'.exists = FALSE /\ source'.acts = source.acts
      /\ source'.reposts = source.reposts
      /\ source'.twice = source.twice /\ source'.revived = source.revived
  BY <1>1, <1>2, <1>3 DEF PostState
<1>5. \A q \in Requests : source'.request[q] = IF q = r THEN Post!Idle ELSE source.request[q]
  BY <1>4, PostDoneIs
<1>6. /\ PostUnheard(source', copy') /\ PostOwnId(source')
      /\ PostAnnounced(source', copy') /\ PostNotified(source', copy')
      /\ copy' \in PostReadersState /\ (copy'.half => source'.bus # <<>>)
  BY <1>1, <1>2, <1>4, PostRewrittenInv
<1>7. PostCounted(source') /\ PostEmptied(source')
  BY <1>2, <1>4 DEF PostCounted, PostEmptied
<1>8. PostEditsFind(source')
  BY <1>2, <1>4, <1>5, PostIdleTyped DEF PostInv, PostGood, PostEditsFind
<1> QED
  BY <1>4, <1>6, <1>7, <1>8 DEF PostInv, PostGood

\* The steps of realtime-svc.
LEMMA PostNotifyInv ==
  ASSUME PostInv, Post!NotifyOwner
  PROVE  PostInv'
<1> DEFINE event == Head(source.bus)
           id == event.id
           more == IF event.author # Owner THEN copy.notices[id] + 1 ELSE copy.notices[id]
           notices == [copy.notices EXCEPT ![id] = more]
           rerun == IF copy.half THEN copy.rerun \union {id} ELSE copy.rerun
<1>1. /\ source \in PostState /\ copy \in PostReadersState /\ source' = source /\ source.bus # <<>>
  BY DEF PostInv, PostGood, Post!NotifyOwner
<1>2. /\ 1 \in 1..Len(source.bus) /\ event = source.bus[1] /\ id \in Post!Ids
      /\ \A i \in 1..Len(source.bus) : source.bus[i].id \in Post!Ids
  <2>1. Len(source.bus) # 0 /\ event = source.bus[1]
    BY <1>1, PostBusTyped
  <2> QED
    BY <2>1, PostBusTyped
<1>3. copy' = [copy EXCEPT !.half = TRUE, !.notices = notices, !.rerun = rerun]
  BY <1>1 DEF Post!NotifyOwner, PostReadersState
<1>4. /\ more \in Nat /\ notices \in [Post!Ids -> Nat] /\ rerun \in SUBSET Post!Ids
      /\ \A k \in Post!Ids : notices[k] = IF k = id THEN more ELSE copy.notices[k]
  BY <1>1, <1>2 DEF PostReadersState
<1>5. \A k : k \in rerun <=> k \in copy.rerun \/ (copy.half /\ k = id)
  OBVIOUS
<1>6. more = IF event.author # Owner THEN copy.notices[id] + 1 ELSE copy.notices[id]
  OBVIOUS
<1> HIDE DEF more, notices, rerun
<1>7. /\ copy' \in PostReadersState /\ copy'.half = TRUE /\ copy'.notices = notices
      /\ copy'.rerun = rerun
  BY <1>1, <1>3, <1>4 DEF PostReadersState
<1>8. PostOnBus(source, id)
  BY <1>2 DEF PostOnBus
<1>9. PostUnheard(source, copy')
  BY <1>4, <1>7, <1>8 DEF PostInv, PostGood, PostUnheard
<1>10. PostAnnounced(source, copy')
  <2> SUFFICES ASSUME NEW i \in 1..Len(source.bus), source.bus[i].id \notin rerun
               PROVE  notices[source.bus[i].id] = IF i = 1 /\ source.bus[i].author # Owner THEN 1 ELSE 0
    BY <1>7 DEF PostInv, PostGood, PostAnnounced
  <2>1. copy.notices[source.bus[i].id] =
            IF i = 1 /\ copy.half /\ source.bus[i].author # Owner THEN 1 ELSE 0
    BY <1>5 DEF PostInv, PostGood, PostAnnounced
  <2>2. CASE i = 1
    <3>1. ~copy.half
      BY <1>2, <1>5, <2>2
    <3> QED
      BY <1>2, <1>4, <1>6, <2>1, <2>2, <3>1
  <2>3. CASE i # 1
    <3>1. source.bus[i].id # id
      BY <1>2, <2>3 DEF PostInv, PostGood, PostAnnounced
    <3> QED
      BY <1>2, <1>4, <2>1, <2>3, <3>1
  <2> QED
    BY <2>2, <2>3
<1>11. PostNotified(source, copy')
  BY <1>4, <1>5, <1>7, <1>8 DEF PostInv, PostGood, PostNotified
<1> QED
  BY <1>1, <1>7, <1>9, <1>10, <1>11 DEF PostInv, PostGood

LEMMA PostCommitInv ==
  ASSUME PostInv, Post!Commit \/ Post!ParkComment
  PROVE  PostInv'
<1> DEFINE event == Head(source.bus)
           id == event.id
           bus == Tail(source.bus)
           n == Len(source.bus)
           rerun == copy.rerun \union {id}
<1>1. /\ source \in PostState /\ copy \in PostReadersState /\ source.bus # <<>>
      /\ Post!Commit => copy.half
  BY DEF PostInv, PostGood, Post!Commit, Post!ParkComment
<1>2. /\ n \in Nat /\ 1 \in 1..n /\ event = source.bus[1] /\ id \in Post!Ids
      /\ bus \in Seq([id : Post!Ids, author : Users]) /\ Len(bus) = n - 1
      /\ \A i \in 1..Len(bus) : bus[i] = source.bus[i + 1] /\ i + 1 \in 1..n /\ i + 1 # 1
      /\ \A i \in 1..n : i = 1 \/ i - 1 \in 1..Len(bus)
  <2>1. n # 0 /\ n \in Nat /\ event = source.bus[1]
    BY <1>1, PostBusTyped
  <2>2. bus \in Seq([id : Post!Ids, author : Users]) /\ Len(bus) = n - 1
    BY <1>1, <2>1, PostBusTyped
  <2>3. \A i \in 1..Len(bus) : bus[i] = source.bus[i + 1]
    BY <1>1, <2>1, <2>2, PostBusTyped
  <2>4. id \in Post!Ids
    BY <2>1, PostBusTyped
  <2>5. /\ \A i \in 1..Len(bus) : i + 1 \in 1..n /\ i + 1 # 1
        /\ \A i \in 1..n : i = 1 \/ i - 1 \in 1..Len(bus)
    BY <2>1, <2>2
  <2> HIDE DEF event, id, bus, n
  <2> QED
    BY <2>1, <2>2, <2>3, <2>4, <2>5
<1>3. /\ source' = [source EXCEPT !.bus = bus]
      /\ Post!Commit => copy' = [copy EXCEPT !.half = FALSE]
      /\ Post!ParkComment => copy' = [copy EXCEPT !.half = FALSE, !.rerun = rerun]
  BY <1>1 DEF Post!Commit, Post!ParkComment
<1>4. rerun \in SUBSET Post!Ids /\ \A k : k \in rerun <=> k \in copy.rerun \/ k = id
  BY <1>1, <1>2 DEF PostReadersState
<1>5. \A i \in 1..n : i # 1 => source.bus[i] = bus[i - 1] /\ source.bus[i].id # id
  BY <1>2 DEF PostInv, PostGood, PostAnnounced
<1> HIDE DEF event, id, bus, rerun, n
<1>6. /\ source' \in PostState /\ source'.request = source.request /\ source'.comments = source.comments
      /\ source'.bus = bus /\ source'.exists = source.exists /\ source'.acts = source.acts
      /\ source'.reposts = source.reposts /\ source'.repostCount = source.repostCount
      /\ source'.twice = source.twice /\ source'.revived = source.revived
  BY <1>1, <1>2, <1>3 DEF PostState
<1>7. /\ copy' \in PostReadersState /\ copy'.half = FALSE /\ copy'.notices = copy.notices
      /\ IF Post!Commit THEN copy'.rerun = copy.rerun ELSE copy'.rerun = rerun
  <2>1. CASE Post!Commit
    BY <1>1, <1>3, <2>1 DEF PostReadersState
  <2>2. CASE ~Post!Commit
    BY <1>1, <1>3, <1>4, <2>2 DEF PostReadersState
  <2> QED
    BY <2>1, <2>2
<1>8. \A k : PostOnBus(source', k) <=> PostOnBus(source, k) /\ k # id
  <2>1. \A k : PostOnBus(source, k) <=> \E i \in 1..n : source.bus[i].id = k
    BY DEF PostOnBus, n
  <2>2. \A k : PostOnBus(source', k) <=> \E i \in 1..Len(bus) : bus[i].id = k
    BY <1>6 DEF PostOnBus
  <2>3. ASSUME NEW k, PostOnBus(source', k) PROVE PostOnBus(source, k) /\ k # id
    <3>1. PICK i \in 1..Len(bus) : bus[i].id = k
      BY <2>2, <2>3
    <3>2. i + 1 \in 1..n /\ i + 1 # 1 /\ source.bus[i + 1].id = k
      BY <1>2, <3>1
    <3> QED
      BY <1>5, <2>1, <3>2
  <2>4. ASSUME NEW k, PostOnBus(source, k), k # id PROVE PostOnBus(source', k)
    <3>1. PICK i \in 1..n : source.bus[i].id = k
      BY <2>1, <2>4
    <3>2. i # 1
      BY <1>2, <2>4, <3>1 DEF id
    <3>3. i - 1 \in 1..Len(bus) /\ bus[i - 1].id = k
      BY <1>2, <1>5, <3>1, <3>2
    <3> QED
      BY <2>2, <3>3
  <2> QED
    BY <2>3, <2>4
<1>9. /\ \A q \in Requests : PostCreates(source', q) <=> PostCreates(source, q)
      /\ PostOwnId(source') /\ PostEditsFind(source')
  BY <1>6 DEF PostInv, PostGood, PostCreates, PostOwnId, PostEditsFind
<1>10. PostUnheard(source', copy')
  BY <1>6, <1>7, <1>8, <1>9 DEF PostInv, PostGood, PostUnheard
<1>11. PostCounted(source') /\ PostEmptied(source')
  BY <1>6 DEF PostInv, PostGood, PostCounted, PostEmptied
<1>12. PostAnnounced(source', copy')
  <2> SUFFICES ASSUME NEW i \in 1..Len(bus)
               PROVE  /\ \A j \in 1..Len(bus) : bus[i].id = bus[j].id => i = j
                      /\ \A k \in source.comments[bus[i].id] : k.author = bus[i].author
                      /\ bus[i].id \notin copy'.rerun => copy.notices[bus[i].id] = 0
    BY <1>6, <1>7 DEF PostAnnounced
  <2>1. bus[i] = source.bus[i + 1] /\ i + 1 \in 1..n /\ i + 1 # 1
    BY <1>2
  <2>2. ASSUME NEW j \in 1..Len(bus), bus[i].id = bus[j].id PROVE i = j
    <3>1. bus[j] = source.bus[j + 1] /\ j + 1 \in 1..n
      BY <1>2
    <3>2. i + 1 = j + 1
      BY <2>1, <2>2, <3>1 DEF PostInv, PostGood, PostAnnounced, n
    <3> QED
      BY <3>2
  <2>3. bus[i].id \notin copy'.rerun => bus[i].id \notin copy.rerun
    BY <1>4, <1>7
  <2> QED
    BY <2>1, <2>2, <2>3 DEF PostInv, PostGood, PostAnnounced, n
<1>13. PostNotified(source', copy')
  <2> SUFFICES ASSUME NEW k \in Post!Ids \ copy'.rerun, ~PostOnBus(source', k),
                      NEW c \in source.comments[k]
               PROVE  copy.notices[k] = IF c.author = Owner THEN 0 ELSE 1
    BY <1>6, <1>7 DEF PostNotified
  <2>1. k \notin copy.rerun
    BY <1>4, <1>7
  <2>2. CASE ~PostOnBus(source, k)
    BY <2>1, <2>2 DEF PostInv, PostGood, PostNotified
  <2>3. CASE k = id
    <3>1. Post!Commit /\ copy.half
      BY <1>1, <1>4, <1>7, <2>3
    <3>2. k = source.bus[1].id
      BY <1>2, <2>3 DEF id
    <3>3. c.author = source.bus[1].author
      BY <1>2, <3>2 DEF PostInv, PostGood, PostAnnounced, n
    <3>4. copy.notices[k] = IF source.bus[1].author # Owner THEN 1 ELSE 0
      BY <1>2, <2>1, <3>1, <3>2 DEF PostInv, PostGood, PostAnnounced, n
    <3> QED
      BY <3>3, <3>4
  <2> QED
    BY <1>8, <2>2, <2>3
<1> QED
  BY <1>6, <1>7, <1>9, <1>10, <1>11, <1>12, <1>13 DEF PostInv, PostGood

LEMMA PostNextInv == PostInv /\ [Post!Next]_<<source, copy>> => PostInv'
<1>1. PostInv /\ UNCHANGED <<source, copy>> => PostInv'
  BY DEF PostInv
<1> QED
  BY <1>1, PostFindInv, PostCommentInv, PostEditInv, PostDeleteInv, PostRepostInv,
     PostWithdrawInv, PostDropInv,
     PostNotifyInv, PostCommitInv DEF Post!Next

-----------------------------------------------------------------------------
(* interaction-svc, realtime-svc and ranking-svc: what a sum lacks is on its *)
(* way, with the requests in flight or with the events not yet read.         *)

LEMMA LikesGiven ==
  /\ MaxActs["likes"] \in Nat
  /\ IsFiniteSet(Users) /\ IsFiniteSet(Requests) /\ Users # {}
  BY GroupAssumption DEF Likes!EngagementAssumption, Likes!IsFiniteSet, IsFiniteSet

LEMMA LikesCardSame == \A S : Likes!Cardinality(S) = Cardinality(S)
  BY DEF Likes!Cardinality, Cardinality

LikesRow == [at : {"idle", "count", "set", "emit"}, asks : Likes!Asks,
        user : Users, count : Likes!Counts, stale : BOOLEAN]

LikesState == [
    rows : SUBSET Users, cached : Likes!Counts \union {Likes!Cold}, stale : BOOLEAN,
    request : [Requests -> LikesRow],
    bus : [Likes!Topics -> Seq(Likes!Like)], tangled : BOOLEAN,
    miscounted : SUBSET Users, acts : 0..MaxActs["likes"]]

LikesReadersState == [
    read : [Likes!Groups -> [Likes!Topics -> Nat]], pushed : Likes!Counts \union {Likes!Cold},
    known : BOOLEAN, half : SUBSET Likes!Topics,
    engagement : Int, affinity : [Users -> Int]]

LikesRunning(c, r) == c.request[r].at # "idle" /\ c.request[r].asks \in Likes!Topics
LikesBehind(c, x, g, topic) == x.read[g][topic] < Len(c.bus[topic])

\* What a request has counted is the number of rows, until a row changes.
LikesRequested(c) ==
    \A r \in Requests :
        /\ c.request[r].at = "emit" => c.request[r].asks \in Likes!Topics
        /\ c.request[r].at # "set" => ~c.request[r].stale
        /\ c.request[r].at = "set" /\ ~c.request[r].stale =>
              c.request[r].count = Cardinality(c.rows)
        /\ ~c.tangled /\ c.request[r].at \in {"set", "emit"} =>
              c.request[r].count = Cardinality(c.rows)

LikesCached(c) ==
    c.cached # Likes!Cold /\ ~c.stale =>
        \/ c.cached = Cardinality(c.rows)
        \/ \E r \in Requests : c.request[r].at \in {"count", "set"}

\* No group has read what is not there, or is half through with it.
LikesReadAlong(c, x) ==
    \A topic \in Likes!Topics :
        /\ \A g \in Likes!Groups : x.read[g][topic] <= Len(c.bus[topic])
        /\ topic \in x.half => LikesBehind(c, x, "ranking", topic)

\* Untangled news is of one topic at a time, and the last of it, or what was
\* pushed when none is left, is the number of rows unless a request is to tell.
LikesUntangled(c, x) ==
    ~c.tangled =>
        /\ \A topic, other \in Likes!Topics :
              LikesBehind(c, x, "realtime", topic) /\ LikesBehind(c, x, "realtime", other) =>
                  topic = other
        /\ (\A r \in Requests : ~LikesRunning(c, r)) =>
              /\ \A topic \in Likes!Topics : LikesBehind(c, x, "realtime", topic) =>
                    c.bus[topic][Len(c.bus[topic])].count = Cardinality(c.rows)
              /\ (\A topic \in Likes!Topics : ~LikesBehind(c, x, "realtime", topic)) =>
                    x.pushed \in {Likes!Cold, Cardinality(c.rows)}

\* The likes, or unlikes, of some users that ranking-svc is still to read.
LikesTelling(c, W, topic) ==
    {r \in Requests : /\ c.request[r].at # "idle" /\ c.request[r].asks = topic
                      /\ c.request[r].user \in W}
LikesWaiting(c, x, W, topic) ==
    {i \in 1..Len(c.bus[topic]) : /\ i > x.read["ranking"][topic]
                                  /\ c.bus[topic][i].user \in W}
LikesOwed(c, x, W, topic) ==
    Cardinality(LikesTelling(c, W, topic)) + Cardinality(LikesWaiting(c, x, W, topic))
LikesHalfway(x, topic) == IF topic \in x.half THEN 1 ELSE 0

\* Each sum of ranking-svc, with what it is owed, is that of the rows.
LikesAffinityDue(c, x) ==
    \A u \in Users \ c.miscounted :
        x.affinity[u] + LikesOwed(c, x, {u}, "liked") - LikesOwed(c, x, {u}, "unliked") =
            IF u \in c.rows THEN 1 ELSE 0
LikesEngagementDue(c, x) ==
    c.miscounted = {} =>
        x.engagement + (LikesOwed(c, x, Users, "liked") - LikesHalfway(x, "liked"))
            - (LikesOwed(c, x, Users, "unliked") - LikesHalfway(x, "unliked")) = Cardinality(c.rows)

LikesGood(c, x) ==
    /\ c \in LikesState /\ x \in LikesReadersState
    /\ LikesRequested(c) /\ LikesCached(c) /\ LikesReadAlong(c, x) /\ LikesUntangled(c, x)
    /\ LikesAffinityDue(c, x) /\ LikesEngagementDue(c, x)

LikesInv == LikesGood(source, copy)

LEMMA LikesInvTyped == LikesInv => Likes!TypeOK
  BY DEF LikesInv, LikesGood, LikesState, LikesReadersState, LikesRow, Likes!TypeOK

LEMMA LikesCountsAre ==
  /\ Likes!Counts = 0..Cardinality(Users) /\ Cardinality(Users) \in Nat
  /\ \A S \in SUBSET Users : IsFiniteSet(S) /\ Cardinality(S) \in Nat /\ Cardinality(S) \in Likes!Counts
<1>1. Likes!Counts = 0..Cardinality(Users)
  BY LikesCardSame DEF Likes!Counts
<1>2. Cardinality(Users) \in Nat
  BY LikesGiven, FS_CardinalityType
<1>3. ASSUME NEW S \in SUBSET Users
      PROVE  IsFiniteSet(S) /\ Cardinality(S) \in Nat /\ Cardinality(S) <= Cardinality(Users)
  BY LikesGiven, FS_Subset, FS_CardinalityType
<1> QED
  BY <1>1, <1>2, <1>3

LEMMA LikesIdleTyped ==
  Likes!Idle \in LikesRow /\ Likes!Idle.at = "idle" /\ Likes!Idle.asks = "count" /\ ~Likes!Idle.stale
<1>1. (CHOOSE u \in Users : TRUE) \in Users
  BY LikesGiven
<1>2. 0 \in Likes!Counts
  BY LikesCountsAre
<1> QED
  BY <1>1, <1>2 DEF Likes!Idle, LikesRow, Likes!Asks

\* What is owed is a number.
LEMMA LikesOwedTyped ==
  ASSUME NEW c, NEW x, NEW W, NEW topic, Len(c.bus[topic]) \in Nat
  PROVE  /\ IsFiniteSet(LikesTelling(c, W, topic)) /\ IsFiniteSet(LikesWaiting(c, x, W, topic))
         /\ Cardinality(LikesTelling(c, W, topic)) \in Nat
         /\ Cardinality(LikesWaiting(c, x, W, topic)) \in Nat
         /\ LikesOwed(c, x, W, topic) \in Nat
<1>1. LikesTelling(c, W, topic) \subseteq Requests
  BY DEF LikesTelling
<1>2. LikesWaiting(c, x, W, topic) \subseteq 1..Len(c.bus[topic])
  BY DEF LikesWaiting
<1>3. IsFiniteSet(1..Len(c.bus[topic]))
  BY FS_Interval
<1>4. IsFiniteSet(LikesTelling(c, W, topic)) /\ IsFiniteSet(LikesWaiting(c, x, W, topic))
  BY <1>1, <1>2, <1>3, LikesGiven, FS_Subset
<1> QED
  BY <1>4, FS_CardinalityType DEF LikesOwed

LEMMA LikesBusTyped ==
  ASSUME NEW c \in LikesState, NEW topic \in Likes!Topics
  PROVE  /\ c.bus[topic] \in Seq(Likes!Like) /\ Len(c.bus[topic]) \in Nat
         /\ \A i \in 1..Len(c.bus[topic]) : /\ c.bus[topic][i].user \in Users
                                            /\ c.bus[topic][i].count \in Likes!Counts
<1>1. c.bus[topic] \in Seq(Likes!Like)
  BY DEF LikesState
<1>2. Len(c.bus[topic]) \in Nat /\ \A i \in 1..Len(c.bus[topic]) : c.bus[topic][i] \in Likes!Like
  BY <1>1
<1> QED
  BY <1>1, <1>2 DEF Likes!Like

LEMMA LikesAppended ==
  ASSUME NEW S, NEW q \in Seq(S), NEW e \in S
  PROVE  /\ Append(q, e) \in Seq(S) /\ Len(Append(q, e)) = Len(q) + 1
         /\ \A i \in 1..Len(q) : Append(q, e)[i] = q[i]
         /\ Append(q, e)[Len(q) + 1] = e
  OBVIOUS

LEMMA LikesInvAgrees == LikesInv => Likes!LikesAgree
<1> SUFFICES ASSUME LikesInv PROVE Likes!LikesAgree
  OBVIOUS
<1>1. Likes!CacheCounts
  BY LikesCardSame DEF LikesInv, LikesGood, LikesCached, Likes!CacheCounts
<1>2. Likes!PushCounts
  BY LikesCardSame
     DEF LikesInv, LikesGood, LikesUntangled, Likes!PushCounts, Likes!Emitted,
        Likes!AllRead, Likes!Unread, LikesBehind, LikesRunning
<1>3. Likes!RankingCounts
  <2> SUFFICES ASSUME Likes!Emitted, Likes!AllRead("ranking")
               PROVE  /\ source.miscounted = {} => copy.engagement = Cardinality(source.rows)
                      /\ \A u \in Users \ source.miscounted :
                            copy.affinity[u] = IF u \in source.rows THEN 1 ELSE 0
    BY LikesCardSame DEF Likes!RankingCounts
  <2>1. \A topic \in Likes!Topics : ~LikesBehind(source, copy, "ranking", topic)
    BY DEF Likes!AllRead, Likes!Unread, LikesBehind
  <2>2. source \in LikesState /\ copy \in LikesReadersState
    BY DEF LikesInv, LikesGood
  <2>3. ASSUME NEW W, NEW topic \in Likes!Topics PROVE LikesOwed(source, copy, W, topic) = 0
    <3>1. LikesTelling(source, W, topic) = {}
      BY DEF LikesTelling, Likes!Emitted
    <3>2. Len(source.bus[topic]) \in Nat /\ copy.read["ranking"][topic] \in Nat
      BY <2>2, LikesBusTyped DEF LikesReadersState, Likes!Groups
    <3>3. LikesWaiting(source, copy, W, topic) = {}
      BY <2>1, <3>2 DEF LikesWaiting, LikesBehind
    <3> QED
      BY <3>1, <3>3, FS_EmptySet DEF LikesOwed
  <2>4. copy.half = {}
    BY <2>1, <2>2 DEF LikesInv, LikesGood, LikesReadAlong, LikesReadersState
  <2>5. {"liked", "unliked"} = Likes!Topics
    BY DEF Likes!Topics
  <2>6. \A W : LikesOwed(source, copy, W, "liked") = 0 /\ LikesOwed(source, copy, W, "unliked") = 0
    BY <2>3, <2>5
  <2>7. copy.engagement \in Int /\ \A u \in Users : copy.affinity[u] \in Int
    BY <2>2 DEF LikesReadersState
  <2>8. source.miscounted = {} => copy.engagement = Cardinality(source.rows)
    BY <2>4, <2>6, <2>7 DEF LikesInv, LikesGood, LikesEngagementDue, LikesHalfway
  <2>9. \A u \in Users \ source.miscounted :
            copy.affinity[u] = IF u \in source.rows THEN 1 ELSE 0
    <3> SUFFICES ASSUME NEW u \in Users \ source.miscounted
                 PROVE  copy.affinity[u] = IF u \in source.rows THEN 1 ELSE 0
      OBVIOUS
    <3>1. copy.affinity[u] + LikesOwed(source, copy, {u}, "liked")
              - LikesOwed(source, copy, {u}, "unliked") = IF u \in source.rows THEN 1 ELSE 0
      BY DEF LikesInv, LikesGood, LikesAffinityDue
    <3>2. LikesOwed(source, copy, {u}, "liked") = 0 /\ LikesOwed(source, copy, {u}, "unliked") = 0
      BY <2>6
    <3>3. copy.affinity[u] \in Int
      BY <2>7
    <3> QED
      BY <3>1, <3>2, <3>3
  <2> QED
    BY <2>8, <2>9
<1> QED
  BY <1>1, <1>2, <1>3 DEF Likes!LikesAgree

LEMMA LikesInitInv == Likes!Init => LikesInv
<1> SUFFICES ASSUME Likes!Init PROVE LikesInv
  OBVIOUS
<1>0. PICK rows \in SUBSET Users :
        /\ source = [rows |-> rows, cached |-> Cardinality(rows), stale |-> FALSE,
                    request |-> [r \in Requests |-> Likes!Idle],
                    bus |-> [t \in Likes!Topics |-> <<>>], tangled |-> FALSE,
                    miscounted |-> {}, acts |-> 0]
        /\ \E known \in {TRUE, rows # {}} :
              copy = [read |-> [g \in Likes!Groups |-> [t \in Likes!Topics |-> 0]],
                         pushed |-> Likes!Cold, known |-> known, half |-> {},
                         engagement |-> Cardinality(rows),
                         affinity |-> [u \in Users |-> IF u \in rows THEN 1 ELSE 0]]
  BY LikesCardSame DEF Likes!Init
<1> DEFINE count == Cardinality(rows)
           request == [r \in Requests |-> Likes!Idle]
           bus == [t \in Likes!Topics |-> <<>>]
           read == [g \in Likes!Groups |-> [t \in Likes!Topics |-> 0]]
           affinity == [u \in Users |-> IF u \in rows THEN 1 ELSE 0]
<1>1. /\ count \in Likes!Counts /\ count \in Nat /\ count \in Int
      /\ request \in [Requests -> LikesRow] /\ 0 \in 0..MaxActs["likes"]
      /\ read \in [Likes!Groups -> [Likes!Topics -> Nat]] /\ affinity \in [Users -> Int]
  BY LikesCountsAre, LikesIdleTyped, LikesGiven
<1>2. <<>> \in Seq(Likes!Like) /\ Len(<<>>) = 0
  OBVIOUS
<1>3. bus \in [Likes!Topics -> Seq(Likes!Like)]
  BY <1>2
<1>4. /\ \A r \in Requests : request[r] = Likes!Idle
      /\ \A t \in Likes!Topics : bus[t] = <<>>
      /\ \A g \in Likes!Groups, t \in Likes!Topics : read[g][t] = 0
      /\ \A u \in Users : affinity[u] = IF u \in rows THEN 1 ELSE 0
  OBVIOUS
<1> HIDE DEF count, request, bus, read, affinity
<1>5. source = [rows |-> rows, cached |-> count, stale |-> FALSE, request |-> request,
               bus |-> bus, tangled |-> FALSE, miscounted |-> {}, acts |-> 0]
  BY <1>0 DEF count, request, bus
<1>6. PICK known \in BOOLEAN :
        copy = [read |-> read, pushed |-> Likes!Cold, known |-> known, half |-> {},
                   engagement |-> count, affinity |-> affinity]
  BY <1>0 DEF count, read, affinity
<1>7. source \in LikesState /\ copy \in LikesReadersState
  BY <1>1, <1>3, <1>5, <1>6 DEF LikesState, LikesReadersState
<1>8. /\ source.rows = rows /\ source.cached = count /\ source.request = request
      /\ source.bus = bus /\ copy.read = read /\ copy.pushed = Likes!Cold
      /\ copy.half = {} /\ copy.engagement = count /\ copy.affinity = affinity
  BY <1>5, <1>6
<1>9. LikesRequested(source) /\ LikesCached(source)
  BY <1>4, <1>8, LikesIdleTyped DEF LikesRequested, LikesCached, count
<1>10. LikesReadAlong(source, copy) /\ LikesUntangled(source, copy)
  BY <1>2, <1>4, <1>8 DEF LikesReadAlong, LikesUntangled, LikesBehind, Likes!Groups
<1>11. ASSUME NEW W, NEW topic \in Likes!Topics PROVE LikesOwed(source, copy, W, topic) = 0
  <2>1. LikesTelling(source, W, topic) = {}
    BY <1>4, <1>8, LikesIdleTyped DEF LikesTelling
  <2>2. LikesWaiting(source, copy, W, topic) = {}
    BY <1>2, <1>4, <1>8 DEF LikesWaiting
  <2> QED
    BY <2>1, <2>2, FS_EmptySet DEF LikesOwed
<1>12. \A W : LikesOwed(source, copy, W, "liked") = 0 /\ LikesOwed(source, copy, W, "unliked") = 0
  BY <1>11 DEF Likes!Topics
<1>13. LikesAffinityDue(source, copy)
  <2> SUFFICES ASSUME NEW u \in Users
               PROVE  affinity[u] + LikesOwed(source, copy, {u}, "liked")
                          - LikesOwed(source, copy, {u}, "unliked") = IF u \in rows THEN 1 ELSE 0
    BY <1>8 DEF LikesAffinityDue
  <2>1. affinity[u] = IF u \in rows THEN 1 ELSE 0
    BY <1>4
  <2>2. LikesOwed(source, copy, {u}, "liked") = 0 /\ LikesOwed(source, copy, {u}, "unliked") = 0
    BY <1>12
  <2> QED
    BY <2>1, <2>2
<1>14. LikesEngagementDue(source, copy)
  BY <1>1, <1>8, <1>12 DEF LikesEngagementDue, LikesHalfway, count
<1> QED
  BY <1>7, <1>9, <1>10, <1>13, <1>14 DEF LikesInv, LikesGood

\* What is owed does not depend on how far a request is, as long as it is not
\* done.
LEMMA LikesOwedSame ==
  ASSUME NEW c, NEW d, NEW x, NEW y, NEW W, NEW topic,
         d.bus = c.bus, y.read["ranking"] = x.read["ranking"],
         \A r \in Requests :
             /\ (d.request[r].at # "idle" /\ d.request[r].asks = topic) <=>
                    (c.request[r].at # "idle" /\ c.request[r].asks = topic)
             /\ d.request[r].at # "idle" /\ d.request[r].asks = topic =>
                    d.request[r].user = c.request[r].user
  PROVE  LikesOwed(d, y, W, topic) = LikesOwed(c, x, W, topic)
<1>1. LikesTelling(d, W, topic) = LikesTelling(c, W, topic)
  BY DEF LikesTelling
<1>2. LikesWaiting(d, y, W, topic) = LikesWaiting(c, x, W, topic)
  BY DEF LikesWaiting
<1> QED
  BY <1>1, <1>2 DEF LikesOwed

\* A new request is owed.
LEMMA LikesOwedMore ==
  ASSUME NEW c \in LikesState, NEW d, NEW x, NEW W, NEW topic \in Likes!Topics, NEW r \in Requests,
         d.bus = c.bus, c.request[r].at = "idle", d.request[r].at # "idle",
         \A q \in Requests \ {r} :
             /\ d.request[q].at = c.request[q].at /\ d.request[q].asks = c.request[q].asks
             /\ d.request[q].user = c.request[q].user
  PROVE  LikesOwed(d, x, W, topic) =
             IF d.request[r].asks = topic /\ d.request[r].user \in W
             THEN LikesOwed(c, x, W, topic) + 1 ELSE LikesOwed(c, x, W, topic)
<1> DEFINE T == LikesTelling(c, W, topic)
<1>1. Len(c.bus[topic]) \in Nat
  BY LikesBusTyped
<1>2. IsFiniteSet(T) /\ Cardinality(T) \in Nat /\ Cardinality(LikesWaiting(c, x, W, topic)) \in Nat
  BY <1>1, LikesOwedTyped
<1>3. LikesWaiting(d, x, W, topic) = LikesWaiting(c, x, W, topic)
  BY DEF LikesWaiting
<1>4. r \notin T
  BY DEF LikesTelling
<1>5. LikesTelling(d, W, topic) = IF d.request[r].asks = topic /\ d.request[r].user \in W
                             THEN T \union {r} ELSE T
  BY DEF LikesTelling
<1>6. Cardinality(T \union {r}) = Cardinality(T) + 1
  BY <1>2, <1>4, FS_AddElement
<1> HIDE DEF T
<1> QED
  BY <1>2, <1>3, <1>5, <1>6 DEF LikesOwed, T

\* A request that has told leaves an event for it.
LEMMA LikesOwedMoved ==
  ASSUME NEW c \in LikesState, NEW d, NEW x \in LikesReadersState, NEW W, NEW topic \in Likes!Topics,
         NEW r \in Requests, LikesReadAlong(c, x),
         c.request[r].at # "idle", c.request[r].asks \in Likes!Topics, d.request[r].at = "idle",
         \A q \in Requests \ {r} : d.request[q] = c.request[q],
         NEW like \in Likes!Like, like.user = c.request[r].user,
         \A t \in Likes!Topics :
             d.bus[t] = IF t = c.request[r].asks THEN Append(c.bus[t], like) ELSE c.bus[t]
  PROVE  LikesOwed(d, x, W, topic) = LikesOwed(c, x, W, topic)
<1> DEFINE T == LikesTelling(c, W, topic)
           S == LikesWaiting(c, x, W, topic)
           n == Len(c.bus[topic])
<1>1. n \in Nat /\ c.bus[topic] \in Seq(Likes!Like) /\ x.read["ranking"][topic] \in Nat
  BY LikesBusTyped DEF LikesReadersState, Likes!Groups
<1>2. /\ IsFiniteSet(T) /\ Cardinality(T) \in Nat /\ IsFiniteSet(S) /\ Cardinality(S) \in Nat
  BY <1>1, LikesOwedTyped
<1>3. CASE c.request[r].asks # topic
  <2>1. LikesTelling(d, W, topic) = T
    BY <1>3 DEF LikesTelling
  <2>2. LikesWaiting(d, x, W, topic) = S
    BY <1>3 DEF LikesWaiting
  <2> QED
    BY <2>1, <2>2 DEF LikesOwed
<1>4. CASE c.request[r].asks = topic /\ c.request[r].user \notin W
  <2>1. LikesTelling(d, W, topic) = T
    BY <1>4 DEF LikesTelling
  <2>2. /\ Len(d.bus[topic]) = n + 1 /\ \A i \in 1..n : d.bus[topic][i] = c.bus[topic][i]
        /\ d.bus[topic][n + 1] = like
    <3>1. d.bus[topic] = Append(c.bus[topic], like)
      BY <1>4
    <3>2. /\ Len(Append(c.bus[topic], like)) = n + 1
          /\ \A i \in 1..n : Append(c.bus[topic], like)[i] = c.bus[topic][i]
          /\ Append(c.bus[topic], like)[n + 1] = like
      BY <1>1, LikesAppended
    <3> HIDE DEF n
    <3> QED
      BY <3>1, <3>2
  <2>3. LikesWaiting(d, x, W, topic) = S
    <3>1. \A i \in 1..(n + 1) : i \in 1..n \/ i = n + 1
      BY <1>1
    <3>2. \A i \in 1..n : i \in 1..(n + 1)
      BY <1>1
    <3> HIDE DEF n
    <3> QED
      BY <1>4, <2>2, <3>1, <3>2 DEF LikesWaiting, n
  <2> QED
    BY <2>1, <2>3 DEF LikesOwed
<1>5. CASE c.request[r].asks = topic /\ c.request[r].user \in W
  <2>1. r \in T /\ LikesTelling(d, W, topic) = T \ {r}
    BY <1>5 DEF LikesTelling
  <2>2. /\ Len(d.bus[topic]) = n + 1 /\ \A i \in 1..n : d.bus[topic][i] = c.bus[topic][i]
        /\ d.bus[topic][n + 1] = like
    <3>1. d.bus[topic] = Append(c.bus[topic], like)
      BY <1>5
    <3>2. /\ Len(Append(c.bus[topic], like)) = n + 1
          /\ \A i \in 1..n : Append(c.bus[topic], like)[i] = c.bus[topic][i]
          /\ Append(c.bus[topic], like)[n + 1] = like
      BY <1>1, LikesAppended
    <3> HIDE DEF n
    <3> QED
      BY <3>1, <3>2
  <2>3. n + 1 > x.read["ranking"][topic]
    BY <1>1 DEF LikesReadAlong, Likes!Groups
  <2>4. LikesWaiting(d, x, W, topic) = S \union {n + 1} /\ n + 1 \notin S
    <3>1. \A i \in 1..(n + 1) : i \in 1..n \/ i = n + 1
      BY <1>1
    <3>2. (\A i \in 1..n : i \in 1..(n + 1)) /\ n + 1 \in 1..(n + 1) /\ n + 1 \notin 1..n
      BY <1>1
    <3> DEFINE m == n + 1
    <3>3. /\ \A i \in 1..m : i \in 1..n \/ i = m
          /\ (\A i \in 1..n : i \in 1..m) /\ m \in 1..m /\ m \notin 1..n
          /\ Len(d.bus[topic]) = m /\ d.bus[topic][m] = like
          /\ m > x.read["ranking"][topic]
      BY <2>2, <2>3, <3>1, <3>2
    <3> HIDE DEF m, n
    <3>4. LikesWaiting(d, x, W, topic) = S \union {m} /\ m \notin S
      BY <1>5, <2>2, <3>3 DEF LikesWaiting, n
    <3> QED
      BY <3>4 DEF m, n
  <2>5. Cardinality(S \union {n + 1}) = Cardinality(S) + 1
    BY <1>2, <2>4, FS_AddElement
  <2>6. Cardinality(T \ {r}) = Cardinality(T) - 1
    BY <1>2, <2>1, FS_RemoveElement
  <2> HIDE DEF T, S, n
  <2>7. LikesOwed(d, x, W, topic) = (Cardinality(T) - 1) + (Cardinality(S) + 1)
    BY <2>1, <2>4, <2>5, <2>6 DEF LikesOwed
  <2> QED
    BY <1>2, <2>7 DEF LikesOwed, T, S
<1> QED
  BY <1>3, <1>4, <1>5

\* An event that was read is owed no more.
LEMMA LikesOwedRead ==
  ASSUME NEW c \in LikesState, NEW d, NEW x \in LikesReadersState, NEW y, NEW W,
         NEW topic \in Likes!Topics, NEW t \in Likes!Topics, LikesBehind(c, x, "ranking", t),
         d.bus = c.bus, d.request = c.request,
         \A s \in Likes!Topics : y.read["ranking"][s] =
             IF s = t THEN x.read["ranking"][s] + 1 ELSE x.read["ranking"][s]
  PROVE  LikesOwed(d, y, W, topic) =
             IF topic = t /\ c.bus[t][x.read["ranking"][t] + 1].user \in W
             THEN LikesOwed(c, x, W, topic) - 1 ELSE LikesOwed(c, x, W, topic)
<1> DEFINE S == LikesWaiting(c, x, W, topic)
           n == Len(c.bus[topic])
           k == x.read["ranking"][topic]
<1>1. n \in Nat /\ k \in Nat
  BY LikesBusTyped DEF LikesReadersState, Likes!Groups
<1>2. IsFiniteSet(S) /\ Cardinality(S) \in Nat /\ Cardinality(LikesTelling(c, W, topic)) \in Nat
  BY <1>1, LikesOwedTyped
<1>3. LikesTelling(d, W, topic) = LikesTelling(c, W, topic)
  BY DEF LikesTelling
<1>4. CASE topic # t
  <2>1. LikesWaiting(d, y, W, topic) = S
    BY <1>4 DEF LikesWaiting
  <2> QED
    BY <1>3, <1>4, <2>1 DEF LikesOwed
<1>5. CASE topic = t
  <2>1. k < n
    BY <1>5 DEF LikesBehind
  <2> DEFINE m == k + 1
  <2>2. /\ m \in 1..n /\ m > k
        /\ \A i \in 1..n : i > m <=> (i > k /\ i # m)
        /\ y.read["ranking"][topic] = m
    BY <1>1, <1>5, <2>1
  <2> HIDE DEF m, n, k
  <2>3. /\ LikesWaiting(d, y, W, topic) = S \ {m}
        /\ m \in S <=> c.bus[topic][m].user \in W
    BY <2>2 DEF LikesWaiting, n, k
  <2>4. CASE c.bus[topic][m].user \in W
    <3>1. Cardinality(S \ {m}) = Cardinality(S) - 1
      BY <1>2, <2>3, <2>4, FS_RemoveElement
    <3> HIDE DEF S
    <3>2. LikesOwed(d, y, W, topic) = Cardinality(LikesTelling(c, W, topic)) + (Cardinality(S) - 1)
      BY <1>3, <2>3, <3>1 DEF LikesOwed
    <3>3. LikesOwed(d, y, W, topic) = LikesOwed(c, x, W, topic) - 1
      BY <1>2, <3>2 DEF LikesOwed, S
    <3> QED
      BY <1>5, <2>4, <3>3 DEF m, k
  <2>5. CASE c.bus[topic][m].user \notin W
    <3>1. S \ {m} = S
      BY <2>3, <2>5
    <3>2. LikesOwed(d, y, W, topic) = LikesOwed(c, x, W, topic)
      BY <1>3, <2>3, <3>1 DEF LikesOwed
    <3> QED
      BY <1>5, <2>5, <3>2 DEF m, k
  <2> QED
    BY <2>4, <2>5
<1> QED
  BY <1>4, <1>5
\*REST
\* A sum stays right while neither it, nor the rows, nor what is owed changes.
LEMMA LikesDueStays ==
  ASSUME NEW c, NEW d, NEW x, NEW y, LikesAffinityDue(c, x), LikesEngagementDue(c, x),
         d.rows = c.rows, c.miscounted \subseteq d.miscounted,
         y.affinity = x.affinity, y.engagement = x.engagement, y.half = x.half,
         \A W : \A topic \in Likes!Topics : LikesOwed(d, y, W, topic) = LikesOwed(c, x, W, topic)
  PROVE  LikesAffinityDue(d, y) /\ LikesEngagementDue(d, y)
<1>1. \A W : /\ LikesOwed(d, y, W, "liked") = LikesOwed(c, x, W, "liked")
             /\ LikesOwed(d, y, W, "unliked") = LikesOwed(c, x, W, "unliked")
  BY DEF Likes!Topics
<1>2. LikesAffinityDue(d, y)
  BY <1>1 DEF LikesAffinityDue
<1>3. d.miscounted = {} => c.miscounted = {}
  OBVIOUS
<1>4. LikesEngagementDue(d, y)
  BY <1>1, <1>3 DEF LikesEngagementDue, LikesHalfway
<1> QED
  BY <1>2, <1>4

\* A step that tells nothing and reads nothing.
LEMMA LikesProceeds ==
  ASSUME NEW c, NEW d \in LikesState, NEW x, NEW y \in LikesReadersState, LikesGood(c, x),
         d.rows = c.rows, d.bus = c.bus, d.tangled = c.tangled, d.miscounted = c.miscounted,
         y.read = x.read, y.pushed = x.pushed, y.half = x.half,
         y.engagement = x.engagement, y.affinity = x.affinity,
         \A r \in Requests : /\ LikesRunning(d, r) <=> LikesRunning(c, r)
                             /\ LikesRunning(d, r) => /\ d.request[r].asks = c.request[r].asks
                                                 /\ d.request[r].user = c.request[r].user,
         LikesRequested(d), LikesCached(d)
  PROVE  LikesGood(d, y)
<1>1. \A W : \A topic \in Likes!Topics : LikesOwed(d, y, W, topic) = LikesOwed(c, x, W, topic)
  <2> SUFFICES ASSUME NEW W, NEW topic \in Likes!Topics PROVE LikesOwed(d, y, W, topic) = LikesOwed(c, x, W, topic)
    OBVIOUS
  <2>1. \A r \in Requests :
            /\ (d.request[r].at # "idle" /\ d.request[r].asks = topic) <=>
                   (c.request[r].at # "idle" /\ c.request[r].asks = topic)
            /\ d.request[r].at # "idle" /\ d.request[r].asks = topic =>
                   d.request[r].user = c.request[r].user
    BY DEF LikesRunning
  <2> QED
    BY <2>1, LikesOwedSame
<1>2. LikesAffinityDue(d, y) /\ LikesEngagementDue(d, y)
  BY <1>1, LikesDueStays DEF LikesGood
<1>3. LikesReadAlong(d, y)
  BY DEF LikesGood, LikesReadAlong, LikesBehind
<1>4. LikesUntangled(d, y)
  BY DEF LikesGood, LikesUntangled, LikesBehind
<1> QED
  BY <1>2, <1>3, <1>4 DEF LikesGood

LEMMA LikesLoadCountInv == ASSUME LikesInv, NEW r \in Requests, Likes!LoadCount(r) PROVE LikesInv'
<1> DEFINE row == [Likes!Idle EXCEPT !.at = "count"]
           request == [source.request EXCEPT ![r] = row]
           acts == source.acts + 1
<1>1. /\ source \in LikesState /\ copy \in LikesReadersState /\ LikesGood(source, copy)
      /\ source.request[r].at = "idle"
  BY DEF LikesInv, LikesGood, Likes!LoadCount
<1>2. row \in LikesRow /\ row.at = "count" /\ row.asks = "count" /\ ~row.stale
  BY LikesIdleTyped DEF LikesRow
<1> HIDE DEF row
<1>3. /\ request \in [Requests -> LikesRow] /\ request[r] = row
      /\ \A q \in Requests \ {r} : request[q] = source.request[q]
  BY <1>1, <1>2 DEF LikesState
<1>4. acts \in 0..MaxActs["likes"]
  BY <1>1, LikesGiven DEF LikesState, Likes!LoadCount, Likes!Act
<1>5. source' = [source EXCEPT !.request = request, !.acts = acts] /\ copy' = copy
  BY <1>1 DEF Likes!LoadCount, Likes!Acted, row, LikesState
<1> HIDE DEF request, acts
<1>6. /\ source' \in LikesState
      /\ source'.rows = source.rows /\ source'.cached = source.cached
      /\ source'.stale = source.stale /\ source'.request = request /\ source'.bus = source.bus
      /\ source'.tangled = source.tangled /\ source'.miscounted = source.miscounted
  BY <1>1, <1>3, <1>4, <1>5 DEF LikesState
<1>7. LikesRequested(source')
  BY <1>1, <1>2, <1>3, <1>6 DEF LikesGood, LikesRequested
<1>8. LikesCached(source')
  BY <1>1, <1>2, <1>3, <1>6 DEF LikesGood, LikesCached
<1>9. \A q \in Requests :
          /\ LikesRunning(source', q) <=> LikesRunning(source, q)
          /\ LikesRunning(source', q) => /\ source'.request[q].asks = source.request[q].asks
                                   /\ source'.request[q].user = source.request[q].user
  BY <1>1, <1>2, <1>3, <1>6 DEF LikesRunning, Likes!Topics
<1> QED
  BY <1>1, <1>5, <1>6, <1>7, <1>8, <1>9, LikesProceeds DEF LikesInv

LEMMA LikesCountInv == ASSUME LikesInv, NEW r \in Requests, Likes!Count(r) PROVE LikesInv'
<1> DEFINE count == Cardinality(source.rows)
           row == [source.request[r] EXCEPT !.at = "set", !.count = count]
           request == [source.request EXCEPT ![r] = row]
<1>1. /\ source \in LikesState /\ copy \in LikesReadersState /\ LikesGood(source, copy)
      /\ source.request[r].at = "count" /\ source.request[r] \in LikesRow
  BY DEF LikesInv, LikesGood, Likes!Count, LikesState
<1>2. count \in Likes!Counts
  BY <1>1, LikesCountsAre DEF LikesState
<1>3. source' = [source EXCEPT !.request = [source.request EXCEPT ![r] =
                    [source.request[r] EXCEPT !.at = "set", !.count = count]]]
      /\ copy' = copy
  BY <1>1, LikesCardSame DEF Likes!Count, LikesState
<1> HIDE DEF count
<1>4. /\ row \in LikesRow /\ row.at = "set" /\ row.asks = source.request[r].asks
      /\ row.user = source.request[r].user /\ row.count = count
      /\ row.stale = source.request[r].stale
  BY <1>1, <1>2 DEF LikesRow
<1> HIDE DEF row
<1>5. /\ request \in [Requests -> LikesRow] /\ request[r] = row
      /\ \A q \in Requests \ {r} : request[q] = source.request[q]
  BY <1>1, <1>4 DEF LikesState
<1>6. source' = [source EXCEPT !.request = request]
  BY <1>3 DEF row
<1> HIDE DEF request
<1>7. /\ source' \in LikesState
      /\ source'.rows = source.rows /\ source'.cached = source.cached
      /\ source'.stale = source.stale /\ source'.request = request /\ source'.bus = source.bus
      /\ source'.tangled = source.tangled /\ source'.miscounted = source.miscounted
  BY <1>1, <1>5, <1>6 DEF LikesState
<1>8. LikesRequested(source')
  <2> SUFFICES ASSUME NEW q \in Requests
               PROVE  /\ request[q].at = "emit" => request[q].asks \in Likes!Topics
                      /\ request[q].at # "set" => ~request[q].stale
                      /\ request[q].at = "set" /\ ~request[q].stale => request[q].count = count
                      /\ ~source.tangled /\ request[q].at \in {"set", "emit"} =>
                            request[q].count = count
    BY <1>7 DEF LikesRequested, count
  <2>1. CASE q = r
    BY <1>4, <1>5, <2>1
  <2>2. CASE q # r
    BY <1>1, <1>5, <2>2 DEF LikesGood, LikesRequested, count
  <2> QED
    BY <2>1, <2>2
<1>9. LikesCached(source')
  BY <1>1, <1>4, <1>5, <1>7 DEF LikesGood, LikesCached
<1>10. \A q \in Requests :
          /\ LikesRunning(source', q) <=> LikesRunning(source, q)
          /\ LikesRunning(source', q) => /\ source'.request[q].asks = source.request[q].asks
                                   /\ source'.request[q].user = source.request[q].user
  BY <1>1, <1>4, <1>5, <1>7 DEF LikesRunning
<1> QED
  BY <1>1, <1>3, <1>7, <1>8, <1>9, <1>10, LikesProceeds DEF LikesInv

LEMMA LikesSetCountInv == ASSUME LikesInv, NEW r \in Requests, Likes!SetCount(r) PROVE LikesInv'
<1> DEFINE old == source.request[r]
           row == IF old.asks = "count" THEN Likes!Idle
                  ELSE [old EXCEPT !.at = "emit", !.stale = FALSE]
           request == [source.request EXCEPT ![r] = row]
<1>1. /\ source \in LikesState /\ copy \in LikesReadersState /\ LikesGood(source, copy)
      /\ old.at = "set" /\ old \in LikesRow
  BY DEF LikesInv, LikesGood, Likes!SetCount, LikesState
<1>2. /\ source' = [source EXCEPT !.cached = old.count, !.stale = old.stale, !.request = request]
      /\ copy' = copy
  BY <1>1 DEF Likes!SetCount, LikesState
<1>3. /\ row \in LikesRow
      /\ old.asks = "count" => row.at = "idle" /\ ~row.stale
      /\ old.asks # "count" => /\ row.at = "emit" /\ row.asks = old.asks /\ row.asks \in Likes!Topics
                               /\ row.user = old.user /\ row.count = old.count /\ ~row.stale
  BY <1>1, LikesIdleTyped DEF LikesRow, Likes!Asks
<1> HIDE DEF row
<1>4. /\ request \in [Requests -> LikesRow] /\ request[r] = row
      /\ \A q \in Requests \ {r} : request[q] = source.request[q]
  BY <1>1, <1>3 DEF LikesState
<1> HIDE DEF request
<1>5. /\ source' \in LikesState
      /\ source'.rows = source.rows /\ source'.cached = old.count
      /\ source'.stale = old.stale /\ source'.request = request /\ source'.bus = source.bus
      /\ source'.tangled = source.tangled /\ source'.miscounted = source.miscounted
  BY <1>1, <1>2, <1>4 DEF LikesState, LikesRow
<1>6. LikesRequested(source')
  <2> SUFFICES ASSUME NEW q \in Requests
               PROVE  /\ request[q].at = "emit" => request[q].asks \in Likes!Topics
                      /\ request[q].at # "set" => ~request[q].stale
                      /\ request[q].at = "set" /\ ~request[q].stale =>
                            request[q].count = Cardinality(source.rows)
                      /\ ~source.tangled /\ request[q].at \in {"set", "emit"} =>
                            request[q].count = Cardinality(source.rows)
    BY <1>5 DEF LikesRequested
  <2>1. CASE q = r
    BY <1>1, <1>3, <1>4, <2>1 DEF LikesGood, LikesRequested
  <2>2. CASE q # r
    BY <1>1, <1>4, <2>2 DEF LikesGood, LikesRequested
  <2> QED
    BY <2>1, <2>2
<1>7. LikesCached(source')
  BY <1>1, <1>5 DEF LikesGood, LikesCached, LikesRequested
<1>8. \A q \in Requests :
          /\ LikesRunning(source', q) <=> LikesRunning(source, q)
          /\ LikesRunning(source', q) => /\ source'.request[q].asks = source.request[q].asks
                                   /\ source'.request[q].user = source.request[q].user
  BY <1>1, <1>3, <1>4, <1>5 DEF LikesRunning, Likes!Topics
<1> QED
  BY <1>1, <1>2, <1>5, <1>6, <1>7, <1>8, LikesProceeds DEF LikesInv

LEMMA LikesEvictInv == ASSUME LikesInv, Likes!Evict PROVE LikesInv'
<1> DEFINE off == FALSE
<1>1. source \in LikesState /\ copy \in LikesReadersState /\ LikesGood(source, copy)
  BY DEF LikesInv, LikesGood
<1>2. /\ source' = [source EXCEPT !.cached = Likes!Cold, !.stale = off] /\ copy' = copy
      /\ off \in BOOLEAN
  BY DEF Likes!Evict
<1> HIDE DEF off
<1>3. /\ source' \in LikesState
      /\ source'.rows = source.rows /\ source'.cached = Likes!Cold
      /\ source'.request = source.request /\ source'.bus = source.bus
      /\ source'.tangled = source.tangled /\ source'.miscounted = source.miscounted
  BY <1>1, <1>2 DEF LikesState
<1>4. LikesRequested(source') /\ LikesCached(source')
  BY <1>1, <1>3 DEF LikesGood, LikesRequested, LikesCached
<1>5. \A q \in Requests :
          /\ LikesRunning(source', q) <=> LikesRunning(source, q)
          /\ LikesRunning(source', q) => /\ source'.request[q].asks = source.request[q].asks
                                   /\ source'.request[q].user = source.request[q].user
  BY <1>3 DEF LikesRunning
<1> QED
  BY <1>1, <1>2, <1>3, <1>4, <1>5, LikesProceeds DEF LikesInv

LEMMA LikesRecordPostInv == ASSUME LikesInv, Likes!RecordPost PROVE LikesInv'
<1> DEFINE on == TRUE
<1>1. source \in LikesState /\ copy \in LikesReadersState /\ LikesGood(source, copy)
  BY DEF LikesInv, LikesGood
<1>2. copy' = [copy EXCEPT !.known = on] /\ source' = source /\ on \in BOOLEAN
  BY DEF Likes!RecordPost
<1> HIDE DEF on
<1>3. /\ copy' \in LikesReadersState
      /\ copy'.read = copy.read /\ copy'.pushed = copy.pushed
      /\ copy'.half = copy.half /\ copy'.engagement = copy.engagement
      /\ copy'.affinity = copy.affinity
  BY <1>1, <1>2 DEF LikesReadersState
<1>4. LikesRequested(source) /\ LikesCached(source)
  BY <1>1 DEF LikesGood
<1> QED
  BY <1>1, <1>2, <1>3, <1>4, LikesProceeds DEF LikesInv

LEMMA LikesChangeInv == ASSUME LikesInv, NEW r \in Requests, Likes!Change(r) PROVE LikesInv'
<1>1. /\ source \in LikesState /\ copy \in LikesReadersState /\ LikesGood(source, copy)
      /\ source.request[r].at = "idle" /\ copy' = copy
  BY DEF LikesInv, LikesGood, Likes!Change
<1>2. PICK user \in Users, topic \in Likes!Topics :
        LET rows == IF topic = "liked" THEN source.rows \union {user} ELSE source.rows \ {user}
            others == [source.request EXCEPT ![r] = [Likes!Idle EXCEPT !.at = "count", !.asks = topic,
                                                                !.user = user]] IN
        source' = [Likes!Acted EXCEPT !.rows = rows,
                   !.miscounted = IF rows = source.rows THEN @ \union {user} ELSE @,
                   !.tangled = @ \/ \E q \in Requests : source.request[q].at \in {"set", "emit"},
                   !.request = [q \in Requests |->
                       [others[q] EXCEPT !.stale = @ \/ others[q].at = "set"]]]
  BY DEF Likes!Change
<1> DEFINE rows == IF topic = "liked" THEN source.rows \union {user} ELSE source.rows \ {user}
           new == [Likes!Idle EXCEPT !.at = "count", !.asks = topic, !.user = user]
           others == [source.request EXCEPT ![r] = new]
           request == [q \in Requests |-> [others[q] EXCEPT !.stale = @ \/ others[q].at = "set"]]
           miscounted == IF rows = source.rows THEN source.miscounted \union {user}
                         ELSE source.miscounted
           tangled == source.tangled \/ \E q \in Requests : source.request[q].at \in {"set", "emit"}
           acts == source.acts + 1
<1>3. source' = [source EXCEPT !.rows = rows, !.miscounted = miscounted, !.tangled = tangled,
                   !.request = request, !.acts = acts]
  BY <1>1, <1>2 DEF Likes!Acted, LikesState
<1>4. acts \in 0..MaxActs["likes"]
  BY <1>1, LikesGiven DEF LikesState, Likes!Change, Likes!Act
<1>5. /\ new \in LikesRow /\ new.at = "count" /\ new.asks = topic /\ new.user = user /\ ~new.stale
  BY LikesIdleTyped DEF LikesRow, Likes!Asks
<1> HIDE DEF new
<1>6. /\ others \in [Requests -> LikesRow] /\ others[r] = new
      /\ \A q \in Requests \ {r} : others[q] = source.request[q]
  BY <1>1, <1>5 DEF LikesState
<1> HIDE DEF others
<1>7. /\ request \in [Requests -> LikesRow]
      /\ \A q \in Requests :
            /\ request[q].at = others[q].at /\ request[q].asks = others[q].asks
            /\ request[q].user = others[q].user /\ request[q].count = others[q].count
            /\ request[q].stale <=> others[q].stale \/ others[q].at = "set"
  BY <1>6 DEF LikesRow
<1> HIDE DEF request
<1>8. /\ rows \in SUBSET Users /\ miscounted \in SUBSET Users /\ tangled \in BOOLEAN
      /\ source.miscounted \subseteq miscounted
      /\ tangled <=> source.tangled \/ \E q \in Requests : source.request[q].at \in {"set", "emit"}
  BY <1>1 DEF LikesState
<1>9. /\ user \notin miscounted => rows # source.rows
      /\ miscounted = {} => rows # source.rows
  OBVIOUS
<1> HIDE DEF miscounted, tangled, rows, acts
<1>10. /\ source' \in LikesState
      /\ source'.rows = rows /\ source'.cached = source.cached
      /\ source'.stale = source.stale /\ source'.request = request /\ source'.bus = source.bus
      /\ source'.tangled = tangled /\ source'.miscounted = miscounted
  BY <1>1, <1>3, <1>4, <1>7, <1>8 DEF LikesState
<1>11. request[r].at = "count" /\ request[r].asks = topic /\ request[r].user = user
  BY <1>5, <1>6, <1>7
<1>12. \A q \in Requests \ {r} :
          /\ request[q].at = source.request[q].at /\ request[q].asks = source.request[q].asks
          /\ request[q].user = source.request[q].user
          /\ request[q].stale <=> source.request[q].stale \/ source.request[q].at = "set"
  BY <1>6, <1>7
<1>13. LikesRequested(source')
  <2> SUFFICES ASSUME NEW q \in Requests
               PROVE  /\ request[q].at = "emit" => request[q].asks \in Likes!Topics
                      /\ request[q].at # "set" => ~request[q].stale
                      /\ request[q].at = "set" => request[q].stale
                      /\ request[q].at \in {"set", "emit"} => tangled
    BY <1>10 DEF LikesRequested
  <2>1. CASE q = r
    BY <1>5, <1>6, <1>7, <1>11, <2>1
  <2>2. CASE q # r
    BY <1>1, <1>8, <1>12, <2>2 DEF LikesGood, LikesRequested
  <2> QED
    BY <2>1, <2>2
<1>14. LikesCached(source')
  BY <1>10, <1>11 DEF LikesCached
<1>15. LikesReadAlong(source', copy)
  BY <1>1, <1>10 DEF LikesGood, LikesReadAlong, LikesBehind
<1>16. LikesRunning(source', r)
  BY <1>10, <1>11 DEF LikesRunning
<1>17. LikesUntangled(source', copy)
  BY <1>1, <1>8, <1>10, <1>16 DEF LikesGood, LikesUntangled, LikesBehind
<1>18. \A W : \A t \in Likes!Topics :
          LikesOwed(source', copy, W, t) = IF topic = t /\ user \in W
                                        THEN LikesOwed(source, copy, W, t) + 1
                                        ELSE LikesOwed(source, copy, W, t)
  <2> SUFFICES ASSUME NEW W, NEW t \in Likes!Topics
               PROVE  LikesOwed(source', copy, W, t) = IF topic = t /\ user \in W
                                                    THEN LikesOwed(source, copy, W, t) + 1
                                                    ELSE LikesOwed(source, copy, W, t)
    OBVIOUS
  <2> QED
    BY <1>1, <1>10, <1>11, <1>12, LikesOwedMore
<1>19. /\ \A W : LikesOwed(source, copy, W, "liked") \in Nat /\ LikesOwed(source, copy, W, "unliked") \in Nat
       /\ copy.engagement \in Int /\ \A u \in Users : copy.affinity[u] \in Int
  BY <1>1, LikesBusTyped, LikesOwedTyped DEF LikesReadersState, Likes!Topics
<1>20. topic = "liked" \/ topic = "unliked"
  BY DEF Likes!Topics
<1>21. LikesAffinityDue(source', copy)
  <2> SUFFICES ASSUME NEW u \in Users \ miscounted
               PROVE  copy.affinity[u] + LikesOwed(source', copy, {u}, "liked")
                          - LikesOwed(source', copy, {u}, "unliked") = IF u \in rows THEN 1 ELSE 0
    BY <1>10 DEF LikesAffinityDue
  <2>1. copy.affinity[u] + LikesOwed(source, copy, {u}, "liked")
            - LikesOwed(source, copy, {u}, "unliked") = IF u \in source.rows THEN 1 ELSE 0
    BY <1>1, <1>8 DEF LikesGood, LikesAffinityDue
  <2>2. CASE u # user
    <3>1. u \in rows <=> u \in source.rows
      BY <2>2 DEF rows
    <3>2. /\ LikesOwed(source', copy, {u}, "liked") = LikesOwed(source, copy, {u}, "liked")
          /\ LikesOwed(source', copy, {u}, "unliked") = LikesOwed(source, copy, {u}, "unliked")
      BY <1>18, <2>2 DEF Likes!Topics
    <3> QED
      BY <2>1, <3>1, <3>2
  <2>3. CASE u = user
    <3>1. CASE topic = "liked"
      <4>1. u \in rows /\ u \notin source.rows
        BY <1>9, <2>3, <3>1 DEF rows
      <4>2. /\ LikesOwed(source', copy, {u}, "liked") = LikesOwed(source, copy, {u}, "liked") + 1
            /\ LikesOwed(source', copy, {u}, "unliked") = LikesOwed(source, copy, {u}, "unliked")
        BY <1>18, <2>3, <3>1 DEF Likes!Topics
      <4> QED
        BY <1>19, <2>1, <4>1, <4>2
    <3>2. CASE topic = "unliked"
      <4>1. u \notin rows /\ u \in source.rows
        BY <1>9, <2>3, <3>2 DEF rows
      <4>2. /\ LikesOwed(source', copy, {u}, "unliked") = LikesOwed(source, copy, {u}, "unliked") + 1
            /\ LikesOwed(source', copy, {u}, "liked") = LikesOwed(source, copy, {u}, "liked")
        BY <1>18, <2>3, <3>2 DEF Likes!Topics
      <4> QED
        BY <1>19, <2>1, <4>1, <4>2
    <3> QED
      BY <1>20, <3>1, <3>2
  <2> QED
    BY <2>2, <2>3
<1>22. LikesEngagementDue(source', copy)
  <2> SUFFICES ASSUME miscounted = {}
               PROVE  copy.engagement
                          + (LikesOwed(source', copy, Users, "liked") - LikesHalfway(copy, "liked"))
                          - (LikesOwed(source', copy, Users, "unliked") - LikesHalfway(copy, "unliked"))
                          = Cardinality(rows)
    BY <1>10 DEF LikesEngagementDue
  <2>1. copy.engagement
            + (LikesOwed(source, copy, Users, "liked") - LikesHalfway(copy, "liked"))
            - (LikesOwed(source, copy, Users, "unliked") - LikesHalfway(copy, "unliked"))
            = Cardinality(source.rows)
    BY <1>1, <1>8 DEF LikesGood, LikesEngagementDue
  <2>2. LikesHalfway(copy, "liked") \in Nat /\ LikesHalfway(copy, "unliked") \in Nat
    BY DEF LikesHalfway
  <2>3. IsFiniteSet(source.rows) /\ Cardinality(source.rows) \in Nat
    BY <1>1, LikesCountsAre DEF LikesState
  <2>4. CASE topic = "liked"
    <3>1. rows = source.rows \union {user} /\ user \notin source.rows
      BY <1>9, <2>4 DEF rows
    <3>2. Cardinality(rows) = Cardinality(source.rows) + 1
      BY <2>3, <3>1, FS_AddElement
    <3>3. /\ LikesOwed(source', copy, Users, "liked") = LikesOwed(source, copy, Users, "liked") + 1
          /\ LikesOwed(source', copy, Users, "unliked") = LikesOwed(source, copy, Users, "unliked")
      BY <1>18, <2>4 DEF Likes!Topics
    <3> QED
      BY <1>19, <2>1, <2>2, <2>3, <3>2, <3>3
  <2>5. CASE topic = "unliked"
    <3>1. rows = source.rows \ {user} /\ user \in source.rows
      BY <1>9, <2>5 DEF rows
    <3>2. Cardinality(rows) = Cardinality(source.rows) - 1
      BY <2>3, <3>1, FS_RemoveElement
    <3>3. /\ LikesOwed(source', copy, Users, "unliked") = LikesOwed(source, copy, Users, "unliked") + 1
          /\ LikesOwed(source', copy, Users, "liked") = LikesOwed(source, copy, Users, "liked")
      BY <1>18, <2>5 DEF Likes!Topics
    <3> QED
      BY <1>19, <2>1, <2>2, <2>3, <3>2, <3>3
  <2> QED
    BY <1>20, <2>4, <2>5
<1> QED
  BY <1>1, <1>10, <1>13, <1>14, <1>15, <1>17, <1>21, <1>22 DEF LikesInv, LikesGood

\* A request that is done, its news told or lost.
LEMMA LikesFinished ==
  ASSUME NEW c \in LikesState, NEW r \in Requests, NEW d, NEW rows,
         \A q \in Requests :
            /\ c.request[q].at = "emit" => c.request[q].asks \in Likes!Topics
            /\ c.request[q].at # "set" => ~c.request[q].stale
            /\ c.request[q].at = "set" /\ ~c.request[q].stale => c.request[q].count = rows
            /\ ~c.tangled /\ c.request[q].at \in {"set", "emit"} => c.request[q].count = rows,
         d.request[r] = Likes!Idle, \A q \in Requests \ {r} : d.request[q] = c.request[q],
         ~d.tangled => ~c.tangled, Cardinality(d.rows) = rows
  PROVE  LikesRequested(d)
<1> SUFFICES ASSUME NEW q \in Requests
             PROVE  /\ d.request[q].at = "emit" => d.request[q].asks \in Likes!Topics
                    /\ d.request[q].at # "set" => ~d.request[q].stale
                    /\ d.request[q].at = "set" /\ ~d.request[q].stale => d.request[q].count = rows
                    /\ ~d.tangled /\ d.request[q].at \in {"set", "emit"} =>
                          d.request[q].count = rows
  BY DEF LikesRequested
<1>1. CASE q = r
  BY <1>1, LikesIdleTyped
<1>2. CASE q # r
  BY <1>2
<1> QED
  BY <1>1, <1>2

LEMMA LikesEmitInv == ASSUME LikesInv, NEW r \in Requests, Likes!Emit(r) PROVE LikesInv'
<1> DEFINE old == source.request[r]
           request == [source.request EXCEPT ![r] = Likes!Idle]
           like == [user |-> old.user, count |-> old.count]
           bus == [source.bus EXCEPT ![old.asks] = Append(source.bus[old.asks], like)]
           tangled == source.tangled \/ \E t \in Likes!Topics \ {old.asks} : Likes!Unread("realtime", t)
           miscounted == source.miscounted \union {old.user}
           torn == TRUE
<1>1. /\ source \in LikesState /\ copy \in LikesReadersState /\ LikesGood(source, copy)
      /\ old.at = "emit" /\ old \in LikesRow /\ copy' = copy
  BY DEF LikesInv, LikesGood, Likes!Emit, LikesState
<1>2. old.asks \in Likes!Topics
  BY <1>1 DEF LikesGood, LikesRequested
<1>3. \/ source' = [source EXCEPT !.request = request, !.bus = bus, !.tangled = tangled]
      \/ source' = [source EXCEPT !.request = request, !.tangled = torn, !.miscounted = miscounted]
  BY <1>1, <1>2 DEF Likes!Emit, LikesState
<1>4. /\ request \in [Requests -> LikesRow] /\ request[r] = Likes!Idle
      /\ \A q \in Requests \ {r} : request[q] = source.request[q]
  BY <1>1, LikesIdleTyped DEF LikesState
<1>5. like \in Likes!Like /\ like.user = old.user /\ like.count = old.count
  BY <1>1 DEF LikesRow, Likes!Like
<1> HIDE DEF like
<1>6. source.bus[old.asks] \in Seq(Likes!Like) /\ Append(source.bus[old.asks], like) \in Seq(Likes!Like)
  BY <1>1, <1>2, <1>5, LikesBusTyped, LikesAppended
<1>7. /\ bus \in [Likes!Topics -> Seq(Likes!Like)]
      /\ \A t \in Likes!Topics : bus[t] = IF t = old.asks THEN Append(source.bus[t], like)
                                    ELSE source.bus[t]
  BY <1>1, <1>2, <1>6 DEF LikesState
<1>8. /\ tangled \in BOOLEAN /\ torn \in BOOLEAN /\ torn
      /\ tangled <=> source.tangled \/ \E t \in Likes!Topics \ {old.asks} : Likes!Unread("realtime", t)
  BY <1>1 DEF LikesState
<1>9. miscounted \in SUBSET Users /\ source.miscounted \subseteq miscounted /\ old.user \in miscounted
  BY <1>1 DEF LikesState, LikesRow
<1> HIDE DEF request, bus, tangled, miscounted, torn
<1>10. /\ source.request[r].at # "idle" /\ source.request[r].at = "emit"
       /\ Likes!Idle.at = "idle" /\ LikesRunning(source, r)
  BY <1>1, <1>2, LikesIdleTyped DEF LikesRunning
<1>11. CASE source' = [source EXCEPT !.request = request, !.bus = bus, !.tangled = tangled]
  <2>1. /\ source' \in LikesState
        /\ source'.rows = source.rows /\ source'.cached = source.cached
        /\ source'.stale = source.stale /\ source'.request = request /\ source'.bus = bus
        /\ source'.tangled = tangled /\ source'.miscounted = source.miscounted
    BY <1>1, <1>4, <1>7, <1>8, <1>11 DEF LikesState
  <2>2. LikesRequested(source')
    BY <1>1, <1>4, <1>8, <2>1, LikesFinished DEF LikesGood, LikesRequested
  <2>3. LikesCached(source')
    BY <1>1, <1>4, <1>10, <2>1 DEF LikesGood, LikesCached
  <2>4. /\ \A t \in Likes!Topics : /\ Len(source.bus[t]) \in Nat
                             /\ \A g \in Likes!Groups : copy.read[g][t] \in Nat
        /\ Len(bus[old.asks]) = Len(source.bus[old.asks]) + 1
        /\ bus[old.asks][Len(source.bus[old.asks]) + 1] = like
    <3>1. \A t \in Likes!Topics : Len(source.bus[t]) \in Nat
      BY <1>1, LikesBusTyped
    <3>2. \A t \in Likes!Topics : \A g \in Likes!Groups : copy.read[g][t] \in Nat
      BY <1>1 DEF LikesReadersState
    <3>3. bus[old.asks] = Append(source.bus[old.asks], like)
      BY <1>2, <1>7
    <3>4. /\ Len(Append(source.bus[old.asks], like)) = Len(source.bus[old.asks]) + 1
          /\ Append(source.bus[old.asks], like)[Len(source.bus[old.asks]) + 1] = like
      <4>1. like \in Likes!Like
        BY <1>5
      <4> HIDE DEF old
      <4> QED
        BY <1>6, <4>1, LikesAppended
    <3> QED
      BY <3>1, <3>2, <3>3, <3>4
  <2>5. \A t \in Likes!Topics : \A g \in Likes!Groups :
            LikesBehind(source', copy, g, t) <=> t = old.asks \/ LikesBehind(source, copy, g, t)
    <3> SUFFICES ASSUME NEW t \in Likes!Topics, NEW g \in Likes!Groups
                 PROVE  copy.read[g][t] < Len(bus[t]) <=>
                            t = old.asks \/ copy.read[g][t] < Len(source.bus[t])
      BY <2>1 DEF LikesBehind
    <3>1. CASE t = old.asks
      <4>1. copy.read[g][t] <= Len(source.bus[t])
        BY <1>1 DEF LikesGood, LikesReadAlong
      <4>2. Len(source.bus[t]) \in Nat /\ copy.read[g][t] \in Nat
        BY <2>4
      <4>3. Len(bus[t]) = Len(source.bus[t]) + 1
        BY <2>4, <3>1
      <4> QED
        BY <3>1, <4>1, <4>2, <4>3
    <3>2. CASE t # old.asks
      BY <1>7, <3>2
    <3> QED
      BY <3>1, <3>2
  <2>6. LikesReadAlong(source', copy)
    <3> SUFFICES ASSUME NEW t \in Likes!Topics
                 PROVE  /\ \A g \in Likes!Groups : copy.read[g][t] <= Len(bus[t])
                        /\ t \in copy.half => LikesBehind(source', copy, "ranking", t)
      BY <2>1 DEF LikesReadAlong
    <3>1. \A g \in Likes!Groups : copy.read[g][t] <= Len(source.bus[t])
      BY <1>1 DEF LikesGood, LikesReadAlong
    <3>2. Len(bus[t]) = Len(source.bus[t]) \/ Len(bus[t]) = Len(source.bus[t]) + 1
      BY <1>7, <2>4
    <3>3. t \in copy.half => LikesBehind(source', copy, "ranking", t)
      BY <1>1, <2>5 DEF LikesGood, LikesReadAlong, Likes!Groups
    <3> QED
      BY <2>4, <3>1, <3>2, <3>3
  <2>7. LikesUntangled(source', copy)
    <3> SUFFICES ASSUME ~tangled
                 PROVE  /\ \A topic, other \in Likes!Topics :
                              LikesBehind(source', copy, "realtime", topic)
                              /\ LikesBehind(source', copy, "realtime", other) => topic = other
                        /\ \A topic \in Likes!Topics : LikesBehind(source', copy, "realtime", topic) =>
                              bus[topic][Len(bus[topic])].count = Cardinality(source.rows)
                        /\ \E topic \in Likes!Topics : LikesBehind(source', copy, "realtime", topic)
      BY <2>1 DEF LikesUntangled
    <3>1. ~source.tangled /\ \A t \in Likes!Topics \ {old.asks} : ~LikesBehind(source, copy, "realtime", t)
      BY <1>8 DEF Likes!Unread, LikesBehind
    <3>2. "realtime" \in Likes!Groups
      BY DEF Likes!Groups
    <3>3. \A t \in Likes!Topics : LikesBehind(source', copy, "realtime", t) <=> t = old.asks
      BY <2>5, <3>1, <3>2
    <3>4. old.count = Cardinality(source.rows)
      BY <1>1, <3>1 DEF LikesGood, LikesRequested
    <3>5. bus[old.asks][Len(bus[old.asks])].count = Cardinality(source.rows)
      BY <1>5, <2>4, <3>4
    <3> QED
      BY <1>2, <3>3, <3>5
  <2>8. \A W : \A t \in Likes!Topics : LikesOwed(source', copy, W, t) = LikesOwed(source, copy, W, t)
    <3> SUFFICES ASSUME NEW W, NEW t \in Likes!Topics
                 PROVE  LikesOwed(source', copy, W, t) = LikesOwed(source, copy, W, t)
      OBVIOUS
    <3>1. LikesReadAlong(source, copy)
      BY <1>1 DEF LikesGood
    <3>2. /\ source'.request[r].at = "idle"
          /\ \A q \in Requests \ {r} : source'.request[q] = source.request[q]
          /\ \A s \in Likes!Topics : source'.bus[s] = IF s = source.request[r].asks
                                               THEN Append(source.bus[s], like) ELSE source.bus[s]
      BY <1>4, <1>7, <1>10, <2>1
    <3> QED
      BY <1>1, <1>2, <1>5, <1>10, <3>1, <3>2, LikesOwedMoved
  <2>9. LikesAffinityDue(source', copy) /\ LikesEngagementDue(source', copy)
    BY <1>1, <2>1, <2>8, LikesDueStays DEF LikesGood
  <2> QED
    BY <1>1, <2>1, <2>2, <2>3, <2>6, <2>7, <2>9 DEF LikesInv, LikesGood
<1>12. CASE source' = [source EXCEPT !.request = request, !.tangled = torn, !.miscounted = miscounted]
  <2>1. /\ source' \in LikesState
        /\ source'.rows = source.rows /\ source'.cached = source.cached
        /\ source'.stale = source.stale /\ source'.request = request /\ source'.bus = source.bus
        /\ source'.tangled = torn /\ source'.miscounted = miscounted
    BY <1>1, <1>4, <1>8, <1>9, <1>12 DEF LikesState
  <2>2. LikesRequested(source')
    <3>1. (~source'.tangled => ~source.tangled) /\ Cardinality(source'.rows) = Cardinality(source.rows)
      BY <1>8, <2>1
    <3>2. /\ source'.request[r] = Likes!Idle
          /\ \A q \in Requests \ {r} : source'.request[q] = source.request[q]
      BY <1>4, <2>1
    <3> QED
      BY <1>1, <3>1, <3>2, LikesFinished DEF LikesGood, LikesRequested
  <2>3. LikesCached(source')
    BY <1>1, <1>4, <1>10, <2>1 DEF LikesGood, LikesCached
  <2>4. LikesReadAlong(source', copy)
    BY <1>1, <2>1 DEF LikesGood, LikesReadAlong, LikesBehind
  <2>5. LikesUntangled(source', copy)
    BY <1>8, <2>1 DEF LikesUntangled
  <2>6. LikesAffinityDue(source', copy)
    <3> SUFFICES ASSUME NEW u \in Users \ miscounted
                 PROVE  copy.affinity[u] + LikesOwed(source', copy, {u}, "liked")
                            - LikesOwed(source', copy, {u}, "unliked") =
                                IF u \in source.rows THEN 1 ELSE 0
      BY <2>1 DEF LikesAffinityDue
    <3>1. u # old.user /\ u \in Users \ source.miscounted
      BY <1>9
    <3>2. ASSUME NEW t PROVE LikesOwed(source', copy, {u}, t) = LikesOwed(source, copy, {u}, t)
      <4>1. LikesTelling(source', {u}, t) = LikesTelling(source, {u}, t)
        BY <1>4, <1>10, <2>1, <3>1 DEF LikesTelling
      <4>2. LikesWaiting(source', copy, {u}, t) = LikesWaiting(source, copy, {u}, t)
        BY <2>1 DEF LikesWaiting
      <4> QED
        BY <4>1, <4>2 DEF LikesOwed
    <3>3. copy.affinity[u] + LikesOwed(source, copy, {u}, "liked")
              - LikesOwed(source, copy, {u}, "unliked") = IF u \in source.rows THEN 1 ELSE 0
      BY <1>1, <3>1 DEF LikesGood, LikesAffinityDue
    <3> QED
      BY <3>2, <3>3
  <2>7. LikesEngagementDue(source', copy)
    BY <1>9, <2>1 DEF LikesEngagementDue
  <2> QED
    BY <1>1, <2>1, <2>2, <2>3, <2>4, <2>5, <2>6, <2>7 DEF LikesInv, LikesGood
<1> QED
  BY <1>3, <1>11, <1>12

LEMMA LikesPushInv == ASSUME LikesInv, NEW topic \in Likes!Topics, Likes!Push(topic) PROVE LikesInv'
<1> DEFINE n == copy.read["realtime"][topic]
           read == [copy.read EXCEPT !["realtime"] = [copy.read["realtime"] EXCEPT ![topic] = n + 1]]
           count == source.bus[topic][n + 1].count
           torn == TRUE
<1>1. /\ source \in LikesState /\ copy \in LikesReadersState /\ LikesGood(source, copy)
      /\ n < Len(source.bus[topic])
  BY DEF LikesInv, LikesGood, Likes!Push, Likes!Unread
<1>2. n \in Nat /\ Len(source.bus[topic]) \in Nat
  BY <1>1, LikesBusTyped DEF LikesReadersState, Likes!Groups
<1>3. count \in Likes!Counts
  BY <1>1, <1>2, LikesBusTyped
<1>4. \/ copy' = [copy EXCEPT !.read = read, !.pushed = count] /\ source' = source
      \/ copy' = [copy EXCEPT !.read = read] /\ source' = [source EXCEPT !.tangled = torn]
  BY <1>1 DEF Likes!Push, Likes!Upcoming, LikesReadersState
<1>5. /\ read \in [Likes!Groups -> [Likes!Topics -> Nat]] /\ read["ranking"] = copy.read["ranking"]
      /\ read["realtime"][topic] = n + 1
      /\ \A t \in Likes!Topics \ {topic} : read["realtime"][t] = copy.read["realtime"][t]
  BY <1>1, <1>2 DEF LikesReadersState, Likes!Groups
<1>6. torn \in BOOLEAN /\ torn
  OBVIOUS
<1> HIDE DEF read, count, torn
<1>7. /\ copy' \in LikesReadersState
      /\ copy'.read = read /\ copy'.half = copy.half
      /\ copy'.engagement = copy.engagement /\ copy'.affinity = copy.affinity
  BY <1>1, <1>3, <1>4, <1>5 DEF LikesReadersState
<1>8. /\ source' \in LikesState
      /\ source'.rows = source.rows /\ source'.cached = source.cached
      /\ source'.stale = source.stale /\ source'.request = source.request /\ source'.bus = source.bus
      /\ source'.miscounted = source.miscounted
      /\ ~source'.tangled => ~source.tangled /\ copy'.pushed = count
  BY <1>1, <1>3, <1>4, <1>6, <1>7 DEF LikesState, LikesReadersState
<1>9. LikesRequested(source') /\ LikesCached(source')
  BY <1>1, <1>8 DEF LikesGood, LikesRequested, LikesCached
<1>10. LikesReadAlong(source', copy')
  <2> SUFFICES ASSUME NEW t \in Likes!Topics
               PROVE  /\ \A g \in Likes!Groups : read[g][t] <= Len(source.bus[t])
                      /\ t \in copy.half => read["ranking"][t] < Len(source.bus[t])
    BY <1>7, <1>8 DEF LikesReadAlong, LikesBehind
  <2>1. /\ \A g \in Likes!Groups : copy.read[g][t] <= Len(source.bus[t])
        /\ t \in copy.half => copy.read["ranking"][t] < Len(source.bus[t])
    BY <1>1 DEF LikesGood, LikesReadAlong, LikesBehind
  <2>2. read["realtime"][t] <= Len(source.bus[t])
    <3>1. CASE t = topic
      BY <1>1, <1>2, <1>5, <3>1
    <3>2. CASE t # topic
      BY <1>5, <2>1, <3>2 DEF Likes!Groups
    <3> QED
      BY <3>1, <3>2
  <2> QED
    BY <1>5, <2>1, <2>2 DEF Likes!Groups
<1>11. LikesUntangled(source', copy')
  <2> SUFFICES ASSUME ~source'.tangled
               PROVE  /\ \A t, other \in Likes!Topics :
                            LikesBehind(source', copy', "realtime", t)
                            /\ LikesBehind(source', copy', "realtime", other) => t = other
                      /\ (\A r \in Requests : ~LikesRunning(source', r)) =>
                            /\ \A t \in Likes!Topics : LikesBehind(source', copy', "realtime", t) =>
                                  source'.bus[t][Len(source'.bus[t])].count = Cardinality(source'.rows)
                            /\ (\A t \in Likes!Topics : ~LikesBehind(source', copy', "realtime", t)) =>
                                  copy'.pushed \in {Likes!Cold, Cardinality(source'.rows)}
    BY DEF LikesUntangled
  <2>1. ~source.tangled /\ copy'.pushed = count
    BY <1>8
  <2>2. /\ LikesBehind(source, copy, "realtime", topic)
        /\ \A t \in Likes!Topics : LikesBehind(source', copy', "realtime", t) =>
              LikesBehind(source, copy, "realtime", t)
    <3>1. LikesBehind(source, copy, "realtime", topic)
      BY <1>1 DEF LikesBehind
    <3>2. ASSUME NEW t \in Likes!Topics, t # topic, LikesBehind(source', copy', "realtime", t)
          PROVE  LikesBehind(source, copy, "realtime", t)
      BY <1>5, <1>7, <1>8, <3>2 DEF LikesBehind
    <3> QED
      BY <3>1, <3>2
  <2>3. \A t, other \in Likes!Topics :
            LikesBehind(source', copy', "realtime", t) /\ LikesBehind(source', copy', "realtime", other)
                => t = other
    BY <1>1, <2>1, <2>2 DEF LikesGood, LikesUntangled
  <2>4. ASSUME \A r \in Requests : ~LikesRunning(source', r)
        PROVE  /\ \A t \in Likes!Topics : LikesBehind(source', copy', "realtime", t) =>
                     source'.bus[t][Len(source'.bus[t])].count = Cardinality(source'.rows)
               /\ (\A t \in Likes!Topics : ~LikesBehind(source', copy', "realtime", t)) =>
                     copy'.pushed \in {Likes!Cold, Cardinality(source'.rows)}
    <3>1. \A r \in Requests : ~LikesRunning(source, r)
      BY <1>8, <2>4 DEF LikesRunning
    <3>2. \A t \in Likes!Topics : LikesBehind(source, copy, "realtime", t) =>
              source.bus[t][Len(source.bus[t])].count = Cardinality(source.rows)
      BY <1>1, <2>1, <3>1 DEF LikesGood, LikesUntangled
    <3>3. ASSUME ~LikesBehind(source', copy', "realtime", topic)
          PROVE  copy'.pushed = Cardinality(source'.rows)
      <4>1. ~(n + 1 < Len(source.bus[topic]))
        BY <1>5, <1>7, <1>8, <3>3 DEF LikesBehind
      <4>2. n + 1 = Len(source.bus[topic])
        BY <1>1, <1>2, <4>1
      <4> QED
        BY <1>8, <2>1, <2>2, <3>2, <4>2 DEF count
    <3> QED
      BY <1>8, <2>2, <3>2, <3>3
  <2> QED
    BY <2>3, <2>4
<1>12. \A W : \A t \in Likes!Topics : LikesOwed(source', copy', W, t) = LikesOwed(source, copy, W, t)
  BY <1>5, <1>7, <1>8, LikesOwedSame
<1>13. LikesAffinityDue(source', copy') /\ LikesEngagementDue(source', copy')
  BY <1>1, <1>7, <1>8, <1>12, LikesDueStays DEF LikesGood
<1> QED
  BY <1>7, <1>8, <1>9, <1>10, <1>11, <1>13 DEF LikesInv, LikesGood

LEMMA LikesAddEngagementInv ==
  ASSUME LikesInv, NEW topic \in Likes!Topics, Likes!AddEngagement(topic) PROVE LikesInv'
<1> DEFINE user == Likes!Upcoming("ranking", topic).user
           engagement == copy.engagement + Likes!Weight(topic)
           half == copy.half \union {topic}
           miscounted == IF topic \in copy.half THEN source.miscounted \union {user}
                         ELSE source.miscounted
<1>1. /\ source \in LikesState /\ copy \in LikesReadersState /\ LikesGood(source, copy)
      /\ LikesBehind(source, copy, "ranking", topic)
  BY DEF LikesInv, LikesGood, Likes!AddEngagement, Likes!Unread, LikesBehind
<1>2. user \in Users
  <2>1. copy.read["ranking"][topic] \in Nat /\ Len(source.bus[topic]) \in Nat
    BY <1>1, LikesBusTyped DEF LikesReadersState, Likes!Groups
  <2>2. copy.read["ranking"][topic] + 1 \in 1..Len(source.bus[topic])
    BY <1>1, <2>1 DEF LikesBehind
  <2> QED
    BY <1>1, <2>2, LikesBusTyped DEF Likes!Upcoming
<1>3. /\ copy.engagement \in Int /\ Likes!Weight(topic) \in Int /\ engagement \in Int
      /\ engagement = copy.engagement + Likes!Weight(topic)
  BY <1>1 DEF LikesReadersState, Likes!Weight
<1>4. /\ half \in SUBSET Likes!Topics /\ \A t : t \in half <=> t \in copy.half \/ t = topic
      /\ miscounted \in SUBSET Users /\ source.miscounted \subseteq miscounted
      /\ topic \in copy.half => miscounted # {}
  BY <1>1, <1>2 DEF LikesReadersState, LikesState
<1>5. /\ copy' = [copy EXCEPT !.engagement = engagement, !.half = half]
      /\ source' = [source EXCEPT !.miscounted = miscounted]
  BY <1>1 DEF Likes!AddEngagement, LikesState, LikesReadersState
<1> HIDE DEF user, engagement, half, miscounted
<1>6. /\ source' \in LikesState /\ copy' \in LikesReadersState
      /\ source'.rows = source.rows /\ source'.cached = source.cached
      /\ source'.stale = source.stale /\ source'.request = source.request /\ source'.bus = source.bus
      /\ source'.tangled = source.tangled /\ source'.miscounted = miscounted
      /\ copy'.read = copy.read /\ copy'.pushed = copy.pushed
      /\ copy'.half = half /\ copy'.engagement = engagement
      /\ copy'.affinity = copy.affinity
  BY <1>1, <1>3, <1>4, <1>5 DEF LikesState, LikesReadersState
<1>7. LikesRequested(source') /\ LikesCached(source')
  BY <1>1, <1>6 DEF LikesGood, LikesRequested, LikesCached
<1>8. LikesReadAlong(source', copy')
  BY <1>1, <1>4, <1>6 DEF LikesGood, LikesReadAlong, LikesBehind
<1>9. LikesUntangled(source', copy')
  BY <1>1, <1>6 DEF LikesGood, LikesUntangled, LikesBehind, LikesRunning
<1>10. \A W : /\ LikesOwed(source', copy', W, "liked") = LikesOwed(source, copy, W, "liked")
              /\ LikesOwed(source', copy', W, "unliked") = LikesOwed(source, copy, W, "unliked")
  BY <1>6, LikesOwedSame
<1>11. LikesAffinityDue(source', copy')
  BY <1>1, <1>4, <1>6, <1>10 DEF LikesGood, LikesAffinityDue
<1>12. LikesEngagementDue(source', copy')
  <2> SUFFICES ASSUME miscounted = {}
               PROVE  engagement + (LikesOwed(source, copy, Users, "liked") - LikesHalfway(copy', "liked"))
                          - (LikesOwed(source, copy, Users, "unliked") - LikesHalfway(copy', "unliked"))
                          = Cardinality(source.rows)
    BY <1>6, <1>10 DEF LikesEngagementDue
  <2>1. copy.engagement
            + (LikesOwed(source, copy, Users, "liked") - LikesHalfway(copy, "liked"))
            - (LikesOwed(source, copy, Users, "unliked") - LikesHalfway(copy, "unliked"))
            = Cardinality(source.rows)
    BY <1>1, <1>4 DEF LikesGood, LikesEngagementDue
  <2>2. /\ LikesOwed(source, copy, Users, "liked") \in Nat
        /\ LikesOwed(source, copy, Users, "unliked") \in Nat
    BY <1>1, LikesBusTyped, LikesOwedTyped DEF Likes!Topics
  <2>3. topic \notin copy.half
    BY <1>4
  <2>4. CASE topic = "liked"
    <3>1. /\ LikesHalfway(copy', "liked") = 1 /\ LikesHalfway(copy, "liked") = 0
          /\ LikesHalfway(copy', "unliked") = LikesHalfway(copy, "unliked")
          /\ LikesHalfway(copy, "unliked") \in Int
      BY <1>4, <1>6, <2>3, <2>4 DEF LikesHalfway
    <3>2. engagement = copy.engagement + 1
      BY <1>3, <2>4 DEF Likes!Weight
    <3> QED
      BY <1>3, <2>1, <2>2, <3>1, <3>2
  <2>5. CASE topic = "unliked"
    <3>1. /\ LikesHalfway(copy', "unliked") = 1 /\ LikesHalfway(copy, "unliked") = 0
          /\ LikesHalfway(copy', "liked") = LikesHalfway(copy, "liked")
          /\ LikesHalfway(copy, "liked") \in Int
      BY <1>4, <1>6, <2>3, <2>5 DEF LikesHalfway
    <3>2. engagement = copy.engagement - 1
      BY <1>3, <2>5 DEF Likes!Weight
    <3> QED
      BY <1>3, <2>1, <2>2, <3>1, <3>2
  <2> QED
    BY <2>4, <2>5 DEF Likes!Topics
<1> QED
  BY <1>6, <1>7, <1>8, <1>9, <1>11, <1>12 DEF LikesInv, LikesGood

\* The end of an event for ranking-svc: with the second increment, when its
\* first one was made, or without, and then the user is miscounted.
LEMMA LikesCommitInv ==
  ASSUME LikesInv, NEW topic \in Likes!Topics, Likes!BumpAffinity(topic) \/ Likes!ParkLike(topic)
  PROVE  LikesInv'
<1> DEFINE n == copy.read["ranking"][topic]
           user == Likes!Upcoming("ranking", topic).user
           read == [copy.read EXCEPT !["ranking"] = [copy.read["ranking"] EXCEPT ![topic] = n + 1]]
           half == copy.half \ {topic}
           sum == copy.affinity[user] + Likes!Weight(topic)
           affinity == [copy.affinity EXCEPT ![user] = sum]
           miscounted == source.miscounted \union {user}
<1>1. /\ source \in LikesState /\ copy \in LikesReadersState /\ LikesGood(source, copy)
      /\ LikesBehind(source, copy, "ranking", topic)
  BY DEF LikesInv, LikesGood, LikesReadAlong, Likes!BumpAffinity, Likes!ParkLike,
     Likes!Unread, LikesBehind
<1>2. n \in Nat /\ Len(source.bus[topic]) \in Nat /\ n < Len(source.bus[topic])
  BY <1>1, LikesBusTyped DEF LikesReadersState, Likes!Groups, LikesBehind
<1>3. user \in Users /\ user = source.bus[topic][n + 1].user
  BY <1>1, <1>2, LikesBusTyped DEF Likes!Upcoming
<1>4. \/ /\ topic \in copy.half /\ source' = source
         /\ copy' = [copy EXCEPT !.half = half, !.read = read, !.affinity = affinity]
      \/ /\ source' = [source EXCEPT !.miscounted = miscounted]
         /\ copy' = [copy EXCEPT !.half = half, !.read = read]
  <2>1. CASE Likes!ParkLike(topic)
    BY <1>1, <2>1 DEF Likes!ParkLike, LikesReadersState, LikesState
  <2>2. CASE Likes!BumpAffinity(topic) /\ copy.known
    BY <1>1, <2>2 DEF Likes!BumpAffinity, LikesReadersState
  <2>3. CASE Likes!BumpAffinity(topic) /\ ~copy.known
    <3>1. copy.affinity \in [Users -> Int] /\ user \in Users
      BY <1>1, <1>3 DEF LikesReadersState
    <3> DEFINE same == [copy.affinity EXCEPT ![user] = copy.affinity[user]]
    <3>2. same = copy.affinity
      BY <3>1
    <3>3. /\ source' = [source EXCEPT !.miscounted = miscounted]
          /\ copy' = [copy EXCEPT !.half = half, !.read = read, !.affinity = same]
      BY <1>1, <2>3 DEF Likes!BumpAffinity, LikesReadersState, LikesState
    <3> HIDE DEF same, half, read, user, miscounted
    <3>4. [copy EXCEPT !.half = half, !.read = read, !.affinity = same] =
              [copy EXCEPT !.half = half, !.read = read]
      BY <1>1, <3>2 DEF LikesReadersState
    <3> QED
      BY <3>3, <3>4
  <2> QED
    BY <2>1, <2>2, <2>3
<1>5. /\ read \in [Likes!Groups -> [Likes!Topics -> Nat]] /\ read["realtime"] = copy.read["realtime"]
      /\ \A t \in Likes!Topics : read["ranking"][t] = IF t = topic THEN copy.read["ranking"][t] + 1
                                                ELSE copy.read["ranking"][t]
  BY <1>1, <1>2 DEF LikesReadersState, Likes!Groups
<1>6. /\ half \in SUBSET Likes!Topics /\ \A t : t \in half <=> t \in copy.half /\ t # topic
      /\ miscounted \in SUBSET Users /\ source.miscounted \subseteq miscounted
      /\ user \in miscounted
  BY <1>1, <1>3 DEF LikesReadersState, LikesState
<1>7. /\ copy.affinity \in [Users -> Int] /\ copy.affinity[user] \in Int
      /\ Likes!Weight(topic) \in Int /\ sum \in Int /\ copy.engagement \in Int
  BY <1>1, <1>3 DEF LikesReadersState, Likes!Weight
<1> HIDE DEF sum
<1>8. /\ affinity \in [Users -> Int] /\ affinity[user] = sum
      /\ \A u \in Users \ {user} : affinity[u] = copy.affinity[u]
  BY <1>3, <1>7
<1> HIDE DEF user, read, half, affinity, miscounted, n
<1>9. /\ source' \in LikesState /\ copy' \in LikesReadersState
      /\ source'.rows = source.rows /\ source'.cached = source.cached
      /\ source'.stale = source.stale /\ source'.request = source.request /\ source'.bus = source.bus
      /\ source'.tangled = source.tangled
      /\ copy'.read = read /\ copy'.pushed = copy.pushed
      /\ copy'.half = half /\ copy'.engagement = copy.engagement
      /\ \/ /\ topic \in copy.half /\ copy'.affinity = affinity
            /\ source'.miscounted = source.miscounted
         \/ copy'.affinity = copy.affinity /\ source'.miscounted = miscounted
  BY <1>1, <1>4, <1>5, <1>6, <1>8 DEF LikesState, LikesReadersState
<1>10. LikesRequested(source') /\ LikesCached(source')
  BY <1>1, <1>9 DEF LikesGood, LikesRequested, LikesCached
<1>11. LikesReadAlong(source', copy')
  <2> SUFFICES ASSUME NEW t \in Likes!Topics
               PROVE  /\ \A g \in Likes!Groups : read[g][t] <= Len(source.bus[t])
                      /\ t \in half => read["ranking"][t] < Len(source.bus[t])
    BY <1>9 DEF LikesReadAlong, LikesBehind
  <2>1. /\ \A g \in Likes!Groups : copy.read[g][t] <= Len(source.bus[t])
        /\ t \in copy.half => copy.read["ranking"][t] < Len(source.bus[t])
    BY <1>1 DEF LikesGood, LikesReadAlong, LikesBehind
  <2>2. read["ranking"][t] <= Len(source.bus[t])
    <3>1. CASE t = topic
      BY <1>2, <1>5, <3>1 DEF n
    <3>2. CASE t # topic
      BY <1>5, <2>1, <3>2 DEF Likes!Groups
    <3> QED
      BY <3>1, <3>2
  <2>3. t \in half => read["ranking"][t] < Len(source.bus[t])
    BY <1>5, <1>6, <2>1
  <2> QED
    BY <1>5, <2>1, <2>2, <2>3 DEF Likes!Groups
<1>12. LikesUntangled(source', copy')
  BY <1>1, <1>5, <1>9 DEF LikesGood, LikesUntangled, LikesBehind, LikesRunning
<1>13. ASSUME NEW W, NEW t \in Likes!Topics
       PROVE  LikesOwed(source', copy', W, t) = IF t = topic /\ user \in W
                                             THEN LikesOwed(source, copy, W, t) - 1
                                             ELSE LikesOwed(source, copy, W, t)
  <2>1. \A s \in Likes!Topics : copy'.read["ranking"][s] =
            IF s = topic THEN copy.read["ranking"][s] + 1 ELSE copy.read["ranking"][s]
    BY <1>5, <1>9
  <2>2. LikesOwed(source', copy', W, t) =
            IF t = topic /\ source.bus[topic][copy.read["ranking"][topic] + 1].user \in W
            THEN LikesOwed(source, copy, W, t) - 1 ELSE LikesOwed(source, copy, W, t)
    BY <1>1, <1>9, <2>1, LikesOwedRead
  <2> QED
    BY <1>3, <2>2 DEF n
<1>14. ASSUME NEW W
       PROVE  /\ LikesOwed(source, copy, W, "liked") \in Nat
              /\ LikesOwed(source, copy, W, "unliked") \in Nat
  BY <1>1, LikesBusTyped, LikesOwedTyped DEF Likes!Topics
<1>15. topic = "liked" \/ topic = "unliked"
  BY DEF Likes!Topics
<1>16. LikesAffinityDue(source', copy')
  <2> SUFFICES ASSUME NEW u \in Users \ source'.miscounted
               PROVE  copy'.affinity[u] + LikesOwed(source', copy', {u}, "liked")
                          - LikesOwed(source', copy', {u}, "unliked") =
                              IF u \in source.rows THEN 1 ELSE 0
    BY <1>9 DEF LikesAffinityDue
  <2>1. copy.affinity[u] + LikesOwed(source, copy, {u}, "liked")
            - LikesOwed(source, copy, {u}, "unliked") = IF u \in source.rows THEN 1 ELSE 0
    BY <1>1, <1>6, <1>9 DEF LikesGood, LikesAffinityDue
  <2>2. copy.affinity[u] \in Int
    BY <1>7
  <2>3. CASE u # user
    <3>1. copy'.affinity[u] = copy.affinity[u]
      BY <1>8, <1>9, <2>3
    <3>2. /\ LikesOwed(source', copy', {u}, "liked") = LikesOwed(source, copy, {u}, "liked")
          /\ LikesOwed(source', copy', {u}, "unliked") = LikesOwed(source, copy, {u}, "unliked")
      BY <1>13, <2>3 DEF Likes!Topics
    <3> QED
      BY <2>1, <3>1, <3>2
  <2>4. CASE u = user
    <3>1. copy'.affinity[u] = copy.affinity[u] + Likes!Weight(topic)
      BY <1>6, <1>8, <1>9, <2>4 DEF sum
    <3>2. CASE topic = "liked"
      <4>1. /\ LikesOwed(source', copy', {u}, "liked") = LikesOwed(source, copy, {u}, "liked") - 1
            /\ LikesOwed(source', copy', {u}, "unliked") = LikesOwed(source, copy, {u}, "unliked")
        BY <1>13, <2>4, <3>2 DEF Likes!Topics
      <4>2. Likes!Weight(topic) = 1
        BY <3>2 DEF Likes!Weight
      <4> QED
        BY <1>14, <2>1, <2>2, <3>1, <4>1, <4>2
    <3>3. CASE topic = "unliked"
      <4>1. /\ LikesOwed(source', copy', {u}, "unliked") = LikesOwed(source, copy, {u}, "unliked") - 1
            /\ LikesOwed(source', copy', {u}, "liked") = LikesOwed(source, copy, {u}, "liked")
        BY <1>13, <2>4, <3>3 DEF Likes!Topics
      <4>2. Likes!Weight(topic) = -1
        BY <3>3 DEF Likes!Weight
      <4> QED
        BY <1>14, <2>1, <2>2, <3>1, <4>1, <4>2
    <3> QED
      BY <1>15, <3>2, <3>3
  <2> QED
    BY <2>3, <2>4
<1>17. LikesEngagementDue(source', copy')
  <2> SUFFICES ASSUME source'.miscounted = {}
               PROVE  copy.engagement
                          + (LikesOwed(source', copy', Users, "liked") - LikesHalfway(copy', "liked"))
                          - (LikesOwed(source', copy', Users, "unliked") - LikesHalfway(copy', "unliked"))
                          = Cardinality(source.rows)
    BY <1>9 DEF LikesEngagementDue
  <2>1. copy.engagement
            + (LikesOwed(source, copy, Users, "liked") - LikesHalfway(copy, "liked"))
            - (LikesOwed(source, copy, Users, "unliked") - LikesHalfway(copy, "unliked"))
            = Cardinality(source.rows)
    BY <1>1, <1>6, <1>9 DEF LikesGood, LikesEngagementDue
  <2>2. topic \in copy.half
    BY <1>6, <1>9
  <2>3. CASE topic = "liked"
    <3>1. /\ LikesOwed(source', copy', Users, "liked") = LikesOwed(source, copy, Users, "liked") - 1
          /\ LikesOwed(source', copy', Users, "unliked") = LikesOwed(source, copy, Users, "unliked")
      BY <1>3, <1>13, <2>3 DEF Likes!Topics
    <3>2. /\ LikesHalfway(copy', "liked") = 0 /\ LikesHalfway(copy, "liked") = 1
          /\ LikesHalfway(copy', "unliked") = LikesHalfway(copy, "unliked")
          /\ LikesHalfway(copy, "unliked") \in Int
      BY <1>6, <1>9, <2>2, <2>3 DEF LikesHalfway
    <3> QED
      BY <1>7, <1>14, <2>1, <3>1, <3>2
  <2>4. CASE topic = "unliked"
    <3>1. /\ LikesOwed(source', copy', Users, "unliked") = LikesOwed(source, copy, Users, "unliked") - 1
          /\ LikesOwed(source', copy', Users, "liked") = LikesOwed(source, copy, Users, "liked")
      BY <1>3, <1>13, <2>4 DEF Likes!Topics
    <3>2. /\ LikesHalfway(copy', "unliked") = 0 /\ LikesHalfway(copy, "unliked") = 1
          /\ LikesHalfway(copy', "liked") = LikesHalfway(copy, "liked")
          /\ LikesHalfway(copy, "liked") \in Int
      BY <1>6, <1>9, <2>2, <2>4 DEF LikesHalfway
    <3> QED
      BY <1>7, <1>14, <2>1, <3>1, <3>2
  <2> QED
    BY <1>15, <2>3, <2>4
<1> QED
  BY <1>9, <1>10, <1>11, <1>12, <1>16, <1>17 DEF LikesInv, LikesGood

LEMMA LikesNextInv == LikesInv /\ [Likes!Next]_<<source, copy>> => LikesInv'
<1>1. LikesInv /\ UNCHANGED <<source, copy>> => LikesInv'
  BY DEF LikesInv
<1> QED
  BY <1>1, LikesChangeInv, LikesLoadCountInv, LikesCountInv, LikesSetCountInv,
     LikesEmitInv, LikesEvictInv, LikesRecordPostInv,
     LikesPushInv, LikesAddEngagementInv, LikesCommitInv DEF Likes!Next

-----------------------------------------------------------------------------
(* The services side by side.                                                *)

\* The invariant of the group that is looked at.
Inv ==
    /\ group \in Groups
    /\ group = "stories" => Feed!FeedInv
    /\ group = "chat" => ChatInv
    /\ group = "search" => IndexInv
    /\ group = "media" => PipelineInv
    /\ group = "post" => PostInv
    /\ group = "likes" => LikesInv

LEMMA InitInv == Init => Inv
<1> SUFFICES ASSUME Init PROVE Inv
  OBVIOUS
<1>1. group = "stories" => Feed!FeedInv
  BY Bounded, SameInit, Feed!InitInv DEF Init
<1>2. /\ group = "chat" => ChatInv
      /\ group = "search" => IndexInv
      /\ group = "media" => PipelineInv
      /\ group = "post" => PostInv
      /\ group = "likes" => LikesInv
  BY ChatGiven, ChatInitInv, IndexInitInv, PipelineInitInv, PostInitInv, LikesInitInv DEF
     Init
<1>3. group \in Groups
  BY DEF Init, Groups
<1> QED
  BY <1>1, <1>2, <1>3 DEF Inv

\* Only the group that is looked at takes steps.
LEMMA StepIs ==
  ASSUME [Next]_<<group, source, copy>>
  PROVE  /\ group' = group
         /\ group = "stories" => [Feed!Next]_<<source, copy>>
         /\ group = "chat" => [Chat!Next]_source
         /\ group = "search" => [Index!Next]_<<source, copy>>
         /\ group = "media" => [Pipeline!Next]_<<source, copy>>
         /\ group = "post" => [Post!Next]_<<source, copy>>
         /\ group = "likes" => [Likes!Next]_<<source, copy>>
  BY SameNext DEF Next, In

LEMMA NextInv == Inv /\ [Next]_<<group, source, copy>> => Inv'
<1> SUFFICES ASSUME Inv, [Next]_<<group, source, copy>> PROVE Inv'
  OBVIOUS
<1>0. group' = group
  BY StepIs
<1>1. group' = "stories" => Feed!FeedInv'
  BY <1>0, StepIs, Bounded, Feed!NextInv DEF Inv
<1>2. group' = "chat" => ChatInv'
  BY <1>0, StepIs, ChatNextInv DEF Inv
<1>3. group' = "search" => IndexInv'
  BY <1>0, StepIs, IndexNextInv DEF Inv
<1>4. group' = "media" => PipelineInv'
  BY <1>0, StepIs, PipelineNextInv DEF Inv
<1>5. group' = "post" => PostInv'
  BY <1>0, StepIs, PostNextInv DEF Inv
<1>6. group' = "likes" => LikesInv'
  BY <1>0, StepIs, LikesNextInv DEF Inv
<1> QED
  BY <1>0, <1>1, <1>2, <1>3, <1>4, <1>5, <1>6 DEF Inv

LEMMA Invariance == Spec => []Inv
  BY InitInv, NextInv, PTL DEF Spec
-----------------------------------------------------------------------------
\* Whatever is asked of the services side by side, an edge across a block was
\* written by a request that had passed its check before (users/views.py:93).
THEOREM BlocksRespected == Spec => []EdgesRespectBlocks
<1>1. Inv => EdgesRespectBlocks
  BY Feed!InvRespectsBlocks
     DEF Inv, EdgesRespectBlocks, Stories!EdgesRespectBlocks, Feed!EdgesRespectBlocks,
         Stories!BlocksEither, Feed!BlocksEither,
         Stories!Reversed, Feed!Reversed
<1> QED
  BY <1>1, Invariance, PTL

\* The story bar agrees with user-svc on every living story and every viewer,
\* but for the exceptions that StoryFeedAgrees names (stories/views.py:78-110).
THEOREM StoriesReachFriends == Spec => []StoryFeedAgrees
<1>1. Inv => StoryFeedAgrees
  BY Feed!InvFeeds
     DEF Inv, StoryFeedAgrees, Stories!StoryFeedAgrees, Feed!StoryFeedAgrees,
         Stories!Trusted, Feed!Trusted, Stories!Following, Feed!Following,
         Stories!Friend, Feed!Friend, Stories!Visible, Feed!Visible,
         Stories!InFeed, Feed!InFeed, Stories!News, Feed!News,
         Stories!Says, Feed!Says, Stories!Event, Feed!Event
<1> QED
  BY <1>1, Invariance, PTL

\* What is stored twice agrees once the requests have ended, except where a
\* named race of the code lets it differ: the cached and the pushed like counter
\* and the sums of ranking-svc (interactions/counters.py:22-30,
\* ranking/store.py:51-62), but for counts overtaken by a row, news lost, out of
\* order, handled twice or no news; the repost counter, but for two withdrawals
\* of one repost, the deleted comments, but for an edit under way, and the
\* notices of their author, but for a handler run again (posts/views.py:176-467,
\* realtime consume.py); both inboxes of a conversation, but for sends side by
\* side or broken off (messaging/cql.py:80-88); the variants of a medium in
\* media-svc and in its post, but for lost news and kinds the worker does not
\* know (media-worker/worker.py); the index of search-svc, but for lost news,
\* deletions that overtook their post, and renames (search/index.py).
THEOREM CopiesStayEqual == Spec => []CopiesAgree
<1>1. Inv => CopiesAgree
  BY LikesInvAgrees, PostInvAgrees, ChatInvAgrees, PipelineInvAgrees, IndexInvAgrees
     DEF Inv, CopiesAgree
<1> QED
  BY <1>1, Invariance, PTL

\* Both instances of StoryFeed have the same types.
LEMMA SameTypes == Feed!FeedInv => Stories!TypeOK
  BY DEF Feed!FeedInv, Feed!GraphInv, Feed!GraphTypeOK, Stories!GraphTypeOK,
         Feed!FeedTypeOK, Stories!FeedTypeOK, Stories!TypeOK,
         Stories!Kinds, Feed!Kinds, Stories!Pairs, Feed!Pairs,
         Stories!Edges, Feed!Edges, Stories!NoEdge, Feed!NoEdge,
         Stories!Events, Feed!Events, Stories!Story, Feed!Story,
         Stories!Audiences, Feed!Audiences

\* Each group of services keeps its types, its counters never out of range.
THEOREM TypeCorrect == Spec => []TypeOK
<1>1. Inv => TypeOK
  BY SameTypes, LikesInvTyped, PostInvTyped, ChatInvTyped, PipelineInvTyped, IndexInvTyped
     DEF Inv, TypeOK, Groups
<1> QED
  BY <1>1, Invariance, PTL
=============================================================================
