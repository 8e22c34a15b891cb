-------------------------- MODULE StoryFeedProofs --------------------------
(***************************************************************************)
(* Proofs about SocialGraph and StoryFeed, for every set of users and of     *)
(* requests and every bound: no edge crosses a block but for the one race,   *)
(* and the story bar agrees with user-svc.  The strengthening says which      *)
(* checked writes a block has overtaken, and what news is still under way.   *)
(***************************************************************************)
EXTENDS StoryFeed, TLAPS

\* A pair turned around is a pair, and turned around again the same pair.
LEMMA ReversedPair ==
  ASSUME NEW p \in Pairs
  PROVE  Reversed(p) \in Pairs /\ Reversed(Reversed(p)) = p
  BY DEF Pairs, Reversed

\* An edge is a kind and a pair.
LEMMA EdgeParts ==
  ASSUME NEW e \in Edges
  PROVE  e[1] \in Kinds /\ e[2] \in Pairs /\ e = <<e[1], e[2]>>
  BY DEF Edges

LEMMA EventTyped ==
  ASSUME NEW e \in Edges, NEW added \in BOOLEAN
  PROVE  Event(e, added) \in Events
  BY EdgeParts DEF Event, Events

\* A single news is a sequence of events, and so is none.
LEMMA OneTyped ==
  ASSUME NEW S, NEW x \in S
  PROVE  <<x>> \in Seq(S)
  OBVIOUS

LEMMA NoneTyped ==
  ASSUME NEW S
  PROVE  <<>> \in Seq(S)
  OBVIOUS

LEMMA ToldTyped ==
  ASSUME NEW p \in Pairs
  PROVE  Told(p) \in Seq(Events)
<1>1. /\ <<"follow", p>> \in Edges /\ <<"follow", Reversed(p)>> \in Edges
      /\ <<"close_friend", p>> \in Edges /\ <<"close_friend", Reversed(p)>> \in Edges
  BY ReversedPair DEF Edges, Kinds
<1>2. \A e \in Edges : ToldOf(e) \in Seq(Events)
  BY EventTyped, OneTyped, NoneTyped DEF ToldOf
<1> HIDE DEF ToldOf
<1> QED
  BY <1>1, <1>2 DEF Told

Request == [at : {"idle", "checked", "publish"},
            edge : Edges \union {NoEdge}, events : Seq(Events)]

LEMMA IdleTyped == Idle \in Request
  BY NoneTyped DEF Idle, Request

LEMMA TellingTyped ==
  ASSUME NEW events \in Seq(Events)
  PROVE  Telling(events) \in Request
  BY DEF Telling, Request

LEMMA ActTyped ==
  ASSUME GraphAssumption, GraphTypeOK, Act
  PROVE  graph.acts + 1 \in 0..MaxActs
  BY DEF GraphAssumption, GraphTypeOK, Act

\* A request in flight is replaced by another.
LEMMA RequestTyped ==
  ASSUME GraphTypeOK, NEW r \in Requests, NEW q \in Request
  PROVE  [graph.request EXCEPT ![r] = q] \in [Requests -> Request]
  BY DEF GraphTypeOK, Request

\* A request has an edge while it is checked, and tells nothing before that.
InFlight ==
    \A r \in Requests :
        /\ graph.request[r].at = "checked" => graph.request[r].edge \in Edges
        /\ graph.request[r].at # "publish" => graph.request[r].events = <<>>

\* The records of the graph keep their types.
LEMMA GraphTyped ==
  ASSUME GraphAssumption, GraphTypeOK, InFlight, GraphNext
  PROVE  GraphTypeOK'
<1> DEFINE With(r, q) == [graph.request EXCEPT ![r] = q]
<1>0. \A r \in Requests, q \in Request : With(r, q) \in [Requests -> Request]
  BY RequestTyped
<1>1. CASE Unblock
  <2>1. graph.acts + 1 \in 0..MaxActs
    BY <1>1, ActTyped DEF Unblock
  <2>2. PICK p \in graph.blocks : graph' = [Acted EXCEPT !.blocks = @ \ {p}]
    BY <1>1 DEF Unblock
  <2>3. graph.blocks \ {p} \in SUBSET Pairs
    BY DEF GraphTypeOK
  <2> QED
    BY <2>1, <2>2, <2>3 DEF Acted, GraphTypeOK
<1>2. ASSUME NEW r \in Requests, CheckBlocks(r) PROVE GraphTypeOK'
  <2>1. PICK edge \in Edges :
          Act /\ graph' = [Acted EXCEPT !.request[r] = [Idle EXCEPT !.at = "checked", !.edge = edge]]
    BY <1>2 DEF CheckBlocks
  <2>2. graph.acts + 1 \in 0..MaxActs
    BY <2>1, ActTyped
  <2> DEFINE q == [Idle EXCEPT !.at = "checked", !.edge = edge]
  <2>3. q \in Request
    BY IdleTyped DEF Request
  <2>4. With(r, q) \in [Requests -> Request]
    BY <1>0, <2>3
  <2>5. graph' = [Acted EXCEPT !.request = With(r, q)]
    BY <2>1 DEF Acted
  <2> HIDE DEF With
  <2> QED
    BY <2>2, <2>4, <2>5 DEF Acted, GraphTypeOK, Request
<1>3. ASSUME NEW r \in Requests, Write(r) PROVE GraphTypeOK'
  <2> DEFINE edge == graph.request[r].edge
             q == Telling(<<Event(edge, TRUE)>>)
             crossed == IF News(edge) THEN graph.crossed \union {edge} ELSE graph.crossed
  <2>1. edge \in Edges
    BY <1>3 DEF Write, InFlight
  <2>2. With(r, q) \in [Requests -> Request]
    BY <1>0, <2>1, EventTyped, OneTyped, TellingTyped
  <2>3. graph.edges \union {edge} \in SUBSET Edges /\ crossed \in SUBSET Edges
    BY <2>1 DEF GraphTypeOK
  <2>4. graph' = [graph EXCEPT !.edges = @ \union {edge}, !.crossed = crossed, !.request = With(r, q)]
    BY <1>3 DEF Write
  <2> HIDE DEF With, crossed, edge
  <2> QED
    BY <2>2, <2>3, <2>4 DEF GraphTypeOK, Request
<1>4. ASSUME NEW r \in Requests, Remove(r) PROVE GraphTypeOK'
  <2>1. PICK edge \in Edges :
          Act /\ graph' = [Acted EXCEPT !.edges = @ \ {edge},
                   !.crossed = IF News(edge) THEN @ \union {edge} ELSE @,
                   !.request[r] = Telling(<<Event(edge, FALSE)>>)]
    BY <1>4 DEF Remove
  <2> DEFINE q == Telling(<<Event(edge, FALSE)>>)
             crossed == IF News(edge) THEN graph.crossed \union {edge} ELSE graph.crossed
  <2>2. graph.acts + 1 \in 0..MaxActs
    BY <2>1, ActTyped
  <2>3. With(r, q) \in [Requests -> Request]
    BY <1>0, EventTyped, OneTyped, TellingTyped
  <2>4. graph.edges \ {edge} \in SUBSET Edges /\ crossed \in SUBSET Edges
    BY DEF GraphTypeOK
  <2>5. graph' = [Acted EXCEPT !.edges = graph.edges \ {edge}, !.crossed = crossed,
                                !.request = With(r, q)]
    BY <2>1 DEF GraphTypeOK, Acted
  <2> HIDE DEF With, crossed
  <2> QED
    BY <2>2, <2>3, <2>4, <2>5 DEF Acted, GraphTypeOK, Request
<1>5. ASSUME NEW r \in Requests, Block(r) PROVE GraphTypeOK'
  <2>1. PICK p \in Pairs :
          Act /\ graph' = [Acted EXCEPT !.blocks = @ \union {p},
                   !.edges = @ \ (Kinds \X {p, Reversed(p)}),
                   !.crossed = @ \union {e \in graph.edges :
                                           e[2] \in {p, Reversed(p)} /\ News(e)},
                   !.raced = (@ \ (Kinds \X {p, Reversed(p)})) \union Checked(p),
                   !.request[r] = Telling(Told(p))]
    BY <1>5 DEF Block
  <2> DEFINE q == Telling(Told(p))
             edges == graph.edges \ (Kinds \X {p, Reversed(p)})
             blocks == graph.blocks \union {p}
             crossed == graph.crossed \union {e \in graph.edges :
                                           e[2] \in {p, Reversed(p)} /\ News(e)}
             raced == (graph.raced \ (Kinds \X {p, Reversed(p)})) \union Checked(p)
  <2>2. graph.acts + 1 \in 0..MaxActs
    BY <2>1, ActTyped
  <2>3. With(r, q) \in [Requests -> Request]
    BY <1>0, ToldTyped, TellingTyped
  <2>4. Checked(p) \in SUBSET Edges
    BY DEF Checked, InFlight
  <2>5. /\ edges \in SUBSET Edges /\ blocks \in SUBSET Pairs
        /\ crossed \in SUBSET Edges /\ raced \in SUBSET Edges
    BY <2>4 DEF GraphTypeOK
  <2>6. graph' = [Acted EXCEPT !.blocks = blocks, !.edges = edges, !.crossed = crossed,
                                !.raced = raced, !.request = With(r, q)]
    BY <2>1 DEF GraphTypeOK, Acted
  <2> HIDE DEF With, edges, blocks, crossed, raced
  <2> QED
    BY <2>2, <2>3, <2>5, <2>6 DEF Acted, GraphTypeOK, Request
<1>6. ASSUME NEW r \in Requests, Publish(r) PROVE GraphTypeOK'
  <2> DEFINE told == graph.request[r].events
             q == [graph.request[r] EXCEPT !.events = Tail(@)]
             event == Head(told)
             g == [graph EXCEPT !.request = With(r, q)]
             bus == [graph.bus EXCEPT ![event.kind][event.added] = Append(@, event.pair)]
             lost == graph.lost \union {<<event.kind, event.pair>>}
  <2>1. told \in Seq(Events) /\ told # <<>>
    BY <1>6 DEF Publish, GraphTypeOK
  <2>2. event \in Events /\ Tail(told) \in Seq(Events)
    BY <2>1
  <2>3. With(r, q) \in [Requests -> Request]
    <3>1. graph.request[r] \in Request
      BY DEF GraphTypeOK, Request
    <3> QED
      BY <1>0, <2>2, <3>1 DEF Request
  <2>4. bus \in [Kinds -> [BOOLEAN -> Seq(Pairs)]]
    BY <2>2 DEF GraphTypeOK, Events
  <2>5. lost \in SUBSET Edges
    BY <2>2 DEF GraphTypeOK, Events, Edges
  <2>6. graph' = [g EXCEPT !.bus = bus] \/ graph' = [g EXCEPT !.lost = lost]
    BY <1>6 DEF Publish, GraphTypeOK
  <2> HIDE DEF With, bus, lost
  <2> QED
    BY <2>3, <2>4, <2>5, <2>6 DEF GraphTypeOK, Request
<1>7. ASSUME NEW r \in Requests, Respond(r) PROVE GraphTypeOK'
  <2>1. With(r, Idle) \in [Requests -> Request]
    BY <1>0, IdleTyped
  <2>2. graph' = [graph EXCEPT !.request = With(r, Idle)]
    BY <1>7 DEF Respond
  <2> HIDE DEF With
  <2> QED
    BY <2>1, <2>2 DEF GraphTypeOK, Request
<1> QED
  BY <1>1, <1>2, <1>3, <1>4, <1>5, <1>6, <1>7 DEF GraphNext
-----------------------------------------------------------------------------
(* Blocks.                                                                  *)

\* A request that a block has overtaken is known.
Overtaken ==
    \A r \in Requests :
        graph.request[r].at = "checked" /\ BlocksEither(graph.request[r].edge[2])
            => graph.request[r].edge \in graph.raced

GraphInv == GraphTypeOK /\ InFlight /\ Overtaken /\ EdgesRespectBlocks

LEMMA GraphInitInv == GraphAssumption /\ GraphInit => GraphInv
<1> SUFFICES ASSUME GraphAssumption, GraphInit PROVE GraphInv
  OBVIOUS
<1>1. PICK edges \in SUBSET Edges : graph = [
          edges |-> edges, blocks |-> {}, request |-> [r \in Requests |-> Idle],
          bus |-> [k \in Kinds |-> [added \in BOOLEAN |-> <<>>]],
          raced |-> {}, crossed |-> {}, lost |-> {}, acts |-> 0]
  BY DEF GraphInit
<1>2. GraphTypeOK
  <2>1. [r \in Requests |-> Idle] \in [Requests -> Request]
    BY IdleTyped
  <2>2. [k \in Kinds |-> [added \in BOOLEAN |-> <<>>]] \in [Kinds -> [BOOLEAN -> Seq(Pairs)]]
    BY NoneTyped
  <2>3. 0 \in 0..MaxActs
    BY DEF GraphAssumption
  <2> QED
    BY <1>1, <2>1, <2>2, <2>3 DEF GraphTypeOK, Request
<1>3. InFlight /\ Overtaken /\ EdgesRespectBlocks
  BY <1>1 DEF InFlight, Overtaken, EdgesRespectBlocks, BlocksEither, Idle
<1> QED
  BY <1>2, <1>3 DEF GraphInv

\* What lies between the same two users, in either direction.
LEMMA BlockedBoth ==
  ASSUME NEW p \in Pairs, NEW q \in Pairs, Reversed(q) = p
  PROVE  q = Reversed(p)
  BY DEF Reversed, Pairs

LEMMA GraphNextInv ==
  ASSUME GraphAssumption, GraphInv, GraphNext
  PROVE  GraphInv'
<1>0. GraphTypeOK'
  BY GraphTyped DEF GraphInv
<1>1. CASE Unblock
  <2>1. PICK p \in graph.blocks : graph' = [Acted EXCEPT !.blocks = @ \ {p}]
    BY <1>1 DEF Unblock
  <2>2. /\ graph'.edges = graph.edges /\ graph'.raced = graph.raced
        /\ graph'.request = graph.request /\ graph'.blocks = graph.blocks \ {p}
    BY <2>1 DEF GraphInv, GraphTypeOK, Acted
  <2> QED
    BY <1>0, <2>2 DEF GraphInv, InFlight, Overtaken, EdgesRespectBlocks, BlocksEither
<1>2. ASSUME NEW r \in Requests, CheckBlocks(r) PROVE GraphInv'
  <2>1. PICK edge \in Edges : /\ ~BlocksEither(edge[2])
          /\ graph' = [Acted EXCEPT !.request[r] = [Idle EXCEPT !.at = "checked", !.edge = edge]]
    BY <1>2 DEF CheckBlocks
  <2> DEFINE q == [Idle EXCEPT !.at = "checked", !.edge = edge]
  <2>2. /\ graph'.edges = graph.edges /\ graph'.raced = graph.raced
        /\ graph'.request = [graph.request EXCEPT ![r] = q]
        /\ graph'.blocks = graph.blocks
    BY <2>1 DEF GraphInv, GraphTypeOK, Acted
  <2>3. q.at = "checked" /\ q.edge = edge /\ q.events = <<>>
    BY DEF Idle
  <2>4. graph.request \in [Requests -> Request]
    BY DEF GraphInv, GraphTypeOK, Request
  <2> HIDE DEF q
  <2>5. ASSUME NEW o \in Requests
        PROVE  graph'.request[o] = IF o = r THEN q ELSE graph.request[o]
    BY <2>2, <2>4
  <2>6. InFlight'
    BY <2>1, <2>3, <2>5 DEF GraphInv, InFlight
  <2>7. Overtaken'
    BY <2>1, <2>2, <2>3, <2>5 DEF GraphInv, Overtaken, BlocksEither
  <2>8. EdgesRespectBlocks'
    BY <2>2 DEF GraphInv, EdgesRespectBlocks, BlocksEither
  <2> QED
    BY <1>0, <2>6, <2>7, <2>8 DEF GraphInv
<1>3. ASSUME NEW r \in Requests, Write(r) PROVE GraphInv'
  <2> DEFINE edge == graph.request[r].edge
             q == Telling(<<Event(edge, TRUE)>>)
  <2>1. /\ graph'.edges = graph.edges \union {edge} /\ graph'.raced = graph.raced
        /\ graph'.request = [graph.request EXCEPT ![r] = q]
        /\ graph'.blocks = graph.blocks /\ graph.request[r].at = "checked"
    BY <1>3 DEF Write, GraphInv, GraphTypeOK
  <2>2. q.at = "publish"
    BY DEF Telling
  <2>3. graph.request \in [Requests -> Request]
    BY DEF GraphInv, GraphTypeOK, Request
  <2> HIDE DEF q
  <2> QED
    BY <1>0, <2>1, <2>2, <2>3
    DEF GraphInv, InFlight, Overtaken, EdgesRespectBlocks, BlocksEither
<1>4. ASSUME NEW r \in Requests, Remove(r) PROVE GraphInv'
  <2>1. PICK edge \in Edges :
          graph' = [Acted EXCEPT !.edges = @ \ {edge},
                   !.crossed = IF News(edge) THEN @ \union {edge} ELSE @,
                   !.request[r] = Telling(<<Event(edge, FALSE)>>)]
    BY <1>4 DEF Remove
  <2> DEFINE q == Telling(<<Event(edge, FALSE)>>)
  <2>2. /\ graph'.edges = graph.edges \ {edge} /\ graph'.raced = graph.raced
        /\ graph'.request = [graph.request EXCEPT ![r] = q]
        /\ graph'.blocks = graph.blocks
    BY <2>1 DEF Acted, GraphInv, GraphTypeOK
  <2>3. q.at = "publish"
    BY DEF Telling
  <2>4. graph.request \in [Requests -> Request]
    BY DEF GraphInv, GraphTypeOK, Request
  <2> HIDE DEF q
  <2> QED
    BY <1>0, <2>2, <2>3, <2>4
    DEF GraphInv, InFlight, Overtaken, EdgesRespectBlocks, BlocksEither
<1>5. ASSUME NEW r \in Requests, Block(r) PROVE GraphInv'
  <2>1. PICK p \in Pairs :
          graph' = [Acted EXCEPT !.blocks = @ \union {p},
                   !.edges = @ \ (Kinds \X {p, Reversed(p)}),
                   !.crossed = @ \union {e \in graph.edges :
                                           e[2] \in {p, Reversed(p)} /\ News(e)},
                   !.raced = (@ \ (Kinds \X {p, Reversed(p)})) \union Checked(p),
                   !.request[r] = Telling(Told(p))]
    BY <1>5 DEF Block
  <2> DEFINE q == Telling(Told(p))
             between == Kinds \X {p, Reversed(p)}
  <2>2. /\ graph'.edges = graph.edges \ between
        /\ graph'.raced = (graph.raced \ between) \union Checked(p)
        /\ graph'.request = [graph.request EXCEPT ![r] = q]
        /\ graph'.blocks = graph.blocks \union {p}
    BY <2>1 DEF Acted, GraphInv, GraphTypeOK
  <2>3. q.at = "publish"
    BY DEF Telling
  <2>4. graph.request \in [Requests -> Request] /\ graph.edges \subseteq Edges
    BY DEF GraphInv, GraphTypeOK, Request
  <2>5. ASSUME NEW e \in Edges, e \notin between, BlocksEither(e[2])'
        PROVE  BlocksEither(e[2])
    <3>1. e[2] \in Pairs /\ e[2] # p /\ e[2] # Reversed(p)
      BY <2>5, EdgeParts DEF Kinds
    <3>2. Reversed(e[2]) # p
      BY <3>1, BlockedBoth
    <3> QED
      BY <2>2, <2>5, <3>1, <3>2 DEF BlocksEither
  <2>6. ASSUME NEW e \in Edges
        PROVE  e \in between <=> e[2] \in {p, Reversed(p)}
    BY EdgeParts
  <2> HIDE DEF between, q
  <2>7. EdgesRespectBlocks'
    BY <2>2, <2>4, <2>5 DEF EdgesRespectBlocks, GraphInv
  <2>8. ASSUME NEW o \in Requests, (graph'.request)[o].at = "checked",
               BlocksEither(graph.request[o].edge[2])'
        PROVE  graph'.request[o].edge \in graph'.raced
    <3>1. o # r /\ graph'.request[o] = graph.request[o]
      BY <2>2, <2>3, <2>4, <2>8
    <3>2. graph.request[o].edge \in Edges
      BY <2>8, <3>1 DEF GraphInv, InFlight
    <3>3. CASE graph.request[o].edge \in between
      BY <2>2, <2>6, <2>8, <3>1, <3>2, <3>3 DEF Checked
    <3>4. CASE graph.request[o].edge \notin between
      BY <2>2, <2>5, <2>8, <3>1, <3>2, <3>4 DEF GraphInv, Overtaken
    <3> QED
      BY <3>3, <3>4
  <2>9. Overtaken'
    BY <2>2, <2>3, <2>4, <2>8 DEF Overtaken
  <2>10. InFlight'
    BY <2>2, <2>3, <2>4 DEF GraphInv, InFlight
  <2> QED
    BY <1>0, <2>7, <2>9, <2>10 DEF GraphInv
<1>6. ASSUME NEW r \in Requests, Publish(r) PROVE GraphInv'
  <2> DEFINE q == [graph.request[r] EXCEPT !.events = Tail(@)]
  <2>1. /\ graph'.edges = graph.edges /\ graph'.raced = graph.raced
        /\ graph'.request = [graph.request EXCEPT ![r] = q]
        /\ graph'.blocks = graph.blocks /\ graph.request[r].at = "publish"
    BY <1>6 DEF Publish, GraphInv, GraphTypeOK
  <2>2. graph.request \in [Requests -> Request]
    BY DEF GraphInv, GraphTypeOK, Request
  <2>3. q.at = "publish"
    BY <2>1, <2>2 DEF Request
  <2> HIDE DEF q
  <2> QED
    BY <1>0, <2>1, <2>2, <2>3
    DEF GraphInv, InFlight, Overtaken, EdgesRespectBlocks, BlocksEither
<1>7. ASSUME NEW r \in Requests, Respond(r) PROVE GraphInv'
  <2>1. /\ graph'.edges = graph.edges /\ graph'.raced = graph.raced
        /\ graph'.request = [graph.request EXCEPT ![r] = Idle]
        /\ graph'.blocks = graph.blocks
    BY <1>7 DEF Respond, GraphInv, GraphTypeOK
  <2>2. graph.request \in [Requests -> Request]
    BY DEF GraphInv, GraphTypeOK, Request
  <2>3. Idle.at = "idle" /\ Idle.events = <<>>
    BY DEF Idle
  <2> QED
    BY <1>0, <2>1, <2>2, <2>3
    DEF GraphInv, InFlight, Overtaken, EdgesRespectBlocks, BlocksEither
<1> QED
  BY <1>1, <1>2, <1>3, <1>4, <1>5, <1>6, <1>7 DEF GraphNext
-----------------------------------------------------------------------------
(* News.                                                                    *)

Has(s, x) == \E i \in DOMAIN s : s[i] = x

\* What a queue has after one item is taken, or added, or two are joined.
LEMMA TailHas ==
  ASSUME NEW S, NEW s \in Seq(S), s # <<>>, NEW x
  PROVE  Has(s, x) <=> x = Head(s) \/ Has(Tail(s), x)
<1>1. /\ DOMAIN s = 1..Len(s) /\ Len(s) \in Nat \ {0} /\ Head(s) = s[1]
      /\ DOMAIN Tail(s) = 1..(Len(s) - 1)
      /\ \A i \in 1..(Len(s) - 1) : Tail(s)[i] = s[i + 1]
  OBVIOUS
<1>2. ASSUME Has(s, x) PROVE x = Head(s) \/ Has(Tail(s), x)
  <2>1. PICK i \in 1..Len(s) : s[i] = x
    BY <1>1, <1>2 DEF Has
  <2>2. CASE i = 1
    BY <1>1, <2>1, <2>2
  <2>3. CASE i # 1
    <3>1. i - 1 \in 1..(Len(s) - 1) /\ (i - 1) + 1 = i
      BY <1>1, <2>1, <2>3
    <3> QED
      BY <1>1, <2>1, <3>1 DEF Has
  <2> QED
    BY <2>2, <2>3
<1>3. ASSUME Has(Tail(s), x) PROVE Has(s, x)
  BY <1>1, <1>3 DEF Has
<1>4. ASSUME x = Head(s) PROVE Has(s, x)
  BY <1>1, <1>4 DEF Has
<1> QED
  BY <1>2, <1>3, <1>4

LEMMA AppendHas ==
  ASSUME NEW S, NEW s \in Seq(S), NEW y \in S, NEW x
  PROVE  Has(Append(s, y), x) <=> Has(s, x) \/ x = y
<1>1. /\ DOMAIN s = 1..Len(s) /\ Len(s) \in Nat
      /\ DOMAIN Append(s, y) = 1..(Len(s) + 1) /\ Append(s, y)[Len(s) + 1] = y
      /\ \A i \in 1..Len(s) : Append(s, y)[i] = s[i]
  OBVIOUS
<1>2. \A i \in 1..(Len(s) + 1) : i \in 1..Len(s) \/ i = Len(s) + 1
  BY <1>1
<1> QED
  BY <1>1, <1>2 DEF Has

LEMMA OneHas ==
  ASSUME NEW y, NEW x
  PROVE  Has(<<y>>, x) <=> x = y
<1>1. DOMAIN <<y>> = {1} /\ <<y>>[1] = y
  OBVIOUS
<1> QED
  BY <1>1 DEF Has

LEMMA JoinHas ==
  ASSUME NEW S, NEW s \in Seq(S), NEW t \in Seq(S), NEW x
  PROVE  Has(s \o t, x) <=> Has(s, x) \/ Has(t, x)
<1>1. /\ DOMAIN s = 1..Len(s) /\ Len(s) \in Nat
      /\ DOMAIN t = 1..Len(t) /\ Len(t) \in Nat
      /\ DOMAIN (s \o t) = 1..(Len(s) + Len(t))
      /\ \A i \in 1..(Len(s) + Len(t)) :
            (s \o t)[i] = IF i <= Len(s) THEN s[i] ELSE t[i - Len(s)]
  OBVIOUS
<1>2. ASSUME Has(s \o t, x) PROVE Has(s, x) \/ Has(t, x)
  <2>1. PICK i \in 1..(Len(s) + Len(t)) : (s \o t)[i] = x
    BY <1>1, <1>2 DEF Has
  <2>2. CASE i <= Len(s)
    <3>1. i \in 1..Len(s)
      BY <1>1, <2>1, <2>2
    <3> QED
      BY <1>1, <2>1, <2>2, <3>1 DEF Has
  <2>3. CASE ~(i <= Len(s))
    <3>1. i - Len(s) \in 1..Len(t)
      BY <1>1, <2>1, <2>3
    <3>2. t[i - Len(s)] = x
      BY <1>1, <2>1, <2>3
    <3> QED
      BY <1>1, <3>1, <3>2 DEF Has
  <2> QED
    BY <2>2, <2>3
<1>3. ASSUME Has(s, x) PROVE Has(s \o t, x)
  BY <1>1, <1>3 DEF Has
<1>4. ASSUME Has(t, x) PROVE Has(s \o t, x)
  <2>1. PICK i \in 1..Len(t) : t[i] = x
    BY <1>1, <1>4 DEF Has
  <2>2. /\ Len(s) + i \in 1..(Len(s) + Len(t)) /\ ~(Len(s) + i <= Len(s))
        /\ (Len(s) + i) - Len(s) = i
    BY <1>1
  <2> QED
    BY <1>1, <2>1, <2>2 DEF Has
<1> QED
  BY <1>2, <1>3, <1>4

\* An event names its edge.
LEMMA EventOf ==
  ASSUME NEW e \in Edges, NEW f \in Edges, NEW a \in BOOLEAN, NEW b \in BOOLEAN,
         Event(e, a) = Event(f, b)
  PROVE  e = f /\ a = b
<1>1. e[1] = f[1] /\ e[2] = f[2] /\ a = b
  BY DEF Event
<1> QED
  BY <1>1, EdgeParts

\* News of one edge is no news of another.
LEMMA OneNews ==
  ASSUME NEW e \in Edges, NEW f \in Edges, NEW a \in BOOLEAN, NEW b \in BOOLEAN
  PROVE  Has(<<Event(f, b)>>, Event(e, a)) <=> e = f /\ a = b
<1> DEFINE x == Event(e, a)
           y == Event(f, b)
<1>1. x = y => e = f /\ a = b
  BY EventOf
<1>2. ASSUME e = f, a = b PROVE x = y
  BY <1>2
<1>3. Has(<<y>>, x) <=> x = y
  <2> HIDE DEF x, y
  <2> QED
    BY OneHas
<1> QED
  BY <1>1, <1>2, <1>3

\* A block tells of every edge that it removes, and of nothing else.
LEMMA ToldHas ==
  ASSUME NEW p \in Pairs, NEW e \in Edges, NEW a \in BOOLEAN
  PROVE  Has(Told(p), Event(e, a)) <=>
            ~a /\ e \in graph.edges /\ e[2] \in {p, Reversed(p)}
<1>1. ASSUME NEW f \in Edges
      PROVE  /\ ToldOf(f) \in Seq(Events)
             /\ Has(ToldOf(f), Event(e, a)) <=> e = f /\ ~a /\ f \in graph.edges
  <2>1. Event(f, FALSE) \in Events
    BY EventTyped
  <2>2. CASE f \in graph.edges
    <3>1. ToldOf(f) = <<Event(f, FALSE)>>
      BY <2>2 DEF ToldOf
    <3>2. Has(<<Event(f, FALSE)>>, Event(e, a)) <=> e = f /\ a = FALSE
      BY OneNews
    <3>3. Has(ToldOf(f), Event(e, a)) <=> e = f /\ a = FALSE
      BY <3>1, <3>2, Zenon
    <3>5. ToldOf(f) \in Seq(Events)
      BY <2>1, <3>1, OneTyped
    <3>6. a = FALSE <=> ~a
      OBVIOUS
    <3> HIDE DEF ToldOf
    <3> QED
      BY <2>2, <3>3, <3>5, <3>6
  <2>3. CASE f \notin graph.edges
    <3>1. ToldOf(f) = <<>>
      BY <2>3 DEF ToldOf
    <3> QED
      BY <2>3, <3>1, NoneTyped DEF Has
  <2> QED
    BY <2>2, <2>3
<1> DEFINE f1 == <<"follow", p>>
           f2 == <<"follow", Reversed(p)>>
           f3 == <<"close_friend", p>>
           f4 == <<"close_friend", Reversed(p)>>
<1>2. f1 \in Edges /\ f2 \in Edges /\ f3 \in Edges /\ f4 \in Edges
  BY ReversedPair DEF Edges, Kinds
<1>3. e \in {f1, f2, f3, f4} <=> e[2] \in {p, Reversed(p)}
  BY EdgeParts DEF Kinds
<1> HIDE DEF f1, f2, f3, f4, ToldOf
<1>4. Told(p) = ToldOf(f1) \o ToldOf(f2) \o ToldOf(f3) \o ToldOf(f4)
  BY DEF Told, f1, f2, f3, f4
<1>5. Has(Told(p), Event(e, a)) <=>
         \/ Has(ToldOf(f1), Event(e, a)) \/ Has(ToldOf(f2), Event(e, a))
         \/ Has(ToldOf(f3), Event(e, a)) \/ Has(ToldOf(f4), Event(e, a))
  <2>1. ToldOf(f1) \o ToldOf(f2) \in Seq(Events)
    BY <1>1, <1>2
  <2>2. ToldOf(f1) \o ToldOf(f2) \o ToldOf(f3) \in Seq(Events)
    BY <1>1, <1>2, <2>1
  <2> DEFINE x == Event(e, a)
  <2> HIDE DEF x
  <2>3. Has(ToldOf(f1) \o ToldOf(f2), x) <=> Has(ToldOf(f1), x) \/ Has(ToldOf(f2), x)
    BY <1>1, <1>2, JoinHas
  <2>4. Has(ToldOf(f1) \o ToldOf(f2) \o ToldOf(f3), x) <=>
            Has(ToldOf(f1) \o ToldOf(f2), x) \/ Has(ToldOf(f3), x)
    BY <1>1, <1>2, <2>1, JoinHas
  <2>5. Has(Told(p), x) <=>
            Has(ToldOf(f1) \o ToldOf(f2) \o ToldOf(f3), x) \/ Has(ToldOf(f4), x)
    <3> DEFINE three == ToldOf(f1) \o ToldOf(f2) \o ToldOf(f3)
    <3>1. three \in Seq(Events) /\ ToldOf(f4) \in Seq(Events) /\ Told(p) = three \o ToldOf(f4)
      BY <1>1, <1>2, <1>4, <2>2
    <3> HIDE DEF three
    <3>2. Has(three \o ToldOf(f4), x) <=> Has(three, x) \/ Has(ToldOf(f4), x)
      BY <3>1, JoinHas
    <3> QED
      BY <3>1, <3>2 DEF three
  <2> QED
    BY <2>3, <2>4, <2>5 DEF x
<1> QED
  BY <1>1, <1>2, <1>3, <1>5

LEMMA SaysIs ==
  ASSUME NEW e, NEW a
  PROVE  Says(e, a) <=>
            \/ \E r \in Requests : Has(graph.request[r].events, Event(e, a))
            \/ Has(graph.bus[e[1]][a], e[2])
  BY DEF Says, Has

\* A step that neither tells nor publishes nor consumes leaves the news.
LEMMA SaysKept ==
  ASSUME NEW e, NEW a, graph'.bus = graph.bus,
         \A r \in Requests : graph'.request[r].events = graph.request[r].events
  PROVE  Says(e, a)' <=> Says(e, a)
  BY DEF Says, Event

\* A request that starts to tell adds what it tells.
LEMMA SaysTold ==
  ASSUME GraphInv, NEW r \in Requests, graph.request[r].at # "publish",
         NEW told \in Seq(Events), graph'.bus = graph.bus,
         graph'.request = [graph.request EXCEPT ![r] = Telling(told)],
         NEW e \in Edges, NEW a \in BOOLEAN
  PROVE  Says(e, a)' <=> Says(e, a) \/ Has(told, Event(e, a))
<1> DEFINE x == Event(e, a)
<1>1. graph.request[r].events = <<>> /\ ~Has(<<>>, x)
  BY DEF GraphInv, InFlight, Has
<1>2. ASSUME NEW o \in Requests
      PROVE  graph'.request[o].events = IF o = r THEN told ELSE graph.request[o].events
  BY DEF GraphInv, GraphTypeOK, Telling
<1>3. x' = x
  BY DEF Event
<1> HIDE DEF x
<1>4. Says(e, a) <=> \/ \E o \in Requests : Has(graph.request[o].events, x)
                     \/ Has(graph.bus[e[1]][a], e[2])
  BY SaysIs DEF x
<1>5. Says(e, a)' <=> \/ \E o \in Requests : Has(graph'.request[o].events, x)
                      \/ Has(graph'.bus[e[1]][a], e[2])
  BY <1>3 DEF Says, Has, x
<1>6. (\E o \in Requests : Has(graph'.request[o].events, x)) <=>
         (\E o \in Requests : Has(graph.request[o].events, x)) \/ Has(told, x)
  BY <1>1, <1>2
<1> QED
  BY <1>4, <1>5, <1>6 DEF x

\* Publishing moves news from the request to its topic, or loses it.
LEMMA SaysPublished ==
  ASSUME GraphInv, NEW r \in Requests, Publish(r),
         NEW e \in Edges, e \notin graph'.lost, NEW a \in BOOLEAN
  PROVE  Says(e, a)' <=> Says(e, a)
<1> DEFINE told == graph.request[r].events
           q == [graph.request[r] EXCEPT !.events = Tail(@)]
           event == Head(told)
           x == Event(e, a)
           queue == graph.bus[e[1]][a]
<1>1. told \in Seq(Events) /\ told # <<>> /\ event \in Events /\ Tail(told) \in Seq(Events)
  BY DEF Publish, GraphInv, GraphTypeOK
<1>2. graph.request \in [Requests -> Request]
  BY DEF GraphInv, GraphTypeOK, Request
<1>3. graph'.request = [graph.request EXCEPT ![r] = q]
  BY DEF Publish, GraphInv, GraphTypeOK
<1>4. ASSUME NEW o \in Requests
      PROVE  graph'.request[o].events = IF o = r THEN Tail(told) ELSE graph.request[o].events
  BY <1>2, <1>3 DEF Request
<1>5. x' = x
  BY DEF Event
<1>6. e[1] \in Kinds /\ e[2] \in Pairs /\ queue \in Seq(Pairs)
  BY EdgeParts DEF GraphInv, GraphTypeOK
<1>7. Has(told, x) <=> x = event \/ Has(Tail(told), x)
  BY <1>1, TailHas
<1>8. x = event <=> event.kind = e[1] /\ event.pair = e[2] /\ event.added = a
  BY <1>1 DEF Event, Events
<1>9. Says(e, a) <=> (\E o \in Requests : Has(graph.request[o].events, x)) \/ Has(queue, e[2])
  BY SaysIs
<1>10. Says(e, a)' <=> \/ \E o \in Requests : Has(graph'.request[o].events, x)
                       \/ Has(graph'.bus[e[1]][a], e[2])
  BY <1>5 DEF Says, Has
<1>11. CASE graph'.bus = [graph.bus EXCEPT ![event.kind][event.added] = Append(@, event.pair)]
  <2>1. event.kind \in Kinds /\ event.added \in BOOLEAN /\ event.pair \in Pairs
    BY <1>1 DEF Events
  <2>2. graph'.bus[e[1]][a] = IF event.kind = e[1] /\ event.added = a
                              THEN Append(queue, event.pair) ELSE queue
    <3> DEFINE k == event.kind
               b == event.added
               longer == Append(graph.bus[k][b], event.pair)
    <3>1. graph.bus \in [Kinds -> [BOOLEAN -> Seq(Pairs)]]
      BY DEF GraphInv, GraphTypeOK
    <3>2. graph'.bus = [graph.bus EXCEPT ![k][b] = longer] /\ k \in Kinds /\ b \in BOOLEAN
      BY <1>11, <2>1
    <3>3. k = e[1] /\ b = a => longer = Append(queue, event.pair)
      OBVIOUS
    <3> HIDE DEF k, b, longer
    <3>4. graph'.bus[e[1]][a] = IF k = e[1] /\ b = a THEN longer ELSE graph.bus[e[1]][a]
      BY <1>6, <3>1, <3>2
    <3> QED
      BY <3>3, <3>4 DEF k, b
  <2>3. Has(Append(queue, event.pair), e[2]) <=> Has(queue, e[2]) \/ e[2] = event.pair
    BY <1>6, <2>1, AppendHas
  <2> HIDE DEF x, queue, event, told
  <2>4. Has(graph'.bus[e[1]][a], e[2]) <=> Has(queue, e[2]) \/ x = event
    BY <1>8, <2>2, <2>3
  <2> QED
    BY <1>4, <1>7, <1>9, <1>10, <2>4 DEF told
<1>12. CASE graph'.bus = graph.bus /\ graph'.lost = graph.lost \union {<<event.kind, event.pair>>}
  <2>1. x # event
    BY <1>8, <1>12, EdgeParts
  <2> HIDE DEF x, event
  <2> QED
    BY <1>4, <1>7, <1>9, <1>10, <1>12, <2>1
<1> QED
  <2>1. \/ graph'.bus = [graph.bus EXCEPT ![event.kind][event.added] = Append(@, event.pair)]
        \/ graph'.bus = graph.bus /\ graph'.lost = graph.lost \union {<<event.kind, event.pair>>}
    BY DEF Publish, GraphInv, GraphTypeOK
  <2> QED
    BY <1>11, <1>12, <2>1

\* Taking the oldest news of a topic takes no other.
LEMMA SaysTaken ==
  ASSUME GraphInv, NEW kind \in Kinds, NEW added \in BOOLEAN, graph.bus[kind][added] # <<>>,
         graph'.bus = [graph.bus EXCEPT ![kind][added] = Tail(@)],
         graph'.request = graph.request, NEW e \in Edges, NEW a \in BOOLEAN
  PROVE  /\ Says(e, a)' => Says(e, a)
         /\ <<kind, Head(graph.bus[kind][added])>> # e => (Says(e, a)' <=> Says(e, a))
<1> DEFINE x == Event(e, a)
           queue == graph.bus[kind][added]
<1>1. queue \in Seq(Pairs) /\ queue # <<>> /\ e[1] \in Kinds /\ e = <<e[1], e[2]>>
  BY EdgeParts DEF GraphInv, GraphTypeOK
<1>2. graph'.bus[e[1]][a] = IF kind = e[1] /\ added = a THEN Tail(queue)
                            ELSE graph.bus[e[1]][a]
  BY <1>1 DEF GraphInv, GraphTypeOK
<1>3. Has(queue, e[2]) <=> e[2] = Head(queue) \/ Has(Tail(queue), e[2])
  BY <1>1, TailHas
<1>4. x' = x
  BY DEF Event
<1>5. Says(e, a) <=> \/ \E o \in Requests : Has(graph.request[o].events, x)
                     \/ Has(graph.bus[e[1]][a], e[2])
  BY SaysIs
<1>6. Says(e, a)' <=> \/ \E o \in Requests : Has(graph.request[o].events, x)
                      \/ Has(graph'.bus[e[1]][a], e[2])
  BY <1>4 DEF Says, Has
<1> HIDE DEF x
<1> QED
  BY <1>1, <1>2, <1>3, <1>5, <1>6
-----------------------------------------------------------------------------
(* The story bar.                                                           *)

\* Every author of a living story has a marker, or will have, or has not.
Marked ==
    \A i \in DOMAIN stories.live :
        stories.live[i].author \in stories.active \union stories.posting \union stories.unmarked

\* News under way says what is so now, and without news the copy is right.
Sound(e) ==
    /\ \A added \in BOOLEAN : Says(e, added) => (added <=> e \in graph.edges)
    /\ ~News(e) => (e \in stories.edges <=> e \in graph.edges)

NewsSound == \A e \in Edges : e \notin graph.lost \union graph.crossed => Sound(e)

FeedInv == GraphInv /\ FeedTypeOK /\ Marked /\ NewsSound

LEMMA InitInv == GraphAssumption /\ Init => FeedInv
<1> SUFFICES ASSUME GraphAssumption, Init PROVE FeedInv
  OBVIOUS
<1>1. GraphInv
  BY GraphInitInv DEF Init
<1>2. stories = [edges |-> graph.edges, live |-> <<>>, active |-> {},
                 posting |-> {}, unmarked |-> {}]
  BY DEF Init
<1>3. FeedTypeOK
  BY <1>1, <1>2, NoneTyped DEF FeedTypeOK, GraphInv, GraphTypeOK
<1>4. Marked
  BY <1>2 DEF Marked
<1>5. ASSUME NEW e \in Edges, NEW a \in BOOLEAN PROVE ~Says(e, a)
  BY <1>5, EdgeParts DEF Says, Init, GraphInit, Idle
<1>6. NewsSound
  BY <1>2, <1>5 DEF NewsSound, Sound, News
<1> QED
  BY <1>1, <1>3, <1>4, <1>6 DEF FeedInv

\* What leaves the news of an edge, the edge and the copy, leaves it sound.
LEMMA SoundKept ==
  ASSUME NEW e \in Edges, Sound(e), e \in graph'.edges <=> e \in graph.edges,
         e \in stories'.edges <=> e \in stories.edges,
         \A a \in BOOLEAN : Says(e, a)' <=> Says(e, a)
  PROVE  Sound(e)'
  BY DEF Sound, News

\* Who tells of an edge that had no news, and changes it to what is told.
LEMMA SoundTold ==
  ASSUME NEW e \in Edges, ~News(e), NEW added \in BOOLEAN,
         e \in graph'.edges <=> added,
         \A a \in BOOLEAN : Says(e, a)' <=> Says(e, a) \/ a = added
  PROVE  Sound(e)'
  BY DEF Sound, News

LEMMA GraphSound ==
  ASSUME FeedInv, GraphNext, UNCHANGED stories
  PROVE  NewsSound'
<1> SUFFICES ASSUME NEW e \in Edges, e \notin graph'.lost, e \notin graph'.crossed
             PROVE  Sound(e)'
  BY DEF NewsSound
<1> USE DEF FeedInv
<1>0. graph.request \in [Requests -> Request]
  BY DEF GraphInv, GraphTypeOK, Request
<1>1. CASE Unblock
  <2>1. /\ graph'.edges = graph.edges /\ graph'.bus = graph.bus
        /\ graph'.request = graph.request
        /\ graph'.lost = graph.lost /\ graph'.crossed = graph.crossed
    BY <1>1 DEF Unblock, GraphInv, GraphTypeOK, Acted
  <2>2. Sound(e) /\ \A a \in BOOLEAN : Says(e, a)' <=> Says(e, a)
    BY <2>1, SaysKept DEF NewsSound
  <2> QED
    BY <2>1, <2>2, SoundKept
<1>2. ASSUME NEW r \in Requests, CheckBlocks(r) PROVE Sound(e)'
  <2>1. PICK edge \in Edges : /\ graph.request[r].at = "idle"
          /\ graph' = [Acted EXCEPT !.request[r] = [Idle EXCEPT !.at = "checked", !.edge = edge]]
    BY <1>2 DEF CheckBlocks
  <2> DEFINE q == [Idle EXCEPT !.at = "checked", !.edge = edge]
  <2>2. /\ graph'.edges = graph.edges /\ graph'.bus = graph.bus
        /\ graph'.request = [graph.request EXCEPT ![r] = q]
        /\ graph'.lost = graph.lost /\ graph'.crossed = graph.crossed
    BY <2>1 DEF GraphInv, GraphTypeOK, Acted
  <2>3. q.events = <<>> /\ graph.request[r].events = <<>>
    BY <2>1 DEF Idle, GraphInv, InFlight
  <2> HIDE DEF q
  <2>4. \A o \in Requests : graph'.request[o].events = graph.request[o].events
    BY <1>0, <2>2, <2>3
  <2>5. Sound(e) /\ \A a \in BOOLEAN : Says(e, a)' <=> Says(e, a)
    BY <2>2, <2>4, SaysKept DEF NewsSound
  <2> QED
    BY <2>2, <2>5, SoundKept
<1>3. ASSUME NEW r \in Requests, Write(r) PROVE Sound(e)'
  <2> DEFINE edge == graph.request[r].edge
             told == <<Event(edge, TRUE)>>
  <2>1. /\ graph'.edges = graph.edges \union {edge} /\ graph'.bus = graph.bus
        /\ graph'.request = [graph.request EXCEPT ![r] = Telling(told)]
        /\ graph'.lost = graph.lost /\ graph.request[r].at = "checked"
        /\ graph'.crossed = IF News(edge) THEN graph.crossed \union {edge} ELSE graph.crossed
    BY <1>3 DEF Write, GraphInv, GraphTypeOK
  <2>2. edge \in Edges
    BY <2>1 DEF GraphInv, InFlight
  <2>3. told \in Seq(Events)
    BY <2>2, EventTyped, OneTyped
  <2>4. ASSUME NEW a \in BOOLEAN
        PROVE  Has(told, Event(e, a)) <=> e = edge /\ a = TRUE
    BY <2>2, OneNews
  <2> HIDE DEF told, edge
  <2>5. \A a \in BOOLEAN : Says(e, a)' <=> Says(e, a) \/ (e = edge /\ a = TRUE)
    BY <2>1, <2>3, <2>4, SaysTold
  <2>6. CASE e = edge
    BY <2>1, <2>5, <2>6, SoundTold
  <2>7. CASE e # edge
    BY <2>1, <2>5, <2>7, SoundKept DEF NewsSound
  <2> QED
    BY <2>6, <2>7
<1>4. ASSUME NEW r \in Requests, Remove(r) PROVE Sound(e)'
  <2>1. PICK edge \in Edges : /\ graph.request[r].at = "idle"
          /\ graph' = [Acted EXCEPT !.edges = @ \ {edge},
                   !.crossed = IF News(edge) THEN @ \union {edge} ELSE @,
                   !.request[r] = Telling(<<Event(edge, FALSE)>>)]
    BY <1>4 DEF Remove
  <2> DEFINE told == <<Event(edge, FALSE)>>
  <2>2. /\ graph'.edges = graph.edges \ {edge} /\ graph'.bus = graph.bus
        /\ graph'.request = [graph.request EXCEPT ![r] = Telling(told)]
        /\ graph'.lost = graph.lost
        /\ graph'.crossed = IF News(edge) THEN graph.crossed \union {edge} ELSE graph.crossed
    BY <2>1 DEF Acted, GraphInv, GraphTypeOK
  <2>3. told \in Seq(Events)
    BY EventTyped, OneTyped
  <2>4. ASSUME NEW a \in BOOLEAN
        PROVE  Has(told, Event(e, a)) <=> e = edge /\ a = FALSE
    BY OneNews
  <2> HIDE DEF told
  <2>5. \A a \in BOOLEAN : Says(e, a)' <=> Says(e, a) \/ (e = edge /\ a = FALSE)
    BY <2>1, <2>2, <2>3, <2>4, SaysTold
  <2>6. CASE e = edge
    BY <2>2, <2>5, <2>6, SoundTold
  <2>7. CASE e # edge
    BY <2>2, <2>5, <2>7, SoundKept DEF NewsSound
  <2> QED
    BY <2>6, <2>7
<1>5. ASSUME NEW r \in Requests, Block(r) PROVE Sound(e)'
  <2>1. PICK p \in Pairs : /\ graph.request[r].at = "idle"
          /\ graph' = [Acted EXCEPT !.blocks = @ \union {p},
                   !.edges = @ \ (Kinds \X {p, Reversed(p)}),
                   !.crossed = @ \union {f \in graph.edges :
                                           f[2] \in {p, Reversed(p)} /\ News(f)},
                   !.raced = (@ \ (Kinds \X {p, Reversed(p)})) \union Checked(p),
                   !.request[r] = Telling(Told(p))]
    BY <1>5 DEF Block
  <2> DEFINE told == Told(p)
             between == Kinds \X {p, Reversed(p)}
             late == {f \in graph.edges : f[2] \in {p, Reversed(p)} /\ News(f)}
  <2>2. /\ graph'.edges = graph.edges \ between /\ graph'.bus = graph.bus
        /\ graph'.request = [graph.request EXCEPT ![r] = Telling(told)]
        /\ graph'.lost = graph.lost /\ graph'.crossed = graph.crossed \union late
    BY <2>1 DEF Acted, GraphInv, GraphTypeOK
  <2>3. told \in Seq(Events)
    BY ToldTyped
  <2>4. e \in between <=> e[2] \in {p, Reversed(p)}
    BY EdgeParts
  <2>5. e \in late <=> e \in graph.edges /\ e \in between /\ News(e)
    BY <2>4
  <2>6. \A a \in BOOLEAN : Has(told, Event(e, a)) <=> ~a /\ e \in graph.edges /\ e \in between
    BY <2>4, ToldHas
  <2> HIDE DEF told, between, late
  <2>7. \A a \in BOOLEAN :
           Says(e, a)' <=> Says(e, a) \/ (~a /\ e \in graph.edges /\ e \in between)
    BY <2>1, <2>2, <2>3, <2>6, SaysTold
  <2>8. CASE e \in graph.edges /\ e \in between
    BY <2>2, <2>5, <2>7, <2>8, SoundTold
  <2>9. CASE ~(e \in graph.edges /\ e \in between)
    BY <2>2, <2>7, <2>9, SoundKept DEF NewsSound
  <2> QED
    BY <2>8, <2>9
<1>6. ASSUME NEW r \in Requests, Publish(r) PROVE Sound(e)'
  <2> DEFINE event == Head(graph.request[r].events)
             g == [graph EXCEPT !.request[r].events = Tail(@)]
             bus == [graph.bus EXCEPT ![event.kind][event.added] = Append(@, event.pair)]
             lost == graph.lost \union {<<event.kind, event.pair>>}
  <2>0. graph' = [g EXCEPT !.bus = bus] \/ graph' = [g EXCEPT !.lost = lost]
    BY <1>6 DEF Publish, GraphInv, GraphTypeOK
  <2>1. /\ graph'.edges = graph.edges /\ graph'.crossed = graph.crossed
        /\ graph.lost \subseteq graph'.lost
    <3> HIDE DEF bus
    <3> QED
      BY <2>0 DEF GraphInv, GraphTypeOK
  <2>2. Sound(e) /\ \A a \in BOOLEAN : Says(e, a)' <=> Says(e, a)
    BY <1>6, <2>1, SaysPublished DEF NewsSound
  <2> QED
    BY <2>1, <2>2, SoundKept
<1>7. ASSUME NEW r \in Requests, Respond(r) PROVE Sound(e)'
  <2>1. /\ graph'.edges = graph.edges /\ graph'.bus = graph.bus
        /\ graph'.request = [graph.request EXCEPT ![r] = Idle]
        /\ graph'.lost = graph.lost /\ graph'.crossed = graph.crossed
        /\ graph.request[r].events = <<>>
    BY <1>7 DEF Respond, GraphInv, GraphTypeOK
  <2>2. \A o \in Requests : graph'.request[o].events = graph.request[o].events
    BY <1>0, <2>1 DEF Idle
  <2>3. Sound(e) /\ \A a \in BOOLEAN : Says(e, a)' <=> Says(e, a)
    BY <2>1, <2>2, SaysKept DEF NewsSound
  <2> QED
    BY <2>1, <2>3, SoundKept
<1> QED
  BY <1>1, <1>2, <1>3, <1>4, <1>5, <1>6, <1>7 DEF GraphNext

\* Reading a topic, or parking what it has, is none of user-svc's business.
LEMMA PoppedInv ==
  ASSUME GraphInv, NEW kind \in Kinds, NEW added \in BOOLEAN, graph.bus[kind][added] # <<>>,
         NEW lost \in SUBSET Edges,
         LET bus == [graph.bus EXCEPT ![kind][added] = Tail(@)] IN
         graph' \in {graph, [graph EXCEPT !.bus = bus], [graph EXCEPT !.bus = bus, !.lost = lost]}
  PROVE  GraphInv'
<1> DEFINE bus == [graph.bus EXCEPT ![kind][added] = Tail(@)]
<1>1. bus \in [Kinds -> [BOOLEAN -> Seq(Pairs)]]
  BY DEF GraphInv, GraphTypeOK
<1> HIDE DEF bus
<1>2. graph' \in {graph, [graph EXCEPT !.bus = bus], [graph EXCEPT !.bus = bus, !.lost = lost]}
  BY DEF bus
<1>3. GraphTypeOK'
  BY <1>1, <1>2 DEF GraphInv, GraphTypeOK
<1>4. /\ graph'.edges = graph.edges /\ graph'.raced = graph.raced
      /\ graph'.request = graph.request /\ graph'.blocks = graph.blocks
  BY <1>2 DEF GraphInv, GraphTypeOK
<1> QED
  BY <1>3, <1>4 DEF GraphInv, InFlight, Overtaken, EdgesRespectBlocks, BlocksEither

\* Every other step reads the news, or deals in stories.
LEMMA FeedSound ==
  ASSUME GraphAssumption, FeedInv, Next, ~(GraphNext /\ UNCHANGED stories)
  PROVE  FeedInv'
<1> USE DEF FeedInv
<1>1. CASE Post
  <2>1. PICK story \in Story :
          /\ Act /\ graph' = Acted
          /\ stories' = [stories EXCEPT !.live = Append(@, story),
                           !.posting = @ \union {story.author}]
    BY <1>1 DEF Post
  <2>2. graph.acts + 1 \in 0..MaxActs
    BY <2>1, ActTyped DEF GraphInv
  <2>3. /\ graph'.edges = graph.edges /\ graph'.bus = graph.bus /\ graph'.raced = graph.raced
        /\ graph'.request = graph.request /\ graph'.blocks = graph.blocks
        /\ graph'.lost = graph.lost /\ graph'.crossed = graph.crossed
    BY <2>1 DEF Acted, GraphInv, GraphTypeOK
  <2>4. GraphTypeOK'
    BY <2>1, <2>2 DEF Acted, GraphInv, GraphTypeOK
  <2>5. GraphInv'
    BY <2>3, <2>4 DEF GraphInv, InFlight, Overtaken, EdgesRespectBlocks, BlocksEither
  <2>6. /\ stories.posting \union {story.author} \in SUBSET Users
        /\ Append(stories.live, story) \in Seq(Story)
    BY DEF FeedTypeOK, Story
  <2>7. FeedTypeOK'
    <3> DEFINE live == Append(stories.live, story)
               posting == stories.posting \union {story.author}
    <3> HIDE DEF live, posting
    <3>1. stories' = [stories EXCEPT !.live = live, !.posting = posting]
      BY <2>1 DEF live, posting
    <3>2. live \in Seq(Story) /\ posting \in SUBSET Users
      BY <2>6 DEF live, posting
    <3> QED
      BY <3>1, <3>2 DEF FeedTypeOK
  <2>8. Marked'
    <3>1. stories.live \in Seq(Story)
      BY DEF FeedTypeOK
    <3>2. /\ stories'.live = Append(stories.live, story)
          /\ stories'.active = stories.active /\ stories'.unmarked = stories.unmarked
          /\ stories'.posting = stories.posting \union {story.author}
      BY <2>1 DEF FeedTypeOK
    <3>3. ASSUME NEW i \in DOMAIN stories'.live
          PROVE  \/ i \in DOMAIN stories.live /\ stories'.live[i] = stories.live[i]
                 \/ stories'.live[i] = story
      BY <3>1, <3>2
    <3> QED
      BY <3>2, <3>3 DEF Marked
  <2>9. NewsSound'
    <3>1. stories'.edges = stories.edges
      BY <2>1 DEF FeedTypeOK
    <3> QED
      BY <2>3, <3>1, SaysKept DEF NewsSound, Sound, News
  <2> QED
    BY <2>5, <2>7, <2>8, <2>9
<1>2. ASSUME UNCHANGED graph, FeedTypeOK', Marked', stories'.edges = stories.edges
      PROVE  FeedInv'
  <2>1. GraphInv'
    BY <1>2 DEF GraphInv, GraphTypeOK, InFlight, Overtaken, EdgesRespectBlocks, BlocksEither
  <2>2. \A e \in Edges, a \in BOOLEAN : Says(e, a)' <=> Says(e, a)
    BY <1>2, SaysKept
  <2>3. NewsSound'
    BY <1>2, <2>2, SoundKept DEF NewsSound
  <2> QED
    BY <1>2, <2>1, <2>3
<1>3. CASE MarkActive
  <2>1. PICK author \in stories.posting :
          LET s == [stories EXCEPT !.posting = @ \ {author}] IN
          stories' \in {[s EXCEPT !.active = @ \union {author}, !.unmarked = @ \ {author}],
                        [s EXCEPT !.unmarked = @ \union {author}]}
    BY <1>3 DEF MarkActive
  <2>2. author \in Users
    BY DEF FeedTypeOK
  <2> DEFINE posting == stories.posting \ {author}
             active == stories.active \union {author}
             more == stories.unmarked \union {author}
             less == stories.unmarked \ {author}
  <2>3. /\ posting \in SUBSET Users /\ active \in SUBSET Users
        /\ more \in SUBSET Users /\ less \in SUBSET Users
    BY <2>2 DEF FeedTypeOK
  <2>4. \/ stories' = [stories EXCEPT !.posting = posting, !.active = active, !.unmarked = less]
        \/ stories' = [stories EXCEPT !.posting = posting, !.unmarked = more]
    BY <2>1 DEF FeedTypeOK
  <2>5. FeedTypeOK'
    <3> HIDE DEF posting, active, more, less
    <3> QED
      BY <2>3, <2>4 DEF FeedTypeOK
  <2>6. Marked' /\ stories'.edges = stories.edges
    BY <2>4 DEF FeedTypeOK, Marked
  <2> QED
    BY <1>2, <1>3, <2>5, <2>6 DEF MarkActive
<1>4. CASE Expire
  <2>1. /\ stories.live # <<>> /\ stories' = [stories EXCEPT !.live = Tail(@)]
        /\ stories.live \in Seq(Story)
    BY <1>4 DEF Expire, FeedTypeOK
  <2>2. FeedTypeOK'
    <3> DEFINE live == Tail(stories.live)
    <3>1. live \in Seq(Story)
      BY <2>1
    <3> HIDE DEF live
    <3> QED
      BY <2>1, <3>1 DEF FeedTypeOK, live
  <2>3. /\ stories'.live = Tail(stories.live) /\ stories'.edges = stories.edges
        /\ stories'.active = stories.active /\ stories'.unmarked = stories.unmarked
        /\ stories'.posting = stories.posting
    BY <2>1 DEF FeedTypeOK
  <2>4. \A i \in DOMAIN Tail(stories.live) :
           i + 1 \in DOMAIN stories.live /\ Tail(stories.live)[i] = stories.live[i + 1]
    BY <2>1
  <2>5. Marked'
    BY <2>3, <2>4 DEF Marked
  <2> QED
    BY <1>2, <1>4, <2>2, <2>3, <2>5 DEF Expire
<1>5. CASE MarkerExpires
  <2>1. PICK author \in stories.active :
          /\ ~Alive(author) \/ author \in stories.posting \union stories.unmarked
          /\ stories' = [stories EXCEPT !.active = @ \ {author}]
    BY <1>5 DEF MarkerExpires
  <2>2. FeedTypeOK'
    BY <2>1 DEF FeedTypeOK
  <2>3. Marked' /\ stories'.edges = stories.edges
    BY <2>1 DEF FeedTypeOK, Marked, Alive
  <2> QED
    BY <1>2, <1>5, <2>2, <2>3 DEF MarkerExpires
<1>6. ASSUME NEW kind \in Kinds, NEW added \in BOOLEAN, Consume(kind, added)
      PROVE  FeedInv'
  <2> DEFINE queue == graph.bus[kind][added]
             edge == <<kind, Head(queue)>>
             edges == IF added THEN stories.edges \union {edge} ELSE stories.edges \ {edge}
             bus == [graph.bus EXCEPT ![kind][added] = Tail(@)]
  <2>1. queue \in Seq(Pairs) /\ queue # <<>>
    BY <1>6 DEF Consume, GraphInv, GraphTypeOK
  <2>2. edge \in Edges
    BY <2>1 DEF Edges
  <2>3. /\ graph' = graph \/ graph' = [graph EXCEPT !.bus = bus]
        /\ stories' = [stories EXCEPT !.edges = edges]
    BY <1>6 DEF Consume, FeedTypeOK
  <2>4. GraphInv'
    BY <2>1, <2>3, PoppedInv
  <2>5. FeedTypeOK' /\ Marked' /\ stories'.edges = edges
    <3> HIDE DEF edge
    <3> QED
      BY <2>2, <2>3 DEF FeedTypeOK, Marked
  <2>6. /\ graph'.edges = graph.edges /\ graph'.request = graph.request
        /\ graph'.lost = graph.lost /\ graph'.crossed = graph.crossed
        /\ graph'.bus = graph.bus \/ graph'.bus = bus
    <3> HIDE DEF bus
    <3> QED
      BY <2>3 DEF GraphInv, GraphTypeOK
  <2>7. ASSUME NEW e \in Edges, NEW a \in BOOLEAN
        PROVE  (Says(e, a)' => Says(e, a)) /\ (edge # e => (Says(e, a)' <=> Says(e, a)))
    BY <2>1, <2>6, SaysKept, SaysTaken
  <2>8. Says(edge, added)
    BY <2>1 DEF Says
  <2>9. ASSUME NEW e \in Edges, e \notin graph.lost \union graph.crossed
        PROVE  Sound(e)'
    <3>1. Sound(e)
      BY <2>9 DEF NewsSound
    <3> HIDE DEF edge, bus, queue
    <3>2. CASE e = edge
      BY <2>5, <2>6, <2>7, <2>8, <3>1, <3>2 DEF Sound
    <3>3. CASE e # edge
      BY <2>5, <2>6, <2>7, <3>1, <3>3, SoundKept
    <3> QED
      BY <3>2, <3>3
  <2> QED
    BY <2>4, <2>5, <2>6, <2>9 DEF NewsSound
<1>7. ASSUME NEW kind \in Kinds, NEW added \in BOOLEAN, DeadLetter(kind, added)
      PROVE  FeedInv'
  <2> DEFINE queue == graph.bus[kind][added]
             edge == <<kind, Head(queue)>>
             bus == [graph.bus EXCEPT ![kind][added] = Tail(@)]
  <2>1. queue \in Seq(Pairs) /\ queue # <<>>
    BY <1>7 DEF DeadLetter, GraphInv, GraphTypeOK
  <2>2. edge \in Edges
    BY <2>1 DEF Edges
  <2>3. /\ graph' = [graph EXCEPT !.bus = bus, !.lost = @ \union {edge}]
        /\ UNCHANGED stories
    BY <1>7 DEF DeadLetter
  <2>4. GraphInv'
    <3> DEFINE lost == graph.lost \union {edge}
    <3>1. lost \in SUBSET Edges
      BY <2>2 DEF GraphInv, GraphTypeOK
    <3>2. graph' = [graph EXCEPT !.bus = bus, !.lost = lost]
      BY <2>3
    <3> HIDE DEF lost
    <3> QED
      BY <2>1, <3>1, <3>2, PoppedInv
  <2>5. /\ graph'.edges = graph.edges /\ graph'.request = graph.request
        /\ graph'.lost = graph.lost \union {edge} /\ graph'.crossed = graph.crossed
        /\ graph'.bus = bus
    <3> HIDE DEF bus
    <3> QED
      BY <2>3 DEF GraphInv, GraphTypeOK
  <2>6. ASSUME NEW e \in Edges, e \notin graph'.lost \union graph'.crossed
        PROVE  Sound(e)'
    <3>1. e # edge /\ Sound(e)
      BY <2>5, <2>6 DEF NewsSound
    <3>2. \A a \in BOOLEAN : Says(e, a)' <=> Says(e, a)
      BY <2>1, <2>5, <3>1, SaysTaken
    <3> QED
      BY <2>3, <2>5, <3>1, <3>2, SoundKept
  <2> QED
    BY <2>3, <2>4, <2>6 DEF NewsSound, FeedTypeOK, Marked
<1> QED
  BY <1>1, <1>3, <1>4, <1>5, <1>6, <1>7 DEF Next

LEMMA NextInv == GraphAssumption /\ FeedInv /\ [Next]_<<graph, stories>> => FeedInv'
<1> SUFFICES ASSUME GraphAssumption, FeedInv, [Next]_<<graph, stories>> PROVE FeedInv'
  OBVIOUS
<1>1. CASE GraphNext /\ UNCHANGED stories
  <2>1. GraphInv' /\ NewsSound'
    BY <1>1, GraphNextInv, GraphSound DEF FeedInv
  <2>2. FeedTypeOK' /\ Marked'
    BY <1>1 DEF FeedInv, FeedTypeOK, Marked
  <2> QED
    BY <2>1, <2>2 DEF FeedInv
<1>2. CASE UNCHANGED <<graph, stories>>
  <2>1. GraphInv'
    BY <1>2 DEF FeedInv, GraphInv, GraphTypeOK, InFlight, Overtaken,
                EdgesRespectBlocks, BlocksEither
  <2>2. \A e \in Edges, a \in BOOLEAN : Says(e, a)' <=> Says(e, a)
    BY <1>2, SaysKept
  <2>3. NewsSound'
    BY <1>2, <2>2, SoundKept DEF FeedInv, NewsSound
  <2>4. FeedTypeOK' /\ Marked'
    BY <1>2 DEF FeedInv, FeedTypeOK, Marked
  <2> QED
    BY <2>1, <2>3, <2>4 DEF FeedInv
<1> QED
  BY <1>1, <1>2, FeedSound

LEMMA Invariance == GraphAssumption => (Spec => []FeedInv)
<1> SUFFICES ASSUME GraphAssumption PROVE Spec => []FeedInv
  OBVIOUS
<1> QED
  BY InitInv, NextInv, PTL DEF Spec

\* What the invariant says of the edges across a block, and of the bar.
LEMMA InvRespectsBlocks == FeedInv => EdgesRespectBlocks
  BY DEF FeedInv, GraphInv

LEMMA InvFeeds == FeedInv => StoryFeedAgrees
<1> SUFFICES ASSUME FeedInv, NEW i \in DOMAIN stories.live, NEW viewer \in Users,
               stories.live[i].author \notin stories.posting \union stories.unmarked,
               viewer # stories.live[i].author =>
                  /\ Trusted(Following(viewer, stories.live[i].author))
                  /\ Trusted(Friend(stories.live[i].author, viewer))
             PROVE  InFeed(stories.live[i], viewer)
                       <=> Visible(graph.edges, stories.live[i], viewer)
  BY DEF StoryFeedAgrees
<1> DEFINE story == stories.live[i]
<1>1. story.author \in Users /\ story.author \in stories.active
  BY DEF FeedInv, FeedTypeOK, Marked, Story
<1>2. CASE viewer = story.author
  BY <1>1, <1>2 DEF InFeed, Visible
<1>3. CASE viewer # story.author
  <2>1. /\ Following(viewer, story.author) \in Edges
        /\ Friend(story.author, viewer) \in Edges
    BY <1>1, <1>3 DEF Following, Friend, Edges, Kinds, Pairs
  <2>2. ASSUME NEW e \in Edges, Trusted(e)
        PROVE  e \in stories.edges <=> e \in graph.edges
    BY <2>2 DEF Trusted, FeedInv, NewsSound, Sound
  <2> QED
    BY <1>1, <1>3, <2>1, <2>2 DEF InFeed, Visible
<1> QED
  BY <1>2, <1>3

\* The graph and what stories-svc keeps of it have their types (users/graph.py,
\* stories/store.py).
THEOREM TypeCorrect == GraphAssumption => (Spec => []TypeOK)
<1>1. FeedInv => TypeOK
  BY DEF FeedInv, GraphInv, TypeOK
<1> QED
  BY <1>1, Invariance, PTL

\* Whatever the users ask for side by side, an edge across a block was written
\* by a request that had passed its check before the block (users/views.py:93).
THEOREM BlocksRespected == GraphAssumption => (Spec => []EdgesRespectBlocks)
  BY InvRespectsBlocks, Invariance, PTL

\* The story bar agrees with user-svc on every living story and every viewer,
\* but for the exceptions that StoryFeedAgrees names (stories/views.py:78-110).
THEOREM StoriesReachFriends == GraphAssumption => (Spec => []StoryFeedAgrees)
  BY InvFeeds, Invariance, PTL
=============================================================================
