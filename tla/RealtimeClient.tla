--------------------------- MODULE RealtimeClient ---------------------------
(***************************************************************************)
(* The shared WebSocket (frontend/lib/realtime.ts) under the hooks that use  *)
(* it (lib/use-realtime.ts), and the consumer of realtime-svc that keeps the *)
(* groups of each socket.  Sockets are numbered as they are opened.  A       *)
(* closed socket tells the page later; the server's frames are handled in    *)
(* order, per socket.                                                        *)
(***************************************************************************)
EXTENDS Integers, FiniteSets, Sequences

CONSTANTS
    Cards,          \* post cards, of a post each
    PostOf,
    MaxSockets,     \* bound: sockets opened
    MaxDrops,       \* bound: sockets taken down
    MaxMounts       \* bound: cards mounted

\* Each socket taken down leads to two more at most: one for a card mounted
\* while it closes, one for the timer.
SocketAssumption ==
    /\ MaxSockets \in Nat /\ MaxDrops \in Nat /\ MaxMounts \in Nat
    /\ MaxSockets > 2 * MaxDrops

VARIABLE rt

Sockets == 1..MaxSockets
Posts == {PostOf[c] : c \in Cards}
States == {"none", "connecting", "open", "closing", "closed"}
Frames == [action : {"subscribe", "unsubscribe"}, posts : SUBSET Posts]

TypeOK ==
    /\ rt.ws \in {0} \union Sockets
    /\ rt.state \in [Sockets -> States]
    /\ \A s \in Sockets : rt.frames[s] \in Seq(Frames) /\ rt.groups[s] \subseteq Posts
    /\ rt.mounted \subseteq Cards /\ rt.token \in BOOLEAN
    /\ rt.reconnectTimer \in BOOLEAN
    /\ rt.mounts \in 0..MaxMounts /\ rt.drops \in 0..MaxDrops

\* Nobody is signed in yet, and getToken gives nothing.
Init == rt = [
    token |-> FALSE, ws |-> 0, state |-> [s \in Sockets |-> "none"],
    frames |-> [s \in Sockets |-> <<>>], groups |-> [s \in Sockets |-> {}],
    mounted |-> {}, reconnectTimer |-> FALSE, mounts |-> 0, drops |-> 0]

\* The keys of postHandlers.
Watched(mounted) == {PostOf[c] : c \in mounted}

Opened == {s \in Sockets : rt.state[s] # "none"}

\* ensure: a socket that is open or connecting will do.  A closing one will not.
\* Without a token none is opened, and nothing tries again.
Ensure(r) ==
    IF ~r.token \/ (r.ws # 0 /\ r.state[r.ws] \in {"open", "connecting"}) THEN {r}
    ELSE {[r EXCEPT !.ws = s, !.state[s] = "connecting"] :
             s \in {Cardinality(Opened) + 1} \intersect Sockets}

\* send: dropped unless the current socket is open.
Send(r, action, posts) ==
    IF r.ws # 0 /\ r.state[r.ws] = "open"
    THEN [r EXCEPT !.frames[r.ws] = Append(@, [action |-> action, posts |-> posts])]
    ELSE r
-----------------------------------------------------------------------------
\* The viewer is signed in, and the notification badge configures the client.
SignIn ==
    /\ ~rt.token
    /\ rt' \in Ensure([rt EXCEPT !.token = TRUE])

\* useIncomingMessages: the messages page, which is there before the sign-in too.
Listen == rt' \in Ensure(rt)

\* usePostRealtime: configure, then subscribePost; the first card of a post
\* subscribes.
Mount == \E c \in Cards \ rt.mounted :
    /\ rt.token /\ rt.mounts < MaxMounts
    /\ \E r \in Ensure(rt) :
          LET s == IF PostOf[c] \in Watched(rt.mounted) THEN r
                   ELSE Send(r, "subscribe", {PostOf[c]}) IN
          rt' = [s EXCEPT !.mounted = @ \union {c}, !.mounts = @ + 1]

\* Mutant: the first card to go unsubscribes.
UnmountAny == \E c \in rt.mounted :
    rt' = [Send(rt, "unsubscribe", {PostOf[c]}) EXCEPT !.mounted = @ \ {c}]

\* The last card of a post unsubscribes.
Unmount == \E c \in rt.mounted :
    rt' = [IF PostOf[c] \in Watched(rt.mounted \ {c}) THEN rt
           ELSE Send(rt, "unsubscribe", {PostOf[c]}) EXCEPT !.mounted = @ \ {c}]

\* Every watched post is subscribed to, through the current socket: one frame
\* each, in one batch here.
OnOpen == \E s \in Sockets :
    /\ rt.state[s] = "connecting"
    /\ rt' = Send([rt EXCEPT !.state[s] = "open"], "subscribe", Watched(rt.mounted))

\* The server or the network takes the socket down; or it never opens.
Drop == \E s \in Sockets :
    /\ rt.state[s] \in {"connecting", "open"} /\ rt.drops < MaxDrops
    /\ rt' = [rt EXCEPT !.state[s] = "closing", !.drops = @ + 1]

\* onclose forgets the current socket, whichever that is.
OnClose == \E s \in Sockets :
    /\ rt.state[s] = "closing"
    /\ rt' = [rt EXCEPT !.state[s] = "closed", !.frames[s] = <<>>, !.groups[s] = {},
                        !.ws = 0, !.reconnectTimer = TRUE]

Reconnect ==
    /\ rt.reconnectTimer
    /\ \E r \in Ensure(rt) : rt' = [r EXCEPT !.reconnectTimer = FALSE]

\* realtime-svc joins or leaves the group of the post.
Serve == \E s \in Sockets :
    /\ rt.state[s] = "open" /\ rt.frames[s] # <<>>
    /\ LET f == Head(rt.frames[s]) IN
       rt' = [rt EXCEPT !.frames[s] = Tail(@),
                 !.groups[s] = IF f.action = "subscribe" THEN @ \union f.posts
                                                         ELSE @ \ f.posts]
-----------------------------------------------------------------------------
Progress == OnOpen \/ OnClose \/ Reconnect \/ Serve

Next == SignIn \/ Listen \/ Mount \/ Unmount \/ Drop \/ Progress

Spec == Init /\ [][Next]_rt

\* Once realtime-svc has handled the frames of the open socket, it sends the
\* page exactly the posts that have a card on screen, whatever cards came and
\* went while the socket was down or its frames were on their way.
SubscribedWhenOpen ==
    rt.ws # 0 => (rt.state[rt.ws] = "open" /\ rt.frames[rt.ws] = <<>>
                    => rt.groups[rt.ws] = Watched(rt.mounted))

\* The socket of a viewer who is signed in is open, and its frames are handled.
Quiet == rt.token =>
    rt.ws # 0 /\ rt.state[rt.ws] = "open" /\ rt.frames[rt.ws] = <<>>
=============================================================================
