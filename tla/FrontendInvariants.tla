------------------------- MODULE FrontendInvariants -------------------------
(***************************************************************************)
(* The inductive invariants of the components of a tab (see Frontend), which *)
(* FrontendProofs shows to hold.  Each says what every call on its way will  *)
(* still change, and holds of the component on screen (CardInv, GridInv,     *)
(* ...); the smaller predicates are its parts, stated for any value of view. *)
(***************************************************************************)
EXTENDS Frontend, Sequences, FiniteSets

\* A list of the elements of a set without repetition is as long as the set is large.
ListOf(s, l, T) ==
    /\ DOMAIN s = 1..l
    /\ \A i, j \in 1..l : s[i] = s[j] => i = j
    /\ \A i \in 1..l : s[i] \in T
    /\ \A t \in T : \E i \in 1..l : s[i] = t
-----------------------------------------------------------------------------
(* Post card.                                                               *)

CardCall == [at : Card!Calls, next : BOOLEAN]

CardSet == [at : Card!Calls \union {"loaded"}, has : BOOLEAN]

CardRepost == [at : Card!Calls, next : BOOLEAN, id : {0} \union Card!Clicks]

CardState == [
    liked : BOOLEAN, likeLoad : [at : Card!Calls, liked : BOOLEAN], like : CardCall,
    saved : BOOLEAN, set : CardSet,
    save : [at : Card!Calls \union {"waiting"}, next : BOOLEAN],
    reposted : BOOLEAN, repostId : {0} \union Card!Clicks, repostCount : Nat,
    repost : CardRepost,
    sLiked : BOOLEAN, sSaved : BOOLEAN, sReposts : SUBSET Card!Clicks,
    acts : 0..MaxActs["card"], raced : BOOLEAN, failed : BOOLEAN]

CardLikes(c) ==
    /\ c.likeLoad.at \in {"idle", "sent", "ok"} /\ c.like.at \in {"idle", "sent", "ok"}
    /\ c.likeLoad.at # "idle" => c.like.at = "idle"
    /\ c.likeLoad.at = "ok" => c.likeLoad.liked = c.sLiked
    /\ c.likeLoad.at = "idle" /\ c.like.at = "idle" => c.liked = c.sLiked
    /\ c.like.at # "idle" => c.liked = c.like.next
    /\ c.like.at = "ok" => c.sLiked = c.like.next

CardSaves(c) ==
    /\ c.set.at \in {"sent", "ok", "loaded"} /\ c.save.at \in {"idle", "sent", "ok"}
    /\ c.set.at # "loaded" => c.save.at = "idle"
    /\ c.set.at = "ok" => c.set.has = c.sSaved
    /\ c.set.at = "loaded" => c.saved = c.set.has
    /\ c.set.at = "loaded" /\ c.save.at = "idle" => c.saved = c.sSaved
    /\ c.save.at # "idle" => c.saved = c.save.next
    /\ c.save.at = "ok" => c.sSaved = c.save.next

CardReposts(c) ==
    /\ c.repost.at \in {"idle", "sent", "ok"}
    /\ c.repostCount = IF c.reposted THEN 1 ELSE 0
    /\ c.repost.at # "idle" => c.reposted = c.repost.next
    /\ c.repost.at = "idle" =>
          IF c.reposted THEN c.repostId # 0 /\ c.sReposts = {c.repostId} ELSE c.sReposts = {}
    /\ c.repost.at = "sent" =>
          c.sReposts = IF c.repost.next THEN {} ELSE {c.repost.id}
    /\ c.repost.at = "ok" =>
          IF c.repost.next THEN c.repost.id # 0 /\ c.sReposts = {c.repost.id}
                           ELSE c.sReposts = {}

CardGood(c) ==
    /\ c \in CardState
    /\ c.repost.at = "sent" => c.acts # 0
    /\ ~c.failed /\ ~c.raced => CardLikes(c) /\ CardSaves(c) /\ CardReposts(c)

CardInv == CardGood(view)

\* The buttons have nothing to do with each other: the card h shows and keeps of one
\* of them what the card does.
CardLikesSame(h) ==
  h.liked = view.liked /\ h.likeLoad = view.likeLoad /\ h.like = view.like /\ h.sLiked = view.sLiked

CardSavesSame(h) ==
  h.saved = view.saved /\ h.set = view.set /\ h.save = view.save /\ h.sSaved = view.sSaved

CardRepostsSame(h) ==
  /\ h.reposted = view.reposted /\ h.repostId = view.repostId
  /\ h.repostCount = view.repostCount /\ h.repost = view.repost /\ h.sReposts = view.sReposts
-----------------------------------------------------------------------------
(* Comments.                                                                *)

\* Of the fields that do not matter here the type says nothing.
CommentsShape(t) == t \in [
    comments : {t.comments}, commentCount : {t.commentCount}, sComments : {t.sComments},
    showComments : {t.showComments}, load : {t.load}, deleting : {t.deleting},
    pushes : {t.pushes},
    draft : Comments!Drafts, posting : [at : Comments!Calls, draft : Comments!Drafts, comment : Comments!Comments \union {0}],
    made : Nat, own : [Comments!Comments -> Comments!Drafts], acts : 0..MaxActs["comments"], lost : BOOLEAN]

\* Comments and drafts are numbered as they come, and there is room for the
\* comment that is on its way.
CommentsNumbered(t) ==
    /\ t.made <= t.acts /\ (t.posting.at = "sent" => t.made < t.acts)
    /\ t.draft <= t.acts + 1 /\ t.posting.draft <= t.acts
    /\ \A c \in Comments!Comments : t.own[c] # 0 => c <= t.made /\ t.own[c] <= t.acts

CommentsOnce(t) ==
    /\ \A c, d \in Comments!Comments : t.own[c] = t.own[d] /\ t.own[c] # 0 => c = d
    /\ t.draft # 0 /\ t.posting.at # "ok" => \A c \in Comments!Comments : t.own[c] # t.draft
    /\ t.posting.at # "idle" => t.posting.draft = t.draft /\ t.draft # 0

CommentsGood(t) ==
    /\ CommentsShape(t)
    /\ CommentsNumbered(t)
    /\ ~t.lost => CommentsOnce(t)

CommentsInv == CommentsGood(view)

\* The lists and calls that CommentsShape leaves open.
CommentsLoad == [at : Comments!Calls, items : Seq(Comments!Comments)]

CommentsLists(t) ==
    /\ t.comments \in Seq(Comments!Comments) /\ t.sComments \in Seq(Comments!Comments)
    /\ t.commentCount \in Nat /\ t.pushes \in Nat /\ t.showComments \in BOOLEAN
    /\ t.load \in [Comments!Loads -> CommentsLoad]
    /\ t.deleting \in [at : Comments!Calls, comment : Comments!Comments \union {0}]
    /\ t.posting.at = "ok" => t.posting.comment \in Comments!Comments

CommentsTyped == CommentsLists(view)
-----------------------------------------------------------------------------
(* Profile page.                                                            *)

ProfileFollow == [at : Profile!Calls \union {"checked", "refused"}, next : BOOLEAN]

ProfileAction == [at : Profile!Calls, on : {"blocking", "closeFriend"}, next : BOOLEAN]

ProfileState == [
    isMe : BOOLEAN, load : [at : Profile!Calls, answer : Profile!Relation],
    profile : BOOLEAN, loading : BOOLEAN, relation : Profile!Relation,
    follow : ProfileFollow, action : ProfileAction,
    tab : Profile!Tabs, grid : [Profile!Grids -> {"null", "shown"}],
    gridLoad : [Profile!Grids -> Profile!Calls], tabLoading : BOOLEAN,
    server : Profile!Relation, acts : 0..MaxActs["profile"], crossed : BOOLEAN, failed : BOOLEAN]

\* A block that user-svc has made and the page does not know of.
ProfileSevers(p) == p.action.on = "blocking" /\ p.action.at = "ok" /\ p.action.next

\* Before the profile is shown nothing can be clicked.
ProfileWaits(p) ==
    /\ ~p.profile /\ p.follow.at = "idle" /\ p.action.at = "idle"
    /\ p.load.at \in {"sent", "ok"}
    /\ p.load.at = "ok" => p.load.answer = p.server

ProfileShown(p) ==
    /\ p.load.at = "idle" /\ p.action.at \in {"idle", "sent", "ok"} /\ p.follow.at # "lost"
    /\ p.server.blocking = IF p.action.on = "blocking" /\ p.action.at = "ok"
                           THEN p.action.next ELSE p.relation.blocking
    /\ IF p.action.on = "closeFriend" /\ p.action.at = "sent"
       THEN p.relation.closeFriend = p.action.next /\ ~p.relation.blocking
       ELSE ProfileSevers(p) \/ p.relation.closeFriend = p.server.closeFriend
    /\ p.follow.at \in {"idle", "ok"} =>
          ProfileSevers(p) \/ p.relation.following = p.server.following
    /\ p.follow.at \in {"sent", "checked"} =>
          IF p.server.blocking THEN p.follow.next \/ ~p.relation.following
          ELSE p.relation.following = p.follow.next
    /\ p.follow.at = "refused" => p.follow.next /\ ~p.server.following
    /\ p.follow.at = "checked" => p.follow.next

ProfileGood(p) ==
    /\ p \in ProfileState
    /\ ~p.failed /\ ~p.crossed =>
          /\ p.server.blocking => ~p.server.following /\ ~p.server.closeFriend
          /\ ProfileWaits(p) \/ ProfileShown(p)

ProfileInv == ProfileGood(view)
-----------------------------------------------------------------------------
(* Search.                                                                  *)

SearchCall == [n : 0..MaxActs["search"] + 1, q : Queries, live : BOOLEAN,
               at : {"timer", "sent", "hydrating"} \union Search!Ends]

SearchState == [
    hook : Search!Hooks, enabled : BOOLEAN, query : Queries \union {Search!NoQuery},
    loading : BOOLEAN, shown : Search!Answers, error : BOOLEAN, failed : BOOLEAN,
    calls : SUBSET SearchCall, acts : 0..MaxActs["search"]]

SearchLiveCalls ==
    /\ \A call \in view.calls : call.live =>
          view.enabled /\ view.loading /\ call.q = view.query /\ view.query # Search!NoQuery
    /\ \A c, d \in view.calls : c.live /\ d.live => c = d

SearchInv ==
    /\ view \in SearchState
    /\ SearchLiveCalls
    /\ ~view.enabled /\ view.hook # "search" => view.loading
    /\ view.enabled /\ ~view.loading =>
          view.failed \/ view.shown = IF view.query = Search!NoQuery THEN "nothing" ELSE view.query
-----------------------------------------------------------------------------
(* Story viewer.                                                            *)

StoriesGroups == [author : Stories!Authors, stories : Nat \ {0}]

StoriesShown == {Stories!NoStory} \union (Stories!Authors \X (Nat \ {0}))

StoriesFeeds == {<<>>} \union Feeds

StoriesState == [
    groups : StoriesFeeds, hasUnseen : SUBSET Stories!Authors, loading : BOOLEAN,
    load : [at : Stories!Calls, feed : StoriesFeeds],
    open : BOOLEAN, groupIdx : Nat \ {0}, storyIdx : Nat \ {0},
    media : [at : Stories!Calls, of : StoriesShown], image : StoriesShown,
    acts : 0..MaxActs["stories"], reloaded : BOOLEAN, failed : BOOLEAN]

StoriesInv ==
    /\ view \in StoriesState
    /\ view.image \in {Stories!NoStory, Stories!Story(view)}
    /\ view.media.at # "idle" => view.media.of = Stories!Story(view)
    /\ view.open /\ Stories!Story(view) = Stories!NoStory => view.reloaded

\* Wherever a tap or the timer goes, there is a story, or the viewer closes.
\* The state s is the present one, but for the number of taps.
StoriesHere(s) ==
    /\ s \in StoriesState
    /\ s.image = view.image /\ s.media = view.media
    /\ s.open = view.open /\ s.reloaded = view.reloaded
    /\ s.groups = view.groups
    /\ s.groupIdx = view.groupIdx /\ s.storyIdx = view.storyIdx
-----------------------------------------------------------------------------
(* Story camera.                                                            *)

CameraState == [
    open : BOOLEAN, busy : BOOLEAN, captured : {Camera!None} \union Camera!Acts,
    starting : SUBSET Camera!Acts, live : SUBSET Camera!Acts, streamRef : {Camera!None} \union Camera!Acts,
    blob : {Camera!None} \union Camera!Acts,
    share : [Camera!Flows -> [at : Camera!Calls \union Camera!UploadSteps, capture : {Camera!None} \union Camera!Acts]],
    stored : [Camera!Acts -> Nat], acts : 0..MaxActs["camera"],
    lost : SUBSET Camera!Acts, freed : SUBSET Camera!Acts]

\* Captures are numbered as they are taken, and one whose blob is still to come
\* is not shared.
CameraCaptures(c) ==
    /\ c.captured <= c.acts /\ c.blob <= c.acts
    /\ c.blob # Camera!None => c.blob # c.captured
    /\ \A f \in Camera!Flows : c.share[f].at # "idle" =>
          c.share[f].capture \in 1..c.acts /\ c.share[f].capture # c.blob
    /\ \A a \in Camera!Acts : c.stored[a] # 0 => a <= c.acts

\* One flow at most is under way for a capture, before it is stored; while it is,
\* and the capture is on screen, the button is busy.
CameraOwn(c, a) ==
    LET flows == {f \in Camera!Flows : c.share[f].at # "idle" /\ c.share[f].capture = a} IN
    /\ c.stored[a] <= 1
    /\ c.stored[a] # 0 => a # c.blob
    /\ \A f, g \in flows : f = g
    /\ \A f \in flows : c.share[f].at # "ok" => c.stored[a] = 0
    /\ flows # {} /\ a = c.captured => c.busy
    /\ c.stored[a] # 0 /\ a = c.captured => flows # {}

CameraOnce(c) == \A a \in Camera!Acts \ (c.lost \union c.freed) : CameraOwn(c, a)

CameraGood(c) == c \in CameraState /\ CameraCaptures(c) /\ CameraOnce(c)

CameraInv == CameraGood(view)
-----------------------------------------------------------------------------
(* Upload page.                                                             *)

\* What has become of submission n: posts are made by the last call only, out
\* of a registered medium, and an answer that is ok has made one.
UploadFate(n) ==
    /\ view.posts[n] # <<>> => n \in view.registered /\ n <= view.acts
    /\ Len(view.posts[n]) <= 1
    /\ n < view.acts \/ (n = view.acts /\ ~view.busy) =>
          n \in view.failed \/ view.posts[n] # <<>>

\* How far the submission that is on its way is.
UploadUnderway ==
    LET n == view.acts
        call == view.call IN
    /\ n # 0 /\ call.at # "idle"
    /\ call.step # "post" \/ call.at = "sent" => view.posts[n] = <<>>
    /\ call.step = "post" \/ (call.step = "register" /\ call.at = "ok") => n \in view.registered
    /\ call.step = "post" /\ call.at = "ok" => view.posts[n] # <<>>

UploadInv ==
    /\ Upload!TypeOK
    /\ \A n \in Upload!Submissions : UploadFate(n)
    /\ view.busy => UploadUnderway
    /\ ~view.busy => view.call.at = "idle"
-----------------------------------------------------------------------------
(* Grid.                                                                    *)

GridRead == [n : 1..MaxActs["grid"], post : Grid!Cells, read : BOOLEAN, count : Grid!Counts]

GridState == [
    counter : {"likes", "comments"},
    selected : Grid!Cells \union {Grid!None}, author : Grid!Cells \union {Grid!None},
    overtaken : SUBSET Grid!Cells,
    authors : SUBSET [n : 1..MaxActs["grid"], post : Grid!Cells],
    server : [Grid!Cells -> Grid!Counts], shown : [Grid!Cells -> Grid!Counts],
    seed : [Grid!Cells -> [at : Grid!Calls, count : Grid!Counts]],
    refreshes : SUBSET GridRead,
    pending : SUBSET Grid!Cells, raced : SUBSET Grid!Cells, acts : 0..MaxActs["grid"]]

\* Every click in a dialog, and everything the others do, is one act.
GridCounted(g) ==
    /\ \A c \in Grid!Cells :
          /\ g.server[c] <= g.acts + 1
          /\ c \in g.pending => g.server[c] <= g.acts
    /\ g.selected # Grid!None => g.acts # 0

GridAuthors(g) ==
    g.selected # Grid!None =>
        /\ g.author \in {Grid!None, g.selected} \union g.overtaken
        /\ \A call \in g.authors : call.post \in {g.selected} \union g.overtaken

GridReads(g, c) == {call \in g.refreshes : call.post = c}

GridSeeded(g) == \A c \in Grid!Cells : g.seed[c].at = "idle"

GridFresh(g, c) ==
    /\ GridReads(g, c) # {} =>
          /\ GridSeeded(g)
          /\ \A x, y \in GridReads(g, c) : x = y
          /\ \A x \in GridReads(g, c) : x.read => x.count = g.server[c]
    /\ GridReads(g, c) = {} /\ GridSeeded(g) => g.shown[c] = g.server[c]
    /\ GridReads(g, c) = {} /\ g.seed[c].at = "ok" => g.seed[c].count = g.server[c]

GridCells(g) == \A c \in Grid!Cells \ g.raced : c # g.selected => GridFresh(g, c)

GridInv ==
    /\ view \in GridState
    /\ GridCounted(view)
    /\ GridAuthors(view)
    /\ GridCells(view)
-----------------------------------------------------------------------------
(* Realtime client.                                                         *)

RealtimeState == [
    ws : {0} \union Realtime!Sockets, state : [Realtime!Sockets -> Realtime!States],
    frames : [Realtime!Sockets -> Seq(Realtime!Frames)], groups : [Realtime!Sockets -> SUBSET Realtime!Posts],
    mounted : SUBSET Cards, token : BOOLEAN, reconnectTimer : BOOLEAN,
    mounts : 0..MaxMounts, drops : 0..MaxDrops]

\* Whether post p is in the group when the frames fs have been handled from the
\* groups g on: it was there, or a frame subscribed, and no later frame undid it.
RealtimeJoins(g, fs, p) ==
    \E i \in 0..Len(fs) :
        /\ IF i = 0 THEN p \in g ELSE fs[i].action = "subscribe" /\ p \in fs[i].posts
        /\ \A j \in i + 1..Len(fs) : p \in fs[j].posts => fs[j].action = "subscribe"

RealtimeNow(r, p) == RealtimeJoins(r.groups[r.ws], r.frames[r.ws], p)

\* Sockets are numbered as they are opened, and say nothing before.
RealtimeSockets(r) ==
    /\ r \in RealtimeState
    /\ \E k \in 0..MaxSockets : {s \in Realtime!Sockets : r.state[s] # "none"} = 1..k
    /\ \A s \in Realtime!Sockets : r.state[s] \in {"none", "connecting"} =>
          r.frames[s] = <<>> /\ r.groups[s] = {}

RealtimeGood(r) ==
    /\ RealtimeSockets(r)
    /\ r.ws # 0 /\ r.state[r.ws] = "open" =>
          \A p \in Realtime!Posts : RealtimeNow(r, p) <=> p \in Realtime!Watched(r.mounted)

RealtimeInv == RealtimeGood(view)
-----------------------------------------------------------------------------
(* Notifications.                                                           *)

NotesSnapshot(ids, read) == {[id |-> i, read |-> i \in read] : i \in ids}

NotesHook == [call : {"away", "idle"} \union Notes!Pending, snapshot : SUBSET Notes!Item,
              count : Nat, items : Seq(Notes!Item), unread : Nat, raced : BOOLEAN]

NotesState == [rows : SUBSET Notes!Ids, sRead : SUBSET Notes!Ids, push : Seq(Notes!Ids),
               reads : SUBSET Notes!Ids, failed : BOOLEAN, hook : [Notes!Hooks -> NotesHook]]

NotesListed(items) == {items[i].id : i \in DOMAIN items}

NotesUnread(items) == {items[i].id : i \in {j \in DOMAIN items : ~items[j].read}}

NotesQueued(n) == {n.push[i] : i \in DOMAIN n.push}

\* The rows are numbered from 0 to k, and pushed in this order.
NotesRows(n, k) ==
    /\ n.rows = 0..k /\ Len(n.push) <= k
    /\ \A i, j \in DOMAIN n.push : i < j => n.push[i] < n.push[j]
    /\ \A i \in DOMAIN n.push : n.push[i] <= k
    /\ n.hook["badge"].call # "away"
    /\ n.hook["page"].call = "away" =>
          n.hook["page"].items = <<>> /\ n.sRead = {} /\ n.reads = {}

NotesSized(n, k, h) ==
    /\ Len(n.hook[h].items) + Len(n.push) <= k + k + 2
    /\ n.hook[h].call = "ok" =>
          \E r \in 0..k, read \in SUBSET Notes!Ids : \E f \in 0..r :
              n.hook[h].snapshot = NotesSnapshot(f..r, read)

\* While the list of a hook is read, nothing happens.
NotesAsked(n, h) ==
    /\ n.push = <<>> /\ n.hook[h].items = <<>>
    /\ h = "page" => n.sRead = {} /\ n.reads = {}
    /\ n.hook[h].call # "sent" => n.hook[h].count = Cardinality(n.rows \ n.sRead)
    /\ n.hook[h].call = "ok" => n.hook[h].snapshot = NotesSnapshot(Notes!Newest(n.rows), n.sRead)

\* The list goes back to row f, and the counter counts d unread rows before it.
NotesFits(n, h, f, d) ==
    LET items == n.hook[h].items IN
    /\ f = 0 \/ f + NoteLimit - 1 \in n.rows
    /\ (f = 0 => d = 0) /\ (h = "page" => d = f)
    /\ \A i, j \in DOMAIN items : items[i].id = items[j].id => i = j
    /\ NotesListed(items) \intersect NotesQueued(n) = {}
    /\ NotesListed(items) \union NotesQueued(n) = {id \in n.rows : id >= f}
    /\ n.hook[h].unread = Cardinality(NotesUnread(items)) + d
    /\ h = "page" =>
          /\ \A i \in DOMAIN items : items[i].read <=> items[i].id \in n.sRead \union n.reads
          /\ n.sRead \union n.reads \subseteq NotesListed(items)

NotesFollowed(n, h) ==
    /\ n.hook[h].call \in {"away", "idle", "sent", "counted", "ok"}
    /\ ~n.hook[h].raced =>
          /\ n.hook[h].call \in {"sent", "counted", "ok"} => NotesAsked(n, h)
          /\ n.hook[h].call = "idle" => \E f \in n.rows, d \in Nat : NotesFits(n, h, f, d)

NotesGood(n, k) ==
    /\ n \in NotesState /\ k \in Notes!Ids /\ NotesRows(n, k)
    /\ \A h \in Notes!Hooks : NotesSized(n, k, h) /\ (~n.failed => NotesFollowed(n, h))

NotesInv == \E k \in Notes!Ids : NotesGood(view, k)

\* The list of items where those with this id are read.
NotesMarked(items, id) ==
    [i \in DOMAIN items |->
        IF items[i].id = id THEN [items[i] EXCEPT !.read = TRUE] ELSE items[i]]
-----------------------------------------------------------------------------
(* Messages.                                                                *)

InboxLoad == [at : Inbox!Calls, of : Inbox!Selection, items : Seq(Inbox!Numbers)]

InboxSend == [at : Inbox!Calls, of : Inbox!Selection, message : {0} \union Inbox!Numbers]

InboxPush == [of : Conversations, message : Inbox!Numbers]

InboxState == [
    selected : Inbox!Selection, messages : Seq(Inbox!Numbers),
    stored : [Conversations -> Seq(Inbox!Numbers)],
    last : [Conversations -> {0} \union Inbox!Numbers],
    load : [Inbox!Slots -> InboxLoad], send : [Inbox!Slots -> InboxSend],
    start : [at : Inbox!Calls, of : Inbox!Selection],
    pushes : Seq(InboxPush), acts : 0..MaxActs["inbox"],
    overlapped : BOOLEAN, failed : BOOLEAN]

InboxHas(list, e) == \E j \in DOMAIN list : list[j] = e

InboxOnce(list) == \A j, k \in DOMAIN list : list[j] = list[k] => j = k

\* The messages are numbered as they are made; each is stored in one place at
\* most, pushed only when stored, and never both sent and pushed.
InboxNumbered(i) ==
    /\ \A c \in Conversations : \A m \in Inbox!Numbers : InboxHas(i.stored[c], m) => m <= i.acts
    /\ \A s \in Inbox!Slots : i.load[s].at # "idle" => i.load[s].of # Inbox!Null
    /\ \A s \in Inbox!Slots :
          i.send[s].at # "idle" => i.send[s].of # Inbox!Null /\ i.send[s].message \in 1..i.acts

InboxMade(i) ==
    /\ \A c \in Conversations : InboxOnce(i.stored[c])
    /\ \A s \in Inbox!Slots : i.send[s].at = "sent" =>
          \A c \in Conversations : ~InboxHas(i.stored[c], i.send[s].message)
    /\ \A s \in Inbox!Slots : i.send[s].at = "ok" => InboxHas(i.stored[i.send[s].of], i.send[s].message)
    /\ \A s, t \in Inbox!Slots : s # t /\ i.send[s].at # "idle" /\ i.send[t].at # "idle" =>
          i.send[s].message # i.send[t].message
    /\ \A p \in InboxPush : InboxHas(i.pushes, p) =>
          /\ InboxHas(i.stored[p.of], p.message)
          /\ \A s \in Inbox!Slots : i.send[s].at # "idle" => i.send[s].message # p.message

\* The messages of a thread from the jth on: all of it, or a page at least.
InboxFrom(thread, j) == {thread[k] : k \in j..Len(thread)}

InboxStart(thread, j) ==
    /\ j \in Nat \ {0} /\ j <= Len(thread) + 1
    /\ j = 1 \/ Len(thread) - j + 1 >= PageSize

\* What a list of messages lacks of the open thread from the jth message on is
\* still to be appended.
InboxCovers(i, list, j) ==
    /\ InboxOnce(list) /\ InboxStart(i.stored[i.selected], j)
    /\ \A m \in Inbox!Numbers : InboxHas(list, m) => m \in InboxFrom(i.stored[i.selected], j)
    /\ \A s \in Inbox!Slots : i.send[s].at = "ok" =>
          /\ ~InboxHas(list, i.send[s].message)
          /\ i.send[s].message \in InboxFrom(i.stored[i.selected], j)
    /\ \A m \in Inbox!Numbers : InboxHas(i.pushes, [of |-> i.selected, message |-> m]) =>
          m \in InboxFrom(i.stored[i.selected], j)
    /\ \A m \in Inbox!Numbers : m \in InboxFrom(i.stored[i.selected], j) =>
          \/ InboxHas(list, m)
          \/ InboxHas(i.pushes, [of |-> i.selected, message |-> m])
          \/ \E s \in Inbox!Slots : i.send[s].at = "ok" /\ i.send[s].message = m

InboxNoLoad(i) == \A s \in Inbox!Slots : i.load[s].at = "idle"

InboxNoSend(i) == \A s \in Inbox!Slots : i.send[s].at = "idle"

InboxCalls(i) ==
    /\ \A s \in Inbox!Slots : /\ i.load[s].at \in {"idle", "sent", "ok"}
                              /\ i.send[s].at \in {"idle", "sent", "ok"}
    /\ InboxNoLoad(i) \/ InboxNoSend(i)
    /\ \A s, t \in Inbox!Slots : s # t => i.load[s].at = "idle" \/ i.load[t].at = "idle"
    /\ \A s \in Inbox!Slots : i.load[s].at # "idle" => i.load[s].of = i.selected
    /\ \A s \in Inbox!Slots : i.send[s].at # "idle" => i.send[s].of = i.selected

InboxThread(i) ==
    /\ \A s \in Inbox!Slots : i.load[s].at = "ok" => \E j : InboxCovers(i, i.load[s].items, j)
    /\ InboxNoLoad(i) /\ i.selected # Inbox!Null => \E j : InboxCovers(i, i.messages, j)

InboxGood(i) ==
    /\ i \in InboxState
    /\ InboxNumbered(i)
    /\ InboxMade(i)
    /\ ~i.failed /\ ~i.overlapped => InboxCalls(i) /\ InboxThread(i)

InboxInv == InboxGood(view)
=============================================================================
