------------------------------ MODULE Frontend ------------------------------
(***************************************************************************)
(* A browser tab.  One of the components below is on screen and holds the    *)
(* state; leaving it unmounts it, so that a visit starts where the           *)
(* component starts and ends when the user goes elsewhere.  Components of    *)
(* one page share no state, except that all of them watch posts through the  *)
(* one realtime client, which is a component of its own here.                *)
(***************************************************************************)
EXTENDS Integers

CONSTANTS
    Faults,                                         \* see Fetch
    MaxActs,                                        \* bound: by component
    Viewport, MaxZoom, Shape, Moves,                \* see EditProfile
    Queries,                                        \* see Search
    NoteLimit,                                      \* see Notifications
    Conversations, PageSize,                        \* see Inbox
    Feeds,                                          \* see Stories
    Cards, PostOf, MaxSockets, MaxDrops, MaxMounts  \* see RealtimeClient

VARIABLES screen, view

Screens == {"card", "comments", "profile", "edit", "search", "notes",
            "inbox", "stories", "camera", "upload", "grid", "realtime"}

ASSUME BoundsAssumption ==
    Faults \subseteq {"refused", "lost"} /\ MaxActs \in [Screens -> Nat]

Card == INSTANCE PostCard WITH card <- view, MaxActs <- MaxActs["card"]
Comments == INSTANCE PostComments WITH thread <- view, MaxComments <- MaxActs["comments"]
Profile == INSTANCE ProfileView WITH profile <- view, MaxActs <- MaxActs["profile"]
Edit == INSTANCE EditProfile WITH edit <- view, MaxActs <- MaxActs["edit"]
Search == INSTANCE Search WITH search <- view, MaxActs <- MaxActs["search"]
Notes == INSTANCE Notifications WITH notes <- view, MaxNotes <- MaxActs["notes"]
Inbox == INSTANCE Inbox WITH inbox <- view, MaxMessages <- MaxActs["inbox"]
Stories == INSTANCE Stories WITH stories <- view, MaxActs <- MaxActs["stories"]
Camera == INSTANCE StoryCamera WITH camera <- view, MaxActs <- MaxActs["camera"]
Upload == INSTANCE Upload WITH upload <- view, MaxActs <- MaxActs["upload"]
Grid == INSTANCE PostGrid WITH grid <- view, MaxActs <- MaxActs["grid"]
Realtime == INSTANCE RealtimeClient WITH rt <- view

ASSUME ComponentAssumption ==
    /\ Edit!EditAssumption /\ Stories!FeedAssumption /\ Realtime!SocketAssumption
    /\ Notes!LimitAssumption /\ Inbox!PageAssumption
-----------------------------------------------------------------------------
Init ==
    \/ screen = "card" /\ Card!Init
    \/ screen = "comments" /\ Comments!Init
    \/ screen = "profile" /\ Profile!Init
    \/ screen = "edit" /\ Edit!Init
    \/ screen = "search" /\ Search!Init
    \/ screen = "notes" /\ Notes!Init
    \/ screen = "inbox" /\ Inbox!Init
    \/ screen = "stories" /\ Stories!Init
    \/ screen = "camera" /\ Camera!Init
    \/ screen = "upload" /\ Upload!Init
    \/ screen = "grid" /\ Grid!Init
    \/ screen = "realtime" /\ Realtime!Init

On(component, step) == screen = component /\ step /\ UNCHANGED screen

Next ==
    \/ On("card", Card!Next)
    \/ On("comments", Comments!Next)
    \/ On("profile", Profile!Next)
    \/ On("edit", Edit!Next)
    \/ On("search", Search!Next)
    \/ On("notes", Notes!Next)
    \/ On("inbox", Inbox!Next)
    \/ On("stories", Stories!Next)
    \/ On("camera", Camera!Next)
    \/ On("upload", Upload!Next)
    \/ On("grid", Grid!Next)
    \/ On("realtime", Realtime!Next)

\* What the browser and the services do by themselves: a call is handled and
\* ends, an answer is applied, a timer fires, a socket opens.
Progress ==
    \/ On("card", Card!Progress)
    \/ On("comments", Comments!Progress)
    \/ On("profile", Profile!Progress)
    \/ On("edit", Edit!Progress)
    \/ On("search", Search!Progress)
    \/ On("notes", Notes!Progress)
    \/ On("inbox", Inbox!Progress)
    \/ On("stories", Stories!Progress)
    \/ On("camera", Camera!Progress)
    \/ On("upload", Upload!Progress)
    \/ On("grid", Grid!Progress)
    \/ On("realtime", Realtime!Progress)

Spec == Init /\ [][Next]_<<screen, view>> /\ WF_<<screen, view>>(Progress)
-----------------------------------------------------------------------------
TypeOK ==
    /\ screen \in Screens
    /\ CASE screen = "card" -> Card!TypeOK
         [] screen = "comments" -> Comments!TypeOK
         [] screen = "profile" -> Profile!TypeOK
         [] screen = "edit" -> Edit!TypeOK
         [] screen = "search" -> Search!TypeOK
         [] screen = "notes" -> Notes!TypeOK
         [] screen = "inbox" -> Inbox!TypeOK
         [] screen = "stories" -> Stories!TypeOK
         [] screen = "camera" -> Camera!TypeOK
         [] screen = "upload" -> Upload!TypeOK
         [] screen = "grid" -> Grid!TypeOK
         [] screen = "realtime" -> Realtime!TypeOK

\* The buttons of a post card, when its calls have ended, show what the
\* services hold (post-card.tsx).
SettledCardAgrees == screen = "card" => Card!SettledCardAgrees

\* What a profile page shows of the relation and of the profile is what
\* user-svc holds (profile-view.tsx, edit-profile-dialog.tsx).
ProfileAgrees ==
    /\ screen = "profile" => Profile!RelationshipAgrees
    /\ screen = "edit" => Edit!SavedProfileAgrees

\* The crop square never leaves the picture (avatar-cropper.tsx).
CropCovers == screen = "edit" => Edit!CropCovers

\* What the user submits once is made once: a comment (post-card.tsx), a story
\* (story-camera-dialog.tsx), a post (upload/page.tsx).
SubmittedOnce ==
    /\ screen = "comments" => Comments!PostedOnce
    /\ screen = "camera" => Camera!SharedOnce
    /\ screen = "upload" => Upload!UploadedOnce

\* A list shows the answer to what is asked now (use-search.ts); a dialog the
\* author of its post, and a cell the counts of its post (post-grid.tsx).
ResultsMatchQuery ==
    /\ screen = "search" => Search!ResultsMatchQuery
    /\ screen = "grid" => Grid!GridAgrees

\* The counter of a notification list fits the list, and the list the service
\* (use-realtime.ts).
UnreadCountsItems == screen = "notes" => Notes!UnreadCountsItems

\* The open conversation shows each of its messages once, and no others
\* (messages/page.tsx).
ThreadAgrees == screen = "inbox" => Inbox!ThreadAgrees

\* The viewer shows a story of the group it is at, with its own picture
\* (story-viewer.tsx).
ViewerShowsStory == screen = "stories" => Stories!ViewerShowsStory

\* Every card on screen is watched by the server once the socket is open
\* (realtime.ts).
SubscribedWhenOpen == screen = "realtime" => Realtime!SubscribedWhenOpen

Quiet ==
    CASE screen = "card" -> Card!Quiet
      [] screen = "comments" -> Comments!Quiet
      [] screen = "profile" -> Profile!Quiet
      [] screen = "edit" -> Edit!Quiet
      [] screen = "search" -> Search!Quiet
      [] screen = "notes" -> Notes!Quiet
      [] screen = "inbox" -> Inbox!Quiet
      [] screen = "stories" -> Stories!Quiet
      [] screen = "camera" -> Camera!Quiet
      [] screen = "upload" -> Upload!Quiet
      [] screen = "grid" -> Grid!Quiet
      [] screen = "realtime" -> Realtime!Quiet

\* A component the user leaves alone comes to rest: no spinner, no disabled
\* button and no call stays for ever, however the calls end; but for "Loading..."
\* over a story whose image could not be fetched (story-viewer.tsx:84), Apply
\* when the picked photo is never decoded (avatar-cropper.tsx:64), and the socket
\* of a page opened without a token (realtime.ts:53).
Settles == <>[]Quiet
=============================================================================
