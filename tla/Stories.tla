------------------------------ MODULE Stories ------------------------------
(***************************************************************************)
(* The stories bar (frontend/components/stories-row.tsx) and the viewer it   *)
(* opens (story-viewer.tsx): the viewer walks by index through groups that   *)
(* the bar may load again under it, and fetches the image of each story.     *)
(* A story is <<author, n>>, a group an author with some of their stories.   *)
(***************************************************************************)
EXTENDS Fetch, Integers, Sequences

CONSTANTS
    Feeds,          \* the feeds stories-svc may answer with: sequences of groups
    MaxActs         \* bound: taps and keys, and stories posted, during one visit

VARIABLE stories

NoStory == <<0, 0>>
Authors == UNION {{f[i].author : i \in DOMAIN f} : f \in Feeds}

\* A feed has a group for each author who has a story.
FeedAssumption == Feeds \subseteq Seq([author : Authors, stories : Nat \ {0}])

IsStory(story) == story = NoStory \/ (story[1] \in Authors /\ story[2] \in Nat \ {0})

\* reloaded and failed are history: the bar was loaded again under the viewer;
\* the image of the story on screen could not be fetched.
TypeOK ==
    /\ stories.groups \in {<<>>} \union Feeds
    /\ stories.hasUnseen \subseteq Authors
    /\ stories.loading \in BOOLEAN /\ stories.open \in BOOLEAN
    /\ stories.groupIdx \in Nat \ {0} /\ stories.storyIdx \in Nat \ {0}
    /\ stories.load.at \in Calls /\ stories.load.feed \in {<<>>} \union Feeds
    /\ stories.media.at \in Calls /\ IsStory(stories.media.of)
    /\ IsStory(stories.image)
    /\ stories.acts \in 0..MaxActs
    /\ stories.reloaded \in BOOLEAN /\ stories.failed \in BOOLEAN

Init == stories = [
    groups |-> <<>>, hasUnseen |-> {}, loading |-> TRUE,
    load |-> [at |-> "sent", feed |-> <<>>],
    open |-> FALSE, groupIdx |-> 1, storyIdx |-> 1,
    media |-> [at |-> "idle", of |-> NoStory], image |-> NoStory,
    acts |-> 0, reloaded |-> FALSE, failed |-> FALSE]

Act == stories.acts < MaxActs
Acted == [stories EXCEPT !.acts = @ + 1]

\* group?.stories[storyIdx]
Story(s) ==
    IF s.open /\ s.groupIdx <= Len(s.groups)
              /\ s.storyIdx <= s.groups[s.groupIdx].stories
    THEN <<s.groups[s.groupIdx].author, s.storyIdx>> ELSE NoStory

\* The ring of a group turns grey with its first story that is shown.
View(s) == IF Story(s) \in {NoStory, Story(stories)} THEN s
           ELSE [s EXCEPT !.hasUnseen = @ \ {Story(s)[1]}]

\* Mutant: the image of the last story stays until the next one is there.
FetchImageKept(s) ==
    [s EXCEPT !.failed = FALSE,
              !.media = [at |-> IF Story(s) = NoStory THEN "idle" ELSE "sent", of |-> Story(s)]]

\* The image is dropped, its fetch cancelled, and that of the story sent.
FetchImage(s) ==
    [s EXCEPT !.image = NoStory, !.failed = FALSE,
              !.media = [at |-> IF Story(s) = NoStory THEN "idle" ELSE "sent", of |-> Story(s)]]

\* The effects of another story.
Show(s) == IF Story(s) = Story(stories) THEN s ELSE View(FetchImage(s))
-----------------------------------------------------------------------------
\* load: when the bar mounts, and when a story was posted.
Posted ==
    /\ Act /\ stories.load.at = "idle"
    /\ stories' = [Acted EXCEPT !.load.at = "sent"]

ServeLoad == \E end \in Ends, feed \in Feeds :
    /\ stories.load.at = "sent"
    /\ stories' = [stories EXCEPT !.load = [at |-> end, feed |-> IF end = "ok" THEN feed ELSE <<>>]]

\* A feed that cannot be loaded empties the bar.  The stories are new objects,
\* so the image of the open viewer is fetched again.
Loaded == \E unseen \in SUBSET Authors :
    /\ stories.load.at \in Ends
    /\ unseen \subseteq {stories.load.feed[i].author : i \in 1..Len(stories.load.feed)}
    /\ stories' = View(FetchImage([stories EXCEPT !.load = [at |-> "idle", feed |-> <<>>],
                          !.groups = stories.load.feed, !.hasUnseen = unseen,
                          !.loading = FALSE, !.reloaded = @ \/ stories.open]))

\* A bubble opens the viewer at its group.
Open == \E i \in 1..Len(stories.groups) :
    /\ Act /\ ~stories.open /\ ~stories.loading
    /\ stories' = Show([Acted EXCEPT !.open = TRUE, !.groupIdx = i, !.storyIdx = 1,
                                     !.reloaded = FALSE])
-----------------------------------------------------------------------------
Close(s) == Show([s EXCEPT !.open = FALSE])

\* The next story, that of the next group, or the end.
After(s) ==
    IF s.groupIdx <= Len(s.groups) /\ s.storyIdx < s.groups[s.groupIdx].stories
    THEN Show([s EXCEPT !.storyIdx = @ + 1])
    ELSE IF s.groupIdx < Len(s.groups)
    THEN Show([s EXCEPT !.groupIdx = @ + 1, !.storyIdx = 1])
    ELSE Close([s EXCEPT !.storyIdx = 1])

\* The story before, or the last one of the group before.
Before(s) ==
    IF s.storyIdx > 1 THEN Show([s EXCEPT !.storyIdx = @ - 1])
    ELSE IF s.groupIdx > 1
    THEN Show([s EXCEPT !.groupIdx = @ - 1, !.storyIdx = s.groups[s.groupIdx - 1].stories])
    ELSE s

\* The group before may be gone after a reload: the code throws, left out.
Tap ==
    /\ stories.open /\ Act
    /\ \/ stories' \in {After(Acted), Close(Acted)}
       \/ /\ stories.storyIdx > 1 \/ stories.groupIdx <= Len(stories.groups) + 1
          /\ stories' = Before(Acted)

ServeMedia == \E end \in Ends :
    /\ stories.media.at = "sent"
    /\ stories' = [stories EXCEPT !.media.at = end]

MediaLoaded ==
    /\ stories.media.at \in Ends
    /\ stories' = [stories EXCEPT !.media = [at |-> "idle", of |-> NoStory],
                     !.image = IF stories.media.at = "ok" THEN stories.media.of ELSE @,
                     !.failed = stories.media.at # "ok"]

\* The timer runs while a story and its image are on screen.
Advance ==
    /\ Story(stories) # NoStory /\ stories.image # NoStory
    /\ stories' = After(stories)
-----------------------------------------------------------------------------
Progress == ServeLoad \/ Loaded \/ ServeMedia \/ MediaLoaded \/ Advance

Next == Posted \/ Open \/ Tap \/ Progress

Spec == Init /\ [][Next]_stories

\* The bar is there, and the viewer has run to its end; unless the image of its
\* story could not be fetched: then it says "Loading..." and the timer does not
\* run; or it has no story to show after a reload.
Quiet == /\ ~stories.loading /\ stories.load.at = "idle" /\ stories.media.at = "idle"
         /\ ~stories.open \/ stories.failed \/ (Story(stories) = NoStory /\ stories.reloaded)

\* The image on screen is that of the story whose author and audience are
\* shown, however fast the viewer is tapped and whatever order images arrive
\* in; and the open viewer always has a story to show, unless the bar was
\* loaded again under it.
ViewerShowsStory ==
    stories.open =>
        /\ stories.image \in {NoStory, Story(stories)}
        /\ Story(stories) = NoStory => stories.reloaded
=============================================================================
