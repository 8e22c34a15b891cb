--------------------------- MODULE MediaPipeline ---------------------------
(***************************************************************************)
(* From an uploaded medium to the variants of a post: media-svc registers    *)
(* the medium (services/media-svc/media/views.py), media-worker processes it *)
(* (services/media-worker/worker.py), and the consumer of post-svc attaches   *)
(* the variants to the posts that show it (posts/management/commands/        *)
(* consume.py).  A post may be made at any moment in between; one made after  *)
(* the last step is read with the variants that media-svc has.               *)
(***************************************************************************)
EXTENDS Naturals, Sequences

CONSTANTS
    Media,
    MaxActs     \* bound: what is asked of the services, and crashes

VARIABLES media, posts

\* The post that shows medium m is named m.  known: the media whose kind the
\* worker can process; media-svc takes any.  The worker is as far with the
\* medium at the head of uploaded as its step says.  lost (news that did not
\* come), anew (media registered again and not processed since) and due (posts
\* made while their variants were still to be attached) are history.
TypeOK ==
    /\ media \in [
        known : SUBSET Media,
        status : [Media -> {"none", "pending", "ready"}], registering : SUBSET Media,
        uploaded : Seq(Media), step : {"start", "marked", "told"},
        processed : Seq(Media), lost : SUBSET Media, anew : SUBSET Media, acts : 0..MaxActs]
    /\ posts \in [made : SUBSET Media, variants : SUBSET Media, due : SUBSET Media]

Init ==
    /\ \E known \in SUBSET Media :
       media = [known |-> known, status |-> [m \in Media |-> "none"], registering |-> {},
                uploaded |-> <<>>, step |-> "start", processed |-> <<>>,
                lost |-> {}, anew |-> {}, acts |-> 0]
    /\ posts = [made |-> {}, variants |-> {}, due |-> {}]

Act == media.acts < MaxActs
Acted == [media EXCEPT !.acts = @ + 1]

Queued(queue, m) == \E i \in DOMAIN queue : queue[i] = m

\* The variants of m are still to be announced, or to be attached.
Coming(m) ==
    \/ \E i \in DOMAIN media.uploaded :
          media.uploaded[i] = m /\ ~(i = 1 /\ media.step = "told")
    \/ Queued(media.processed, m)
-----------------------------------------------------------------------------
\* MediaList.post: the row is replaced, whatever was known of the medium, and
\* told, best effort.
Register(m) ==
    /\ Act /\ m \notin media.registering
    /\ media' = [Acted EXCEPT !.status[m] = "pending", !.registering = @ \union {m},
                   !.anew = IF media.status[m] = "none" THEN @ ELSE @ \union {m}]
    /\ UNCHANGED posts

PublishUploaded(m) ==
    /\ m \in media.registering
    /\ LET told == [media EXCEPT !.registering = @ \ {m}] IN
       media' \in {[told EXCEPT !.uploaded = Append(@, m)],
                   [told EXCEPT !.lost = @ \union {m}]}
    /\ UNCHANGED posts

\* post-svc takes any medium; the page sends one that is registered.
CreatePost(m) ==
    /\ Act /\ media.status[m] # "none" /\ m \notin media.registering \union posts.made
    /\ media' = Acted
    /\ posts' = [posts EXCEPT !.made = @ \union {m},
                   !.due = IF Coming(m) THEN @ \union {m} ELSE @]

\* handle: the variants are stored before they are announced.
MarkReady ==
    /\ media.uploaded # <<>> /\ media.step = "start" /\ Head(media.uploaded) \in media.known
    /\ LET m == Head(media.uploaded) IN
       media' = [media EXCEPT !.step = "marked", !.status[m] = "ready", !.anew = @ \ {m}]
    /\ UNCHANGED posts

\* A kind that is neither image nor video is logged, and that was all: the
\* consumer takes the event for handled.
IgnoreUnknown ==
    /\ media.uploaded # <<>> /\ media.step = "start" /\ Head(media.uploaded) \notin media.known
    /\ media' = [media EXCEPT !.step = "told"]
    /\ UNCHANGED posts

\* Mutant: the variants are announced before they are stored.
AnnounceUnready ==
    /\ media.uploaded # <<>> /\ media.step # "told"
    /\ media' = [media EXCEPT !.step = "told", !.processed = Append(@, Head(media.uploaded))]
    /\ UNCHANGED posts

\* flush may give up on the broker, and nobody notices.
Announce ==
    /\ media.step = "marked"
    /\ LET m == Head(media.uploaded) IN
       media' \in {[media EXCEPT !.step = "told", !.processed = Append(@, m)],
                   [media EXCEPT !.step = "told", !.lost = @ \union {m}]}
    /\ UNCHANGED posts

Commit ==
    /\ media.step = "told"
    /\ media' = [media EXCEPT !.step = "start", !.uploaded = Tail(@)]
    /\ UNCHANGED posts

\* The worker dies, or the call it makes fails, and it starts over.
Restart ==
    /\ Act /\ media.step # "start"
    /\ media' = [Acted EXCEPT !.step = "start"]
    /\ UNCHANGED posts

\* What cannot be processed is given up by the consumer.
GiveUp ==
    /\ media.uploaded # <<>> /\ media.step # "told" /\ Head(media.uploaded) \in media.known
    /\ media' = [media EXCEPT !.step = "start", !.uploaded = Tail(@),
                   !.lost = @ \union {Head(media.uploaded)}]
    /\ UNCHANGED posts

\* _attach_variants sets them on the posts there are; it may be repeated.
AttachVariants ==
    /\ media.processed # <<>>
    /\ posts' = [posts EXCEPT !.variants =
                   @ \union (posts.made \intersect {Head(media.processed)})]
    /\ media' \in {media, [media EXCEPT !.processed = Tail(@)]}

ParkProcessed ==
    /\ media.processed # <<>>
    /\ media' = [media EXCEPT !.processed = Tail(@),
                   !.lost = @ \union {Head(media.processed)}]
    /\ UNCHANGED posts
-----------------------------------------------------------------------------
Next ==
    \/ \E m \in Media : Register(m) \/ PublishUploaded(m) \/ CreatePost(m)
    \/ MarkReady \/ IgnoreUnknown \/ Announce \/ Commit \/ Restart \/ GiveUp
    \/ AttachVariants \/ ParkProcessed

Spec == Init /\ [][Next]_<<media, posts>>
-----------------------------------------------------------------------------
\* Consumers that come back for the variants of an event find them, unless the
\* medium was registered anew in the meantime (mongo.mark_ready).
AnnouncedIsReady ==
    \A m \in Media \ media.anew :
        Queued(media.processed, m) \/ m \in posts.variants => media.status[m] = "ready"

\* When all news has come and none was lost, every registered medium of a kind
\* the worker knows is ready, and a post of it made before its variants were
\* announced has them.
VariantsArrive ==
    media.registering = {} /\ media.uploaded = <<>> /\ media.processed = <<>> =>
        \A m \in media.known \ media.lost :
            /\ media.status[m] # "pending"
            /\ m \in posts.due => m \in posts.variants

MediaAgree == AnnouncedIsReady /\ VariantsArrive

\* "Consumers that come back to GET /media/{id} always find the variants the
\* event advertises": as worker.py says it, of a medium registered anew too.
\* The code does not keep this: the row is pending again.
AdvertisedIsThere == \A m \in Media : Queued(media.processed, m) => media.status[m] = "ready"

\* "The post can be created immediately with the media in pending, with
\* variants arriving later": when no news is lost and all of it has come,
\* nothing is pending, of whatever kind it is (docs/media-svc.md).  The code does
\* not keep this: a kind the worker does not know stays pending.
PendingGetsReady ==
    media.registering = {} /\ media.uploaded = <<>> =>
        \A m \in Media \ media.lost : media.status[m] # "pending"
=============================================================================
