---------------------------- MODULE StoryCamera ----------------------------
(***************************************************************************)
(* The story dialog (frontend/components/story-camera-dialog.tsx): the       *)
(* camera follows the dialog and the capture, and the share flow runs on     *)
(* when the dialog is closed.  Camera streams and captures are numbered by   *)
(* the act that asked for them.                                              *)
(***************************************************************************)
EXTENDS Fetch, Integers, FiniteSets

CONSTANT MaxActs    \* bound: what the user does during one visit

VARIABLE camera

Acts == 1..MaxActs
None == 0
Flows == {1, 2}     \* bound: share flows in flight

\* lost and freed are history: the captures whose story call was lost, and those
\* on their way when the button was freed by the failure of another flow.
TypeOK == camera \in [
    open : BOOLEAN, busy : BOOLEAN, captured : {None} \union Acts,
    starting : SUBSET Acts, live : SUBSET Acts, streamRef : {None} \union Acts,
    blob : {None} \union Acts,
    share : [Flows -> [at : Calls \union UploadSteps, capture : {None} \union Acts]],
    stored : [Acts -> Nat], acts : 0..MaxActs, lost : SUBSET Acts, freed : SUBSET Acts]

Idle == [at |-> "idle", capture |-> None]

Init == camera = [
    open |-> FALSE, busy |-> FALSE, captured |-> None,
    starting |-> {}, live |-> {}, streamRef |-> None, blob |-> None,
    share |-> [f \in Flows |-> Idle], stored |-> [a \in Acts |-> 0],
    acts |-> 0, lost |-> {}, freed |-> {}]

Act == camera.acts < MaxActs
Acted == [camera EXCEPT !.acts = @ + 1]

\* stopCamera: the stream it knows of.
Stop(c) == [c EXCEPT !.live = @ \ {c.streamRef}, !.streamRef = None]

\* The effect on open, captured and facing.
Drive(c) == IF c.open /\ c.captured = None
            THEN [Stop(c) EXCEPT !.starting = @ \union {c.acts}] ELSE Stop(c)

Reset(c) == [c EXCEPT !.captured = None, !.busy = FALSE]

\* onOpenChange(false).
Closed(c) == Drive([Reset(c) EXCEPT !.open = FALSE])

Apply(c, capture) == Drive([c EXCEPT !.captured = capture])
-----------------------------------------------------------------------------
Open == Act /\ ~camera.open /\ camera' = Drive([Acted EXCEPT !.open = TRUE])

Close == Act /\ camera.open /\ camera' = Closed(Acted)

Flip == Act /\ camera.open /\ camera.captured = None /\ camera' = Drive(Acted)

\* getUserMedia resolves: the stream becomes the current one, whatever the
\* dialog has done since.  It may be denied.
Started == \E s \in camera.starting :
    LET c == [camera EXCEPT !.starting = @ \ {s}] IN
    camera' \in {c, [c EXCEPT !.live = @ \union {s}, !.streamRef = s]}

\* The picture is taken now, its blob comes later.
Capture ==
    /\ Act /\ camera.open /\ camera.captured = None /\ camera.blob = None
    /\ camera.streamRef # None
    /\ camera' = [Acted EXCEPT !.blob = camera.acts + 1]

BlobReady == camera.blob # None /\ camera' = Apply([camera EXCEPT !.blob = None], camera.blob)

PickFile == /\ Act /\ camera.open /\ camera.captured = None
            /\ camera' = Apply(Acted, camera.acts + 1)

Retake == /\ Act /\ camera.open /\ camera.captured # None /\ ~camera.busy
          /\ camera' = Drive(Reset(Acted))
-----------------------------------------------------------------------------
Share == \E f \in Flows :
    /\ Act /\ camera.open /\ camera.captured # None /\ ~camera.busy
    /\ camera.share[f].at = "idle"
    /\ camera' = [Acted EXCEPT !.busy = TRUE,
                    !.share[f] = [at |-> "ticket", capture |-> camera.captured]]

\* The upload, one call after the other.
UploadStep == \E f \in Flows :
    /\ camera.share[f].at \in UploadSteps
    /\ \E to \in {AfterUpload(camera.share[f].at, "sent")} \union Faults :
          camera' = [camera EXCEPT !.share[f].at = to]

ServeStory == \E f \in Flows, end \in Ends : \E done \in Effects(end) :
    /\ camera.share[f].at = "sent"
    /\ LET capture == camera.share[f].capture IN
       camera' = [camera EXCEPT !.share[f].at = end,
                    !.lost = IF end = "lost" THEN @ \union {capture} ELSE @,
                    !.stored[capture] = IF done THEN @ + 1 ELSE @]

Underway(c) == {c.share[f].capture : f \in Flows} \ {None}

\* The dialog is closed, or its button freed, even if it was closed and opened
\* again in between.
ShareEnds == \E f \in Flows :
    /\ camera.share[f].at \in Ends
    /\ LET c == [camera EXCEPT !.share[f] = Idle] IN
       camera' = IF camera.share[f].at = "ok" THEN Closed(c)
                 ELSE [c EXCEPT !.busy = FALSE, !.freed = @ \union Underway(c)]
-----------------------------------------------------------------------------
Progress == Started \/ BlobReady \/ UploadStep \/ ServeStory \/ ShareEnds

Next == Open \/ Close \/ Flip \/ Capture \/ PickFile \/ Retake \/ Share \/ Progress

Spec == Init /\ [][Next]_camera

Quiet == /\ camera.starting = {} /\ camera.blob = None
         /\ \A f \in Flows : camera.share[f].at = "idle"

\* A capture becomes one story at most, however often the dialog is closed and
\* opened while it is shared: but for one whose own answer was lost, and one on
\* its way when an earlier flow failed and freed the button of its dialog.
SharedOnce == \A a \in Acts \ (camera.lost \union camera.freed) : camera.stored[a] <= 1

\* "Drive the camera from the dialog's open state and the capture state"
\* (story-camera-dialog.tsx:73): a closed dialog that waits for no camera leaves
\* none running.  The code does not keep this: a stream that getUserMedia gives
\* after the dialog was closed is stored, and nothing stops it.
CameraReleased == ~camera.open /\ camera.starting = {} => camera.live = {}
=============================================================================
