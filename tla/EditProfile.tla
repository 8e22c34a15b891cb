---------------------------- MODULE EditProfile ----------------------------
(***************************************************************************)
(* The dialog that edits the viewer's profile                                *)
(* (frontend/components/edit-profile-dialog.tsx) and the avatar cropper it   *)
(* opens (avatar-cropper.tsx).  A text stands for the four fields; the two   *)
(* axes of the crop are handled alike, so the horizontal one stands for      *)
(* both, in whole pixels and whole zoom steps.                               *)
(***************************************************************************)
EXTENDS Fetch, Integers

CONSTANTS
    Viewport,   \* the side of the crop square
    MaxZoom,
    Shape,      \* of every photo the user has: its natural w(idth) and h(eight)
    Moves,      \* bound: how far one pointer move goes
    MaxActs     \* bound: texts typed, photos picked and forms submitted

CropAssumption ==
    /\ Viewport \in Nat \ {0} /\ MaxZoom \in Nat \ {0} /\ Moves \subseteq Int
    /\ Shape \in [DOMAIN Shape -> [w : Nat \ {0}, h : Nat \ {0}]]
    /\ "none" \notin DOMAIN Shape

EditAssumption ==
    CropAssumption /\ MaxActs \in Nat /\ Faults \subseteq FaultKinds

VARIABLE edit

Photos == DOMAIN Shape
Picture == Photos \union {"none"}
Profiles == [text : 0..MaxActs, avatar : Picture]

\* undecoded is history: the photos that could not be decoded when last picked.
TypeOK == edit \in [
    open : BOOLEAN, text : 0..MaxActs, avatar : Picture,
    picked : Picture, blob : Picture, crops : SUBSET Photos,
    images : SUBSET Photos, undecoded : SUBSET Photos,
    img : Picture, zoom : 1..MaxZoom, x : Int,
    drag : [down : BOOLEAN, ox : Int],
    save : [at : Calls, step : UploadSteps \union {"patch"}, photo : Picture,
            text : 0..MaxActs, avatar : Picture],
    shown : Profiles, server : Profiles, lost : BOOLEAN, acts : 0..MaxActs]

Init == edit = [
    open |-> FALSE, text |-> 0, avatar |-> "none",
    picked |-> "none", blob |-> "none", crops |-> {},
    images |-> {}, undecoded |-> {}, img |-> "none", zoom |-> 1, x |-> 0,
    drag |-> [down |-> FALSE, ox |-> 0],
    save |-> [at |-> "idle", step |-> "patch", photo |-> "none",
              text |-> 0, avatar |-> "none"],
    shown |-> [text |-> 0, avatar |-> "none"],
    server |-> [text |-> 0, avatar |-> "none"], lost |-> FALSE, acts |-> 0]
-----------------------------------------------------------------------------
(* The cropper: the picture covers the viewport in either direction.        *)

Lesser(a, b) == IF a <= b THEN a ELSE b
Greater(a, b) == IF a <= b THEN b ELSE a

\* The width on screen at zoom 1, where the shorter side fills the viewport.
Cover(photo) ==
    Greater(Viewport, (Viewport * Shape[photo].w) \div Shape[photo].h)

DispW(photo, zoom) == Cover(photo) * zoom

Clamp(x, width) == Lesser(0, Greater(Viewport - width, x))

PickFile == \E photo \in Photos :
    /\ edit.open /\ edit.picked = "none" /\ edit.acts < MaxActs
    /\ edit' = [edit EXCEPT !.acts = @ + 1, !.picked = photo, !.images = @ \union {photo},
                  !.undecoded = @ \ {photo}]

\* Shown whenever it is decoded, although another file may be picked by now.
ImageLoaded == \E photo \in edit.images :
    edit' = [edit EXCEPT !.images = @ \ {photo}, !.img = photo, !.zoom = 1,
               !.x = (Viewport - Cover(photo)) \div 2]

\* Not a picture, or its URL was revoked first: nobody listens.
ImageFails == \E photo \in edit.images :
    edit' = [edit EXCEPT !.images = @ \ {photo}, !.undecoded = @ \union {photo}]

\* Mutant: the picture is scaled around the centre and left there.
ZoomUnclamped == \E zoom \in 1..MaxZoom :
    /\ edit.picked # "none"
    /\ edit' = IF edit.img = "none" THEN [edit EXCEPT !.zoom = zoom]
               ELSE [edit EXCEPT !.zoom = zoom,
                 !.x = Viewport \div 2 - ((Viewport \div 2 - @) * zoom) \div edit.zoom]

\* The centre of the viewport stays over the same point of the picture.
Zoom == \E zoom \in 1..MaxZoom :
    /\ edit.picked # "none"
    /\ edit' = IF edit.img = "none" THEN [edit EXCEPT !.zoom = zoom]
               ELSE [edit EXCEPT !.zoom = zoom,
                 !.x = Clamp(Viewport \div 2
                               - ((Viewport \div 2 - @) * zoom) \div edit.zoom,
                             DispW(edit.img, zoom))]

PointerDown ==
    /\ edit.picked # "none"
    /\ edit' = [edit EXCEPT !.drag = [down |-> TRUE, ox |-> edit.x]]

\* Without a picture the displayed width is 0 and the offset is 0 again.
PointerMove == \E d \in Moves :
    /\ edit.picked # "none" /\ edit.drag.down
    /\ edit' = [edit EXCEPT !.x =
                  Clamp(edit.drag.ox + d,
                        IF edit.img = "none" THEN 0 ELSE DispW(edit.img, edit.zoom))]

PointerUp ==
    /\ edit.picked # "none"
    /\ edit' = [edit EXCEPT !.drag.down = FALSE]

\* The blob is made asynchronously.
Confirm ==
    /\ edit.picked # "none" /\ edit.img # "none"
    /\ edit' = [edit EXCEPT !.crops = @ \union {edit.img}]

Cancel ==
    /\ edit.picked # "none"
    /\ edit' = [edit EXCEPT !.picked = "none"]

Cropped == \E photo \in edit.crops :
    edit' = [edit EXCEPT !.crops = @ \ {photo}, !.picked = "none", !.blob = photo]
-----------------------------------------------------------------------------
(* The form.                                                                *)

\* The form is filled from the profile the page shows.
Open ==
    /\ ~edit.open /\ edit.picked = "none"
    /\ edit' = [edit EXCEPT !.open = TRUE, !.text = edit.shown.text,
                  !.avatar = edit.shown.avatar, !.blob = "none"]

Close ==
    /\ edit.open /\ edit.picked = "none"
    /\ edit' = [edit EXCEPT !.open = FALSE]

Type ==
    /\ edit.open /\ edit.picked = "none" /\ edit.acts < MaxActs
    /\ edit' = [edit EXCEPT !.acts = @ + 1, !.text = edit.acts + 1]

\* The button is disabled while a save is on its way.
HandleSubmit ==
    /\ edit.open /\ edit.picked = "none" /\ edit.save.at = "idle"
    /\ edit.acts < MaxActs
    /\ edit' = [edit EXCEPT !.acts = @ + 1, !.save =
                  [at |-> "sent", photo |-> edit.blob,
                   step |-> IF edit.blob = "none" THEN "patch" ELSE "ticket",
                   text |-> edit.text, avatar |-> edit.avatar]]

\* uploadAvatar: a call that does not succeed ends the save.
UploadAvatar ==
    /\ edit.save.at = "sent" /\ edit.save.step \in UploadSteps
    /\ edit' = [edit EXCEPT !.save.step = AfterUpload(@, "patch"),
                  !.save.avatar = IF edit.save.step = "register" THEN edit.save.photo ELSE @]

UploadFails == \E end \in Faults :
    /\ edit.save.at = "sent" /\ edit.save.step \in UploadSteps
    /\ edit' = [edit EXCEPT !.save.at = "idle"]

\* user-svc takes the whole form, or refuses it: the name is taken.
ServePatch == \E end \in Ends : \E done \in Effects(end) :
    /\ edit.save.at = "sent" /\ edit.save.step = "patch"
    /\ edit' = [edit EXCEPT !.save.at = end, !.lost = @ \/ end = "lost",
                  !.server = IF done THEN [text |-> edit.save.text,
                                           avatar |-> edit.save.avatar] ELSE @]

\* Mutant: an answer that finds the dialog closed is dropped.
SavedIfOpen ==
    /\ edit.save.at \in Ends
    /\ edit' = IF edit.save.at = "ok" /\ edit.open
               THEN [edit EXCEPT !.save.at = "idle", !.shown = edit.server,
                       !.lost = FALSE, !.open = FALSE]
               ELSE [edit EXCEPT !.save.at = "idle"]

\* The answer is the whole profile; it closes the dialog, even one that has
\* been opened anew.
Saved ==
    /\ edit.save.at \in Ends
    /\ edit' = IF edit.save.at = "ok"
               THEN [edit EXCEPT !.save.at = "idle", !.shown = edit.server,
                       !.lost = FALSE, !.open = FALSE]
               ELSE [edit EXCEPT !.save.at = "idle"]
-----------------------------------------------------------------------------
Use == \/ PickFile \/ Zoom \/ PointerDown \/ PointerMove \/ PointerUp
       \/ Confirm \/ Cancel \/ Open \/ Close \/ Type \/ HandleSubmit

Progress == \/ ImageLoaded \/ ImageFails \/ Cropped
            \/ UploadAvatar \/ UploadFails \/ ServePatch \/ Saved

Next == Use \/ Progress

Spec == Init /\ [][Next]_edit

\* The button that applies the crop is enabled, unless the photo could not be
\* decoded: it stays disabled, and the dialog says nothing, until it is cancelled.
Quiet == /\ edit.save.at = "idle" /\ edit.images = {} /\ edit.crops = {}
         /\ edit.picked = "none" \/ edit.img # "none" \/ edit.picked \in edit.undecoded

\* The crop square never leaves the picture, whichever way it was zoomed and
\* dragged and whenever the picture was replaced: the avatar has no margin.
CropCovers ==
    edit.img # "none" =>
        edit.x <= 0 /\ edit.x + DispW(edit.img, edit.zoom) >= Viewport

\* When no save is on its way the page shows the profile user-svc holds,
\* although the dialog may have been closed and opened again meanwhile;
\* unless the answer to the last successful save was lost.
SavedProfileAgrees ==
    edit.save.at = "idle" /\ ~edit.lost => edit.shown = edit.server
=============================================================================
