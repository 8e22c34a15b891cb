------------------------- MODULE EditProfileProofs -------------------------
(***************************************************************************)
(* Proofs about EditProfile, for every size of the crop square, every zoom,  *)
(* every set of photos of any shape and any pointer move: the crop square    *)
(* never leaves the picture, and the page shows the profile that is saved.   *)
(***************************************************************************)
EXTENDS EditProfile, TLAPS

-----------------------------------------------------------------------------
(* The arithmetic of the cropper.                                           *)

\* The product of two natural numbers is one, and dividing it leaves one.
LEMMA ScaledTyped ==
  ASSUME NEW a \in Int, NEW b \in Int, NEW c \in Nat \ {0}
  PROVE  (a * b) \div c \in Int
<1>1. a * b \in Int
  OBVIOUS
<1>2. \A n \in Int : n \div c \in Int
  OBVIOUS
<1> QED
  BY <1>1, <1>2

\* At zoom 1 the shorter side of a picture fills the viewport.
LEMMA CoverSize ==
  ASSUME CropAssumption, NEW photo \in Photos
  PROVE  Cover(photo) \in Int /\ Cover(photo) >= Viewport
<1> DEFINE width == (Viewport * Shape[photo].w) \div Shape[photo].h
<1>1. /\ Viewport \in Int /\ Shape[photo].w \in Int /\ Shape[photo].h \in Nat \ {0}
  BY DEF CropAssumption, Photos
<1>2. width \in Int
  BY <1>1, ScaledTyped
<1> HIDE DEF width
<1>3. Greater(Viewport, width) \in Int /\ Greater(Viewport, width) >= Viewport
  BY <1>1, <1>2 DEF Greater
<1> QED
  BY <1>3 DEF Cover, width

\* Zooming in keeps it filled.
LEMMA DispWSize ==
  ASSUME CropAssumption, NEW photo \in Photos, NEW zoom \in 1..MaxZoom
  PROVE  DispW(photo, zoom) \in Int /\ DispW(photo, zoom) >= Viewport
<1>1. \A c \in Nat, z \in Nat \ {0} : c * z \in Int /\ c * z >= c
  OBVIOUS
<1>2. zoom \in Nat \ {0} /\ Viewport \in Nat
  BY DEF CropAssumption
<1>3. Cover(photo) \in Nat /\ Cover(photo) >= Viewport
  BY <1>2, CoverSize
<1>4. Cover(photo) * zoom \in Int /\ Cover(photo) * zoom >= Cover(photo)
  BY <1>1, <1>2, <1>3
<1> QED
  BY <1>2, <1>3, <1>4 DEF DispW

LEMMA ClampTyped ==
  ASSUME CropAssumption, NEW x \in Int, NEW width \in Int
  PROVE  Clamp(x, width) \in Int
  BY DEF CropAssumption, Clamp, Lesser, Greater

\* A picture as wide as the viewport covers it once its offset is clamped.
LEMMA ClampCovers ==
  ASSUME CropAssumption, NEW x \in Int, NEW width \in Int, width >= Viewport
  PROVE  Clamp(x, width) <= 0 /\ Clamp(x, width) + width >= Viewport
  BY DEF CropAssumption, Clamp, Lesser, Greater

\* A picture that is centred covers the viewport.
LEMMA CentreCovers ==
  ASSUME NEW v \in Nat, NEW width \in Int, width >= v
  PROVE  /\ (v - width) \div 2 \in Int
         /\ (v - width) \div 2 <= 0 /\ (v - width) \div 2 + width >= v
  OBVIOUS
-----------------------------------------------------------------------------
Save == [at : Calls, step : UploadSteps \union {"patch"}, photo : Picture,
         text : 0..MaxActs, avatar : Picture]
Drag == [down : BOOLEAN, ox : Int]

LEMMA InitTyped == EditAssumption /\ Init => TypeOK
<1> SUFFICES ASSUME EditAssumption, Init PROVE TypeOK
  OBVIOUS
<1>1. 0 \in 0..MaxActs /\ 1 \in 1..MaxZoom
  BY DEF EditAssumption, CropAssumption
<1> QED
  BY <1>1 DEF Init, TypeOK, Picture, Profiles, Calls, UploadSteps

LEMMA ActTyped ==
  ASSUME EditAssumption, TypeOK, edit.acts < MaxActs
  PROVE  edit.acts + 1 \in 0..MaxActs
  BY DEF EditAssumption, TypeOK

\* Zooming about the centre gives whole pixels.
LEMMA ZoomTyped ==
  ASSUME EditAssumption, TypeOK, edit.img # "none", NEW zoom \in 1..MaxZoom
  PROVE  /\ Viewport \div 2 - ((Viewport \div 2 - edit.x) * zoom) \div edit.zoom \in Int
         /\ Clamp(Viewport \div 2 - ((Viewport \div 2 - edit.x) * zoom) \div edit.zoom,
                  DispW(edit.img, zoom)) \in Int
<1> DEFINE shift == ((Viewport \div 2 - edit.x) * zoom) \div edit.zoom
<1>1. Viewport \div 2 \in Int /\ Viewport \div 2 - edit.x \in Int
  BY DEF EditAssumption, CropAssumption, TypeOK
<1>2. edit.zoom \in Nat \ {0} /\ zoom \in Int
  BY DEF EditAssumption, CropAssumption, TypeOK
<1>3. shift \in Int
  BY <1>1, <1>2, ScaledTyped
<1> HIDE DEF shift
<1>4. Viewport \div 2 - shift \in Int
  BY <1>1, <1>3
<1>5. DispW(edit.img, zoom) \in Int
  BY DispWSize DEF TypeOK, Picture, EditAssumption
<1> QED
  BY <1>4, <1>5, ClampTyped DEF EditAssumption, shift

\* Where the cropper puts the picture.
LEMMA CropTyped ==
  ASSUME EditAssumption, TypeOK, PickFile \/ ImageLoaded \/ ImageFails \/ Zoom
         \/ PointerDown \/ PointerMove \/ PointerUp \/ Confirm \/ Cancel \/ Cropped
  PROVE  TypeOK'
<1>1. CASE PickFile
  <2>1. PICK photo \in Photos :
          /\ edit.acts < MaxActs
          /\ edit' = [edit EXCEPT !.acts = @ + 1, !.picked = photo, !.images = @ \union {photo},
                        !.undecoded = @ \ {photo}]
    BY <1>1 DEF PickFile
  <2>2. edit.acts + 1 \in 0..MaxActs
    BY <2>1, ActTyped
  <2> QED
    BY <2>1, <2>2 DEF TypeOK, Picture
<1>2. CASE ImageLoaded
  <2>1. PICK photo \in edit.images :
          edit' = [edit EXCEPT !.images = @ \ {photo}, !.img = photo, !.zoom = 1,
                     !.x = (Viewport - Cover(photo)) \div 2]
    BY <1>2 DEF ImageLoaded
  <2> DEFINE x == (Viewport - Cover(photo)) \div 2
  <2>2. photo \in Photos
    BY DEF TypeOK
  <2>3. x \in Int
    BY <2>2, CoverSize, CentreCovers DEF EditAssumption, CropAssumption
  <2>4. 1 \in 1..MaxZoom
    BY DEF EditAssumption, CropAssumption
  <2>5. edit' = [edit EXCEPT !.images = @ \ {photo}, !.img = photo, !.zoom = 1, !.x = x]
    BY <2>1
  <2> HIDE DEF x
  <2> QED
    BY <2>2, <2>3, <2>4, <2>5 DEF TypeOK, Picture
<1>3. CASE ImageFails
  <2>1. PICK photo \in edit.images :
          edit' = [edit EXCEPT !.images = @ \ {photo}, !.undecoded = @ \union {photo}]
    BY <1>3 DEF ImageFails
  <2>2. photo \in Photos
    BY DEF TypeOK
  <2> QED
    BY <2>1, <2>2 DEF TypeOK
<1>4. CASE Zoom
  <2>1. PICK zoom \in 1..MaxZoom :
          edit' = IF edit.img = "none" THEN [edit EXCEPT !.zoom = zoom]
               ELSE [edit EXCEPT !.zoom = zoom,
                 !.x = Clamp(Viewport \div 2
                               - ((Viewport \div 2 - @) * zoom) \div edit.zoom,
                             DispW(edit.img, zoom))]
    BY <1>4 DEF Zoom
  <2> DEFINE x == Clamp(Viewport \div 2 - ((Viewport \div 2 - edit.x) * zoom) \div edit.zoom,
                        DispW(edit.img, zoom))
  <2>2. edit.img # "none" => x \in Int
    BY ZoomTyped
  <2>3. edit' = IF edit.img = "none" THEN [edit EXCEPT !.zoom = zoom]
               ELSE [edit EXCEPT !.zoom = zoom, !.x = x]
    BY <2>1 DEF TypeOK
  <2> HIDE DEF x
  <2> QED
    BY <2>2, <2>3 DEF TypeOK
<1>5. CASE PointerDown
  <2> DEFINE drag == [down |-> TRUE, ox |-> edit.x]
  <2>1. drag \in Drag /\ edit' = [edit EXCEPT !.drag = drag]
    BY <1>5 DEF PointerDown, TypeOK, Drag
  <2> HIDE DEF drag
  <2> QED
    BY <2>1 DEF TypeOK, Drag
<1>6. CASE PointerMove
  <2>1. PICK d \in Moves :
          edit' = [edit EXCEPT !.x =
                  Clamp(edit.drag.ox + d,
                        IF edit.img = "none" THEN 0 ELSE DispW(edit.img, edit.zoom))]
    BY <1>6 DEF PointerMove
  <2> DEFINE width == IF edit.img = "none" THEN 0 ELSE DispW(edit.img, edit.zoom)
             x == Clamp(edit.drag.ox + d, width)
  <2>2. width \in Int
    BY DispWSize DEF TypeOK, Picture, EditAssumption
  <2>3. edit.drag.ox + d \in Int
    BY DEF TypeOK, EditAssumption, CropAssumption
  <2>4. x \in Int
    <3> HIDE DEF width
    <3> QED
      BY <2>2, <2>3, ClampTyped DEF EditAssumption
  <2>5. edit' = [edit EXCEPT !.x = x]
    BY <2>1
  <2> HIDE DEF x
  <2> QED
    BY <2>4, <2>5 DEF TypeOK
<1>7. CASE PointerUp
  <2> DEFINE drag == [edit.drag EXCEPT !.down = FALSE]
  <2>1. drag \in Drag /\ edit' = [edit EXCEPT !.drag = drag]
    BY <1>7 DEF PointerUp, TypeOK, Drag
  <2> HIDE DEF drag
  <2> QED
    BY <2>1 DEF TypeOK, Drag
<1>8. CASE Confirm
  <2>1. edit.crops \union {edit.img} \in SUBSET Photos
    BY <1>8 DEF Confirm, TypeOK, Picture
  <2> QED
    BY <1>8, <2>1 DEF Confirm, TypeOK
<1>9. CASE Cancel
  BY <1>9 DEF Cancel, TypeOK, Picture
<1>10. CASE Cropped
  <2>1. PICK photo \in edit.crops :
          edit' = [edit EXCEPT !.crops = @ \ {photo}, !.picked = "none", !.blob = photo]
    BY <1>10 DEF Cropped
  <2>2. photo \in Photos
    BY DEF TypeOK
  <2> QED
    BY <2>1, <2>2 DEF TypeOK, Picture
<1> QED
  BY <1>1, <1>2, <1>3, <1>4, <1>5, <1>6, <1>7, <1>8, <1>9, <1>10

\* What the form takes and sends.
LEMMA FormTyped ==
  ASSUME EditAssumption, TypeOK, Open \/ Close \/ Type \/ HandleSubmit
         \/ UploadAvatar \/ UploadFails \/ ServePatch \/ Saved
  PROVE  TypeOK'
<1>0. edit.save \in Save
  BY DEF TypeOK, Save
<1>1. CASE Open
  BY <1>1 DEF Open, TypeOK, Profiles, Picture
<1>2. CASE Close
  BY <1>2 DEF Close, TypeOK
<1>3. CASE Type
  <2>1. edit.acts + 1 \in 0..MaxActs
    BY <1>3, ActTyped DEF Type
  <2> QED
    BY <1>3, <2>1 DEF Type, TypeOK
<1>4. CASE HandleSubmit
  <2> DEFINE save == [at |-> "sent", photo |-> edit.blob,
                      step |-> IF edit.blob = "none" THEN "patch" ELSE "ticket",
                      text |-> edit.text, avatar |-> edit.avatar]
  <2>1. edit.acts + 1 \in 0..MaxActs
    BY <1>4, ActTyped DEF HandleSubmit
  <2>2. save \in Save
    BY DEF Save, TypeOK, Calls, UploadSteps
  <2>3. edit' = [edit EXCEPT !.acts = @ + 1, !.save = save]
    BY <1>4 DEF HandleSubmit
  <2> HIDE DEF save
  <2> QED
    BY <2>1, <2>2, <2>3 DEF TypeOK, Save
<1>5. CASE UploadAvatar
  <2> DEFINE save == [edit.save EXCEPT !.step = AfterUpload(@, "patch"),
                        !.avatar = IF edit.save.step = "register" THEN edit.save.photo ELSE @]
  <2>1. AfterUpload(edit.save.step, "patch") \in UploadSteps \union {"patch"}
    BY <1>5 DEF UploadAvatar, UploadSteps, AfterUpload
  <2>2. save \in Save
    BY <1>0, <2>1 DEF Save
  <2>3. edit' = [edit EXCEPT !.save = save]
    BY <1>5 DEF UploadAvatar, TypeOK
  <2> HIDE DEF save
  <2> QED
    BY <2>2, <2>3 DEF TypeOK, Save
<1>6. CASE UploadFails
  <2> DEFINE save == [edit.save EXCEPT !.at = "idle"]
  <2>1. save \in Save
    BY <1>0 DEF Save, Calls
  <2>2. edit' = [edit EXCEPT !.save = save]
    BY <1>6 DEF UploadFails
  <2> HIDE DEF save
  <2> QED
    BY <2>1, <2>2 DEF TypeOK, Save
<1>7. CASE ServePatch
  <2>1. PICK end \in Ends : \E done \in Effects(end) :
          edit' = [edit EXCEPT !.save.at = end, !.lost = @ \/ end = "lost",
                  !.server = IF done THEN [text |-> edit.save.text,
                                           avatar |-> edit.save.avatar] ELSE @]
    BY <1>7 DEF ServePatch
  <2>2. PICK done \in Effects(end) :
          edit' = [edit EXCEPT !.save.at = end, !.lost = @ \/ end = "lost",
                  !.server = IF done THEN [text |-> edit.save.text,
                                           avatar |-> edit.save.avatar] ELSE @]
    BY <2>1
  <2> DEFINE save == [edit.save EXCEPT !.at = end]
             server == IF done THEN [text |-> edit.save.text, avatar |-> edit.save.avatar]
                       ELSE edit.server
             lost == edit.lost \/ end = "lost"
  <2>3. save \in Save
    BY <1>0 DEF Save, Calls
  <2>4. server \in Profiles
    BY <1>0 DEF Save, Profiles, TypeOK
  <2>5. lost \in BOOLEAN
    OBVIOUS
  <2>6. edit' = [edit EXCEPT !.save = save, !.lost = lost, !.server = server]
    BY <2>2 DEF TypeOK
  <2> HIDE DEF save, server, lost
  <2> QED
    BY <2>3, <2>4, <2>5, <2>6 DEF TypeOK, Save
<1>8. CASE Saved
  <2> DEFINE save == [edit.save EXCEPT !.at = "idle"]
  <2>1. save \in Save
    BY <1>0 DEF Save, Calls
  <2>2. edit' = IF edit.save.at = "ok"
                THEN [edit EXCEPT !.save = save, !.shown = edit.server,
                        !.lost = FALSE, !.open = FALSE]
                ELSE [edit EXCEPT !.save = save]
    BY <1>8 DEF Saved
  <2> HIDE DEF save
  <2> QED
    BY <2>1, <2>2 DEF TypeOK, Save
<1> QED
  BY <1>1, <1>2, <1>3, <1>4, <1>5, <1>6, <1>7, <1>8

LEMMA NextTyped == EditAssumption /\ TypeOK /\ [Next]_edit => TypeOK'
<1> SUFFICES ASSUME EditAssumption, TypeOK, [Next]_edit PROVE TypeOK'
  OBVIOUS
<1>1. CASE UNCHANGED edit
  BY <1>1 DEF TypeOK
<1> QED
  BY <1>1, CropTyped, FormTyped DEF Next, Use, Progress

\* The state of the dialog and of the cropper keeps its type
\* (edit-profile-dialog.tsx, avatar-cropper.tsx).
THEOREM TypeCorrect == EditAssumption => (Spec => []TypeOK)
<1> SUFFICES ASSUME EditAssumption PROVE Spec => []TypeOK
  OBVIOUS
<1> QED
  BY InitTyped, NextTyped, PTL DEF Spec
-----------------------------------------------------------------------------
LEMMA NextCovers ==
  ASSUME EditAssumption, TypeOK, CropCovers, [Next]_edit
  PROVE  CropCovers'
<1>0. CropAssumption
  BY DEF EditAssumption
<1> SUFFICES ASSUME edit'.img # "none"
             PROVE  edit'.x <= 0 /\ edit'.x + DispW(edit'.img, edit'.zoom) >= Viewport
  BY DEF CropCovers, DispW, Cover
<1>1. CASE ImageLoaded
  <2>1. PICK photo \in edit.images :
          /\ edit'.img = photo /\ edit'.zoom = 1
          /\ edit'.x = (Viewport - Cover(photo)) \div 2
    BY <1>1 DEF ImageLoaded, TypeOK
  <2>2. Cover(photo) \in Int /\ Cover(photo) >= Viewport
    BY <1>0, CoverSize DEF TypeOK
  <2>3. DispW(photo, 1) = Cover(photo)
    BY <2>2 DEF DispW
  <2> QED
    BY <1>0, <2>1, <2>2, <2>3, CentreCovers DEF CropAssumption
<1>2. CASE Zoom
  <2>1. PICK zoom \in 1..MaxZoom :
          edit' = IF edit.img = "none" THEN [edit EXCEPT !.zoom = zoom]
               ELSE [edit EXCEPT !.zoom = zoom,
                 !.x = Clamp(Viewport \div 2
                               - ((Viewport \div 2 - @) * zoom) \div edit.zoom,
                             DispW(edit.img, zoom))]
    BY <1>2 DEF Zoom
  <2> DEFINE shift == Viewport \div 2 - ((Viewport \div 2 - edit.x) * zoom) \div edit.zoom
  <2>2. edit.img # "none"
    BY <2>1 DEF TypeOK
  <2>3. /\ edit'.img = edit.img /\ edit'.zoom = zoom
        /\ edit'.x = Clamp(shift, DispW(edit.img, zoom))
    BY <2>1, <2>2 DEF TypeOK
  <2>4. shift \in Int
    BY <2>2, ZoomTyped
  <2>5. DispW(edit.img, zoom) \in Int /\ DispW(edit.img, zoom) >= Viewport
    BY <1>0, <2>2, DispWSize DEF TypeOK, Picture
  <2> HIDE DEF shift
  <2> QED
    BY <1>0, <2>3, <2>4, <2>5, ClampCovers
<1>3. CASE PointerMove
  <2>1. PICK d \in Moves :
          edit' = [edit EXCEPT !.x =
                  Clamp(edit.drag.ox + d,
                        IF edit.img = "none" THEN 0 ELSE DispW(edit.img, edit.zoom))]
    BY <1>3 DEF PointerMove
  <2>2. /\ edit'.img = edit.img /\ edit'.zoom = edit.zoom
        /\ edit'.x = Clamp(edit.drag.ox + d, DispW(edit.img, edit.zoom))
    BY <2>1 DEF TypeOK
  <2>3. edit.drag.ox + d \in Int
    BY <1>0 DEF TypeOK, CropAssumption
  <2>4. DispW(edit.img, edit.zoom) \in Int /\ DispW(edit.img, edit.zoom) >= Viewport
    BY <1>0, <2>2, DispWSize DEF TypeOK, Picture
  <2> QED
    BY <1>0, <2>2, <2>3, <2>4, ClampCovers
<1>4. ASSUME edit'.img = edit.img, edit'.zoom = edit.zoom, edit'.x = edit.x
      PROVE  edit'.x <= 0 /\ edit'.x + DispW(edit'.img, edit'.zoom) >= Viewport
  BY <1>4 DEF CropCovers
<1>5. CASE PickFile \/ ImageFails \/ PointerDown \/ PointerUp \/ Confirm \/ Cancel \/ Cropped
  BY <1>4, <1>5
  DEF PickFile, ImageFails, PointerDown, PointerUp, Confirm, Cancel, Cropped, TypeOK
<1>6. CASE Open \/ Close \/ Type \/ HandleSubmit
  BY <1>4, <1>6 DEF Open, Close, Type, HandleSubmit, TypeOK
<1>7. CASE UploadAvatar \/ UploadFails \/ ServePatch \/ Saved
  BY <1>4, <1>7 DEF UploadAvatar, UploadFails, ServePatch, Saved, TypeOK
<1>8. CASE UNCHANGED edit
  BY <1>4, <1>8
<1> QED
  BY <1>1, <1>2, <1>3, <1>5, <1>6, <1>7, <1>8 DEF Next, Use, Progress

\* The crop square stays on the picture for every picture and every gesture
\* (avatar-cropper.tsx:50-115).
THEOREM CropStaysCovered == EditAssumption => (Spec => []CropCovers)
<1> SUFFICES ASSUME EditAssumption PROVE Spec => []CropCovers
  OBVIOUS
<1>1. Init => TypeOK /\ CropCovers
  BY InitTyped DEF Init, CropCovers
<1>2. TypeOK /\ CropCovers /\ [Next]_edit => TypeOK' /\ CropCovers'
  BY NextTyped, NextCovers
<1> QED
  BY <1>1, <1>2, PTL DEF Spec
-----------------------------------------------------------------------------
\* Until user-svc takes a form, and whenever it refuses one, the page shows
\* what user-svc holds; that an answer was lost is remembered.
ShownUntilServed ==
    /\ edit.save.at \in {"idle", "sent", "refused"} /\ ~edit.lost => edit.shown = edit.server
    /\ edit.save.at = "lost" => edit.lost

LEMMA NextShown ==
  ASSUME EditAssumption, TypeOK, ShownUntilServed, [Next]_edit
  PROVE  ShownUntilServed'
<1>1. CASE ServePatch
  <2>1. PICK end \in Ends : \E done \in Effects(end) :
          /\ edit.save.at = "sent"
          /\ edit' = [edit EXCEPT !.save.at = end, !.lost = @ \/ end = "lost",
                  !.server = IF done THEN [text |-> edit.save.text,
                                           avatar |-> edit.save.avatar] ELSE @]
    BY <1>1 DEF ServePatch
  <2>2. edit'.save.at = end /\ edit'.lost = (edit.lost \/ end = "lost")
    BY <2>1 DEF TypeOK
  <2>3. CASE end = "refused"
    <3>1. Effects(end) = {FALSE}
      BY <2>3 DEF Effects
    <3>2. edit'.server = edit.server /\ edit'.shown = edit.shown
      BY <2>1, <3>1 DEF TypeOK
    <3> QED
      BY <2>1, <2>2, <2>3, <3>2 DEF ShownUntilServed
  <2>4. CASE end # "refused"
    <3>1. end \in {"ok", "lost"}
      BY <2>4 DEF EditAssumption, Ends, FaultKinds
    <3> QED
      BY <2>2, <3>1 DEF ShownUntilServed
  <2> QED
    BY <2>3, <2>4
<1>2. CASE Saved
  <2>1. edit.save.at \in {"ok", "refused", "lost"}
    BY <1>2 DEF Saved, EditAssumption, Ends, FaultKinds
  <2>2. edit'.save.at = "idle" /\ edit'.server = edit.server
    BY <1>2 DEF Saved, TypeOK
  <2>3. CASE edit.save.at = "ok"
    BY <1>2, <2>2, <2>3 DEF Saved, TypeOK, ShownUntilServed
  <2>4. CASE edit.save.at # "ok"
    <3>1. edit'.shown = edit.shown /\ edit'.lost = edit.lost
      BY <1>2, <2>4 DEF Saved, TypeOK
    <3> QED
      BY <2>1, <2>2, <2>4, <3>1 DEF ShownUntilServed
  <2> QED
    BY <2>3, <2>4
<1>3. ASSUME edit'.shown = edit.shown, edit'.server = edit.server, edit'.lost = edit.lost,
             \/ edit'.save.at = edit.save.at
             \/ edit'.save.at \in {"idle", "sent"} /\ edit.save.at \in {"idle", "sent"}
      PROVE  ShownUntilServed'
  BY <1>3 DEF ShownUntilServed
<1>4. CASE PickFile \/ ImageLoaded \/ ImageFails \/ Zoom
  BY <1>3, <1>4 DEF PickFile, ImageLoaded, ImageFails, Zoom, TypeOK
<1>5. CASE PointerDown \/ PointerMove \/ PointerUp \/ Confirm \/ Cancel \/ Cropped
  BY <1>3, <1>5 DEF PointerDown, PointerMove, PointerUp, Confirm, Cancel, Cropped, TypeOK
<1>6. CASE Open \/ Close \/ Type
  BY <1>3, <1>6 DEF Open, Close, Type, TypeOK
<1>7. CASE HandleSubmit \/ UploadAvatar \/ UploadFails
  <2>0. edit.save \in Save
    BY DEF TypeOK, Save
  <2>1. CASE HandleSubmit
    BY <1>3, <2>1 DEF HandleSubmit, TypeOK
  <2>2. CASE UploadAvatar
    <3>1. edit'.save.at = edit.save.at
      BY <2>0, <2>2 DEF UploadAvatar, TypeOK, Save
    <3> QED
      BY <1>3, <2>2, <3>1 DEF UploadAvatar, TypeOK
  <2>3. CASE UploadFails
    <3>1. edit'.save.at = "idle" /\ edit.save.at = "sent"
      BY <2>0, <2>3 DEF UploadFails, TypeOK, Save
    <3> QED
      BY <1>3, <2>3, <3>1 DEF UploadFails, TypeOK
  <2> QED
    BY <1>7, <2>1, <2>2, <2>3
<1>8. CASE UNCHANGED edit
  BY <1>3, <1>8
<1> QED
  BY <1>1, <1>2, <1>4, <1>5, <1>6, <1>7, <1>8 DEF Next, Use, Progress

\* A page with no save on its way shows the profile user-svc holds, whatever
\* was done to the dialog meanwhile (edit-profile-dialog.tsx:121-156).
THEOREM SavedIsShown == EditAssumption => (Spec => []SavedProfileAgrees)
<1> SUFFICES ASSUME EditAssumption PROVE Spec => []SavedProfileAgrees
  OBVIOUS
<1>1. Init => TypeOK /\ ShownUntilServed
  BY InitTyped DEF Init, ShownUntilServed
<1>2. TypeOK /\ ShownUntilServed /\ [Next]_edit => TypeOK' /\ ShownUntilServed'
  BY NextTyped, NextShown
<1>3. ShownUntilServed => SavedProfileAgrees
  BY DEF ShownUntilServed, SavedProfileAgrees
<1> QED
  BY <1>1, <1>2, <1>3, PTL DEF Spec
-----------------------------------------------------------------------------
(* The invariant in one piece, for a specification this dialog is a part of. *)

EditInv == TypeOK /\ CropCovers /\ ShownUntilServed

LEMMA EditInitInv == EditAssumption /\ Init => EditInv
  BY InitTyped DEF EditInv, Init, CropCovers, ShownUntilServed

LEMMA EditNextInv == EditAssumption /\ EditInv /\ [Next]_edit => EditInv'
  BY NextTyped, NextCovers, NextShown DEF EditInv

LEMMA EditInvAgrees == EditInv => SavedProfileAgrees
  BY DEF EditInv, ShownUntilServed, SavedProfileAgrees
=============================================================================
