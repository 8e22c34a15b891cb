------------------------------- MODULE Upload -------------------------------
(***************************************************************************)
(* The page that shares a new post (frontend/app/upload/page.tsx): one       *)
(* submission is four calls in a row, and the form can be used again when    *)
(* they have ended, also in the moment before the page is left.              *)
(***************************************************************************)
EXTENDS Fetch, Naturals, Sequences

CONSTANT MaxActs     \* bound: how often the form is submitted

VARIABLE upload

Submissions == 1..MaxActs
Kinds == {"none", "image", "video"}

\* posts holds what each submission has made: one entry for each POST that
\* post-svc has carried out.
TypeOK == upload \in [
    file : Kinds, busy : BOOLEAN, done : BOOLEAN, left : BOOLEAN,
    call : [at : Calls, step : UploadSteps \union {"post"}, file : Kinds],
    registered : SUBSET Submissions, failed : SUBSET Submissions,
    posts : [Submissions -> Seq({"post", "reel"})], acts : 0..MaxActs]

Init == upload = [
    file |-> "none", busy |-> FALSE, done |-> FALSE, left |-> FALSE,
    call |-> [at |-> "idle", step |-> "ticket", file |-> "none"],
    registered |-> {}, failed |-> {},
    posts |-> [n \in Submissions |-> <<>>], acts |-> 0]

SetFile == \E file \in Kinds \ {upload.file} :
    /\ ~upload.left
    /\ upload' = [upload EXCEPT !.file = file]

\* The button is disabled without a file and while a submission is on its way.
HandleSubmit ==
    /\ ~upload.left /\ upload.file # "none" /\ ~upload.busy
    /\ upload.acts < MaxActs
    /\ upload' = [upload EXCEPT !.acts = @ + 1, !.busy = TRUE, !.done = FALSE,
                    !.call = [at |-> "sent", step |-> "ticket", file |-> upload.file]]

Ended(s, ok) == [s EXCEPT !.busy = FALSE, !.call.at = "idle", !.done = ok,
                   !.failed = IF ok THEN @ ELSE @ \union {s.acts}]

\* The service handles a call; the answer of the last one ends the submission.
Serve == \E end \in Ends : \E effect \in Effects(end) :
    /\ upload.call.at = "sent"
    /\ LET step == upload.call.step
           made == IF upload.call.file = "video" THEN "reel" ELSE "post" IN
       upload' = [upload EXCEPT !.call.at = end,
         !.registered = IF step = "register" /\ effect THEN @ \union {upload.acts} ELSE @,
         !.posts[upload.acts] = IF step = "post" /\ effect THEN Append(@, made) ELSE @]

\* Mutant: a registration that is refused does not end the submission.
NextCallAnyway ==
    /\ upload.call.at \in Ends
    /\ upload' = IF upload.call.at # "ok" /\ upload.call.step # "register"
                 THEN Ended(upload, FALSE)
                 ELSE IF upload.call.step = "post" THEN Ended(upload, TRUE)
                 ELSE [upload EXCEPT !.call.at = "sent",
                         !.call.step = AfterUpload(@, "post")]

NextCall ==
    /\ upload.call.at \in Ends
    /\ upload' = IF upload.call.at # "ok" THEN Ended(upload, FALSE)
                 ELSE IF upload.call.step = "post" THEN Ended(upload, TRUE)
                 ELSE [upload EXCEPT !.call.at = "sent",
                         !.call.step = AfterUpload(@, "post")]

\* router.push comes through some time after the form is enabled again.
Leave ==
    /\ upload.done /\ ~upload.left
    /\ upload' = [upload EXCEPT !.left = TRUE]
-----------------------------------------------------------------------------
Progress == NextCall \/ Serve \/ Leave

Next == SetFile \/ HandleSubmit \/ Progress

Spec == Init /\ [][Next]_upload

Quiet == ~upload.busy /\ (upload.done => upload.left)

\* A submission makes at most one post, and only of media that media-svc has
\* registered; one that did not fail has made it.
UploadedOnce == \A n \in Submissions :
    /\ Len(upload.posts[n]) <= 1
    /\ upload.posts[n] # <<>> => n \in upload.registered
    /\ n \notin upload.failed /\ n <= upload.acts /\ (n < upload.acts \/ ~upload.busy) =>
         upload.posts[n] # <<>>
=============================================================================
