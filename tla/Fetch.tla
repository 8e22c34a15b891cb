------------------------------- MODULE Fetch -------------------------------
(***************************************************************************)
(* One call of apiFetch (frontend/lib/api.ts).  The service handles it at    *)
(* some moment, and how it ends reaches the page at a later one: "ok", an    *)
(* answer that is not ok, or a rejected promise, which leaves open whether   *)
(* the service has done what was asked.                                      *)
(***************************************************************************)
CONSTANT Faults     \* the ends other than "ok" that may happen

FaultKinds == {"refused", "lost"}

Ends == {"ok"} \union Faults

Calls == {"idle", "sent"} \union Ends

\* Whether the service did what was asked.
Effects(end) == CASE end = "ok"      -> {TRUE}
                  [] end = "refused" -> {FALSE}
                  [] end = "lost"    -> BOOLEAN

\* uploadMedia: three calls, the ticket, the bytes and the registration; what
\* a page does with the media comes after the last.
UploadSteps == {"ticket", "put", "register"}

AfterUpload(step, then) == CASE step = "ticket"   -> "put"
                             [] step = "put"      -> "register"
                             [] step = "register" -> then
=============================================================================
