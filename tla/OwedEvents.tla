----------------------------- MODULE OwedEvents -----------------------------
(***************************************************************************)
(* What post-svc's transactional outbox promises: a domain write and the    *)
(* events it owes become visible together, so an event reaches the bus only *)
(* for a write that happened, and stays there.                              *)
(***************************************************************************)
CONSTANTS
    Writes,     \* requests that write a domain document
    Entries,    \* the events they owe
    WriteOf     \* the write each event belongs to

VARIABLES
    visible,    \* the writes a reader of the database sees
    sent        \* the events the bus has stored

vars == <<visible, sent>>

Init == visible = {} /\ sent = {}

Write(w) ==
    /\ w \notin visible
    /\ visible' = visible \union {w}
    /\ UNCHANGED sent

Owed == {e \in Entries : WriteOf[e] \in visible /\ e \notin sent}

Emit(S) ==
    /\ S # {} /\ S \subseteq Owed
    /\ sent' = sent \union S
    /\ UNCHANGED visible

Next ==
    \/ \E w \in Writes : Write(w)
    \/ \E S \in SUBSET Entries : Emit(S)

Spec == Init /\ [][Next]_vars
=============================================================================
