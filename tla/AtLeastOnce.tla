---------------------------- MODULE AtLeastOnce ----------------------------
(***************************************************************************)
(* What libs/tinyinsta/bus promises a service, whatever it does inside: a   *)
(* published event is settled (handled, or parked where an operator can     *)
(* replay it, or reported as impossible to park) at least once, and the     *)
(* group's committed offset never moves past an event that is not settled.  *)
(***************************************************************************)
EXTENDS Naturals, Sequences

CONSTANT Events    \* the event ids

VARIABLES
    log,        \* the partition: the events in the order they were published
    settled,    \* the events that were handled or parked
    frontier    \* how many messages of the log are committed

vars == <<log, settled, frontier>>

Published == {log[i] : i \in 1..Len(log)}

Init ==
    /\ log = << >>
    /\ settled = {}
    /\ frontier = 0

Publish ==
    /\ \E e \in Events : log' = Append(log, e)
    /\ UNCHANGED <<settled, frontier>>

Settle(S) ==
    /\ S # {} /\ S \subseteq Published \ settled
    /\ settled' = settled \union S
    /\ UNCHANGED <<log, frontier>>

Advance ==
    /\ frontier' \in (frontier + 1)..Len(log)
    /\ \A i \in 1..frontier' : log[i] \in settled
    /\ UNCHANGED <<log, settled>>

Next ==
    \/ Publish
    \/ \E S \in SUBSET Events : Settle(S)
    \/ Advance

Spec == Init /\ [][Next]_vars
=============================================================================
