--------------------------- MODULE MCBusConsumer ---------------------------
(* Instances of BusConsumer for TLC. *)
EXTENDS BusConsumer

CONSTANTS w1, w2, e1, e2, torn

TwoWorkers == {w1, w2}
OneWorker == {w1}
TwoEvents == {e1, e2}
OneTorn == {torn}
TwoAndTorn == {e1, e2, torn}
OneAndTorn == {e1, torn}
Nothing == {}

AllFaults == FaultKinds
DlqDown == {"dlqDown"}
DlqTimeout == {"dlqTimeout"}
=============================================================================
