----------------------------- MODULE MCEmitter -----------------------------
(* Two workers race for one job; the buffer holds one event. *)
EXTENDS Emitter

OneJob == {1}
TwoWorkers == {"worker", "client"}
=============================================================================
