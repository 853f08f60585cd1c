------------------------------ MODULE ForkJoin ------------------------------
(***************************************************************************)
(* What an execution mode promises to TaskDecomposition, independently of  *)
(* how it schedules its workers: goroutines are forked only while the mode *)
(* runs, the mode is left only when every one of them has ended, and the   *)
(* result channel is closed only after that.  Every mode that keeps the    *)
(* promise can close its channel safely.                                   *)
(***************************************************************************)
CONSTANT Goroutine

VARIABLES
  live,   \* the goroutines forked and not ended
  phase   \* "forking" inside the mode, "joined" after it, "closed"

vars == <<live, phase>>

Init == live = {} /\ phase = "forking"

Fork(g) ==
  /\ phase = "forking"
  /\ g \notin live
  /\ live' = live \cup {g}
  /\ UNCHANGED phase

End(g) ==
  /\ g \in live
  /\ live' = live \ {g}
  /\ UNCHANGED phase

Join ==
  /\ phase = "forking"
  /\ live = {}
  /\ phase' = "joined"
  /\ UNCHANGED live

Close ==
  /\ phase = "joined"
  /\ phase' = "closed"
  /\ UNCHANGED live

Next == (\E g \in Goroutine : Fork(g) \/ End(g)) \/ Join \/ Close

Spec == Init /\ [][Next]_vars
=============================================================================
