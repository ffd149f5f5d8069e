------------------------------ MODULE OPFToggle ------------------------------
(***************************************************************************)
(* What the OPF toggle promises its callers, without workers, locks or     *)
(* waiting: the state machine of opf_manager.py's module docstring, and    *)
(* the rule that a lease on the model starts only while the toggle is ON.  *)
(*                                                                         *)
(* Two points are the code's and not the docstring's.  A disable() that    *)
(* comes while OPF is LOADING changes nothing.  A lease outlives OFF: it   *)
(* ends when its job does, not when the toggle is flipped.                 *)
(***************************************************************************)
CONSTANT Threads

VARIABLES
  mode,    \* "off", "loading" or "on": what GET /api/opf/status shows
  leases   \* the threads that hold a lease on an OPF worker

vars == <<mode, leases>>

Init == mode = "off" /\ leases = {}

StartLoading == mode = "off" /\ mode' = "loading" /\ UNCHANGED leases
LoadEnds == mode = "loading" /\ mode' \in {"on", "off"} /\ UNCHANGED leases
TurnOff == mode = "on" /\ mode' = "off" /\ UNCHANGED leases

Lease(t) ==
  /\ mode = "on"
  /\ t \notin leases
  /\ leases' = leases \cup {t}
  /\ UNCHANGED mode

EndLease(t) ==
  /\ t \in leases
  /\ leases' = leases \ {t}
  /\ UNCHANGED mode

Next ==
  \/ StartLoading \/ LoadEnds \/ TurnOff
  \/ \E t \in Threads : Lease(t) \/ EndLease(t)

Spec == Init /\ [][Next]_vars

=============================================================================
