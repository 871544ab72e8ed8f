------------------------------ MODULE TunSwitch ------------------------------
(***************************************************************************)
(* What the client sees of startTUN and stopTun (core/lib_android.go): a   *)
(* goroutine for each call, and the run time that the last of them has     *)
(* left.  VpnState is built on it; TunHandler, with its locks, handlers    *)
(* and dials, implements it.                                               *)
(***************************************************************************)
CONSTANT Services  \* what the core may be started for

VARIABLES
  goOps,  \* kinds of goroutines under way, any number of each: startTUN for a
          \* kind of service, stopTun
  tun     \* what the core was started for, "none" if there is no run time

vars == <<goOps, tun>>

Init == goOps = {} /\ tun = "none"

\* go func() { handleStartTun(...) }() or go func() { handleStopTun() }()
Go(op) ==
  /\ goOps' = goOps \cup {op}
  /\ UNCHANGED tun

\* handleStartTun begins with handleStopTun, and gives tunLock back before it goes
\* on: in between there is no run time.
StartStops(s) ==
  /\ s \in goOps \cap Services
  /\ tun' = "none"
  /\ UNCHANGED goOps

\* A goroutine of handleStartTun or handleStopTun has run, perhaps the last of its
\* kind.
Run(op) ==
  /\ op \in goOps
  /\ goOps' \in {goOps, goOps \ {op}}
  /\ tun' = IF op = "stop" THEN "none" ELSE op

Next ==
  \/ \E op \in Services \cup {"stop"} : Go(op) \/ Run(op)
  \/ \E s \in Services : StartStops(s)

Spec == Init /\ [][Next]_vars
=============================================================================
