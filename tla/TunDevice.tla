------------------------------ MODULE TunDevice ------------------------------
(***************************************************************************)
(* What the TUN bridge promises the kernel and Java, without its locks     *)
(* (core/lib_android.go: TunHandler): each start brings a callback of its  *)
(* own, which is freed once and for all when its device is closed.  A dial *)
(* calls back only for a device that is up, and no device is closed around *)
(* a dial.  Only the device that was installed last is closed.             *)
(***************************************************************************)
CONSTANTS
  Ops,      \* calls of startTUN, each with a device and a callback
  Dialers,  \* goroutines that dial
  None      \* nobody

VARIABLES
  device,   \* device[h]: "none", "installed" (owns its callback), "up", "closed"
  current,  \* the device that was installed last
  user      \* user[d]: the device whose callback d is inside

vars == <<device, current, user>>

Init ==
  /\ device = [h \in Ops |-> "none"]
  /\ current = None
  /\ user = [d \in Dialers |-> None]

Install(h) ==
  /\ device[h] = "none"
  /\ device' = [device EXCEPT ![h] = "installed"]
  /\ current' = h
  /\ UNCHANGED user

\* The device is up; until it is closed, it stays so.
Listen(h) ==
  /\ current = h /\ device[h] = "installed"
  /\ device' = [device EXCEPT ![h] = "up"]
  /\ UNCHANGED <<current, user>>

\* The callback is freed: nobody is inside, and nobody gets there any more.
Close(h) ==
  /\ current = h /\ device[h] \in {"installed", "up"}
  /\ \A d \in Dialers : user[d] # h
  /\ device' = [device EXCEPT ![h] = "closed"]
  /\ UNCHANGED <<current, user>>

Enter(d, h) ==
  /\ user[d] = None /\ device[h] = "up"
  /\ user' = [user EXCEPT ![d] = h]
  /\ UNCHANGED <<device, current>>

Leave(d) ==
  /\ user[d] # None
  /\ user' = [user EXCEPT ![d] = None]
  /\ UNCHANGED <<device, current>>

Next ==
  \/ \E h \in Ops : Install(h) \/ Listen(h) \/ Close(h)
  \/ \E d \in Dialers : Leave(d) \/ \E h \in Ops : Enter(d, h)

Spec == Init /\ [][Next]_vars
=============================================================================
