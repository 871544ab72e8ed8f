-------------------------------- MODULE FakeIP --------------------------------
(***************************************************************************)
(* What a fake-ip pool promises, whatever store is behind it               *)
(* (Clash.Meta/component/fakeip/pool.go, interface store): the answers in  *)
(* force pair hosts and addresses one to one.  A host without an address   *)
(* is given one, taken from its owner if it has one; answers are forgotten *)
(* by eviction, flush and restart, and never come back or change.          *)
(*                                                                         *)
(* The pool gives no promise once an operation that does not take its      *)
(* mutex has overlapped one that does: void.                               *)
(***************************************************************************)
CONSTANTS
  Hosts,  \* host names
  Addrs   \* addresses of the pool

VARIABLES
  mapping,  \* the answers in force: pairs of a host and its address
  void      \* the promise no longer holds

vars == <<mapping, void>>

Init == mapping = {} /\ void = FALSE

\* Lookup of a host that has no address; the store may forget others meanwhile.
Assign(h, a) ==
  /\ ~void
  /\ \A p \in mapping : p[1] # h
  /\ \E kept \in SUBSET {p \in mapping : p[2] # a} :
       mapping' = kept \cup {<<h, a>>}
  /\ UNCHANGED void

\* An address is taken back, or the pool is flushed.
Forget ==
  /\ ~void
  /\ mapping' \in SUBSET mapping
  /\ UNCHANGED void

\* The overlap of a lookup and an operation without the mutex.
Void == void' = TRUE /\ mapping' = {}

Next == Void \/ Forget \/ \E h \in Hosts, a \in Addrs : Assign(h, a)

Spec == Init /\ [][Next]_vars

-----------------------------------------------------------------------------
\* No two hosts share an address and no host has two.
OneToOne ==
  /\ mapping \subseteq Hosts \X Addrs
  /\ \A p, q \in mapping : p[1] = q[1] <=> p[2] = q[2]
=============================================================================
