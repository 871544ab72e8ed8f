----------------------------- MODULE FakeIPMemory -----------------------------
(***************************************************************************)
(* The fake-ip pool with the store in memory (component/fakeip/pool.go,    *)
(* memory.go and common/lru/lrucache.go of Clash.Meta), and the reload     *)
(* that replaces the pool (dns/enhancer.go, hub/executor/executor.go).     *)
(*                                                                         *)
(* The two directions are two LRU lists of the same size.  Nothing links   *)
(* them but the order in which the pool touches, sets and deletes their    *)
(* entries: each operation on a list is atomic, a lookup is several of     *)
(* them under the mutex of the pool.  A flush clears the lists one after   *)
(* the other, and a reload copies them one after the other into a new      *)
(* pool, both without that mutex.                                          *)
(***************************************************************************)
EXTENDS Integers, Sequences

CONSTANTS
  Hosts,    \* host names
  Queries,  \* goroutines in Lookup or LookBack
  First,    \* first address of the pool
  Last,     \* the broadcast address, never handed out
  Size,     \* capacity of each list
  None

ASSUME MemoryAssumption ==
  /\ First \in Nat /\ Last \in Nat /\ First < Last /\ Size \in Nat \ {0}
  /\ None \notin Queries

Addrs == First..(Last - 1)
Offsets == (First - 1)..(Last - 1)

VARIABLES
  cacheIP,    \* LRU list of <<host, address>>, the oldest first
  cacheHost,  \* LRU list of <<address, host>>, the oldest first
  offset,
  cycle,
  mux,
  pc,         \* where each query is
  host,       \* the host it works on
  ip,         \* the address it works on
  flushing,   \* what FlushFakeIP does next
  cloning,    \* what the reload does next
  newIP,      \* cacheIP of the pool being built
  newHost,    \* its cacheHost
  raced       \* history: a query, a flush and a reload have overlapped badly

lists == <<cacheIP, cacheHost>>
place == <<offset, cycle>>
query == <<mux, pc, host, ip>>
reload == <<cloning, newIP, newHost>>
vars == <<lists, place, query, flushing, reload, raced>>

PCs == {"idle", "touchHost", "touchIP", "next", "reuse", "unlink", "drop",
        "putIP", "ret", "putHost"}

-----------------------------------------------------------------------------
(***************************************************************************)
(* LruCache without an age: a list of key and value, the oldest first.     *)
(***************************************************************************)
Entries(c) == {c[i] : i \in DOMAIN c}
Keys(c) == {e[1] : e \in Entries(c)}

\* Where the entry of a key is that the list has.
Pos(c, k) == CHOOSE p \in DOMAIN c : c[p][1] = k

Value(c, k) == c[Pos(c, k)][2]

\* deleteElement
Without(c, p) == [i \in 1 .. Len(c) - 1 |-> c[IF i < p THEN i ELSE i + 1]]

Delete(c, k) == IF k \in Keys(c) THEN Without(c, Pos(c, k)) ELSE c

\* Get moves an entry to the back; without one it changes nothing.
Touch(c, k) == IF k \in Keys(c) THEN Append(Delete(c, k), c[Pos(c, k)]) ELSE c

\* Set puts an entry to the back and evicts the oldest of a list too long.
Set(c, k, v) ==
  LET d == Append(Delete(c, k), <<k, v>>)
  IN  IF Len(d) > Size THEN Tail(d) ELSE d

-----------------------------------------------------------------------------
Init ==
  /\ cacheIP = <<>>
  /\ cacheHost = <<>>
  /\ offset = First - 1
  /\ cycle = FALSE
  /\ mux = None
  /\ pc = [t \in Queries |-> "idle"]
  /\ host = [t \in Queries |-> None]
  /\ ip = [t \in Queries |-> None]
  /\ flushing = "no"
  /\ cloning = "no"
  /\ newIP = <<>>
  /\ newHost = <<>>
  /\ raced = FALSE

Goto(t, at) == pc' = [pc EXCEPT ![t] = at]

\* A query takes the mutex and goes to its second step ...
Enter(t, at, h, i) ==
  /\ pc[t] = "idle"
  /\ mux = None
  /\ mux' = t
  /\ host' = [host EXCEPT ![t] = h]
  /\ ip' = [ip EXCEPT ![t] = i]
  /\ Goto(t, at)
  /\ UNCHANGED <<place, flushing, reload>>

\* ... and gives it back after its last.
Leave(t) ==
  /\ mux' = None
  /\ host' = [host EXCEPT ![t] = None]
  /\ ip' = [ip EXCEPT ![t] = None]
  /\ Goto(t, "idle")
  /\ UNCHANGED <<place, flushing, reload>>

\* Lookup of a host that has an address: GetByHost looks at cacheIP ...
LookupHit(t) ==
  \E h \in Keys(cacheIP) :
    /\ Enter(t, "touchHost", h, Value(cacheIP, h))
    /\ cacheIP' = Touch(cacheIP, h)
    /\ UNCHANGED cacheHost

\* Faulty variant: GetByHost does not look at cacheHost.
HostUntouched(i) == cacheHost

\* ensure ip --> host on head of linked list
HostTouched(i) == Touch(cacheHost, i)

\* ... and, for the order, at cacheHost.
TouchHost(t) ==
  /\ pc[t] = "touchHost"
  /\ cacheHost' = HostTouched(ip[t])
  /\ Leave(t)
  /\ UNCHANGED cacheIP

\* LookBack of an address that is in use: GetByIP, likewise.
LookBack(t) ==
  \E i \in Keys(cacheHost) :
    /\ Enter(t, "touchIP", Value(cacheHost, i), i)
    /\ cacheHost' = Touch(cacheHost, i)
    /\ UNCHANGED cacheIP

TouchIP(t) ==
  /\ pc[t] = "touchIP"
  /\ cacheIP' = Touch(cacheIP, host[t])
  /\ Leave(t)
  /\ UNCHANGED cacheHost

\* Lookup of a host that has none: get().
LookupMiss(t) ==
  \E h \in Hosts \ Keys(cacheIP) :
    /\ Enter(t, "next", h, None)
    /\ UNCHANGED lists

Wraps(o) == o + 1 >= Last

Advance(t) ==
  /\ pc[t] = "next"
  /\ offset' = IF Wraps(offset) THEN First ELSE offset + 1
  /\ cycle' = (cycle \/ Wraps(offset))
  /\ Goto(t, "reuse")
  /\ UNCHANGED <<lists, mux, host, ip, flushing, reload>>

\* DelByIP in the second cycle, or when the address is in use after a reload: a
\* Get of its host first.  An unused address leaves the lists as they are.
Reuse(t) ==
  /\ pc[t] = "reuse"
  /\ IF offset \in Keys(cacheHost)
     THEN /\ ip' = [ip EXCEPT ![t] = Value(cacheHost, offset)]
          /\ cacheHost' = Touch(cacheHost, offset)
          /\ Goto(t, "unlink")
     ELSE /\ Goto(t, "putIP")
          /\ UNCHANGED <<ip, cacheHost>>
  /\ UNCHANGED <<cacheIP, place, mux, host, flushing, reload>>

\* Faulty variant: DelByIP deletes one direction only.
StillLinked(h) == cacheIP

\* m.cacheIP.Delete(host)
Unlinked(h) == Delete(cacheIP, h)

\* The former owner of the address, found by the Get, loses it ...
Unlink(t) ==
  /\ pc[t] = "unlink"
  /\ cacheIP' = Unlinked(ip[t])
  /\ ip' = [ip EXCEPT ![t] = None]
  /\ Goto(t, "drop")
  /\ UNCHANGED <<cacheHost, place, mux, host, flushing, reload>>

\* ... then m.cacheHost.Delete(ip).
Drop(t) ==
  /\ pc[t] = "drop"
  /\ cacheHost' = Delete(cacheHost, offset)
  /\ Goto(t, "putIP")
  /\ UNCHANGED <<cacheIP, place, mux, host, ip, flushing, reload>>

PutByIP(t) ==
  /\ pc[t] = "putIP"
  /\ cacheHost' = Set(cacheHost, offset, host[t])
  /\ Goto(t, "ret")
  /\ UNCHANGED <<cacheIP, place, mux, host, ip, flushing, reload>>

GetReturns(t) ==
  /\ pc[t] = "ret"
  /\ ip' = [ip EXCEPT ![t] = offset]
  /\ Goto(t, "putHost")
  /\ UNCHANGED <<lists, place, mux, host, flushing, reload>>

PutByHost(t) ==
  /\ pc[t] = "putHost"
  /\ cacheIP' = Set(cacheIP, host[t], ip[t])
  /\ Leave(t)
  /\ UNCHANGED cacheHost

-----------------------------------------------------------------------------
\* FlushFakeIP, without the mutex: one list, the other, then the place.
FlushIP ==
  /\ flushing = "no"
  /\ flushing' = "host"
  /\ cacheIP' = <<>>
  /\ UNCHANGED <<cacheHost, place, query, reload>>

FlushHost ==
  /\ flushing = "host"
  /\ flushing' = "place"
  /\ cacheHost' = <<>>
  /\ UNCHANGED <<cacheIP, place, query, reload>>

FlushPlace ==
  /\ flushing = "place"
  /\ flushing' = "no"
  /\ offset' = First - 1
  /\ cycle' = FALSE
  /\ UNCHANGED <<lists, query, reload>>

\* A reload: New builds a pool, CloneFrom copies one list ...
CloneIP ==
  /\ cloning = "no"
  /\ cloning' = "host"
  /\ newIP' = cacheIP
  /\ UNCHANGED <<lists, place, query, flushing, newHost>>

\* ... and the other, but not the place ...
CloneHost ==
  /\ cloning = "host"
  /\ cloning' = "switch"
  /\ newHost' = cacheHost
  /\ UNCHANGED <<lists, place, query, flushing, newIP>>

\* ... and the new pool takes over, with a mutex of its own.  What is at work in
\* the old one goes on there and is lost.
Switch ==
  /\ cloning = "switch"
  /\ cloning' = "no"
  /\ cacheIP' = newIP /\ newIP' = <<>>
  /\ cacheHost' = newHost /\ newHost' = <<>>
  /\ offset' = First - 1
  /\ cycle' = FALSE
  /\ mux' = None
  /\ pc' = [t \in Queries |-> "idle"]
  /\ host' = [t \in Queries |-> None]
  /\ ip' = [t \in Queries |-> None]
  /\ flushing' = "no"

-----------------------------------------------------------------------------
QueryStep(t) ==
  \/ LookupHit(t) \/ TouchHost(t) \/ LookBack(t) \/ TouchIP(t) \/ LookupMiss(t)
  \/ Advance(t) \/ Reuse(t) \/ Unlink(t) \/ Drop(t) \/ PutByIP(t) \/ GetReturns(t)
  \/ PutByHost(t)

\* A host is being given an address.
Moving == \E t \in Queries : pc[t] \notin {"idle", "touchHost", "touchIP"}

\* What keeps the lists alike no longer does: a flush or a reload beside a host
\* that is given an address, a query between the two copies, a flush beside a
\* reload.  Hits and look-backs beside a flush, or after the copies, do no harm.
Overlap ==
  \/ Moving /\ (flushing # "no" \/ cloning # "no")
  \/ mux # None /\ cloning = "host"
  \/ flushing # "no" /\ cloning # "no"

\* Nothing is promised after an overlap, and the model ends there.
Next ==
  /\ ~raced
  /\ \/ \E t \in Queries : QueryStep(t)
     \/ FlushIP \/ FlushHost \/ FlushPlace
     \/ CloneIP \/ CloneHost \/ Switch
  /\ raced' = Overlap'

Spec == Init /\ [][Next]_vars

-----------------------------------------------------------------------------
\* Besides the types: no list outgrows its capacity or holds a key twice.
TypeOK ==
  /\ {cacheIP, newIP} \subseteq Seq(Hosts \X Offsets)
  /\ {cacheHost, newHost} \subseteq Seq(Offsets \X Hosts)
  /\ \A c \in {cacheIP, cacheHost, newIP, newHost} :
       Len(c) =< Size /\ \A i, j \in DOMAIN c : c[i][1] = c[j][1] => i = j
  /\ offset \in Offsets
  /\ {cycle, raced} \subseteq BOOLEAN
  /\ mux \in Queries \cup {None}
  /\ pc \in [Queries -> PCs]
  /\ host \in [Queries -> Hosts \cup {None}]
  /\ ip \in [Queries -> Hosts \cup Offsets \cup {None}]
  /\ flushing \in {"no", "host", "place"}
  /\ cloning \in {"no", "host", "switch"}

Flipped(c) == [i \in DOMAIN c |-> <<c[i][2], c[i][1]>>]

\* Between operations the two lists hold the same pairs in the same order, so
\* that they evict together and every answer maps back: hits, look-backs,
\* evictions, reused addresses, flushes and reloads all touch both alike, hits and
\* look-backs beside a flush included; unless they overlapped as said above.
Mirror ==
  ~raced /\ mux = None /\ flushing = "no" => cacheHost = Flipped(cacheIP)

\* Both at once.
Consistent == TypeOK /\ Mirror

\* The answers in force, as long as the pool keeps its promise.
Answers == IF raced THEN {} ELSE Entries(cacheIP)

Abstract == INSTANCE FakeIP WITH mapping <- Answers, void <- raced

\* The pool implements FakeIP: whatever is evicted, reused or cloned, at no step do
\* two hosts share an address, and no answer changes unless it is taken back.
ImplementsFakeIP == Abstract!Spec
=============================================================================
