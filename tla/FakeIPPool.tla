------------------------------ MODULE FakeIPPool ------------------------------
(***************************************************************************)
(* The fake-ip pool of the kernel with the persistent store                *)
(* (Clash.Meta/component/fakeip/pool.go, cachefile.go and                  *)
(* component/profile/cachefile/fakeip.go).                                 *)
(*                                                                         *)
(* Every DNS answer for a host is an address of the pool; a connection to  *)
(* that address is mapped back to the host.  Both directions are records   *)
(* of one bbolt bucket, written in separate transactions, and the bucket   *)
(* outlives the process.  The place in the cycle (offset, cycle) lives in  *)
(* memory and is written by StoreState, at shutdown only.                  *)
(*                                                                         *)
(* Lookup holds the mutex of the pool.  FlushFakeIP and StoreState, called *)
(* from the REST interface and from handleShutdown, do not.                *)
(***************************************************************************)
EXTENDS Integers, Sequences

CONSTANTS
  Hosts,    \* host names
  Lookups,  \* DNS queries in flight, one goroutine each
  First,    \* first address of the pool
  Last,     \* the broadcast address, never handed out
  None

ASSUME PoolAssumption == First \in Nat /\ Last \in Nat /\ First < Last
ASSUME NoneAssumption == None \notin Hosts \cup Lookups \cup Nat \cup {-1}

Addrs == First..(Last - 1)

\* offset starts just below First.
Offsets == (First - 1)..(Last - 1)

VARIABLES
  byHost,      \* bucket: host -> address
  byIP,        \* bucket: address -> host
  savedOffset, \* bucket: key-offset-fake-ip
  savedCycle,  \* bucket: key-cycle-fake-ip is there
  offset,
  cycle,
  mux,
  pc,          \* where each lookup is
  host,        \* what it looks up
  ip,          \* the address get() has returned to it
  flushing,    \* FlushFakeIP is between the store and the offset
  storing,     \* StoreState is between its two keys
  order,       \* history: addresses in the order they were last handed out
  stale,       \* history: it restarted from another offset than was handed out last
  torn,        \* history: it crashed between the two records of a host
  raced        \* history: FlushFakeIP ran while get() was at work

vars == <<byHost, byIP, savedOffset, savedCycle, offset, cycle, mux, pc, host, ip,
          flushing, storing, order, stale, torn, raced>>

records == <<byHost, byIP>>
saved == <<savedOffset, savedCycle>>
place == <<offset, cycle>>
thread == <<host, ip>>
unlocked == <<flushing, storing>>
history == <<order, stale, torn, raced>>

Getting(t) == pc[t] \in {"next", "reuse", "putIP", "ret", "putHost"}

-----------------------------------------------------------------------------
Init ==
  /\ byHost = [h \in Hosts |-> None]
  /\ byIP = [i \in Offsets |-> None]
  /\ savedOffset = None
  /\ savedCycle = FALSE
  /\ offset = First - 1
  /\ cycle = FALSE
  /\ mux = None
  /\ pc = [t \in Lookups |-> "idle"]
  /\ host = [t \in Lookups |-> None]
  /\ ip = [t \in Lookups |-> None]
  /\ flushing = FALSE
  /\ storing = FALSE
  /\ order = <<>>
  /\ stale = FALSE
  /\ torn = FALSE
  /\ raced = FALSE

Goto(t, at) == pc' = [pc EXCEPT ![t] = at]

\* Faulty variant: Lookup does not wait for the mutex.
LockFree == TRUE

\* p.mux.Lock()
MuxFree == mux = None

\* Lookup: under the lock, the record of the host, if there is one.
Lookup(t) ==
  /\ pc[t] = "idle"
  /\ MuxFree
  /\ \E h \in Hosts :
       \/ byHost[h] # None /\ UNCHANGED <<mux, pc, host>>
       \/ /\ byHost[h] = None
          /\ mux' = t
          /\ host' = [host EXCEPT ![t] = h]
          /\ Goto(t, "next")
  /\ UNCHANGED <<records, saved, place, ip, unlocked, history>>

\* Faulty variant: the broadcast address counts as one of the pool.
WrapLate(o) == o + 1 > Last

\* !p.offset.Less(p.last)
Wraps(o) == o + 1 >= Last

\* get(): the next offset, or the first one of the next cycle.
Advance(t) ==
  /\ pc[t] = "next"
  /\ offset' = IF Wraps(offset) THEN First ELSE offset + 1
  /\ cycle' = (cycle \/ Wraps(offset))
  /\ Goto(t, "reuse")
  /\ UNCHANGED <<records, saved, mux, thread, unlocked, history>>

\* Faulty variant: the record of the host stays when its address is deleted.
HostsKept(i) == byHost

\* DelByIP: the record of the host goes with the one of its address.
HostsWithout(i) ==
  [h \in Hosts |-> IF byIP[i] = h THEN None ELSE byHost[h]]

\* if p.cycle || p.store.Exist(p.offset) { p.store.DelByIP(p.offset) }
Reuse(t) ==
  /\ pc[t] = "reuse"
  /\ \/ /\ cycle \/ byIP[offset] # None
        /\ byHost' = HostsWithout(offset)
        /\ byIP' = [byIP EXCEPT ![offset] = None]
     \/ /\ ~(cycle \/ byIP[offset] # None)
        /\ UNCHANGED records
  /\ Goto(t, "putIP")
  /\ UNCHANGED <<saved, place, mux, thread, unlocked, history>>

\* The list with i as its last entry, and nowhere else.
MovedToEnd(list, i) ==
  LET kept == [k \in 1 .. Len(list) - 1 |->
                 IF \E j \in 1 .. k : list[j] = i THEN list[k + 1] ELSE list[k]]
  IN  Append(IF \E j \in DOMAIN list : list[j] = i THEN kept ELSE list, i)

\* p.store.PutByIP(p.offset, host)
PutByIP(t) ==
  /\ pc[t] = "putIP"
  /\ byIP' = [byIP EXCEPT ![offset] = host[t]]
  /\ order' = MovedToEnd(order, offset)
  /\ Goto(t, "ret")
  /\ UNCHANGED <<byHost, saved, place, mux, thread, unlocked, stale, torn, raced>>

\* return p.offset: the field is read once more
GetReturns(t) ==
  /\ pc[t] = "ret"
  /\ ip' = [ip EXCEPT ![t] = offset]
  /\ Goto(t, "putHost")
  /\ UNCHANGED <<records, saved, place, mux, host, unlocked, history>>

\* p.store.PutByHost(host, ip); return ip
PutByHost(t) ==
  /\ pc[t] = "putHost"
  /\ byHost' = [byHost EXCEPT ![host[t]] = ip[t]]
  /\ host' = [host EXCEPT ![t] = None]
  /\ ip' = [ip EXCEPT ![t] = None]
  /\ mux' = None
  /\ Goto(t, "idle")
  /\ UNCHANGED <<byIP, saved, place, unlocked, history>>

-----------------------------------------------------------------------------
\* DeleteBucket: all records, the saved state with them.
Flushed ==
  /\ byHost' = [h \in Hosts |-> None]
  /\ byIP' = [i \in Offsets |-> None]
  /\ savedOffset' = None
  /\ savedCycle' = FALSE
  /\ order' = <<>>

Race == raced' = (raced \/ \E t \in Lookups : Getting(t))

\* FlushFakeIP without p.mux: the store first ...
FlushStore ==
  /\ ~flushing
  /\ flushing' = TRUE
  /\ Flushed
  /\ Race
  /\ UNCHANGED <<place, mux, pc, thread, storing, stale, torn>>

\* ... then p.cycle and p.offset.
FlushPlace ==
  /\ flushing
  /\ flushing' = FALSE
  /\ offset' = First - 1
  /\ cycle' = FALSE
  /\ stale' = (order # <<>>)
  /\ Race
  /\ UNCHANGED <<records, saved, mux, pc, thread, storing, order, torn>>

\* StoreState, at shutdown: the offset ...
StoreOffset ==
  /\ ~storing
  /\ storing' = TRUE
  /\ savedOffset' = offset
  /\ UNCHANGED <<records, savedCycle, place, mux, pc, thread, flushing, history>>

\* ... and, in the second cycle or later, the fact that it is.
StoreCycle ==
  /\ storing
  /\ storing' = FALSE
  /\ savedCycle' = (savedCycle \/ cycle)
  /\ UNCHANGED <<records, savedOffset, place, mux, pc, thread, flushing, history>>

\* Faulty variant: restoreState begins the cycle anew.
RestartAtFirst == First - 1

\* p.offset = offset
RestoredOffset == savedOffset

\* The process dies, whatever it was doing, and New builds the pool again with
\* restoreState.  The bucket is flushed when the saved offset lies outside the range,
\* for the profile may name another one by now (First and Last are then those of the
\* new one), and when there is none but a record for the first address.
Restart ==
  /\ pc' = [t \in Lookups |-> "idle"]
  /\ host' = [t \in Lookups |-> None]
  /\ ip' = [t \in Lookups |-> None]
  /\ mux' = None
  /\ flushing' = FALSE
  /\ storing' = FALSE
  /\ torn' = (torn \/ \E t \in Lookups : pc[t] \in {"ret", "putHost"})
  /\ \/ /\ savedOffset # None
        /\ offset' = RestoredOffset
        /\ cycle' = savedCycle
        /\ stale' = (stale \/ (order # <<>> /\ savedOffset # order[Len(order)]))
        /\ UNCHANGED <<records, saved, order>>
     \/ /\ savedOffset # None \/ byIP[First] # None
        /\ Flushed
        /\ offset' = First - 1
        /\ cycle' = FALSE
        /\ stale' = FALSE
     \/ /\ savedOffset = None /\ byIP[First] = None
        /\ offset' = First - 1
        /\ cycle' = savedCycle
        /\ stale' = (order # <<>>)
        /\ UNCHANGED <<records, saved, order>>
  /\ UNCHANGED raced

-----------------------------------------------------------------------------
LookupStep(t) ==
  Lookup(t) \/ Advance(t) \/ Reuse(t) \/ PutByIP(t) \/ GetReturns(t) \/ PutByHost(t)

Next ==
  \/ \E t \in Lookups : LookupStep(t)
  \/ FlushStore \/ FlushPlace \/ StoreOffset \/ StoreCycle \/ Restart

Spec == Init /\ [][Next]_vars

-----------------------------------------------------------------------------
TypeOK ==
  /\ byHost \in [Hosts -> Offsets \cup {None}]
  /\ byIP \in [Offsets -> Hosts \cup {None}]
  /\ savedOffset \in Offsets \cup {None}
  /\ offset \in Offsets
  /\ {savedCycle, cycle, flushing, storing, stale, torn, raced} \subseteq BOOLEAN
  /\ mux \in Lookups \cup {None}
  /\ pc \in [Lookups -> {"idle", "next", "reuse", "putIP", "ret", "putHost"}]
  /\ host \in [Lookups -> Hosts \cup {None}]
  /\ ip \in [Lookups -> Offsets \cup {None}]
  /\ order \in Seq(Offsets)

\* The address answered for a host belongs to the pool and maps back to that
\* host, also in the middle of a lookup and after any crash; unless a flush ran
\* while an address was being handed out.
AnswersMapBack ==
  ~raced => \A h \in Hosts : byHost[h] # None =>
              byHost[h] \in Addrs /\ byIP[byHost[h]] = h

\* When no lookup is at work an address maps back only to a host that is still
\* answered with it, so no host owns two; unless, besides the flush, a crash has
\* torn the two records of a host apart.
OneAddressPerHost ==
  ~raced /\ ~torn /\ (\A t \in Lookups : ~Getting(t)) =>
    \A i \in Offsets : byIP[i] # None => byHost[byIP[i]] = i

\* An address changes hands only when it is the one handed out the longest time
\* ago, across shutdowns too; a restart from a stale offset is the exception.
OldestReusedFirst ==
  [][\A t \in Lookups : Reuse(t) /\ ~raced /\ ~stale /\ byIP[offset] # None
       => offset = Head(order)]_vars

\* The answers in force, as long as the pool keeps its promise.
Answers ==
  IF raced THEN {} ELSE {p \in Hosts \X Offsets : byHost[p[1]] = p[2]}

Abstract == INSTANCE FakeIP WITH mapping <- Answers, void <- raced

\* The pool implements FakeIP through any crash: at no step do two hosts share an
\* address, and no answer changes unless it is first taken back; unless a flush
\* ran while an address was being handed out.
ImplementsFakeIP == Abstract!Spec
=============================================================================
