--------------------------- MODULE FakeIPPoolProofs ---------------------------
(***************************************************************************)
(* For pools of every size, every set of hosts and every number of queries *)
(* in flight: what a host is answered maps back to it, crashes included,   *)
(* as long as no flush runs while an address is being handed out, and the  *)
(* address that is reused is the oldest.                                   *)
(***************************************************************************)
EXTENDS FakeIPPool, SequenceTheorems, TLAPS

\* The part of the types that the argument needs.
Types ==
  /\ byHost \in [Hosts -> Offsets \cup {None}]
  /\ byIP \in [Offsets -> Hosts \cup {None}]
  /\ savedOffset \in Offsets \cup {None}
  /\ offset \in Offsets
  /\ raced \in BOOLEAN
  /\ pc \in [Lookups -> {"idle", "next", "reuse", "putIP", "ret", "putHost"}]
  /\ host \in [Lookups -> Hosts \cup {None}]
  /\ ip \in [Lookups -> Offsets \cup {None}]

\* One lookup at a time is past the test of its record.
Exclusive == \A t \in Lookups : Getting(t) => mux = t

\* What a lookup in the middle of get() relies on until it writes the records.
Handing(t) ==
  /\ pc[t] \in {"next", "reuse", "putIP", "ret", "putHost"} =>
       host[t] \in Hosts /\ byHost[host[t]] = None
  /\ pc[t] \in {"reuse", "putIP", "ret", "putHost"} => offset \in Addrs
  /\ pc[t] = "putIP" => byIP[offset] = None
  /\ pc[t] \in {"ret", "putHost"} => byIP[offset] = host[t]
  /\ pc[t] = "putHost" => ip[t] = offset

MapBack == \A h \in Hosts : byHost[h] # None =>
             byHost[h] \in Addrs /\ byIP[byHost[h]] = h

\* The lookup that has written one record of its host and not the other.
Between(t) == pc[t] \in {"ret", "putHost"}

\* An address maps back to a host that is answered with it, or soon will be.
OneAddress == \A i \in Offsets : byIP[i] # None =>
  byHost[byIP[i]] = i \/ \E t \in Lookups : Between(t) /\ offset = i

IInv ==
  /\ Types
  /\ Exclusive
  /\ ~raced => MapBack /\ \A t \in Lookups : Handing(t)
  /\ ~raced /\ ~torn => OneAddress

-----------------------------------------------------------------------------
\* None is no address, no host and no lookup, and the addresses are offsets.
LEMMA NoneApart ==
  None \notin Offsets \cup Hosts \cup Lookups /\ Addrs \subseteq Offsets
  BY PoolAssumption, NoneAssumption DEF Offsets, Addrs

\* Init establishes the inductive invariant.
LEMMA InitIInv == Init => IInv
  <1> SUFFICES ASSUME Init PROVE IInv
    OBVIOUS
  <1>1. First - 1 \in Offsets
    BY PoolAssumption DEF Offsets
  <1>2. Types
    BY <1>1 DEF Init, Types
  <1>3. Exclusive
    BY DEF Init, Exclusive, Getting
  <1>4. MapBack
    BY DEF Init, MapBack
  <1>5. \A t \in Lookups : Handing(t)
    BY DEF Init, Handing
  <1>6. OneAddress
    BY DEF Init, OneAddress, Getting
  <1> QED
    BY <1>2, <1>3, <1>4, <1>5, <1>6 DEF IInv

\* The steps of a lookup keep the invariant: only the holder of the mutex takes
\* a step of get(), and it deletes a record before it reuses the address.
LEMMA LookupKeeps == ASSUME IInv, NEW t \in Lookups, LookupStep(t) PROVE IInv'
  <1> USE NoneApart
  <1>1. CASE Lookup(t)
    <2>0. PICK h \in Hosts :
            \/ byHost[h] # None /\ UNCHANGED <<mux, pc, host>>
            \/ /\ byHost[h] = None
               /\ mux' = t
               /\ host' = [host EXCEPT ![t] = h]
               /\ Goto(t, "next")
      BY <1>1 DEF Lookup
    <2> USE <2>0 DEF IInv, Goto
    <2>1. Types'
      BY <1>1 DEF Lookup, Types, records, place, saved, history
    <2>2. Exclusive'
      BY <1>1 DEF Lookup, MuxFree, Exclusive, Getting, Types
    <2>3. ~raced' => MapBack'
      BY <1>1 DEF Lookup, MapBack, records, history
    <2>4. ~raced' => \A u \in Lookups : Handing(u)'
      BY <1>1 DEF Lookup, Handing, Types, records, place, history
    <2>5. ~raced' /\ ~torn' => OneAddress'
      BY <1>1 DEF Lookup, OneAddress, Between, Getting, Types, records, place, history
    <2> QED
      BY <2>1, <2>2, <2>3, <2>4, <2>5
  <1>2. CASE Advance(t)
    <2> USE DEF IInv, Goto
    <2>1. offset' \in Addrs
      BY <1>2, PoolAssumption DEF Advance, Wraps, Addrs, Offsets, Types
    <2>2. Types'
      BY <1>2, <2>1 DEF Advance, Types, records, saved, thread, history
    <2>3. Exclusive'
      BY <1>2 DEF Advance, Exclusive, Getting, Types
    <2>4. ~raced' => MapBack'
      BY <1>2 DEF Advance, MapBack, records, history
    <2>5. \A u \in Lookups : u # t => ~Getting(u)'
      BY <1>2 DEF Advance, Exclusive, Getting, Types
    <2>6. ~raced' => \A u \in Lookups : Handing(u)'
      BY <1>2, <2>1, <2>5 DEF Advance, Handing, Getting, Types, records, thread, history
    <2>7. ~raced' /\ ~torn' => OneAddress'
      BY <1>2, <2>5 DEF Advance, OneAddress, Between, Getting, Exclusive, Types, records, thread, history
    <2> QED
      BY <2>2, <2>3, <2>4, <2>6, <2>7
  <1>3. CASE Reuse(t)
    <2> USE DEF IInv, Goto
    <2>1. Types'
      BY <1>3 DEF Reuse, HostsWithout, Types, records, saved, place, thread, history
    <2>2. Exclusive'
      BY <1>3 DEF Reuse, Exclusive, Getting, Types
    <2>3. ~raced' => byIP'[offset] = None
      BY <1>3 DEF Reuse, Types, records, history
    <2>4. ~raced' => MapBack'
      BY <1>3 DEF Reuse, HostsWithout, MapBack, Types, records, history
    <2>5. \A u \in Lookups : u # t => ~Getting(u)'
      BY <1>3 DEF Reuse, Exclusive, Getting, Types
    <2>6. ~raced' => \A u \in Lookups : Handing(u)'
      BY <1>3, <2>3, <2>5 DEF Reuse, HostsWithout, Handing, Getting, Types, records,
                              place, thread, history
    <2>7. ASSUME ~raced', ~torn' PROVE OneAddress'
      <3>1. ~raced /\ ~torn /\ OneAddress /\ UNCHANGED <<offset, host>>
        BY <1>3, <2>7 DEF Reuse, history, place, thread
      <3>2. \A u \in Lookups : ~Between(u)
        BY <1>3 DEF Reuse, Between, Exclusive, Getting, Types
      <3>3. \A i \in Offsets : byIP'[i] # None =>
              i # offset /\ byIP'[i] = byIP[i] /\ byHost[byIP[i]] = i
        BY <1>3, <2>3, <2>7, <3>1, <3>2 DEF Reuse, OneAddress, Types, records
      <3>4. \A i \in Offsets : byIP'[i] # None => byIP[i] # byIP[offset]
        BY <1>3, <2>3, <3>1, <3>2, <3>3, <2>7 DEF OneAddress, Types
      <3>5. \A i \in Offsets : byIP'[i] # None => byHost'[byIP'[i]] = i
        BY <1>3, <3>3, <3>4 DEF Reuse, HostsWithout, Types, records
      <3> QED
        BY <3>5 DEF OneAddress
    <2> QED
      BY <2>1, <2>2, <2>4, <2>6, <2>7
  <1>4. CASE PutByIP(t)
    <2> USE DEF IInv, Goto
    <2>1. Types'
      BY <1>4 DEF PutByIP, Types, saved, place, thread
    <2>2. Exclusive'
      BY <1>4 DEF PutByIP, Exclusive, Getting, Types
    <2>3. ~raced' => MapBack'
      BY <1>4 DEF PutByIP, Handing, MapBack, Types
    <2>4. \A u \in Lookups : u # t => ~Getting(u)'
      BY <1>4 DEF PutByIP, Exclusive, Getting, Types
    <2>5. ~raced' => \A u \in Lookups : Handing(u)'
      BY <1>4, <2>4 DEF PutByIP, Handing, Getting, Types, place, thread
    <2>6. ~raced' /\ ~torn' => OneAddress'
      BY <1>4, <2>4 DEF PutByIP, OneAddress, Between, Getting, Exclusive, Handing, Types, place, thread
    <2> QED
      BY <2>1, <2>2, <2>3, <2>5, <2>6
  <1>5. CASE GetReturns(t)
    <2> USE DEF IInv, Goto
    <2>1. Types'
      BY <1>5 DEF GetReturns, Types, records, saved, place, history
    <2>2. Exclusive'
      BY <1>5 DEF GetReturns, Exclusive, Getting, Types
    <2>3. ~raced' => MapBack'
      BY <1>5 DEF GetReturns, MapBack, records, history
    <2>4. ~raced' => \A u \in Lookups : Handing(u)'
      BY <1>5 DEF GetReturns, Handing, Types, records, place, history
    <2>5. ~raced' /\ ~torn' => OneAddress'
      BY <1>5 DEF GetReturns, OneAddress, Between, Getting, Types, records, place, history
    <2> QED
      BY <2>1, <2>2, <2>3, <2>4, <2>5
  <1>6. CASE PutByHost(t)
    <2> USE DEF IInv, Goto
    <2>1. Types'
      BY <1>6 DEF PutByHost, Types, saved, place, history
    <2>2. \A u \in Lookups : ~Getting(u)'
      BY <1>6 DEF PutByHost, Exclusive, Getting, Types
    <2>3. Exclusive'
      BY <2>2 DEF Exclusive
    <2>4. ~raced' => MapBack'
      BY <1>6 DEF PutByHost, Handing, MapBack, Types, history
    <2>5. ~raced' => \A u \in Lookups : Handing(u)'
      BY <2>2 DEF Handing, Getting
    <2>6. ~raced' /\ ~torn' => OneAddress'
      BY <1>6, <2>2 DEF PutByHost, OneAddress, Between, Getting, Exclusive, Handing, Types, history, place
    <2> QED
      BY <2>1, <2>3, <2>4, <2>5, <2>6
  <1> QED
    BY <1>1, <1>2, <1>3, <1>4, <1>5, <1>6 DEF LookupStep

\* Flush, shutdown, restart and stuttering keep it.
LEMMA OthersKeep ==
  ASSUME IInv, \/ FlushStore \/ FlushPlace \/ StoreOffset \/ StoreCycle \/ Restart
               \/ UNCHANGED vars
  PROVE  IInv'
  <1> USE NoneApart DEF IInv
  <1>0. First - 1 \in Offsets
    BY PoolAssumption DEF Offsets
  <1>1. CASE FlushStore
    <2>1. Types'
      BY <1>1 DEF FlushStore, Flushed, Race, Types, place, thread
    <2>2. Exclusive'
      BY <1>1 DEF FlushStore, Exclusive, Getting
    <2>3. MapBack'
      BY <1>1 DEF FlushStore, Flushed, MapBack
    <2>4. ~raced' => \A u \in Lookups : ~Getting(u)
      BY <1>1 DEF FlushStore, Race
    <2>5. ~raced' => \A u \in Lookups : Handing(u)'
      BY <1>1, <2>4 DEF FlushStore, Handing, Getting
    <2>6. ~raced' /\ ~torn' => OneAddress'
      BY <1>1, <2>4 DEF FlushStore, Flushed, OneAddress, Getting
    <2> QED
      BY <2>1, <2>2, <2>3, <2>5, <2>6
  <1>2. CASE FlushPlace
    <2>1. Types'
      BY <1>0, <1>2 DEF FlushPlace, Race, Types, records, saved, thread
    <2>2. Exclusive'
      BY <1>2 DEF FlushPlace, Exclusive, Getting
    <2>3. ~raced' => MapBack'
      BY <1>2 DEF FlushPlace, Race, MapBack, records
    <2>4. ~raced' => \A u \in Lookups : ~Getting(u)
      BY <1>2 DEF FlushPlace, Race
    <2>5. ~raced' => \A u \in Lookups : Handing(u)'
      BY <1>2, <2>4 DEF FlushPlace, Handing, Getting
    <2>6. ~raced' /\ ~torn' => OneAddress'
      BY <1>2, <2>4 DEF FlushPlace, Race, OneAddress, Between, Getting, records
    <2> QED
      BY <2>1, <2>2, <2>3, <2>5, <2>6
  <1>3. CASE StoreOffset
    BY <1>3 DEF StoreOffset, OneAddress, Between, Types, Exclusive, Getting, MapBack, Handing, records,
                place, thread, history
  <1>4. CASE StoreCycle
    BY <1>4 DEF StoreCycle, OneAddress, Between, Types, Exclusive, Getting, MapBack, Handing, records,
                place, thread, history
  <1>5. CASE Restart
    <2>1. Types'
      <3>1. byHost' \in [Hosts -> Offsets \cup {None}]
            /\ byIP' \in [Offsets -> Hosts \cup {None}]
            /\ savedOffset' \in Offsets \cup {None}
        BY <1>5 DEF Restart, Flushed, Types, records, saved
      <3>2. offset' \in Offsets
        BY <1>0, <1>5 DEF Restart, RestoredOffset, Types
      <3> QED
        BY <3>1, <3>2, <1>5 DEF Restart, Types
    <2>2. \A u \in Lookups : ~Getting(u)'
      BY <1>5 DEF Restart, Getting
    <2>3. Exclusive'
      BY <2>2 DEF Exclusive
    <2>4. ~raced' => MapBack'
      BY <1>5 DEF Restart, Flushed, MapBack, records
    <2>5. ~raced' => \A u \in Lookups : Handing(u)'
      BY <2>2 DEF Handing, Getting
    <2>6. ~raced' /\ ~torn' => OneAddress'
      BY <1>5, <2>2 DEF Restart, Flushed, OneAddress, Between, records, Getting
    <2> QED
      BY <2>1, <2>3, <2>4, <2>5, <2>6
  <1>6. CASE UNCHANGED vars
    BY <1>6 DEF vars, OneAddress, Between, Types, Exclusive, Getting, MapBack, Handing
  <1> QED
    BY <1>1, <1>2, <1>3, <1>4, <1>5, <1>6

\* The inductive invariant holds in every reachable state.
THEOREM PoolInvariance == Spec => []IInv
  <1>1. IInv /\ [Next]_vars => IInv'
    BY LookupKeeps, OthersKeep DEF Next
  <1> QED
    BY InitIInv, <1>1, PTL DEF Spec

\* The address answered for a host is one of the pool and maps back to that
\* host, in the middle of lookups and across crashes: Lookup, DelByIP and
\* restoreState of pool.go, with no flush in the middle of get().
THEOREM AnswersSafety == Spec => []AnswersMapBack
  <1>1. IInv => AnswersMapBack
    BY DEF IInv, MapBack, AnswersMapBack
  <1> QED
    BY PoolInvariance, <1>1, PTL

\* No host owns two addresses when no lookup is at work, because the mutex keeps
\* two lookups of one host from both missing its record: Lookup of pool.go, with
\* neither a flush nor a crash between the two records of a host.
THEOREM OneAddressSafety == Spec => []OneAddressPerHost
  <1>1. IInv => OneAddressPerHost
    BY DEF IInv, OneAddress, Between, Getting, OneAddressPerHost
  <1> QED
    BY PoolInvariance, <1>1, PTL

-----------------------------------------------------------------------------
\* Steps that leave the records of hosts alone are invisible in FakeIP.
LEMMA Unseen ==
  ASSUME UNCHANGED <<byHost, raced>>
  PROVE  UNCHANGED Abstract!vars
  BY DEF Answers, Abstract!vars

\* Handing out an address is what FakeIP calls Assign.
LEMMA PutAssigns ==
  ASSUME IInv, ~raced, NEW t \in Lookups, PutByHost(t)
  PROVE  Abstract!Assign(host[t], ip[t])
  <1> DEFINE h == host[t]
             a == ip[t]
  <1>1. /\ h \in Hosts /\ a \in Offsets
        /\ byHost[h] = None /\ byIP[a] = h
        /\ byHost' = [byHost EXCEPT ![h] = a]
        /\ raced' = raced
    BY NoneApart DEF IInv, Handing, PutByHost, Types, history
  <1>2. \A g \in Hosts : byHost[g] # a
    BY <1>1, NoneApart DEF IInv, MapBack
  <1>3. Answers' = Answers \cup {<<h, a>>}
    <2>1. Answers = {p \in Hosts \X Offsets : byHost[p[1]] = p[2]}
      BY DEF Answers
    <2>2. Answers' = {p \in Hosts \X Offsets : byHost'[p[1]] = p[2]}
      BY <1>1 DEF Answers
    <2>3. \A p \in Hosts \X Offsets :
            byHost'[p[1]] = p[2] <=> byHost[p[1]] = p[2] \/ p = <<h, a>>
      BY <1>1, NoneApart DEF IInv, Types
    <2> QED
      BY <1>1, <2>1, <2>2, <2>3
  <1>4. Answers \in SUBSET {p \in Answers : p[2] # a}
    BY <1>2 DEF Answers
  <1>5. \A p \in Answers : p[1] # h
    BY <1>1, NoneApart DEF Answers
  <1>6. \E kept \in SUBSET {p \in Answers : p[2] # a} :
          Answers' = kept \cup {<<h, a>>}
    BY <1>3, <1>4
  <1> QED
    BY <1>1, <1>5, <1>6 DEF Abstract!Assign

\* Every step of the pool is a step of FakeIP or is invisible in it.
LEMMA StepSimulates ==
  ASSUME IInv, [Next]_vars
  PROVE  [Abstract!Next]_(Abstract!vars)
  <1> USE DEF Abstract!Next
  <1>1. CASE raced
    <2>1. raced'
      BY <1>1 DEF Next, vars, LookupStep, Lookup, Advance, Reuse, PutByIP, GetReturns,
                  PutByHost, FlushStore, FlushPlace, StoreOffset, StoreCycle, Restart,
                  Race, history
    <2> QED
      BY <1>1, <2>1 DEF Answers, Abstract!Void
  <1>2. CASE ~raced /\ raced'
    BY <1>2 DEF Answers, Abstract!Void
  <1>3. CASE ~raced /\ ~raced'
    <2>0. raced' = raced
      <3>1. IInv'
        BY LookupKeeps, OthersKeep DEF Next
      <3> QED
        BY <1>3, <3>1 DEF IInv, Types
    <2>1. ASSUME NEW t \in Lookups, LookupStep(t)
          PROVE  [Abstract!Next]_(Abstract!vars)
      <3>1. CASE Lookup(t)
        BY <3>1, Unseen DEF Lookup, records, history
      <3>2. CASE Advance(t)
        BY <3>2, Unseen DEF Advance, records, history
      <3>3. CASE Reuse(t)
        <4>1. \A g \in Hosts : byHost'[g] \in {byHost[g], None}
          BY <3>3 DEF Reuse, HostsWithout, records, IInv, Types
        <4>2. Answers' \subseteq Answers
          BY <1>3, <4>1, NoneApart DEF Answers
        <4> QED
          BY <1>3, <2>0, <4>2 DEF Abstract!Forget
      <3>4. CASE PutByIP(t)
        BY <3>4, <1>3, Unseen DEF PutByIP
      <3>5. CASE GetReturns(t)
        BY <3>5, Unseen DEF GetReturns, records, history
      <3>6. CASE PutByHost(t)
        <4>1. host[t] \in Hosts /\ ip[t] \in Addrs
          BY <1>3, <3>6 DEF PutByHost, IInv, Handing
        <4> QED
          BY <1>3, <3>6, <4>1, PutAssigns
      <3> QED
        BY <2>1, <3>1, <3>2, <3>3, <3>4, <3>5, <3>6 DEF LookupStep
    <2>2. CASE FlushStore \/ Restart
      <3>1. byHost' = byHost \/ byHost' = [g \in Hosts |-> None]
        BY <2>2 DEF FlushStore, Restart, Flushed, records
      <3>2. Answers' \subseteq Answers
        BY <1>3, <3>1, NoneApart DEF Answers
      <3> QED
        BY <1>3, <2>0, <3>2 DEF Abstract!Forget
    <2>3. CASE FlushPlace \/ StoreOffset \/ StoreCycle \/ UNCHANGED vars
      <3>1. UNCHANGED <<byHost, raced>>
        BY <2>0, <2>3 DEF FlushPlace, StoreOffset, StoreCycle, vars, records
      <3> QED
        BY <3>1, Unseen
    <2> QED
      BY <2>1, <2>2, <2>3 DEF Next
  <1> QED
    BY <1>1, <1>2, <1>3

\* The pool with the persistent store implements FakeIP, for any number of hosts,
\* addresses and lookups and through any crash: Lookup, get, DelByIP, FlushFakeIP,
\* StoreState and restoreState of pool.go.
THEOREM PoolImplements == Spec => ImplementsFakeIP
  <1>1. Init => Abstract!Init
    BY NoneApart DEF Init, Answers, Abstract!Init
  <1>2. IInv /\ [Next]_vars => [Abstract!Next]_(Abstract!vars)
    BY StepSimulates
  <1> QED
    BY PoolInvariance, <1>1, <1>2, PTL DEF Spec, ImplementsFakeIP, Abstract!Spec
-----------------------------------------------------------------------------
(***************************************************************************)
(* The order in which addresses are handed out.  While the offset is not   *)
(* stale the list is a stretch of the cycle that ends just before the next *)
(* address; an address of a record is in the list; so the next address is  *)
(* in use only when the list is the whole cycle and begins with it.        *)
(***************************************************************************)
Succ(o) == IF Wraps(o) THEN First ELSE o + 1

NextAddr == IF \E t \in Lookups : pc[t] \in {"reuse", "putIP"} THEN offset ELSE Succ(offset)

Count == Last - First

\* The k-th address of a list of n that ends before the address i.
Place(i, n, k) == IF i - n - 1 + k >= First THEN i - n - 1 + k ELSE i - n - 1 + k + Count

InOrder == \A i \in Offsets : byIP[i] # None => \E k \in 1 .. Len(order) : order[k] = i

Rotation ==
  /\ Len(order) <= Count
  /\ \A k \in 1 .. Len(order) : order[k] = Place(NextAddr, Len(order), k)

OrderInv == TypeOK /\ InOrder /\ (~raced /\ ~stale => Rotation)

LEMMA InitOrder == Init => OrderInv
  <1> SUFFICES ASSUME Init PROVE OrderInv
    OBVIOUS
  <1>1. First - 1 \in Offsets /\ order \in Seq(Offsets) /\ Len(order) = 0
    BY PoolAssumption DEF Offsets, Init
  <1>2. TypeOK
    BY <1>1 DEF Init, TypeOK
  <1>3. InOrder /\ Rotation
    BY <1>1, PoolAssumption DEF Init, InOrder, Rotation, Count
  <1> QED
    BY <1>2, <1>3 DEF OrderInv

\* The new list has the entries of the old one and i, at its end; without i the
\* old one grows by one, and if it begins with i it only turns.
Turned(list, i, new) ==
  /\ new \in Seq(Offsets)
  /\ \A j \in 1 .. Len(list) : \E k \in 1 .. Len(new) : new[k] = list[j]
  /\ \E k \in 1 .. Len(new) : new[k] = i
  /\ (\A j \in 1 .. Len(list) : list[j] # i) => new = Append(list, i)
  /\ Len(list) > 0 /\ list[1] = i =>
       /\ Len(new) = Len(list) /\ new[Len(list)] = i
       /\ \A k \in 1 .. Len(list) - 1 : new[k] = list[k + 1]

LEMMA Added ==
  ASSUME NEW list \in Seq(Offsets), NEW i \in Offsets,
         \A j \in 1 .. Len(list) : list[j] # i
  PROVE  Turned(list, i, Append(list, i))
  <1>1. Len(list) \in Nat
    OBVIOUS
  <1>2. PICK new : new = Append(list, i)
    OBVIOUS
  <1>3. /\ new \in Seq(Offsets) /\ Len(new) = Len(list) + 1 /\ new[Len(list) + 1] = i
        /\ \A j \in 1 .. Len(list) : new[j] = list[j]
    BY <1>2
  <1>4. \A j \in 1 .. Len(list) : j \in 1 .. Len(new)
    BY <1>1, <1>3
  <1>5. \A j \in 1 .. Len(list) : \E k \in 1 .. Len(new) : new[k] = list[j]
    BY <1>3, <1>4
  <1>6. Len(list) + 1 \in 1 .. Len(new)
    BY <1>1, <1>3
  <1>7. \E k \in 1 .. Len(new) : new[k] = i
    BY <1>3, <1>6
  <1>8. ~(Len(list) > 0 /\ list[1] = i)
    BY <1>1
  <1>9. Turned(list, i, new)
    BY <1>2, <1>3, <1>5, <1>7, <1>8 DEF Turned
  <1> QED
    BY <1>2, <1>9

\* kept is the list without its one entry that is i
LEMMA Shifted ==
  ASSUME NEW list \in Seq(Offsets), NEW i \in Offsets, NEW kept \in Seq(Offsets),
         Len(list) > 0, Len(kept) = Len(list) - 1,
         \E j \in 1 .. Len(list) : list[j] = i,
         \A k \in 1 .. Len(list) - 1 :
           kept[k] = IF \E j \in 1 .. k : list[j] = i THEN list[k + 1] ELSE list[k]
  PROVE  Turned(list, i, Append(kept, i))
  <1>0. Len(list) \in Nat
    OBVIOUS
  <1>1. PICK new : new = Append(kept, i)
    OBVIOUS
  <1>2. /\ new \in Seq(Offsets) /\ Len(new) = Len(kept) + 1 /\ new[Len(kept) + 1] = i
        /\ \A k \in 1 .. Len(kept) : new[k] = kept[k]
    BY <1>1
  <1>3. /\ Len(new) = Len(list) /\ new[Len(list)] = i
        /\ \A k \in 1 .. Len(list) - 1 : new[k] = kept[k]
    BY <1>0, <1>2
  <1>4. ASSUME NEW j \in 1 .. Len(list) PROVE \E k \in 1 .. Len(new) : new[k] = list[j]
    <2>1. CASE list[j] = i
      BY <1>0, <1>3, <2>1
    <2>2. CASE list[j] # i /\ \E l \in 1 .. j : list[l] = i
      <3>1. j - 1 \in 1 .. Len(list) - 1 /\ \E l \in 1 .. j - 1 : list[l] = i
        BY <1>0, <2>2
      <3>2. kept[j - 1] = list[j]
        BY <1>0, <3>1
      <3> QED
        BY <1>0, <1>3, <3>1, <3>2
    <2>3. CASE \A l \in 1 .. j : list[l] # i
      <3>1. j \in 1 .. Len(list) - 1
        BY <1>0, <2>3
      <3>2. kept[j] = list[j]
        BY <2>3, <3>1
      <3> QED
        BY <1>0, <1>3, <3>1, <3>2
    <2> QED
      BY <2>1, <2>2, <2>3
  <1>5. ASSUME list[1] = i, NEW k \in 1 .. Len(list) - 1 PROVE new[k] = list[k + 1]
    <2>1. kept[k] = list[k + 1]
      BY <1>0, <1>5
    <2> QED
      BY <1>3, <2>1
  <1>6. list[1] = i => \A k \in 1 .. Len(list) - 1 : new[k] = list[k + 1]
    BY <1>5
  <1>7. \E k \in 1 .. Len(new) : new[k] = i
    BY <1>0, <1>3
  <1>8. \A j \in 1 .. Len(list) : \E k \in 1 .. Len(new) : new[k] = list[j]
    BY <1>4
  <1>9. Turned(list, i, new)
    BY <1>2, <1>3, <1>6, <1>7, <1>8 DEF Turned
  <1> QED
    BY <1>1, <1>9

LEMMA Moves ==
  ASSUME NEW list \in Seq(Offsets), NEW i \in Offsets
  PROVE  Turned(list, i, MovedToEnd(list, i))
  <1>0. Len(list) \in Nat /\ DOMAIN list = 1 .. Len(list)
    OBVIOUS
  <1>1. ASSUME \A j \in 1 .. Len(list) : list[j] # i
        PROVE  Turned(list, i, MovedToEnd(list, i))
    <2>1. MovedToEnd(list, i) = Append(list, i)
      BY <1>0, <1>1 DEF MovedToEnd
    <2> QED
      BY <1>1, <2>1, Added
  <1>2. ASSUME \E j \in 1 .. Len(list) : list[j] = i
        PROVE  Turned(list, i, MovedToEnd(list, i))
    <2>1. PICK kept : kept = [k \in 1 .. Len(list) - 1 |->
                        IF \E j \in 1 .. k : list[j] = i THEN list[k + 1] ELSE list[k]]
      OBVIOUS
    <2>2. MovedToEnd(list, i) = Append(kept, i)
      BY <1>0, <1>2, <2>1 DEF MovedToEnd
    <2>3. Len(list) > 0 /\ Len(list) - 1 \in Nat
      BY <1>0, <1>2
    <2>4. \A k \in 1 .. Len(list) - 1 : k \in 1 .. Len(list) /\ k + 1 \in 1 .. Len(list)
      BY <1>0
    <2>5. \A k \in 1 .. Len(list) : list[k] \in Offsets
      OBVIOUS
    <2>6. \A k \in 1 .. Len(list) - 1 :
            kept[k] = IF \E j \in 1 .. k : list[j] = i THEN list[k + 1] ELSE list[k]
      BY <2>1
    <2>7. \A k \in 1 .. Len(list) - 1 : kept[k] \in Offsets
      BY <2>4, <2>5, <2>6
    <2>8. kept \in [1 .. Len(list) - 1 -> Offsets]
      BY <2>1, <2>4, <2>5
    <2>9. kept \in Seq(Offsets) /\ Len(kept) = Len(list) - 1
      <3>1. kept \in Seq(Offsets)
        BY <2>3, <2>8, SeqDef
      <3>2. Len(kept) \in Nat /\ DOMAIN kept = 1 .. Len(kept) /\ DOMAIN kept = 1 .. Len(list) - 1
        BY <2>8, <3>1, LenProperties
      <3>3. \A k \in Int : k \in 1 .. Len(kept) <=> k \in 1 .. Len(list) - 1
        BY <3>2
      <3> QED
        BY <2>3, <3>1, <3>2, <3>3
    <2> QED
      BY <1>2, <2>2, <2>3, <2>6, <2>9, Shifted
  <1> QED
    BY <1>1, <1>2

\* Where neither the list nor the next address changes, and no record appears.
LEMMA OrderSame ==
  ASSUME OrderInv, TypeOK', order' = order, NextAddr' = NextAddr,
         \A i \in Offsets : byIP'[i] \in {byIP[i], None},
         ~raced' /\ ~stale' => ~raced /\ ~stale
  PROVE OrderInv'
  BY DEF OrderInv, InOrder, Rotation

\* An empty list is a stretch of the cycle that ends anywhere.
LEMMA OrderEmpty ==
  ASSUME TypeOK', order' = <<>>, \A i \in Offsets : byIP'[i] = None
  PROVE OrderInv'
  <1>1. Len(order') = 0
    OBVIOUS
  <1> QED
    BY <1>1, PoolAssumption DEF OrderInv, InOrder, Rotation, Count

LEMMA LookupKeepsOrder == ASSUME IInv, OrderInv, NEW t \in Lookups, LookupStep(t) PROVE OrderInv'
  <1> USE NoneApart, PoolAssumption DEF Goto, records, saved, place, thread, unlocked, history
  <1>0. \A u \in Lookups : u # t /\ (Getting(t) \/ mux = None) => ~Getting(u)
    BY DEF IInv, Exclusive
  <1>1. CASE Lookup(t)
    <2>1. TypeOK' /\ pc' \in {pc, [pc EXCEPT ![t] = "next"]} /\ pc[t] = "idle"
      BY <1>1 DEF Lookup, OrderInv, TypeOK
    <2>2. NextAddr' = NextAddr
      BY <1>1, <2>1 DEF Lookup, NextAddr, OrderInv, TypeOK, Succ, Wraps
    <2> QED
      BY <1>1, <2>1, <2>2, OrderSame DEF Lookup
  <1>2. CASE Advance(t)
    <2>1. offset' = Succ(offset) /\ offset' \in Offsets
      BY <1>2 DEF Advance, Wraps, Offsets, Succ, OrderInv, TypeOK
    <2>2. TypeOK'
      BY <1>2, <2>1 DEF Advance, OrderInv, TypeOK
    <2>3. NextAddr' = NextAddr
      BY <1>0, <1>2, <2>1 DEF Advance, NextAddr, Getting, OrderInv, TypeOK
    <2> QED
      BY <1>2, <2>2, <2>3, OrderSame DEF Advance
  <1>3. CASE Reuse(t)
    <2>1. TypeOK' /\ \A i \in Offsets : byIP'[i] \in {byIP[i], None}
      BY <1>3 DEF Reuse, HostsWithout, OrderInv, TypeOK
    <2>2. NextAddr' = NextAddr
      BY <1>3 DEF Reuse, NextAddr, OrderInv, TypeOK
    <2> QED
      BY <1>3, <2>1, <2>2, OrderSame DEF Reuse
  <1>4. CASE PutByIP(t)
    <2>0. /\ offset \in Offsets /\ order \in Seq(Offsets) /\ NextAddr = offset
          /\ Len(order) \in Nat
      BY <1>4 DEF PutByIP, NextAddr, OrderInv, TypeOK
    <2>7. Turned(order, offset, order')
      BY <1>4, <2>0, Moves DEF PutByIP
    <2>1. order' \in Seq(Offsets)
      BY <2>7 DEF Turned
    <2>2. TypeOK'
      BY <1>4, <2>1 DEF PutByIP, OrderInv, TypeOK
    <2>3. InOrder'
      <3> SUFFICES ASSUME NEW i \in Offsets, byIP'[i] # None
                   PROVE \E k \in 1 .. Len(order') : order'[k] = i
        BY DEF InOrder
      <3>1. CASE i = offset
        BY <2>7, <3>1 DEF Turned
      <3>2. CASE i # offset
        <4>1. PICK j \in 1 .. Len(order) : order[j] = i
          BY <1>4, <3>2 DEF PutByIP, OrderInv, InOrder, TypeOK
        <4> QED
          BY <2>7, <4>1 DEF Turned
      <3> QED
        BY <3>1, <3>2
    <2>4. ASSUME ~raced', ~stale' PROVE Rotation'
      <3>1. Rotation /\ offset \in Addrs
        BY <1>4, <2>4 DEF PutByIP, OrderInv, IInv, Handing
      <3>2. NextAddr' = Succ(offset) /\ offset' = offset
        BY <1>0, <1>4 DEF PutByIP, NextAddr, Getting, OrderInv, TypeOK, Succ, Wraps
      <3>3. First \in Int /\ Last \in Int /\ offset \in Int /\ offset >= First /\ offset < Last
        BY <3>1 DEF Addrs
      <3>4. CASE Len(order) < Count
        <4>1. \A j \in 1 .. Len(order) : order[j] # offset
          BY <2>0, <3>1, <3>3, <3>4 DEF Rotation, Place, Count
        <4>2. order' = Append(order, offset)
          BY <2>7, <4>1 DEF Turned
        <4>3. /\ Len(order') = Len(order) + 1 /\ order'[Len(order) + 1] = offset
              /\ \A k \in 1 .. Len(order) : order'[k] = order[k]
          BY <2>0, <4>2
        <4>4. ASSUME NEW k \in 1 .. Len(order) + 1
              PROVE order'[k] = Place(Succ(offset), Len(order) + 1, k)
          <5>1. CASE k = Len(order) + 1
            BY <2>0, <3>3, <4>3, <5>1 DEF Place, Succ, Wraps, Count
          <5>2. CASE k # Len(order) + 1
            <6>1. order'[k] = Place(offset, Len(order), k)
              BY <2>0, <3>1, <4>3, <5>2 DEF Rotation
            <6> QED
              BY <2>0, <3>3, <3>4, <5>2, <6>1 DEF Place, Succ, Wraps, Count
          <5> QED
            BY <5>1, <5>2
        <4> QED
          BY <2>0, <3>2, <3>3, <3>4, <4>3, <4>4 DEF Rotation, Count
      <3>5. CASE Len(order) = Count
        <4>1. Len(order) > 0 /\ order[1] = offset
          BY <2>0, <3>1, <3>3, <3>5 DEF Rotation, Place, Count
        <4>2. /\ Len(order') = Len(order) /\ order'[Len(order)] = offset
              /\ \A k \in 1 .. Len(order) - 1 : order'[k] = order[k + 1]
          BY <2>7, <4>1 DEF Turned
        <4>3. ASSUME NEW k \in 1 .. Len(order)
              PROVE order'[k] = Place(Succ(offset), Len(order), k)
          <5>1. CASE k = Len(order)
            BY <2>0, <3>3, <3>5, <4>2, <5>1 DEF Place, Succ, Wraps, Count
          <5>2. CASE k # Len(order)
            <6>1. order'[k] = Place(offset, Len(order), k + 1)
              BY <2>0, <3>1, <4>2, <5>2 DEF Rotation
            <6> QED
              BY <2>0, <3>3, <3>5, <5>2, <6>1 DEF Place, Succ, Wraps, Count
          <5> QED
            BY <5>1, <5>2
        <4> QED
          BY <2>0, <3>2, <3>3, <3>5, <4>2, <4>3 DEF Rotation, Count
      <3> QED
        BY <2>0, <3>1, <3>3, <3>4, <3>5 DEF Rotation, Count
    <2> QED
      BY <2>2, <2>3, <2>4 DEF OrderInv
  <1>5. CASE GetReturns(t)
    <2>1. TypeOK'
      BY <1>5 DEF GetReturns, OrderInv, TypeOK
    <2>2. NextAddr' = NextAddr
      BY <1>5 DEF GetReturns, NextAddr, OrderInv, TypeOK, Succ, Wraps
    <2> QED
      BY <1>5, <2>1, <2>2, OrderSame DEF GetReturns
  <1>6. CASE PutByHost(t)
    <2>1. TypeOK'
      BY <1>6 DEF PutByHost, OrderInv, TypeOK
    <2>2. NextAddr' = NextAddr
      BY <1>6 DEF PutByHost, NextAddr, OrderInv, TypeOK, Succ, Wraps
    <2> QED
      BY <1>6, <2>1, <2>2, OrderSame DEF PutByHost
  <1> QED
    BY <1>1, <1>2, <1>3, <1>4, <1>5, <1>6 DEF LookupStep

LEMMA OthersKeepOrder ==
  ASSUME IInv, OrderInv,
         FlushStore \/ FlushPlace \/ StoreOffset \/ StoreCycle \/ Restart \/ UNCHANGED vars
  PROVE OrderInv'
  <1> USE NoneApart, PoolAssumption DEF records, saved, place, thread, unlocked, history
  <1>0. First - 1 \in Offsets /\ First \in Offsets /\ order \in Seq(Offsets)
    BY DEF Offsets, OrderInv, TypeOK
  <1>1. CASE FlushStore
    <2>0. order' \in Seq(Offsets)
      BY <1>1 DEF FlushStore, Flushed
    <2>1. TypeOK'
      BY <1>1, <2>0 DEF FlushStore, Flushed, Race, OrderInv, TypeOK
    <2> QED
      BY <1>1, <2>1, OrderEmpty DEF FlushStore, Flushed
  <1>2. CASE FlushPlace
    <2>1. TypeOK'
      BY <1>0, <1>2 DEF FlushPlace, Race, OrderInv, TypeOK
    <2>2. InOrder'
      BY <1>2 DEF FlushPlace, OrderInv, InOrder
    <2>3. ~stale' => Rotation'
      <3>1. ~stale' => Len(order') = 0
        BY <1>2 DEF FlushPlace
      <3> QED
        BY <3>1 DEF Rotation, Count
    <2> QED
      BY <2>1, <2>2, <2>3 DEF OrderInv
  <1>3. CASE StoreOffset
    <2>1. TypeOK' /\ NextAddr' = NextAddr
      BY <1>3 DEF StoreOffset, OrderInv, TypeOK, NextAddr, Succ, Wraps
    <2> QED
      BY <1>3, <2>1, OrderSame DEF StoreOffset
  <1>4. CASE StoreCycle
    <2>1. TypeOK' /\ NextAddr' = NextAddr
      BY <1>4 DEF StoreCycle, OrderInv, TypeOK, NextAddr, Succ, Wraps
    <2> QED
      BY <1>4, <2>1, OrderSame DEF StoreCycle
  <1>5. CASE Restart
    <2>0. NextAddr' = Succ(offset)'
      BY <1>5 DEF Restart, NextAddr
    <2>1. CASE order' = <<>> /\ \A i \in Offsets : byIP'[i] = None
      <3>0. order' \in Seq(Offsets)
        BY <2>1
      <3>1. TypeOK'
        BY <1>0, <1>5, <3>0 DEF Restart, Flushed, RestoredOffset, OrderInv, TypeOK
      <3> QED
        BY <2>1, <3>1, OrderEmpty
    <2>2. CASE UNCHANGED <<records, saved, order>>
      <3>1. TypeOK'
        BY <1>0, <1>5, <2>2 DEF Restart, RestoredOffset, OrderInv, TypeOK
      <3>2. InOrder'
        BY <2>2 DEF OrderInv, InOrder
      <3>3. ASSUME ~raced', ~stale' PROVE Rotation'
        <4>1. CASE order = <<>>
          BY <2>2, <4>1, Len(order') = 0 DEF Rotation, Count
        <4>2. CASE order # <<>>
          <5>1. ~raced /\ ~stale /\ offset' = order[Len(order)]
            BY <1>5, <2>2, <3>3, <4>2 DEF Restart, RestoredOffset, Flushed
          <5>2. Len(order) \in Nat /\ Len(order) > 0
            BY <1>0, <4>2
          <5>3. NextAddr \in Addrs
            BY <5>1 DEF NextAddr, IInv, Handing, OrderInv, TypeOK, Succ, Wraps, Addrs, Offsets
          <5>4. order[Len(order)] = Place(NextAddr, Len(order), Len(order))
            BY <5>1, <5>2 DEF OrderInv, Rotation
          <5>5. Succ(order[Len(order)]) = NextAddr
            BY <5>2, <5>3, <5>4 DEF Place, Succ, Wraps, Count, Addrs
          <5> QED
            BY <2>0, <2>2, <5>1, <5>5 DEF OrderInv, Rotation, Succ, Wraps
        <4> QED
          BY <4>1, <4>2
      <3> QED
        BY <3>1, <3>2, <3>3 DEF OrderInv
    <2> QED
      BY <1>5, <2>1, <2>2 DEF Restart, Flushed
  <1>6. CASE UNCHANGED vars
    BY <1>6 DEF vars, OrderInv, TypeOK, InOrder, Rotation, NextAddr, Succ, Wraps
  <1> QED
    BY <1>1, <1>2, <1>3, <1>4, <1>5, <1>6

LEMMA OrderInvariance == Spec => [](IInv /\ OrderInv)
  <1>1. IInv /\ OrderInv /\ [Next]_vars => OrderInv'
    BY LookupKeepsOrder, OthersKeepOrder DEF Next
  <1> QED
    BY PoolInvariance, InitOrder, <1>1, PTL DEF Spec

\* Every variable of the pool keeps its type.
THEOREM TypeCorrect == Spec => []TypeOK
  <1>1. OrderInv => TypeOK
    BY DEF OrderInv
  <1> QED
    BY OrderInvariance, <1>1, PTL

\* The address that get() takes from its owner is the one handed out the longest
\* time ago, for pools of every size and across shutdowns.
THEOREM OldestFirst == Spec => OldestReusedFirst
  <1>1. ASSUME IInv, OrderInv, NEW t \in Lookups, Reuse(t), ~raced, ~stale, byIP[offset] # None
        PROVE offset = Head(order)
    <2>1. offset \in Addrs /\ NextAddr = offset /\ Rotation /\ order \in Seq(Offsets)
      BY <1>1 DEF IInv, Handing, Reuse, NextAddr, OrderInv, TypeOK
    <2>2. PICK k \in 1 .. Len(order) : order[k] = offset
      BY <1>1, <2>1, NoneApart DEF OrderInv, InOrder
    <2>3. order[1] = offset /\ order # <<>>
      BY <2>1, <2>2, PoolAssumption DEF Rotation, Place, Count, Addrs
    <2> QED
      BY <2>1, <2>3
  <1>2. IInv /\ OrderInv => [\A t \in Lookups :
          Reuse(t) /\ ~raced /\ ~stale /\ byIP[offset] # None => offset = Head(order)]_vars
    BY <1>1
  <1> QED
    BY OrderInvariance, <1>2, PTL DEF OldestReusedFirst
=============================================================================
