--------------------------- MODULE TunHandlerProofs ---------------------------
(***************************************************************************)
(* Theorems about TunHandler, for any number of operations and dialers and *)
(* any semaphore weight: type correctness, and the safety of the Java      *)
(* callback.                                                               *)
(***************************************************************************)
EXTENDS TunHandler, SequenceTheorems, TLAPS

USE LimitAssumption, ThreadAssumption

-----------------------------------------------------------------------------
(***************************************************************************)
(* The inductive invariant, in named parts.                                *)
(***************************************************************************)

\* The handler a thread works on: the global one for an operation, which holds
\* tunLock, and the one it has loaded for a dialer.
Work == [t \in Threads |-> IF t \in Ops THEN tunHandler ELSE target[t]]

\* TypeOK without the holder of tunLock, which LockInv states.
Types ==
  /\ pc \in [Threads -> OpPCs \cup DialPCs]
  /\ \A o \in Ops : pc[o] \in OpPCs
  /\ \A d \in Dialers : pc[d] \in DialPCs
  /\ kind \in [Ops -> Kinds]
  /\ tunLock \in Ops \cup {None}
  /\ tunHandler \in Ops \cup {None}
  /\ runTime \in Ops \cup {None}
  /\ hook \in BOOLEAN
  /\ listener \in [Ops -> BOOLEAN]
  /\ callback \in [Ops -> BOOLEAN]
  /\ holders \in [Ops -> SUBSET Threads]
  /\ waiters \in [Ops -> Seq(Threads)]
  /\ target \in [Dialers -> Ops \cup {None}]
  /\ released \in [Ops -> Nat]
  /\ seen \in [Ops -> Ops \cup {None}]

LockInv == \A o \in Ops : pc[o] \in LockedPCs => tunLock = o

HandlerInv ==
  /\ \A o \in Ops : pc[o] \in {"acquire", "wait", "close", "free"} =>
       tunHandler # None
  /\ \A d \in Dialers :
       /\ pc[d] = "hooked" => tunHandler # None
       /\ pc[d] \in {"acquire", "wait", "held", "using"} => target[d] # None

QueueInv == \A h \in Ops :
  /\ \A i \in 1..Len(waiters[h]) :
       pc[waiters[h][i]] = "wait" /\ Work[waiters[h][i]] = h
  /\ \A i, j \in 1..Len(waiters[h]) : i # j => waiters[h][i] # waiters[h][j]

HoldInv == \A t \in Threads :
  pc[t] \in {"close", "free", "held", "using"} => t \in holders[Work[t]]

ExclusionInv == \A h \in Ops : \A o \in holders[h] \cap Ops : holders[h] = {o}

SyncInv == Types /\ LockInv /\ HandlerInv /\ QueueInv /\ HoldInv /\ ExclusionInv

-----------------------------------------------------------------------------
(***************************************************************************)
(* The semaphore.                                                          *)
(***************************************************************************)

\* The queue of a semaphore is a sequence of threads.
LEMMA QueueType ==
  ASSUME Types, NEW h \in Ops
  PROVE  /\ Len(waiters[h]) \in Nat
         /\ \A i \in 1..Len(waiters[h]) : waiters[h][i] \in Threads
<1>1. waiters[h] \in Seq(Threads)
  BY DEF Types
<1>2. QED
  BY <1>1, ElementOfSeq, LenProperties

\* Acquire either grants its caller, exclusively if it is an operation, or
\* appends it to the queue.
LEMMA AcquireEffect ==
  ASSUME Types, NEW h \in Ops, NEW t \in Threads, Acquire(h, t)
  PROVE  \/ /\ pc' = [pc EXCEPT ![t] = Granted(t)]
            /\ holders' = [holders EXCEPT ![h] = @ \cup {t}]
            /\ waiters' = waiters
            /\ \A o \in holders'[h] \cap Ops : holders'[h] = {o}
         \/ /\ pc' = [pc EXCEPT ![t] = "wait"]
            /\ holders' = holders
            /\ waiters' \in [Ops -> Seq(Threads)]
            /\ \A g \in Ops \ {h} : waiters'[g] = waiters[g]
            /\ Len(waiters'[h]) = Len(waiters[h]) + 1
            /\ \A i \in 1..Len(waiters[h]) : waiters'[h][i] = waiters[h][i]
            /\ waiters'[h][Len(waiters[h]) + 1] = t
<1>1. waiters[h] \in Seq(Threads) /\ holders \in [Ops -> SUBSET Threads]
      /\ waiters \in [Ops -> Seq(Threads)]
  BY DEF Types
<1>2. CASE /\ Fits(holders[h] \cup {t})
           /\ holders' = [holders EXCEPT ![h] = @ \cup {t}]
           /\ pc' = [pc EXCEPT ![t] = Granted(t)]
           /\ UNCHANGED waiters
  BY <1>1, <1>2 DEF Fits
<1>3. CASE /\ waiters' = [waiters EXCEPT ![h] = Append(@, t)]
           /\ pc' = [pc EXCEPT ![t] = "wait"]
           /\ UNCHANGED holders
  <2>1. waiters'[h] = Append(waiters[h], t)
    BY <1>1, <1>3
  <2>2. /\ Append(waiters[h], t) \in Seq(Threads)
        /\ Len(Append(waiters[h], t)) = Len(waiters[h]) + 1
        /\ \A i \in 1..Len(waiters[h]) : Append(waiters[h], t)[i] = waiters[h][i]
        /\ Append(waiters[h], t)[Len(waiters[h]) + 1] = t
    BY <1>1, AppendProperties
  <2>3. QED
    BY <1>1, <1>3, <2>1, <2>2
<1>4. QED
  BY <1>2, <1>3 DEF Acquire

\* t has given its units of h back and the first k waiters have got theirs.
HandsOver(h, t, next, k) ==
  /\ Front(h, k) \subseteq Threads
  /\ holders' = [holders EXCEPT ![h] = (@ \ {t}) \cup Front(h, k)]
  /\ \A o \in holders'[h] \cap Ops : holders'[h] = {o}
  /\ pc' = [u \in Threads |-> IF u \in Front(h, k) THEN Granted(u)
                              ELSE IF u = t THEN next ELSE pc[u]]
  /\ waiters' \in [Ops -> Seq(Threads)]
  /\ \A g \in Ops \ {h} : waiters'[g] = waiters[g]
  /\ Len(waiters'[h]) = Len(waiters[h]) - k
  /\ \A i \in 1..Len(waiters'[h]) : waiters'[h][i] = waiters[h][k + i]

\* Release removes its caller, hands over to a prefix of the queue and keeps
\* the rest of the queue in order.
LEMMA ReleaseEffect ==
  ASSUME Types, NEW h \in Ops, NEW t \in Threads, NEW next, Release(h, t, next)
  PROVE  \E k \in 0..Len(waiters[h]) : HandsOver(h, t, next, k)
<1>1. /\ waiters[h] \in Seq(Threads) /\ holders \in [Ops -> SUBSET Threads]
      /\ waiters \in [Ops -> Seq(Threads)]
  BY DEF Types
<1>2. PICK k \in 0..Len(waiters[h]) :
        /\ Fits((holders[h] \ {t}) \cup Front(h, k))
        /\ holders' = [holders EXCEPT ![h] = (holders[h] \ {t}) \cup Front(h, k)]
        /\ waiters' = [waiters EXCEPT ![h] = SubSeq(@, k + 1, Len(@))]
        /\ pc' = [u \in Threads |-> IF u \in Front(h, k) THEN Granted(u)
                                    ELSE IF u = t THEN next ELSE pc[u]]
  BY DEF Release
<1>3. Len(waiters[h]) \in Nat /\ \A i \in 1..Len(waiters[h]) : waiters[h][i] \in Threads
  BY QueueType
<1>4. Front(h, k) \subseteq Threads
  BY <1>3 DEF Front
<1>5. \A o \in holders'[h] \cap Ops : holders'[h] = {o}
  BY <1>1, <1>2 DEF Fits
<1>6. waiters'[h] = SubSeq(waiters[h], k + 1, Len(waiters[h]))
  BY <1>1, <1>2
<1>7. /\ waiters'[h] \in Seq(Threads)
      /\ Len(waiters'[h]) = Len(waiters[h]) - k
      /\ \A i \in 1..Len(waiters'[h]) : waiters'[h][i] = waiters[h][k + i]
  <2>1. \A i \in (k + 1)..Len(waiters[h]) : waiters[h][i] \in Threads
    BY <1>3
  <2>2. /\ SubSeq(waiters[h], k + 1, Len(waiters[h])) \in Seq(Threads)
        /\ Len(SubSeq(waiters[h], k + 1, Len(waiters[h]))) =
             IF k + 1 <= Len(waiters[h]) THEN Len(waiters[h]) - (k + 1) + 1 ELSE 0
        /\ \A i \in 1..(Len(waiters[h]) - (k + 1) + 1) :
             SubSeq(waiters[h], k + 1, Len(waiters[h]))[i] = waiters[h][(k + 1) + i - 1]
    <3>1. k + 1 \in Int /\ Len(waiters[h]) \in Int
      BY <1>3
    <3>2. QED
      BY <3>1, <2>1, SubSeqProperties
  <2>3. QED
    BY <1>3, <1>6, <2>2
<1>8. \A g \in Ops \ {h} : waiters'[g] = waiters[g]
  BY <1>1, <1>2
<1>9. waiters' \in [Ops -> Seq(Threads)]
  BY <1>1, <1>2, <1>6, <1>7
<1>10. QED
  BY <1>1, <1>2, <1>4, <1>5, <1>7, <1>8, <1>9 DEF HandsOver

-----------------------------------------------------------------------------
(***************************************************************************)
(* The synchronisation invariant.                                          *)
(***************************************************************************)

\* A step of thread t that leaves the semaphores alone and does not move t to
\* or from a place at a semaphore keeps the queues and the holders right.
LEMMA QuietStep ==
  ASSUME SyncInv, Types', NEW t \in Threads, NEW x,
         pc' = [pc EXCEPT ![t] = x], UNCHANGED lockVars,
         pc[t] # "wait",
         x \in {"close", "free", "held", "using"} =>
           pc[t] \in {"close", "free", "held", "using"} /\ Work'[t] = Work[t],
         \A u \in Threads \ {t} :
           pc[u] \in {"wait", "close", "free", "held", "using"} =>
             Work'[u] = Work[u]
  PROVE  QueueInv' /\ HoldInv' /\ ExclusionInv'
<1>1. QueueInv'
  <2> SUFFICES ASSUME NEW h \in Ops
               PROVE  /\ \A i \in 1..Len(waiters[h]) :
                           pc'[waiters[h][i]] = "wait" /\ Work'[waiters[h][i]] = h
                      /\ \A i, j \in 1..Len(waiters[h]) :
                           i # j => waiters[h][i] # waiters[h][j]
    BY DEF QueueInv, lockVars, Work
  <2>1. /\ \A i \in 1..Len(waiters[h]) :
              pc[waiters[h][i]] = "wait" /\ Work[waiters[h][i]] = h
        /\ \A i, j \in 1..Len(waiters[h]) : i # j => waiters[h][i] # waiters[h][j]
    BY DEF SyncInv, QueueInv
  <2>2. \A i \in 1..Len(waiters[h]) : waiters[h][i] \in Threads \ {t}
    BY <2>1, QueueType DEF SyncInv
  <2>3. QED
    BY <2>1, <2>2 DEF SyncInv, Types
<1>2. HoldInv'
  BY DEF SyncInv, HoldInv, Types, lockVars
<1>3. ExclusionInv'
  BY DEF SyncInv, ExclusionInv, lockVars
<1>4. QED
  BY <1>1, <1>2, <1>3

\* Taking units, or queueing for them, keeps the queues and the holders right.
LEMMA AcquireStep ==
  ASSUME SyncInv, NEW t \in Threads, pc[t] = "acquire", Work[t] \in Ops,
         Acquire(Work[t], t), UNCHANGED <<tunHandler, target>>
  PROVE  QueueInv' /\ HoldInv' /\ ExclusionInv'
<1>0. PICK h \in Ops : h = Work[t]
  OBVIOUS
<1>1. /\ Types /\ QueueInv /\ HoldInv /\ ExclusionInv
      /\ pc \in [Threads -> OpPCs \cup DialPCs]
      /\ holders \in [Ops -> SUBSET Threads]
  BY DEF SyncInv, Types
<1>2. /\ Work'[t] = Work[t]
      /\ \A u \in Threads : Work'[u] = Work[u]
  BY DEF Work
<1>3. \A g \in Ops : /\ Len(waiters[g]) \in Nat
                     /\ \A i \in 1..Len(waiters[g]) : waiters[g][i] \in Threads \ {t}
  BY <1>1, QueueType DEF QueueInv
<1>4. CASE /\ pc' = [pc EXCEPT ![t] = Granted(t)]
           /\ holders' = [holders EXCEPT ![h] = @ \cup {t}]
           /\ waiters' = waiters
           /\ \A o \in holders'[h] \cap Ops : holders'[h] = {o}
  <2>1. QueueInv'
    <3> SUFFICES ASSUME NEW g \in Ops
                 PROVE  /\ \A i \in 1..Len(waiters[g]) :
                             pc'[waiters[g][i]] = "wait" /\ Work'[waiters[g][i]] = g
                        /\ \A i, j \in 1..Len(waiters[g]) :
                             i # j => waiters[g][i] # waiters[g][j]
      BY <1>4 DEF QueueInv, Work
    <3> QED
      BY <1>1, <1>2, <1>3, <1>4 DEF QueueInv
  <2>2. HoldInv'
    BY <1>0, <1>1, <1>2, <1>4 DEF HoldInv
  <2>3. ExclusionInv'
    BY <1>1, <1>4 DEF ExclusionInv
  <2>4. QED
    BY <2>1, <2>2, <2>3
<1>5. CASE /\ pc' = [pc EXCEPT ![t] = "wait"]
           /\ holders' = holders
           /\ waiters' \in [Ops -> Seq(Threads)]
           /\ \A g \in Ops \ {h} : waiters'[g] = waiters[g]
           /\ Len(waiters'[h]) = Len(waiters[h]) + 1
           /\ \A i \in 1..Len(waiters[h]) : waiters'[h][i] = waiters[h][i]
           /\ waiters'[h][Len(waiters[h]) + 1] = t
  <2>1. QueueInv'
    <3> SUFFICES ASSUME NEW g \in Ops
                 PROVE  /\ \A i \in 1..Len(waiters'[g]) :
                             pc'[waiters'[g][i]] = "wait" /\ Work'[waiters'[g][i]] = g
                        /\ \A i, j \in 1..Len(waiters'[g]) :
                             i # j => waiters'[g][i] # waiters'[g][j]
      BY DEF QueueInv, Work
    <3>1. CASE g # h
      <4>1. \A i \in 1..Len(waiters[g]) :
              /\ waiters[g][i] \in Threads \ {t}
              /\ pc[waiters[g][i]] = "wait"
              /\ Work[waiters[g][i]] = g
        BY <1>1, <1>3 DEF QueueInv
      <4>2. \A i, j \in 1..Len(waiters[g]) : i # j => waiters[g][i] # waiters[g][j]
        BY <1>1 DEF QueueInv
      <4>3. waiters'[g] = waiters[g]
        BY <1>5, <3>1
      <4>4. \A i \in 1..Len(waiters[g]) : pc'[waiters[g][i]] = "wait"
        BY <4>1, <1>1, <1>5
      <4>5. QED
        BY <4>1, <4>2, <4>3, <4>4, <1>2
    <3>2. CASE g = h
      <4>0. \A i \in 1..Len(waiters[h]) :
              /\ waiters[h][i] \in Threads \ {t}
              /\ pc[waiters[h][i]] = "wait"
              /\ Work[waiters[h][i]] = h
        BY <1>1, <1>3 DEF QueueInv
      <4>1. \A i \in 1..Len(waiters'[h]) :
              i \in 1..Len(waiters[h]) \/ i = Len(waiters[h]) + 1
        BY <1>3, <1>5
      <4>2. \A i \in 1..Len(waiters'[h]) : pc'[waiters'[h][i]] = "wait"
        BY <4>0, <4>1, <1>1, <1>5
      <4>3. \A i \in 1..Len(waiters'[h]) : Work[waiters'[h][i]] = h
        BY <4>0, <4>1, <1>0, <1>5
      <4>4. \A i \in 1..Len(waiters'[h]) : waiters'[h][i] \in Threads
        BY <4>1, <1>3, <1>5
      <4>5. \A i, j \in 1..Len(waiters'[h]) : i # j => waiters'[h][i] # waiters'[h][j]
        <5> SUFFICES ASSUME NEW i \in 1..Len(waiters'[h]), NEW j \in 1..Len(waiters'[h]),
                            i # j
                     PROVE  waiters'[h][i] # waiters'[h][j]
          OBVIOUS
        <5>1. CASE i \in 1..Len(waiters[h]) /\ j \in 1..Len(waiters[h])
          <6>1. waiters[h][i] # waiters[h][j]
            BY <5>1, <1>1 DEF QueueInv
          <6>2. QED
            BY <5>1, <6>1, <1>5
        <5>2. CASE i = Len(waiters[h]) + 1 /\ j \in 1..Len(waiters[h])
          BY <5>2, <4>0, <1>5
        <5>3. CASE j = Len(waiters[h]) + 1 /\ i \in 1..Len(waiters[h])
          BY <5>3, <4>0, <1>5
        <5>4. QED
          BY <5>1, <5>2, <5>3, <4>1
      <4>6. \A i \in 1..Len(waiters'[h]) : Work'[waiters'[h][i]] = h
        BY <4>3, <4>4, <1>2
      <4>7. QED
        BY <3>2, <4>2, <4>5, <4>6
    <3>3. QED
      BY <3>1, <3>2
  <2>2. HoldInv'
    BY <1>1, <1>2, <1>5 DEF HoldInv
  <2>3. ExclusionInv'
    BY <1>1, <1>5 DEF ExclusionInv
  <2>4. QED
    BY <2>1, <2>2, <2>3
<1>6. QED
  BY <1>0, <1>1, <1>4, <1>5, AcquireEffect

\* Giving units back, and waking the front of the queue, likewise.
LEMMA ReleaseStep ==
  ASSUME SyncInv, NEW t \in Threads, NEW next \in {"stopped", "idle"},
         pc[t] \in {"free", "held", "using"}, Work[t] \in Ops,
         Release(Work[t], t, next), UNCHANGED <<tunHandler, target>>
  PROVE  QueueInv' /\ HoldInv' /\ ExclusionInv'
<1>0. PICK h \in Ops : h = Work[t]
  OBVIOUS
<1>1. /\ Types /\ QueueInv /\ HoldInv /\ ExclusionInv
      /\ pc \in [Threads -> OpPCs \cup DialPCs]
      /\ holders \in [Ops -> SUBSET Threads]
  BY DEF SyncInv, Types
<1>2. \A u \in Threads : Work'[u] = Work[u]
  BY DEF Work
<1>3. \A g \in Ops : /\ Len(waiters[g]) \in Nat
                     /\ \A i \in 1..Len(waiters[g]) : waiters[g][i] \in Threads \ {t}
  BY <1>1, QueueType DEF QueueInv
<1>4. PICK k \in 0..Len(waiters[h]) : HandsOver(h, t, next, k)
  <2>1. Release(h, t, next)
    BY <1>0
  <2>2. QED
    BY <1>1, <2>1, ReleaseEffect
<1> USE DEF HandsOver
<1>5. \A u \in Front(h, k) : u \in Threads /\ u # t /\ pc[u] = "wait" /\ Work[u] = h
  <2>1. \A i \in 1..k : i \in 1..Len(waiters[h])
    BY <1>3
  <2>2. QED
    BY <2>1, <1>1, <1>3 DEF QueueInv, Front
<1>6. QueueInv'
  <2> SUFFICES ASSUME NEW g \in Ops
               PROVE  /\ \A i \in 1..Len(waiters'[g]) :
                           pc'[waiters'[g][i]] = "wait" /\ Work'[waiters'[g][i]] = g
                      /\ \A i, j \in 1..Len(waiters'[g]) :
                           i # j => waiters'[g][i] # waiters'[g][j]
    BY DEF QueueInv, Work
  <2>1. CASE g # h
    <3>1. \A i \in 1..Len(waiters[g]) :
            /\ waiters[g][i] \in Threads \ {t}
            /\ pc[waiters[g][i]] = "wait"
            /\ Work[waiters[g][i]] = g
      BY <1>1, <1>3 DEF QueueInv
    <3>2. \A i \in 1..Len(waiters[g]) : waiters[g][i] \notin Front(h, k)
      BY <3>1, <1>5, <2>1
    <3>3. waiters'[g] = waiters[g]
      BY <1>4, <2>1
    <3>4. \A i, j \in 1..Len(waiters[g]) : i # j => waiters[g][i] # waiters[g][j]
      BY <1>1 DEF QueueInv
    <3>5. \A i \in 1..Len(waiters[g]) : pc'[waiters[g][i]] = "wait"
      BY <3>1, <3>2, <1>4
    <3>6. QED
      BY <3>1, <3>3, <3>4, <3>5, <1>2
  <2>2. CASE g = h
    <3>1. \A i \in 1..Len(waiters'[h]) : k + i \in 1..Len(waiters[h]) /\ k + i \notin 1..k
      BY <1>3, <1>4
    <3>2. \A i \in 1..Len(waiters'[h]) :
            /\ waiters'[h][i] \in Threads \ {t}
            /\ pc[waiters'[h][i]] = "wait"
            /\ Work[waiters'[h][i]] = h
      <4>1. \A j \in 1..Len(waiters[h]) :
              /\ waiters[h][j] \in Threads \ {t}
              /\ pc[waiters[h][j]] = "wait"
              /\ Work[waiters[h][j]] = h
        BY <1>1, <1>3 DEF QueueInv
      <4>2. QED
        <5> SUFFICES ASSUME NEW i \in 1..Len(waiters'[h])
                     PROVE  /\ waiters'[h][i] \in Threads \ {t}
                            /\ pc[waiters'[h][i]] = "wait"
                            /\ Work[waiters'[h][i]] = h
          OBVIOUS
        <5>1. waiters'[h][i] = waiters[h][k + i] /\ k + i \in 1..Len(waiters[h])
          BY <3>1, <1>4
        <5>2. QED
          BY <4>1, <5>1
    <3>3. \A i \in 1..Len(waiters'[h]) : waiters'[h][i] \notin Front(h, k)
      <4> SUFFICES ASSUME NEW i \in 1..Len(waiters'[h]), NEW j \in 1..k
                   PROVE  waiters'[h][i] # waiters[h][j]
        BY DEF Front
      <4>1. j \in 1..Len(waiters[h]) /\ k + i # j
        BY <3>1, <1>3
      <4>2. waiters[h][k + i] # waiters[h][j]
        BY <4>1, <3>1, <1>1 DEF QueueInv
      <4>3. QED
        BY <4>2, <1>4
    <3>4. \A i \in 1..Len(waiters'[h]) : pc'[waiters'[h][i]] = "wait"
      BY <3>2, <3>3, <1>4
    <3>5. \A i, j \in 1..Len(waiters'[h]) : i # j => waiters'[h][i] # waiters'[h][j]
      <4> SUFFICES ASSUME NEW i \in 1..Len(waiters'[h]), NEW j \in 1..Len(waiters'[h]),
                          i # j
                   PROVE  waiters'[h][i] # waiters'[h][j]
        OBVIOUS
      <4>1. k + i # k + j /\ k + i \in 1..Len(waiters[h]) /\ k + j \in 1..Len(waiters[h])
        BY <3>1, <1>3
      <4>2. waiters[h][k + i] # waiters[h][k + j]
        BY <4>1, <1>1 DEF QueueInv
      <4>3. waiters'[h][i] = waiters[h][k + i] /\ waiters'[h][j] = waiters[h][k + j]
        BY <1>4
      <4>4. QED
        BY <4>2, <4>3
    <3>6. QED
      BY <2>2, <3>2, <3>4, <3>5, <1>2
  <2>3. QED
    BY <2>1, <2>2
<1>7. HoldInv'
  <2> SUFFICES ASSUME NEW u \in Threads, pc'[u] \in {"close", "free", "held", "using"}
               PROVE  u \in holders'[Work[u]]
    BY <1>2 DEF HoldInv
  <2>1. CASE u \in Front(h, k)
    BY <2>1, <1>1, <1>4, <1>5
  <2>2. CASE u \notin Front(h, k)
    <3>1. u # t /\ pc[u] \in {"close", "free", "held", "using"}
      BY <2>2, <1>4
    <3>2. u \in holders[Work[u]]
      BY <3>1, <1>1 DEF HoldInv
    <3>3. QED
      BY <3>1, <3>2, <1>1, <1>4
  <2>3. QED
    BY <2>1, <2>2
<1>8. ExclusionInv'
  BY <1>1, <1>4 DEF ExclusionInv
<1>9. QED
  BY <1>6, <1>7, <1>8

\* The sets every step needs expanded.
USE DEF Threads, OpPCs, DialPCs, LockedPCs

\* A thread that calls Acquire, under the lock of close() or in the dial hook,
\* keeps the whole of SyncInv.
LEMMA AcquireBasics ==
  ASSUME SyncInv, NEW h \in Ops, NEW t \in Threads, pc[t] = "acquire",
         Acquire(h, t), h = Work[t],
         UNCHANGED <<kind, tunLock, tunHandler, runTime, hook, objectVars,
                     target, seen>>
  PROVE  SyncInv'
<1>1. Types /\ LockInv /\ HandlerInv
  BY DEF SyncInv
<1>2. PICK x \in {Granted(t), "wait"} : pc' = [pc EXCEPT ![t] = x]
  BY <1>1, AcquireEffect
<1>3. holders' \in [Ops -> SUBSET Threads] /\ waiters' \in [Ops -> Seq(Threads)]
  <2>1. holders \in [Ops -> SUBSET Threads] /\ waiters \in [Ops -> Seq(Threads)]
    BY <1>1 DEF Types
  <2> HIDE DEF Threads
  <2>2. \/ holders' = [holders EXCEPT ![h] = @ \cup {t}] /\ waiters' = waiters
        \/ holders' = holders /\ waiters' \in [Ops -> Seq(Threads)]
    BY <1>1, AcquireEffect
  <2>3. QED
    BY <2>1, <2>2
<1>4. Types'
  <2>1. /\ pc' \in [Threads -> OpPCs \cup DialPCs]
        /\ \A o \in Ops : pc'[o] \in OpPCs
        /\ \A d \in Dialers : pc'[d] \in DialPCs
    BY <1>1, <1>2 DEF Types, Granted
  <2>2. UNCHANGED <<kind, tunLock, tunHandler, runTime, hook, listener, callback,
                    released, target, seen>>
    BY DEF objectVars
  <2> HIDE DEF Threads, OpPCs, DialPCs
  <2>3. QED
    BY <1>1, <1>3, <2>1, <2>2 DEF Types
<1>5. LockInv' /\ HandlerInv'
  BY <1>1, <1>2 DEF LockInv, HandlerInv, Types, Granted
<1>6. QueueInv' /\ HoldInv' /\ ExclusionInv'
  BY AcquireStep
<1>7. QED
  BY <1>4, <1>5, <1>6 DEF SyncInv

\* A thread that calls Release, at the end of close() or of a dial, keeps the
\* whole of SyncInv.
LEMMA ReleaseBasics ==
  ASSUME SyncInv, NEW h \in Ops, NEW t \in Threads, NEW next,
         h = Work[t], Release(h, t, next),
         \/ t \in Ops /\ pc[t] = "free" /\ next = "stopped"
         \/ t \in Dialers /\ pc[t] \in {"held", "using"} /\ next = "idle",
         listener' \in [Ops -> BOOLEAN], callback' \in [Ops -> BOOLEAN],
         released' \in [Ops -> Nat],
         UNCHANGED <<kind, tunLock, tunHandler, runTime, hook, target, seen>>
  PROVE  SyncInv'
<1>1. Types /\ LockInv /\ HandlerInv /\ QueueInv
  BY DEF SyncInv
<1>2. PICK k \in 0..Len(waiters[h]) : HandsOver(h, t, next, k)
  BY <1>1, ReleaseEffect
<1>3. \A u \in Front(h, k) : pc[u] = "wait" /\ u \in Threads
  <2>1. \A i \in 1..k : i \in 1..Len(waiters[h])
    BY <1>1, QueueType
  <2>2. QED
    BY <2>1, <1>1, QueueType DEF QueueInv, Front
<1>4. \A u \in Threads :
        pc'[u] = IF u \in Front(h, k) THEN Granted(u) ELSE IF u = t THEN next ELSE pc[u]
  BY <1>2 DEF HandsOver
<1>5. Types'
  <2>1. pc' \in [Threads -> OpPCs \cup DialPCs]
    BY <1>1, <1>2 DEF HandsOver, Types, Granted
  <2>2. \A o \in Ops : pc'[o] \in OpPCs
    BY <1>1, <1>4 DEF Types, Granted
  <2>3. \A d \in Dialers : pc'[d] \in DialPCs
    BY <1>1, <1>4 DEF Types, Granted
  <2>4. holders' \in [Ops -> SUBSET Threads] /\ waiters' \in [Ops -> Seq(Threads)]
    <3> HIDE DEF Threads
    <3>1. holders \in [Ops -> SUBSET Threads]
      BY <1>1 DEF Types
    <3>2. /\ Front(h, k) \subseteq Threads
          /\ holders' = [holders EXCEPT ![h] = (@ \ {t}) \cup Front(h, k)]
          /\ waiters' \in [Ops -> Seq(Threads)]
      BY <1>2 DEF HandsOver
    <3>3. QED
      BY <3>1, <3>2
  <2>5. QED
    BY <1>1, <2>1, <2>2, <2>3, <2>4 DEF Types
<1>6. LockInv'
  BY <1>1, <1>3, <1>4 DEF LockInv, Granted
<1>7. HandlerInv'
  <2>1. \A o \in Ops : pc'[o] \in {"acquire", "wait", "close", "free"} => tunHandler # None
    BY <1>1, <1>3, <1>4 DEF HandlerInv, Granted
  <2>2. \A d \in Dialers : pc'[d] = "hooked" => tunHandler # None
    BY <1>1, <1>3, <1>4 DEF HandlerInv, Granted
  <2>3. \A d \in Dialers :
          pc'[d] \in {"acquire", "wait", "held", "using"} => target[d] # None
    BY <1>1, <1>3, <1>4 DEF HandlerInv, Granted
  <2>4. QED
    BY <2>1, <2>2, <2>3 DEF HandlerInv
<1>8. QueueInv' /\ HoldInv' /\ ExclusionInv'
  BY ReleaseStep
<1>9. QED
  BY <1>5, <1>6, <1>7, <1>8 DEF SyncInv

\* HookInv is what HandlerInv needs of a dial that enters the hook.
HookInv == hook => tunHandler # None

\* Every step of start, stop and dial keeps tunLock exclusive, the queues
\* faithful to who waits, and close() alone inside the semaphore.
LEMMA SyncNext == SyncInv /\ HookInv /\ [Next]_vars => SyncInv'
<1> SUFFICES ASSUME SyncInv, HookInv, [Next]_vars PROVE SyncInv'
  OBVIOUS
<1> USE DEF lockVars, objectVars
<1>1. Types /\ LockInv /\ HandlerInv
  BY DEF SyncInv
<1>2. ASSUME NEW o \in Ops, Spawn(o) PROVE SyncInv'
  <2>1. Types' /\ LockInv' /\ HandlerInv'
    BY <1>1, <1>2 DEF Spawn, Types, LockInv, HandlerInv
  <2>2. QueueInv' /\ HoldInv' /\ ExclusionInv'
    BY <2>1, <1>2, QuietStep DEF Spawn, Work
  <2>3. QED
    BY <2>1, <2>2 DEF SyncInv
<1>3. ASSUME NEW o \in Ops, StopLock(o) PROVE SyncInv'
  <2>1. Types' /\ LockInv' /\ HandlerInv'
    BY <1>1, <1>3 DEF StopLock, NeedsClose, NoTime, Types, LockInv, HandlerInv
  <2>2. QueueInv' /\ HoldInv' /\ ExclusionInv'
    BY <2>1, <1>3, QuietStep DEF StopLock, Work
  <2>3. QED
    BY <2>1, <2>2 DEF SyncInv
<1>4. ASSUME NEW o \in Ops, CloseAcquire(o) PROVE SyncInv'
  BY <1>1, <1>4, AcquireBasics DEF CloseAcquire, HandlerInv, Work, Types
<1>5. ASSUME NEW o \in Ops, CloseHook(o) PROVE SyncInv'
  <2>1. Types' /\ LockInv' /\ HandlerInv'
    BY <1>1, <1>5 DEF CloseHook, RemovedHook, Types, LockInv, HandlerInv
  <2>2. QueueInv' /\ HoldInv' /\ ExclusionInv'
    BY <2>1, <1>5, QuietStep DEF CloseHook, Work
  <2>3. QED
    BY <2>1, <2>2 DEF SyncInv
<1>6. ASSUME NEW o \in Ops, CloseFree(o) PROVE SyncInv'
  <2>1. tunHandler \in Ops /\ tunHandler = Work[o]
    BY <1>1, <1>6 DEF CloseFree, HandlerInv, Work, Types
  <2>2. /\ listener' \in [Ops -> BOOLEAN] /\ callback' \in [Ops -> BOOLEAN]
        /\ released' \in [Ops -> Nat]
    <3>1. /\ listener' = [listener EXCEPT ![tunHandler] = FALSE]
          /\ callback' = [callback EXCEPT ![tunHandler] = FALSE]
          /\ released' = [released EXCEPT ![tunHandler] =
                            IF callback[tunHandler] THEN @ + 1 ELSE @]
      BY <1>6 DEF CloseFree, CallbackCleared
    <3>2. \A i \in Nat : i + 1 \in Nat
      OBVIOUS
    <3>3. QED
      BY <3>1, <3>2, <2>1, <1>1 DEF Types
  <2>3. QED
    BY <2>1, <2>2, <1>6, ReleaseBasics DEF CloseFree
<1>7. ASSUME NEW o \in Ops, StopUnlock(o) PROVE SyncInv'
  <2>1. Types' /\ LockInv' /\ HandlerInv'
    BY <1>1, <1>7 DEF StopUnlock, Types, LockInv, HandlerInv
  <2>2. QueueInv' /\ HoldInv' /\ ExclusionInv'
    BY <2>1, <1>7, QuietStep DEF StopUnlock, Work
  <2>3. QED
    BY <2>1, <2>2 DEF SyncInv
<1>8. ASSUME NEW o \in Ops, StartLock(o) PROVE SyncInv'
  <2>1. Types' /\ LockInv' /\ HandlerInv'
    BY <1>1, <1>8 DEF StartLock, Types, LockInv, HandlerInv
  <2>2. QueueInv' /\ HoldInv' /\ ExclusionInv'
    BY <2>1, <1>8, QuietStep DEF StartLock, Work
  <2>3. QED
    BY <2>1, <2>2 DEF SyncInv
<1>9. ASSUME NEW o \in Ops, Install(o) PROVE SyncInv'
  <2>1. Types' /\ LockInv' /\ HandlerInv'
    BY <1>1, <1>9 DEF Install, Types, LockInv, HandlerInv
  <2>2. \A u \in Threads \ {o} :
          pc[u] \in {"wait", "close", "free", "held", "using"} => Work'[u] = Work[u]
    BY <1>1, <1>9 DEF Install, Work, LockInv, Types
  <2>3. QueueInv' /\ HoldInv' /\ ExclusionInv'
    BY <2>1, <2>2, <1>9, QuietStep DEF Install
  <2>4. QED
    BY <2>1, <2>3 DEF SyncInv
<1>10. ASSUME NEW o \in Ops, Listen(o) PROVE SyncInv'
  <2>1. Types' /\ LockInv' /\ HandlerInv'
    BY <1>1, <1>10 DEF Listen, RemovedHook, Types, LockInv, HandlerInv
  <2>2. QueueInv' /\ HoldInv' /\ ExclusionInv'
    BY <2>1, <1>10, QuietStep DEF Listen, Work
  <2>3. QED
    BY <2>1, <2>2 DEF SyncInv
<1>11. ASSUME NEW o \in Ops, StartUnlock(o) PROVE SyncInv'
  <2>1. Types' /\ LockInv' /\ HandlerInv'
    BY <1>1, <1>11 DEF StartUnlock, Types, LockInv, HandlerInv
  <2>2. QueueInv' /\ HoldInv' /\ ExclusionInv'
    BY <2>1, <1>11, QuietStep DEF StartUnlock, Work
  <2>3. QED
    BY <2>1, <2>2 DEF SyncInv
<1>12. ASSUME NEW d \in Dialers, Dial(d) \/ CallHook(d) \/ Resolve(d) PROVE SyncInv'
  <2>1. Types' /\ LockInv' /\ HandlerInv'
    <3>1. PICK x \in {"idle", "checked", "hooked", "panicked"} :
            /\ pc[d] \in {"idle", "checked"}
            /\ pc' = [pc EXCEPT ![d] = x]
            /\ x = "hooked" => hook
            /\ UNCHANGED <<kind, tunLock, tunHandler, runTime, hook, listener,
                           callback, released, holders, waiters, target, seen>>
      BY <1>12 DEF Dial, CallHook, Resolve
    <3>2. Types'
      BY <1>1, <3>1 DEF Types
    <3>3. LockInv' /\ HandlerInv'
      BY <1>1, <3>1 DEF Types, LockInv, HandlerInv, HookInv
    <3>4. QED
      BY <3>2, <3>3
  <2>2. QueueInv' /\ HoldInv' /\ ExclusionInv'
    BY <2>1, <1>12, QuietStep DEF Dial, CallHook, Resolve, Work
  <2>3. QED
    BY <2>1, <2>2 DEF SyncInv
<1>13. ASSUME NEW d \in Dialers, LoadHandler(d) PROVE SyncInv'
  <2>1. Types' /\ LockInv' /\ HandlerInv'
    BY <1>1, <1>13 DEF LoadHandler, Types, LockInv, HandlerInv
  <2>2. \A u \in Threads \ {d} : Work'[u] = Work[u]
    BY <1>1, <1>13 DEF LoadHandler, Work, Types
  <2>3. QueueInv' /\ HoldInv' /\ ExclusionInv'
    BY <2>1, <2>2, <1>13, QuietStep DEF LoadHandler
  <2>4. QED
    BY <2>1, <2>3 DEF SyncInv
<1>14. ASSUME NEW d \in Dialers, DialAcquire(d) PROVE SyncInv'
  BY <1>1, <1>14, AcquireBasics DEF DialAcquire, HandlerInv, Work, Types
<1>15. ASSUME NEW d \in Dialers, DialSkip(d) \/ DialReturn(d) PROVE SyncInv'
  <2>1. target[d] \in Ops /\ target[d] = Work[d]
    BY <1>1, <1>15 DEF DialSkip, DialReturn, HandlerInv, Work, Types
  <2>2. QED
    <3>1. /\ Release(target[d], d, "idle")
          /\ pc[d] \in {"held", "using"}
          /\ UNCHANGED <<kind, tunLock, tunHandler, runTime, hook, target, seen>>
          /\ UNCHANGED <<listener, callback, released>>
      BY <1>15 DEF DialSkip, DialReturn
    <3>2. /\ listener' \in [Ops -> BOOLEAN] /\ callback' \in [Ops -> BOOLEAN]
          /\ released' \in [Ops -> Nat]
      BY <3>1, <1>1 DEF Types
    <3>3. QED
      BY <2>1, <3>1, <3>2, ReleaseBasics
<1>16. ASSUME NEW d \in Dialers, DialUse(d) PROVE SyncInv'
  <2>1. Types' /\ LockInv' /\ HandlerInv'
    BY <1>1, <1>16 DEF DialUse, Types, LockInv, HandlerInv
  <2>2. QueueInv' /\ HoldInv' /\ ExclusionInv'
    BY <2>1, <1>16, QuietStep DEF DialUse, Work
  <2>3. QED
    BY <2>1, <2>2 DEF SyncInv
<1>17. CASE UNCHANGED vars
  <2>1. Types' /\ LockInv' /\ HandlerInv'
    BY <1>1, <1>17 DEF vars, Types, LockInv, HandlerInv
  <2>2. QueueInv' /\ HoldInv' /\ ExclusionInv'
    <3>1. Work' = Work /\ pc' = pc /\ waiters' = waiters /\ holders' = holders
      BY <1>17 DEF vars, Work
    <3>2. QED
      BY <3>1 DEF SyncInv, QueueInv, HoldInv, ExclusionInv
  <2>3. QED
    BY <2>1, <2>2 DEF SyncInv
<1>18. QED
  BY <1>2, <1>3, <1>4, <1>5, <1>6, <1>7, <1>8, <1>9, <1>10, <1>11, <1>12, <1>13,
     <1>14, <1>15, <1>16, <1>17 DEF Next, OpStep, DialStep

-----------------------------------------------------------------------------
(***************************************************************************)
(* The objects: who owns a callback, and when it is freed.                 *)
(***************************************************************************)

\* An operation has created its handler.
Created == {"listen", "started", "done"}

FreshInv == \A o \in Ops :
  /\ pc[o] \notin Created => ~callback[o] /\ released[o] = 0
  /\ pc[o] = "listen" => tunHandler = o /\ callback[o]

OwnInv == \A h \in Ops :
  /\ listener[h] => callback[h]
  /\ callback[h] => released[h] = 0
  /\ released[h] =< 1

UseInv == \A d \in Dialers : pc[d] = "using" => listener[target[d]]

\* What holds at the places of an operation that owns tunLock.
PhaseInv == \A o \in Ops :
  /\ pc[o] = "free" => ~hook
  /\ pc[o] = "stopped" => ~hook /\ (tunHandler # None => ~callback[tunHandler])
  /\ pc[o] \in {"install", "listen", "started"} => runTime # None

SeenInv ==
  /\ tunHandler # None => pc[tunHandler] \in Created
  /\ \A o \in Ops : seen[o] # None => pc[seen[o]] \in Created
  /\ \A o \in Ops : pc[o] \in {"start", "install"} /\ seen[o] # None =>
       ~callback[seen[o]]

ObjectInv == /\ FreshInv /\ OwnInv /\ UseInv /\ PhaseInv /\ SeenInv
             /\ HookBacked /\ StoppedMeansClosed

IInv == SyncInv /\ ObjectInv

\* Acquire moves its caller only.
LEMMA AcquireMoves ==
  ASSUME Types, NEW h \in Ops, NEW t \in Threads, Acquire(h, t)
  PROVE  /\ pc'[t] \in {Granted(t), "wait"}
         /\ \A u \in Threads \ {t} : pc'[u] = pc[u]
BY AcquireEffect DEF Types, Granted

\* Release moves its caller, and wakes threads that wait.
LEMMA ReleaseMoves ==
  ASSUME SyncInv, NEW h \in Ops, NEW t \in Threads, NEW next, pc[t] # "wait",
         Release(h, t, next)
  PROVE  /\ pc'[t] = next
         /\ \A u \in Threads \ {t} :
              \/ pc'[u] = pc[u]
              \/ pc[u] = "wait" /\ pc'[u] = Granted(u)
<1>1. Types /\ QueueInv
  BY DEF SyncInv
<1>2. PICK k \in 0..Len(waiters[h]) : HandsOver(h, t, next, k)
  BY <1>1, ReleaseEffect
<1>3. \A u \in Front(h, k) : pc[u] = "wait"
  <2>1. \A i \in 1..k : i \in 1..Len(waiters[h])
    BY <1>1, QueueType
  <2>2. QED
    BY <2>1, <1>1 DEF QueueInv, Front
<1>4. QED
  BY <1>2, <1>3 DEF HandsOver

\* A step that only moves threads at a semaphore disturbs no object.
LEMMA ObjectQuiet ==
  ASSUME Types, ObjectInv,
         UNCHANGED <<tunLock, tunHandler, runTime, hook, listener, callback,
                     released, target, seen>>,
         \A o \in Ops : \/ pc'[o] = pc[o]
                        \/ pc[o] \in {"acquire", "wait"} /\ pc'[o] \in {"close", "wait"},
         \A d \in Dialers : pc'[d] = "using" => pc[d] = "using"
  PROVE  ObjectInv'
<1>1. FreshInv'
  BY DEF ObjectInv, FreshInv, Created
<1>2. OwnInv' /\ UseInv' /\ PhaseInv'
  BY DEF ObjectInv, OwnInv, UseInv, PhaseInv
<1>3. SeenInv'
  <2>1. \A o \in Ops : pc[o] \in Created => pc'[o] \in Created
    BY DEF Created
  <2>2. QED
    BY <2>1 DEF ObjectInv, SeenInv, Types
<1>4. HookBacked' /\ StoppedMeansClosed'
  BY DEF ObjectInv, HookBacked, StoppedMeansClosed
<1>5. QED
  BY <1>1, <1>2, <1>3, <1>4 DEF ObjectInv

\* Every step keeps what is known of handlers, callbacks and the hook; the
\* exclusion of SyncInv is what makes CloseFree safe.
LEMMA ObjectNext == IInv /\ [Next]_vars => ObjectInv'
<1> SUFFICES ASSUME IInv, [Next]_vars PROVE ObjectInv'
  OBVIOUS
<1> USE DEF lockVars, objectVars, ObjectInv, Created
<1>1. /\ Types /\ LockInv /\ HandlerInv /\ HoldInv /\ ExclusionInv
      /\ FreshInv /\ OwnInv /\ UseInv /\ PhaseInv /\ SeenInv
      /\ HookBacked /\ StoppedMeansClosed
  BY DEF IInv, SyncInv
<1> USE DEF Types, LockInv, FreshInv, OwnInv, UseInv, PhaseInv, SeenInv,
            HookBacked, StoppedMeansClosed
<1>2. ASSUME NEW o \in Ops, Spawn(o) PROVE ObjectInv'
  BY <1>1, <1>2 DEF Spawn
<1>3. ASSUME NEW o \in Ops, StopLock(o) PROVE ObjectInv'
  BY <1>1, <1>3 DEF StopLock, NeedsClose, NoTime
<1>4. ASSUME NEW o \in Ops, CloseAcquire(o) PROVE ObjectInv'
  <2>1. tunHandler \in Ops
    BY <1>1, <1>4 DEF CloseAcquire, HandlerInv
  <2>2. /\ pc'[o] \in {"close", "wait"}
        /\ \A u \in Threads \ {o} : pc'[u] = pc[u]
    BY <2>1, <1>1, <1>4, AcquireMoves DEF CloseAcquire, Granted
  <2>3. QED
    BY <2>2, <1>4, ObjectQuiet DEF CloseAcquire, IInv, SyncInv
<1>5. ASSUME NEW o \in Ops, CloseHook(o) PROVE ObjectInv'
  BY <1>1, <1>5 DEF CloseHook, RemovedHook
<1>6. ASSUME NEW o \in Ops, CloseFree(o) PROVE ObjectInv'
  <2>1. tunHandler \in Ops /\ o # tunHandler
    BY <1>1, <1>6 DEF CloseFree, HandlerInv
  <2>2. /\ pc'[o] = "stopped"
        /\ \A u \in Threads \ {o} :
             pc'[u] = pc[u] \/ (pc[u] = "wait" /\ pc'[u] = Granted(u))
    BY <2>1, <1>6, ReleaseMoves DEF CloseFree, IInv
  <2>3. \A d \in Dialers : pc'[d] = "using" => target[d] # tunHandler
    <3>1. holders[tunHandler] = {o}
      BY <2>1, <1>1, <1>6 DEF CloseFree, HoldInv, ExclusionInv, Work
    <3>2. \A d \in Dialers : pc'[d] = "using" => pc[d] = "using"
      BY <2>2 DEF Granted
    <3>3. \A d \in Dialers : pc[d] = "using" => d \in holders[target[d]]
      BY <1>1 DEF HoldInv, Work
    <3>4. QED
      BY <3>1, <3>2, <3>3
  <2>4. /\ callback' = [callback EXCEPT ![tunHandler] = FALSE]
        /\ listener' = [listener EXCEPT ![tunHandler] = FALSE]
        /\ released' = [released EXCEPT ![tunHandler] =
                          IF callback[tunHandler] THEN @ + 1 ELSE @]
        /\ UNCHANGED <<kind, tunLock, tunHandler, runTime, hook, target, seen>>
        /\ pc[o] = "free"
    BY <1>6 DEF CloseFree, CallbackCleared
  <2>5. \A u \in Ops \ {o} : pc'[u] = pc[u] \/ (pc[u] = "wait" /\ pc'[u] = "close")
    BY <2>2 DEF Granted
  <2>6. FreshInv'
    <3>1. FreshInv
      BY <1>1
    <3>2. \A u \in Ops : pc'[u] \notin Created => pc[u] \notin Created /\ u # tunHandler
      <4>1. pc[tunHandler] \in Created /\ pc[o] = "free"
        BY <2>1, <2>4, <1>1
      <4>2. \A u \in Ops : pc[u] \in Created => pc'[u] \in Created
        BY <4>1, <2>5
      <4>3. QED
        BY <4>1, <4>2
    <3>3. \A u \in Ops : pc'[u] # "listen" \/ pc[u] = "listen"
      BY <2>2, <2>5
    <3>4. \A u \in Ops : pc[u] # "listen"
      BY <1>1, <1>6 DEF CloseFree
    <3>5. QED
      BY <2>1, <2>4, <3>1, <3>2, <3>3, <3>4
  <2>7. OwnInv'
    BY <2>1, <2>4, <1>1
  <2>8. UseInv'
    <3>1. \A d \in Dialers : pc'[d] = "using" => pc[d] = "using"
      BY <2>2 DEF Granted
    <3>2. QED
      BY <2>1, <2>3, <2>4, <3>1, <1>1
  <2>9. PhaseInv'
    <3>1. ~hook /\ ~callback'[tunHandler]
      BY <2>1, <2>4, <1>1
    <3>2. \A u \in Ops : pc'[u] \in {"install", "listen", "started"} =>
            pc[u] \in {"install", "listen", "started"}
      BY <2>2, <2>5
    <3>3. QED
      BY <2>4, <3>1, <3>2, <1>1
  <2>10. SeenInv'
    <3>1. \A u \in Ops : pc[u] \in Created => pc'[u] \in Created
      BY <2>2, <2>4, <2>5
    <3>2. \A u \in Ops : pc'[u] \in {"start", "install"} =>
            pc[u] \in {"start", "install"}
      BY <2>2, <2>5
    <3>3. \A g \in Ops : callback'[g] => callback[g]
      BY <2>4, <1>1
    <3>4. QED
      BY <2>4, <3>1, <3>2, <3>3, <1>1
  <2>11. HookBacked' /\ StoppedMeansClosed'
    <3>1. ~hook /\ tunLock = o /\ o # None
      BY <2>4, <1>1
    <3>2. QED
      BY <2>4, <3>1
  <2>12. QED
    BY <2>6, <2>7, <2>8, <2>9, <2>10, <2>11
<1>7. ASSUME NEW o \in Ops, StopUnlock(o) PROVE ObjectInv'
  BY <1>1, <1>7 DEF StopUnlock
<1>8. ASSUME NEW o \in Ops, StartLock(o) PROVE ObjectInv'
  BY <1>1, <1>8 DEF StartLock
<1>9. ASSUME NEW o \in Ops, Install(o) PROVE ObjectInv'
  <2>1. /\ pc[o] = "install" /\ tunLock = o
        /\ pc' = [pc EXCEPT ![o] = "listen"]
        /\ tunHandler' = o /\ hook'
        /\ callback' = [callback EXCEPT ![o] = TRUE]
        /\ UNCHANGED <<kind, tunLock, runTime, listener, released, target, seen>>
    BY <1>1, <1>9 DEF Install
  <2>2. FreshInv'
    BY <1>1, <2>1
  <2>3. OwnInv' /\ UseInv' /\ PhaseInv'
    <3>1. /\ callback'[o] /\ \A g \in Ops \ {o} : callback'[g] = callback[g]
          /\ \A u \in Ops \ {o} : pc'[u] = pc[u]
          /\ pc'[o] = "listen" /\ \A d \in Dialers : pc'[d] = pc[d]
      BY <1>1, <2>1
    <3>2. OwnInv'
      <4>1. OwnInv /\ FreshInv
        BY <1>1
      <4>2. QED
        BY <2>1, <3>1, <4>1
    <3>3. UseInv'
      <4>1. UseInv
        BY <1>1
      <4>2. QED
        BY <2>1, <3>1, <4>1
    <3>4. PhaseInv'
      <4>1. PhaseInv /\ LockInv
        BY <1>1
      <4>2. QED
        BY <2>1, <3>1, <4>1
    <3>5. QED
      BY <3>2, <3>3, <3>4
  <2>4. SeenInv'
    <3>1. \A u \in Ops : pc[u] \in Created => pc'[u] \in Created
      BY <1>1, <2>1
    <3>2. pc'[o] \in Created
      BY <1>1, <2>1
    <3>3. \A u \in Ops : pc'[u] \in {"start", "install"} =>
            pc[u] \in {"start", "install"}
      BY <1>1, <2>1
    <3>4. \A g \in Ops : pc[g] \in Created /\ callback'[g] => callback[g]
      BY <1>1, <2>1
    <3>5. QED
      BY <2>1, <3>1, <3>2, <3>3, <3>4, <1>1
  <2>5. HookBacked' /\ StoppedMeansClosed'
    BY <1>1, <2>1
  <2>6. QED
    BY <2>2, <2>3, <2>4, <2>5
<1>10. ASSUME NEW o \in Ops, Listen(o) PROVE ObjectInv'
  <2>1. /\ pc[o] = "listen" /\ tunLock = o /\ tunHandler = o /\ callback[o]
        /\ pc' = [pc EXCEPT ![o] = "started"]
        /\ hook' = hook \/ hook' = FALSE
        /\ \A h \in Ops \ {o} : listener'[h] = listener[h]
        /\ listener' \in [Ops -> BOOLEAN]
        /\ listener[o] => listener'[o]
        /\ UNCHANGED <<kind, tunLock, tunHandler, runTime, callback, released,
                       target, seen>>
    <3>1. listener' \in {listener, [listener EXCEPT ![o] = TRUE]}
      BY <1>10 DEF Listen
    <3>2. hook' = hook \/ hook' = FALSE
      BY <1>10 DEF Listen, RemovedHook
    <3>3. /\ pc[o] = "listen" /\ pc' = [pc EXCEPT ![o] = "started"]
          /\ UNCHANGED <<kind, tunLock, tunHandler, runTime, callback, released, target, seen>>
      BY <1>10 DEF Listen
    <3>4. FreshInv /\ LockInv /\ listener \in [Ops -> BOOLEAN]
      BY <1>1
    <3>5. tunLock = o /\ tunHandler = o /\ callback[o]
      BY <3>3, <3>4
    <3>6. listener' \in [Ops -> BOOLEAN] /\ (listener[o] => listener'[o])
      BY <3>1, <3>4
    <3>7. \A h \in Ops \ {o} : listener'[h] = listener[h]
      BY <3>1, <3>4
    <3>8. QED
      BY <3>2, <3>3, <3>5, <3>6, <3>7
  <2>2. FreshInv'
    BY <1>1, <2>1
  <2>3. OwnInv' /\ PhaseInv'
    BY <1>1, <2>1
  <2>4. UseInv'
    BY <1>1, <2>1 DEF HandlerInv
  <2>5. SeenInv'
    BY <1>1, <2>1
  <2>6. HookBacked' /\ StoppedMeansClosed'
    BY <1>1, <2>1
  <2>7. QED
    BY <2>2, <2>3, <2>4, <2>5, <2>6
<1>11. ASSUME NEW o \in Ops, StartUnlock(o) PROVE ObjectInv'
  BY <1>1, <1>11 DEF StartUnlock
<1>12. ASSUME NEW d \in Dialers, Dial(d) \/ CallHook(d) \/ Resolve(d) PROVE ObjectInv'
  <2>1. /\ \A o \in Ops : pc'[o] = pc[o]
        /\ \A e \in Dialers : pc'[e] = "using" => pc[e] = "using"
        /\ UNCHANGED <<tunLock, tunHandler, runTime, hook, listener, callback,
                       released, target, seen>>
    BY <1>1, <1>12 DEF Dial, CallHook, Resolve
  <2>2. QED
    BY <2>1, ObjectQuiet DEF IInv, SyncInv
<1>13. ASSUME NEW d \in Dialers, LoadHandler(d) PROVE ObjectInv'
  BY <1>1, <1>13 DEF LoadHandler
<1>14. ASSUME NEW d \in Dialers, DialAcquire(d) PROVE ObjectInv'
  <2>1. target[d] \in Ops
    BY <1>1, <1>14 DEF DialAcquire, HandlerInv
  <2>2. /\ pc'[d] \in {"held", "wait"}
        /\ \A u \in Threads \ {d} : pc'[u] = pc[u]
    BY <2>1, <1>1, <1>14, AcquireMoves DEF DialAcquire, Granted
  <2>3. /\ \A o \in Ops : pc'[o] = pc[o]
        /\ \A e \in Dialers : pc'[e] = "using" => pc[e] = "using"
    BY <2>2
  <2>4. QED
    BY <2>3, <1>14, ObjectQuiet DEF DialAcquire, IInv, SyncInv
<1>15. ASSUME NEW d \in Dialers, DialSkip(d) \/ DialReturn(d) PROVE ObjectInv'
  <2>1. target[d] \in Ops
    BY <1>1, <1>15 DEF DialSkip, DialReturn, HandlerInv
  <2>2. /\ pc'[d] = "idle"
        /\ \A u \in Threads \ {d} :
             pc'[u] = pc[u] \/ (pc[u] = "wait" /\ pc'[u] = Granted(u))
    BY <2>1, <1>15, ReleaseMoves DEF DialSkip, DialReturn, IInv
  <2>3. \A o \in Ops : pc'[o] = pc[o] \/ (pc[o] = "wait" /\ pc'[o] = "close")
    BY <2>2 DEF Granted
  <2>4. \A e \in Dialers : pc'[e] = "using" => pc[e] = "using"
    BY <2>2 DEF Granted
  <2>5. UNCHANGED <<kind, tunLock, tunHandler, runTime, hook, listener, callback,
                    released, target, seen>>
    BY <1>15 DEF DialSkip, DialReturn
  <2>6. QED
    BY <2>3, <2>4, <2>5, ObjectQuiet DEF IInv, SyncInv
<1>16. ASSUME NEW d \in Dialers, DialUse(d) PROVE ObjectInv'
  BY <1>1, <1>16 DEF DialUse
<1>17. CASE UNCHANGED vars
  BY <1>1, <1>17 DEF vars
<1>18. QED
  BY <1>2, <1>3, <1>4, <1>5, <1>6, <1>7, <1>8, <1>9, <1>10, <1>11, <1>12, <1>13,
     <1>14, <1>15, <1>16, <1>17 DEF Next, OpStep, DialStep

-----------------------------------------------------------------------------
\* Before the first call from Kotlin the inductive invariant holds.
LEMMA InitIInv == Init => IInv
<1> SUFFICES ASSUME Init PROVE IInv
  OBVIOUS
<1>1. Types
  <2>1. <<>> \in Seq(Threads) /\ 0 \in Nat
    OBVIOUS
  <2> HIDE DEF Threads
  <2>2. waiters \in [Ops -> Seq(Threads)] /\ holders \in [Ops -> SUBSET Threads]
    BY <2>1 DEF Init
  <2>3. /\ pc \in [Threads -> OpPCs \cup DialPCs]
        /\ \A o \in Ops : pc[o] \in OpPCs
        /\ \A d \in Dialers : pc[d] \in DialPCs
    BY DEF Init, Threads
  <2>4. QED
    BY <2>1, <2>2, <2>3 DEF Init, Types, Kinds
<1>2. LockInv /\ HandlerInv /\ QueueInv /\ HoldInv /\ ExclusionInv
  BY DEF Init, LockInv, HandlerInv, QueueInv, HoldInv, ExclusionInv
<1>3. ObjectInv
  BY DEF Init, ObjectInv, FreshInv, OwnInv, UseInv, PhaseInv, SeenInv, HookBacked,
         StoppedMeansClosed, Created
<1>4. QED
  BY <1>1, <1>2, <1>3 DEF IInv, SyncInv

\* The inductive invariant of the TUN bridge (lib_android.go 38-151).
THEOREM Invariance == Spec => []IInv
<1>1. IInv /\ [Next]_vars => IInv'
  BY SyncNext, ObjectNext DEF IInv, ObjectInv, HookBacked, HookInv
<1>2. QED
  BY <1>1, InitIInv, PTL DEF Spec

\* Every variable keeps its type, every thread its own kind of place, and an
\* operation in a section of tunLock is its holder.
THEOREM TypeCorrect == Spec => []TypeOK
<1>1. IInv => TypeOK
  BY DEF IInv, SyncInv, Types, LockInv, TypeOK
<1>2. QED
  BY <1>1, Invariance, PTL

\* No dial is inside a Java callback that close() has freed (lib_android.go
\* 38-62): the two are kept apart by the semaphore.
THEOREM CallbackSafety == Spec => []NoUseAfterRelease
<1>1. IInv => NoUseAfterRelease
  <2> SUFFICES ASSUME IInv, NEW d \in Dialers, pc[d] = "using"
               PROVE  callback[target[d]] /\ released[target[d]] = 0
    BY DEF NoUseAfterRelease
  <2>1. target[d] \in Ops
    BY DEF IInv, SyncInv, HandlerInv, Types
  <2>2. QED
    BY <2>1 DEF IInv, ObjectInv, UseInv, OwnInv
<1>2. QED
  BY <1>1, Invariance, PTL

\* releaseObject runs at most once for every callback (lib_android.go 46-49).
THEOREM ReleaseOnce == Spec => []ReleasedAtMostOnce
<1>1. IInv => ReleasedAtMostOnce
  BY DEF IInv, ObjectInv, OwnInv, ReleasedAtMostOnce
<1>2. QED
  BY <1>1, Invariance, PTL

\* The installed hook always has a live handler behind it (130-151).
THEOREM HookSafety == Spec => []HookBacked
<1>1. IInv => HookBacked
  BY DEF IInv, ObjectInv
<1>2. QED
  BY <1>1, Invariance, PTL

\* Outside tunLock, a nil runTime means a closed handler (92-99).
THEOREM StopSafety == Spec => []StoppedMeansClosed
<1>1. IInv => StoppedMeansClosed
  BY DEF IInv, ObjectInv
<1>2. QED
  BY <1>1, Invariance, PTL

\* Only overlapping starts orphan a live handler (101-121).
THEOREM OrphanSafety == Spec => OrphanOnlyByOverlap
<1>1. IInv /\ [Next]_vars =>
        [\A h \in Ops : tunHandler = h /\ tunHandler' # h /\ callback[h]
           => seen[tunHandler'] # h]_vars
  <2> SUFFICES ASSUME IInv, [Next]_vars, NEW h \in Ops,
                      tunHandler = h, tunHandler' # h, callback[h]
               PROVE  seen[tunHandler'] # h
    OBVIOUS
  <2>1. PICK o \in Ops : Install(o)
    BY DEF Next, OpStep, DialStep, vars, Spawn, StopLock, CloseAcquire, CloseHook,
           CloseFree, StopUnlock, StartLock, Listen, StartUnlock, Dial, CallHook, Resolve,
           LoadHandler, DialAcquire, DialSkip, DialUse, DialReturn
  <2>2. pc[o] = "install" /\ tunHandler' = o
    BY <2>1 DEF Install
  <2>3. QED
    BY <2>2 DEF IInv, ObjectInv, SeenInv
<1>2. QED
  BY <1>1, Invariance, PTL DEF Spec, OrphanOnlyByOverlap

-----------------------------------------------------------------------------
\* A step that leaves the objects alone and moves no dial into or out of Java is
\* invisible.
LEMMA DeviceQuiet ==
  ASSUME UNCHANGED <<tunHandler, objectVars, target>>,
         \A d \in Dialers : pc'[d] = "using" <=> pc[d] = "using"
  PROVE  UNCHANGED Device!vars
  BY DEF Device!vars, DeviceOf, UserOf, objectVars

\* Closing a handler that owns its callback closes its device; closing one that is
\* closed already is invisible.
LEMMA CloseMaps ==
  ASSUME IInv, NEW o \in Ops, CloseFree(o)
  PROVE  [Device!Next]_(Device!vars)
<1> DEFINE h == tunHandler
<1>1. /\ Types /\ LockInv /\ HandlerInv /\ HoldInv /\ ExclusionInv /\ OwnInv
  BY DEF IInv, SyncInv, ObjectInv
<1>2. h \in Ops /\ holders[h] = {o}
  BY <1>1, ThreadAssumption DEF CloseFree, HandlerInv, HoldInv, ExclusionInv, Work, Types,
                                Threads
<1>3. \A d \in Dialers : pc[d] = "using" => target[d] # h
  BY <1>1, <1>2, ThreadAssumption DEF HoldInv, Work, Threads
<1>4. \A d \in Dialers : pc'[d] = "using" <=> pc[d] = "using"
  <2>1. \A u \in Threads \ {o} : pc'[u] = pc[u] \/ (pc[u] = "wait" /\ pc'[u] = Granted(u))
    BY <1>2, ReleaseMoves DEF CloseFree, IInv, Threads
  <2>2. QED
    BY <2>1, ThreadAssumption DEF Granted, Threads
<1>5. /\ released' = [released EXCEPT ![h] = IF callback[h] THEN @ + 1 ELSE @]
      /\ callback' = [callback EXCEPT ![h] = FALSE]
      /\ listener' = [listener EXCEPT ![h] = FALSE]
      /\ UNCHANGED <<tunHandler, target>>
  BY DEF CloseFree, CallbackCleared
<1>6. UNCHANGED [d \in Dialers |-> UserOf(d)]
  BY <1>4, <1>5 DEF UserOf
<1>7. CASE callback[h]
  <2>1. [g \in Ops |-> DeviceOf(g)]' = [[g \in Ops |-> DeviceOf(g)] EXCEPT ![h] = "closed"]
    <3>1. released[h] \in Nat /\ released'[h] = released[h] + 1 /\ ~callback'[h]
      BY <1>1, <1>2, <1>5, <1>7 DEF Types
    <3>2. DeviceOf(h)' = "closed"
      BY <1>5, <3>1 DEF DeviceOf
    <3>3. \A g \in Ops \ {h} : DeviceOf(g)' = DeviceOf(g)
      BY <1>1, <1>2, <1>5 DEF DeviceOf, Types
    <3>4. QED
      BY <1>2, <1>5, <3>2, <3>3
  <2>2. Device!Close(h)
    BY <1>2, <1>3, <1>5, <1>6, <1>7, <2>1, ThreadAssumption
       DEF Device!Close, DeviceOf, UserOf
  <2>3. QED
    BY <1>2, <2>2 DEF Device!Next
<1>8. CASE ~callback[h]
  <2>1. UNCHANGED [g \in Ops |-> DeviceOf(g)]
    BY <1>1, <1>2, <1>5, <1>8 DEF DeviceOf, Types
  <2>2. QED
    BY <1>5, <1>6, <2>1 DEF Device!vars
<1>9. QED
  BY <1>7, <1>8

\* Every step of starts, stops and dials is one of TunDevice, or invisible.
LEMMA StepMaps == IInv /\ [Next]_vars => [Device!Next]_(Device!vars)
<1> SUFFICES ASSUME IInv, [Next]_vars PROVE [Device!Next]_(Device!vars)
  OBVIOUS
<1> USE DEF objectVars
<1>1. Types /\ LockInv /\ HandlerInv /\ FreshInv /\ OwnInv /\ UseInv /\ PhaseInv
  BY DEF IInv, SyncInv, ObjectInv
<1>2. ASSUME NEW o \in Ops,
             \/ Spawn(o) \/ StopLock(o) \/ CloseHook(o) \/ StopUnlock(o)
             \/ StartLock(o) \/ StartUnlock(o)
      PROVE  UNCHANGED Device!vars
  BY <1>1, <1>2, DeviceQuiet, ThreadAssumption
     DEF Spawn, StopLock, CloseHook, StopUnlock, StartLock, StartUnlock, Types, Threads
<1>3. ASSUME NEW o \in Ops, CloseAcquire(o) PROVE UNCHANGED Device!vars
  <2>1. tunHandler \in Ops /\ o \in Threads
    BY <1>1, <1>3 DEF CloseAcquire, HandlerInv, Types, Threads
  <2>2. \A d \in Dialers : pc'[d] = pc[d]
    BY <2>1, <1>1, <1>3, AcquireMoves, ThreadAssumption DEF CloseAcquire, Threads
  <2>3. QED
    BY <2>2, <1>3, DeviceQuiet DEF CloseAcquire
<1>4. ASSUME NEW o \in Ops, Install(o) PROVE Device!Install(o)
  <2>1. /\ ~callback[o] /\ ~listener[o] /\ released[o] = 0
        /\ callback' = [callback EXCEPT ![o] = TRUE] /\ tunHandler' = o
        /\ pc' = [pc EXCEPT ![o] = "listen"] /\ UNCHANGED <<listener, released, target>>
    BY <1>1, <1>4 DEF Install, FreshInv, OwnInv, Created
  <2>2. [g \in Ops |-> DeviceOf(g)]' = [[g \in Ops |-> DeviceOf(g)] EXCEPT ![o] = "installed"]
    BY <1>1, <2>1 DEF DeviceOf, Types
  <2>3. UNCHANGED [d \in Dialers |-> UserOf(d)]
    BY <1>1, <2>1, ThreadAssumption DEF UserOf, Types, Threads
  <2>4. QED
    BY <2>1, <2>2, <2>3 DEF Device!Install, DeviceOf
<1>5. ASSUME NEW o \in Ops, Listen(o) PROVE Device!Listen(o) \/ UNCHANGED Device!vars
  <2>1. /\ tunHandler = o /\ callback[o] /\ pc' = [pc EXCEPT ![o] = "started"]
        /\ UNCHANGED <<tunHandler, callback, released, target>>
    BY <1>1, <1>5 DEF Listen, FreshInv
  <2>2. UNCHANGED [d \in Dialers |-> UserOf(d)]
    BY <1>1, <2>1, ThreadAssumption DEF UserOf, Types, Threads
  <2>3. CASE listener' = listener
    BY <2>1, <2>2, <2>3 DEF Device!vars, DeviceOf
  <2>4. CASE listener' = [listener EXCEPT ![o] = TRUE] /\ ~listener[o]
    <3>1. [g \in Ops |-> DeviceOf(g)]' = [[g \in Ops |-> DeviceOf(g)] EXCEPT ![o] = "up"]
      BY <1>1, <2>1, <2>4 DEF DeviceOf, Types
    <3>2. QED
      BY <2>1, <2>2, <2>4, <3>1 DEF Device!Listen, DeviceOf
  <2>5. listener' \in {listener, [listener EXCEPT ![o] = TRUE]}
    BY <1>5 DEF Listen
  <2>6. listener[o] => [listener EXCEPT ![o] = TRUE] = listener
    BY <1>1 DEF Types
  <2>7. QED
    BY <2>3, <2>4, <2>5, <2>6
<1>6. ASSUME NEW d \in Dialers, Dial(d) \/ CallHook(d) \/ Resolve(d) \/ LoadHandler(d)
      PROVE  UNCHANGED Device!vars
  <2>1. \A e \in Dialers : pc'[e] = "using" <=> pc[e] = "using"
    BY <1>1, <1>6 DEF Dial, CallHook, Resolve, LoadHandler, Types
  <2>2. UNCHANGED <<tunHandler, objectVars>>
    BY <1>6 DEF Dial, CallHook, Resolve, LoadHandler
  <2>3. \A e \in Dialers : pc[e] = "using" => target'[e] = target[e]
    BY <1>1, <1>6 DEF Dial, CallHook, Resolve, LoadHandler, Types
  <2>4. QED
    BY <2>1, <2>2, <2>3 DEF Device!vars, DeviceOf, UserOf
<1>7. ASSUME NEW d \in Dialers, DialAcquire(d) PROVE UNCHANGED Device!vars
  <2>1. target[d] \in Ops /\ d \in Threads
    BY <1>1, <1>7 DEF DialAcquire, HandlerInv, Types, Threads
  <2>2. pc'[d] \in {"held", "wait"} /\ \A u \in Threads \ {d} : pc'[u] = pc[u]
    BY <2>1, <1>1, <1>7, AcquireMoves, ThreadAssumption DEF DialAcquire, Granted
  <2>3. \A e \in Dialers : pc'[e] = "using" <=> pc[e] = "using"
    BY <2>2, <1>7 DEF DialAcquire, Threads
  <2>4. QED
    BY <2>3, <1>7, DeviceQuiet DEF DialAcquire
<1>8. ASSUME NEW d \in Dialers, DialUse(d) PROVE Device!Enter(d, target[d])
  <2>1. /\ pc[d] = "held" /\ listener[target[d]] /\ target[d] \in Ops
        /\ pc' = [pc EXCEPT ![d] = "using"]
        /\ UNCHANGED <<tunHandler, listener, callback, released, target>>
    BY <1>1, <1>8 DEF DialUse, HandlerInv, Types
  <2>2. callback[target[d]]
    BY <1>1, <2>1 DEF OwnInv
  <2>3. [e \in Dialers |-> UserOf(e)]' = [[e \in Dialers |-> UserOf(e)] EXCEPT ![d] = target[d]]
    BY <1>1, <2>1 DEF UserOf, Types, Threads
  <2>4. QED
    BY <2>1, <2>2, <2>3 DEF Device!Enter, DeviceOf, UserOf
<1>9. ASSUME NEW d \in Dialers, DialSkip(d) \/ DialReturn(d)
      PROVE  Device!Leave(d) \/ UNCHANGED Device!vars
  <2>1. target[d] \in Ops /\ d \in Threads /\ pc[d] # "wait"
    BY <1>1, <1>9 DEF DialSkip, DialReturn, HandlerInv, Types, Threads
  <2>2. /\ pc'[d] = "idle"
        /\ \A u \in Threads \ {d} :
             pc'[u] = pc[u] \/ (pc[u] = "wait" /\ pc'[u] = Granted(u))
    BY <2>1, <1>9, ReleaseMoves DEF DialSkip, DialReturn, IInv
  <2>3. \A e \in Dialers \ {d} : pc'[e] = "using" <=> pc[e] = "using"
    BY <2>2, ThreadAssumption DEF Granted, Threads
  <2>4. UNCHANGED <<tunHandler, listener, callback, released, target>>
    BY <1>9 DEF DialSkip, DialReturn
  <2>5. CASE DialSkip(d)
    BY <2>2, <2>3, <2>4, <2>5, DeviceQuiet DEF DialSkip
  <2>6. CASE DialReturn(d)
    <3>1. [e \in Dialers |-> UserOf(e)]' = [[e \in Dialers |-> UserOf(e)] EXCEPT ![d] = None]
      BY <2>2, <2>3, <2>4 DEF UserOf
    <3>2. UNCHANGED [g \in Ops |-> DeviceOf(g)]
      BY <2>4 DEF DeviceOf
    <3>3. UserOf(d) # None
      BY <2>1, <2>6, ThreadAssumption DEF DialReturn, UserOf
    <3>4. QED
      BY <2>4, <3>1, <3>2, <3>3 DEF Device!Leave
  <2>7. QED
    BY <1>9, <2>5, <2>6
<1>10. CASE UNCHANGED vars
  BY <1>10 DEF vars, Device!vars, DeviceOf, UserOf
<1>11. ASSUME NEW o \in Ops, Spawn(o) \/ OpStep(o) PROVE [Device!Next]_(Device!vars)
  <2>1. CASE Install(o) \/ Listen(o)
    BY <2>1, <1>4, <1>5 DEF Device!Next
  <2>2. CASE CloseFree(o)
    BY <2>2, CloseMaps
  <2>3. QED
    BY <1>11, <1>2, <1>3, <2>1, <2>2 DEF OpStep
<1>12. ASSUME NEW d \in Dialers, Dial(d) \/ Resolve(d) \/ DialStep(d)
       PROVE  [Device!Next]_(Device!vars)
  <2>1. CASE DialUse(d)
    <3>1. target[d] \in Ops
      BY <1>1, <2>1 DEF DialUse, HandlerInv, Types
    <3>2. QED
      BY <2>1, <3>1, <1>8 DEF Device!Next
  <2>2. CASE DialSkip(d) \/ DialReturn(d)
    BY <2>2, <1>9 DEF Device!Next
  <2>3. QED
    BY <1>12, <1>6, <1>7, <2>1, <2>2 DEF DialStep
<1>13. QED
  BY <1>10, <1>11, <1>12 DEF Next

\* The TUN bridge implements TunDevice.
LEMMA ImplementsDevice == Spec => Device!Spec
<1>1. Init => Device!Init
  BY DEF Init, Device!Init, DeviceOf, UserOf, Threads
<1>2. QED
  BY <1>1, StepMaps, Invariance, PTL DEF Spec, Device!Spec

-----------------------------------------------------------------------------
(***************************************************************************)
(* The switch that VpnState is built on.                                   *)
(***************************************************************************)

\* What goes on after the stop phase, and what has set the run time, is a start.
SwitchInv ==
  /\ \A o \in Ops : pc[o] \in {"start", "install", "listen", "started"} => kind[o] # "stop"
  /\ runTime # None => kind[runTime] # "stop" /\ pc[runTime] # "idle"

\* A step that neither begins nor ends a phase is invisible.
LEMMA SwitchQuiet ==
  ASSUME Types, SwitchInv, UNCHANGED <<kind, runTime>>,
         \A o \in Ops :
           \/ pc'[o] = pc[o]
           \/ /\ pc[o] \in {"acquire", "wait", "close", "free", "stopped"}
              /\ pc'[o] \in {"wait", "close", "free", "stopped"}
           \/ pc[o] = "stopped" /\ pc'[o] = IF kind[o] = "stop" THEN "done" ELSE "start"
           \/ /\ pc[o] \in {"install", "listen", "started"}
              /\ pc'[o] \in {"listen", "started", "done"}
  PROVE  SwitchInv' /\ UNCHANGED Switch!vars
<1>1. \A o \in Ops : UnderWay(o)' = UnderWay(o)
  BY DEF UnderWay, SwitchInv
<1>2. \A o \in Ops : ServiceOf(o)' = ServiceOf(o)
  BY DEF ServiceOf
<1>3. {ServiceOf(o) : o \in {p \in Ops : UnderWay(p)}}' =
        {ServiceOf(o) : o \in {p \in Ops : UnderWay(p)}}
  BY <1>1, <1>2
<1>4. (runTime # None => ServiceOf(runTime)' = ServiceOf(runTime)) /\ runTime' = runTime
  BY <1>2 DEF Types
<1>5. SwitchInv'
  BY DEF SwitchInv, Types
<1>6. QED
  BY <1>3, <1>4, <1>5 DEF Switch!vars

\* Every step is one of TunSwitch, or invisible.
LEMMA SwitchNext ==
  ASSUME IInv, SwitchInv, [Next]_vars
  PROVE  SwitchInv' /\ [Switch!Next]_(Switch!vars)
<1> DEFINE Ups == {p \in Ops : UnderWay(p)}
           Going == {ServiceOf(o) : o \in Ups}
           Time == IF runTime = None THEN "none" ELSE ServiceOf(runTime)
<1> USE ThreadAssumption
<1>1. Types /\ HandlerInv
  BY DEF IInv, SyncInv
<1>2. \A o \in Ops : ServiceOf(o) \in {"vpn", "plain", "stop"}
  BY DEF ServiceOf
<1>3. ASSUME NEW o \in Ops, Spawn(o) PROVE SwitchInv' /\ Switch!Go(ServiceOf(o)')
  <2>1. /\ pc[o] = "idle" /\ pc' = [pc EXCEPT ![o] = "stop"] /\ runTime' = runTime
        /\ \A p \in Ops \ {o} : kind'[p] = kind[p] /\ pc'[p] = pc[p]
    BY <1>1, <1>3 DEF Spawn, Types, Threads
  <2>2. pc'[o] = "stop"
    BY <1>1, <2>1 DEF Types, Threads
  <2>3. SwitchInv' /\ Time' = Time
    BY <1>1, <2>1, <2>2 DEF SwitchInv, Types, ServiceOf
  <2>4. UnderWay(o)' /\ ~UnderWay(o)
    BY <2>1, <2>2 DEF UnderWay
  <2>5. \A p \in Ops \ {o} : UnderWay(p)' = UnderWay(p) /\ ServiceOf(p)' = ServiceOf(p)
    BY <2>1 DEF UnderWay, ServiceOf
  <2>6. Going' = Going \cup {ServiceOf(o)'}
    BY <2>4, <2>5
  <2>7. QED
    BY <2>3, <2>6 DEF Switch!Go
<1>4. ASSUME NEW o \in Ops, StopLock(o)
      PROVE  SwitchInv' /\ (Switch!Run("stop") \/ \E s \in {"vpn", "plain"} : Switch!StartStops(s))
  <2>1. /\ pc[o] = "stop" /\ runTime' = None /\ kind' = kind
        /\ pc'[o] \in {"acquire", "stopped"} /\ \A p \in Ops \ {o} : pc'[p] = pc[p]
    BY <1>1, <1>4 DEF StopLock, NoTime, Types, Threads
  <2>2. SwitchInv' /\ Time' = "none"
    BY <2>1 DEF SwitchInv
  <2>3. /\ \A p \in Ops : ServiceOf(p)' = ServiceOf(p)
        /\ \A p \in Ops \ {o} : UnderWay(p)' = UnderWay(p)
        /\ UnderWay(o) /\ (UnderWay(o)' <=> kind[o] # "stop")
    BY <2>1 DEF UnderWay, ServiceOf
  <2>4. CASE kind[o] = "stop"
    <3>1. ServiceOf(o) = "stop"
      BY <2>4 DEF ServiceOf
    <3>2. Going' \in {Going, Going \ {"stop"}} /\ "stop" \in Going
      BY <2>3, <2>4, <3>1
    <3>3. QED
      BY <2>2, <3>2 DEF Switch!Run
  <2>5. CASE kind[o] # "stop"
    <3>1. ServiceOf(o) \in {"vpn", "plain"}
      BY <1>1, <2>5 DEF ServiceOf, Types, Kinds
    <3>2. Going' = Going /\ ServiceOf(o) \in Going
      BY <2>3, <2>5
    <3>3. QED
      BY <2>2, <3>1, <3>2 DEF Switch!StartStops
  <2>6. QED
    BY <2>4, <2>5
<1>5. ASSUME NEW o \in Ops, StartLock(o)
      PROVE  SwitchInv' /\ \E s \in {"vpn", "plain"} : Switch!Run(s)
  <2>1. /\ pc[o] = "start" /\ runTime' = o /\ kind' = kind
        /\ pc'[o] \in {"install", "started"} /\ \A p \in Ops \ {o} : pc'[p] = pc[p]
    BY <1>1, <1>5 DEF StartLock, Types, Threads
  <2>2. kind[o] # "stop" /\ ServiceOf(o) \in {"vpn", "plain"}
    BY <1>1, <2>1 DEF SwitchInv, ServiceOf, Types, Kinds
  <2>3. SwitchInv'
    BY <2>1, <2>2 DEF SwitchInv
  <2>4. /\ \A p \in Ops : ServiceOf(p)' = ServiceOf(p)
        /\ \A p \in Ops \ {o} : UnderWay(p)' = UnderWay(p)
        /\ UnderWay(o) /\ ~UnderWay(o)'
    BY <2>1, <2>2 DEF UnderWay, ServiceOf
  <2>5. Time' = ServiceOf(o)
    BY <2>1, <2>4
  <2>6. Going' \in {Going, Going \ {ServiceOf(o)}} /\ ServiceOf(o) \in Going
    BY <2>4
  <2>7. QED
    BY <2>2, <2>3, <2>5, <2>6 DEF Switch!Run
<1>6. ASSUME NEW o \in Ops, CloseAcquire(o) \/ CloseFree(o)
      PROVE  SwitchInv' /\ UNCHANGED Switch!vars
  <2>1. tunHandler \in Ops /\ o \in Threads
    BY <1>1, <1>6 DEF CloseAcquire, CloseFree, HandlerInv, Types, Threads
  <2>2. UNCHANGED <<kind, runTime>>
    BY <1>6 DEF CloseAcquire, CloseFree
  <2>3. CASE CloseAcquire(o)
    <3>1. /\ pc[o] = "acquire" /\ pc'[o] \in {"close", "wait"}
          /\ \A u \in Threads \ {o} : pc'[u] = pc[u]
      BY <1>1, <2>1, <2>3, AcquireMoves DEF CloseAcquire, Granted
    <3>2. QED
      BY <1>1, <2>2, <3>1, SwitchQuiet DEF Threads
  <2>4. CASE CloseFree(o)
    <3>1. /\ pc[o] = "free" /\ pc'[o] = "stopped"
          /\ \A u \in Threads \ {o} : pc'[u] = pc[u] \/ (pc[u] = "wait" /\ pc'[u] = Granted(u))
      BY <2>1, <2>4, ReleaseMoves DEF CloseFree, IInv
    <3>2. \A p \in Ops \ {o} : pc'[p] = pc[p] \/ (pc[p] = "wait" /\ pc'[p] = "close")
      BY <3>1 DEF Granted, Threads
    <3>3. QED
      BY <1>1, <2>2, <3>1, <3>2, SwitchQuiet
  <2>5. QED
    BY <1>6, <2>3, <2>4
<1>7. ASSUME NEW o \in Ops,
             CloseHook(o) \/ StopUnlock(o) \/ Install(o) \/ Listen(o) \/ StartUnlock(o)
      PROVE  SwitchInv' /\ UNCHANGED Switch!vars
  <2>1. /\ UNCHANGED <<kind, runTime>> /\ \A p \in Ops \ {o} : pc'[p] = pc[p]
        /\ \/ pc[o] = "close" /\ pc'[o] = "free"
           \/ pc[o] = "stopped" /\ pc'[o] = IF kind[o] = "stop" THEN "done" ELSE "start"
           \/ /\ pc[o] \in {"install", "listen", "started"}
              /\ pc'[o] \in {"listen", "started", "done"}
    BY <1>1, <1>7 DEF CloseHook, StopUnlock, Install, Listen, StartUnlock, Types, Threads
  <2>2. QED
    BY <1>1, <2>1, SwitchQuiet
<1>8. ASSUME NEW d \in Dialers, Dial(d) \/ Resolve(d) \/ DialStep(d)
      PROVE  SwitchInv' /\ UNCHANGED Switch!vars
  <2>1. UNCHANGED <<kind, runTime>> /\ d \in Threads
    BY <1>8 DEF Dial, Resolve, DialStep, CallHook, LoadHandler, DialAcquire, DialSkip, DialUse,
                DialReturn, Threads
  <2>2. \A p \in Ops : pc'[p] = pc[p] \/ (pc[p] = "wait" /\ pc'[p] = "close")
    <3>1. CASE Dial(d) \/ Resolve(d) \/ CallHook(d) \/ LoadHandler(d) \/ DialUse(d)
      BY <1>1, <3>1 DEF Dial, Resolve, CallHook, LoadHandler, DialUse, Types, Threads
    <3>2. CASE DialAcquire(d)
      <4>1. target[d] \in Ops
        BY <1>1, <3>2 DEF DialAcquire, HandlerInv, Types
      <4>2. QED
        BY <1>1, <2>1, <3>2, <4>1, AcquireMoves DEF DialAcquire, Threads
    <3>3. CASE DialSkip(d) \/ DialReturn(d)
      <4>1. target[d] \in Ops /\ pc[d] # "wait"
        BY <1>1, <3>3 DEF DialSkip, DialReturn, HandlerInv, Types
      <4>2. \A u \in Threads \ {d} : pc'[u] = pc[u] \/ (pc[u] = "wait" /\ pc'[u] = Granted(u))
        BY <2>1, <3>3, <4>1, ReleaseMoves DEF DialSkip, DialReturn, IInv
      <4>3. QED
        BY <4>2 DEF Granted, Threads
    <3>4. QED
      BY <1>8, <3>1, <3>2, <3>3 DEF DialStep
  <2>3. QED
    BY <1>1, <2>1, <2>2, SwitchQuiet
<1>9. CASE UNCHANGED vars
  BY <1>1, <1>9, SwitchQuiet DEF vars
<1>10. ASSUME NEW o \in Ops, Spawn(o) \/ OpStep(o)
       PROVE  SwitchInv' /\ [Switch!Next]_(Switch!vars)
  <2>1. CASE Spawn(o)
    <3>1. SwitchInv' /\ Switch!Go(ServiceOf(o)')
      BY <2>1, <1>3
    <3>2. ServiceOf(o)' \in {"vpn", "plain", "stop"}
      BY DEF ServiceOf
    <3>3. QED
      BY <3>1, <3>2 DEF Switch!Next
  <2>2. CASE StopLock(o)
    BY <2>2, <1>4 DEF Switch!Next
  <2>3. CASE StartLock(o)
    BY <2>3, <1>5 DEF Switch!Next
  <2>4. QED
    BY <1>10, <1>6, <1>7, <2>1, <2>2, <2>3 DEF OpStep
<1>11. QED
  BY <1>8, <1>9, <1>10 DEF Next

\* The TUN bridge implements TunSwitch: the goroutines act on the run time as if
\* tunLock were taken once for a stop and twice for a start, whatever dials do.
LEMMA ImplementsSwitch == Spec => Switch!Spec
<1>1. Init => SwitchInv /\ Switch!Init
  BY DEF Init, SwitchInv, Switch!Init, UnderWay, Threads
<1>2. QED
  BY <1>1, SwitchNext, Invariance, PTL DEF Spec, Switch!Spec

\* The TUN bridge keeps its promises to kernel, Java and client, for any number of
\* starts, stops and dials and any semaphore weight: locks, queue and hook are means
\* to that end (lib_android.go 38-151).
THEOREM Implements == Spec => ImplementsBoth
  BY ImplementsDevice, ImplementsSwitch DEF ImplementsBoth
=============================================================================
