------------------------------ MODULE TunHandler ------------------------------
(***************************************************************************)
(* The Android TUN bridge of the Go core (core/lib_android.go).            *)
(*                                                                         *)
(* Kotlin calls startTUN and stopTun through JNI; each call spawns a       *)
(* goroutine that runs handleStartTun or handleStopTun, so calls are       *)
(* ordered only by tunLock.  Every socket the proxy kernel dials runs the  *)
(* hook installed by initTunHook, which reads the GLOBAL tunHandler and    *)
(* calls back into Java through a pointer that close() frees.  A weighted  *)
(* semaphore keeps the two apart: a dial takes 1 unit, close() takes all.  *)
(*                                                                         *)
(* A TunHandler object is named by the start operation that creates it,    *)
(* and so is the Java callback that operation brings.                      *)
(***************************************************************************)
EXTENDS Naturals, FiniteSets, Sequences

CONSTANTS
  Ops,      \* goroutines spawned by startTUN / stopTun, one call each
  Dialers,  \* goroutines of the proxy kernel that dial sockets
  Limit,    \* semaphore.NewWeighted(Limit): 4 in the code
  None      \* the nil pointer / nobody

ASSUME LimitAssumption == Limit \in Nat \ {0}
ASSUME ThreadAssumption == Ops \cap Dialers = {} /\ None \notin Ops \cup Dialers

VARIABLES
  pc,          \* where each thread is
  kind,        \* which call an operation is: start, startNoFd (fd = 0), stop
  tunLock,     \* the holder of tunLock
  tunHandler,  \* the global handler
  runTime,     \* the run time, named by the start that has set it
  hook,        \* dialer.DefaultSocketHook # nil
  listener,    \* listener[h]: h.listener # nil
  callback,    \* callback[h]: h.callback # nil
  holders,     \* holders[h]: threads holding units of h.limit
  waiters,     \* waiters[h]: FIFO queue of h.limit
  target,      \* target[d]: the handler dialer d has loaded
  released,    \* history: how often releaseObject freed each callback
  seen         \* history: tunHandler when the operation left its stop phase

vars == <<pc, kind, tunLock, tunHandler, runTime, hook, listener, callback,
          holders, waiters, target, released, seen>>

lockVars == <<holders, waiters>>
objectVars == <<listener, callback, released>>

Threads == Ops \cup Dialers
Kinds == {"start", "startNoFd", "stop"}
OpPCs == {"idle", "stop", "acquire", "wait", "close", "free", "stopped",
          "start", "install", "listen", "started", "done"}
LockedPCs == {"acquire", "wait", "close", "free", "stopped", "install", "listen",
              "started"}
DialPCs == {"idle", "checked", "panicked", "hooked", "acquire", "wait", "held", "using"}

(***************************************************************************)
(* golang.org/x/sync/semaphore.Weighted.  An operation acquires Limit      *)
(* units and a dialer one, so a set of threads fits when it is a single    *)
(* operation or at most Limit dialers.  Acquire queues behind earlier      *)
(* waiters even if it would fit; Release hands the freed units to the      *)
(* longest prefix of the queue that fits.                                  *)
(***************************************************************************)
\* Faulty variant: close() acquires one unit, like a dial.
FitsOneUnit(S) == Cardinality(S) =< Limit

Fits(S) == /\ \A o \in S \cap Ops : S = {o}
           /\ Cardinality(S) =< Limit

Front(h, k) == {waiters[h][i] : i \in 1..k}

Granted(t) == IF t \in Ops THEN "close" ELSE "held"

\* Faulty variant: a semaphore without a queue discipline.
AlwaysBarge(h) == TRUE

MayBarge(h) == waiters[h] = <<>>

Acquire(h, t) ==
  \/ /\ Fits(holders[h] \cup {t})
     /\ MayBarge(h)
     /\ holders' = [holders EXCEPT ![h] = @ \cup {t}]
     /\ pc' = [pc EXCEPT ![t] = Granted(t)]
     /\ UNCHANGED waiters
  \/ /\ ~(Fits(holders[h] \cup {t}) /\ MayBarge(h))
     /\ waiters' = [waiters EXCEPT ![h] = Append(@, t)]
     /\ pc' = [pc EXCEPT ![t] = "wait"]
     /\ UNCHANGED holders

Release(h, t, next) ==
  \E k \in 0..Len(waiters[h]) :
    LET rest == holders[h] \ {t} IN
    /\ Fits(rest \cup Front(h, k))
    /\ k < Len(waiters[h]) => ~Fits(rest \cup Front(h, k + 1))
    /\ holders' = [holders EXCEPT ![h] = rest \cup Front(h, k)]
    /\ waiters' = [waiters EXCEPT ![h] = SubSeq(@, k + 1, Len(@))]
    /\ pc' = [u \in Threads |-> IF u \in Front(h, k) THEN Granted(u)
                                ELSE IF u = t THEN next
                                ELSE pc[u]]

-----------------------------------------------------------------------------
Init ==
  /\ pc = [t \in Threads |-> "idle"]
  /\ kind = [o \in Ops |-> "stop"]
  /\ tunLock = None
  /\ tunHandler = None
  /\ runTime = None
  /\ hook = FALSE
  /\ listener = [o \in Ops |-> FALSE]
  /\ callback = [o \in Ops |-> FALSE]
  /\ holders = [o \in Ops |-> {}]
  /\ waiters = [o \in Ops |-> <<>>]
  /\ target = [d \in Dialers |-> None]
  /\ released = [o \in Ops |-> 0]
  /\ seen = [o \in Ops |-> None]

\* JNI call: the goroutine is spawned and the caller returns at once.
Spawn(o) ==
  /\ pc[o] = "idle"
  /\ \E k \in Kinds : kind' = [kind EXCEPT ![o] = k]
  /\ pc' = [pc EXCEPT ![o] = "stop"]
  /\ UNCHANGED <<tunLock, tunHandler, runTime, hook, objectVars, lockVars,
                 target, seen>>

\* Faulty variant: only a handler that still listens is closed.
ListeningOnly == tunHandler # None /\ listener[tunHandler]

\* if tunHandler != nil { tunHandler.close() }
NeedsClose == tunHandler # None

\* Faulty variant: a stop leaves the run time.
TimeKept == runTime

\* runTime = nil
NoTime == None

\* Faulty variant: the stop does not wait for tunLock.
StopUnlocked(o) ==
  /\ pc[o] = "stop"
  /\ tunLock' = o
  /\ runTime' = NoTime
  /\ pc' = [pc EXCEPT ![o] = IF NeedsClose THEN "acquire" ELSE "stopped"]
  /\ UNCHANGED <<kind, tunHandler, hook, objectVars, lockVars, target, seen>>

\* handleStopTun takes tunLock, also when handleStartTun calls it first.
StopLock(o) ==
  /\ pc[o] = "stop"
  /\ tunLock = None
  /\ tunLock' = o
  /\ runTime' = NoTime
  /\ pc' = [pc EXCEPT ![o] = IF NeedsClose THEN "acquire" ELSE "stopped"]
  /\ UNCHANGED <<kind, tunHandler, hook, objectVars, lockVars, target, seen>>

\* close(): t.limit.Acquire(ctx, 4)
CloseAcquire(o) ==
  /\ pc[o] = "acquire"
  /\ Acquire(tunHandler, o)
  /\ UNCHANGED <<kind, tunLock, tunHandler, runTime, hook, objectVars, target,
                 seen>>

\* Faulty variant: close() leaves the hook installed.
HookKept == hook

\* removeTunHook()
RemovedHook == FALSE

\* close() begins with removeTunHook()
CloseHook(o) ==
  /\ pc[o] = "close"
  /\ hook' = RemovedHook
  /\ pc' = [pc EXCEPT ![o] = "free"]
  /\ UNCHANGED <<kind, tunLock, tunHandler, runTime, objectVars, lockVars,
                 target, seen>>

\* Faulty variant: t.callback is not set to nil after its release.
CallbackKept(h) == callback

\* t.callback = nil
CallbackCleared(h) == [callback EXCEPT ![h] = FALSE]

\* close(): listener.Close, releaseObject, both fields nil, deferred Release(4).
CloseFree(o) ==
  LET h == tunHandler IN
  /\ pc[o] = "free"
  /\ released' = [released EXCEPT ![h] = IF callback[h] THEN @ + 1 ELSE @]
  /\ callback' = CallbackCleared(h)
  /\ listener' = [listener EXCEPT ![h] = FALSE]
  /\ Release(h, o, "stopped")
  /\ UNCHANGED <<kind, tunLock, tunHandler, runTime, hook, target, seen>>

\* handleStopTun returns; a start then contends for tunLock again.
StopUnlock(o) ==
  /\ pc[o] = "stopped"
  /\ tunLock' = None
  /\ seen' = [seen EXCEPT ![o] = tunHandler]
  /\ pc' = [pc EXCEPT ![o] = IF kind[o] = "stop" THEN "done" ELSE "start"]
  /\ UNCHANGED <<kind, tunHandler, runTime, hook, objectVars, lockVars, target>>

StartLock(o) ==
  /\ pc[o] = "start"
  /\ tunLock = None
  /\ tunLock' = o
  /\ runTime' = o
  /\ pc' = [pc EXCEPT ![o] = IF kind[o] = "start" THEN "install" ELSE "started"]
  /\ UNCHANGED <<kind, tunHandler, hook, objectVars, lockVars, target, seen>>

\* tunHandler = &TunHandler{...}; initTunHook()
Install(o) ==
  /\ pc[o] = "install"
  /\ tunHandler' = o
  /\ callback' = [callback EXCEPT ![o] = TRUE]
  /\ hook' = TRUE
  /\ pc' = [pc EXCEPT ![o] = "listen"]
  /\ UNCHANGED <<kind, tunLock, runTime, listener, released, lockVars, target,
                 seen>>

\* t.Start returns a listener, or nil and the hook is removed again.
Listen(o) ==
  /\ pc[o] = "listen"
  /\ \/ /\ listener' = [listener EXCEPT ![o] = TRUE]
        /\ UNCHANGED hook
     \/ /\ hook' = RemovedHook
        /\ UNCHANGED listener
  /\ pc' = [pc EXCEPT ![o] = "started"]
  /\ UNCHANGED <<kind, tunLock, tunHandler, runTime, callback, released,
                 lockVars, target, seen>>

StartUnlock(o) ==
  /\ pc[o] = "started"
  /\ tunLock' = None
  /\ pc' = [pc EXCEPT ![o] = "done"]
  /\ UNCHANGED <<kind, tunHandler, runTime, hook, objectVars, lockVars, target,
                 seen>>

-----------------------------------------------------------------------------
\* dialer.go tests DefaultSocketHook and prepares a control function for the
\* socket it is about to open.
Dial(d) ==
  /\ pc[d] = "idle"
  /\ hook
  /\ pc' = [pc EXCEPT ![d] = "checked"]
  /\ UNCHANGED <<kind, tunLock, tunHandler, runTime, hook, objectVars, lockVars,
                 target, seen>>

\* The control function reads DefaultSocketHook again and calls it; the call of
\* a nil function panics and takes the process down.  While the platform blocks
\* connections the hook answers errBlocked at once.
CallHook(d) ==
  /\ pc[d] = "checked"
  /\ \E place \in IF hook THEN {"hooked", "idle"} ELSE {"panicked"} :
       pc' = [pc EXCEPT ![d] = place]
  /\ UNCHANGED <<kind, tunLock, tunHandler, runTime, hook, objectVars, lockVars,
                 target, seen>>

\* process.go keeps DefaultPackageNameResolver in a local and calls that, which
\* answers metadata without both addresses at once: a dial that never begins.
Resolve(d) ==
  /\ pc[d] = "idle"
  /\ hook
  /\ pc' = [pc EXCEPT ![d] = "hooked"]
  /\ UNCHANGED <<kind, tunLock, tunHandler, runTime, hook, objectVars, lockVars,
                 target, seen>>

\* The closure reads the global tunHandler, which may have changed since.
LoadHandler(d) ==
  /\ pc[d] = "hooked"
  /\ target' = [target EXCEPT ![d] = tunHandler]
  /\ pc' = [pc EXCEPT ![d] = "acquire"]
  /\ UNCHANGED <<kind, tunLock, tunHandler, runTime, hook, objectVars, lockVars,
                 seen>>

\* handleProtect / handleResolveProcess: t.limit.Acquire(ctx, 1)
DialAcquire(d) ==
  /\ pc[d] = "acquire"
  /\ Acquire(target[d], d)
  /\ UNCHANGED <<kind, tunLock, tunHandler, runTime, hook, objectVars, target,
                 seen>>

\* Faulty variant: the early return keeps its unit of the semaphore.
DialSkipKeeps(d) ==
  /\ pc[d] = "held"
  /\ ~listener[target[d]]
  /\ pc' = [pc EXCEPT ![d] = "idle"]
  /\ UNCHANGED <<kind, tunLock, tunHandler, runTime, hook, objectVars, lockVars,
                 target, seen>>

\* if t.listener == nil { return }: the deferred Release runs.
DialSkip(d) ==
  /\ pc[d] = "held"
  /\ ~listener[target[d]]
  /\ Release(target[d], d, "idle")
  /\ UNCHANGED <<kind, tunLock, tunHandler, runTime, hook, objectVars, target,
                 seen>>

DialUse(d) ==
  /\ pc[d] = "held"
  /\ listener[target[d]]
  /\ pc' = [pc EXCEPT ![d] = "using"]
  /\ UNCHANGED <<kind, tunLock, tunHandler, runTime, hook, objectVars, lockVars,
                 target, seen>>

\* Protect / ResolveProcess returns; the deferred Release runs.
DialReturn(d) ==
  /\ pc[d] = "using"
  /\ Release(target[d], d, "idle")
  /\ UNCHANGED <<kind, tunLock, tunHandler, runTime, hook, objectVars, target,
                 seen>>

-----------------------------------------------------------------------------
OpStep(o) ==
  \/ StopLock(o) \/ CloseAcquire(o) \/ CloseHook(o) \/ CloseFree(o)
  \/ StopUnlock(o) \/ StartLock(o) \/ Install(o) \/ Listen(o) \/ StartUnlock(o)

DialStep(d) ==
  \/ CallHook(d) \/ LoadHandler(d) \/ DialAcquire(d) \/ DialSkip(d) \/ DialUse(d)
  \/ DialReturn(d)

\* Nothing runs after a panic: the goroutines that dial do not recover from it.
Panicked == \E d \in Dialers : pc[d] = "panicked"

Next ==
  /\ ~Panicked
  /\ \/ \E o \in Ops : Spawn(o) \/ OpStep(o)
     \/ \E d \in Dialers : Dial(d) \/ Resolve(d) \/ DialStep(d)

Spec == Init /\ [][Next]_vars

(***************************************************************************)
(* The Go scheduler runs every goroutine, and a mutex waiter overtaken for *)
(* a millisecond gets the lock next, so each started operation and each    *)
(* dial in flight is weakly fair; whether Kotlin calls or the kernel dials *)
(* is not.                                                                 *)
(***************************************************************************)
Fairness ==
  /\ \A o \in Ops : WF_vars(~Panicked /\ OpStep(o))
  /\ \A d \in Dialers : WF_vars(~Panicked /\ DialStep(d))

FairSpec == Spec /\ Fairness

-----------------------------------------------------------------------------
\* Besides the types: an operation between taking tunLock and giving it back is its
\* holder.
TypeOK ==
  /\ pc \in [Threads -> OpPCs \cup DialPCs]
  /\ \A o \in Ops : pc[o] \in OpPCs
  /\ \A d \in Dialers : pc[d] \in DialPCs
  /\ kind \in [Ops -> Kinds]
  /\ tunLock \in Ops \cup {None}
  /\ tunHandler \in Ops \cup {None}
  /\ runTime \in Ops \cup {None}
  /\ hook \in BOOLEAN
  /\ listener \in [Ops -> BOOLEAN]
  /\ callback \in [Ops -> BOOLEAN]
  /\ holders \in [Ops -> SUBSET Threads]
  /\ waiters \in [Ops -> Seq(Threads)]
  /\ target \in [Dialers -> Ops \cup {None}]
  /\ released \in [Ops -> Nat]
  /\ seen \in [Ops -> Ops \cup {None}]
  /\ \A o \in Ops : pc[o] \in LockedPCs => tunLock = o

\* A dial that is inside the Java callback uses a callback that close() has
\* not released: the semaphore makes close() wait for it.
NoUseAfterRelease ==
  \A d \in Dialers : pc[d] = "using" =>
    /\ callback[target[d]]
    /\ released[target[d]] = 0

\* However stops and starts interleave, releaseObject frees a callback once,
\* although a stop leaves the closed handler in the global.
ReleasedAtMostOnce == \A h \in Ops : released[h] =< 1

\* The state of the device of start h, and the callback that dial d is inside.
DeviceOf(h) ==
  IF callback[h] THEN IF listener[h] THEN "up" ELSE "installed"
  ELSE IF released[h] > 0 THEN "closed" ELSE "none"

UserOf(d) == IF pc[d] = "using" THEN target[d] ELSE None

Device == INSTANCE TunDevice
  WITH device <- [h \in Ops |-> DeviceOf(h)],
       current <- tunHandler,
       user <- [d \in Dialers |-> UserOf(d)]

\* What operation o was called for, in the words of VpnState.
ServiceOf(o) ==
  CASE kind[o] = "start" -> "vpn" [] kind[o] = "startNoFd" -> "plain" [] OTHER -> "stop"

\* A stop is under way until it has cleared the run time, a start until it has set it.
UnderWay(o) ==
  \/ pc[o] = "stop"
  \/ kind[o] # "stop" /\ pc[o] \in {"acquire", "wait", "close", "free", "stopped", "start"}

Switch == INSTANCE TunSwitch
  WITH Services <- {"vpn", "plain"},
       goOps <- {ServiceOf(o) : o \in {p \in Ops : UnderWay(p)}},
       tun <- IF runTime = None THEN "none" ELSE ServiceOf(runTime)

\* Under its locks the bridge keeps what is promised to the kernel and Java: a device
\* goes up once and is closed once, by the next start or a stop, and the semaphore
\* keeps every dial out of a callback that is not there yet, or not any more.  To the
\* client it is the switch that VpnState relies on.
ImplementsBoth == Device!Spec /\ Switch!Spec

\* While the dial hook is installed the global handler still owns a callback,
\* so the closure never finds a nil or a freed handler behind a set hook.
HookBacked == hook => tunHandler # None /\ callback[tunHandler]

\* When nobody holds tunLock and runTime is nil, the current handler is closed
\* and its hook is gone: what the user sees as stopped is stopped.
StoppedMeansClosed ==
  tunLock = None /\ runTime = None =>
    /\ ~hook
    /\ tunHandler # None => ~listener[tunHandler] /\ ~callback[tunHandler]

\* A start overwrites a handler that still owns its callback only if that
\* handler appeared after the start had run its own handleStopTun: callers
\* that do not overlap never orphan a TUN device.
OrphanOnlyByOverlap ==
  [][\A h \in Ops : tunHandler = h /\ tunHandler' # h /\ callback[h]
        => seen[tunHandler'] # h]_vars

\* A socket opened because DefaultSocketHook was not nil calls a hook that is
\* not nil: what the branch of dialer.go says.  Not so when a stop removes the
\* hook between the test and the call.
CalledHookNotNil == ~Panicked

\* Every spawned start or stop finishes, although close() waits for all units
\* of the semaphore while dials keep coming; unless the process dies.
OperationsFinish == \A o \in Ops : pc[o] = "stop" ~> pc[o] = "done" \/ Panicked

\* Every dial that entered the hook returns to its dialer, likewise.
DialsReturn == \A d \in Dialers : pc[d] = "hooked" ~> pc[d] = "idle" \/ Panicked
=============================================================================
