---------------------------- MODULE LogSubscriber ----------------------------
(***************************************************************************)
(* The log stream of the Go core: handleStartLog and handleStopLog         *)
(* (core/hub.go), which test and replace the global logSubscriber without  *)
(* a lock, and log.source, the observable that hands each line to every    *)
(* subscription while it holds its mutex (kernel common/observable).       *)
(*                                                                         *)
(* A subscription is named by the request that makes it.  Its buffer takes *)
(* 200 lines; here a subscription that nobody reads is full.  A line that  *)
(* meets one keeps process() in Emit, with the mutex held: nothing can be  *)
(* subscribed or removed, and whoever logs waits, for logCh has no buffer. *)
(***************************************************************************)
CONSTANTS
  Requests,  \* requests of the client, one goroutine each
  None       \* nil

VARIABLES
  step,           \* where each log request is
  logSubscriber,  \* the global of hub.go
  listener,       \* the subscriptions of the observable
  reading,        \* what the goroutine started by each request reads
  emitting,       \* process() is in Emit, waiting for a reader
  logRaced        \* history: two log requests were at work at once

logVars == <<step, logSubscriber, listener, reading, emitting, logRaced>>

Steps == {"idle", "unsubscribe", "clear", "subscribe", "store", "done"}

\* What a goroutine reads before it has looked at the global; None for ever is nil.
Readers == Requests \cup {"none", "born", None}

LogInit ==
  /\ step = [r \in Requests |-> "idle"]
  /\ logSubscriber = None
  /\ listener = {}
  /\ reading = [r \in Requests |-> "none"]
  /\ emitting = FALSE
  /\ logRaced = FALSE

LogAtWork(r) == step[r] \notin {"idle", "done"}

StepTo(r, place) == step' = [step EXCEPT ![r] = place]

\* handleStopLog ends where handleStartLog goes on.
Cleared(starts) == IF starts THEN "subscribe" ELSE "done"

\* if logSubscriber != nil
LogTest(r, starts) ==
  /\ step[r] = "idle"
  /\ StepTo(r, IF logSubscriber = None THEN Cleared(starts) ELSE "unsubscribe")
  /\ logRaced' = (logRaced \/ \E q \in Requests : LogAtWork(q))
  /\ UNCHANGED <<logSubscriber, listener, reading, emitting>>

\* Faulty variant: the global is cleared first, and nil is not subscribed.
RemovedNil == listener

Removed == listener \ {logSubscriber}

\* log.UnSubscribe(logSubscriber), by now perhaps nil or another one: under the
\* mutex.  It closes the subscription, which ends its reader.
Unsubscribe(r) ==
  /\ step[r] = "unsubscribe"
  /\ ~emitting
  /\ listener' = Removed
  /\ StepTo(r, "clear")
  /\ UNCHANGED <<logSubscriber, reading, emitting, logRaced>>

\* logSubscriber = nil
Clear(r, starts) ==
  /\ step[r] = "clear"
  /\ logSubscriber' = None
  /\ StepTo(r, Cleared(starts))
  /\ UNCHANGED <<listener, reading, emitting, logRaced>>

\* log.Subscribe()
Subscribe(r) ==
  /\ step[r] = "subscribe"
  /\ ~emitting
  /\ listener' = listener \cup {r}
  /\ StepTo(r, "store")
  /\ UNCHANGED <<logSubscriber, reading, emitting, logRaced>>

\* logSubscriber = ..., and go func() { for logData := range logSubscriber
Store(r) ==
  /\ step[r] = "store"
  /\ logSubscriber' = r
  /\ reading' = [reading EXCEPT ![r] = "born"]
  /\ StepTo(r, "done")
  /\ UNCHANGED <<listener, emitting, logRaced>>

LogStep(r, starts) ==
  \/ LogTest(r, starts) \/ Unsubscribe(r) \/ Clear(r, starts) \/ Subscribe(r)
  \/ Store(r)

\* The goroutine of r evaluates the range expression: the global of now.
Range(r) ==
  /\ reading[r] = "born"
  /\ reading' = [reading EXCEPT ![r] = logSubscriber]
  /\ UNCHANGED <<step, logSubscriber, listener, emitting, logRaced>>

Unread == {s \in listener : \A r \in Requests : reading[r] # s}

\* A line meets a subscription that nobody reads ...
LineBlocks ==
  /\ ~emitting /\ Unread # {}
  /\ emitting' = TRUE
  /\ UNCHANGED <<step, logSubscriber, listener, reading, logRaced>>

\* ... until somebody does.
LineEmitted ==
  /\ emitting /\ Unread = {}
  /\ emitting' = FALSE
  /\ UNCHANGED <<step, logSubscriber, listener, reading, logRaced>>

LogGoroutines == (\E r \in Requests : Range(r)) \/ LineBlocks \/ LineEmitted

\* A line that is logged is taken: logCh <- event.
LogTakes == ~emitting

-----------------------------------------------------------------------------
LogTypeOK ==
  /\ step \in [Requests -> Steps]
  /\ logSubscriber \in Requests \cup {None}
  /\ listener \subseteq Requests
  /\ reading \in [Requests -> Readers]
  /\ {emitting, logRaced} \subseteq BOOLEAN

\* When no log request is at work the kernel has one subscription, the global one,
\* or none, and somebody reads it or is about to: no line waits for ever.  Unless
\* two log requests were at work at once: then one may be left that nobody reads,
\* and after 200 lines nothing in the core can log.
SubscriptionsAreRead ==
  ~logRaced /\ (\A r \in Requests : ~LogAtWork(r)) =>
    /\ listener = {logSubscriber} \ {None}
    /\ listener # {} => \E r \in Requests : reading[r] \in {"born", logSubscriber}
=============================================================================
