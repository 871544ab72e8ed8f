----------------------------- MODULE ClientInvoke -----------------------------
(***************************************************************************)
(* Requests of the desktop client and their answers: invoke, handleResult  *)
(* and sendMessage (lib/clash/interface.dart, service.dart) with the two   *)
(* timers of safeFuture (lib/common/future.dart), on top of the launcher,  *)
(* which replaces and completes the socketCompleter that messages await.   *)
(*                                                                         *)
(* A message that finds the completer open awaits that very completer: it  *)
(* is written when the accept loop completes it, and never if the field is *)
(* given another one before that.                                          *)
(***************************************************************************)
EXTENDS CoreLauncher

CONSTANT Invokes  \* calls of invoke, each with an id of its own

ASSUME InvokeAssumption == None \notin Invokes

VARIABLES
  callbacks,  \* the ids in callbackCompleterMap
  caller,     \* what whoever called invoke has so far
  message,    \* how far the message and its answer have come
  target,     \* the core whose socket the message was written to
  calm        \* history: invokes sent while nothing replaced the completer, with
              \* no reStart or shutdown since

invokeVars == <<callbacks, caller, message, target, calm>>

vars == <<launcherVars, invokeVars>>

CallerStates == {"idle", "waiting", "answered", "defaulted"}
MessageStates == {"none", "waiting", "stranded", "written", "lost", "answered",
                  "delivered"}

ClientInit ==
  /\ Init
  /\ callbacks = {}
  /\ caller = [i \in Invokes |-> "idle"]
  /\ message = [i \in Invokes |-> "none"]
  /\ target = [i \in Invokes |-> None]
  /\ calm = {}

\* No call is past its guard and the accept loop does not await a close.
AtPeace ==
  /\ accepting = None
  /\ \A r \in Calls : pc[r] \in {"idle", "called", "done"}

Sent(i, how, where) ==
  /\ message' = [message EXCEPT ![i] = how]
  /\ target' = [target EXCEPT ![i] = where]

\* invoke: a completer under a new id, then sendMessage, which nobody awaits.
\* Writing to a socket that has been closed throws.
Invoke(i) ==
  /\ caller[i] = "idle"
  /\ callbacks' = callbacks \cup {i}
  /\ caller' = [caller EXCEPT ![i] = "waiting"]
  /\ \/ link = None /\ Sent(i, "waiting", None)
     \/ link \in Cores \ closed /\ Sent(i, "written", link)
     \/ link \in closed /\ Sent(i, "lost", None)
  /\ calm' = IF AtPeace THEN calm \cup {i} ELSE calm
  /\ UNCHANGED launcherVars

\* The core has done what the message asks for and writes the answer.
Answer(i) ==
  /\ message[i] = "written"
  /\ core[target[i]] = "connected"
  /\ message' = [message EXCEPT ![i] = "answered"]
  /\ UNCHANGED <<callbacks, caller, target, calm, launcherVars>>

\* handleResult: complete the completer of that id, if the map still has it.  An
\* answer of another type than the caller asked for is logged and dropped.
HandleResult(i) ==
  /\ message[i] = "answered"
  /\ message' = [message EXCEPT ![i] = "delivered"]
  /\ \/ /\ i \in callbacks /\ caller[i] = "waiting"
        /\ caller' = [caller EXCEPT ![i] = "answered"]
     \/ UNCHANGED caller
  /\ UNCHANGED <<callbacks, target, calm, launcherVars>>

\* future.timeout(realTimeout): the caller gets the default value.
TimeOut(i) ==
  /\ caller[i] = "waiting"
  /\ caller' = [caller EXCEPT ![i] = "defaulted"]
  /\ UNCHANGED <<callbacks, message, target, calm, launcherVars>>

\* Faulty variant: both timers are set to realTimeout; the one that forgets the
\* completer was started first.
ExpiredTogether(i) == caller[i] # "idle"

\* Timer(realTimeout + commonDuration): it fires after the timeout of the caller,
\* or long after the answer.
Expired(i) == caller[i] \in {"answered", "defaulted"}

\* onLast: callbackCompleterMap.remove(id)
Forget(i) ==
  /\ i \in callbacks /\ Expired(i)
  /\ callbacks' = callbacks \ {i}
  /\ UNCHANGED <<caller, message, target, calm, launcherVars>>

-----------------------------------------------------------------------------
Awaiting == {i \in Invokes : message[i] = "waiting"}

Moved(S, how) == [i \in Invokes |-> IF i \in S THEN how ELSE message[i]]

\* The field is given another completer: who awaits the old one waits for ever.
Strand ==
  /\ message' = Moved(Awaiting, "stranded")
  /\ UNCHANGED <<callbacks, caller, target>>

\* Faulty variant: the accept loop completes a new completer, not the one awaited.
WrittenToNone(c) == Strand

\* The completer is completed: what awaits it is written to the socket.
WrittenTo(c) ==
  /\ message' = Moved(Awaiting, "written")
  /\ target' = [i \in Invokes |-> IF i \in Awaiting THEN c ELSE target[i]]
  /\ UNCHANGED <<callbacks, caller>>

\* reStart begins: socketCompleter = Completer()
Replace(r) == ReStart(r) /\ Strand /\ calm' = {}

BeginShutdown(r) ==
  Shutdown(r) /\ calm' = {} /\ UNCHANGED <<callbacks, caller, message, target>>

\* _destroySocket ends, in a call or in the accept loop.
Destroyed ==
  /\ AcceptReturns \/ \E r \in Calls : SocketDestroyed(r)
  /\ Strand
  /\ UNCHANGED calm

Linked ==
  /\ Accept
  /\ \/ link = None /\ WrittenTo(Head(queue))
     \/ link # None /\ UNCHANGED <<callbacks, caller, message, target>>
  /\ UNCHANGED calm

\* The other steps of a call leave the completer alone.
OtherDartStep(r) ==
  \/ ReStartRefused(r) \/ AskStop(r) \/ StopReturns(r) \/ DestroySocket(r)
  \/ CloseThrows(r) \/ KillProcess(r) \/ Launch(r) \/ HelperStarted(r)
  \/ HelperGivenUp(r) \/ Spawn(r) \/ SpawnReturns(r) \/ SpawnThrows(r)

Aside ==
  /\ \/ \E r \in Calls : Call(r) \/ OtherDartStep(r) \/ HelperStep(r)
     \/ \E c \in Cores : Connect(c) \/ Exit(c)
     \/ AcceptDies
  /\ UNCHANGED invokeVars

LauncherNext ==
  \/ \E r \in Calls : Replace(r) \/ BeginShutdown(r)
  \/ Destroyed \/ Linked \/ Aside

InvokeNext ==
  \E i \in Invokes :
    Invoke(i) \/ Answer(i) \/ HandleResult(i) \/ TimeOut(i) \/ Forget(i)

ClientNext == LauncherNext \/ InvokeNext

ClientSpec == ClientInit /\ [][ClientNext]_vars

-----------------------------------------------------------------------------
\* Besides the types: a message awaits the completer only while it is open.
ClientTypeOK ==
  /\ TypeOK
  /\ callbacks \subseteq Invokes
  /\ caller \in [Invokes -> CallerStates]
  /\ message \in [Invokes -> MessageStates]
  /\ target \in [Invokes -> Cores \cup {None}]
  /\ calm \subseteq Invokes
  /\ Awaiting # {} => link = None

\* Nothing has failed that drops a socket or a core, and no /stop is on its way.
Sound == ~clobbered /\ serving /\ ~overlap /\ \A r \in Calls : stopReq[r] # "sent"

InQueue(c) == \E k \in 1 .. Len(queue) : queue[k] = c

\* A message sent while no reStart, shutdown or close was under way, and as long as
\* no other begins, is never left behind by the completer it awaits, nor written to
\* a closed socket, unless _destroySocket or the accept loop has failed before; and
\* while it waits, a connected core with an open socket is one the accept loop has
\* yet to take, so that the next it takes gets the message.  While a caller waits
\* its completer is in the map, so that no answer in time misses it.  Whether the
\* core that is written to lives long enough to answer is another matter.
QuietMessagesArrive ==
  /\ \A i \in calm :
       /\ message[i] # "stranded"
       /\ message[i] = "lost" => clobbered \/ ~serving
       /\ message[i] = "waiting" /\ ~Exiting /\ Sound =>
            \A c \in Cores : core[c] = "connected" /\ c \notin closed => InQueue(c)
  /\ \A i \in Invokes : caller[i] = "waiting" => i \in callbacks
=============================================================================
