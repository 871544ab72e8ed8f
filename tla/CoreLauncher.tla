----------------------------- MODULE CoreLauncher -----------------------------
(***************************************************************************)
(* How the desktop client starts, restarts and reaches the Go core:        *)
(* ClashService (lib/clash/service.dart), a Dart object whose methods      *)
(* interleave at every await, the helper service of Windows                *)
(* (services/helper/src/service/hub.rs), whose two request handlers run on *)
(* the threads of its server, and the core processes that connect back.    *)
(*                                                                         *)
(* ClashService talks to the core through socketCompleter.  It replaces    *)
(* that completer in reStart and _destroySocket and completes it in its    *)
(* accept loop: link is the socket of the completer now in the field, or   *)
(* None while it is not completed.  A socket is named by its core.         *)
(* HTTP calls to the helper give up after two seconds while the helper     *)
(* goes on: here a call may give up at any time.                           *)
(***************************************************************************)
EXTENDS Naturals, Sequences, FiniteSets

CONSTANTS
  Calls,    \* calls of reStart and shutdown
  Cores,    \* core processes that may be started
  Windows,  \* Platform.isWindows
  None

ASSUME LauncherAssumption == Windows \in BOOLEAN /\ None \notin Calls \cup Cores

VARIABLES
  pc,          \* where each call is
  kind,        \* reStart or shutdown
  last,        \* the socket a call of _destroySocket is closing
  isStarting,
  process,     \* the process ClashService has started itself
  child,       \* the process each reStart has started while it awaits Process.start
  link,        \* socket of the current completer
  accepting,   \* the socket the accept loop holds while it awaits _destroySocket
  leaving,     \* the socket the accept loop is closing meanwhile
  serving,     \* the accept loop has not ended
  queue,       \* connections not yet accepted
  closed,      \* sockets ClashService has closed
  stopReq,     \* /stop request of each call, as the helper sees it
  startReq,    \* /start request of each call, as the helper sees it
  PROCESS,     \* the child the helper remembers
  core,        \* state of each core process
  starter,     \* who started it
  overlap,     \* history: two /start requests were between stop and spawn
  kept,        \* history: reStart ended, or threw, with isStarting set
  missed,      \* history: shutdown killed the process while a reStart was under way
  clobbered    \* history: _destroySocket dropped a socket accepted meanwhile, or
               \* a call threw in it and left its core behind

launcherVars ==
  <<pc, kind, last, isStarting, process, child, link, accepting, leaving, serving,
    queue, closed, stopReq, startReq, PROCESS, core, starter, overlap, kept, missed,
    clobbered>>

dartVars == <<kind, isStarting, process, child, kept, missed>>
loopVars == <<accepting, leaving, serving>>
linkVars == <<last, link, loopVars, closed, clobbered>>
helperVars == <<stopReq, startReq, PROCESS, overlap>>
coreVars == <<queue, core, starter>>

PCs == {"idle", "called", "stopHelper", "stopping", "destroy", "destroying",
        "kill", "launch", "helper", "spawn", "spawned", "done"}
ReqStates == {"none", "sent", "stopped", "done", "failed"}

Running == {c \in Cores : core[c] \in {"running", "connected"}}

Goto(r, place) == pc' = [pc EXCEPT ![r] = place]

-----------------------------------------------------------------------------
Init ==
  /\ pc = [r \in Calls |-> "idle"]
  /\ kind = [r \in Calls |-> "reStart"]
  /\ last = [r \in Calls |-> None]
  /\ isStarting = FALSE
  /\ process = None
  /\ child = [r \in Calls |-> None]
  /\ link = None
  /\ accepting = None
  /\ leaving = None
  /\ serving = TRUE
  /\ queue = <<>>
  /\ closed = {}
  /\ stopReq = [r \in Calls |-> "none"]
  /\ startReq = [r \in Calls |-> "none"]
  /\ PROCESS = None
  /\ core = [c \in Cores |-> "unborn"]
  /\ starter = [c \in Cores |-> "service"]
  /\ overlap = FALSE
  /\ kept = FALSE
  /\ missed = FALSE
  /\ clobbered = FALSE

Exiting == \E r \in Calls : kind[r] = "shutdown"

\* reStart is called at start-up and by restartCore, shutdown once, when the
\* client exits: no call follows it.
Call(r) ==
  /\ pc[r] = "idle"
  /\ ~Exiting
  /\ \E k \in {"reStart", "shutdown"} : kind' = [kind EXCEPT ![r] = k]
  /\ Goto(r, "called")
  /\ UNCHANGED <<isStarting, process, child, kept, missed, linkVars, helperVars,
                 coreVars>>

\* shutdown asks the helper first on Windows.
Stopping == IF Windows THEN "stopHelper" ELSE "destroy"

Shutdown(r) ==
  /\ pc[r] = "called" /\ kind[r] = "shutdown"
  /\ Goto(r, Stopping)
  /\ UNCHANGED <<dartVars, linkVars, helperVars, coreVars>>

\* reStart: if (isStarting == true) { return; }
ReStartRefused(r) ==
  /\ pc[r] = "called" /\ kind[r] = "reStart"
  /\ isStarting
  /\ Goto(r, "done")
  /\ UNCHANGED <<dartVars, linkVars, helperVars, coreVars>>

\* Faulty variant: reStart does not look at isStarting.
ReStartUnguarded(r) ==
  /\ pc[r] = "called" /\ kind[r] = "reStart"
  /\ isStarting' = TRUE
  /\ link' = None
  /\ Goto(r, IF process = None THEN "launch" ELSE Stopping)
  /\ UNCHANGED <<kind, process, child, kept, missed, last, loopVars, closed, clobbered,
                 helperVars, coreVars>>

\* reStart: a new completer, then shutdown if a process is known.
ReStart(r) ==
  /\ pc[r] = "called" /\ kind[r] = "reStart"
  /\ ~isStarting
  /\ isStarting' = TRUE
  /\ link' = None
  /\ Goto(r, IF process = None THEN "launch" ELSE Stopping)
  /\ UNCHANGED <<kind, process, child, kept, missed, last, loopVars, closed, clobbered,
                 helperVars, coreVars>>

\* await request.stopCoreByHelper() sends /stop ...
AskStop(r) ==
  /\ pc[r] = "stopHelper"
  /\ stopReq' = [stopReq EXCEPT ![r] = "sent"]
  /\ Goto(r, "stopping")
  /\ UNCHANGED <<dartVars, linkVars, startReq, PROCESS, overlap, coreVars>>

\* ... and returns whether it was answered or gave up.
StopReturns(r) ==
  /\ pc[r] = "stopping"
  /\ Goto(r, "destroy")
  /\ UNCHANGED <<dartVars, linkVars, helperVars, coreVars>>

\* _destroySocket looks at the completer and starts to close its socket.
DestroySocket(r) ==
  /\ pc[r] = "destroy"
  /\ last' = [last EXCEPT ![r] = link]
  /\ closed' = closed \cup ({link} \ {None})
  /\ Goto(r, IF link = None THEN "kill" ELSE "destroying")
  /\ UNCHANGED <<dartVars, link, loopVars, clobbered, helperVars, coreVars>>

\* Faulty variant: the completer of the closed socket stays in the field.
SocketKept(r) ==
  /\ pc[r] = "destroying"
  /\ last' = [last EXCEPT ![r] = None]
  /\ Goto(r, "kill")
  /\ UNCHANGED <<dartVars, link, clobbered, loopVars, closed, helperVars, coreVars>>

\* Back from await lastSocket.close(): socketCompleter = Completer(), whatever
\* completer the accept loop has put there meanwhile.
SocketDestroyed(r) ==
  /\ pc[r] = "destroying"
  /\ clobbered' = (clobbered \/ link \notin {None, last[r]})
  /\ link' = None
  /\ last' = [last EXCEPT ![r] = None]
  /\ Goto(r, "kill")
  /\ UNCHANGED <<dartVars, loopVars, closed, helperVars, coreVars>>

\* lastSocket.close() throws, for a write to the dead core has failed: the call
\* ends there, the completer and the process as they are.
CloseThrows(r) ==
  /\ pc[r] = "destroying"
  /\ core[last[r]] = "dead"
  /\ kept' = (kept \/ kind[r] = "reStart")
  /\ clobbered' = TRUE
  /\ last' = [last EXCEPT ![r] = None]
  /\ Goto(r, "done")
  /\ UNCHANGED <<kind, isStarting, process, child, missed, link, loopVars, closed,
                 helperVars, coreVars>>

Died(c) == [core EXCEPT ![c] = "dead"]

UnderWay(r) == pc[r] \notin {"idle", "done"}

\* process?.kill(); process = null
KillProcess(r) ==
  /\ pc[r] = "kill"
  /\ process' = None
  /\ core' = IF process = None THEN core ELSE Died(process)
  /\ missed' = (missed \/ (kind[r] = "shutdown" /\ \E q \in Calls \ {r} : UnderWay(q)))
  /\ Goto(r, IF kind[r] = "reStart" THEN "launch" ELSE "done")
  /\ UNCHANGED <<kind, isStarting, child, kept, linkVars, helperVars, queue, starter>>

\* With the helper installed reStart sends /start, else it spawns the core.
Launch(r) ==
  /\ pc[r] = "launch"
  /\ \/ Windows /\ startReq' = [startReq EXCEPT ![r] = "sent"] /\ Goto(r, "helper")
     \/ Goto(r, "spawn") /\ UNCHANGED startReq
  /\ UNCHANGED <<dartVars, linkVars, stopReq, PROCESS, overlap, coreVars>>

\* if (isSuccess) { return; }: isStarting stays true.
HelperStarted(r) ==
  /\ pc[r] = "helper"
  /\ startReq[r] = "done"
  /\ kept' = TRUE
  /\ Goto(r, "done")
  /\ UNCHANGED <<kind, isStarting, process, child, missed, linkVars, helperVars,
                 coreVars>>

\* The helper refused, failed, or was not heard of in time.
HelperGivenUp(r) ==
  /\ pc[r] = "helper"
  /\ Goto(r, "spawn")
  /\ UNCHANGED <<dartVars, linkVars, helperVars, coreVars>>

\* A new core process of the given starter.
Born(c, who) ==
  /\ core[c] = "unborn"
  /\ core' = [core EXCEPT ![c] = "running"]
  /\ starter' = [starter EXCEPT ![c] = who]
  /\ UNCHANGED queue

\* Faulty variant: isStarting is not reset.
StartingKept == isStarting

\* isStarting = false
StartingReset == FALSE

\* Process.start: the core is born, and reStart awaits its handle.
Spawn(r) ==
  /\ pc[r] = "spawn"
  /\ \E c \in Cores : Born(c, "service") /\ child' = [child EXCEPT ![r] = c]
  /\ Goto(r, "spawned")
  /\ UNCHANGED <<kind, isStarting, process, kept, missed, linkVars, helperVars>>

\* process = await Process.start(...), whatever has been called meanwhile;
\* isStarting = false
SpawnReturns(r) ==
  /\ pc[r] = "spawned"
  /\ process' = child[r]
  /\ child' = [child EXCEPT ![r] = None]
  /\ isStarting' = StartingReset
  /\ Goto(r, "done")
  /\ UNCHANGED <<kind, kept, missed, linkVars, helperVars, coreVars>>

\* Process.start throws: reStart ends there.
SpawnThrows(r) ==
  /\ pc[r] = "spawn"
  /\ kept' = TRUE
  /\ Goto(r, "done")
  /\ UNCHANGED <<kind, isStarting, process, child, missed, linkVars, helperVars,
                 coreVars>>

-----------------------------------------------------------------------------
\* Faulty variant: the handle of the child is dropped, which does not kill it.
DropChild ==
  /\ PROCESS' = None
  /\ UNCHANGED core

\* stop() in the helper: take the child under the lock, kill and reap it.
KillChild ==
  /\ core' = IF PROCESS = None THEN core ELSE Died(PROCESS)
  /\ PROCESS' = None

HelperStop(r) ==
  /\ stopReq[r] = "sent"
  /\ stopReq' = [stopReq EXCEPT ![r] = "done"]
  /\ KillChild
  /\ UNCHANGED <<pc, dartVars, linkVars, startReq, overlap, queue, starter>>

\* start() refuses a program whose hash is not the expected one.
HelperRefuses(r) ==
  /\ startReq[r] = "sent"
  /\ startReq' = [startReq EXCEPT ![r] = "failed"]
  /\ UNCHANGED <<pc, dartVars, linkVars, stopReq, PROCESS, overlap, coreVars>>

\* start() calls stop(), which gives the lock back ...
HelperStart(r) ==
  /\ startReq[r] = "sent"
  /\ startReq' = [startReq EXCEPT ![r] = "stopped"]
  /\ KillChild
  /\ overlap' = (overlap \/ \E q \in Calls : startReq[q] = "stopped")
  /\ UNCHANGED <<pc, dartVars, linkVars, stopReq, queue, starter>>

\* ... then takes it again, spawns the core and overwrites the child.
HelperSpawn(r) ==
  /\ startReq[r] = "stopped"
  /\ \E c \in Cores : Born(c, "helper") /\ PROCESS' = c
  /\ startReq' = [startReq EXCEPT ![r] = "done"]
  /\ UNCHANGED <<pc, dartVars, linkVars, stopReq, overlap>>

HelperSpawnFails(r) ==
  /\ startReq[r] = "stopped"
  /\ startReq' = [startReq EXCEPT ![r] = "failed"]
  /\ UNCHANGED <<pc, dartVars, linkVars, stopReq, PROCESS, overlap, coreVars>>

-----------------------------------------------------------------------------
\* startServer: the core dials the socket of the client.
Connect(c) ==
  /\ core[c] = "running" /\ serving
  /\ core' = [core EXCEPT ![c] = "connected"]
  /\ queue' = Append(queue, c)
  /\ UNCHANGED <<pc, dartVars, linkVars, helperVars, starter>>

\* The core reads the end of its socket and returns from main, or it crashes.
Exit(c) ==
  /\ c \in Running
  /\ core' = Died(c)
  /\ UNCHANGED <<pc, dartVars, linkVars, helperVars, queue, starter>>

\* The accept loop: await _destroySocket() when a socket is linked.
Accept ==
  /\ serving /\ queue # <<>> /\ accepting = None
  /\ queue' = Tail(queue)
  /\ \/ /\ link = None
        /\ link' = Head(queue)
        /\ UNCHANGED <<accepting, leaving, closed>>
     \/ /\ link # None
        /\ accepting' = Head(queue)
        /\ leaving' = link
        /\ closed' = closed \cup {link}
        /\ UNCHANGED link
  /\ UNCHANGED <<pc, dartVars, last, serving, clobbered, helperVars, core, starter>>

\* Faulty variant: the accept loop keeps the completer it has closed.
LinkAfterClose == IF link = None THEN accepting ELSE link

\* A new completer, completed with the socket at once.
NewLink == accepting

\* socketCompleter = Completer(); socketCompleter.complete(socket)
AcceptReturns ==
  /\ accepting # None
  /\ link' = NewLink
  /\ accepting' = None
  /\ leaving' = None
  /\ UNCHANGED <<pc, dartVars, last, serving, closed, clobbered, helperVars, coreVars>>

\* lastSocket.close() throws inside await for: the loop ends, and the server
\* socket with it; the connection it was about to link is dropped.
AcceptDies ==
  /\ accepting # None
  /\ core[leaving] = "dead"
  /\ serving' = FALSE
  /\ accepting' = None
  /\ leaving' = None
  /\ queue' = <<>>
  /\ UNCHANGED <<pc, dartVars, last, link, closed, clobbered, helperVars, core,
                 starter>>

-----------------------------------------------------------------------------
DartStep(r) ==
  \/ Shutdown(r) \/ ReStartRefused(r) \/ ReStart(r) \/ AskStop(r) \/ StopReturns(r)
  \/ DestroySocket(r) \/ SocketDestroyed(r) \/ CloseThrows(r) \/ KillProcess(r)
  \/ Launch(r) \/ HelperStarted(r) \/ HelperGivenUp(r) \/ Spawn(r) \/ SpawnReturns(r)
  \/ SpawnThrows(r)

HelperStep(r) ==
  \/ HelperStop(r) \/ HelperRefuses(r) \/ HelperStart(r) \/ HelperSpawn(r)
  \/ HelperSpawnFails(r)

Next ==
  \/ \E r \in Calls : Call(r) \/ DartStep(r) \/ HelperStep(r)
  \/ \E c \in Cores : Connect(c) \/ Exit(c)
  \/ Accept \/ AcceptReturns \/ AcceptDies

Spec == Init /\ [][Next]_launcherVars

-----------------------------------------------------------------------------
\* A reStart past its guard.
AtWork(r) == kind[r] = "reStart" /\ pc[r] \notin {"idle", "called", "done"}

\* Besides the types: isStarting admits one reStart at a time.
TypeOK ==
  /\ pc \in [Calls -> PCs]
  /\ kind \in [Calls -> {"reStart", "shutdown"}]
  /\ last \in [Calls -> Cores \cup {None}]
  /\ {isStarting, serving, overlap, kept, missed, clobbered} \subseteq BOOLEAN
  /\ child \in [Calls -> Cores \cup {None}]
  /\ {process, link, accepting, leaving, PROCESS} \subseteq Cores \cup {None}
  /\ queue \in Seq(Cores)
  /\ closed \subseteq Cores
  /\ {stopReq[r] : r \in Calls} \cup {startReq[r] : r \in Calls} \subseteq ReqStates
  /\ core \in [Cores -> {"unborn", "running", "connected", "dead"}]
  /\ starter \in [Cores -> {"service", "helper"}]
  /\ \A q, r \in Calls : AtWork(q) /\ AtWork(r) => q = r

\* A core process that ClashService has spawned and that still runs is the one in
\* its field, or is about to be, for a reStart still awaits Process.start: however
\* reStart and shutdown overlap, none is lost.  A finished shutdown has left none
\* running, unless a reStart was under way, whose core it cannot have seen, or
\* _destroySocket threw.
ServiceTracksCore ==
  /\ \A c \in Running : starter[c] = "service" =>
       process = c \/ \E r \in Calls : pc[r] = "spawned" /\ child[r] = c
  /\ (\E r \in Calls : kind[r] = "shutdown" /\ pc[r] = "done") /\ ~missed /\ ~clobbered =>
       \A c \in Running : starter[c] # "service"

\* A core that the helper has spawned and that still runs is the child it
\* remembers, so that a later stop finds it; unless two /start requests were
\* both between stop and spawn.
HelperTracksCore ==
  ~overlap => \A c \in Running : starter[c] = "helper" => PROCESS = c

\* isStarting refuses restarts only while a reStart is at work, or for ever
\* after one that ended in the helper's success or in an exception.
StuckOnlyAfter ==
  isStarting /\ ~kept => \E r \in Calls : AtWork(r)

Quiet ==
  /\ ~Exiting
  /\ \A r \in Calls : pc[r] \in {"idle", "done"}
  /\ \A r \in Calls : {stopReq[r], startReq[r]} \cap {"sent", "stopped"} = {}
  /\ queue = <<>> /\ accepting = None

\* When calls and helper have finished and every connection is accepted, a core whose
\* socket is open is the one messages are written to; unless _destroySocket has
\* dropped a socket that was accepted while it awaited the close of another or has
\* thrown, the accept loop has ended, or the helper has lost a core.
LinkedWhenQuiet ==
  Quiet /\ ~clobbered /\ serving /\ ~overlap =>
    \A c \in Cores : core[c] = "connected" /\ c \notin closed => link = c
=============================================================================
