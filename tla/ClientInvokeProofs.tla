-------------------------- MODULE ClientInvokeProofs --------------------------
(***************************************************************************)
(* For every number of calls, core processes and requests, with and        *)
(* without the helper.  First the launcher by itself: neither ClashService *)
(* nor the helper loses a core it has started, restarts are refused for    *)
(* ever only after the named ends of a restart, and the core that is       *)
(* connected is the one that is written to.  Then the client on top of it: *)
(* it implements the launcher, so that what is proved of it holds here,    *)
(* and a message that was sent in peace is not left behind.                *)
(***************************************************************************)
EXTENDS ClientInvoke, TLAPS

-----------------------------------------------------------------------------
(* The launcher.                                                            *)

Types ==
  /\ pc \in [Calls -> PCs]
  /\ kind \in [Calls -> {"reStart", "shutdown"}]
  /\ last \in [Calls -> Cores \cup {None}]
  /\ isStarting \in BOOLEAN /\ serving \in BOOLEAN /\ overlap \in BOOLEAN
  /\ kept \in BOOLEAN /\ missed \in BOOLEAN /\ clobbered \in BOOLEAN
  /\ child \in [Calls -> Cores \cup {None}]
  /\ process \in Cores \cup {None} /\ link \in Cores \cup {None}
  /\ accepting \in Cores \cup {None} /\ leaving \in Cores \cup {None}
  /\ PROCESS \in Cores \cup {None}
  /\ queue \in Seq(Cores)
  /\ closed \subseteq Cores
  /\ stopReq \in [Calls -> ReqStates] /\ startReq \in [Calls -> ReqStates]
  /\ core \in [Cores -> {"unborn", "running", "connected", "dead"}]
  /\ starter \in [Cores -> {"service", "helper"}]

Launching == {"launch", "helper", "spawn", "spawned"}

\* One reStart at a time is past its guard, and isStarting says so.
StartInv ==
  /\ \A r \in Calls : pc[r] \in Launching => kind[r] = "reStart"
  /\ \A r \in Calls : AtWork(r) => isStarting
  /\ \A q, r \in Calls : AtWork(q) /\ AtWork(r) => q = r
  /\ StuckOnlyAfter

\* The field of ClashService is empty when it spawns, and so is the helper's.
TrackInv ==
  /\ \A c \in Running : starter[c] = "service" =>
       process = c \/ \E r \in Calls : pc[r] = "spawned" /\ child[r] = c
  /\ \A r \in Calls : pc[r] \in Launching => process = None
  /\ \A r \in Calls : pc[r] = "spawned" => child[r] \in Cores
  /\ ~overlap =>
       /\ \A c \in Running : starter[c] = "helper" => PROCESS = c
       /\ \A r \in Calls : startReq[r] = "stopped" => PROCESS = None
       /\ \A q, r \in Calls : startReq[q] = "stopped" /\ startReq[r] = "stopped" => q = r

\* After a shutdown that met nobody at work nothing is at work any more.
ExitInv ==
  /\ \A q, r \in Calls : kind[q] = "shutdown" /\ kind[r] = "shutdown" => q = r
  /\ (\E r \in Calls : kind[r] = "shutdown" /\ pc[r] = "done") /\ ~missed /\ ~clobbered =>
       process = None /\ \A q \in Calls : ~UnderWay(q)

\* Without the helper it is asked for nothing; before the first spawn of the client
\* nothing has been started.
FreshInv ==
  /\ ~Windows => /\ \A r \in Calls : startReq[r] = "none"
                 /\ \A c \in Cores : starter[c] = "service"
  /\ ~Exiting /\ ~isStarting /\ process = None =>
       /\ \A r \in Calls : pc[r] \in {"idle", "called"} /\ startReq[r] = "none"
       /\ PROCESS = None /\ \A c \in Cores : core[c] = "unborn"

\* What _destroySocket and the accept loop close they have marked, and while the
\* loop awaits that, nobody links another socket.
SocketInv ==
  /\ \A r \in Calls : last[r] # None => last[r] \in closed
  /\ accepting # None => leaving \in closed /\ link \in {leaving, None}

\* A socket is in one place: a connection waits in the queue once, is then awaiting
\* its turn or linked, and is closed after that.  The linked one is closed only while
\* somebody is about to replace it.
PlaceInv ==
  /\ \A i, j \in 1 .. Len(queue) : queue[i] = queue[j] => i = j
  /\ \A c \in Cores : InQueue(c) => c \notin closed /\ c # link /\ c # accepting
  /\ accepting # None => accepting \notin closed /\ accepting # link
  /\ \A c \in Cores : InQueue(c) \/ c = accepting \/ c = link \/ c \in closed =>
       core[c] \in {"connected", "dead"}
  /\ link \in closed => \/ clobbered \/ ~serving \/ accepting # None
                       \/ \E r \in Calls : pc[r] = "destroying" /\ last[r] = link

\* A restart is on its way to kill the core.
Doomed(c) ==
  \/ /\ starter[c] = "service"
     /\ \E r \in Calls : AtWork(r) /\ pc[r] \notin Launching
  \/ /\ starter[c] = "helper"
     /\ \E r \in Calls : (AtWork(r) /\ pc[r] = "stopHelper") \/ stopReq[r] = "sent"

\* A core whose socket is open is linked, about to be, or about to be killed.
LinkInv ==
  ~Exiting /\ ~clobbered /\ serving /\ ~overlap =>
    \A c \in Cores : core[c] = "connected" /\ c \notin closed =>
      InQueue(c) \/ c = accepting \/ c = link \/ Doomed(c)

LauncherInv ==
  Types /\ StartInv /\ TrackInv /\ ExitInv /\ FreshInv /\ SocketInv /\ PlaceInv /\ LinkInv

-----------------------------------------------------------------------------
LEMMA Apart == None \notin Calls /\ None \notin Cores /\ Windows \in BOOLEAN
  BY LauncherAssumption

LEMMA InitLauncher == Init => LauncherInv
  <1> SUFFICES ASSUME Init PROVE LauncherInv
    OBVIOUS
  <1> USE Apart DEF Init
  <1>1. Types
    <2>1. queue \in Seq(Cores)
      OBVIOUS
    <2> QED
      BY <2>1 DEF Types, PCs, ReqStates
  <1>2. StartInv /\ TrackInv /\ ExitInv /\ FreshInv
    BY DEF StartInv, TrackInv, ExitInv, FreshInv, Launching, AtWork, StuckOnlyAfter, Running
  <1>3. SocketInv /\ PlaceInv /\ LinkInv
    BY DEF SocketInv, PlaceInv, LinkInv, InQueue
  <1> QED
    BY <1>1, <1>2, <1>3 DEF LauncherInv

\* One step keeps the types.
LEMMA TypesKeep == ASSUME LauncherInv, Next PROVE Types'
  <1> USE Apart DEF LauncherInv, Types, PCs, ReqStates, Goto, dartVars, loopVars,
        linkVars, helperVars, coreVars
  <1>1. ASSUME NEW r \in Calls, Call(r) PROVE Types'
    BY <1>1 DEF Call
  <1>2. ASSUME NEW r \in Calls, Shutdown(r) PROVE Types'
    BY <1>2 DEF Shutdown, Stopping
  <1>3. ASSUME NEW r \in Calls, ReStartRefused(r) PROVE Types'
    BY <1>3 DEF ReStartRefused
  <1>4. ASSUME NEW r \in Calls, ReStart(r) PROVE Types'
    BY <1>4 DEF ReStart, Stopping
  <1>5. ASSUME NEW r \in Calls, AskStop(r) PROVE Types'
    BY <1>5 DEF AskStop
  <1>6. ASSUME NEW r \in Calls, StopReturns(r) PROVE Types'
    BY <1>6 DEF StopReturns
  <1>7. ASSUME NEW r \in Calls, DestroySocket(r) PROVE Types'
    BY <1>7 DEF DestroySocket
  <1>8. ASSUME NEW r \in Calls, SocketDestroyed(r) PROVE Types'
    BY <1>8 DEF SocketDestroyed
  <1>9. ASSUME NEW r \in Calls, CloseThrows(r) PROVE Types'
    BY <1>9 DEF CloseThrows
  <1>10. ASSUME NEW r \in Calls, KillProcess(r) PROVE Types'
    BY <1>10 DEF KillProcess, Died
  <1>11. ASSUME NEW r \in Calls, Launch(r) PROVE Types'
    <2>1. startReq' \in [Calls -> ReqStates] /\ pc' \in [Calls -> PCs]
      BY <1>11 DEF Launch
    <2> QED
      BY <1>11, <2>1 DEF Launch
  <1>12. ASSUME NEW r \in Calls, HelperStarted(r) PROVE Types'
    BY <1>12 DEF HelperStarted
  <1>13. ASSUME NEW r \in Calls, HelperGivenUp(r) PROVE Types'
    BY <1>13 DEF HelperGivenUp
  <1>14. ASSUME NEW r \in Calls, Spawn(r) PROVE Types'
    <2>1. PICK c \in Cores : Born(c, "service") /\ child' = [child EXCEPT ![r] = c]
      BY <1>14 DEF Spawn
    <2> QED
      BY <1>14, <2>1 DEF Spawn, Born
  <1>15. ASSUME NEW r \in Calls, SpawnReturns(r) PROVE Types'
    BY <1>15 DEF SpawnReturns, StartingReset
  <1>16. ASSUME NEW r \in Calls, SpawnThrows(r) PROVE Types'
    BY <1>16 DEF SpawnThrows
  <1>17. ASSUME NEW r \in Calls, HelperStop(r) PROVE Types'
    BY <1>17 DEF HelperStop, KillChild, Died
  <1>18. ASSUME NEW r \in Calls, HelperRefuses(r) PROVE Types'
    BY <1>18 DEF HelperRefuses
  <1>19. ASSUME NEW r \in Calls, HelperStart(r) PROVE Types'
    BY <1>19 DEF HelperStart, KillChild, Died
  <1>20. ASSUME NEW r \in Calls, HelperSpawn(r) PROVE Types'
    <2>1. PICK c \in Cores : Born(c, "helper") /\ PROCESS' = c
      BY <1>20 DEF HelperSpawn
    <2> QED
      BY <1>20, <2>1 DEF HelperSpawn, Born
  <1>21. ASSUME NEW r \in Calls, HelperSpawnFails(r) PROVE Types'
    BY <1>21 DEF HelperSpawnFails
  <1>22. ASSUME NEW c \in Cores, Connect(c) PROVE Types'
    BY <1>22 DEF Connect
  <1>23. ASSUME NEW c \in Cores, Exit(c) PROVE Types'
    BY <1>23 DEF Exit, Died
  <1>24. CASE Accept
    BY <1>24 DEF Accept
  <1>25. CASE AcceptReturns
    BY <1>25 DEF AcceptReturns, NewLink
  <1>26. CASE AcceptDies
    <2>1. queue' \in Seq(Cores)
      BY <1>26 DEF AcceptDies
    <2> QED
      BY <1>26, <2>1 DEF AcceptDies
  <1> QED
    BY <1>1, <1>2, <1>3, <1>4, <1>5, <1>6, <1>7, <1>8, <1>9, <1>10, <1>11, <1>12, <1>13,
       <1>14, <1>15, <1>16, <1>17, <1>18, <1>19, <1>20, <1>21, <1>22, <1>23, <1>24,
       <1>25, <1>26 DEF Next, DartStep, HelperStep

\* isStarting admits one reStart at a time, and is given back unless it is kept.
LEMMA StartKeeps == ASSUME LauncherInv, Next PROVE StartInv'
  <1> USE Apart DEF LauncherInv, Types, PCs, StartInv, Launching, AtWork,
        StuckOnlyAfter, Goto, dartVars, loopVars, linkVars, helperVars, coreVars
  <1>1. ASSUME NEW r \in Calls, Call(r) PROVE StartInv'
    BY <1>1 DEF Call
  <1>2. ASSUME NEW r \in Calls, Shutdown(r) PROVE StartInv'
    BY <1>2 DEF Shutdown, Stopping
  <1>3. ASSUME NEW r \in Calls, ReStartRefused(r) PROVE StartInv'
    BY <1>3 DEF ReStartRefused
  <1>4. ASSUME NEW r \in Calls, ReStart(r) PROVE StartInv'
    BY <1>4 DEF ReStart, Stopping
  <1>5. ASSUME NEW r \in Calls, AskStop(r) PROVE StartInv'
    BY <1>5 DEF AskStop
  <1>6. ASSUME NEW r \in Calls, StopReturns(r) PROVE StartInv'
    BY <1>6 DEF StopReturns
  <1>7. ASSUME NEW r \in Calls, DestroySocket(r) PROVE StartInv'
    BY <1>7 DEF DestroySocket
  <1>8. ASSUME NEW r \in Calls, SocketDestroyed(r) PROVE StartInv'
    BY <1>8 DEF SocketDestroyed
  <1>9. ASSUME NEW r \in Calls, CloseThrows(r) PROVE StartInv'
    BY <1>9 DEF CloseThrows
  <1>10. ASSUME NEW r \in Calls, KillProcess(r) PROVE StartInv'
    BY <1>10 DEF KillProcess, Died
  <1>11. ASSUME NEW r \in Calls, Launch(r) PROVE StartInv'
    BY <1>11 DEF Launch
  <1>12. ASSUME NEW r \in Calls, HelperStarted(r) PROVE StartInv'
    BY <1>12 DEF HelperStarted
  <1>13. ASSUME NEW r \in Calls, HelperGivenUp(r) PROVE StartInv'
    BY <1>13 DEF HelperGivenUp
  <1>14. ASSUME NEW r \in Calls, Spawn(r) PROVE StartInv'
    BY <1>14 DEF Spawn, Born
  <1>15. ASSUME NEW r \in Calls, SpawnReturns(r) PROVE StartInv'
    BY <1>15 DEF SpawnReturns, StartingReset
  <1>16. ASSUME NEW r \in Calls, SpawnThrows(r) PROVE StartInv'
    BY <1>16 DEF SpawnThrows
  <1>17. ASSUME NEW r \in Calls, HelperStop(r) PROVE StartInv'
    BY <1>17 DEF HelperStop, KillChild, Died
  <1>18. ASSUME NEW r \in Calls, HelperRefuses(r) PROVE StartInv'
    BY <1>18 DEF HelperRefuses
  <1>19. ASSUME NEW r \in Calls, HelperStart(r) PROVE StartInv'
    BY <1>19 DEF HelperStart, KillChild, Died
  <1>20. ASSUME NEW r \in Calls, HelperSpawn(r) PROVE StartInv'
    BY <1>20 DEF HelperSpawn, Born
  <1>21. ASSUME NEW r \in Calls, HelperSpawnFails(r) PROVE StartInv'
    BY <1>21 DEF HelperSpawnFails
  <1>22. ASSUME NEW c \in Cores, Connect(c) PROVE StartInv'
    BY <1>22 DEF Connect
  <1>23. ASSUME NEW c \in Cores, Exit(c) PROVE StartInv'
    BY <1>23 DEF Exit, Died
  <1>24. CASE Accept
    BY <1>24 DEF Accept
  <1>25. CASE AcceptReturns
    BY <1>25 DEF AcceptReturns, NewLink
  <1>26. CASE AcceptDies
    BY <1>26 DEF AcceptDies
  <1> QED
    BY <1>1, <1>2, <1>3, <1>4, <1>5, <1>6, <1>7, <1>8, <1>9, <1>10, <1>11, <1>12, <1>13,
       <1>14, <1>15, <1>16, <1>17, <1>18, <1>19, <1>20, <1>21, <1>22, <1>23, <1>24,
       <1>25, <1>26 DEF Next, DartStep, HelperStep

\* Who starts a core has none that still runs.
LEMMA TrackKeeps == ASSUME LauncherInv, Next PROVE TrackInv'
  <1> USE Apart DEF LauncherInv, Types, PCs, ReqStates, StartInv, AtWork, TrackInv,
        Launching, Running, Goto, dartVars, loopVars, linkVars,
        helperVars, coreVars
  <1>1. ASSUME NEW r \in Calls, Call(r) PROVE TrackInv'
    BY <1>1 DEF Call
  <1>2. ASSUME NEW r \in Calls, Shutdown(r) PROVE TrackInv'
    BY <1>2 DEF Shutdown, Stopping
  <1>3. ASSUME NEW r \in Calls, ReStartRefused(r) PROVE TrackInv'
    BY <1>3 DEF ReStartRefused
  <1>4. ASSUME NEW r \in Calls, ReStart(r) PROVE TrackInv'
    BY <1>4 DEF ReStart, Stopping
  <1>5. ASSUME NEW r \in Calls, AskStop(r) PROVE TrackInv'
    BY <1>5 DEF AskStop
  <1>6. ASSUME NEW r \in Calls, StopReturns(r) PROVE TrackInv'
    BY <1>6 DEF StopReturns
  <1>7. ASSUME NEW r \in Calls, DestroySocket(r) PROVE TrackInv'
    BY <1>7 DEF DestroySocket
  <1>8. ASSUME NEW r \in Calls, SocketDestroyed(r) PROVE TrackInv'
    BY <1>8 DEF SocketDestroyed
  <1>9. ASSUME NEW r \in Calls, CloseThrows(r) PROVE TrackInv'
    BY <1>9 DEF CloseThrows
  <1>10. ASSUME NEW r \in Calls, KillProcess(r) PROVE TrackInv'
    BY <1>10 DEF KillProcess, Died
  <1>11. ASSUME NEW r \in Calls, Launch(r) PROVE TrackInv'
    BY <1>11 DEF Launch
  <1>12. ASSUME NEW r \in Calls, HelperStarted(r) PROVE TrackInv'
    BY <1>12 DEF HelperStarted
  <1>13. ASSUME NEW r \in Calls, HelperGivenUp(r) PROVE TrackInv'
    BY <1>13 DEF HelperGivenUp
  <1>14. ASSUME NEW r \in Calls, Spawn(r) PROVE TrackInv'
    BY <1>14 DEF Spawn, Born
  <1>15. ASSUME NEW r \in Calls, SpawnReturns(r) PROVE TrackInv'
    <2>1. \A q \in Calls : pc[q] \in Launching => q = r
      BY <1>15 DEF SpawnReturns
    <2>2. /\ \A q \in Calls : pc'[q] \notin Launching
          /\ process' = child[r] /\ core' = core /\ starter' = starter
          /\ UNCHANGED helperVars
      BY <1>15, <2>1 DEF SpawnReturns
    <2>3. \A c \in Running : starter[c] = "service" => c = child[r]
      BY <1>15, <2>1 DEF SpawnReturns
    <2> QED
      BY <2>2, <2>3
  <1>16. ASSUME NEW r \in Calls, SpawnThrows(r) PROVE TrackInv'
    BY <1>16 DEF SpawnThrows
  <1>17. ASSUME NEW r \in Calls, HelperStop(r) PROVE TrackInv'
    BY <1>17 DEF HelperStop, KillChild, Died
  <1>18. ASSUME NEW r \in Calls, HelperRefuses(r) PROVE TrackInv'
    BY <1>18 DEF HelperRefuses
  <1>19. ASSUME NEW r \in Calls, HelperStart(r) PROVE TrackInv'
    <2>1. UNCHANGED <<pc, dartVars, starter>> /\ Running' \subseteq Running
      BY <1>19 DEF HelperStart, KillChild, Died
    <2>2. /\ \A c \in Running' : starter'[c] = "service" =>
               process' = c \/ \E q \in Calls : pc'[q] = "spawned" /\ child'[q] = c
          /\ \A q \in Calls : pc'[q] \in Launching => process' = None
          /\ \A q \in Calls : pc'[q] = "spawned" => child'[q] \in Cores
      BY <2>1
    <2>3. ASSUME ~overlap'
          PROVE /\ \A c \in Running' : starter'[c] = "helper" => PROCESS' = c
                /\ \A q \in Calls : startReq'[q] = "stopped" => PROCESS' = None
                /\ \A p, q \in Calls :
                     startReq'[p] = "stopped" /\ startReq'[q] = "stopped" => p = q
      <3>1. ~overlap /\ \A q \in Calls : startReq[q] # "stopped"
        BY <1>19, <2>3 DEF HelperStart
      <3>2. PROCESS' = None /\ startReq' = [startReq EXCEPT ![r] = "stopped"]
        BY <1>19 DEF HelperStart, KillChild
      <3>3. ASSUME NEW c \in Running', starter'[c] = "helper" PROVE FALSE
        <4>1. c \in Running /\ starter[c] = "helper"
          BY <2>1, <3>3
        <4>2. PROCESS = c /\ c # None /\ c \in Cores
          BY <3>1, <4>1
        <4>3. core'[c] = "dead"
          BY <1>19, <4>2 DEF HelperStart, KillChild, Died
        <4> QED
          BY <3>3, <4>3
      <3> QED
        BY <3>1, <3>2, <3>3
    <2> QED
      BY <2>2, <2>3
  <1>20. ASSUME NEW r \in Calls, HelperSpawn(r) PROVE TrackInv'
    BY <1>20 DEF HelperSpawn, Born
  <1>21. ASSUME NEW r \in Calls, HelperSpawnFails(r) PROVE TrackInv'
    BY <1>21 DEF HelperSpawnFails
  <1>22. ASSUME NEW c \in Cores, Connect(c) PROVE TrackInv'
    BY <1>22 DEF Connect
  <1>23. ASSUME NEW c \in Cores, Exit(c) PROVE TrackInv'
    BY <1>23 DEF Exit, Died
  <1>24. CASE Accept
    BY <1>24 DEF Accept
  <1>25. CASE AcceptReturns
    BY <1>25 DEF AcceptReturns, NewLink
  <1>26. CASE AcceptDies
    BY <1>26 DEF AcceptDies
  <1> QED
    BY <1>1, <1>2, <1>3, <1>4, <1>5, <1>6, <1>7, <1>8, <1>9, <1>10, <1>11, <1>12, <1>13,
       <1>14, <1>15, <1>16, <1>17, <1>18, <1>19, <1>20, <1>21, <1>22, <1>23, <1>24,
       <1>25, <1>26 DEF Next, DartStep, HelperStep

\* Nothing begins after a shutdown, and it has killed what it has found.
LEMMA ExitKeeps == ASSUME LauncherInv, Next PROVE ExitInv'
  <1> USE Apart DEF LauncherInv, Types, PCs, StartInv, AtWork, ExitInv, UnderWay,
        Exiting, Launching, Goto, dartVars, loopVars, linkVars, helperVars, coreVars
  <1>1. ASSUME NEW r \in Calls, Call(r) PROVE ExitInv'
    BY <1>1 DEF Call
  <1>2. ASSUME NEW r \in Calls, Shutdown(r) PROVE ExitInv'
    BY <1>2 DEF Shutdown, Stopping
  <1>3. ASSUME NEW r \in Calls, ReStartRefused(r) PROVE ExitInv'
    BY <1>3 DEF ReStartRefused
  <1>4. ASSUME NEW r \in Calls, ReStart(r) PROVE ExitInv'
    BY <1>4 DEF ReStart, Stopping
  <1>5. ASSUME NEW r \in Calls, AskStop(r) PROVE ExitInv'
    BY <1>5 DEF AskStop
  <1>6. ASSUME NEW r \in Calls, StopReturns(r) PROVE ExitInv'
    BY <1>6 DEF StopReturns
  <1>7. ASSUME NEW r \in Calls, DestroySocket(r) PROVE ExitInv'
    BY <1>7 DEF DestroySocket
  <1>8. ASSUME NEW r \in Calls, SocketDestroyed(r) PROVE ExitInv'
    BY <1>8 DEF SocketDestroyed
  <1>9. ASSUME NEW r \in Calls, CloseThrows(r) PROVE ExitInv'
    BY <1>9 DEF CloseThrows
  <1>10. ASSUME NEW r \in Calls, KillProcess(r) PROVE ExitInv'
    BY <1>10 DEF KillProcess, Died
  <1>11. ASSUME NEW r \in Calls, Launch(r) PROVE ExitInv'
    BY <1>11 DEF Launch
  <1>12. ASSUME NEW r \in Calls, HelperStarted(r) PROVE ExitInv'
    BY <1>12 DEF HelperStarted
  <1>13. ASSUME NEW r \in Calls, HelperGivenUp(r) PROVE ExitInv'
    BY <1>13 DEF HelperGivenUp
  <1>14. ASSUME NEW r \in Calls, Spawn(r) PROVE ExitInv'
    BY <1>14 DEF Spawn, Born
  <1>15. ASSUME NEW r \in Calls, SpawnReturns(r) PROVE ExitInv'
    BY <1>15 DEF SpawnReturns, StartingReset
  <1>16. ASSUME NEW r \in Calls, SpawnThrows(r) PROVE ExitInv'
    BY <1>16 DEF SpawnThrows
  <1>17. ASSUME NEW r \in Calls, HelperStop(r) PROVE ExitInv'
    BY <1>17 DEF HelperStop, KillChild, Died
  <1>18. ASSUME NEW r \in Calls, HelperRefuses(r) PROVE ExitInv'
    BY <1>18 DEF HelperRefuses
  <1>19. ASSUME NEW r \in Calls, HelperStart(r) PROVE ExitInv'
    BY <1>19 DEF HelperStart, KillChild, Died
  <1>20. ASSUME NEW r \in Calls, HelperSpawn(r) PROVE ExitInv'
    BY <1>20 DEF HelperSpawn, Born
  <1>21. ASSUME NEW r \in Calls, HelperSpawnFails(r) PROVE ExitInv'
    BY <1>21 DEF HelperSpawnFails
  <1>22. ASSUME NEW c \in Cores, Connect(c) PROVE ExitInv'
    BY <1>22 DEF Connect
  <1>23. ASSUME NEW c \in Cores, Exit(c) PROVE ExitInv'
    BY <1>23 DEF Exit, Died
  <1>24. CASE Accept
    BY <1>24 DEF Accept
  <1>25. CASE AcceptReturns
    BY <1>25 DEF AcceptReturns, NewLink
  <1>26. CASE AcceptDies
    BY <1>26 DEF AcceptDies
  <1> QED
    BY <1>1, <1>2, <1>3, <1>4, <1>5, <1>6, <1>7, <1>8, <1>9, <1>10, <1>11, <1>12, <1>13,
       <1>14, <1>15, <1>16, <1>17, <1>18, <1>19, <1>20, <1>21, <1>22, <1>23, <1>24,
       <1>25, <1>26 DEF Next, DartStep, HelperStep

\* Nothing is started before the first restart.
LEMMA FreshKeeps == ASSUME LauncherInv, Next PROVE FreshInv'
  <1> USE Apart DEF LauncherInv, Types, PCs, ReqStates, StartInv, AtWork, FreshInv,
        Exiting, Running, Launching, Goto, dartVars, loopVars, linkVars, helperVars,
        coreVars
  <1>1. ASSUME NEW r \in Calls, Call(r) PROVE FreshInv'
    BY <1>1 DEF Call
  <1>2. ASSUME NEW r \in Calls, Shutdown(r) PROVE FreshInv'
    BY <1>2 DEF Shutdown, Stopping
  <1>3. ASSUME NEW r \in Calls, ReStartRefused(r) PROVE FreshInv'
    BY <1>3 DEF ReStartRefused
  <1>4. ASSUME NEW r \in Calls, ReStart(r) PROVE FreshInv'
    BY <1>4 DEF ReStart, Stopping
  <1>5. ASSUME NEW r \in Calls, AskStop(r) PROVE FreshInv'
    BY <1>5 DEF AskStop
  <1>6. ASSUME NEW r \in Calls, StopReturns(r) PROVE FreshInv'
    BY <1>6 DEF StopReturns
  <1>7. ASSUME NEW r \in Calls, DestroySocket(r) PROVE FreshInv'
    BY <1>7 DEF DestroySocket
  <1>8. ASSUME NEW r \in Calls, SocketDestroyed(r) PROVE FreshInv'
    BY <1>8 DEF SocketDestroyed
  <1>9. ASSUME NEW r \in Calls, CloseThrows(r) PROVE FreshInv'
    BY <1>9 DEF CloseThrows
  <1>10. ASSUME NEW r \in Calls, KillProcess(r) PROVE FreshInv'
    BY <1>10 DEF KillProcess, Died
  <1>11. ASSUME NEW r \in Calls, Launch(r) PROVE FreshInv'
    BY <1>11 DEF Launch
  <1>12. ASSUME NEW r \in Calls, HelperStarted(r) PROVE FreshInv'
    BY <1>12 DEF HelperStarted
  <1>13. ASSUME NEW r \in Calls, HelperGivenUp(r) PROVE FreshInv'
    BY <1>13 DEF HelperGivenUp
  <1>14. ASSUME NEW r \in Calls, Spawn(r) PROVE FreshInv'
    BY <1>14 DEF Spawn, Born
  <1>15. ASSUME NEW r \in Calls, SpawnReturns(r) PROVE FreshInv'
    BY <1>15 DEF SpawnReturns, StartingReset, TrackInv
  <1>16. ASSUME NEW r \in Calls, SpawnThrows(r) PROVE FreshInv'
    BY <1>16 DEF SpawnThrows
  <1>17. ASSUME NEW r \in Calls, HelperStop(r) PROVE FreshInv'
    BY <1>17 DEF HelperStop, KillChild, Died
  <1>18. ASSUME NEW r \in Calls, HelperRefuses(r) PROVE FreshInv'
    BY <1>18 DEF HelperRefuses
  <1>19. ASSUME NEW r \in Calls, HelperStart(r) PROVE FreshInv'
    BY <1>19 DEF HelperStart, KillChild, Died
  <1>20. ASSUME NEW r \in Calls, HelperSpawn(r) PROVE FreshInv'
    BY <1>20 DEF HelperSpawn, Born
  <1>21. ASSUME NEW r \in Calls, HelperSpawnFails(r) PROVE FreshInv'
    BY <1>21 DEF HelperSpawnFails
  <1>22. ASSUME NEW c \in Cores, Connect(c) PROVE FreshInv'
    BY <1>22 DEF Connect
  <1>23. ASSUME NEW c \in Cores, Exit(c) PROVE FreshInv'
    BY <1>23 DEF Exit, Died
  <1>24. CASE Accept
    BY <1>24 DEF Accept
  <1>25. CASE AcceptReturns
    BY <1>25 DEF AcceptReturns, NewLink
  <1>26. CASE AcceptDies
    BY <1>26 DEF AcceptDies
  <1> QED
    BY <1>1, <1>2, <1>3, <1>4, <1>5, <1>6, <1>7, <1>8, <1>9, <1>10, <1>11, <1>12, <1>13,
       <1>14, <1>15, <1>16, <1>17, <1>18, <1>19, <1>20, <1>21, <1>22, <1>23, <1>24,
       <1>25, <1>26 DEF Next, DartStep, HelperStep

\* What is being closed stays marked.
LEMMA SocketKeeps == ASSUME LauncherInv, Next PROVE SocketInv'
  <1> USE Apart DEF LauncherInv, Types, SocketInv, Goto, dartVars, loopVars, linkVars,
        helperVars, coreVars
  <1>1. ASSUME NEW r \in Calls, Call(r) PROVE SocketInv'
    BY <1>1 DEF Call
  <1>2. ASSUME NEW r \in Calls, Shutdown(r) PROVE SocketInv'
    BY <1>2 DEF Shutdown, Stopping
  <1>3. ASSUME NEW r \in Calls, ReStartRefused(r) PROVE SocketInv'
    BY <1>3 DEF ReStartRefused
  <1>4. ASSUME NEW r \in Calls, ReStart(r) PROVE SocketInv'
    BY <1>4 DEF ReStart, Stopping
  <1>5. ASSUME NEW r \in Calls, AskStop(r) PROVE SocketInv'
    BY <1>5 DEF AskStop
  <1>6. ASSUME NEW r \in Calls, StopReturns(r) PROVE SocketInv'
    BY <1>6 DEF StopReturns
  <1>7. ASSUME NEW r \in Calls, DestroySocket(r) PROVE SocketInv'
    BY <1>7 DEF DestroySocket
  <1>8. ASSUME NEW r \in Calls, SocketDestroyed(r) PROVE SocketInv'
    BY <1>8 DEF SocketDestroyed
  <1>9. ASSUME NEW r \in Calls, CloseThrows(r) PROVE SocketInv'
    BY <1>9 DEF CloseThrows
  <1>10. ASSUME NEW r \in Calls, KillProcess(r) PROVE SocketInv'
    BY <1>10 DEF KillProcess, Died
  <1>11. ASSUME NEW r \in Calls, Launch(r) PROVE SocketInv'
    BY <1>11 DEF Launch
  <1>12. ASSUME NEW r \in Calls, HelperStarted(r) PROVE SocketInv'
    BY <1>12 DEF HelperStarted
  <1>13. ASSUME NEW r \in Calls, HelperGivenUp(r) PROVE SocketInv'
    BY <1>13 DEF HelperGivenUp
  <1>14. ASSUME NEW r \in Calls, Spawn(r) PROVE SocketInv'
    BY <1>14 DEF Spawn, Born
  <1>15. ASSUME NEW r \in Calls, SpawnReturns(r) PROVE SocketInv'
    BY <1>15 DEF SpawnReturns, StartingReset
  <1>16. ASSUME NEW r \in Calls, SpawnThrows(r) PROVE SocketInv'
    BY <1>16 DEF SpawnThrows
  <1>17. ASSUME NEW r \in Calls, HelperStop(r) PROVE SocketInv'
    BY <1>17 DEF HelperStop, KillChild, Died
  <1>18. ASSUME NEW r \in Calls, HelperRefuses(r) PROVE SocketInv'
    BY <1>18 DEF HelperRefuses
  <1>19. ASSUME NEW r \in Calls, HelperStart(r) PROVE SocketInv'
    BY <1>19 DEF HelperStart, KillChild, Died
  <1>20. ASSUME NEW r \in Calls, HelperSpawn(r) PROVE SocketInv'
    BY <1>20 DEF HelperSpawn, Born
  <1>21. ASSUME NEW r \in Calls, HelperSpawnFails(r) PROVE SocketInv'
    BY <1>21 DEF HelperSpawnFails
  <1>22. ASSUME NEW c \in Cores, Connect(c) PROVE SocketInv'
    BY <1>22 DEF Connect
  <1>23. ASSUME NEW c \in Cores, Exit(c) PROVE SocketInv'
    BY <1>23 DEF Exit, Died
  <1>24. CASE Accept
    BY <1>24 DEF Accept
  <1>25. CASE AcceptReturns
    BY <1>25 DEF AcceptReturns, NewLink
  <1>26. CASE AcceptDies
    BY <1>26 DEF AcceptDies
  <1> QED
    BY <1>1, <1>2, <1>3, <1>4, <1>5, <1>6, <1>7, <1>8, <1>9, <1>10, <1>11, <1>12, <1>13,
       <1>14, <1>15, <1>16, <1>17, <1>18, <1>19, <1>20, <1>21, <1>22, <1>23, <1>24,
       <1>25, <1>26 DEF Next, DartStep, HelperStep

\* A connection in the queue is its head or stays in the queue.
LEMMA Dequeued == ASSUME queue \in Seq(Cores), queue # <<>>
  PROVE /\ Head(queue) \in Cores
        /\ \A c \in Cores : InQueue(c) =>
             c = Head(queue) \/ \E i \in 1 .. Len(Tail(queue)) : Tail(queue)[i] = c
  <1> SUFFICES ASSUME NEW c \in Cores, InQueue(c), c # Head(queue)
               PROVE \E i \in 1 .. Len(Tail(queue)) : Tail(queue)[i] = c
    OBVIOUS
  <1>1. PICK i \in 1 .. Len(queue) : queue[i] = c
    BY DEF InQueue
  <1>2. i # 1 /\ i - 1 \in 1 .. Len(Tail(queue)) /\ Tail(queue)[i - 1] = c
    BY <1>1
  <1> QED
    BY <1>2

\* Sockets move from the queue to the completer and from there to the closed ones.
LEMMA PlaceKeeps == ASSUME LauncherInv, Next PROVE PlaceInv'
  <1> USE Apart DEF LauncherInv, Types, PCs, SocketInv, PlaceInv, InQueue, Running, Goto,
        dartVars, loopVars, linkVars, helperVars, coreVars
  <1>1. ASSUME NEW r \in Calls, Call(r) PROVE PlaceInv'
    BY <1>1 DEF Call
  <1>2. ASSUME NEW r \in Calls, Shutdown(r) PROVE PlaceInv'
    BY <1>2 DEF Shutdown, Stopping
  <1>3. ASSUME NEW r \in Calls, ReStartRefused(r) PROVE PlaceInv'
    BY <1>3 DEF ReStartRefused
  <1>4. ASSUME NEW r \in Calls, ReStart(r) PROVE PlaceInv'
    BY <1>4 DEF ReStart, Stopping
  <1>5. ASSUME NEW r \in Calls, AskStop(r) PROVE PlaceInv'
    BY <1>5 DEF AskStop
  <1>6. ASSUME NEW r \in Calls, StopReturns(r) PROVE PlaceInv'
    BY <1>6 DEF StopReturns
  <1>7. ASSUME NEW r \in Calls, DestroySocket(r) PROVE PlaceInv'
    BY <1>7 DEF DestroySocket
  <1>8. ASSUME NEW r \in Calls, SocketDestroyed(r) PROVE PlaceInv'
    BY <1>8 DEF SocketDestroyed
  <1>9. ASSUME NEW r \in Calls, CloseThrows(r) PROVE PlaceInv'
    BY <1>9 DEF CloseThrows
  <1>10. ASSUME NEW r \in Calls, KillProcess(r) PROVE PlaceInv'
    BY <1>10 DEF KillProcess, Died
  <1>11. ASSUME NEW r \in Calls, Launch(r) PROVE PlaceInv'
    BY <1>11 DEF Launch
  <1>12. ASSUME NEW r \in Calls, HelperStarted(r) PROVE PlaceInv'
    BY <1>12 DEF HelperStarted
  <1>13. ASSUME NEW r \in Calls, HelperGivenUp(r) PROVE PlaceInv'
    BY <1>13 DEF HelperGivenUp
  <1>14. ASSUME NEW r \in Calls, Spawn(r) PROVE PlaceInv'
    BY <1>14 DEF Spawn, Born
  <1>15. ASSUME NEW r \in Calls, SpawnReturns(r) PROVE PlaceInv'
    BY <1>15 DEF SpawnReturns, StartingReset
  <1>16. ASSUME NEW r \in Calls, SpawnThrows(r) PROVE PlaceInv'
    BY <1>16 DEF SpawnThrows
  <1>17. ASSUME NEW r \in Calls, HelperStop(r) PROVE PlaceInv'
    BY <1>17 DEF HelperStop, KillChild, Died
  <1>18. ASSUME NEW r \in Calls, HelperRefuses(r) PROVE PlaceInv'
    BY <1>18 DEF HelperRefuses
  <1>19. ASSUME NEW r \in Calls, HelperStart(r) PROVE PlaceInv'
    BY <1>19 DEF HelperStart, KillChild, Died
  <1>20. ASSUME NEW r \in Calls, HelperSpawn(r) PROVE PlaceInv'
    BY <1>20 DEF HelperSpawn, Born
  <1>21. ASSUME NEW r \in Calls, HelperSpawnFails(r) PROVE PlaceInv'
    BY <1>21 DEF HelperSpawnFails
  <1>22. ASSUME NEW c \in Cores, Connect(c) PROVE PlaceInv'
    BY <1>22 DEF Connect
  <1>23. ASSUME NEW c \in Cores, Exit(c) PROVE PlaceInv'
    BY <1>23 DEF Exit, Died
  <1>24. CASE Accept
    BY <1>24 DEF Accept
  <1>25. CASE AcceptReturns
    BY <1>25 DEF AcceptReturns, NewLink
  <1>26. CASE AcceptDies
    BY <1>26 DEF AcceptDies
  <1> QED
    BY <1>1, <1>2, <1>3, <1>4, <1>5, <1>6, <1>7, <1>8, <1>9, <1>10, <1>11, <1>12, <1>13,
       <1>14, <1>15, <1>16, <1>17, <1>18, <1>19, <1>20, <1>21, <1>22, <1>23, <1>24,
       <1>25, <1>26 DEF Next, DartStep, HelperStep

\* A connected core stays linked, or about to be, or about to be killed.
LEMMA LinkKeeps == ASSUME LauncherInv, Next PROVE LinkInv'
  <1> USE Apart DEF LauncherInv, Types, PCs, StartInv, AtWork, TrackInv,
        Running, FreshInv, SocketInv, LinkInv, InQueue, Doomed,
        Exiting, Launching, Goto, dartVars, loopVars, linkVars, helperVars, coreVars
  <1>1. ASSUME NEW r \in Calls, Call(r) PROVE LinkInv'
    BY <1>1 DEF Call
  <1>2. ASSUME NEW r \in Calls, Shutdown(r) PROVE LinkInv'
    BY <1>2 DEF Shutdown, Stopping
  <1>3. ASSUME NEW r \in Calls, ReStartRefused(r) PROVE LinkInv'
    BY <1>3 DEF ReStartRefused
  <1>4. ASSUME NEW r \in Calls, ReStart(r) PROVE LinkInv'
    BY <1>4 DEF ReStart, Stopping
  <1>5. ASSUME NEW r \in Calls, AskStop(r) PROVE LinkInv'
    BY <1>5 DEF AskStop
  <1>6. ASSUME NEW r \in Calls, StopReturns(r) PROVE LinkInv'
    BY <1>6 DEF StopReturns
  <1>7. ASSUME NEW r \in Calls, DestroySocket(r) PROVE LinkInv'
    BY <1>7 DEF DestroySocket
  <1>8. ASSUME NEW r \in Calls, SocketDestroyed(r) PROVE LinkInv'
    BY <1>8 DEF SocketDestroyed
  <1>9. ASSUME NEW r \in Calls, CloseThrows(r) PROVE LinkInv'
    BY <1>9 DEF CloseThrows
  <1>10. ASSUME NEW r \in Calls, KillProcess(r) PROVE LinkInv'
    BY <1>10 DEF KillProcess, Died
  <1>11. ASSUME NEW r \in Calls, Launch(r) PROVE LinkInv'
    BY <1>11 DEF Launch
  <1>12. ASSUME NEW r \in Calls, HelperStarted(r) PROVE LinkInv'
    BY <1>12 DEF HelperStarted
  <1>13. ASSUME NEW r \in Calls, HelperGivenUp(r) PROVE LinkInv'
    BY <1>13 DEF HelperGivenUp
  <1>14. ASSUME NEW r \in Calls, Spawn(r) PROVE LinkInv'
    BY <1>14 DEF Spawn, Born
  <1>15. ASSUME NEW r \in Calls, SpawnReturns(r) PROVE LinkInv'
    BY <1>15 DEF SpawnReturns, StartingReset
  <1>16. ASSUME NEW r \in Calls, SpawnThrows(r) PROVE LinkInv'
    BY <1>16 DEF SpawnThrows
  <1>17. ASSUME NEW r \in Calls, HelperStop(r) PROVE LinkInv'
    BY <1>17 DEF HelperStop, KillChild, Died
  <1>18. ASSUME NEW r \in Calls, HelperRefuses(r) PROVE LinkInv'
    BY <1>18 DEF HelperRefuses
  <1>19. ASSUME NEW r \in Calls, HelperStart(r) PROVE LinkInv'
    BY <1>19 DEF HelperStart, KillChild, Died
  <1>20. ASSUME NEW r \in Calls, HelperSpawn(r) PROVE LinkInv'
    BY <1>20 DEF HelperSpawn, Born
  <1>21. ASSUME NEW r \in Calls, HelperSpawnFails(r) PROVE LinkInv'
    BY <1>21 DEF HelperSpawnFails
  <1>22. ASSUME NEW c \in Cores, Connect(c) PROVE LinkInv'
    BY <1>22 DEF Connect
  <1>23. ASSUME NEW c \in Cores, Exit(c) PROVE LinkInv'
    BY <1>23 DEF Exit, Died
  <1>24. CASE Accept
    <2>1. queue \in Seq(Cores) /\ queue # <<>> /\ queue' = Tail(queue)
      BY <1>24 DEF Accept
    <2>2. \A c \in Cores : InQueue(c) => c = Head(queue) \/ InQueue(c)'
      BY <2>1, Dequeued
    <2>3. CASE link = None
      BY <1>24, <2>2, <2>3 DEF Accept
    <2>4. CASE link # None
      BY <1>24, <2>2, <2>4 DEF Accept
    <2> QED
      BY <2>3, <2>4
  <1>25. CASE AcceptReturns
    BY <1>25 DEF AcceptReturns, NewLink
  <1>26. CASE AcceptDies
    BY <1>26 DEF AcceptDies
  <1> QED
    BY <1>1, <1>2, <1>3, <1>4, <1>5, <1>6, <1>7, <1>8, <1>9, <1>10, <1>11, <1>12, <1>13,
       <1>14, <1>15, <1>16, <1>17, <1>18, <1>19, <1>20, <1>21, <1>22, <1>23, <1>24,
       <1>25, <1>26 DEF Next, DartStep, HelperStep

LEMMA LauncherKeeps == ASSUME LauncherInv, [Next]_launcherVars PROVE LauncherInv'
  <1>1. CASE Next
    BY <1>1, TypesKeep, StartKeeps, TrackKeeps, ExitKeeps, FreshKeeps, SocketKeeps,
       PlaceKeeps, LinkKeeps DEF LauncherInv
  <1>2. CASE UNCHANGED launcherVars
    BY <1>2 DEF launcherVars, LauncherInv, Types, StartInv, AtWork, StuckOnlyAfter,
       TrackInv, Running, ExitInv, UnderWay, FreshInv, Exiting, SocketInv, PlaceInv,
       LinkInv, InQueue, Doomed
  <1> QED
    BY <1>1, <1>2

\* What the inductive invariant says of the properties.
LEMMA LauncherImplies == ASSUME LauncherInv
  PROVE /\ TypeOK /\ ServiceTracksCore /\ HelperTracksCore /\ StuckOnlyAfter
        /\ LinkedWhenQuiet
  <1> USE DEF LauncherInv
  <1>1. TypeOK
    BY DEF Types, StartInv, TypeOK
  <1>2. ServiceTracksCore /\ HelperTracksCore /\ StuckOnlyAfter
    BY Apart DEF TrackInv, ExitInv, UnderWay, ServiceTracksCore, HelperTracksCore, StartInv,
       Running
  <1>3. LinkedWhenQuiet
    <2> SUFFICES ASSUME Quiet, ~clobbered, serving, ~overlap, NEW c \in Cores,
                        core[c] = "connected", c \notin closed
                 PROVE link = c
      BY DEF LinkedWhenQuiet
    <2>1. ~InQueue(c)
      BY DEF Quiet, InQueue
    <2>2. c # accepting
      BY Apart DEF Quiet
    <2>3. ~Doomed(c)
      BY DEF Quiet, Doomed, AtWork, Types
    <2> QED
      BY <2>1, <2>2, <2>3 DEF LinkInv, Quiet
  <1> QED
    BY <1>1, <1>2, <1>3

\* The launcher by itself never leaves the inductive invariant.
THEOREM LauncherSafe == Spec => []LauncherInv
  BY InitLauncher, LauncherKeeps, PTL DEF Spec

-----------------------------------------------------------------------------
(* The client.                                                              *)

\* What waits for the completer waits for one that is open.
AwaitInv == Awaiting # {} => link = None

\* While a calm message waits nothing is at work that could replace the completer.
CalmInv ==
  /\ calm \cap Awaiting # {} => AtPeace
  /\ \A i \in calm : message[i] # "stranded" /\ caller[i] # "idle"
  /\ \A i \in calm : message[i] = "lost" => clobbered \/ ~serving

MapInv == \A i \in Invokes : caller[i] = "waiting" => i \in callbacks

ClientTypes ==
  /\ callbacks \subseteq Invokes
  /\ caller \in [Invokes -> CallerStates]
  /\ message \in [Invokes -> MessageStates]
  /\ target \in [Invokes -> Cores \cup {None}]
  /\ calm \subseteq Invokes

ClientInv == ClientTypes /\ AwaitInv /\ CalmInv /\ MapInv

-----------------------------------------------------------------------------
\* Every step of the client is a step of the launcher, or leaves it alone.
LEMMA StepsMap == [ClientNext]_vars => [Next]_launcherVars
  BY DEF ClientNext, LauncherNext, InvokeNext, Replace, BeginShutdown, Destroyed, Linked,
     Aside, OtherDartStep, Invoke, Answer, HandleResult, TimeOut, Forget, Next, DartStep, vars

\* The client with its requests implements the launcher.
THEOREM Implements == ClientSpec => Spec
  <1>1. ClientInit => Init
    BY DEF ClientInit
  <1> QED
    BY <1>1, StepsMap, PTL DEF ClientSpec, Spec

LEMMA InitClient == ClientInit => ClientInv
  BY DEF ClientInit, Init, ClientInv, ClientTypes, AwaitInv, CalmInv, MapInv, Awaiting,
     CallerStates, MessageStates

\* Steps of the requests.
LEMMA InvokeKeeps == ASSUME ClientInv, Types, PlaceInv, InvokeNext PROVE ClientInv'
  <1> USE Apart DEF ClientInv, ClientTypes, AwaitInv, CalmInv, MapInv, Awaiting, CallerStates,
        MessageStates, AtPeace, launcherVars
  <1>1. ASSUME NEW i \in Invokes, Invoke(i) PROVE ClientInv'
    <2>1. link \in Cores \cup {None} /\ link' = link
      BY <1>1 DEF Types, Invoke
    <2>2. PICK how \in {"waiting", "written", "lost"}, where \in Cores \cup {None} :
            Sent(i, how, where) /\ (how = "waiting" => link = None)
      BY <1>1, <2>1 DEF Invoke
    <2>3. ClientTypes'
      BY <1>1, <2>2 DEF Invoke, Sent
    <2>4. AwaitInv'
      BY <1>1, <2>1, <2>2 DEF Invoke, Sent
    <2>5. AtPeace' = AtPeace
      BY <1>1 DEF Invoke
    <2>6. CalmInv'
      <3>1. AtPeace /\ how = "lost" => clobbered \/ ~serving
        BY <1>1, <2>2 DEF Invoke, Sent, PlaceInv, AtPeace, Types
      <3>2. \A j \in Invokes : j # i => message'[j] = message[j] /\ caller'[j] = caller[j]
        BY <1>1, <2>2 DEF Invoke, Sent
      <3>3. message'[i] = how /\ caller'[i] = "waiting" /\ UNCHANGED launcherVars
        BY <1>1, <2>2 DEF Invoke, Sent
      <3>4. calm' = (IF AtPeace THEN calm \cup {i} ELSE calm) /\ i \notin calm
        BY <1>1 DEF Invoke
      <3> QED
        BY <2>5, <3>1, <3>2, <3>3, <3>4
    <2>7. MapInv'
      BY <1>1 DEF Invoke
    <2> QED
      BY <2>3, <2>4, <2>6, <2>7
  <1>2. ASSUME NEW i \in Invokes, Answer(i) PROVE ClientInv'
    BY <1>2 DEF Answer
  <1>3. ASSUME NEW i \in Invokes, HandleResult(i) PROVE ClientInv'
    BY <1>3 DEF HandleResult
  <1>4. ASSUME NEW i \in Invokes, TimeOut(i) PROVE ClientInv'
    BY <1>4 DEF TimeOut
  <1>5. ASSUME NEW i \in Invokes, Forget(i) PROVE ClientInv'
    BY <1>5 DEF Forget, Expired
  <1> QED
    BY <1>1, <1>2, <1>3, <1>4, <1>5 DEF InvokeNext

\* Steps of the launcher: a completer that is replaced is not awaited by a calm
\* message, and one that is completed leaves nobody waiting.
LEMMA LauncherStepKeeps ==
  ASSUME ClientInv, Types, LauncherNext PROVE ClientInv'
  <1> USE Apart DEF ClientInv, ClientTypes, AwaitInv, CalmInv, MapInv, Awaiting, CallerStates,
        MessageStates
  <1>1. ASSUME NEW r \in Calls, Replace(r) PROVE ClientInv'
    BY <1>1 DEF Replace, ReStart, Strand, Moved
  <1>2. ASSUME NEW r \in Calls, BeginShutdown(r) PROVE ClientInv'
    BY <1>2 DEF BeginShutdown, Shutdown, linkVars
  <1>3. CASE Destroyed
    <2>1. ~AtPeace /\ (clobbered => clobbered') /\ serving' = serving
      <3>1. CASE AcceptReturns
        BY <3>1 DEF AcceptReturns, AtPeace
      <3>2. ASSUME NEW r \in Calls, SocketDestroyed(r)
            PROVE ~AtPeace /\ (clobbered => clobbered') /\ serving' = serving
        <4>1. ~AtPeace
          BY <3>2 DEF SocketDestroyed, AtPeace
        <4>2. clobbered' = (clobbered \/ link \notin {None, last[r]}) /\ serving' = serving
          BY <3>2 DEF SocketDestroyed, loopVars
        <4> QED
          BY <4>1, <4>2, Zenon
      <3> QED
        BY <1>3, <3>1, <3>2 DEF Destroyed
    <2> QED
      BY <1>3, <2>1 DEF Destroyed, Strand, Moved
  <1>4. CASE Linked
    <2>1. CASE link = None
      <3>1. Head(queue) \in Cores /\ UNCHANGED <<clobbered, serving>>
        BY <1>4, Dequeued DEF Linked, Accept, Types
      <3> QED
        BY <1>4, <2>1, <3>1 DEF Linked, WrittenTo, Moved
    <2>2. CASE link # None
      BY <1>4, <2>2 DEF Linked, Accept
    <2> QED
      BY <2>1, <2>2
  <1>5. CASE Aside
    <2>1. UNCHANGED invokeVars
      BY <1>5 DEF Aside
    <2>2. link' = link
      BY <1>5 DEF Aside, Call, OtherDartStep, HelperStep, ReStartRefused, AskStop, StopReturns,
         DestroySocket, CloseThrows, KillProcess, Launch, HelperStarted, HelperGivenUp, Spawn,
         SpawnReturns, SpawnThrows, HelperStop, HelperRefuses, HelperStart, HelperSpawn,
         HelperSpawnFails, Connect, Exit, AcceptDies, linkVars
    <2>3. (clobbered => clobbered') /\ (serving' => serving)
      BY <1>5 DEF Aside, Call, OtherDartStep, HelperStep, ReStartRefused, AskStop, StopReturns,
         DestroySocket, CloseThrows, KillProcess, Launch, HelperStarted, HelperGivenUp, Spawn,
         SpawnReturns, SpawnThrows, HelperStop, HelperRefuses, HelperStart, HelperSpawn,
         HelperSpawnFails, Connect, Exit, AcceptDies, linkVars, loopVars
    <2>4. AtPeace => AtPeace'
      BY <1>5 DEF Aside, Call, OtherDartStep, HelperStep, ReStartRefused, AskStop, StopReturns,
         DestroySocket, CloseThrows, KillProcess, Launch, HelperStarted, HelperGivenUp, Spawn,
         SpawnReturns, SpawnThrows, HelperStop, HelperRefuses, HelperStart, HelperSpawn,
         HelperSpawnFails, Connect, Exit, AcceptDies, linkVars, loopVars, Goto, AtPeace, Types
    <2> QED
      BY <2>1, <2>2, <2>3, <2>4 DEF invokeVars
  <1> QED
    BY <1>1, <1>2, <1>3, <1>4, <1>5 DEF LauncherNext

LEMMA ClientKeeps == ASSUME ClientInv, LauncherInv, [ClientNext]_vars PROVE ClientInv'
  <1>1. CASE UNCHANGED vars
    BY <1>1 DEF vars, invokeVars, launcherVars, ClientInv, ClientTypes, AwaitInv, CalmInv, MapInv,
       Awaiting, AtPeace
  <1> QED
    BY <1>1, InvokeKeeps, LauncherStepKeeps DEF LauncherInv, ClientNext

LEMMA Inductive == ClientSpec => [](LauncherInv /\ ClientInv)
  <1>1. ClientSpec => []LauncherInv
    BY Implements, LauncherSafe, PTL
  <1>2. ClientSpec => []ClientInv
    BY <1>1, InitClient, ClientKeeps, PTL DEF ClientSpec
  <1> QED
    BY <1>1, <1>2, PTL

-----------------------------------------------------------------------------
\* The variables keep their types, and a message awaits only an open completer.
THEOREM Typed == ClientSpec => []ClientTypeOK
  <1>1. LauncherInv /\ ClientInv => ClientTypeOK
    BY LauncherImplies DEF ClientInv, ClientTypes, AwaitInv, ClientTypeOK
  <1> QED
    BY Inductive, <1>1, PTL

\* ClashService never loses a core it has started, and what a shutdown has left
\* running is the core of a restart it has met.
THEOREM ServiceTracks == ClientSpec => []ServiceTracksCore
  BY Inductive, LauncherImplies, PTL

\* Nor does the helper, unless two /start requests overlap.
THEOREM HelperTracks == ClientSpec => []HelperTracksCore
  BY Inductive, LauncherImplies, PTL

\* Restarts are refused for ever only after the helper's success or an exception.
THEOREM NotStuck == ClientSpec => []StuckOnlyAfter
  BY Inductive, LauncherImplies, PTL

\* When all is quiet, the core whose socket is open is the one written to.
THEOREM Linking == ClientSpec => []LinkedWhenQuiet
  BY Inductive, LauncherImplies, PTL

\* A message sent in peace is not left behind, nor written to a closed socket, the
\* cores it may be written to are all before the accept loop, and its answer finds
\* its completer, with the exceptions the property names.
THEOREM Arrives == ClientSpec => []QuietMessagesArrive
  <1>1. ASSUME LauncherInv, ClientInv PROVE QuietMessagesArrive
    <2>1. ASSUME NEW i \in calm, message[i] = "waiting", ~Exiting, Sound,
                 NEW c \in Cores, core[c] = "connected", c \notin closed
          PROVE InQueue(c)
      <3>1. AtPeace /\ link = None
        BY <1>1, <2>1 DEF ClientInv, ClientTypes, CalmInv, AwaitInv, Awaiting
      <3>2. ~Doomed(c)
        BY <1>1, <2>1, <3>1 DEF Doomed, AtPeace, AtWork, Sound, LauncherInv, Types
      <3> QED
        BY <1>1, <2>1, <3>1, <3>2, Apart DEF LauncherInv, LinkInv, Sound, AtPeace
    <2> QED
      BY <1>1, <2>1 DEF ClientInv, CalmInv, MapInv, QuietMessagesArrive
  <1> QED
    BY Inductive, <1>1, PTL
=============================================================================
