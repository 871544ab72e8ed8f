------------------------------- MODULE Provider -------------------------------
(***************************************************************************)
(* A proxy provider that is fetched over HTTP: resource.Fetcher and        *)
(* HTTPVehicle, the ETag kept in the cache file, baseProvider.setProxies,  *)
(* and the cache of GroupBase.GetProxies.                                  *)
(*                                                                         *)
(* The contents are fetched by the pull loop, by updates the client asks   *)
(* for, and pushed by the client (SideUpdate).  They are read outside      *)
(* loadBufMutex and installed under it, so what is installed may be older  *)
(* than what is there.  A hash stands for its contents.  The process may   *)
(* end anywhere; the file and the ETag survive.                            *)
(*                                                                         *)
(* The group reads version and proxies without a lock of the provider.     *)
(* The two are stored, and seen, in the order of the code, as on amd64.    *)
(***************************************************************************)
EXTENDS Naturals

CONSTANTS
  Loop,         \* the goroutine of pullLoop
  Apis,         \* goroutines of handleUpdateExternalProvider
  Sides,        \* goroutines of handleSideLoadExternalProvider
  Dials,        \* goroutines that dial through the group
  Contents,     \* what the server or the client may send
  Bad,          \* those that do not parse
  Torn,         \* a file written in part, which may parse all the same
  Payload,      \* the fallback proxies the profile names for the provider, or None
  None,         \* nil, no file, nobody
  MaxChanges,   \* bound on the changes on the server
  MaxRestarts   \* bound on the restarts of the process

Pullers == {Loop} \cup Apis
Loaders == Pullers \cup Sides
Threads == Loaders \cup Dials

ASSUME ProviderAssumption ==
  /\ Bad \subseteq Contents
  /\ None \notin Contents \cup Threads \cup Nat /\ Torn \notin Contents \cup {None}
  /\ Payload \notin Contents \cup {Torn}
  /\ Loop \notin Apis \cup Sides \cup Dials
  /\ Apis \cap Sides = {} /\ (Apis \cup Sides) \cap Dials = {}
  /\ MaxChanges \in Nat /\ MaxRestarts \in Nat

VARIABLES
  remote,        \* what the server has
  changes, restarts,
  etag,          \* EtagWithHash in the cache file, by the contents it belongs to
  file,          \* the file at vehicle.Path()
  hash,          \* f.hash
  proxies,       \* bp.proxies, by the contents they were parsed from
  version,       \* bp.version
  loadBufMutex,  \* its holder
  pc,            \* where each goroutine is
  held,          \* the If-None-Match of its request, then the buffer it has read
  seen,          \* the version a dial has read
  cachedVersion, \* providerVersions of the group; None before the first
  cached         \* providerProxies

vars == <<remote, changes, restarts, etag, file, hash, proxies, version,
          loadBufMutex, pc, held, seen, cachedVersion, cached>>

worldVars == <<remote, changes, restarts>>
contentVars == <<hash, proxies, version>>
groupVars == <<seen, cachedVersion, cached>>

Holding == {"write", "install", "bump"}
PCs == Holding \cup {"idle", "asked", "answered", "load", "dialing", "done"}

Parses(c) == c \in Contents \ Bad

\* NewProxySetProvider begins with the payload; nothing has been loaded yet.
Installed(h) == IF h = None THEN Payload ELSE h

Init ==
  /\ remote \in Contents
  /\ changes = 0 /\ restarts = 0
  /\ etag = None /\ file = None
  /\ hash = None /\ proxies = Payload /\ version = 0
  /\ loadBufMutex = None
  /\ pc = [t \in Threads |-> "idle"]
  /\ held = [t \in Loaders |-> None]
  /\ seen = [d \in Dials |-> 0]
  /\ cachedVersion = None /\ cached = None

Goto(t, place) == pc' = [pc EXCEPT ![t] = place]

Hold(t, c) == held' = [held EXCEPT ![t] = c]

\* The pull loop waits for its timer, every other call is over.
End(t) == Goto(t, IF t = Loop THEN "idle" ELSE "done") /\ Hold(t, None)

-----------------------------------------------------------------------------
\* Faulty variant: the ETag is sent whatever contents are loaded.
AlwaysSend == etag

\* The If-None-Match of a request: the ETag of the contents that are loaded.
TagToSend == IF hash = etag THEN etag ELSE None

\* Update: vehicle.Read(f.ctx, f.hash) sends its request.
Ask(p) ==
  /\ pc[p] = "idle"
  /\ Hold(p, TagToSend)
  /\ Goto(p, "asked")
  /\ UNCHANGED <<worldVars, etag, file, contentVars, loadBufMutex, groupVars>>

\* The request fails, or the body of its answer does.
ReadFails(p) ==
  /\ pc[p] \in {"asked", "answered"}
  /\ End(p)
  /\ UNCHANGED <<worldVars, etag, file, contentVars, loadBufMutex, groupVars>>

\* 304: return nil, oldHash, nil
NotModified(p) ==
  /\ pc[p] = "asked"
  /\ held[p] = remote
  /\ Hold(p, None)
  /\ Goto(p, "load")
  /\ UNCHANGED <<worldVars, etag, file, contentVars, loadBufMutex, groupVars>>

\* 200, with what the server has.
Answered(p) ==
  /\ pc[p] = "asked"
  /\ held[p] # remote
  /\ Hold(p, remote)
  /\ Goto(p, "answered")
  /\ UNCHANGED <<worldVars, etag, file, contentVars, loadBufMutex, groupVars>>

\* The body has been read, whatever the server has by now: its ETag is stored
\* before anybody has parsed what it belongs to.
Fetched(p) ==
  /\ pc[p] = "answered"
  /\ etag' = held[p]
  /\ Goto(p, "load")
  /\ UNCHANGED <<worldVars, file, contentVars, loadBufMutex, held, groupVars>>

\* SideUpdate with contents the client has sent.
SideUpdate(s) ==
  /\ pc[s] = "idle"
  /\ \E c \in Contents : Hold(s, c)
  /\ Goto(s, "load")
  /\ UNCHANGED <<worldVars, etag, file, contentVars, loadBufMutex, groupVars>>

-----------------------------------------------------------------------------
\* loadBuf returns at once: the hash is the same, the answer was 304, whatever the
\* hash is by now, or the parser refuses the contents.
NothingToLoad(t) ==
  \/ held[t] = hash
  \/ held[t] = None
  \/ ~Parses(held[t])

\* Faulty variant: the mutex is not waited for.
NoWait == TRUE

MutexFree == loadBufMutex = None

Load(t) ==
  /\ pc[t] = "load"
  /\ MutexFree
  /\ IF NothingToLoad(t)
     THEN End(t) /\ UNCHANGED loadBufMutex
     ELSE Goto(t, "write") /\ loadBufMutex' = t /\ UNCHANGED held
  /\ UNCHANGED <<worldVars, etag, file, contentVars, groupVars>>

\* f.vehicle.Write(buf)
WriteFile(t) ==
  /\ pc[t] = "write"
  /\ file' = held[t]
  /\ Goto(t, "install")
  /\ UNCHANGED <<worldVars, etag, contentVars, loadBufMutex, held, groupVars>>

\* Faulty variant: the error of the write is ignored.
GoOn(t) == Goto(t, "install") /\ UNCHANGED <<loadBufMutex, held>>

\* if err = f.vehicle.Write(buf); err != nil { return }
GiveUp(t) == End(t) /\ loadBufMutex' = None

\* The file cannot be opened, or not be written in full.
WriteFails(t) ==
  /\ pc[t] = "write"
  /\ file' \in {file, Torn}
  /\ GiveUp(t)
  /\ UNCHANGED <<worldVars, etag, contentVars, groupVars>>

\* f.hash = hash; setProxies: bp.proxies = proxies
Install(t) ==
  /\ pc[t] = "install"
  /\ hash' = held[t]
  /\ proxies' = held[t]
  /\ Goto(t, "bump")
  /\ UNCHANGED <<worldVars, etag, file, version, loadBufMutex, held, groupVars>>

\* Faulty variant: the version stays.
SameVersion == version

NewVersion == version + 1

\* bp.version += 1; loadBuf returns.
Bump(t) ==
  /\ pc[t] = "bump"
  /\ version' = NewVersion
  /\ loadBufMutex' = None
  /\ End(t)
  /\ UNCHANGED <<worldVars, etag, file, hash, proxies, groupVars>>

-----------------------------------------------------------------------------
\* GetProxies reads the version of the provider without a lock ...
ReadVersion(d) ==
  /\ pc[d] = "idle"
  /\ seen' = [seen EXCEPT ![d] = version]
  /\ Goto(d, "dialing")
  /\ UNCHANGED <<worldVars, etag, file, contentVars, loadBufMutex, held,
                 cachedVersion, cached>>

\* ... then, under getProxiesMutex, takes the cached proxies or caches those of now.
\* With none there is nothing to cache.
GetProxies(d) ==
  /\ pc[d] = "dialing"
  /\ IF seen[d] = cachedVersion \/ proxies = None
     THEN UNCHANGED <<cachedVersion, cached>>
     ELSE cachedVersion' = seen[d] /\ cached' = proxies
  /\ seen' = [seen EXCEPT ![d] = 0]
  /\ Goto(d, "idle")
  /\ UNCHANGED <<worldVars, etag, file, contentVars, loadBufMutex, held>>

-----------------------------------------------------------------------------
\* The server has something else; external.
Change ==
  /\ changes < MaxChanges
  /\ changes' = changes + 1
  /\ remote' \in Contents \ {remote}
  /\ UNCHANGED <<restarts, etag, file, contentVars, loadBufMutex, pc, held,
                 groupVars>>

\* What Initial makes of the file.
Loaded(f) ==
  IF f = Torn THEN {Torn, None} ELSE {IF Parses(f) THEN f ELSE None}

\* The process ends, perhaps while it writes, and starts again: Initial loads the
\* file if it parses, and starts the pull loop.
Restart ==
  /\ restarts < MaxRestarts
  /\ restarts' = restarts + 1
  /\ file' \in {file} \cup (IF \E t \in Loaders : pc[t] = "write" THEN {Torn} ELSE {})
  /\ hash' \in Loaded(file')
  /\ proxies' = Installed(hash')
  /\ version' = IF hash' = None THEN 0 ELSE 1
  /\ loadBufMutex' = None
  /\ pc' = [t \in Threads |-> IF t \in Apis \cup Sides /\ pc[t] # "idle"
                             THEN "done" ELSE "idle"]
  /\ held' = [t \in Loaders |-> None]
  /\ seen' = [d \in Dials |-> 0]
  /\ cachedVersion' = None /\ cached' = None
  /\ UNCHANGED <<remote, changes, etag>>

-----------------------------------------------------------------------------
Pull(p) == Ask(p) \/ ReadFails(p) \/ NotModified(p) \/ Answered(p) \/ Fetched(p)

LoadBuf(t) ==
  Load(t) \/ WriteFile(t) \/ WriteFails(t) \/ Install(t) \/ Bump(t)

Next ==
  \/ \E p \in Pullers : Pull(p)
  \/ \E s \in Sides : SideUpdate(s)
  \/ \E t \in Loaders : LoadBuf(t)
  \/ \E d \in Dials : ReadVersion(d) \/ GetProxies(d)
  \/ Change \/ Restart

Spec == Init /\ [][Next]_vars

(***************************************************************************)
(* Goroutines run and the timer of the pull loop fires; of the outside     *)
(* world, a server that is asked again and again answers some day, a body  *)
(* that is read again and again is some day read to its end, and a file    *)
(* that is written again and again is some day written.                    *)
(***************************************************************************)
FairSpec ==
  /\ Spec
  /\ \A t \in Loaders : WF_vars(LoadBuf(t))
  /\ WF_vars(Ask(Loop))
  /\ \A p \in Pullers : WF_vars(pc[p] \in {"asked", "answered"} /\ Pull(p))
  /\ SF_vars(NotModified(Loop) \/ Answered(Loop))
  /\ SF_vars(Fetched(Loop))
  /\ SF_vars(WriteFile(Loop))

-----------------------------------------------------------------------------
\* Besides the types: who is inside loadBuf holds its mutex, and what is being
\* loaded parses.
TypeOK ==
  /\ remote \in Contents
  /\ changes \in 0 .. MaxChanges /\ restarts \in 0 .. MaxRestarts
  /\ etag \in Contents \cup {None}
  /\ file \in Contents \cup {None, Torn}
  /\ hash \in (Contents \ Bad) \cup {None, Torn}
  /\ {proxies, cached} \subseteq (Contents \ Bad) \cup {None, Torn, Payload}
  /\ version \in Nat
  /\ loadBufMutex \in Loaders \cup {None}
  /\ pc \in [Threads -> PCs]
  /\ held \in [Loaders -> Contents \cup {None}]
  /\ seen \in [Dials -> Nat]
  /\ cachedVersion \in Nat \cup {None}
  /\ \A t \in Threads : pc[t] \in Holding => loadBufMutex = t

\* What the group has cached under the version of now is what the provider has
\* now: no dial goes on with the proxies of before, although neither the version
\* nor the proxies are read under a lock of the provider.
CacheIsCurrent ==
  loadBufMutex = None /\ cachedVersion = version => cached = proxies

\* Between loads the file has what is loaded, so that a restart goes on with it,
\* or has been torn by a write that failed; and the proxies are those loaded, or the
\* payload of the profile as long as nothing has been.
FileFollows ==
  loadBufMutex = None => file \in {hash, Torn} /\ proxies = Installed(hash)

\* Once the server keeps still, the provider has what the server has: a slow
\* answer that overwrites a newer one, contents of the client, a failed write or a
\* restart delay that, and no ETag prevents it.
ContentsArrive == <>[](remote \in Bad \/ proxies = remote)
=============================================================================
