---------------------------- MODULE ProviderProofs ----------------------------
(***************************************************************************)
(* For every number of goroutines, contents, changes and restarts: what a  *)
(* group has cached under the version of now are the proxies of now, and   *)
(* the cache file follows what is loaded.                                  *)
(***************************************************************************)
EXTENDS Provider, TLAPS

\* Who holds loadBufMutex is inside loadBuf, with contents that parse.
Holder == /\ loadBufMutex # None => pc[loadBufMutex] \in Holding
          /\ \A t \in Loaders : pc[t] \in Holding => Parses(held[t])

\* The file on the way through loadBuf.
OnTheWay(t) ==
  /\ pc[t] = "write" => file \in {hash, Torn}
  /\ pc[t] = "install" => file = held[t]
  /\ pc[t] = "bump" => file = held[t] /\ hash = held[t]

FileInv ==
  FileFollows /\ proxies = Installed(hash) /\ \A t \in Loaders : OnTheWay(t)

\* The version runs behind the proxies between setProxies and its increment, and
\* nowhere else: there the group may cache new proxies under the old version.
Behind == \E t \in Loaders : pc[t] = "bump"

CacheInv ==
  /\ cachedVersion # None => cachedVersion <= version
  /\ \A d \in Dials : seen[d] <= version
  /\ ~Behind /\ cachedVersion = version => cached = proxies

IInv == TypeOK /\ Holder /\ FileInv /\ CacheInv

-----------------------------------------------------------------------------
LEMMA InitIInv == Init => IInv
  <1> SUFFICES ASSUME Init PROVE IInv
    OBVIOUS
  <1> USE ProviderAssumption DEF Init
  <1>1. TypeOK
    BY DEF TypeOK, PCs, Holding
  <1>2. Holder
    BY DEF Holder, Holding, Threads, Loaders, Pullers
  <1>3. FileInv
    BY DEF FileInv, FileFollows, Installed, OnTheWay, Threads, Loaders, Pullers
  <1>4. CacheInv
    BY DEF CacheInv
  <1> QED
    BY <1>1, <1>2, <1>3, <1>4 DEF IInv

\* Threads and contents are told apart; only loaders take the mutex, one at a time.
LEMMA Apart ==
  /\ Loaders \subseteq Threads /\ Dials \subseteq Threads /\ Pullers \subseteq Loaders
  /\ Sides \subseteq Loaders /\ Loop \in Pullers
  /\ None \notin Threads /\ None \notin Contents /\ Torn \notin Contents /\ Torn # None
  /\ Loaders \cap Dials = {} /\ None \notin Nat
  BY ProviderAssumption DEF Threads, Loaders, Pullers

LEMMA OneHolder == ASSUME TypeOK, NEW t \in Threads, NEW u \in Threads,
                          pc[t] \in Holding, pc[u] \in Holding
                   PROVE t = u /\ t \in Loaders /\ loadBufMutex = t
  BY Apart DEF TypeOK

\* A request of a puller, or contents from the client, come to loadBuf.
LEMMA PullKeeps ==
  ASSUME IInv, NEW t \in Loaders, pc[t] \in {"idle", "asked", "answered"},
         pc' = [pc EXCEPT ![t] = pc'[t]],
         pc'[t] \in {"idle", "asked", "answered", "load", "done"},
         held' = [held EXCEPT ![t] = held'[t]], held'[t] \in Contents \cup {None},
         etag' \in Contents \cup {None},
         UNCHANGED <<worldVars, file, contentVars, loadBufMutex, groupVars>>
  PROVE IInv'
  <1> USE Apart DEF IInv, worldVars, contentVars, groupVars
  <1>0. \A u \in Threads : pc'[u] \in Holding =>
          u # t /\ pc[u] = pc'[u] /\ (u \in Loaders => held'[u] = held[u])
    BY DEF TypeOK, Holding
  <1>1. TypeOK'
    BY <1>0 DEF TypeOK, PCs
  <1>2. Holder'
    BY <1>0 DEF Holder, Holding, TypeOK
  <1>3. FileInv'
    BY <1>0 DEF FileInv, FileFollows, Installed, OnTheWay, Holding, TypeOK
  <1>4. CacheInv'
    BY <1>0 DEF CacheInv, Behind, Holding, TypeOK
  <1> QED
    BY <1>1, <1>2, <1>3, <1>4

\* The steps of loadBuf.
LEMMA LoadBufKeeps == ASSUME IInv, NEW t \in Loaders, LoadBuf(t) PROVE IInv'
  <1> USE Apart DEF IInv, Goto, worldVars, contentVars, groupVars
  <1>0. \A u \in Threads : u # t /\ (pc[t] \in Holding \/ loadBufMutex = None)
          => pc[u] \notin Holding
    BY OneHolder DEF TypeOK
  <1>1. CASE Load(t)
    <2>1. CASE NothingToLoad(t)
      <3>1. /\ pc[t] = "load" /\ pc' = [pc EXCEPT ![t] = pc'[t]]
            /\ pc'[t] \in {"idle", "done"} /\ held' = [held EXCEPT ![t] = None]
            /\ UNCHANGED <<worldVars, etag, file, contentVars, loadBufMutex, groupVars>>
        BY <1>1, <2>1 DEF Load, End, Hold, TypeOK
      <3>2. \A u \in Threads : pc'[u] \in Holding =>
              u # t /\ pc[u] = pc'[u] /\ (u \in Loaders => held'[u] = held[u])
        BY <3>1 DEF TypeOK, Holding
      <3>3. TypeOK'
        BY <3>1, <3>2 DEF TypeOK, PCs
      <3>4. Holder'
        BY <3>1, <3>2 DEF Holder, Holding, TypeOK
      <3>5. FileInv'
        BY <3>1, <3>2 DEF FileInv, FileFollows, Installed, OnTheWay, Holding, TypeOK
      <3>6. CacheInv'
        BY <3>1, <3>2 DEF CacheInv, Behind, Holding, TypeOK
      <3> QED
        BY <3>3, <3>4, <3>5, <3>6
    <2>2. CASE ~NothingToLoad(t)
      <3>1. /\ loadBufMutex = None /\ loadBufMutex' = t
            /\ pc' = [pc EXCEPT ![t] = "write"]
            /\ UNCHANGED <<worldVars, etag, file, contentVars, held, groupVars>>
        BY <1>1, <2>2 DEF Load, MutexFree
      <3>2. Parses(held[t])
        BY <2>2 DEF NothingToLoad
      <3>3. TypeOK'
        BY <1>0, <3>1 DEF TypeOK, PCs, Holding
      <3>4. Holder'
        BY <1>0, <3>1, <3>2 DEF Holder, Holding, TypeOK, Parses
      <3>5. FileInv'
        BY <1>0, <3>1 DEF FileInv, FileFollows, Installed, OnTheWay, Holding, TypeOK
      <3>6. CacheInv'
        BY <1>0, <3>1 DEF CacheInv, Behind, Holding, TypeOK
      <3> QED
        BY <3>3, <3>4, <3>5, <3>6
    <2> QED
      BY <2>1, <2>2
  <1>2. CASE WriteFile(t)
    <2>0. pc[t] \in Holding
      BY <1>2 DEF WriteFile, Holding
    <2>1. TypeOK'
      BY <1>2, <2>0 DEF WriteFile, TypeOK, PCs, Holding, Holder, Parses
    <2>2. Holder'
      BY <1>0, <1>2, <2>0 DEF WriteFile, Holder, Holding, TypeOK, Parses
    <2>3. FileInv'
      BY <1>0, <1>2, <2>0 DEF WriteFile, FileInv, FileFollows, Installed, OnTheWay,
         Holding, TypeOK
    <2>4. CacheInv'
      BY <1>0, <1>2, <2>0 DEF WriteFile, CacheInv, Behind, Holding, TypeOK
    <2> QED
      BY <2>1, <2>2, <2>3, <2>4
  <1>3. CASE WriteFails(t)
    <2>0. pc[t] \in Holding
      BY <1>3 DEF WriteFails, Holding
    <2>1. TypeOK'
      BY <1>0, <1>3, <2>0 DEF WriteFails, GiveUp, End, Hold, TypeOK, PCs, Holding
    <2>2. Holder'
      BY <1>0, <1>3, <2>0 DEF WriteFails, GiveUp, End, Hold, Holder, Holding, TypeOK
    <2>3. FileInv'
      BY <1>0, <1>3, <2>0 DEF WriteFails, GiveUp, End, Hold, FileInv, FileFollows,
         Installed, OnTheWay,
         Holding, TypeOK
    <2>4. CacheInv'
      BY <1>0, <1>3, <2>0 DEF WriteFails, GiveUp, End, Hold, CacheInv, Behind, Holding,
         TypeOK
    <2> QED
      BY <2>1, <2>2, <2>3, <2>4
  <1>4. CASE Install(t)
    <2>0. pc[t] \in Holding /\ Parses(held[t])
      BY <1>4 DEF Install, Holding, Holder
    <2>1. TypeOK'
      BY <1>4, <2>0 DEF Install, TypeOK, PCs, Holding, Parses
    <2>2. Holder'
      BY <1>0, <1>4, <2>0 DEF Install, Holder, Holding, TypeOK, Parses
    <2>3. FileInv'
      BY <1>0, <1>4, <2>0 DEF Install, Parses, FileInv, FileFollows, Installed,
         OnTheWay, Holding, TypeOK
    <2>4. CacheInv'
      BY <1>0, <1>4, <2>0 DEF Install, CacheInv, Behind, Holding, TypeOK
    <2> QED
      BY <2>1, <2>2, <2>3, <2>4
  <1>5. CASE Bump(t)
    <2>0. pc[t] \in Holding /\ version \in Nat /\ version' = version + 1
      BY <1>5 DEF Bump, NewVersion, Holding, TypeOK
    <2>1. TypeOK'
      BY <1>0, <1>5, <2>0 DEF Bump, End, Hold, TypeOK, PCs, Holding
    <2>2. Holder'
      BY <1>0, <1>5, <2>0 DEF Bump, End, Hold, Holder, Holding, TypeOK
    <2>3. FileInv'
      BY <1>0, <1>5, <2>0 DEF Bump, End, Hold, FileInv, FileFollows, Installed,
         OnTheWay, Holding, TypeOK
    <2>4. CacheInv'
      BY <1>0, <1>5, <2>0 DEF Bump, CacheInv, Behind, Holding, TypeOK
    <2> QED
      BY <2>1, <2>2, <2>3, <2>4
  <1> QED
    BY <1>1, <1>2, <1>3, <1>4, <1>5 DEF LoadBuf

\* The steps of a dial: what it caches under the version of now it has read after
\* that version was, and so under a version that is not behind.
LEMMA DialKeeps ==
  ASSUME IInv, NEW d \in Dials, ReadVersion(d) \/ GetProxies(d) PROVE IInv'
  <1> USE Apart DEF IInv, Goto, worldVars, contentVars, groupVars
  <1>0. /\ pc' = [pc EXCEPT ![d] = pc'[d]] /\ pc'[d] \in {"idle", "dialing"}
        /\ UNCHANGED <<worldVars, etag, file, contentVars, loadBufMutex, held>>
    BY DEF ReadVersion, GetProxies, TypeOK
  <1>1. \A u \in Threads : pc'[u] \in Holding => pc[u] = pc'[u]
    BY <1>0 DEF TypeOK, Holding
  <1>2. TypeOK'
    BY <1>0, <1>1 DEF ReadVersion, GetProxies, TypeOK, PCs
  <1>3. Holder'
    BY <1>0, <1>1 DEF Holder, Holding, TypeOK
  <1>4. FileInv'
    BY <1>0, <1>1 DEF FileInv, FileFollows, Installed, OnTheWay, Holding, TypeOK
  <1>5. CacheInv'
    <2>1. Behind' = Behind
      BY <1>0 DEF Behind, TypeOK
    <2>2. CASE ReadVersion(d)
      BY <1>0, <2>1, <2>2 DEF ReadVersion, CacheInv, TypeOK
    <2>3. CASE GetProxies(d)
      BY <1>0, <2>1, <2>3 DEF GetProxies, CacheInv, TypeOK
    <2> QED
      BY <2>2, <2>3
  <1> QED
    BY <1>2, <1>3, <1>4, <1>5

\* The end of the process and its next start: Initial loads what the file has.
LEMMA RestartKeeps == ASSUME IInv, Restart PROVE IInv'
  <1> USE Apart DEF IInv
  <1>1. \A t \in Threads : pc'[t] \in {"idle", "done"}
    BY DEF Restart
  <1>2. /\ file' \in Contents \cup {None, Torn} /\ file' \in {hash', Torn}
        /\ hash' \in (Contents \ Bad) \cup {None, Torn}
        /\ proxies' = Installed(hash')
    <2>1. file \in (Contents \ Bad) \cup {None, Torn}
      <3>1. CASE loadBufMutex = None
        BY <3>1 DEF FileInv, FileFollows, TypeOK
      <3>2. CASE loadBufMutex # None
        <4>1. loadBufMutex \in Loaders /\ pc[loadBufMutex] \in Holding
          BY <3>2 DEF TypeOK, Holder
        <4> QED
          BY <4>1 DEF FileInv, OnTheWay, Holder, Holding, Parses, TypeOK
      <3> QED
        BY <3>1, <3>2
    <2>2. file' \in {file, Torn}
      BY DEF Restart
    <2> QED
      BY <2>1, <2>2 DEF Restart, Loaded, Parses
  <1>3. TypeOK'
    <2>1. restarts' \in 0 .. MaxRestarts
      BY ProviderAssumption DEF Restart, TypeOK
    <2>2. pc' \in [Threads -> PCs]
      BY DEF Restart, PCs
    <2> QED
      BY <1>1, <1>2, <2>1, <2>2 DEF Restart, Installed, TypeOK, Holding
  <1>4. Holder'
    BY <1>1 DEF Restart, Holder, Holding
  <1>5. FileInv'
    BY <1>1, <1>2 DEF Restart, FileInv, FileFollows, Installed, OnTheWay
  <1>6. CacheInv'
    BY DEF Restart, CacheInv, TypeOK
  <1> QED
    BY <1>3, <1>4, <1>5, <1>6

LEMMA StepKeeps == ASSUME IInv, [Next]_vars PROVE IInv'
  <1> USE DEF Goto, Hold
  <1>1. ASSUME NEW p \in Pullers, Pull(p) PROVE IInv'
    <2>1. p \in Loaders /\ TypeOK
      BY Apart DEF IInv
    <2>2. CASE Ask(p)
      BY <2>1, <2>2, PullKeeps DEF Ask, TagToSend, TypeOK, Loaders, Threads
    <2>3. CASE ReadFails(p)
      BY <2>1, <2>3, PullKeeps DEF ReadFails, End, TypeOK, Loaders, Threads
    <2>4. CASE NotModified(p)
      BY <2>1, <2>4, PullKeeps DEF NotModified, TypeOK, Loaders, Threads
    <2>5. CASE Answered(p)
      BY <2>1, <2>5, PullKeeps DEF Answered, TypeOK, Loaders, Threads
    <2>6. CASE Fetched(p)
      <3>1. held' = [held EXCEPT ![p] = held'[p]] /\ held'[p] \in Contents \cup {None}
        BY <2>1, <2>6 DEF Fetched, TypeOK
      <3> QED
        BY <2>1, <2>6, <3>1, PullKeeps DEF Fetched, TypeOK, Loaders, Threads
    <2> QED
      BY <1>1, <2>2, <2>3, <2>4, <2>5, <2>6 DEF Pull
  <1>2. ASSUME NEW s \in Sides, SideUpdate(s) PROVE IInv'
    <2>1. s \in Loaders /\ s \in Threads /\ TypeOK
      BY Apart DEF IInv
    <2>2. PICK c \in Contents : held' = [held EXCEPT ![s] = c]
      BY <1>2 DEF SideUpdate
    <2>3. held'[s] = c /\ pc'[s] = "load" /\ pc' = [pc EXCEPT ![s] = "load"]
      BY <1>2, <2>1, <2>2 DEF SideUpdate, TypeOK
    <2> QED
      BY <1>2, <2>1, <2>2, <2>3, PullKeeps DEF SideUpdate, TypeOK
  <1>3. ASSUME NEW t \in Loaders, LoadBuf(t) PROVE IInv'
    BY <1>3, LoadBufKeeps
  <1>4. ASSUME NEW d \in Dials, ReadVersion(d) \/ GetProxies(d) PROVE IInv'
    BY <1>4, DialKeeps
  <1>5. CASE Change
    <2>1. changes' \in 0 .. MaxChanges
      BY <1>5, ProviderAssumption DEF Change, IInv, TypeOK
    <2> QED
      BY <1>5, <2>1 DEF Change, IInv, TypeOK, Holder, FileInv, FileFollows, Installed,
         OnTheWay,
         CacheInv, Behind, contentVars, groupVars
  <1>6. CASE Restart
    BY <1>6, RestartKeeps
  <1>7. CASE UNCHANGED vars
    BY <1>7 DEF vars, IInv, TypeOK, Holder, FileInv, FileFollows, Installed, OnTheWay,
       CacheInv, Behind
  <1> QED
    BY <1>1, <1>2, <1>3, <1>4, <1>5, <1>6, <1>7 DEF Next

LEMMA Inductive == Spec => []IInv
  BY InitIInv, StepKeeps, PTL DEF Spec

-----------------------------------------------------------------------------
\* The variables keep their types, and whoever is inside loadBuf holds its mutex.
THEOREM Typed == Spec => []TypeOK
  <1>1. IInv => TypeOK
    BY DEF IInv
  <1> QED
    BY Inductive, <1>1, PTL

\* No dial goes on with stale proxies, although it reads version and proxies
\* without a lock of the provider.
THEOREM Current == Spec => []CacheIsCurrent
  <1>1. IInv => CacheIsCurrent
    BY Apart DEF IInv, CacheInv, Behind, CacheIsCurrent, TypeOK, Holding
  <1> QED
    BY Inductive, <1>1, PTL

\* Crashes and failed writes included, the file has what is loaded or is torn.
THEOREM Follows == Spec => []FileFollows
  <1>1. IInv => FileFollows
    BY DEF IInv, FileInv
  <1> QED
    BY Inductive, <1>1, PTL
=============================================================================
