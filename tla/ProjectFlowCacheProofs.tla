----------------------- MODULE ProjectFlowCacheProofs -----------------------
(***************************************************************************)
(* Theorems about ProjectFlowCache for any number of projects, paths and   *)
(* requests and any cache size, TTL and bounds, and the steps by which it  *)
(* implements FlowLookup.                                                  *)
(***************************************************************************)
EXTENDS ProjectFlowCache, FiniteSetTheorems, TLAPS

-----------------------------------------------------------------------------
(* What the operators return. *)

\* RowOf returns None or a row of the table with the version it has now.
LEMMA RowOfProperties ==
    ASSUME TypeOK, NEW path \in Paths
    PROVE  /\ RowOf(path) \in Row \cup {None}
           /\ RowOf(path) # None =>
                RowOf(path).compileVersion
                  = project[RowOf(path).id].compileVersion
<1> USE DEF TypeOK
<1>1. CASE \E p \in Projects : project[p].path = path
  <2> DEFINE p == CHOOSE q \in Projects : project[q].path = path
  <2>1. p \in Projects
    BY <1>1, Zenon
  <2>2. RowOf(path) = [id |-> p, state |-> project[p].state,
                       compileVersion |-> project[p].compileVersion]
    BY <1>1, Zenon DEF RowOf
  <2> HIDE DEF p
  <2> QED
    BY <2>1, <2>2 DEF Row
<1>2. CASE ~\E p \in Projects : project[p].path = path
  BY <1>2 DEF RowOf
<1> QED
  BY <1>1, <1>2

\* Deleting a key from a sequence without repetition deletes it from the set
\* of its elements and repeats none.
LEMMA DeleteKeyProperties ==
    ASSUME NEW keys \in Seq(Paths), NEW key \in KeySet(keys), NoRepeat(keys)
    PROVE  /\ DeleteKey(keys, key) \in Seq(Paths)
           /\ KeySet(DeleteKey(keys, key)) = KeySet(keys) \ {key}
           /\ NoRepeat(DeleteKey(keys, key))
<1> DEFINE at == CHOOSE i \in 1..Len(keys) : keys[i] = key
           rest == [i \in 1..Len(keys) - 1 |->
                       IF i < at THEN keys[i] ELSE keys[i + 1]]
<1>1. at \in 1..Len(keys) /\ keys[at] = key
  <2>1. \E i \in 1..Len(keys) : keys[i] = key
    BY DEF KeySet
  <2> QED
    BY <2>1, Zenon
<1>2. DeleteKey(keys, key) = rest
  BY Zenon DEF DeleteKey
<1> HIDE DEF at
<1>3. Len(keys) \in Nat /\ \A i \in 1..Len(keys) : keys[i] \in Paths
  OBVIOUS
<1>4. rest \in Seq(Paths) /\ Len(rest) = Len(keys) - 1
  <2>1. Len(keys) - 1 \in Nat
    BY <1>1, <1>3
  <2>2. rest \in [1..Len(keys) - 1 -> Paths]
    BY <1>1, <1>3
  <2> QED
    BY <2>1, <2>2
<1>5. \A i \in 1..Len(rest) :
         rest[i] = IF i < at THEN keys[i] ELSE keys[i + 1]
  BY <1>4
<1> HIDE DEF rest
<1>6. NoRepeat(rest)
  BY <1>1, <1>3, <1>4, <1>5 DEF NoRepeat
<1>7. \A i \in 1..Len(rest) : rest[i] \in KeySet(keys) \ {key}
  BY <1>1, <1>3, <1>4, <1>5 DEF NoRepeat, KeySet
<1>8. ASSUME NEW j \in 1..Len(keys), keys[j] # key
      PROVE  keys[j] \in KeySet(rest)
  <2>1. CASE j < at
    <3>1. j \in 1..Len(rest) /\ rest[j] = keys[j]
      BY <2>1, <1>1, <1>3, <1>4, <1>5
    <3> QED
      BY <3>1 DEF KeySet
  <2>2. CASE j > at
    <3>1. j - 1 \in 1..Len(rest) /\ rest[j - 1] = keys[j]
      BY <2>2, <1>1, <1>3, <1>4, <1>5
    <3> QED
      BY <3>1 DEF KeySet
  <2>3. j # at
    BY <1>1, <1>8
  <2>4. j \in Int /\ at \in Int
    BY <1>1, <1>3
  <2> QED
    BY <2>1, <2>2, <2>3, <2>4
<1>9. KeySet(rest) = KeySet(keys) \ {key}
  BY <1>7, <1>8 DEF KeySet
<1> QED
  BY <1>2, <1>4, <1>6, <1>9

\* Setting a key adds it to the set of elements and repeats none.
LEMMA PutKeyProperties ==
    ASSUME NEW keys \in Seq(Paths), NEW key \in Paths, NoRepeat(keys)
    PROVE  /\ PutKey(keys, key) \in Seq(Paths)
           /\ KeySet(PutKey(keys, key)) = KeySet(keys) \cup {key}
           /\ NoRepeat(PutKey(keys, key))
<1>1. CASE \E i \in 1..Len(keys) : keys[i] = key
  BY <1>1 DEF PutKey, KeySet
<1>2. CASE ~\E i \in 1..Len(keys) : keys[i] = key
  <2> DEFINE more == Append(keys, key)
  <2>1. PutKey(keys, key) = more
    BY <1>2 DEF PutKey
  <2>2. /\ more \in Seq(Paths) /\ Len(more) = Len(keys) + 1
        /\ Len(keys) \in Nat
    OBVIOUS
  <2>3. /\ \A i \in 1..Len(keys) : more[i] = keys[i]
        /\ more[Len(keys) + 1] = key
    OBVIOUS
  <2> HIDE DEF more
  <2>4. NoRepeat(more)
    BY <1>2, <2>2, <2>3 DEF NoRepeat
  <2>5. 1..Len(more) = (1..Len(keys)) \cup {Len(keys) + 1}
    BY <2>2
  <2>6. KeySet(more) = KeySet(keys) \cup {key}
    BY <2>5, <2>3 DEF KeySet
  <2> QED
    BY <2>1, <2>2, <2>4, <2>6
<1> QED
  BY <1>1, <1>2

\* The tail of a sequence without repetition holds all but the head.
LEMMA TailProperties ==
    ASSUME NEW keys \in Seq(Paths), keys # <<>>, NoRepeat(keys)
    PROVE  /\ Tail(keys) \in Seq(Paths)
           /\ Head(keys) \in KeySet(keys)
           /\ KeySet(Tail(keys)) = KeySet(keys) \ {Head(keys)}
           /\ NoRepeat(Tail(keys))
<1> DEFINE rest == Tail(keys)
<1>1. /\ rest \in Seq(Paths) /\ Len(rest) = Len(keys) - 1
      /\ Len(keys) \in Nat /\ Len(keys) >= 1
  OBVIOUS
<1>2. \A i \in 1..Len(rest) : rest[i] = keys[i + 1]
  OBVIOUS
<1>3. Head(keys) = keys[1]
  OBVIOUS
<1> HIDE DEF rest
<1>4. NoRepeat(rest)
  BY <1>1, <1>2 DEF NoRepeat
<1>5. \A i \in 1..Len(rest) : rest[i] \in KeySet(keys) \ {Head(keys)}
  BY <1>1, <1>2, <1>3 DEF KeySet, NoRepeat
<1>6. ASSUME NEW j \in 1..Len(keys), keys[j] # Head(keys)
      PROVE  keys[j] \in KeySet(rest)
  <2>1. j - 1 \in 1..Len(rest) /\ rest[j - 1] = keys[j]
    BY <1>1, <1>2, <1>3, <1>6
  <2> QED
    BY <2>1 DEF KeySet
<1>7. KeySet(rest) = KeySet(keys) \ {Head(keys)}
  BY <1>5, <1>6 DEF KeySet
<1>8. Head(keys) \in KeySet(keys)
  BY <1>1, <1>3 DEF KeySet
<1> QED
  BY <1>1, <1>4, <1>7, <1>8 DEF rest

-----------------------------------------------------------------------------
(* Type correctness.  A query is sent only for a row that was found, and a *)
(* flow is cached only under a path: the control state says so.  That the  *)
(* maps agree is needed because Expire removes its path from the order.    *)

CallsWellFormed ==
    \A r \in Requests :
        /\ request[r].pc \notin {"idle", "failed"} => request[r].path \in Paths
        /\ request[r].pc \in {"links", "ports", "nodes", "build", "served"} =>
              request[r].row \in Row
        /\ request[r].pc = "served" => request[r].flow \in Flow

TypeInv == TypeOK /\ CallsWellFormed /\ MapsAgree

\* The part of TypeOK about the two maps.
CacheTypeOK ==
    /\ DOMAIN flows \subseteq Paths
    /\ flows \in [DOMAIN flows -> Flow]
    /\ DOMAIN stamps \subseteq Paths
    /\ stamps \in [DOMAIN stamps -> 1..MaxTime]
    /\ order \in Seq(Paths)

\* Expiry keeps the maps typed and in agreement.
LEMMA ExpireKeepsMaps ==
    ASSUME CacheTypeOK, MapsAgree, NEW path \in DOMAIN flows, Expire(path)
    PROVE  /\ CacheTypeOK'
           /\ MapsAgree'
           /\ DOMAIN flows' = DOMAIN flows \ {path}
<1>1. path \in KeySet(order)
  BY DEF MapsAgree
<1>2. /\ order' \in Seq(Paths)
      /\ KeySet(order') = KeySet(order) \ {path}
      /\ NoRepeat(order')
  BY <1>1, DeleteKeyProperties DEF Expire, CacheTypeOK, MapsAgree
<1>3. DOMAIN flows' = DOMAIN flows \ {path}
      /\ DOMAIN stamps' = DOMAIN stamps \ {path}
  BY DEF Expire, Delete
<1>4. flows' \in [DOMAIN flows' -> Flow]
      /\ stamps' \in [DOMAIN stamps' -> 1..MaxTime]
  BY <1>3 DEF Expire, Delete, CacheTypeOK
<1> QED
  BY <1>2, <1>3, <1>4 DEF CacheTypeOK, MapsAgree

\* The keys of the cache once setCachedProject has made room.
KeptKeys == IF MustEvict THEN DOMAIN flows \ {Head(order)} ELSE DOMAIN flows

\* setCachedProject keeps the maps typed and in agreement.
LEMMA SetKeepsMaps ==
    ASSUME CacheTypeOK, MapsAgree, now \in 1..MaxTime,
           NEW path \in Paths, NEW flow \in Flow, SetCachedProject(path, flow)
    PROVE  /\ CacheTypeOK'
           /\ MapsAgree'
           /\ DOMAIN flows' = KeptKeys \cup {path}
           /\ flows' = [k \in KeptKeys \cup {path} |->
                           IF k = path THEN flow ELSE flows[k]]
           /\ stamps' = [k \in KeptKeys \cup {path} |->
                            IF k = path THEN now ELSE stamps[k]]
<1> DEFINE kept == IF MustEvict THEN Delete(flows, Head(order)) ELSE flows
           keptStamps == IF MustEvict THEN Delete(stamps, Head(order)) ELSE stamps
           keptOrder == IF MustEvict THEN Tail(order) ELSE order
<1>1. /\ keptOrder \in Seq(Paths)
      /\ KeySet(keptOrder) = KeptKeys
      /\ NoRepeat(keptOrder)
  <2>1. CASE MustEvict
    <3>1. order # <<>>
      BY <2>1 DEF MustEvict
    <3> QED
      BY <2>1, <3>1, TailProperties DEF CacheTypeOK, MapsAgree, KeptKeys
  <2>2. CASE ~MustEvict
    BY <2>2 DEF CacheTypeOK, MapsAgree, KeptKeys
  <2> QED
    BY <2>1, <2>2
<1>2. /\ kept = [k \in KeptKeys |-> flows[k]]
      /\ keptStamps = [k \in KeptKeys |-> stamps[k]]
      /\ KeptKeys \subseteq Paths
  BY DEF KeptKeys, Delete, CacheTypeOK, MapsAgree
<1>3. /\ flows' = Put(kept, path, flow)
      /\ stamps' = Put(keptStamps, path, now)
      /\ order' = PutKey(keptOrder, path)
  BY DEF SetCachedProject
<1> HIDE DEF kept, keptStamps, keptOrder
<1>4. /\ flows' = [k \in KeptKeys \cup {path} |->
                      IF k = path THEN flow ELSE flows[k]]
      /\ stamps' = [k \in KeptKeys \cup {path} |->
                       IF k = path THEN now ELSE stamps[k]]
  BY <1>2, <1>3 DEF Put
<1>5. /\ order' \in Seq(Paths)
      /\ KeySet(order') = KeptKeys \cup {path}
      /\ NoRepeat(order')
  BY <1>1, <1>3, PutKeyProperties
<1>6. KeptKeys \subseteq DOMAIN flows /\ KeptKeys \subseteq DOMAIN stamps
  BY DEF KeptKeys, MapsAgree
<1>7. DOMAIN flows' = KeptKeys \cup {path} /\ DOMAIN stamps' = KeptKeys \cup {path}
  BY <1>4
<1>8. flows' \in [DOMAIN flows' -> Flow] /\ stamps' \in [DOMAIN stamps' -> 1..MaxTime]
  BY <1>4, <1>6, <1>7 DEF CacheTypeOK
<1> QED
  BY <1>2, <1>4, <1>5, <1>7, <1>8 DEF CacheTypeOK, MapsAgree

LEMMA TypeInvInit == Init => TypeInv
<1> SUFFICES ASSUME Init
             PROVE  TypeInv
  OBVIOUS
<1> USE ConstantsAssumption DEF Init
<1>1. 0 \in Versions /\ 0 \in Contents /\ "OFFLINE" \in States
  BY DEF Versions, Contents, States
<1>2. Idle \in Request
  BY <1>1 DEF Idle, Request
<1>3. TypeOK
  <2>1. project \in [Projects -> [path : Paths \cup {None}, state : States,
                                   compileVersion : Versions]]
    BY <1>1
  <2>2. content \in [Projects -> Contents]
    BY <1>1
  <2>3. committed \in [Projects -> [Versions -> Contents]]
    BY <1>1
  <2>4. CacheTypeOK
    BY DEF CacheTypeOK
  <2>5. now \in 1..MaxTime /\ request \in [Requests -> Request]
    BY <1>2
  <2> QED
    BY <2>1, <2>2, <2>3, <2>4, <2>5 DEF TypeOK, CacheTypeOK
<1>4. CallsWellFormed
  BY DEF CallsWellFormed, Idle
<1>5. MapsAgree
  BY DEF MapsAgree, KeySet, NoRepeat
<1> QED
  BY <1>3, <1>4, <1>5 DEF TypeInv

\* A step that leaves the cache alone and changes at most request r.
LEMMA CallStep ==
    ASSUME TypeInv, NEW r \in Requests, NEW call \in Request,
           request' = [request EXCEPT ![r] = call],
           UNCHANGED <<project, content, committed, now>>,
           CacheTypeOK', MapsAgree',
           call.pc \notin {"idle", "failed"} => call.path \in Paths,
           call.pc \in {"links", "ports", "nodes", "build", "served"} =>
              call.row \in Row,
           call.pc = "served" => call.flow \in Flow
    PROVE  TypeInv'
<1>1. request' \in [Requests -> Request]
  BY DEF TypeInv, TypeOK
<1>2. TypeOK'
  BY <1>1 DEF TypeInv, TypeOK, CacheTypeOK
<1>3. \A q \in Requests : request'[q] = IF q = r THEN call ELSE request[q]
  BY DEF TypeInv, TypeOK
<1>4. CallsWellFormed'
  BY <1>3 DEF TypeInv, CallsWellFormed
<1> QED
  BY <1>2, <1>4 DEF TypeInv

\* The part of TypeOK about the database and the clock.
DatabaseTypeOK ==
    /\ project \in [Projects -> [path : Paths \cup {None}, state : States,
                                 compileVersion : Versions]]
    /\ content \in [Projects -> Contents]
    /\ committed \in [Projects -> [Versions -> Contents]]
    /\ now \in 1..MaxTime

\* A step of the database or of the clock.
LEMMA EnvironmentKeepsTypeInv ==
    ASSUME TypeInv, Database \/ Tick
    PROVE  TypeInv'
<1> USE ConstantsAssumption
<1>1. UNCHANGED <<cache, request>>
  BY DEF Database, Edit, Compile, BindPath, SwitchState, Tick, database, cache
<1>2. CallsWellFormed' /\ MapsAgree' /\ CacheTypeOK'
        /\ request' \in [Requests -> Request]
  BY <1>1 DEF TypeInv, TypeOK, CacheTypeOK, CallsWellFormed, MapsAgree, cache
<1>3. DatabaseTypeOK'
  <2> USE DEF TypeInv, TypeOK, DatabaseTypeOK
  <2>1. ASSUME NEW p \in Projects, Edit(p)
        PROVE  DatabaseTypeOK'
    BY <2>1 DEF Edit, Contents
  <2>2. ASSUME NEW p \in Projects, Compile(p)
        PROVE  DatabaseTypeOK'
    <3>1. content[p] + 1 \in Contents /\ project[p].compileVersion + 1 \in Versions
      BY <2>2 DEF Compile, Contents, Versions
    <3> QED
      BY <2>2, <3>1 DEF Compile
  <2>3. ASSUME NEW p \in Projects, NEW path \in Paths, BindPath(p, path)
        PROVE  DatabaseTypeOK'
    BY <2>3 DEF BindPath
  <2>4. ASSUME NEW p \in Projects, NEW state \in States, SwitchState(p, state)
        PROVE  DatabaseTypeOK'
    BY <2>4 DEF SwitchState
  <2>5. CASE Tick
    BY <2>5 DEF Tick, database
  <2> QED
    BY <2>1, <2>2, <2>3, <2>4, <2>5 DEF Database
<1> QED
  BY <1>2, <1>3 DEF TypeInv, TypeOK, CacheTypeOK, DatabaseTypeOK

\* A step of a call.
LEMMA CallKeepsTypeInv ==
    ASSUME TypeInv, NEW r \in Requests, Call(r)
    PROVE  TypeInv'
<1> USE ConstantsAssumption
<1>1. request[r] \in Request /\ CacheTypeOK
  BY DEF TypeInv, TypeOK, CacheTypeOK
<1>2. 0 \in Contents
  BY DEF Contents
<1>3. Failed \in Request /\ Failed.pc = "failed"
  BY <1>2 DEF Failed, Idle, Request
<1>4. ASSUME UNCHANGED cache
      PROVE  CacheTypeOK' /\ MapsAgree'
  BY <1>1, <1>4 DEF cache, CacheTypeOK, MapsAgree, TypeInv
<1>5. ASSUME NEW path \in Paths, FindProject(r, path)
      PROVE  TypeInv'
  <2> DEFINE call == [Idle EXCEPT !.pc = "found", !.path = path,
                                  !.row = RowOf(path)]
  <2>1. RowOf(path) \in Row \cup {None}
    BY RowOfProperties DEF TypeInv
  <2>2. call \in Request /\ call.pc = "found" /\ call.path = path
    BY <1>2, <2>1 DEF Idle, Request
  <2>3. request' = [request EXCEPT ![r] = call]
    BY <1>5 DEF FindProject
  <2> HIDE DEF call
  <2> QED
    BY <1>4, <1>5, <2>2, <2>3, CallStep DEF FindProject, database, cache
<1>6. ASSUME request' = [request EXCEPT ![r] = Failed],
             UNCHANGED <<database, cache, now>>
      PROVE  TypeInv'
  BY <1>3, <1>4, <1>6, CallStep DEF database, cache
<1>7. CASE CacheHit(r)
  <2> DEFINE call == Served(r, flows[request[r].path])
  <2>1. /\ request[r].path \in Paths
        /\ request[r].row \in Row
        /\ flows[request[r].path] \in Flow
    BY <1>1, <1>7 DEF CacheHit, Admitted, IsFresh, TypeInv, CallsWellFormed,
                      CacheTypeOK, Request
  <2>2. /\ call \in Request /\ call.pc = "served" /\ call.path \in Paths
        /\ call.row \in Row /\ call.flow \in Flow
    BY <1>2, <2>1 DEF Served, Idle, Request
  <2>3. request' = [request EXCEPT ![r] = call]
    BY <1>7 DEF CacheHit
  <2> HIDE DEF call
  <2> QED
    BY <1>4, <1>7, <2>2, <2>3, CallStep DEF CacheHit, database, cache
<1>8. CASE CacheMiss(r)
  <2> DEFINE call == [request[r] EXCEPT !.pc = "links"]
  <2>1. request[r].path \in Paths /\ request[r].row \in Row
    BY <1>1, <1>8 DEF CacheMiss, Admitted, TypeInv, CallsWellFormed, Request
  <2>2. /\ call \in Request /\ call.pc = "links" /\ call.path \in Paths
        /\ call.row \in Row
    BY <1>1, <2>1 DEF Request
  <2>3. request' = [request EXCEPT ![r] = call]
    BY <1>8 DEF CacheMiss
  <2>4. CacheTypeOK' /\ MapsAgree'
    <3>1. CASE IsExpired(request[r].path)
      BY <1>1, <1>8, <3>1, ExpireKeepsMaps DEF CacheMiss, IsExpired, TypeInv
    <3>2. CASE ~IsExpired(request[r].path)
      BY <1>4, <1>8, <3>2 DEF CacheMiss
    <3> QED
      BY <3>1, <3>2
  <2> HIDE DEF call
  <2> QED
    BY <1>8, <2>2, <2>3, <2>4, CallStep DEF CacheMiss, database
<1>9. ASSUME ReadLinks(r) \/ ReadPorts(r) \/ ReadNodes(r)
      PROVE  TypeInv'
  <2>1. /\ request[r].path \in Paths /\ request[r].row \in Row
        /\ content[request[r].row.id] \in Contents
    BY <1>1, <1>9 DEF ReadLinks, ReadPorts, ReadNodes, TypeInv, TypeOK,
                      CallsWellFormed, Row
  <2>2. UNCHANGED <<database, cache, now>>
    BY <1>9 DEF ReadLinks, ReadPorts, ReadNodes
  <2>3. CASE ReadLinks(r)
    <3> DEFINE call == [request[r] EXCEPT !.pc = "ports",
                                          !.links = content[request[r].row.id]]
    <3>1. /\ call \in Request /\ call.pc = "ports" /\ call.path \in Paths
          /\ call.row \in Row
      BY <1>1, <2>1 DEF Request
    <3>2. request' = [request EXCEPT ![r] = call]
      BY <2>3 DEF ReadLinks
    <3> HIDE DEF call
    <3> QED
      BY <1>4, <2>2, <3>1, <3>2, CallStep DEF database, cache
  <2>4. CASE ReadPorts(r)
    <3> DEFINE call == [request[r] EXCEPT !.pc = "nodes",
                                          !.ports = content[request[r].row.id]]
    <3>1. /\ call \in Request /\ call.pc = "nodes" /\ call.path \in Paths
          /\ call.row \in Row
      BY <1>1, <2>1 DEF Request
    <3>2. request' = [request EXCEPT ![r] = call]
      BY <2>4 DEF ReadPorts
    <3> HIDE DEF call
    <3> QED
      BY <1>4, <2>2, <3>1, <3>2, CallStep DEF database, cache
  <2>5. CASE ReadNodes(r)
    <3> DEFINE call == [request[r] EXCEPT !.pc = "build",
                                          !.nodes = content[request[r].row.id]]
    <3>1. /\ call \in Request /\ call.pc = "build" /\ call.path \in Paths
          /\ call.row \in Row
      BY <1>1, <2>1 DEF Request
    <3>2. request' = [request EXCEPT ![r] = call]
      BY <2>5 DEF ReadNodes
    <3> HIDE DEF call
    <3> QED
      BY <1>4, <2>2, <3>1, <3>2, CallStep DEF database, cache
  <2> QED
    BY <1>9, <2>3, <2>4, <2>5
<1>10. CASE Build(r)
  <2> DEFINE call == Served(r, BuiltFlow(r))
  <2>1. /\ request[r].path \in Paths /\ request[r].row \in Row
        /\ now \in 1..MaxTime
    BY <1>1, <1>10 DEF Build, TypeInv, TypeOK, CallsWellFormed
  <2>2. BuiltFlow(r) \in Flow
    BY <1>1, <2>1 DEF BuiltFlow, Flow, Request, Row
  <2>3. /\ call \in Request /\ call.pc = "served" /\ call.path \in Paths
        /\ call.row \in Row /\ call.flow \in Flow
    BY <1>2, <2>1, <2>2 DEF Served, Idle, Request
  <2>4. CacheTypeOK' /\ MapsAgree'
    BY <1>1, <1>10, <2>1, <2>2, SetKeepsMaps DEF Build, TypeInv
  <2>5. request' = [request EXCEPT ![r] = call]
    BY <1>10 DEF Build
  <2> HIDE DEF call
  <2> QED
    BY <1>10, <2>3, <2>4, <2>5, CallStep DEF Build, database
<1> QED
  BY <1>5, <1>6, <1>7, <1>8, <1>9, <1>10 DEF Call, Reject, BuildFails

\* The invariant behind the types is inductive.
LEMMA TypeInvStep == TypeInv /\ [Next]_vars => TypeInv'
<1> SUFFICES ASSUME TypeInv, [Next]_vars
             PROVE  TypeInv'
  OBVIOUS
<1>1. CASE Database \/ Tick
  BY <1>1, EnvironmentKeepsTypeInv
<1>2. ASSUME NEW r \in Requests, Call(r)
      PROVE  TypeInv'
  BY <1>2, CallKeepsTypeInv
<1>3. CASE UNCHANGED vars
  BY <1>3 DEF TypeInv, TypeOK, CallsWellFormed, MapsAgree, vars
<1> QED
  BY <1>1, <1>2, <1>3 DEF Next

LEMMA TypeInvCorrect == Spec => []TypeInv
<1> QED
  BY TypeInvInit, TypeInvStep, PTL DEF Spec

\* Every variable keeps its type.
THEOREM TypeCorrect == Spec => []TypeOK
<1>1. TypeInv => TypeOK
  BY DEF TypeInv
<1> QED
  BY <1>1, TypeInvCorrect, PTL

\* The two maps and the iteration order always hold the same keys.
THEOREM MapsAlwaysAgree == Spec => []MapsAgree
<1>1. TypeInv => MapsAgree
  BY DEF TypeInv
<1> QED
  BY <1>1, TypeInvCorrect, PTL

-----------------------------------------------------------------------------
(* The size of the cache.  A full cache loses one key before it gets one,  *)
(* and MapsAgree says that the key it loses was there.                     *)

SizeInv == IsFiniteSet(DOMAIN flows) /\ CacheBounded

\* A call either leaves the cache alone, expires its path or stores a flow.
LEMMA CacheSteps ==
    ASSUME TypeInv, [Next]_vars
    PROVE  \/ UNCHANGED cache
           \/ \E path \in DOMAIN flows : Expire(path)
           \/ \E r \in Requests : Build(r)
<1>1. CASE Database \/ Tick
  BY <1>1 DEF Database, Edit, Compile, BindPath, SwitchState, Tick, database, cache
<1>2. ASSUME NEW r \in Requests, Call(r), ~Build(r)
      PROVE  UNCHANGED cache \/ \E path \in DOMAIN flows : Expire(path)
  <2>1. CASE CacheMiss(r)
    BY <2>1 DEF CacheMiss, IsExpired
  <2>2. CASE ~CacheMiss(r)
    BY <1>2, <2>2 DEF Call, FindProject, Reject, CacheHit, ReadLinks,
                      ReadPorts, ReadNodes, BuildFails
  <2> QED
    BY <2>1, <2>2
<1>3. CASE UNCHANGED vars
  BY <1>3 DEF vars, cache
<1> QED
  BY <1>1, <1>2, <1>3 DEF Next

\* What Build does to the two maps.
LEMMA BuildStep ==
    ASSUME TypeInv, NEW r \in Requests, Build(r)
    PROVE  /\ request[r].path \in Paths
           /\ BuiltFlow(r) \in Flow
           /\ flows' = [k \in KeptKeys \cup {request[r].path} |->
                           IF k = request[r].path THEN BuiltFlow(r) ELSE flows[k]]
           /\ stamps' = [k \in KeptKeys \cup {request[r].path} |->
                            IF k = request[r].path THEN now ELSE stamps[k]]
<1>1. /\ request[r] \in Request /\ CacheTypeOK /\ now \in 1..MaxTime
      /\ request[r].path \in Paths /\ request[r].row \in Row
  BY DEF TypeInv, TypeOK, CacheTypeOK, CallsWellFormed, Build
<1>2. BuiltFlow(r) \in Flow
  BY <1>1, ConstantsAssumption DEF BuiltFlow, Flow, Request, Row
<1> QED
  BY <1>1, <1>2, SetKeepsMaps DEF Build, TypeInv

LEMMA SizeInvStep == TypeInv /\ SizeInv /\ [Next]_vars => SizeInv'
<1> SUFFICES ASSUME TypeInv, SizeInv, [Next]_vars
             PROVE  SizeInv'
  OBVIOUS
<1> DEFINE keys == DOMAIN flows
<1>1. IsFiniteSet(keys) /\ Cardinality(keys) \in Nat
        /\ Cardinality(keys) <= MaxCacheSize
  BY FS_CardinalityType DEF SizeInv, CacheBounded
<1>2. CASE UNCHANGED cache
  BY <1>2 DEF SizeInv, CacheBounded, cache
<1>3. ASSUME NEW path \in DOMAIN flows, Expire(path)
      PROVE  SizeInv'
  <2>1. DOMAIN flows' = keys \ {path}
    BY <1>3 DEF Expire, Delete
  <2>2. IsFiniteSet(keys \ {path}) /\ Cardinality(keys \ {path}) = Cardinality(keys) - 1
    BY <1>1, FS_RemoveElement
  <2> QED
    BY <1>1, <2>1, <2>2, ConstantsAssumption DEF SizeInv, CacheBounded
<1>4. ASSUME NEW r \in Requests, Build(r)
      PROVE  SizeInv'
  <2> DEFINE path == request[r].path
  <2>1. DOMAIN flows' = KeptKeys \cup {path}
    BY <1>4, BuildStep
  <2>2. IsFiniteSet(KeptKeys) /\ Cardinality(KeptKeys) \in Nat
          /\ Cardinality(KeptKeys) <= MaxCacheSize - 1
    <3>1. CASE MustEvict
      <4>1. Head(order) \in keys
        BY <3>1, TailProperties DEF MustEvict, TypeInv, TypeOK, MapsAgree
      <4>2. KeptKeys = keys \ {Head(order)}
        BY <3>1 DEF KeptKeys
      <4>3. IsFiniteSet(KeptKeys) /\ Cardinality(KeptKeys) = Cardinality(keys) - 1
        BY <1>1, <4>1, <4>2, FS_RemoveElement
      <4>4. Cardinality(KeptKeys) \in Nat
        BY <4>3, FS_CardinalityType
      <4> QED
        BY <1>1, <4>3, <4>4, ConstantsAssumption
    <3>2. CASE ~MustEvict /\ order # <<>>
      BY <1>1, <3>2, ConstantsAssumption DEF MustEvict, KeptKeys
    <3>3. CASE ~MustEvict /\ order = <<>>
      <4>1. KeptKeys = {}
        BY <3>3 DEF KeptKeys, TypeInv, MapsAgree, KeySet
      <4> QED
        BY <4>1, FS_EmptySet, ConstantsAssumption
    <3> QED
      BY <3>1, <3>2, <3>3
  <2>3. IsFiniteSet(KeptKeys \cup {path})
          /\ (\/ Cardinality(KeptKeys \cup {path}) = Cardinality(KeptKeys)
              \/ Cardinality(KeptKeys \cup {path}) = Cardinality(KeptKeys) + 1)
    BY <2>2, FS_AddElement
  <2> QED
    BY <2>1, <2>2, <2>3, ConstantsAssumption DEF SizeInv, CacheBounded
<1> QED
  BY <1>2, <1>3, <1>4, CacheSteps

\* The cache never holds more than MAX_CACHE_SIZE flows.
THEOREM CacheAlwaysBounded == Spec => []CacheBounded
<1>1. Init => SizeInv
  <2> SUFFICES ASSUME Init
               PROVE  SizeInv
    OBVIOUS
  <2>1. DOMAIN flows = {}
    BY DEF Init
  <2> QED
    BY <2>1, FS_EmptySet, ConstantsAssumption DEF SizeInv, CacheBounded
<1>2. SizeInv => CacheBounded
  BY DEF SizeInv
<1> QED
  BY <1>1, <1>2, SizeInvStep, TypeInvCorrect, PTL DEF Spec

\* The timestamp beside a cached flow is the time that flow was stored.
THEOREM StampAlwaysOfFlow == Spec => []StampIsOfFlow
<1>1. Init => StampIsOfFlow
  BY DEF Init, StampIsOfFlow
<1>2. TypeInv /\ StampIsOfFlow /\ [Next]_vars => StampIsOfFlow'
  <2> SUFFICES ASSUME TypeInv, StampIsOfFlow, [Next]_vars
               PROVE  StampIsOfFlow'
    OBVIOUS
  <2>1. CASE UNCHANGED cache
    BY <2>1 DEF StampIsOfFlow, cache
  <2>2. ASSUME NEW path \in DOMAIN flows, Expire(path)
        PROVE  StampIsOfFlow'
    BY <2>2 DEF StampIsOfFlow, Expire, Delete
  <2>3. ASSUME NEW r \in Requests, Build(r)
        PROVE  StampIsOfFlow'
    <3>1. BuiltFlow(r).storedAt = now
      BY DEF BuiltFlow
    <3>2. KeptKeys \subseteq DOMAIN flows \cap DOMAIN stamps
      BY DEF KeptKeys, TypeInv, MapsAgree
    <3> DEFINE path == request[r].path
    <3>3. /\ flows' = [k \in KeptKeys \cup {path} |->
                         IF k = path THEN BuiltFlow(r) ELSE flows[k]]
          /\ stamps' = [k \in KeptKeys \cup {path} |->
                          IF k = path THEN now ELSE stamps[k]]
      BY <2>3, BuildStep
    <3> HIDE DEF path
    <3>4. DOMAIN flows' = KeptKeys \cup {path}
      BY <3>3
    <3>5. \A k \in KeptKeys \cup {path} :
             /\ flows'[k] = IF k = path THEN BuiltFlow(r) ELSE flows[k]
             /\ stamps'[k] = IF k = path THEN now ELSE stamps[k]
      BY <3>3
    <3> QED
      BY <3>1, <3>2, <3>4, <3>5 DEF StampIsOfFlow
  <2> QED
    BY <2>1, <2>2, <2>3, CacheSteps
<1> QED
  BY <1>1, <1>2, TypeInvCorrect, PTL DEF Spec

-----------------------------------------------------------------------------
(* Freshness.  A version is committed together with the revision it is     *)
(* about and never changes afterwards; a call reads its tables after it    *)
(* has read a version that was committed by then.  So each revision it     *)
(* reads is at least the one committed with that version, and this stays   *)
(* true of the flow wherever it is kept.                                   *)

\* The version was committed in the past.
CommittedVersion(p, v) == v <= project[p].compileVersion

\* The revision x of project p is not older than its version v.
NotOlder(x, p, v) == x >= committed[p][v]

CommitsInPast ==
    \A p \in Projects : \A v \in Versions :
        CommittedVersion(p, v) => content[p] >= committed[p][v]

GoodFlow(flow) == CommittedVersion(flow.id, flow.compileVersion) /\ Covers(flow)

GoodCall(call) ==
    LET p == call.row.id
        v == call.row.compileVersion
    IN  /\ call.pc = "found" /\ call.row # None => CommittedVersion(p, v)
        /\ call.pc \in {"links", "ports", "nodes", "build"} =>
              CommittedVersion(p, v)
        /\ call.pc \in {"ports", "nodes", "build"} => NotOlder(call.links, p, v)
        /\ call.pc \in {"nodes", "build"} => NotOlder(call.ports, p, v)
        /\ call.pc = "build" => NotOlder(call.nodes, p, v)
        /\ call.pc = "served" => /\ GoodFlow(call.flow)
                                 /\ call.flow.compileVersion = v

FreshInv ==
    /\ CommitsInPast
    /\ \A path \in DOMAIN flows : GoodFlow(flows[path])
    /\ \A r \in Requests : GoodCall(request[r])

\* No step takes a committed version or its revision back.
VersionsStable ==
    \A p \in Projects : \A v \in Versions : CommittedVersion(p, v) =>
        /\ CommittedVersion(p, v)'
        /\ committed'[p][v] = committed[p][v]

LEMMA CallsLeaveDatabase ==
    ASSUME NEW r \in Requests, Call(r)
    PROVE  UNCHANGED <<database, now>>
BY DEF Call, FindProject, Reject, CacheHit, CacheMiss, ReadLinks, ReadPorts,
       ReadNodes, Build, BuildFails

LEMMA CommitsAreStable ==
    ASSUME TypeInv, CommitsInPast, [Next]_vars
    PROVE  CommitsInPast' /\ VersionsStable
<1> USE DEF CommitsInPast, VersionsStable, CommittedVersion, TypeInv, TypeOK
<1>1. CASE UNCHANGED database
  BY <1>1 DEF database
<1>2. ASSUME NEW p \in Projects, Edit(p)
      PROVE  CommitsInPast' /\ VersionsStable
  BY <1>2 DEF Edit, Contents
<1>3. ASSUME NEW p \in Projects, Compile(p)
      PROVE  CommitsInPast' /\ VersionsStable
  <2> DEFINE v == project[p].compileVersion
  <2>1. /\ v \in Versions /\ v + 1 \in Versions /\ v \in Int
        /\ \A u \in Versions : u \in Int
    BY <1>3, ConstantsAssumption DEF Compile, Versions
  <2>2. /\ \A q \in Projects : content[q] \in Int
        /\ \A q \in Projects : \A u \in Versions : committed[q][u] \in Int
    BY DEF Contents
  <2>3. \A q \in Projects :
           /\ content'[q] = IF q = p THEN content[p] + 1 ELSE content[q]
           /\ project'[q].compileVersion
                = IF q = p THEN v + 1 ELSE project[q].compileVersion
    BY <1>3 DEF Compile
  <2>4. \A q \in Projects : \A u \in Versions :
           committed'[q][u] = IF q = p /\ u = v + 1
                              THEN content[p] + 1 ELSE committed[q][u]
    BY <1>3, <2>1 DEF Compile
  <2>5. \A q \in Projects : project[q].compileVersion \in Int
    BY DEF Versions
  <2> HIDE DEF v, TypeInv, TypeOK
  <2>6. VersionsStable
    <3> SUFFICES ASSUME NEW q \in Projects, NEW u \in Versions,
                        u <= project[q].compileVersion
                 PROVE  /\ u <= project'[q].compileVersion
                        /\ committed'[q][u] = committed[q][u]
      OBVIOUS
    <3> QED
      BY <2>1, <2>3, <2>4, <2>5 DEF v
  <2>7. CommitsInPast'
    <3> SUFFICES ASSUME NEW q \in Projects, NEW u \in Versions,
                        u <= project'[q].compileVersion
                 PROVE  content'[q] >= committed'[q][u]
      OBVIOUS
    <3> QED
      BY <2>1, <2>2, <2>3, <2>4, <2>5 DEF v
  <2> QED
    BY <2>6, <2>7
<1>4. ASSUME NEW p \in Projects, NEW path \in Paths, BindPath(p, path)
      PROVE  CommitsInPast' /\ VersionsStable
  BY <1>4 DEF BindPath
<1>5. ASSUME NEW p \in Projects, NEW state \in States, SwitchState(p, state)
      PROVE  CommitsInPast' /\ VersionsStable
  BY <1>5 DEF SwitchState
<1>6. CASE \/ Tick \/ (\E r \in Requests : Call(r)) \/ UNCHANGED vars
  BY <1>1, <1>6, CallsLeaveDatabase DEF Tick, vars, database
<1> QED
  BY <1>2, <1>3, <1>4, <1>5, <1>6 DEF Next, Database

\* A flow or a call that was good stays good.
LEMMA GoodStaysGood ==
    ASSUME TypeInv, VersionsStable
    PROVE  /\ \A flow \in Flow : GoodFlow(flow) => GoodFlow(flow)'
           /\ \A r \in Requests :
                 GoodCall(request[r]) /\ request'[r] = request[r] =>
                    GoodCall(request[r])'
<1>1. ASSUME NEW flow \in Flow, GoodFlow(flow)
      PROVE  GoodFlow(flow)'
  BY <1>1 DEF GoodFlow, Covers, VersionsStable, Flow
<1>2. ASSUME NEW r \in Requests, GoodCall(request[r]), request'[r] = request[r]
      PROVE  GoodCall(request[r])'
  <2> DEFINE call == request[r]
  <2>1. /\ call \in Request
        /\ call.pc \in {"links", "ports", "nodes", "build", "served"} =>
              call.row \in Row
        /\ call.pc = "served" => call.flow \in Flow
    BY DEF TypeInv, TypeOK, CallsWellFormed
  <2>2. call.row # None => call.row \in Row
    BY <2>1 DEF Request
  <2>3. call.row \in Row =>
           call.row.id \in Projects /\ call.row.compileVersion \in Versions
    BY DEF Row
  <2> QED
    BY <1>1, <1>2, <2>1, <2>2, <2>3
       DEF GoodCall, NotOlder, VersionsStable
<1> QED
  BY <1>1, <1>2

\* A call steps from a good state to a good state.
LEMMA CallStaysGood ==
    ASSUME TypeInv, FreshInv, VersionsStable, NEW r \in Requests, Call(r)
    PROVE  GoodCall(request[r])'
<1> DEFINE call == request[r]
<1>1. /\ request \in [Requests -> Request] /\ call \in Request
      /\ call.pc \in {"links", "ports", "nodes", "build", "served"} =>
            call.row \in Row
      /\ GoodCall(call)
  BY DEF TypeInv, TypeOK, CallsWellFormed, FreshInv
<1>2. UNCHANGED <<project, content, committed>>
  BY CallsLeaveDatabase DEF database
<1>3. SUFFICES GoodCall(request'[r])
  BY <1>2 DEF GoodCall, NotOlder, GoodFlow, Covers, CommittedVersion
<1>4. ASSUME call.row \in Row, CommittedVersion(call.row.id, call.row.compileVersion)
      PROVE  /\ content[call.row.id] \in Contents
             /\ NotOlder(content[call.row.id], call.row.id, call.row.compileVersion)
  BY <1>4 DEF FreshInv, CommitsInPast, NotOlder, Row, TypeInv, TypeOK
<1>5. ASSUME NEW path \in Paths, FindProject(r, path)
      PROVE  GoodCall(request'[r])
  <2>1. request'[r] = [Idle EXCEPT !.pc = "found", !.path = path,
                                   !.row = RowOf(path)]
    BY <1>1, <1>5 DEF FindProject
  <2>2. /\ request'[r].pc = "found"
        /\ request'[r].row = RowOf(path)
    BY <2>1 DEF Idle
  <2>3. RowOf(path) # None =>
           CommittedVersion(RowOf(path).id, RowOf(path).compileVersion)
    <3>1. RowOf(path) # None => RowOf(path).compileVersion \in Int
      BY RowOfProperties DEF TypeInv, Row, Versions
    <3> QED
      BY <3>1, RowOfProperties DEF TypeInv, CommittedVersion
  <2> QED
    BY <2>2, <2>3 DEF GoodCall
<1>6. ASSUME request' = [request EXCEPT ![r] = Failed]
      PROVE  GoodCall(request'[r])
  <2>1. request'[r].pc = "failed"
    BY <1>1, <1>6 DEF Failed, Idle
  <2> QED
    BY <2>1 DEF GoodCall
<1>7. CASE CacheHit(r)
  <2>1. request'[r] = Served(r, flows[call.path])
    BY <1>1, <1>7 DEF CacheHit
  <2>2. /\ request'[r].pc = "served" /\ request'[r].row = call.row
        /\ request'[r].flow = flows[call.path]
    BY <2>1 DEF Served, Idle
  <2>3. GoodFlow(flows[call.path])
    BY <1>7 DEF CacheHit, IsFresh, FreshInv
  <2>4. flows[call.path].compileVersion = call.row.compileVersion
    BY <1>7 DEF CacheHit, SameVersion
  <2> QED
    BY <2>2, <2>3, <2>4 DEF GoodCall
<1>8. CASE CacheMiss(r)
  <2>1. request'[r] = [call EXCEPT !.pc = "links"]
    BY <1>1, <1>8 DEF CacheMiss
  <2>2. request'[r].pc = "links" /\ request'[r].row = call.row
    BY <1>1, <2>1 DEF Request
  <2>3. CommittedVersion(call.row.id, call.row.compileVersion)
    BY <1>1, <1>8 DEF CacheMiss, Admitted, GoodCall
  <2> QED
    BY <2>2, <2>3 DEF GoodCall
<1>9. CASE ReadLinks(r)
  <2>1. request'[r] = [call EXCEPT !.pc = "ports", !.links = content[call.row.id]]
    BY <1>1, <1>9 DEF ReadLinks
  <2>2. /\ request'[r].pc = "ports" /\ request'[r].row = call.row
        /\ request'[r].links = content[call.row.id]
    BY <1>1, <2>1 DEF Request
  <2>3. CommittedVersion(call.row.id, call.row.compileVersion) /\ call.row \in Row
    BY <1>1, <1>9 DEF ReadLinks, GoodCall
  <2> QED
    BY <1>4, <2>2, <2>3 DEF GoodCall
<1>10. CASE ReadPorts(r)
  <2>1. request'[r] = [call EXCEPT !.pc = "nodes", !.ports = content[call.row.id]]
    BY <1>1, <1>10 DEF ReadPorts
  <2>2. /\ request'[r].pc = "nodes" /\ request'[r].row = call.row
        /\ request'[r].links = call.links
        /\ request'[r].ports = content[call.row.id]
    BY <1>1, <2>1 DEF Request
  <2>3. /\ CommittedVersion(call.row.id, call.row.compileVersion)
        /\ call.row \in Row
        /\ NotOlder(call.links, call.row.id, call.row.compileVersion)
    BY <1>1, <1>10 DEF ReadPorts, GoodCall
  <2> QED
    BY <1>4, <2>2, <2>3 DEF GoodCall
<1>11. CASE ReadNodes(r)
  <2>1. request'[r] = [call EXCEPT !.pc = "build", !.nodes = content[call.row.id]]
    BY <1>1, <1>11 DEF ReadNodes
  <2>2. /\ request'[r].pc = "build" /\ request'[r].row = call.row
        /\ request'[r].links = call.links /\ request'[r].ports = call.ports
        /\ request'[r].nodes = content[call.row.id]
    BY <1>1, <2>1 DEF Request
  <2>3. /\ CommittedVersion(call.row.id, call.row.compileVersion)
        /\ call.row \in Row
        /\ NotOlder(call.links, call.row.id, call.row.compileVersion)
        /\ NotOlder(call.ports, call.row.id, call.row.compileVersion)
    BY <1>1, <1>11 DEF ReadNodes, GoodCall
  <2> QED
    BY <1>4, <2>2, <2>3 DEF GoodCall
<1>12. CASE Build(r)
  <2>1. request'[r] = Served(r, BuiltFlow(r))
    BY <1>1, <1>12 DEF Build
  <2>2. /\ request'[r].pc = "served" /\ request'[r].row = call.row
        /\ request'[r].flow = BuiltFlow(r)
    BY <2>1 DEF Served, Idle
  <2>3. GoodFlow(BuiltFlow(r))
    BY <1>1, <1>12 DEF Build, GoodCall, NotOlder, GoodFlow, Covers, BuiltFlow
  <2>4. BuiltFlow(r).compileVersion = call.row.compileVersion
    BY DEF BuiltFlow
  <2> QED
    BY <2>2, <2>3, <2>4 DEF GoodCall
<1> QED
  BY <1>5, <1>6, <1>7, <1>8, <1>9, <1>10, <1>11, <1>12
     DEF Call, Reject, BuildFails

LEMMA FreshInvStep == TypeInv /\ FreshInv /\ [Next]_vars => FreshInv'
<1> SUFFICES ASSUME TypeInv, FreshInv, [Next]_vars
             PROVE  FreshInv'
  OBVIOUS
<1>1. CommitsInPast' /\ VersionsStable
  BY CommitsAreStable DEF FreshInv
<1>2. \A flow \in Flow : GoodFlow(flow) => GoodFlow(flow)'
  BY <1>1, GoodStaysGood
<1>3. ASSUME NEW path \in DOMAIN flows, NEW flow, flow = flows[path]
      PROVE  GoodFlow(flow)'
  <2>1. flow \in Flow /\ GoodFlow(flow)
    BY <1>3 DEF FreshInv, TypeInv, TypeOK
  <2> QED
    BY <1>2, <2>1
<1>4. ASSUME NEW path \in DOMAIN flows', NEW flow, flow = flows'[path]
      PROVE  GoodFlow(flow)'
  <2>1. CASE UNCHANGED cache
    BY <1>3, <1>4, <2>1 DEF cache
  <2>2. ASSUME NEW gone \in DOMAIN flows, Expire(gone)
        PROVE  GoodFlow(flow)'
    <3>1. path \in DOMAIN flows /\ flows'[path] = flows[path]
      BY <1>4, <2>2 DEF Expire, Delete
    <3> QED
      BY <1>3, <1>4, <3>1
  <2>3. ASSUME NEW r \in Requests, Build(r)
        PROVE  GoodFlow(flow)'
    <3>1. flow = BuiltFlow(r) \/ (path \in DOMAIN flows /\ flow = flows[path])
      <4> DEFINE key == request[r].path
      <4>1. flows' = [k \in KeptKeys \cup {key} |->
                         IF k = key THEN BuiltFlow(r) ELSE flows[k]]
        BY <2>3, BuildStep
      <4>2. KeptKeys \subseteq DOMAIN flows
        BY DEF KeptKeys
      <4> HIDE DEF key
      <4> QED
        BY <1>4, <4>1, <4>2
    <3>2. ASSUME flow = BuiltFlow(r)
          PROVE  GoodFlow(flow)'
      <4>1. BuiltFlow(r) \in Flow
        BY <2>3, BuildStep
      <4>2. GoodFlow(BuiltFlow(r))
        BY <2>3 DEF FreshInv, Build, GoodCall, NotOlder, GoodFlow, Covers, BuiltFlow
      <4> QED
        BY <1>2, <3>2, <4>1, <4>2
    <3> QED
      BY <1>3, <3>1, <3>2
  <2> QED
    BY <2>1, <2>2, <2>3, CacheSteps
<1>5. ASSUME NEW r \in Requests
      PROVE  GoodCall(request[r])'
  <2>1. CASE request'[r] = request[r]
    BY <1>1, <2>1, GoodStaysGood DEF FreshInv
  <2>2. CASE Call(r)
    BY <1>1, <2>2, CallStaysGood
  <2>3. request'[r] = request[r] \/ Call(r)
    <3>1. CASE Database \/ Tick \/ UNCHANGED vars
      BY <3>1 DEF Database, Edit, Compile, BindPath, SwitchState, Tick, vars
    <3>2. ASSUME NEW q \in Requests, Call(q), q # r
          PROVE  request'[r] = request[r]
      BY <3>2 DEF Call, FindProject, Reject, CacheHit, CacheMiss, ReadLinks,
                  ReadPorts, ReadNodes, Build, BuildFails, TypeInv, TypeOK
    <3> QED
      BY <3>1, <3>2 DEF Next
  <2> QED
    BY <2>1, <2>2, <2>3
<1> QED
  BY <1>1, <1>4, <1>5 DEF FreshInv

LEMMA FreshInvCorrect == Spec => []FreshInv
<1>1. Init => FreshInv
  <2> SUFFICES ASSUME Init
               PROVE  FreshInv
    OBVIOUS
  <2>1. CommitsInPast
    BY DEF Init, CommitsInPast
  <2>2. \A r \in Requests : GoodCall(request[r])
    BY DEF Init, Idle, GoodCall
  <2> QED
    BY <2>1, <2>2 DEF Init, FreshInv
<1> QED
  BY <1>1, FreshInvStep, TypeInvCorrect, PTL DEF Spec

\* A flow tagged with a version, cached or returned, holds everything that was
\* committed with this version.
THEOREM TaggedFlowAlwaysComplete == Spec => []TaggedFlowIsComplete
<1>1. FreshInv => TaggedFlowIsComplete
  BY DEF FreshInv, TaggedFlowIsComplete, GoodCall, GoodFlow
<1> QED
  BY <1>1, FreshInvCorrect, PTL

\* A call never gets a flow of another version than the row it read, even when
\* a slower call has put an older flow back into the cache (lines 165-176).
ServedVersionIsRowVersion ==
    \A r \in Requests : request[r].pc = "served" =>
        request[r].flow.compileVersion = request[r].row.compileVersion

\* The flow a call returns has the version of the row the call read.
THEOREM ServedVersionAlwaysRowVersion == Spec => []ServedVersionIsRowVersion
<1>1. FreshInv => ServedVersionIsRowVersion
  BY DEF FreshInv, ServedVersionIsRowVersion, GoodCall
<1> QED
  BY <1>1, FreshInvCorrect, PTL

-----------------------------------------------------------------------------
(* Nothing from the future.  What a call has read, and what a flow is made  *)
(* of, was in the tables at some time; revisions only grow.                 *)

\* Versions that were not committed yet have no revision.
BlankAhead ==
    \A p \in Projects : \A v \in Versions :
        ~CommittedVersion(p, v) => committed[p][v] = 0

\* A compilation of p was committed with revision x or before.
Compiled(p, x) == \E v \in Versions : committed[p][v] \in 1..x

PastFlow(flow) ==
    /\ flow.links <= content[flow.id]
    /\ flow.ports <= content[flow.id]
    /\ flow.nodes <= content[flow.id]
    /\ Compiled(flow.id, flow.nodes)

PastCall(call) ==
    /\ call.pc \in {"ports", "nodes", "build"} => call.links <= content[call.row.id]
    /\ call.pc \in {"nodes", "build"} => call.ports <= content[call.row.id]
    /\ call.pc = "build" => call.nodes <= content[call.row.id]

PastInv ==
    /\ BlankAhead
    /\ \A path \in DOMAIN flows : PastFlow(flows[path])
    /\ \A r \in Requests : PastCall(request[r])

\* A cached flow was cached before, or a call stores it now.
LEMMA FlowsComeFrom ==
    ASSUME TypeInv, [Next]_vars, NEW path \in DOMAIN flows'
    PROVE  \/ path \in DOMAIN flows /\ flows'[path] = flows[path]
           \/ \E r \in Requests : /\ Build(r)
                                  /\ path = request[r].path
                                  /\ flows'[path] = BuiltFlow(r)
<1>1. CASE UNCHANGED cache
  BY <1>1 DEF cache
<1>2. ASSUME NEW gone \in DOMAIN flows, Expire(gone)
      PROVE  path \in DOMAIN flows /\ flows'[path] = flows[path]
  BY <1>2 DEF Expire, Delete
<1>3. ASSUME NEW r \in Requests, Build(r)
      PROVE  \/ path \in DOMAIN flows /\ flows'[path] = flows[path]
             \/ path = request[r].path /\ flows'[path] = BuiltFlow(r)
  <2> DEFINE key == request[r].path
  <2>1. flows' = [k \in KeptKeys \cup {key} |->
                     IF k = key THEN BuiltFlow(r) ELSE flows[k]]
    BY <1>3, BuildStep
  <2>2. KeptKeys \subseteq DOMAIN flows
    BY DEF KeptKeys
  <2> HIDE DEF key
  <2>3. \/ path \in DOMAIN flows /\ flows'[path] = flows[path]
        \/ path = key /\ flows'[path] = BuiltFlow(r)
    BY <2>1, <2>2
  <2> QED
    BY <2>3 DEF key
<1> QED
  BY <1>1, <1>2, <1>3, CacheSteps

\* A step changes at most one call; all others are left as they are.
LEMMA OtherCalls ==
    ASSUME TypeInv, [Next]_vars, NEW r \in Requests
    PROVE  request'[r] = request[r] \/ Call(r)
<1>1. CASE Database \/ Tick \/ UNCHANGED vars
  BY <1>1 DEF Database, Edit, Compile, BindPath, SwitchState, Tick, vars
<1>2. ASSUME NEW q \in Requests, Call(q), q # r
      PROVE  request'[r] = request[r]
  BY <1>2 DEF Call, FindProject, Reject, CacheHit, CacheMiss, ReadLinks,
              ReadPorts, ReadNodes, Build, BuildFails, TypeInv, TypeOK
<1> QED
  BY <1>1, <1>2 DEF Next

\* Revisions only grow, and a committed version stays blank ahead.
LEMMA ContentGrows ==
    ASSUME TypeInv, BlankAhead, [Next]_vars
    PROVE  /\ \A p \in Projects : /\ content[p] \in Int /\ content'[p] \in Int
                                  /\ content'[p] >= content[p]
           /\ BlankAhead'
<1> USE DEF TypeInv, TypeOK, BlankAhead, CommittedVersion
<1>1. CASE UNCHANGED database
  BY <1>1 DEF database, Contents
<1>2. ASSUME NEW p \in Projects, Edit(p)
      PROVE  /\ \A q \in Projects : content'[q] \in Int /\ content'[q] >= content[q]
             /\ BlankAhead'
  BY <1>2 DEF Edit, Contents
<1>3. ASSUME NEW p \in Projects, Compile(p)
      PROVE  /\ \A q \in Projects : content'[q] \in Int /\ content'[q] >= content[q]
             /\ BlankAhead'
  <2> DEFINE v == project[p].compileVersion
  <2>1. /\ \A q \in Projects : /\ content[q] \in Int
                               /\ project[q].compileVersion \in Int
        /\ \A u \in Versions : u \in Int
        /\ v + 1 \in Versions /\ v \in Int
    BY <1>3, ConstantsAssumption DEF Compile, Contents, Versions
  <2>2. \A q \in Projects :
           /\ content'[q] = IF q = p THEN content[p] + 1 ELSE content[q]
           /\ project'[q].compileVersion
                = IF q = p THEN v + 1 ELSE project[q].compileVersion
    BY <1>3 DEF Compile
  <2>3. \A q \in Projects : \A u \in Versions :
           committed'[q][u] = IF q = p /\ u = v + 1
                              THEN content[p] + 1 ELSE committed[q][u]
    BY <1>3, <2>1 DEF Compile
  <2>4. \A q \in Projects : \A u \in Versions :
           ~(u <= project[q].compileVersion) => committed[q][u] = 0
    OBVIOUS
  <2> HIDE DEF TypeInv, TypeOK, BlankAhead, CommittedVersion
  <2>5. ASSUME NEW q \in Projects, NEW u \in Versions,
               ~(u <= project'[q].compileVersion)
        PROVE  committed'[q][u] = 0
    BY <2>1, <2>2, <2>3, <2>4, <2>5 DEF v
  <2>6. BlankAhead'
    BY <2>5 DEF BlankAhead, CommittedVersion
  <2> QED
    BY <2>1, <2>2, <2>6
<1>4. ASSUME NEW p \in Projects, NEW path \in Paths, BindPath(p, path)
      PROVE  /\ \A q \in Projects : content'[q] \in Int /\ content'[q] >= content[q]
             /\ BlankAhead'
  BY <1>4 DEF BindPath, Contents
<1>5. ASSUME NEW p \in Projects, NEW state \in States, SwitchState(p, state)
      PROVE  /\ \A q \in Projects : content'[q] \in Int /\ content'[q] >= content[q]
             /\ BlankAhead'
  BY <1>5 DEF SwitchState, Contents
<1>6. CASE \/ Tick \/ (\E r \in Requests : Call(r)) \/ UNCHANGED vars
  BY <1>1, <1>6, CallsLeaveDatabase DEF Tick, vars, database
<1>7. \A p \in Projects : content[p] \in Int
  BY DEF Contents
<1> HIDE DEF TypeInv, TypeOK, BlankAhead, CommittedVersion
<1> QED
  BY <1>2, <1>3, <1>4, <1>5, <1>6, <1>7 DEF Next, Database

\* What has been compiled stays compiled.
LEMMA CompiledStays ==
    ASSUME TypeInv, BlankAhead, VersionsStable,
           NEW p \in Projects, NEW x \in Contents, Compiled(p, x)
    PROVE  Compiled(p, x)'
<1>1. PICK v \in Versions : committed[p][v] \in 1..x
  BY DEF Compiled
<1>2. CommittedVersion(p, v)
  <2>1. committed[p][v] # 0
    BY <1>1
  <2> QED
    BY <2>1 DEF BlankAhead
<1>3. committed'[p][v] \in 1..x
  BY <1>1, <1>2 DEF VersionsStable
<1> QED
  BY <1>3 DEF Compiled

\* A flow or a call that holds nothing from the future stays so.
LEMMA PastStaysPast ==
    ASSUME TypeInv, BlankAhead, VersionsStable, [Next]_vars
    PROVE  /\ \A flow \in Flow : PastFlow(flow) => PastFlow(flow)'
           /\ \A r \in Requests :
                 PastCall(request[r]) /\ request'[r] = request[r] =>
                    PastCall(request[r])'
<1>1. \A p \in Projects : /\ content[p] \in Int /\ content'[p] \in Int
                          /\ content'[p] >= content[p]
  BY ContentGrows
<1>2. \A x \in Contents : x \in Int
  BY DEF Contents
<1>3. ASSUME NEW flow \in Flow, PastFlow(flow)
      PROVE  PastFlow(flow)'
  <2>1. /\ flow.id \in Projects /\ flow.links \in Contents
        /\ flow.ports \in Contents /\ flow.nodes \in Contents
    BY DEF Flow
  <2>2. /\ flow.links <= content'[flow.id]
        /\ flow.ports <= content'[flow.id]
        /\ flow.nodes <= content'[flow.id]
    BY <1>1, <1>2, <1>3, <2>1 DEF PastFlow
  <2>3. Compiled(flow.id, flow.nodes)'
    BY <1>3, <2>1, CompiledStays DEF PastFlow
  <2> QED
    BY <2>2, <2>3 DEF PastFlow
<1>4. ASSUME NEW r \in Requests, PastCall(request[r]), request'[r] = request[r]
      PROVE  PastCall(request[r])'
  <2> DEFINE call == request[r]
  <2>1. /\ call.links \in Int /\ call.ports \in Int /\ call.nodes \in Int
        /\ call.pc \in {"ports", "nodes", "build"} => call.row.id \in Projects
    BY <1>2 DEF TypeInv, TypeOK, CallsWellFormed, Request, Row
  <2> QED
    BY <1>1, <1>4, <2>1 DEF PastCall
<1> QED
  BY <1>3, <1>4

\* What a call reads is in the tables when it reads it.
LEMMA CallStaysPast ==
    ASSUME TypeInv, NEW r \in Requests, PastCall(request[r]), Call(r)
    PROVE  PastCall(request[r])'
<1> DEFINE call == request[r]
<1>1. /\ request \in [Requests -> Request] /\ call \in Request
      /\ call.pc \in {"links", "ports", "nodes", "build"} => call.row \in Row
  BY DEF TypeInv, TypeOK, CallsWellFormed
<1>2. UNCHANGED <<project, content, committed>>
  BY CallsLeaveDatabase DEF database
<1>3. SUFFICES PastCall(request'[r])
  BY <1>2 DEF PastCall
<1>4. call.row \in Row => content[call.row.id] \in Int
  BY DEF TypeInv, TypeOK, Row, Contents
<1>5. ASSUME request'[r].pc \notin {"ports", "nodes", "build"}
      PROVE  PastCall(request'[r])
  BY <1>5 DEF PastCall
<1>6. ASSUME \/ \E path \in Paths : FindProject(r, path)
             \/ Reject(r) \/ CacheHit(r) \/ CacheMiss(r)
             \/ Build(r) \/ BuildFails(r)
      PROVE  PastCall(request'[r])
  <2>1. ASSUME NEW path \in Paths, FindProject(r, path)
        PROVE  request'[r].pc = "found"
    BY <1>1, <2>1 DEF FindProject, Idle
  <2>2. CASE Reject(r) \/ BuildFails(r)
    BY <1>1, <1>5, <2>2 DEF Reject, BuildFails, Failed, Idle
  <2>3. CASE CacheHit(r)
    BY <1>1, <1>5, <2>3 DEF CacheHit, Served, Idle
  <2>4. CASE Build(r)
    BY <1>1, <1>5, <2>4 DEF Build, Served, Idle
  <2>5. CASE CacheMiss(r)
    <3>1. request'[r] = [call EXCEPT !.pc = "links"]
      BY <1>1, <2>5 DEF CacheMiss
    <3>2. request'[r].pc = "links"
      BY <1>1, <3>1 DEF Request
    <3> QED
      BY <1>5, <3>2
  <2> QED
    BY <1>5, <1>6, <2>1, <2>2, <2>3, <2>4, <2>5
<1>7. CASE ReadLinks(r)
  <2>1. request'[r] = [call EXCEPT !.pc = "ports", !.links = content[call.row.id]]
    BY <1>1, <1>7 DEF ReadLinks
  <2>2. /\ request'[r].pc = "ports" /\ request'[r].row = call.row
        /\ request'[r].links = content[call.row.id] /\ call.row \in Row
    BY <1>1, <1>7, <2>1 DEF Request, ReadLinks
  <2> QED
    BY <1>4, <2>2 DEF PastCall
<1>8. CASE ReadPorts(r)
  <2>1. request'[r] = [call EXCEPT !.pc = "nodes", !.ports = content[call.row.id]]
    BY <1>1, <1>8 DEF ReadPorts
  <2>2. /\ request'[r].pc = "nodes" /\ request'[r].row = call.row
        /\ request'[r].links = call.links
        /\ request'[r].ports = content[call.row.id] /\ call.row \in Row
        /\ call.pc = "ports"
    BY <1>1, <1>8, <2>1 DEF Request, ReadPorts
  <2> QED
    BY <1>4, <2>2 DEF PastCall
<1>9. CASE ReadNodes(r)
  <2>1. request'[r] = [call EXCEPT !.pc = "build", !.nodes = content[call.row.id]]
    BY <1>1, <1>9 DEF ReadNodes
  <2>2. /\ request'[r].pc = "build" /\ request'[r].row = call.row
        /\ request'[r].links = call.links /\ request'[r].ports = call.ports
        /\ request'[r].nodes = content[call.row.id] /\ call.row \in Row
        /\ call.pc = "nodes"
    BY <1>1, <1>9, <2>1 DEF Request, ReadNodes
  <2> QED
    BY <1>4, <2>2 DEF PastCall
<1> QED
  BY <1>6, <1>7, <1>8, <1>9 DEF Call

LEMMA BuiltFlowIsPast ==
    ASSUME TypeInv, PastInv, NEW r \in Requests, Build(r)
    PROVE  PastFlow(BuiltFlow(r))
<1>1. /\ PastCall(request[r]) /\ request[r].pc = "build"
      /\ Compiled(request[r].row.id, request[r].nodes)
  BY DEF PastInv, Build, HasClassBytes, Compiled
<1> QED
  BY <1>1 DEF PastCall, PastFlow, BuiltFlow

LEMMA PastInvStep == TypeInv /\ FreshInv /\ PastInv /\ [Next]_vars => PastInv'
<1> SUFFICES ASSUME TypeInv, FreshInv, PastInv, [Next]_vars
             PROVE  PastInv'
  OBVIOUS
<1>1. BlankAhead' /\ VersionsStable
  BY ContentGrows, CommitsAreStable DEF PastInv, FreshInv
<1>2. \A flow \in Flow : PastFlow(flow) => PastFlow(flow)'
  BY <1>1, PastStaysPast DEF PastInv
<1>3. ASSUME NEW path \in DOMAIN flows', NEW flow, flow = flows'[path]
      PROVE  PastFlow(flow)'
  <2>1. CASE path \in DOMAIN flows /\ flow = flows[path]
    <3>1. flow \in Flow /\ PastFlow(flow)
      BY <2>1 DEF PastInv, TypeInv, TypeOK
    <3> QED
      BY <1>2, <3>1
  <2>2. ASSUME NEW r \in Requests, Build(r), flow = BuiltFlow(r)
        PROVE  PastFlow(flow)'
    <3>1. flow \in Flow /\ PastFlow(flow)
      BY <2>2, BuildStep, BuiltFlowIsPast
    <3> QED
      BY <1>2, <3>1
  <2> QED
    BY <1>3, <2>1, <2>2, FlowsComeFrom
<1>4. \A path \in DOMAIN flows' : PastFlow(flows[path])'
  BY <1>3
<1>5. ASSUME NEW r \in Requests
      PROVE  PastCall(request[r])'
  BY <1>1, OtherCalls, CallStaysPast, PastStaysPast DEF PastInv
<1> QED
  BY <1>1, <1>4, <1>5 DEF PastInv

LEMMA PastInvCorrect == Spec => []PastInv
<1>1. Init => PastInv
  <2> SUFFICES ASSUME Init
               PROVE  PastInv
    OBVIOUS
  <2>1. BlankAhead
    BY DEF Init, BlankAhead
  <2>2. \A r \in Requests : PastCall(request[r])
    BY DEF Init, Idle, PastCall
  <2> QED
    BY <2>1, <2>2 DEF Init, PastInv
<1> QED
  BY <1>1, PastInvStep, FreshInvCorrect, TypeInvCorrect, PTL DEF Spec

-----------------------------------------------------------------------------
(* How a call proceeds: the path it was asked for and the row it has read   *)
(* stay the same until it is over.                                          *)

\* The calls that were admitted and are on their way through the tables.
Reading(call) == call.pc \in {"links", "ports", "nodes", "build"}

LEMMA CallMoves ==
    ASSUME TypeInv, NEW r \in Requests, Call(r)
    PROVE  \/ \E path \in Paths : /\ FindProject(r, path)
                                  /\ request'[r].pc = "found"
                                  /\ request'[r].path = path
                                  /\ request'[r].row = RowOf(path)
           \/ request'[r] = Failed /\ request'[r].pc = "failed"
           \/ /\ Admitted(r) \/ Reading(request[r])
              /\ Reading(request'[r]) \/ CacheHit(r) \/ Build(r)
              /\ request'[r].pc # "found" /\ request'[r].pc # "failed"
              /\ request'[r].path = request[r].path
              /\ request'[r].row = request[r].row
<1> DEFINE call == request[r]
<1>1. request \in [Requests -> Request] /\ call \in Request
  BY DEF TypeInv, TypeOK
<1>2. ASSUME NEW path \in Paths, FindProject(r, path)
      PROVE  /\ request'[r].pc = "found" /\ request'[r].path = path
             /\ request'[r].row = RowOf(path)
  BY <1>1, <1>2 DEF FindProject, Idle
<1>3. CASE Reject(r) \/ BuildFails(r)
  BY <1>1, <1>3 DEF Reject, BuildFails, Failed, Idle
<1>4. CASE CacheHit(r)
  BY <1>1, <1>4 DEF CacheHit, Served, Idle
<1>5. CASE CacheMiss(r)
  <2>1. request'[r] = [call EXCEPT !.pc = "links"] /\ Admitted(r)
    BY <1>1, <1>5 DEF CacheMiss
  <2> QED
    BY <1>1, <2>1 DEF Request, Reading
<1>6. CASE ReadLinks(r)
  <2>1. /\ request'[r] = [call EXCEPT !.pc = "ports", !.links = content[call.row.id]]
        /\ call.pc = "links"
    BY <1>1, <1>6 DEF ReadLinks
  <2> QED
    BY <1>1, <2>1 DEF Request, Reading
<1>7. CASE ReadPorts(r)
  <2>1. /\ request'[r] = [call EXCEPT !.pc = "nodes", !.ports = content[call.row.id]]
        /\ call.pc = "ports"
    BY <1>1, <1>7 DEF ReadPorts
  <2> QED
    BY <1>1, <2>1 DEF Request, Reading
<1>8. CASE ReadNodes(r)
  <2>1. /\ request'[r] = [call EXCEPT !.pc = "build", !.nodes = content[call.row.id]]
        /\ call.pc = "nodes"
    BY <1>1, <1>8 DEF ReadNodes
  <2> QED
    BY <1>1, <2>1 DEF Request, Reading
<1>9. CASE Build(r)
  BY <1>1, <1>9 DEF Build, Served, Idle, Reading
<1> QED
  BY <1>2, <1>3, <1>4, <1>5, <1>6, <1>7, <1>8, <1>9 DEF Call

\* Only calls for an online project get past the row.
CallsAdmitted ==
    \A r \in Requests : Reading(request[r]) =>
        request[r].row # None /\ request[r].row.state = "ONLINE"

LEMMA AdmittedOnline ==
    ASSUME TypeInv, NEW r \in Requests, Admitted(r)
    PROVE  request[r].row # None /\ request[r].row.state = "ONLINE"
<1>1. request[r].row \in Row
  BY DEF TypeInv, TypeOK, Request, Admitted
<1> QED
  BY <1>1 DEF Admitted, Row, States

LEMMA CallsAdmittedStep == TypeInv /\ CallsAdmitted /\ [Next]_vars => CallsAdmitted'
<1> SUFFICES ASSUME TypeInv, CallsAdmitted, [Next]_vars, NEW r \in Requests,
                    Reading(request'[r])
             PROVE  request'[r].row # None /\ request'[r].row.state = "ONLINE"
  BY DEF CallsAdmitted, Reading
<1>1. CASE request'[r] = request[r]
  BY <1>1 DEF CallsAdmitted
<1>2. CASE Call(r)
  <2>1. request'[r].pc \notin {"found", "failed"}
    BY DEF Reading
  <2>2. /\ Admitted(r) \/ Reading(request[r])
        /\ request'[r].row = request[r].row
    BY <1>2, <2>1, CallMoves
  <2> QED
    BY <2>2, AdmittedOnline DEF CallsAdmitted
<1> QED
  BY <1>1, <1>2, OtherCalls

LEMMA CallsAdmittedCorrect == Spec => []CallsAdmitted
<1>1. Init => CallsAdmitted
  BY DEF Init, Idle, CallsAdmitted, Reading
<1> QED
  BY <1>1, CallsAdmittedStep, TypeInvCorrect, PTL DEF Spec

-----------------------------------------------------------------------------
(* As long as paths do not move, a path means one project.                  *)

PathsUnique ==
    \A p, q \in Projects :
        project[p].path = project[q].path /\ project[p].path # None => p = q

\* A call that has read the row of a project.
Told(call) == Reading(call) \/ (call.pc = "found" /\ call.row # None)

\* What is cached under a path, and what a call has been told of a path, is the
\* project that has the path.
SameProject ==
    /\ \A path \in DOMAIN flows : project[flows[path].id].path = path
    /\ \A r \in Requests :
          /\ Told(request[r]) => project[request[r].row.id].path = request[r].path
          /\ request[r].pc = "served" => request[r].flow.id = request[r].row.id

PathInv == PathsUnique /\ SameProject

\* Once a path is bound it stays bound to the same project.
LEMMA PathsStay ==
    ASSUME ~PathsMove, TypeInv, PathsUnique, [Next]_vars
    PROVE  /\ PathsUnique'
           /\ \A p \in Projects : project[p].path # None =>
                 project'[p].path = project[p].path
<1> USE DEF PathsUnique
<1>1. project \in [Projects -> [path : Paths \cup {None}, state : States,
                                compileVersion : Versions]]
  BY DEF TypeInv, TypeOK
<1>2. ASSUME \A p \in Projects : project'[p].path = project[p].path
      PROVE  /\ PathsUnique'
             /\ \A p \in Projects : project'[p].path = project[p].path
  BY <1>2
<1>3. ASSUME NEW p \in Projects, Compile(p)
      PROVE  \A q \in Projects : project'[q].path = project[q].path
  BY <1>1, <1>3 DEF Compile
<1>4. ASSUME NEW p \in Projects, NEW state \in States, SwitchState(p, state)
      PROVE  \A q \in Projects : project'[q].path = project[q].path
  BY <1>1, <1>4 DEF SwitchState
<1>5. ASSUME NEW p \in Projects, NEW path \in Paths, BindPath(p, path)
      PROVE  /\ PathsUnique'
             /\ \A q \in Projects : project[q].path # None =>
                   project'[q].path = project[q].path
  <2>1. /\ \A q \in Projects : project[q].path # path
        /\ project[p].path = None
    BY <1>5 DEF BindPath
  <2>2. \A q \in Projects :
           project'[q].path = IF q = p THEN path ELSE project[q].path
    BY <1>1, <1>5 DEF BindPath
  <2> QED
    BY <2>1, <2>2
<1>6. CASE UNCHANGED project
  BY <1>6
<1>7. UNCHANGED project
        \/ (\E p \in Projects : Compile(p))
        \/ (\E p \in Projects, state \in States : SwitchState(p, state))
        \/ (\E p \in Projects, path \in Paths : BindPath(p, path))
  <2>1. (\E r \in Requests : Call(r)) => UNCHANGED project
    BY CallsLeaveDatabase DEF database
  <2> QED
    BY <2>1 DEF Next, Database, Edit, Tick, vars, database
<1> QED
  BY <1>2, <1>3, <1>4, <1>5, <1>6, <1>7

\* A call that was told of a project has the ids that go with it.
LEMMA ToldTypes ==
    ASSUME TypeInv, NEW r \in Requests, Told(request[r])
    PROVE  request[r].row.id \in Projects /\ request[r].path \in Paths
<1>1. /\ request[r] \in Request
      /\ request[r].pc \notin {"idle", "failed"} => request[r].path \in Paths
      /\ Reading(request[r]) => request[r].row \in Row
  BY DEF TypeInv, TypeOK, CallsWellFormed, Reading
<1>2. request[r].row \in Row
  BY <1>1 DEF Told, Request
<1> QED
  BY <1>1, <1>2 DEF Told, Reading, Row

\* The flow that a call is answered with is that of its row.
LEMMA AnswerIsOfRow ==
    ASSUME TypeInv, PathInv, NEW r \in Requests, CacheHit(r) \/ Build(r)
    PROVE  request'[r].flow.id = request[r].row.id
<1>1. request \in [Requests -> Request]
  BY DEF TypeInv, TypeOK
<1>2. CASE Build(r)
  BY <1>1, <1>2 DEF Build, Served, Idle, BuiltFlow
<1>3. CASE CacheHit(r)
  <2> DEFINE path == request[r].path
             flow == flows[path]
  <2>1. request'[r].flow = flow
    BY <1>1, <1>3 DEF CacheHit, Served, Idle
  <2>2. Told(request[r]) /\ path \in DOMAIN flows
    BY <1>3 DEF CacheHit, Admitted, Told, IsFresh
  <2>3. flow.id \in Projects /\ request[r].row.id \in Projects
    BY <2>2, ToldTypes DEF TypeInv, TypeOK, Flow
  <2>4. /\ project[flow.id].path = path /\ project[request[r].row.id].path = path
        /\ path # None
    BY <2>2, ToldTypes, ConstantsAssumption DEF PathInv, SameProject
  <2> QED
    BY <2>1, <2>3, <2>4 DEF PathInv, PathsUnique
<1> QED
  BY <1>2, <1>3

\* The row that is read for a path is that of the project that has it.
LEMMA RowOfPath ==
    ASSUME NEW path, RowOf(path) # None
    PROVE  RowOf(path).id \in Projects /\ project[RowOf(path).id].path = path
<1>1. \E p \in Projects : project[p].path = path
  BY DEF RowOf
<1> DEFINE p == CHOOSE q \in Projects : project[q].path = path
<1>2. p \in Projects /\ project[p].path = path
  BY <1>1, Zenon
<1>3. RowOf(path) = [id |-> p, state |-> project[p].state,
                     compileVersion |-> project[p].compileVersion]
  BY <1>1, Zenon DEF RowOf
<1> HIDE DEF p
<1> QED
  BY <1>2, <1>3

LEMMA PathInvStep == ~PathsMove /\ TypeInv /\ PathInv /\ [Next]_vars => PathInv'
<1> SUFFICES ASSUME ~PathsMove, TypeInv, PathInv, [Next]_vars
             PROVE  PathInv'
  OBVIOUS
<1>1. /\ PathsUnique'
      /\ \A p \in Projects : project[p].path # None =>
            project'[p].path = project[p].path
  BY PathsStay DEF PathInv
<1>2. None \notin Paths
  BY ConstantsAssumption
<1>3. ASSUME NEW path \in DOMAIN flows'
      PROVE  project'[flows'[path].id].path = path
  <2>1. CASE path \in DOMAIN flows /\ flows'[path] = flows[path]
    <3>1. /\ flows[path].id \in Projects /\ path \in Paths
          /\ project[flows[path].id].path = path
      BY <2>1 DEF TypeInv, TypeOK, Flow, PathInv, SameProject
    <3> QED
      BY <1>1, <1>2, <2>1, <3>1
  <2>2. ASSUME NEW r \in Requests, Build(r), path = request[r].path,
               flows'[path] = BuiltFlow(r)
        PROVE  project'[flows'[path].id].path = path
    <3>1. Told(request[r]) /\ BuiltFlow(r).id = request[r].row.id
      BY <2>2 DEF Build, Told, Reading, BuiltFlow
    <3>2. /\ request[r].row.id \in Projects /\ path \in Paths
          /\ project[request[r].row.id].path = path
      BY <2>2, <3>1, ToldTypes DEF PathInv, SameProject
    <3> QED
      BY <1>1, <1>2, <2>2, <3>1, <3>2
  <2> QED
    BY <2>1, <2>2, FlowsComeFrom
<1>4. ASSUME NEW r \in Requests
      PROVE  /\ Told(request'[r]) =>
                   project'[request'[r].row.id].path = request'[r].path
             /\ request'[r].pc = "served" => request'[r].flow.id = request'[r].row.id
  <2>1. ASSUME Told(request[r])
        PROVE  project'[request[r].row.id].path = request[r].path
    BY <1>1, <1>2, <2>1, ToldTypes DEF PathInv, SameProject
  <2>2. CASE request'[r] = request[r]
    BY <2>1, <2>2 DEF PathInv, SameProject
  <2>3. CASE Call(r)
    <3>1. ASSUME NEW path \in Paths, FindProject(r, path), request'[r].pc = "found",
                 request'[r].path = path, request'[r].row = RowOf(path)
          PROVE  /\ request'[r].pc # "served"
                 /\ request'[r].row # None =>
                       project'[request'[r].row.id].path = request'[r].path
      BY <1>1, <1>2, <3>1, RowOfPath
    <3>2. ASSUME Admitted(r) \/ Reading(request[r])
          PROVE  Told(request[r])
      BY <3>2 DEF Admitted, Told
    <3>3. CacheHit(r) \/ Build(r) \/ Reading(request'[r]) =>
             (request'[r].pc = "served" => request'[r].flow.id = request[r].row.id)
      BY AnswerIsOfRow DEF Reading
    <3> QED
      BY <2>1, <2>3, <3>1, <3>2, <3>3, CallMoves DEF Told, Reading
  <2> QED
    BY <2>2, <2>3, OtherCalls
<1> QED
  BY <1>1, <1>3, <1>4 DEF PathInv, SameProject, Told, Reading

LEMMA PathInvCorrect == ASSUME ~PathsMove PROVE Spec => []PathInv
<1>1. Init => PathInv
  BY DEF Init, Idle, PathInv, PathsUnique, SameProject, Told, Reading
<1>2. TypeInv /\ PathInv /\ [Next]_vars => PathInv'
  BY PathInvStep
<1> QED
  BY <1>1, <1>2, TypeInvCorrect, PTL DEF Spec

\* As long as no path passes from one project to another, a call is answered
\* with the flow of the project it asked for; that paths do move is what makes
\* getProjectFlow serve another project's flow (lines 165-176).
THEOREM FixedPathsKeepProjects ==
    ASSUME ~PathsMove PROVE Spec => []ServedFlowIsOfBoundProject
<1>1. PathInv => ServedFlowIsOfBoundProject
  BY DEF PathInv, SameProject, ServedFlowIsOfBoundProject
<1> QED
  BY <1>1, PathInvCorrect, PTL

-----------------------------------------------------------------------------
(* getProjectFlow implements FlowLookup, step by step.                      *)

\* What FlowLookup sees of all calls.
LookupsNow == [r \in Requests |-> LookupOf(request[r])]

LEMMA StagesOfCalls ==
    /\ StageOf("idle") = "idle" /\ StageOf("served") = "answered"
    /\ StageOf("failed") = "failed" /\ StageOf("found") = "asked"
    /\ StageOf("links") = "asked" /\ StageOf("ports") = "asked"
    /\ StageOf("nodes") = "asked" /\ StageOf("build") = "asked"
BY DEF StageOf

\* A step of call r changes what is seen of r only.
LEMMA LookupMoves ==
    ASSUME TypeInv, NEW r \in Requests, Call(r)
    PROVE  LookupsNow' = [LookupsNow EXCEPT ![r] = LookupOf(request'[r])]
<1>1. request \in [Requests -> Request]
  BY DEF TypeInv, TypeOK
<1>2. \E call : request' = [request EXCEPT ![r] = call]
  BY DEF Call, FindProject, Reject, CacheHit, CacheMiss, ReadLinks, ReadPorts,
         ReadNodes, Build, BuildFails
<1>3. \A q \in Requests \ {r} : request'[q] = request[q]
  BY <1>1, <1>2
<1>4. LookupsNow' = [q \in Requests |-> LookupOf(request'[q])]
  BY DEF LookupsNow, LookupOf
<1>5. [LookupsNow EXCEPT ![r] = LookupOf(request'[r])]
        = [q \in Requests |-> IF q = r THEN LookupOf(request'[r])
                                        ELSE LookupOf(request[q])]
  BY DEF LookupsNow
<1> QED
  BY <1>3, <1>4, <1>5

LEMMA FindIsAsk ==
    ASSUME TypeInv, NEW r \in Requests, NEW path \in Paths, FindProject(r, path)
    PROVE  \E p \in Projects \cup {None} : Lookups!Ask(r, path, p)
<1> DEFINE p == IF \E q \in Projects : project[q].path = path
                THEN CHOOSE q \in Projects : project[q].path = path ELSE None
<1>1. p \in Projects \cup {None} /\ Lookups!IsBound(p, path)
  <2>1. CASE \E q \in Projects : project[q].path = path
    <3>1. p \in Projects /\ project[p].path = path
      BY <2>1, Zenon
    <3> QED
      BY <3>1, ConstantsAssumption DEF Lookups!IsBound
  <2>2. CASE ~\E q \in Projects : project[q].path = path
    BY <2>2 DEF Lookups!IsBound
  <2> QED
    BY <2>1, <2>2
<1>2. RowOf(path) = Lookups!RowOf(p)
  <2>1. CASE \E q \in Projects : project[q].path = path
    <3> DEFINE c == CHOOSE q \in Projects : project[q].path = path
    <3>1. p = c /\ c \in Projects
      BY <2>1, Zenon
    <3>2. RowOf(path) = [id |-> c, state |-> project[c].state,
                         compileVersion |-> project[c].compileVersion]
      BY <2>1, Zenon DEF RowOf
    <3> HIDE DEF c, p
    <3> QED
      BY <3>1, <3>2, ConstantsAssumption DEF Lookups!RowOf
  <2>2. CASE ~\E q \in Projects : project[q].path = path
    BY <2>2 DEF RowOf, Lookups!RowOf
  <2> QED
    BY <2>1, <2>2
<1> HIDE DEF p
<1>3. request \in [Requests -> Request]
  BY DEF TypeInv, TypeOK
<1>4. request'[r] = [Idle EXCEPT !.pc = "found", !.path = path, !.row = RowOf(path)]
  BY <1>3 DEF FindProject
<1>5. LookupOf(request'[r]) = Lookups!Lookup("asked", path, Lookups!RowOf(p), None)
  <2>1. /\ request'[r].pc = "found" /\ request'[r].path = path
        /\ request'[r].row = RowOf(path)
    BY <1>4 DEF Idle
  <2> QED
    BY <1>2, <2>1, StagesOfCalls DEF LookupOf, Lookups!Lookup
<1>6. LookupsNow[r].stage # "asked"
  BY StagesOfCalls DEF FindProject, LookupsNow, LookupOf
<1>7. LookupsNow' = [LookupsNow EXCEPT
                       ![r] = Lookups!Lookup("asked", path, Lookups!RowOf(p), None)]
  BY <1>5, LookupMoves DEF Call
<1>8. UNCHANGED <<project, content, committed>>
  BY DEF FindProject, database
<1>9. Lookups!Ask(r, path, p)
  BY <1>1, <1>6, <1>7, <1>8 DEF Lookups!Ask, LookupsNow
<1> QED
  BY <1>1, <1>9

LEMMA FailureIsFail ==
    ASSUME TypeInv, NEW r \in Requests, Reject(r) \/ BuildFails(r)
    PROVE  Lookups!Fail(r)
<1>1. request \in [Requests -> Request]
  BY DEF TypeInv, TypeOK
<1>2. request'[r] = Failed /\ request[r].pc \in {"found", "build"}
  BY <1>1 DEF Reject, BuildFails
<1>3. LookupOf(Failed) = Lookups!Lookup("failed", None, None, None)
  <2>1. /\ Failed.pc = "failed" /\ Failed.path = None /\ Failed.row = None
    BY DEF Failed, Idle
  <2> QED
    BY <2>1, StagesOfCalls DEF LookupOf, Lookups!Lookup
<1>4. LookupsNow[r].stage = "asked"
  BY <1>2, StagesOfCalls DEF LookupsNow, LookupOf
<1>5. LookupsNow' = [LookupsNow EXCEPT ![r] = Lookups!Lookup("failed", None, None, None)]
  BY <1>2, <1>3, LookupMoves DEF Call
<1>6. UNCHANGED <<project, content, committed>>
  BY CallsLeaveDatabase DEF Call, database
<1> QED
  BY <1>4, <1>5, <1>6 DEF Lookups!Fail, LookupsNow

\* A flow that is good and past is what FlowLookup calls a flow of its version.
LEMMA GoodIsPromised ==
    ASSUME TypeInv, NEW flow \in Flow, GoodFlow(flow), PastFlow(flow)
    PROVE  /\ FlowOf(flow) \in Lookups!Flow
           /\ Lookups!IsFlowOf(FlowOf(flow), flow.compileVersion)
<1> DEFINE seen == FlowOf(flow)
           p == flow.id
           v == flow.compileVersion
<1>1. /\ p \in Projects /\ v \in Versions /\ flow.links \in Contents
      /\ flow.ports \in Contents /\ flow.nodes \in Contents
  BY DEF Flow
<1>2. /\ seen.id = p /\ seen.compileVersion = v /\ seen.links = flow.links
      /\ seen.ports = flow.ports /\ seen.nodes = flow.nodes
      /\ seen \in Lookups!Flow
  BY <1>1 DEF FlowOf, Lookups!Flow
<1>3. /\ content[p] \in Int /\ committed[p][v] \in Int
      /\ flow.links \in Int /\ flow.ports \in Int /\ flow.nodes \in Int
  BY <1>1 DEF TypeInv, TypeOK, Contents
<1>4. \A x \in {flow.links, flow.ports, flow.nodes} : x \in committed[p][v]..content[p]
  BY <1>3 DEF GoodFlow, Covers, PastFlow
<1>5. /\ v <= project[p].compileVersion
      /\ \E u \in Versions : committed[p][u] \in 1..flow.nodes
  BY DEF GoodFlow, CommittedVersion, PastFlow, Compiled
<1> HIDE DEF seen
<1>6. Lookups!IsFlowOf(seen, v)
  BY <1>2, <1>4, <1>5 DEF Lookups!IsFlowOf
<1> QED
  BY <1>2, <1>6 DEF seen

\* Whether cached or built, the flow a call returns is one FlowLookup allows.
LEMMA ReturnIsAnswer ==
    ASSUME TypeInv, FreshInv, PastInv, CallsAdmitted, PathsMove \/ PathInv,
           NEW r \in Requests, CacheHit(r) \/ Build(r)
    PROVE  \E flow \in Lookups!Flow : Lookups!Answer(r, flow)
<1> DEFINE call == request[r]
           flow == IF CacheHit(r) THEN flows[call.path] ELSE BuiltFlow(r)
<1>1. request \in [Requests -> Request]
  BY DEF TypeInv, TypeOK
<1>2. /\ call.pc \in {"found", "build"}
      /\ call.row # None /\ call.row.state = "ONLINE"
  BY AdmittedOnline DEF CacheHit, Admitted, Build, CallsAdmitted, Reading
<1>3. request'[r] = Served(r, flow)
  BY <1>1 DEF CacheHit, Build
<1>4. /\ flow \in Flow /\ GoodFlow(flow) /\ PastFlow(flow)
      /\ flow.compileVersion = call.row.compileVersion
  <2>1. CASE CacheHit(r)
    BY <2>1 DEF CacheHit, IsFresh, SameVersion, FreshInv, PastInv, TypeInv, TypeOK
  <2>2. CASE ~CacheHit(r)
    <3>1. Build(r) /\ flow = BuiltFlow(r)
      BY <2>2
    <3>2. GoodFlow(BuiltFlow(r))
      BY <3>1 DEF FreshInv, Build, GoodCall, NotOlder, GoodFlow, Covers, BuiltFlow
    <3>3. BuiltFlow(r).compileVersion = call.row.compileVersion
      BY DEF BuiltFlow
    <3> HIDE DEF flow
    <3> QED
      BY <3>1, <3>2, <3>3, BuildStep, BuiltFlowIsPast
  <2> QED
    BY <2>1, <2>2
<1> HIDE DEF flow
<1>5. /\ request'[r].pc = "served" /\ request'[r].path = call.path
      /\ request'[r].row = call.row /\ request'[r].flow = flow
  BY <1>3 DEF Served, Idle
<1>6. PathsMove \/ FlowOf(flow).id = call.row.id
  BY <1>5, AnswerIsOfRow DEF FlowOf
<1>7. LookupOf(request'[r])
        = Lookups!Lookup("answered", call.path, call.row, FlowOf(flow))
  BY <1>5, StagesOfCalls DEF LookupOf, Lookups!Lookup
<1>8. /\ LookupsNow[r].stage = "asked" /\ LookupsNow[r].path = call.path
      /\ LookupsNow[r].row = call.row
  BY <1>2, StagesOfCalls DEF LookupsNow, LookupOf
<1>9. LookupsNow' = [LookupsNow EXCEPT
         ![r] = Lookups!Lookup("answered", call.path, call.row, FlowOf(flow))]
  BY <1>7, LookupMoves DEF Call
<1>10. UNCHANGED <<project, content, committed>>
  BY CallsLeaveDatabase DEF Call, database
<1>11. /\ FlowOf(flow) \in Lookups!Flow
       /\ Lookups!IsFlowOf(FlowOf(flow), call.row.compileVersion)
  BY <1>4, GoodIsPromised
<1> HIDE DEF call
<1>12. Lookups!Answer(r, FlowOf(flow))
  BY <1>2, <1>6, <1>8, <1>9, <1>10, <1>11 DEF Lookups!Answer, LookupsNow, call
<1> QED
  BY <1>11, <1>12

\* Looking into the cache in vain and reading the tables is not to be seen.
LEMMA ReadingIsStutter ==
    ASSUME TypeInv, NEW r \in Requests,
           CacheMiss(r) \/ ReadLinks(r) \/ ReadPorts(r) \/ ReadNodes(r)
    PROVE  UNCHANGED Lookups!vars
<1> DEFINE call == request[r]
<1>1. request \in [Requests -> Request] /\ call \in Request
  BY DEF TypeInv, TypeOK
<1>2. /\ request'[r].pc \in {"links", "ports", "nodes", "build"}
      /\ request'[r].path = call.path /\ request'[r].row = call.row
      /\ call.pc \in {"found", "links", "ports", "nodes"}
  <2>1. CASE CacheMiss(r)
    <3>1. request'[r] = [call EXCEPT !.pc = "links"] /\ call.pc = "found"
      BY <1>1, <2>1 DEF CacheMiss, Admitted
    <3> QED
      BY <1>1, <3>1 DEF Request
  <2>2. CASE ReadLinks(r)
    <3>1. /\ request'[r] = [call EXCEPT !.pc = "ports", !.links = content[call.row.id]]
          /\ call.pc = "links"
      BY <1>1, <2>2 DEF ReadLinks
    <3> QED
      BY <1>1, <3>1 DEF Request
  <2>3. CASE ReadPorts(r)
    <3>1. /\ request'[r] = [call EXCEPT !.pc = "nodes", !.ports = content[call.row.id]]
          /\ call.pc = "ports"
      BY <1>1, <2>3 DEF ReadPorts
    <3> QED
      BY <1>1, <3>1 DEF Request
  <2>4. CASE ReadNodes(r)
    <3>1. /\ request'[r] = [call EXCEPT !.pc = "build", !.nodes = content[call.row.id]]
          /\ call.pc = "nodes"
      BY <1>1, <2>4 DEF ReadNodes
    <3> QED
      BY <1>1, <3>1 DEF Request
  <2> QED
    BY <2>1, <2>2, <2>3, <2>4
<1>3. LookupOf(request'[r]) = LookupOf(call)
  BY <1>2, StagesOfCalls DEF LookupOf
<1>4. LookupsNow' = LookupsNow
  <2>1. LookupsNow' = [LookupsNow EXCEPT ![r] = LookupOf(request'[r])]
    BY LookupMoves DEF Call
  <2>2. LookupsNow[r] = LookupOf(call) /\ LookupsNow = [q \in Requests |-> LookupsNow[q]]
    BY DEF LookupsNow
  <2> QED
    BY <1>3, <2>1, <2>2
<1>5. UNCHANGED <<project, content, committed>>
  BY CallsLeaveDatabase DEF Call, database
<1> QED
  BY <1>4, <1>5 DEF Lookups!vars, LookupsNow

\* Whatever happens to the database, FlowLookup calls it a change.
LEMMA DatabaseIsChange ==
    ASSUME TypeInv, FreshInv, PastInv, Database
    PROVE  Lookups!Change
<1>1. [Next]_vars
  BY DEF Next
<1>2. UNCHANGED request
  BY DEF Database, Edit, Compile, BindPath, SwitchState
<1>3. LookupsNow' = LookupsNow
  BY <1>2 DEF LookupsNow, LookupOf
<1>4. \A p \in Projects : content'[p] >= content[p]
  BY <1>1, ContentGrows DEF PastInv
<1>5. VersionsStable
  BY <1>1, CommitsAreStable DEF FreshInv
<1>6. \A p \in Projects :
         /\ project'[p].compileVersion >= project[p].compileVersion
         /\ \A v \in Versions : v <= project[p].compileVersion =>
               committed'[p][v] = committed[p][v]
  <2> TAKE p \in Projects
  <2>1. /\ project[p].compileVersion \in Versions
        /\ project[p].compileVersion \in Int /\ project'[p].compileVersion \in Int
    <3>1. TypeInv'
      BY <1>1, TypeInvStep
    <3> QED
      BY <3>1 DEF TypeInv, TypeOK, Versions
  <2>2. project[p].compileVersion <= project'[p].compileVersion
    BY <1>5, <2>1 DEF VersionsStable, CommittedVersion
  <2> QED
    BY <1>5, <2>1, <2>2 DEF VersionsStable, CommittedVersion
<1> QED
  BY <1>3, <1>4, <1>6 DEF Lookups!Change, LookupsNow

LEMMA LookupStep ==
    ASSUME TypeInv, FreshInv, PastInv, CallsAdmitted, PathsMove \/ PathInv,
           [Next]_vars
    PROVE  [Lookups!Next]_(Lookups!vars)
<1>1. CASE Database
  BY <1>1, DatabaseIsChange DEF Lookups!Next
<1>2. CASE Tick \/ UNCHANGED vars
  <2>1. UNCHANGED <<project, content, committed, request>>
    BY <1>2 DEF Tick, vars, database
  <2>2. LookupsNow' = LookupsNow
    BY <2>1 DEF LookupsNow, LookupOf
  <2> QED
    BY <2>1, <2>2 DEF Lookups!vars, LookupsNow
<1>3. ASSUME NEW r \in Requests, Call(r)
      PROVE  [Lookups!Next]_(Lookups!vars)
  <2>1. ASSUME NEW path \in Paths, FindProject(r, path)
        PROVE  Lookups!Next
    BY <2>1, FindIsAsk DEF Lookups!Next
  <2>2. CASE Reject(r) \/ BuildFails(r)
    BY <2>2, FailureIsFail DEF Lookups!Next
  <2>3. CASE CacheHit(r) \/ Build(r)
    BY <2>3, ReturnIsAnswer DEF Lookups!Next
  <2>4. CASE CacheMiss(r) \/ ReadLinks(r) \/ ReadPorts(r) \/ ReadNodes(r)
    BY <2>4, ReadingIsStutter
  <2> QED
    BY <1>3, <2>1, <2>2, <2>3, <2>4 DEF Call
<1> QED
  BY <1>1, <1>2, <1>3 DEF Next

LEMMA LookupInit == Init => Lookups!Init
<1> SUFFICES ASSUME Init
             PROVE  Lookups!Init
  OBVIOUS
<1>1. LookupOf(Idle) = Lookups!Lookup("idle", None, None, None)
  <2>1. Idle.pc = "idle" /\ Idle.path = None /\ Idle.row = None
    BY DEF Idle
  <2> QED
    BY <2>1, StagesOfCalls DEF LookupOf, Lookups!Lookup
<1> QED
  BY <1>1 DEF Init, Lookups!Init

\* For any number of projects, paths and calls and any size of the cache, the
\* maps, their expiry and eviction and the three queries are invisible: what
\* getProjectFlow does is to read a row and to answer with a flow of the version
\* it found there (lines 143-381).
THEOREM CacheImplementsFlowLookup == Spec => ImplementsFlowLookup
<1>1. TypeInv /\ FreshInv /\ PastInv /\ CallsAdmitted /\ (PathsMove \/ PathInv)
        /\ [Next]_vars => [Lookups!Next]_(Lookups!vars)
  BY LookupStep
<1>2. Spec => [](PathsMove \/ PathInv)
  <2>1. CASE PathsMove
    <3>1. PathsMove \/ PathInv
      BY <2>1
    <3> QED
      BY <3>1, PTL
  <2>2. CASE ~PathsMove
    <3>1. PathInv => PathsMove \/ PathInv
      OBVIOUS
    <3>2. Spec => []PathInv
      BY <2>2, PathInvCorrect
    <3> QED
      BY <3>1, <3>2, PTL
  <2> QED
    BY <2>1, <2>2
<1>3. Spec => Lookups!Init /\ [][Lookups!Next]_(Lookups!vars)
  BY <1>1, <1>2, LookupInit, TypeInvCorrect, FreshInvCorrect, PastInvCorrect,
     CallsAdmittedCorrect, PTL DEF Spec
<1> QED
  BY <1>3 DEF ImplementsFlowLookup, Lookups!Spec
=============================================================================
