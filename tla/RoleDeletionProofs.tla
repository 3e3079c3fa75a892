------------------------- MODULE RoleDeletionProofs -------------------------
(***************************************************************************)
(* Proofs about the deletion of RolePermissions: with a single process, a  *)
(* CR does not disappear before what it granted is gone, but for what PUTs *)
(* do that are executed after the controller gave them up (stray).  With a *)
(* second process it may, as the run two_processes shows: both share the   *)
(* CRs but not the informer.                                               *)
(***************************************************************************)
EXTENDS RolePermissionsProofs

OneProcess == \A r, s \in Replicas : r = s

-----------------------------------------------------------------------------
(* What one process and the two invariants give. *)

(* A CR has one worker. *)
LEMMA OneWorker ==
  ASSUME OneProcess, NEW v \in Workers, NEW w \in Workers, CR(v) = CR(w)
  PROVE  v = w
BY DEF OneProcess, Workers, CR

(* All flags are flags. *)
LEMMA Flags ==
  ASSUME PinInv, NEW w \in Workers
  PROVE  /\ \A c \in CRs : api[c] # NoCR =>
              /\ api[c].deleting \in BOOLEAN /\ api[c].finalizer \in BOOLEAN
              /\ api[c].cleared \in BOOLEAN /\ api[c] \in CRObjects
         /\ obj[w] # NoCR =>
              /\ obj[w].deleting \in BOOLEAN /\ obj[w].finalizer \in BOOLEAN
              /\ obj[w].cleared \in BOOLEAN /\ obj[w] \in CRObjects
BY Fields DEF PinInv, TypeOK

(* In the initial state nothing exists. *)
LEMMA InitWipes == Init => WipeInv
<1> SUFFICES ASSUME Init PROVE WipeInv
  OBVIOUS
<1>1. \A w \in Workers : informer[w] = NoCR /\ obj[w] = NoCR /\ pc[w] = "idle"
  BY DEF Init
<1>2. \A c \in CRs : api[c] = NoCR
  BY DEF Init
<1>3. \A w \in Workers : current[w] = FALSE
  BY DEF Init
<1> QED
  BY <1>1, <1>2, <1>3, WorkerCR
  DEF WipeInv, ClearedAreDeleted, CopiesCurrent, DeletionSeen, CopiesLive,
      LiveCopy, WipedFirst, GrantsOnRecord, ClearedMeansWiped

-----------------------------------------------------------------------------
(* Steps that write neither to the API server nor to Strapi. *)

(* Workers that end, start or stay: no worker learns anything new. *)
LEMMA IdleWipes ==
  ASSUME PinInv, WipeInv, UNCHANGED <<api, roles, owner, stray>>,
         \A v \in Workers :
           /\ informer'[v] \in {informer[v], NoCR}
           /\ \/ pc'[v] = pc[v] /\ obj'[v] = obj[v] /\ current'[v] = current[v]
              \/ pc'[v] = "idle" /\ obj'[v] = NoCR /\ ~current'[v]
  PROVE  WipeInv'
<1>1. ClearedAreDeleted'
  BY DEF WipeInv, ClearedAreDeleted
<1>2. CopiesCurrent' /\ DeletionSeen'
  BY DEF WipeInv, CopiesCurrent, DeletionSeen
<1>3. CopiesLive'
  BY DEF WipeInv, CopiesLive, LiveCopy
<1>4. WipedFirst'
  BY DEF WipeInv, WipedFirst, GrantedBy
<1>5. GrantsOnRecord' /\ ClearedMeansWiped'
  BY DEF WipeInv, GrantsOnRecord, ClearedMeansWiped, GrantedBy
<1> QED
  BY <1>1, <1>2, <1>3, <1>4, <1>5 DEF WipeInv

(* A reconcile ends early. *)
LEMMA AbortWipes ==
  ASSUME PinInv, WipeInv, NEW w \in Workers, Abort(w),
         UNCHANGED <<roles, owner, stray>>
  PROVE  WipeInv'
<1>1. \A v \in Workers :
        /\ informer'[v] = informer[v]
        /\ \/ pc'[v] = pc[v] /\ obj'[v] = obj[v] /\ current'[v] = current[v]
           \/ pc'[v] = "idle" /\ obj'[v] = NoCR /\ ~current'[v]
  BY DEF Abort, Finish, Forget, Goto, k8sVars, PinInv, TypeOK
<1> QED
  BY <1>1, IdleWipes DEF Abort, k8sVars

(* A process crashes. *)
LEMMA CrashWipes ==
  ASSUME PinInv, WipeInv, NEW r \in Replicas, Crash(r)
  PROVE  WipeInv'
<1> DEFINE mine == {w \in Workers : w[1] = r}
<1>1. /\ pc' = [w \in Workers |-> IF w \in mine THEN "idle" ELSE pc[w]]
      /\ obj' = [w \in Workers |-> IF w \in mine THEN NoCR ELSE obj[w]]
      /\ current' = [w \in Workers |-> w \notin mine /\ current[w]]
      /\ informer' = [w \in Workers |->
                        IF w \in mine THEN NoCR ELSE informer[w]]
      /\ UNCHANGED <<api, roles, owner, stray>>
  BY DEF Crash
<1> HIDE DEF mine
<1>2. \A v \in Workers : current[v] \in BOOLEAN
  BY DEF PinInv, TypeOK
<1> QED
  BY <1>1, <1>2, IdleWipes

(* A reconcile starts from the informer's copy: if the wipe is on record that
   copy knows of the deletion. *)
LEMMA StartWipes ==
  ASSUME PinInv, WipeInv, NEW w \in Workers, Start(w)
  PROVE  WipeInv'
<1>1. /\ informer[w] # NoCR /\ obj' = [obj EXCEPT ![w] = informer[w]]
      /\ current' = [current EXCEPT ![w] = synced[w]]
      /\ UNCHANGED <<api, informer, roles, owner, stray>>
  BY DEF Start, k8sVars, strapiVars
<1>2. PICK l \in {"release", "initialize", "observe"} :
        /\ pc' = [pc EXCEPT ![w] = l]
        /\ l = "release" => informer[w].deleting /\ ~ShouldDelete(informer[w])
  BY <1>1 DEF Start, Goto
<1>3. /\ obj'[w] = informer[w] /\ current'[w] = synced[w] /\ pc'[w] = l
      /\ \A v \in Workers \ {w} :
           obj'[v] = obj[v] /\ current'[v] = current[v] /\ pc'[v] = pc[v]
  BY <1>1, <1>2 DEF PinInv, TypeOK
<1>4. synced[w] => informer[w] = api[CR(w)]
  BY DEF PinInv, VersionsStand
<1>5. ClearedAreDeleted'
  BY <1>1, <1>3 DEF WipeInv, ClearedAreDeleted
<1>6. CopiesCurrent' /\ DeletionSeen'
  BY <1>1, <1>3, <1>4 DEF WipeInv, CopiesCurrent, DeletionSeen
<1>7. CopiesLive'
  BY <1>1, <1>3 DEF WipeInv, CopiesLive, LiveCopy, DeletionSeen
<1>8. WipedFirst'
  BY <1>1, <1>2, <1>3 DEF WipeInv, WipedFirst, GrantedBy
<1>9. GrantsOnRecord' /\ ClearedMeansWiped'
  BY <1>1 DEF WipeInv, GrantsOnRecord, ClearedMeansWiped, GrantedBy
<1> QED
  BY <1>5, <1>6, <1>7, <1>8, <1>9 DEF WipeInv

(* A watch event. *)
LEMMA SyncWipes ==
  ASSUME PinInv, WipeInv, NEW w \in Workers, Sync(w)
  PROVE  WipeInv'
<1>1. /\ informer' = [informer EXCEPT ![w] = api[CR(w)]]
      /\ UNCHANGED <<api, roles, owner, stray, pc, obj, current>>
  BY DEF Sync, strapiVars, workerVars
<1>2. /\ informer'[w] = api[CR(w)]
      /\ \A v \in Workers \ {w} : informer'[v] = informer[v]
  BY <1>1 DEF PinInv, TypeOK
<1>3. ClearedAreDeleted'
  BY <1>1, <1>2, WorkerCR DEF WipeInv, ClearedAreDeleted
<1>4. CopiesCurrent'
  BY <1>1 DEF WipeInv, CopiesCurrent
<1>5. DeletionSeen'
  BY <1>1, <1>2, WorkerCR
  DEF WipeInv, DeletionSeen, ClearedAreDeleted, CopiesCurrent
<1>6. CopiesLive'
  BY <1>1, <1>2 DEF WipeInv, CopiesLive, LiveCopy
<1>7. WipedFirst' /\ GrantsOnRecord' /\ ClearedMeansWiped'
  BY <1>1 DEF WipeInv, WipedFirst, GrantsOnRecord, ClearedMeansWiped, GrantedBy
<1> QED
  BY <1>3, <1>4, <1>5, <1>6, <1>7 DEF WipeInv

(* Observe decides by the flags of the copy it has. *)
LEMMA ObserveWipes ==
  ASSUME PinInv, WipeInv, NEW w \in Workers, Observe(w)
  PROVE  WipeInv'
<1>1. CASE resolveRole(obj[w]) = {} /\ Abort(w)
  BY <1>1, AbortWipes DEF Observe, strapiVars
<1>2. CASE ~(resolveRole(obj[w]) = {} /\ Abort(w))
  <2> DEFINE o == obj[w]
  <2>0. PICK i \in resolveRole(o) :
          /\ obj' = [obj EXCEPT ![w] = Observed(o, i)]
          /\ Goto(w, CASE ReportsGone(o)  -> "release"
                       [] o.deleting /\ ~ReportsGone(o) -> "delete"
                       [] ~o.deleting /\ ~o.finalizer -> "addfinalizer"
                       [] OTHER ->
                            AfterFinalizer(o, ~UpToDate(o.perms, roles[i].perms)))
          /\ UNCHANGED <<k8sVars, current>>
    BY <1>2 DEF Observe
  <2> DEFINE l == CASE ReportsGone(o)  -> "release"
                    [] o.deleting /\ ~ReportsGone(o) -> "delete"
                    [] ~o.deleting /\ ~o.finalizer -> "addfinalizer"
                    [] OTHER ->
                         AfterFinalizer(o, ~UpToDate(o.perms, roles[i].perms))
  <2>1. /\ obj' = [obj EXCEPT ![w] = Observed(o, i)]
        /\ pc' = [pc EXCEPT ![w] = l]
        /\ UNCHANGED <<k8sVars, current>>
    BY <2>0 DEF Goto
  <2>2. /\ pc[w] = "observe" /\ o \in CRObjects
        /\ o.deleting \in BOOLEAN /\ o.cleared \in BOOLEAN
        /\ o.finalizer \in BOOLEAN
    BY Facts, Flags, NoCRAssumption DEF Observe
  <2>3. /\ l = "release" => o.deleting /\ o.cleared
        /\ l \in {"addfinalizer", "update", "status"} => ~o.deleting
        /\ l \in {"release", "delete", "addfinalizer", "update", "status"}
    <3>1. CASE ReportsGone(o)
      BY <2>1, <3>1 DEF ReportsGone
    <3>2. CASE o.deleting /\ ~ReportsGone(o)
      BY <2>1, <3>2
    <3>3. CASE ~o.deleting /\ ~o.finalizer
      <4>1. l = "addfinalizer"
        BY <2>1, <3>3 DEF ReportsGone
      <4> QED
        BY <3>3, <4>1
    <3>4. CASE ~o.deleting /\ o.finalizer
      <4>1. l \in {"update", "status"}
        BY <2>1, <3>4 DEF ReportsGone, AfterFinalizer
      <4> QED
        BY <3>4, <4>1
    <3> QED
      BY <2>2, <3>1, <3>2, <3>3, <3>4
  <2> DEFINE n == Observed(o, i)
  <2>4. /\ n.deleting = o.deleting /\ n.finalizer = o.finalizer
        /\ n.uid = o.uid /\ n.policy = o.policy
        /\ n.cleared = (o.deleting /\ o.cleared)
    BY <2>2 DEF Observed, ReportsGone, CRObjects
  <2> HIDE DEF l
  <2>5. /\ obj'[w] = n /\ pc'[w] = l
        /\ \A v \in Workers \ {w} : obj'[v] = obj[v] /\ pc'[v] = pc[v]
        /\ UNCHANGED <<api, informer, current, roles, owner, stray>>
    BY <2>1 DEF Observe, k8sVars, strapiVars, PinInv, TypeOK
  <2>6. o # NoCR
    BY <2>2, NoCRAssumption
  <2> HIDE DEF n
  <2>7. ClearedAreDeleted'
    BY <2>4, <2>5 DEF WipeInv, ClearedAreDeleted
  <2>8. CopiesCurrent' /\ DeletionSeen'
    BY <2>2, <2>4, <2>5 DEF WipeInv, CopiesCurrent, DeletionSeen
  <2>9. CopiesLive'
    BY <2>2, <2>4, <2>5, <2>6 DEF WipeInv, CopiesLive, LiveCopy
  <2>10. WipedFirst'
    BY <2>3, <2>4, <2>5 DEF WipeInv, WipedFirst, GrantedBy
  <2>11. GrantsOnRecord' /\ ClearedMeansWiped'
    BY <2>5 DEF WipeInv, GrantsOnRecord, ClearedMeansWiped, GrantedBy
  <2> QED
    BY <2>7, <2>8, <2>9, <2>10, <2>11 DEF WipeInv
<1> QED
  BY <1>1, <1>2

(* Listing the roles again tells nothing about the CR. *)
LEMMA ResolveWipes ==
  ASSUME PinInv, WipeInv, NEW w \in Workers, Resolve(w)
  PROVE  WipeInv'
<1>1. CASE Abort(w)
  BY <1>1, AbortWipes DEF Resolve, strapiVars
<1>2. CASE ~Abort(w)
  <2>1. /\ pc[w] \in {"update", "delete"} /\ pc' = [pc EXCEPT ![w] = "put"]
        /\ UNCHANGED <<api, informer, obj, current, roles, owner, stray>>
    BY <1>2 DEF Resolve, Goto, k8sVars, strapiVars
  <2>2. pc'[w] = "put" /\ \A v \in Workers \ {w} : pc'[v] = pc[v]
    BY <2>1 DEF PinInv, TypeOK
  <2>3. ClearedAreDeleted' /\ CopiesCurrent' /\ DeletionSeen'
    BY <2>1, <2>2 DEF WipeInv, ClearedAreDeleted, CopiesCurrent, DeletionSeen
  <2>4. CopiesLive'
    BY <2>1, <2>2 DEF WipeInv, CopiesLive, LiveCopy
  <2>5. WipedFirst' /\ GrantsOnRecord' /\ ClearedMeansWiped'
    BY <2>1, <2>2
    DEF WipeInv, WipedFirst, GrantsOnRecord, ClearedMeansWiped, GrantedBy
  <2> QED
    BY <2>3, <2>4, <2>5 DEF WipeInv
<1> QED
  BY <1>1, <1>2

-----------------------------------------------------------------------------
(* Strapi. *)

(* Recorded ids have been issued: AdminCreate does not take them. *)
LEMMA RecordedIds ==
  ASSUME PinInv, NEW c \in CRs, api[c] # NoCR, api[c].finalizer
  PROVE  api[c].extName \in 1..nextId - 1
BY DEF PinInv, FinalizersPin, Pinned

(* Administrators take grants away, what late PUTs grant is not of the kind
   that counts, and neither brings a recorded role back. *)
LEMMA StrapiWipes ==
  ASSUME PinInv, WipeInv, UNCHANGED <<k8sVars, workerVars>>,
         DOMAIN roles' \cap (1..nextId - 1) \subseteq DOMAIN roles,
         \A c \in CRs : \A i \in RoleIds : GrantedBy(c, i)' => GrantedBy(c, i)
  PROVE  WipeInv'
<1> USE DEF k8sVars, workerVars
<1>1. DOMAIN roles \subseteq RoleIds
  BY DEF PinInv, TypeOK
<1>2. ClearedAreDeleted' /\ CopiesCurrent' /\ DeletionSeen'
  BY DEF WipeInv, ClearedAreDeleted, CopiesCurrent, DeletionSeen
<1>3. CopiesLive'
  BY DEF WipeInv, CopiesLive, LiveCopy
<1>4. ASSUME NEW c \in CRs, api[c] # NoCR, api[c].finalizer,
             api[c].extName \in DOMAIN roles'
      PROVE  /\ api[c].extName \in DOMAIN roles
             /\ api[c].extName \in RoleIds
             /\ GrantedBy(c, api[c].extName)' => GrantedBy(c, api[c].extName)
  BY <1>1, <1>4, RecordedIds
<1>5. WipedFirst'
  <2>1. ASSUME NEW w \in Workers, pc[w] = "status", current[w],
               obj[w].cleared, api[CR(w)].extName \in DOMAIN roles'
        PROVE  ~GrantedBy(CR(w), api[CR(w)].extName)'
    <3>1. /\ CR(w) \in CRs /\ api[CR(w)] # NoCR
          /\ api[CR(w)].finalizer = obj[w].finalizer
      BY <2>1, WorkerCR DEF PinInv, VersionsStand
    <3>2. obj[w] # NoCR
      BY <2>1 DEF PinInv, TypeOK
    <3>3. obj[w].deleting /\ obj[w].finalizer
      BY <2>1, <3>2
      DEF WipeInv, ClearedAreDeleted, PinInv, FinalizersPin, Pinned
    <3>4. /\ api[CR(w)].extName \in DOMAIN roles
          /\ GrantedBy(CR(w), api[CR(w)].extName)'
               => GrantedBy(CR(w), api[CR(w)].extName)
      BY <1>4, <2>1, <3>1, <3>3
    <3>5. ~GrantedBy(CR(w), api[CR(w)].extName)
      BY <2>1, <3>4 DEF WipeInv, WipedFirst
    <3> QED
      BY <3>4, <3>5
  <2> QED
    BY <2>1 DEF WipeInv, WipedFirst
<1>6. GrantsOnRecord'
  <2>1. ASSUME NEW c \in CRs, api[c] # NoCR, NEW i \in RoleIds, GrantedBy(c, i)'
        PROVE  /\ api[c].finalizer
               /\ api[c].extName \in DOMAIN roles' => i = api[c].extName
    <3>1. GrantedBy(c, i)
      BY <2>1
    <3> QED
      BY <1>4, <2>1, <3>1 DEF WipeInv, GrantsOnRecord
  <2> QED
    BY <2>1 DEF GrantsOnRecord
<1>7. ClearedMeansWiped'
  <2>1. ASSUME NEW c \in CRs, api[c] # NoCR, api[c].cleared
        PROVE  /\ api[c].deleting /\ api[c].finalizer
               /\ api[c].extName \in DOMAIN roles'
                    => ~GrantedBy(c, api[c].extName)'
    <3>1. api[c].deleting /\ api[c].finalizer
      BY <2>1 DEF WipeInv, ClearedMeansWiped
    <3>2. api[c].extName \in DOMAIN roles => ~GrantedBy(c, api[c].extName)
      BY <2>1 DEF WipeInv, ClearedMeansWiped
    <3> QED
      BY <1>4, <2>1, <3>1, <3>2
  <2> QED
    BY <2>1 DEF ClearedMeansWiped
<1> QED
  BY <1>2, <1>3, <1>5, <1>6, <1>7 DEF WipeInv

(* A PUT that arrives late, and what administrators do. *)
LEMMA OutsideWipes ==
  ASSUME PinInv, WipeInv, (\E m \in late : LateEnds(m)) \/ Administrators
  PROVE  WipeInv'
<1>0. /\ DOMAIN roles \subseteq RoleIds \cap (1..nextId - 1) /\ nextId \in Nat
      /\ owner \in [RoleIds -> CRs \cup {Nobody}]
  BY DEF PinInv, TypeOK
<1>1. ASSUME NEW m \in late, LateEnds(m) PROVE WipeInv'
  <2>1. /\ DOMAIN roles' = DOMAIN roles
        /\ \A c \in CRs : \A i \in RoleIds : GrantedBy(c, i)' => GrantedBy(c, i)
    BY <1>0, <1>1, NobodyAssumption DEF LateEnds, Execute, GrantedBy
  <2>2. UNCHANGED <<k8sVars, workerVars>>
    BY <1>1 DEF LateEnds
  <2> QED
    BY <2>1, <2>2, StrapiWipes
<1>2. ASSUME NEW n \in Names, AdminCreate(n) PROVE WipeInv'
  <2>1. /\ DOMAIN roles' = DOMAIN roles \cup {nextId}
        /\ \A c \in CRs : \A i \in RoleIds : GrantedBy(c, i)' => GrantedBy(c, i)
    BY <1>2 DEF AdminCreate, GrantedBy
  <2>2. DOMAIN roles' \cap (1..nextId - 1) \subseteq DOMAIN roles
    BY <1>0, <2>1
  <2>3. UNCHANGED <<k8sVars, workerVars>>
    BY <1>2 DEF AdminCreate, Admin
  <2> QED
    BY <2>1, <2>2, <2>3, StrapiWipes
<1>3. ASSUME NEW i \in RoleIds,
             \/ AdminRemove(i)
             \/ \E t \in AdminTrees : AdminSetPerms(i, t)
             \/ \E n \in Names : AdminRename(i, n)
      PROVE  WipeInv'
  <2>1. /\ DOMAIN roles' \subseteq DOMAIN roles
        /\ \A c \in CRs : \A j \in RoleIds : GrantedBy(c, j)' => GrantedBy(c, j)
    BY <1>0, <1>3, NobodyAssumption
    DEF AdminRemove, AdminSetPerms, AdminRename, GrantedBy
  <2>2. UNCHANGED <<k8sVars, workerVars>>
    BY <1>3 DEF AdminRemove, AdminSetPerms, AdminRename, Admin
  <2> QED
    BY <2>1, <2>2, StrapiWipes
<1> QED
  BY <1>1, <1>2, <1>3 DEF Administrators

(* A PUT goes to the recorded role: an update grants on it, and only while the
   CR is there and no wipe is on record; a wipe takes the grant away before
   the flag is raised. *)
LEMMA PutWipes ==
  ASSUME OneProcess, PinInv, WipeInv, NEW w \in Workers, PutDone(w)
  PROVE  WipeInv'
<1> DEFINE c == CR(w)
           n == [obj[w] EXCEPT !.cleared = obj[w].deleting]
           t == target[w].id
<1>1. /\ c \in CRs /\ pc[w] = "put" /\ obj[w] \in CRObjects /\ obj[w] # NoCR
      /\ obj[w].deleting \in BOOLEAN /\ obj[w].finalizer
      /\ t \in DOMAIN roles /\ t \in RoleIds
      /\ Agrees(obj[w], c) /\ LiveCopy(obj[w], c)
  BY Facts, Fields
  DEF PutDone, Execute, Body, PinInv, TypeOK, StagesInOrder, CopiesAgree,
      WipeInv, CopiesLive
<1>2. /\ n.deleting = obj[w].deleting /\ n.finalizer = obj[w].finalizer
      /\ n.uid = obj[w].uid /\ n.policy = obj[w].policy
      /\ n.cleared = obj[w].deleting
  BY <1>1 DEF CRObjects
<1>3. /\ pc'[w] = "status" /\ obj'[w] = n
      /\ \A v \in Workers \ {w} : pc'[v] = pc[v] /\ obj'[v] = obj[v]
      /\ DOMAIN roles' = DOMAIN roles
      /\ UNCHANGED <<api, informer, current>>
  BY <1>1 DEF PutDone, Goto, Execute, Body, k8sVars, PinInv, TypeOK
<1>0. \A d \in CRs : \A i \in RoleIds :
        GrantedBy(d, i)' <=> IF i = t THEN d = c /\ ~obj[w].deleting
                                      ELSE GrantedBy(d, i)
  <2>1. /\ owner' = [owner EXCEPT ![t] = IF obj[w].deleting THEN Nobody ELSE c]
        /\ stray' = stray \ {t}
    BY DEF PutDone, Execute, Body, Grantor
  <2>2. owner \in [RoleIds -> CRs \cup {Nobody}]
    BY DEF PinInv, TypeOK
  <2> QED
    BY <1>1, <2>1, <2>2, NobodyAssumption DEF GrantedBy
<1>4. api[c] # NoCR /\ api[c].uid = obj[w].uid =>
        /\ api[c].finalizer
        /\ api[c].extName \in DOMAIN roles => t = api[c].extName
  BY <1>1 DEF PinInv, PinnedTarget, Reconciles, Agrees
<1>5. ~obj[w].deleting => api[c] # NoCR /\ api[c].uid = obj[w].uid
  BY <1>1 DEF LiveCopy
<1>6. DOMAIN roles \subseteq RoleIds
  BY DEF PinInv, TypeOK
<1> HIDE DEF n
<1>7. ClearedAreDeleted'
  BY <1>2, <1>3 DEF WipeInv, ClearedAreDeleted
<1>8. CopiesCurrent' /\ DeletionSeen'
  BY <1>2, <1>3 DEF WipeInv, CopiesCurrent, DeletionSeen
<1>9. CopiesLive'
  BY <1>1, <1>2, <1>3 DEF WipeInv, CopiesLive, LiveCopy
<1>10. WipedFirst'
  <2>1. ASSUME NEW v \in Workers, pc'[v] = "status", current[v],
               obj'[v].cleared, api[CR(v)].extName \in DOMAIN roles
        PROVE  ~GrantedBy(CR(v), api[CR(v)].extName)'
    <3>1. CASE v = w
      <4>1. obj[w].deleting
        BY <1>2, <1>3, <2>1, <3>1
      <4>2. api[c] # NoCR /\ api[c].uid = obj[w].uid
        BY <2>1, <3>1 DEF PinInv, VersionsStand
      <4> QED
        BY <1>0, <1>1, <1>3, <1>4, <2>1, <3>1, <4>1, <4>2
    <3>2. CASE v # w
      <4>1. ~GrantedBy(CR(v), api[CR(v)].extName)
        BY <1>3, <2>1, <3>2 DEF WipeInv, WipedFirst
      <4>2. CR(v) # c /\ CR(v) \in CRs
        BY <3>2, OneWorker, WorkerCR
      <4>3. api[CR(v)].extName \in RoleIds
        BY <1>6, <2>1
      <4> QED
        BY <1>0, <1>3, <4>1, <4>2, <4>3
    <3> QED
      BY <3>1, <3>2
  <2>2. ASSUME NEW v \in Workers PROVE
          /\ pc'[v] = "release" => pc[v] = "release" /\ obj'[v] = obj[v]
          /\ pc'[v] \in {"addfinalizer", "update"} =>
               pc'[v] = pc[v] /\ obj'[v] = obj[v]
    BY <1>3
  <2>3. ASSUME NEW v \in Workers, pc'[v] = "status", obj'[v].deleting
        PROVE  obj'[v].cleared
    <3>1. CASE v = w
      BY <1>2, <1>3, <2>3, <3>1
    <3>2. CASE v # w
      BY <1>3, <2>3, <3>2 DEF WipeInv, WipedFirst
    <3> QED
      BY <3>1, <3>2
  <2> QED
    BY <1>3, <2>1, <2>2, <2>3 DEF WipeInv, WipedFirst
<1>11. GrantsOnRecord'
  <2>1. ASSUME NEW d \in CRs, api[d] # NoCR, NEW i \in RoleIds, GrantedBy(d, i)'
        PROVE  /\ api[d].finalizer
               /\ api[d].extName \in DOMAIN roles => i = api[d].extName
    <3>1. CASE GrantedBy(d, i)
      BY <2>1, <3>1 DEF WipeInv, GrantsOnRecord
    <3>2. CASE ~GrantedBy(d, i)
      <4>1. i = t /\ d = c /\ ~obj[w].deleting
        BY <1>0, <2>1, <3>2
      <4> QED
        BY <1>4, <1>5, <4>1
    <3> QED
      BY <3>1, <3>2
  <2> QED
    BY <1>3, <2>1 DEF GrantsOnRecord
<1>12. ClearedMeansWiped'
  <2>1. ASSUME NEW d \in CRs, api[d] # NoCR, api[d].cleared,
               api[d].extName \in DOMAIN roles
        PROVE  ~GrantedBy(d, api[d].extName)'
    <3>1. ~GrantedBy(d, api[d].extName)
      BY <2>1 DEF WipeInv, ClearedMeansWiped
    <3>2. d = c => obj[w].deleting
      BY <1>1, <2>1 DEF WipeInv, CopiesLive
    <3> QED
      BY <1>0, <1>3, <1>6, <2>1, <3>1, <3>2
  <2> QED
    BY <1>3, <2>1 DEF WipeInv, ClearedMeansWiped
<1> QED
  BY <1>7, <1>8, <1>9, <1>10, <1>11, <1>12 DEF WipeInv

-----------------------------------------------------------------------------
(* Writes to the API server. *)

(* After a write by anyone but a reconcile that goes on, no worker of the CR
   has its latest version. *)
LEMMA Outdates ==
  ASSUME PinInv, NEW c \in CRs, NEW o, api' = [api EXCEPT ![c] = o],
         Outdate(c, {})
  PROVE  /\ api'[c] = o
         /\ \A d \in CRs \ {c} : api'[d] = api[d]
         /\ \A v \in Workers : current'[v] => current[v] /\ CR(v) # c
BY DEF Outdate, PinInv, TypeOK

(* A write that keeps the CR and what its deletion depends on, except that it
   may be marked as deleted, or that a worker puts on record what it has
   done, and ends. *)
LEMMA ReplaceWipes ==
  ASSUME OneProcess, PinInv, WipeInv, NEW c \in CRs, api[c] # NoCR,
         NEW o \in CRObjects, o.uid = api[c].uid, o.extName = api[c].extName,
         o.finalizer = api[c].finalizer, api[c].deleting => o.deleting,
         api' = [api EXCEPT ![c] = o], Outdate(c, {}),
         UNCHANGED <<informer, roles, owner, stray>>,
         \/ UNCHANGED <<pc, obj>> /\ o.cleared = api[c].cleared
         \/ \E w \in Workers :
              /\ CR(w) = c /\ pc' = [pc EXCEPT ![w] = "idle"]
              /\ obj' = [obj EXCEPT ![w] = NoCR]
              /\ o.cleared =>
                   /\ o.deleting /\ o.finalizer
                   /\ informer[w] # NoCR => informer[w].deleting
                   /\ o.extName \in DOMAIN roles => ~GrantedBy(c, o.extName)
  PROVE  WipeInv'
<1>0. /\ o # NoCR /\ o.deleting \in BOOLEAN /\ o.cleared \in BOOLEAN
      /\ o.finalizer \in BOOLEAN
  BY Fields
<1>1. /\ api'[c] = o /\ \A d \in CRs \ {c} : api'[d] = api[d]
      /\ \A v \in Workers : current'[v] => current[v] /\ CR(v) # c
  BY Outdates
<1>2. \A v \in Workers :
        \/ pc'[v] = pc[v] /\ obj'[v] = obj[v]
        \/ pc'[v] = "idle" /\ obj'[v] = NoCR
  BY DEF PinInv, TypeOK
<1>3. o.cleared =>
        /\ o.deleting /\ o.finalizer
        /\ o.extName \in DOMAIN roles => ~GrantedBy(c, o.extName)
        /\ \A v \in Workers : CR(v) = c =>
             /\ informer[v] # NoCR => informer[v].deleting
             /\ pc'[v] # "idle" => obj'[v].deleting
  <2>1. CASE UNCHANGED <<pc, obj>> /\ o.cleared = api[c].cleared
    BY <2>1 DEF WipeInv, ClearedMeansWiped, DeletionSeen, CopiesLive
  <2>2. CASE ~(UNCHANGED <<pc, obj>> /\ o.cleared = api[c].cleared)
    <3>1. PICK w \in Workers :
            /\ CR(w) = c /\ pc' = [pc EXCEPT ![w] = "idle"]
            /\ o.cleared =>
                 /\ o.deleting /\ o.finalizer
                 /\ informer[w] # NoCR => informer[w].deleting
                 /\ o.extName \in DOMAIN roles => ~GrantedBy(c, o.extName)
      BY <2>2
    <3>2. pc'[w] = "idle"
      BY <3>1 DEF PinInv, TypeOK
    <3>3. \A v \in Workers : CR(v) = c => v = w
      BY <3>1, OneWorker
    <3> QED
      BY <3>1, <3>2, <3>3
  <2> QED
    BY <2>1, <2>2
<1> USE <1>0, <1>1, <1>2, WorkerCR
<1>4. ClearedAreDeleted'
  BY <1>3 DEF WipeInv, ClearedAreDeleted
<1>5. CopiesCurrent'
  <2>1. ASSUME NEW v \in Workers, current'[v]
        PROVE  obj'[v] = obj[v] /\ pc'[v] = pc[v] /\ api'[CR(v)] = api[CR(v)]
    <3>1. CR(v) # c /\ CR(v) \in CRs
      BY <2>1
    <3> QED
      BY <3>1 DEF PinInv, TypeOK
  <2> QED
    BY <2>1 DEF WipeInv, CopiesCurrent
<1>6. DeletionSeen'
  <2>1. ASSUME NEW v \in Workers, CR(v) # c, current'[v] PROVE obj'[v] = obj[v]
    BY <2>1 DEF PinInv, TypeOK
  <2> QED
    BY <1>3, <2>1 DEF WipeInv, DeletionSeen
<1>7. CopiesLive'
  BY <1>3 DEF WipeInv, CopiesLive, LiveCopy
<1>8. WipedFirst'
  BY <1>3 DEF WipeInv, WipedFirst, GrantedBy
<1>9. GrantsOnRecord' /\ ClearedMeansWiped'
  BY <1>3 DEF WipeInv, GrantsOnRecord, ClearedMeansWiped, GrantedBy
<1> QED
  BY <1>4, <1>5, <1>6, <1>7, <1>8, <1>9 DEF WipeInv

(* The status write: what it puts on record has happened. *)
LEMMA WriteStatusWipes ==
  ASSUME OneProcess, PinInv, WipeInv, NEW w \in Workers, WriteStatus(w)
  PROVE  WipeInv'
<1>1. CASE current[w] /\ api[CR(w)].cleared # obj[w].cleared
  <2> DEFINE c == CR(w)
             n == [api[c] EXCEPT !.cleared = obj[w].cleared]
  <2>1. /\ c \in CRs /\ api[c] # NoCR /\ api[c] \in CRObjects
        /\ obj[w] # NoCR /\ obj[w].cleared \in BOOLEAN /\ Pinned(obj[w])
        /\ api[c].finalizer = obj[w].finalizer
        /\ api[c].deleting = obj[w].deleting
    BY <1>1, Facts, Fields
    DEF WriteStatus, PinInv, VersionsStand, FinalizersPin, WipeInv,
        CopiesCurrent
  <2>2. n \in CRObjects
    BY <2>1 DEF CRObjects
  <2>3. /\ n.uid = api[c].uid /\ n.extName = api[c].extName
        /\ n.finalizer = api[c].finalizer /\ n.deleting = api[c].deleting
        /\ n.cleared = obj[w].cleared
    BY <2>1 DEF CRObjects
  <2>4. api' = [api EXCEPT ![c] = n] /\ Outdate(c, {})
    BY <1>1 DEF WriteStatus
  <2>5. /\ pc' = [pc EXCEPT ![w] = "idle"] /\ obj' = [obj EXCEPT ![w] = NoCR]
        /\ UNCHANGED <<informer, roles, owner, stray>>
    BY DEF WriteStatus, Finish, Goto, strapiVars
  <2>6. n.cleared =>
          /\ n.deleting /\ n.finalizer
          /\ informer[w] # NoCR => informer[w].deleting
          /\ n.extName \in DOMAIN roles => ~GrantedBy(c, n.extName)
    <3>1. ASSUME obj[w].cleared PROVE obj[w].deleting /\ obj[w].finalizer
      BY <2>1, <3>1 DEF WipeInv, ClearedAreDeleted, Pinned
    <3>2. ASSUME obj[w].cleared, informer[w] # NoCR
          PROVE  informer[w].deleting
      BY <1>1, <2>1, <3>1, <3>2 DEF WipeInv, DeletionSeen
    <3>3. ASSUME obj[w].cleared, api[c].extName \in DOMAIN roles
          PROVE  ~GrantedBy(c, api[c].extName)
      BY <1>1, <3>3 DEF WriteStatus, WipeInv, WipedFirst
    <3> QED
      BY <2>1, <2>3, <3>1, <3>2, <3>3
  <2> HIDE DEF n
  <2> QED
    BY <2>1, <2>2, <2>3, <2>4, <2>5, <2>6, ReplaceWipes
<1>2. CASE ~(current[w] /\ api[CR(w)].cleared # obj[w].cleared)
  <2>1. Abort(w)
    BY <1>2 DEF WriteStatus, Abort, Forget, k8sVars
  <2> QED
    BY <2>1, AbortWipes DEF WriteStatus, strapiVars
<1> QED
  BY <1>1, <1>2

(* Edits of the spec; the policy may change until the end. *)
LEMMA UserEditWipes ==
  ASSUME OneProcess, PinInv, WipeInv, NEW c \in CRs, NEW s \in Specs,
         UserEdit(c, s)
  PROVE  WipeInv'
<1> DEFINE n == [api[c] EXCEPT !.role = s.role, !.perms = s.perms,
                               !.policy = s.policy]
<1>1. api[c] # NoCR /\ api[c] \in CRObjects
  BY DEF UserEdit, PinInv, TypeOK
<1>2. /\ n \in CRObjects
      /\ n.uid = api[c].uid /\ n.extName = api[c].extName
      /\ n.finalizer = api[c].finalizer /\ n.deleting = api[c].deleting
      /\ n.cleared = api[c].cleared
  <2>1. /\ s.role \in {t.role : t \in Specs}
        /\ s.perms \in {t.perms : t \in Specs}
        /\ s.policy \in {t.policy : t \in Specs}
    OBVIOUS
  <2>2. n \in CRObjects
    BY <1>1, <2>1 DEF CRObjects
  <2> QED
    BY <1>1, <2>1, <2>2 DEF CRObjects
<1>3. /\ api' = [api EXCEPT ![c] = n] /\ Outdate(c, {})
      /\ UNCHANGED <<informer, roles, owner, stray, pc, obj>>
  BY DEF UserEdit, UserWrites
<1> HIDE DEF n
<1> QED
  BY <1>1, <1>2, <1>3, ReplaceWipes

(* The CR goes: whoever may remove it has left no grant behind, and no copy
   that would grant again. *)
LEMMA RemoveWipes ==
  ASSUME PinInv, WipeInv, NEW c \in CRs,
         api' = [api EXCEPT ![c] = NoCR], Outdate(c, {}),
         UNCHANGED <<informer, roles, owner, stray>>,
         \A v \in Workers :
           \/ pc'[v] = pc[v] /\ obj'[v] = obj[v]
           \/ pc'[v] = "idle" /\ obj'[v] = NoCR /\ CR(v) = c,
         \A v \in Workers : CR(v) = c =>
           /\ informer[v] # NoCR /\ informer[v].finalizer => informer[v].deleting
           /\ obj'[v] # NoCR /\ obj[v].finalizer => obj[v].deleting
  PROVE  WipeInv'
<1>1. /\ api'[c] = NoCR /\ \A d \in CRs \ {c} : api'[d] = api[d]
      /\ \A v \in Workers : current'[v] => current[v] /\ CR(v) # c
  BY Outdates
<1> USE <1>1, WorkerCR
<1>2. ClearedAreDeleted'
  BY DEF WipeInv, ClearedAreDeleted
<1>3. CopiesCurrent' /\ DeletionSeen'
  BY DEF WipeInv, CopiesCurrent, DeletionSeen
<1>4. CopiesLive'
  BY DEF WipeInv, CopiesLive, LiveCopy
<1>5. WipedFirst'
  BY DEF WipeInv, WipedFirst, GrantedBy
<1>6. GrantsOnRecord' /\ ClearedMeansWiped'
  BY DEF WipeInv, GrantsOnRecord, ClearedMeansWiped, GrantedBy
<1> QED
  BY <1>2, <1>3, <1>4, <1>5, <1>6 DEF WipeInv

(* The finalizer is removed by a worker that has seen the deletion. *)
LEMMA ReleaseWipes ==
  ASSUME OneProcess, PinInv, WipeInv, NEW w \in Workers, Release(w)
  PROVE  WipeInv'
<1>1. CASE current[w]
  <2>1. /\ api[CR(w)] # NoCR /\ obj[w].deleting /\ CR(w) \in CRs
    BY <1>1, WorkerCR DEF Release, PinInv, VersionsStand, WipeInv, WipedFirst
  <2>2. informer[w] # NoCR => informer[w].deleting
    BY <1>1, <2>1 DEF WipeInv, DeletionSeen
  <2>3. /\ pc'[w] = "idle" /\ obj'[w] = NoCR
        /\ \A v \in Workers \ {w} : pc'[v] = pc[v] /\ obj'[v] = obj[v]
        /\ api' = [api EXCEPT ![CR(w)] = NoCR] /\ Outdate(CR(w), {})
        /\ UNCHANGED <<informer, roles, owner, stray>>
    BY <1>1 DEF Release, Finish, Goto, strapiVars, PinInv, TypeOK
  <2>4. \A v \in Workers : CR(v) = CR(w) => v = w
    BY OneWorker
  <2> QED
    BY <2>1, <2>2, <2>3, <2>4, RemoveWipes
<1>2. CASE ~current[w]
  <2>1. Abort(w)
    BY <1>2 DEF Release, Abort, Forget, k8sVars
  <2> QED
    BY <2>1, AbortWipes DEF Release, strapiVars
<1> QED
  BY <1>1, <1>2

(* A user's deletion marks the CR or, before there is a finalizer and
   therefore any grant, removes it. *)
LEMMA UserDeleteWipes ==
  ASSUME OneProcess, PinInv, WipeInv, NEW c \in CRs, UserDelete(c)
  PROVE  WipeInv'
<1>0. /\ Outdate(c, {}) /\ UNCHANGED <<informer, roles, owner, stray, pc, obj>>
  BY DEF UserDelete, UserWrites
<1>1. api[c] # NoCR /\ api[c] \in CRObjects
  BY DEF UserDelete, Live, PinInv, TypeOK
<1>2. CASE api[c].finalizer
  <2> DEFINE n == [api[c] EXCEPT !.deleting = TRUE]
  <2>1. n \in CRObjects
    BY <1>1 DEF CRObjects
  <2>2. /\ n.uid = api[c].uid /\ n.extName = api[c].extName
        /\ n.finalizer = api[c].finalizer /\ n.cleared = api[c].cleared
        /\ n.deleting
    BY <1>1 DEF CRObjects
  <2>3. api' = [api EXCEPT ![c] = n]
    BY <1>2 DEF UserDelete, UserWrites
  <2> HIDE DEF n
  <2> QED
    BY <1>0, <1>1, <2>1, <2>2, <2>3, ReplaceWipes
<1>3. CASE ~api[c].finalizer
  <2>1. api' = [api EXCEPT ![c] = NoCR]
    BY <1>3 DEF UserDelete, UserWrites
  <2>2. ASSUME NEW v \in Workers, CR(v) = c
        PROVE  /\ informer[v] # NoCR /\ informer[v].finalizer
                    => informer[v].deleting
               /\ obj[v] # NoCR /\ obj[v].finalizer => obj[v].deleting
    BY <1>1, <1>3, <2>2
    DEF WipeInv, CopiesLive, LiveCopy, PinInv, CopiesAgree, Agrees
  <2> QED
    BY <1>0, <2>1, <2>2, RemoveWipes
<1> QED
  BY <1>2, <1>3

(* A new CR grants nothing, and no worker has a copy that could grant for
   it. *)
LEMMA UserCreateWipes ==
  ASSUME PinInv, WipeInv, NEW c \in CRs, NEW s \in Specs, UserCreate(c, s)
  PROVE  WipeInv'
<1> DEFINE n == Created(s, edits)
<1>1. api[c] = NoCR /\ edits \in Nat
  BY DEF UserCreate, PinInv, TypeOK
<1>2. n \in CRObjects /\ n # NoCR /\ ~n.deleting /\ ~n.cleared
  BY <1>1, Creates, NoCRAssumption DEF Created
<1>3. /\ api' = [api EXCEPT ![c] = n] /\ Outdate(c, {})
      /\ UNCHANGED <<informer, roles, pc, obj>>
      /\ \A d \in CRs : \A i \in RoleIds :
           GrantedBy(d, i)' <=> d # c /\ GrantedBy(d, i)
  BY NobodyAssumption DEF UserCreate, UserWrites, Created, GrantedBy
<1> HIDE DEF n
<1>4. /\ api'[c] = n /\ \A d \in CRs \ {c} : api'[d] = api[d]
      /\ \A v \in Workers : current'[v] => current[v] /\ CR(v) # c
  BY <1>3, Outdates
<1>5. DOMAIN roles \subseteq RoleIds
  BY DEF PinInv, TypeOK
<1> USE <1>1, <1>2, <1>3, <1>4, WorkerCR
<1>6. ClearedAreDeleted'
  BY DEF WipeInv, ClearedAreDeleted
<1>7. CopiesCurrent' /\ DeletionSeen'
  BY DEF WipeInv, CopiesCurrent, DeletionSeen
<1>8. CopiesLive'
  BY DEF WipeInv, CopiesLive, LiveCopy
<1>9. WipedFirst'
  <2>1. ASSUME NEW v \in Workers, pc[v] = "status", current'[v], obj[v].cleared,
               api[CR(v)].extName \in DOMAIN roles
        PROVE  ~GrantedBy(CR(v), api[CR(v)].extName)'
    BY <1>5, <2>1 DEF WipeInv, WipedFirst
  <2> QED
    BY <2>1 DEF WipeInv, WipedFirst
<1>10. GrantsOnRecord'
  BY DEF WipeInv, GrantsOnRecord
<1>11. ClearedMeansWiped'
  BY <1>5 DEF WipeInv, ClearedMeansWiped
<1> QED
  BY <1>6, <1>7, <1>8, <1>9, <1>10, <1>11 DEF WipeInv

(* A worker's update of the metadata comes before the finalizer: nothing is
   granted yet. *)
LEMMA UpdateWipes ==
  ASSUME OneProcess, PinInv, WipeInv, NEW w \in Workers, current[w],
         ~obj[w].finalizer, NEW n \in CRObjects,
         n.uid = obj[w].uid, n.deleting = obj[w].deleting,
         n.cleared = obj[w].cleared,
         UpdateObject(w, n), NEW l \in {"observe", "update", "status"},
         Goto(w, l), UNCHANGED <<roles, owner, stray>>
  PROVE  WipeInv'
<1> DEFINE c == CR(w)
<1>1. /\ c \in CRs /\ api[c] # NoCR /\ obj[w] # NoCR /\ n # NoCR
      /\ api[c].uid = n.uid /\ ~api[c].finalizer
      /\ ~n.deleting /\ ~n.cleared /\ pc[w] # "idle"
  BY WorkerCR, NoCRAssumption
  DEF PinInv, VersionsStand, TypeOK, FinalizersPin, Pinned, WipeInv,
      ClearedAreDeleted
<1>2. /\ api'[c] = n /\ \A d \in CRs \ {c} : api'[d] = api[d]
      /\ obj'[w] = n /\ pc'[w] = l
      /\ \A v \in Workers \ {w} : obj'[v] = obj[v] /\ pc'[v] = pc[v]
      /\ informer' = informer
      /\ \A v \in Workers \ {w} : current'[v] => current[v]
  BY <1>1 DEF UpdateObject, Outdate, Goto, PinInv, TypeOK
<1>3. \A v \in Workers \ {w} : CR(v) # c /\ CR(v) \in CRs
  BY OneWorker, WorkerCR
<1>4. informer[w] # NoCR /\ informer[w].finalizer => informer[w].deleting
  BY <1>1 DEF PinInv, CopiesAgree, Agrees, WipeInv, CopiesLive, LiveCopy
<1>5. \A i \in RoleIds : ~GrantedBy(c, i)
  BY <1>1 DEF WipeInv, GrantsOnRecord
<1> HIDE DEF c
<1> USE <1>1, <1>2, <1>3
<1>6. CR(w) = c
  BY DEF c
<1>7. ClearedAreDeleted'
  BY DEF WipeInv, ClearedAreDeleted
<1>8. CopiesCurrent' /\ DeletionSeen'
  BY <1>6 DEF WipeInv, CopiesCurrent, DeletionSeen
<1>9. CopiesLive'
  BY <1>4, <1>6 DEF WipeInv, CopiesLive, LiveCopy
<1>10. WipedFirst'
  BY <1>6 DEF WipeInv, WipedFirst, GrantedBy
<1>11. GrantsOnRecord' /\ ClearedMeansWiped'
  BY <1>5 DEF WipeInv, GrantsOnRecord, ClearedMeansWiped, GrantedBy
<1> QED
  BY <1>7, <1>8, <1>9, <1>10, <1>11 DEF WipeInv

(* The initializer and the finalizer are such updates. *)
LEMMA InitializeWipes ==
  ASSUME OneProcess, PinInv, WipeInv, NEW w \in Workers, Initialize(w)
  PROVE  WipeInv'
<1>1. CASE current[w]
  <2> DEFINE k == NameId[CR(w)]
             e == IF k = 0 THEN NonNumeric ELSE k
             n == [obj[w] EXCEPT !.extName = e]
  <2>1. pc[w] = "initialize" /\ obj[w] \in CRObjects /\ obj[w] # NoCR
    BY Facts, NoCRAssumption DEF Initialize
  <2>2. ~obj[w].finalizer
    <3>1. obj[w].extName = Unset /\ Pinned(obj[w])
      BY <2>1 DEF PinInv, StagesInOrder, FinalizersPin
    <3>2. nextId \in Nat /\ Unset \notin Nat
      BY ExtNameAssumption, Facts
    <3> QED
      BY <3>1, <3>2 DEF Pinned
  <2>3. e \in ExtNames
    BY WorkerCR, NameIdAssumption DEF ExtNames
  <2> HIDE DEF e
  <2>4. n \in CRObjects
    BY <2>1, <2>3 DEF CRObjects
  <2>5. /\ n.uid = obj[w].uid /\ n.deleting = obj[w].deleting
        /\ n.cleared = obj[w].cleared
    BY <2>1 DEF CRObjects
  <2>6. /\ UpdateObject(w, n) /\ Goto(w, "observe")
        /\ UNCHANGED <<roles, owner, stray>>
    BY <1>1 DEF Initialize, e, strapiVars
  <2> HIDE DEF n
  <2> QED
    BY <1>1, <2>2, <2>4, <2>5, <2>6, UpdateWipes
<1>2. CASE ~current[w]
  BY <1>2, AbortWipes DEF Initialize, strapiVars
<1> QED
  BY <1>1, <1>2

(* See InitializeWipes. *)
LEMMA AddFinalizerWipes ==
  ASSUME OneProcess, PinInv, WipeInv, NEW w \in Workers, AddFinalizer(w)
  PROVE  WipeInv'
<1>1. CASE current[w]
  <2> DEFINE n == [obj[w] EXCEPT !.finalizer = TRUE]
             l == AfterFinalizer(obj[w], target[w].drift)
  <2>1. obj[w] \in CRObjects /\ ~obj[w].finalizer
    BY Facts DEF AddFinalizer, PinInv, StagesInOrder
  <2>2. /\ n \in CRObjects
        /\ n.uid = obj[w].uid /\ n.deleting = obj[w].deleting
        /\ n.cleared = obj[w].cleared
    <3>1. n \in CRObjects
      BY <2>1 DEF CRObjects
    <3> QED
      BY <2>1, <3>1 DEF CRObjects
  <2>3. l \in {"update", "status"}
    BY DEF AfterFinalizer
  <2>4. /\ UpdateObject(w, n) /\ Goto(w, l) /\ UNCHANGED <<roles, owner, stray>>
    BY <1>1 DEF AddFinalizer, strapiVars
  <2> HIDE DEF n, l
  <2> QED
    BY <1>1, <2>1, <2>2, <2>3, <2>4, UpdateWipes
<1>2. CASE ~current[w]
  BY <1>2, AbortWipes DEF AddFinalizer, strapiVars
<1> QED
  BY <1>1, <1>2

-----------------------------------------------------------------------------
(* The theorems. *)

(* Every step preserves the invariant. *)
LEMMA StepWipes ==
  ASSUME OneProcess, PinInv, WipeInv, [Next]_vars
  PROVE  WipeInv'
<1>1. CASE UNCHANGED vars
  BY <1>1, IdleWipes DEF vars, k8sVars, strapiVars, workerVars
<1>2. ASSUME NEW w \in Workers, Start(w) \/ Progress(w) \/ Sync(w)
      PROVE  WipeInv'
  <2>1. CASE PutMissing(w)
    BY <2>1, AbortWipes DEF PutMissing, strapiVars
  <2> QED
    BY <1>2, <2>1, StartWipes, SyncWipes, InitializeWipes, ObserveWipes,
       AddFinalizerWipes, ResolveWipes, PutWipes, WriteStatusWipes, ReleaseWipes
    DEF Progress
<1>3. CASE Failures
  <2>1. ASSUME NEW w \in Workers, PutFails(w) \/ Fault(w) PROVE WipeInv'
    BY <2>1, AbortWipes DEF PutFails, Fault, strapiVars
  <2> QED
    BY <1>3, <2>1, CrashWipes DEF Failures
<1>4. CASE Users
  BY <1>4, UserCreateWipes, UserEditWipes, UserDeleteWipes DEF Users
<1> QED
  BY <1>1, <1>2, <1>3, <1>4, OutsideWipes DEF Next

(* A CR disappears when a worker with its latest version releases it, or when
   a user deletes it before it has a finalizer. *)
LEMMA Disappears ==
  ASSUME PinInv, [Next]_vars, NEW c \in CRs, api[c] # NoCR, api'[c] = NoCR
  PROVE  \/ ~api[c].finalizer
         \/ \E w \in Workers : CR(w) = c /\ current[w] /\ Release(w)
<1>1. api \in [CRs -> CRObjects \cup {NoCR}] /\ api' # api
  BY DEF PinInv, TypeOK
<1>2. ASSUME NEW d \in CRs, NEW o \in CRObjects, api' = [api EXCEPT ![d] = o]
      PROVE  FALSE
  BY <1>1, <1>2, NoCRAssumption
<1>3. ASSUME NEW w \in Workers, Start(w) \/ Progress(w) \/ Sync(w)
      PROVE  CR(w) = c /\ current[w] /\ Release(w)
  <2>1. CR(w) \in CRs /\ (current[w] => api[CR(w)] \in CRObjects)
    BY Facts DEF PinInv, VersionsStand
  <2>2. ~Abort(w)
    BY <1>1 DEF Abort, k8sVars
  <2>3. ~Start(w) /\ ~Sync(w) /\ ~Observe(w) /\ ~Resolve(w)
        /\ ~PutDone(w) /\ ~PutMissing(w)
    BY <1>1, <2>2
    DEF Start, Sync, Observe, Resolve, PutDone, PutMissing, k8sVars
  <2>4. ~Initialize(w)
    <3>1. ASSUME Initialize(w) PROVE FALSE
      <4> DEFINE e == IF NameId[CR(w)] = 0 THEN NonNumeric ELSE NameId[CR(w)]
                 n == [obj[w] EXCEPT !.extName = e]
      <4>1. obj[w] \in CRObjects /\ e \in ExtNames
        BY <2>1, <3>1, Facts, NameIdAssumption DEF Initialize, ExtNames
      <4> HIDE DEF e
      <4>2. n \in CRObjects
        BY <4>1 DEF CRObjects
      <4>3. api' = [api EXCEPT ![CR(w)] = n]
        BY <2>2, <3>1 DEF Initialize, UpdateObject, e
      <4> QED
        BY <1>2, <2>1, <4>2, <4>3
    <3> QED
      BY <3>1
  <2>5. ~AddFinalizer(w)
    <3>1. ASSUME AddFinalizer(w) PROVE FALSE
      <4> DEFINE n == [obj[w] EXCEPT !.finalizer = TRUE]
      <4>1. obj[w] \in CRObjects
        BY <3>1, Facts DEF AddFinalizer
      <4>2. n \in CRObjects
        BY <4>1 DEF CRObjects
      <4>3. api' = [api EXCEPT ![CR(w)] = n]
        BY <2>2, <3>1 DEF AddFinalizer, UpdateObject
      <4> QED
        BY <1>2, <2>1, <4>2, <4>3
    <3> QED
      BY <3>1
  <2>6. ~WriteStatus(w)
    <3>1. ASSUME WriteStatus(w) PROVE FALSE
      <4> DEFINE n == [api[CR(w)] EXCEPT !.cleared = obj[w].cleared]
      <4>1. /\ current[w] /\ api' = [api EXCEPT ![CR(w)] = n]
        BY <1>1, <3>1 DEF WriteStatus
      <4>2. obj[w] \in CRObjects /\ obj[w].cleared \in BOOLEAN
        BY <3>1, Facts, Fields DEF WriteStatus
      <4>3. n \in CRObjects
        BY <2>1, <4>1, <4>2 DEF CRObjects
      <4> QED
        BY <1>2, <2>1, <4>1, <4>3
    <3> QED
      BY <3>1
  <2>7. Release(w)
    BY <1>3, <2>3, <2>4, <2>5, <2>6 DEF Progress
  <2> QED
    BY <1>1, <2>7 DEF Release
<1>4. ~(\E m \in late : LateEnds(m)) /\ ~Administrators /\ ~Failures
  BY <1>1
  DEF LateEnds, Administrators, AdminCreate, AdminRemove, AdminSetPerms,
      AdminRename, Admin, Failures, PutFails, Fault, Crash, Abort, k8sVars
<1>5. ASSUME Users PROVE ~api[c].finalizer
  <2>1. ASSUME NEW d \in CRs, NEW s \in Specs, UserCreate(d, s)
        PROVE  FALSE
    <3>1. edits \in Nat /\ api' = [api EXCEPT ![d] = Created(s, edits)]
      BY <2>1 DEF UserCreate, UserWrites, Created, PinInv, TypeOK
    <3> QED
      BY <1>2, <3>1, Creates
  <2>2. ASSUME NEW d \in CRs, NEW s \in Specs, UserEdit(d, s)
        PROVE  FALSE
    <3> DEFINE n == [api[d] EXCEPT !.role = s.role, !.perms = s.perms,
                                   !.policy = s.policy]
    <3>1. api[d] \in CRObjects
      BY <1>1, <2>2 DEF UserEdit
    <3>2. /\ s.role \in {t.role : t \in Specs}
          /\ s.perms \in {t.perms : t \in Specs}
          /\ s.policy \in {t.policy : t \in Specs}
      OBVIOUS
    <3>3. n \in CRObjects
      BY <3>1, <3>2 DEF CRObjects
    <3>4. api' = [api EXCEPT ![d] = n]
      BY <2>2 DEF UserEdit, UserWrites
    <3> QED
      BY <1>2, <3>3, <3>4
  <2>3. ASSUME NEW d \in CRs, UserDelete(d)
        PROVE  ~api[c].finalizer
    <3> DEFINE n == [api[d] EXCEPT !.deleting = TRUE]
    <3>1. api[d] \in CRObjects
      BY <1>1, <2>3 DEF UserDelete, Live
    <3>2. n \in CRObjects
      BY <3>1 DEF CRObjects
    <3>3. ~api[d].finalizer /\ api' = [api EXCEPT ![d] = NoCR]
      BY <1>2, <2>3, <3>2 DEF UserDelete, UserWrites
    <3> QED
      BY <1>1, <3>3
  <2> QED
    BY <1>5, <2>1, <2>2, <2>3 DEF Users
<1>6. ~UNCHANGED vars
  BY <1>1 DEF vars, k8sVars
<1> QED
  BY <1>3, <1>4, <1>5, <1>6 DEF Next

(* With one process, for any CRs: whoever acts on a deletion has it in the
   informer, so that nobody starts to grant again once the wipe is on record,
   and all that a CR grants, by PUTs that were not given up before, it grants
   on its recorded role. *)
THEOREM WipeInvariance ==
  ASSUME OneProcess PROVE Spec => []WipeInv
<1>1. PinInv /\ WipeInv /\ [Next]_vars => WipeInv'
  BY StepWipes
<1> QED
  BY InitWipes, PinInvariance, <1>1, PTL DEF Spec

(* With one process the status of a CR never says that the permissions were
   cleared while its recorded role still has what it granted, whatever failed,
   crashed or conflicted on the way: all that can undo a wipe on record is a
   PUT that was given up before and is executed only now. *)
THEOREM ClearedIsWiped ==
  ASSUME OneProcess PROVE Spec => []ClearedMeansWiped
<1>1. WipeInv => ClearedMeansWiped
  BY DEF WipeInv
<1> QED
  BY WipeInvariance, <1>1, PTL

(* With one process a CR whose policies include Delete does not leave the API
   server before what it granted on its role is gone, again but for PUTs
   executed after they were given up. *)
THEOREM GrantsEnd ==
  ASSUME OneProcess PROVE Spec => NoOrphanGrants
<1>1. ASSUME PinInv, WipeInv, [Next]_vars, NEW c \in CRs,
             api[c] # NoCR, api'[c] = NoCR, ShouldDelete(api[c]),
             api[c].extName \in DOMAIN roles
      PROVE  \A i \in RoleIds : ~GrantedBy(c, i)
  <2>1. ASSUME ~api[c].finalizer PROVE \A i \in RoleIds : ~GrantedBy(c, i)
    BY <1>1, <2>1 DEF WipeInv, GrantsOnRecord
  <2>2. ASSUME NEW w \in Workers, CR(w) = c, current[w], Release(w)
        PROVE  \A i \in RoleIds : ~GrantedBy(c, i)
    <3>1. ShouldDelete(obj[w])
      BY <1>1, <2>2 DEF WipeInv, CopiesCurrent, ShouldDelete
    <3>2. pc[w] = "release" /\ obj[w].cleared
      BY <1>1, <2>2, <3>1 DEF Release, WipeInv, WipedFirst
    <3>3. api[c].cleared
      BY <1>1, <2>2, <3>2 DEF WipeInv, CopiesCurrent
    <3> QED
      BY <1>1, <3>3 DEF WipeInv, ClearedMeansWiped, GrantsOnRecord
  <2> QED
    BY <1>1, <2>1, <2>2, Disappears
<1>2. PinInv /\ WipeInv /\ [Next]_vars =>
        [\A c \in CRs :
           /\ api[c] # NoCR /\ api'[c] = NoCR
           /\ ShouldDelete(api[c])
           /\ api[c].extName \in DOMAIN roles
           => \A i \in RoleIds : ~GrantedBy(c, i)]_vars
  BY <1>1
<1> QED
  BY <1>2, PinInvariance, WipeInvariance, PTL DEF NoOrphanGrants, Spec
=============================================================================
