----------------------- MODULE RolePermissionsProofs -----------------------
(***************************************************************************)
(* Proofs about RolePermissions, for any replicas, CRs, specs and names,   *)
(* and without a bound on edits, administrators or failures: PUTs stay on  *)
(* the role that came with the finalizer.                                  *)
(***************************************************************************)
EXTENDS RolePermissions, FiniteSetTheorems, TLAPS

-----------------------------------------------------------------------------
(* Records. *)

(* A worker reconciles one CR. *)
LEMMA WorkerCR == \A w \in Workers : CR(w) \in CRs
BY DEF Workers, CR

(* The fields of an object. *)
LEMMA Fields ==
  ASSUME NEW o \in CRObjects
  PROVE  /\ o # NoCR
         /\ o.uid \in Nat /\ o.extName \in ExtNames
         /\ o.deleting \in BOOLEAN /\ o.finalizer \in BOOLEAN
         /\ o.cleared \in BOOLEAN
BY NoCRAssumption DEF CRObjects

(* The object a user creates. *)
Created(spec, uid) ==
  [role |-> spec.role, perms |-> spec.perms, policy |-> spec.policy,
   uid |-> uid, extName |-> Unset, deleting |-> FALSE, finalizer |-> FALSE,
   cleared |-> FALSE]

(* It is well formed, and neither finalized nor deleted. *)
LEMMA Creates ==
  ASSUME NEW s \in Specs, NEW n \in Nat
  PROVE  /\ Created(s, n) \in CRObjects
         /\ Created(s, n).uid = n
         /\ ~Created(s, n).finalizer /\ ~Created(s, n).deleting
<1>1. /\ s.role \in {t.role : t \in Specs}
      /\ s.perms \in {t.perms : t \in Specs}
      /\ s.policy \in {t.policy : t \in Specs}
  OBVIOUS
<1>2. Unset \in ExtNames
  BY DEF ExtNames
<1> QED
  BY <1>1, <1>2 DEF Created, CRObjects

(* What resolveRole returns is the id of a role: the recorded one as long as
   it exists. *)
LEMMA Resolves ==
  ASSUME NEW o
  PROVE  /\ resolveRole(o) \subseteq DOMAIN roles
         /\ o.extName \in DOMAIN roles => resolveRole(o) = {o.extName}
BY DEF resolveRole, FindRole

-----------------------------------------------------------------------------
(* The initial state. *)

(* Strapi's first roles are numbered from one. *)
LEMMA FirstIds ==
  /\ Cardinality(DOMAIN InitRoles) \in Nat
  /\ DOMAIN InitRoles = 1..Cardinality(DOMAIN InitRoles)
  /\ DOMAIN InitRoles \subseteq RoleIds
<1>1. PICK n \in 0..MaxRoles : DOMAIN InitRoles = 1..n
  BY RolesAssumption
<1>2. MaxRoles \in Nat /\ n \in Nat /\ n <= MaxRoles
  BY <1>1, RolesAssumption
<1>3. Cardinality(1..n) = n
  BY <1>2, FS_Interval
<1> QED
  BY <1>1, <1>2, <1>3 DEF RoleIds

(* Nothing exists at first. *)
LEMMA InitPins == Init => PinInv
<1> SUFFICES ASSUME Init PROVE PinInv
  OBVIOUS
<1>1. TypeOK
  BY FirstIds DEF Init, TypeOK, PC
<1> QED
  BY <1>1, WorkerCR DEF Init, PinInv, UidsPast, VersionsStand, FinalizersPin,
     CopiesAgree, StagesInOrder, PinnedTarget

-----------------------------------------------------------------------------
(* Steps of a worker that write nothing to the API server. *)

(* What the invariant says of one worker, in terms of the object it has. *)
LEMMA Facts ==
  ASSUME PinInv, NEW w \in Workers
  PROVE  /\ CR(w) \in CRs
         /\ nextId \in Nat /\ edits \in Nat
         /\ DOMAIN roles \subseteq 1..nextId - 1
         /\ obj[w] # NoCR => obj[w] \in CRObjects
         /\ informer[w] # NoCR => informer[w] \in CRObjects
         /\ api[CR(w)] # NoCR => api[CR(w)] \in CRObjects
         /\ pc[w] # "idle" => obj[w] \in CRObjects
BY WorkerCR DEF PinInv, TypeOK

(* A reconcile that ends early leaves everything as it is. *)
LEMMA AbortKeeps ==
  ASSUME PinInv, NEW w \in Workers, Abort(w),
         DOMAIN roles' = DOMAIN roles, UNCHANGED <<nextId, edits, owner, stray>>,
         late' \subseteq late \cup {Body(w)}
  PROVE  PinInv'
<1> USE DEF Abort, Finish, Forget, Goto, k8sVars
<1>1. TypeOK'
  <2>1. Body(w).from \in CRs \cup {Nobody}
    BY WorkerCR DEF Body, Grantor
  <2>2. \A m \in late' : m.from \in CRs \cup {Nobody}
    BY <2>1 DEF PinInv, TypeOK
  <2> QED
    BY <2>2 DEF PinInv, TypeOK, PC
<1>2. UidsPast' /\ VersionsStand'
  BY WorkerCR DEF PinInv, TypeOK, UidsPast, VersionsStand
<1>3. FinalizersPin'
  BY DEF PinInv, TypeOK, FinalizersPin, Pinned
<1>4. CopiesAgree'
  BY DEF PinInv, TypeOK, CopiesAgree, Agrees
<1>5. StagesInOrder'
  BY DEF PinInv, TypeOK, StagesInOrder
<1>6. PinnedTarget'
  BY DEF PinInv, TypeOK, PinnedTarget, Reconciles
<1> QED
  BY <1>1, <1>2, <1>3, <1>4, <1>5, <1>6 DEF PinInv

(* A reconcile starts from what the informer has. *)
LEMMA StartKeeps ==
  ASSUME PinInv, NEW w \in Workers, Start(w)
  PROVE  PinInv'
<1> USE DEF Start, Goto, k8sVars, strapiVars, budgets
<1>0. /\ informer[w] # NoCR /\ informer[w] \in CRObjects
      /\ Pinned(informer[w]) /\ Agrees(informer[w], CR(w))
      /\ informer[w].uid < edits
      /\ synced[w] => informer[w] = api[CR(w)]
  BY Facts DEF PinInv, FinalizersPin, CopiesAgree, UidsPast, VersionsStand
<1>1. TypeOK'
  BY <1>0 DEF PinInv, TypeOK, PC
<1>2. UidsPast' /\ VersionsStand'
  BY <1>0 DEF PinInv, TypeOK, UidsPast, VersionsStand
<1>3. FinalizersPin'
  BY <1>0 DEF PinInv, TypeOK, FinalizersPin, Pinned
<1>4. CopiesAgree'
  BY <1>0 DEF PinInv, TypeOK, CopiesAgree, Agrees
<1>5. StagesInOrder'
  BY <1>0 DEF PinInv, TypeOK, StagesInOrder
<1>6. PinnedTarget'
  BY DEF PinInv, TypeOK, PinnedTarget, Reconciles
<1> QED
  BY <1>1, <1>2, <1>3, <1>4, <1>5, <1>6 DEF PinInv

(* Observe adopts the id of the role it resolved: the one on record unless
   that role is gone. *)
LEMMA ObserveKeeps ==
  ASSUME PinInv, NEW w \in Workers, Observe(w)
  PROVE  PinInv'
<1>1. CASE resolveRole(obj[w]) = {} /\ Abort(w)
  BY <1>1, AbortKeeps DEF Observe, strapiVars, budgets
<1>2. CASE ~(resolveRole(obj[w]) = {} /\ Abort(w))
  <2>1. PICK i \in resolveRole(obj[w]) :
          LET o == obj[w]
              drift == ~UpToDate(o.perms, roles[i].perms)
          IN  /\ obj' = [obj EXCEPT ![w] = Observed(o, i)]
              /\ Goto(w, CASE ReportsGone(o)  -> "release"
                           [] o.deleting /\ ~ReportsGone(o) -> "delete"
                           [] ~o.deleting /\ ~o.finalizer -> "addfinalizer"
                           [] OTHER -> AfterFinalizer(o, drift))
              /\ target' = [target EXCEPT ![w].drift = drift]
              /\ UNCHANGED <<k8sVars, current>>
    BY <1>2 DEF Observe
  <2> DEFINE o == obj[w]
             n == Observed(o, i)
  <2>2. /\ pc[w] = "observe" /\ o \in CRObjects /\ o # NoCR
        /\ Pinned(o) /\ Agrees(o, CR(w)) /\ o.uid < edits
    BY Facts, NoCRAssumption
    DEF Observe, PinInv, FinalizersPin, CopiesAgree, UidsPast
  <2>3. i \in 1..nextId - 1 /\ i \in Nat /\ i \in DOMAIN roles
    BY Resolves, Facts
  <2>4. /\ n \in CRObjects /\ n # NoCR /\ n.extName = i /\ n.uid = o.uid
        /\ n.deleting = o.deleting /\ n.finalizer = o.finalizer
    <3>1. ReportsGone(o) \in BOOLEAN
      BY <2>2, Fields DEF ReportsGone
    <3>2. n = [o EXCEPT !.extName = i, !.cleared = ReportsGone(o)]
      BY DEF Observed
    <3>3. i \in ExtNames
      BY <2>3 DEF ExtNames
    <3> HIDE DEF n, o, ExtNames
    <3>4. n \in CRObjects
      BY <2>2, <3>1, <3>2, <3>3 DEF CRObjects
    <3> QED
      BY <2>2, <3>1, <3>2, <3>3, <3>4, NoCRAssumption DEF CRObjects
  <2>5. Pinned(n) /\ Agrees(n, CR(w))
    BY <2>2, <2>3, <2>4, Resolves DEF Pinned, Agrees
  <2>6. PICK l : /\ pc' = [pc EXCEPT ![w] = l]
                 /\ l \in {"release", "delete", "addfinalizer", "update", "status"}
                 /\ l = "addfinalizer" => ~o.finalizer
                 /\ l \in {"update", "delete"} => o.finalizer
    <3> DEFINE drift == ~UpToDate(o.perms, roles[i].perms)
               l == CASE ReportsGone(o)  -> "release"
                      [] o.deleting /\ ~ReportsGone(o) -> "delete"
                      [] ~o.deleting /\ ~o.finalizer -> "addfinalizer"
                      [] OTHER -> AfterFinalizer(o, drift)
    <3>1. pc' = [pc EXCEPT ![w] = l]
      BY <2>1 DEF Goto
    <3>2. o.deleting \in BOOLEAN /\ o.finalizer \in BOOLEAN
      BY <2>2, Fields
    <3>3. o.deleting => o.finalizer
      BY <2>2 DEF Pinned
    <3>4. AfterFinalizer(o, drift) \in {"update", "status"}
      BY DEF AfterFinalizer
    <3>5. CASE ReportsGone(o)
      <4>1. l = "release"
        BY <3>5 DEF ReportsGone
      <4> QED
        BY <3>1, <4>1
    <3>6. CASE o.deleting /\ ~ReportsGone(o)
      <4>1. l = "delete"
        BY <3>6
      <4> QED
        BY <3>1, <3>3, <3>6, <4>1
    <3>7. CASE ~o.deleting /\ ~o.finalizer
      <4>1. l = "addfinalizer"
        BY <3>7 DEF ReportsGone
      <4> QED
        BY <3>1, <3>7, <4>1
    <3>8. CASE ~o.deleting /\ o.finalizer
      <4>1. l = AfterFinalizer(o, drift)
        BY <3>8 DEF ReportsGone
      <4> QED
        BY <3>1, <3>4, <3>8, <4>1
    <3> QED
      BY <3>2, <3>5, <3>6, <3>7, <3>8
  <2>7. /\ obj' = [obj EXCEPT ![w] = n]
        /\ DOMAIN target' = DOMAIN target
        /\ \A v \in Workers \ {w} : target'[v] = target[v]
        /\ UNCHANGED <<k8sVars, strapiVars, current, budgets>>
    BY <2>1 DEF Observe, PinInv, TypeOK
  <2> HIDE DEF n, o
  <2> USE <2>7 DEF k8sVars, strapiVars, budgets
  <2>8. TypeOK'
    BY <2>2, <2>4, <2>6 DEF PinInv, TypeOK, PC
  <2>9. UidsPast' /\ VersionsStand'
    BY <2>2, <2>4, <2>6 DEF PinInv, TypeOK, UidsPast, VersionsStand, o
  <2>10. FinalizersPin'
    BY <2>5 DEF PinInv, TypeOK, FinalizersPin, Pinned
  <2>11. CopiesAgree'
    BY <2>5 DEF PinInv, TypeOK, CopiesAgree, Agrees
  <2>12. StagesInOrder'
    BY <2>3, <2>4, <2>6 DEF PinInv, TypeOK, StagesInOrder
  <2>13. PinnedTarget'
    BY <2>6 DEF PinInv, TypeOK, PinnedTarget, Reconciles
  <2> QED
    BY <2>8, <2>9, <2>10, <2>11, <2>12, <2>13 DEF PinInv
<1> QED
  BY <1>1, <1>2

(* Update and Delete resolve the recorded role again. *)
LEMMA ResolveKeeps ==
  ASSUME PinInv, NEW w \in Workers, Resolve(w)
  PROVE  PinInv'
<1>1. CASE resolveRole(obj[w]) = {} /\ Abort(w)
  BY <1>1, AbortKeeps DEF Resolve, strapiVars, budgets
<1>2. CASE ~(resolveRole(obj[w]) = {} /\ Abort(w))
  <2>1. PICK i \in resolveRole(obj[w]) :
          /\ target' = [target EXCEPT ![w] =
                          [id |-> i, name |-> roles[i].name, drift |-> FALSE]]
          /\ pc' = [pc EXCEPT ![w] = "put"]
          /\ UNCHANGED <<k8sVars, obj, current>>
    BY <1>2 DEF Resolve, Goto
  <2>2. /\ pc[w] \in {"update", "delete"} /\ obj[w] # NoCR
        /\ obj[w].finalizer /\ Agrees(obj[w], CR(w))
    BY NoCRAssumption, Facts DEF Resolve, PinInv, CopiesAgree, StagesInOrder
  <2>3. i \in 1..nextId - 1 /\ i \in DOMAIN roles
    BY Resolves, Facts
  <2>4. target'[w].id = i
    BY <2>1 DEF PinInv, TypeOK
  <2> USE <2>1 DEF k8sVars, strapiVars, budgets, Resolve
  <2>5. TypeOK'
    <3>1. \A v \in Workers \ {w} : target'[v] = target[v]
      BY DEF PinInv, TypeOK
    <3> QED
      BY <2>2, <2>3, <2>4, <3>1 DEF PinInv, TypeOK, PC
  <2>6. UidsPast' /\ VersionsStand'
    BY DEF PinInv, TypeOK, UidsPast, VersionsStand
  <2>7. FinalizersPin'
    BY DEF PinInv, FinalizersPin, Pinned
  <2>8. CopiesAgree'
    BY DEF PinInv, CopiesAgree, Agrees
  <2>9. StagesInOrder'
    BY <2>2 DEF PinInv, TypeOK, StagesInOrder
  <2>10. PinnedTarget'
    <3>1. ASSUME api[CR(w)] # NoCR, api[CR(w)].uid = obj[w].uid,
                 api[CR(w)].extName \in DOMAIN roles
          PROVE  i = api[CR(w)].extName
      BY <2>2, <3>1, Resolves DEF Agrees
    <3>2. \A v \in Workers \ {w} : target'[v] = target[v] /\ pc'[v] = pc[v]
      BY DEF PinInv, TypeOK
    <3>3. UNCHANGED <<api, obj, roles>>
      OBVIOUS
    <3> QED
      BY <2>4, <3>1, <3>2, <3>3 DEF PinInv, PinnedTarget, Reconciles
  <2> QED
    BY <2>5, <2>6, <2>7, <2>8, <2>9, <2>10 DEF PinInv
<1> QED
  BY <1>1, <1>2

(* A PUT changes a role and whose grant it is, and Delete raises its flag. *)
LEMMA PutKeeps ==
  ASSUME PinInv, NEW w \in Workers, PutDone(w)
  PROVE  PinInv'
<1>1. /\ pc[w] = "put" /\ obj[w] \in CRObjects /\ obj[w] # NoCR
      /\ obj[w].deleting \in BOOLEAN
  BY Facts, Fields DEF PutDone
<1> DEFINE n == [obj[w] EXCEPT !.cleared = obj[w].deleting]
<1>2. /\ n \in CRObjects /\ n # NoCR /\ n.extName = obj[w].extName
      /\ n.uid = obj[w].uid /\ n.deleting = obj[w].deleting
      /\ n.finalizer = obj[w].finalizer
  <2>1. n \in CRObjects
    BY <1>1 DEF CRObjects
  <2> QED
    BY <1>1, <2>1, NoCRAssumption DEF CRObjects
<1>3. /\ obj' = [obj EXCEPT ![w] = n] /\ pc' = [pc EXCEPT ![w] = "status"]
      /\ UNCHANGED <<api, informer, synced, nextId, current, target, edits>>
  BY <1>1 DEF PutDone, Goto, k8sVars, budgets, PinInv, TypeOK
<1>4. /\ DOMAIN roles' = DOMAIN roles /\ stray' \subseteq DOMAIN roles
      /\ owner' \in [RoleIds -> CRs \cup {Nobody}] /\ late' = late
  BY WorkerCR DEF PutDone, Execute, Body, Grantor, PinInv, TypeOK
<1> HIDE DEF n
<1> USE <1>1, <1>2, <1>3, <1>4
<1>5. TypeOK'
  BY DEF PinInv, TypeOK, PC
<1>6. UidsPast' /\ VersionsStand'
  BY DEF PinInv, TypeOK, UidsPast, VersionsStand
<1>7. FinalizersPin'
  BY DEF PinInv, TypeOK, FinalizersPin, Pinned
<1>8. CopiesAgree'
  BY DEF PinInv, TypeOK, CopiesAgree, Agrees
<1>9. StagesInOrder'
  BY DEF PinInv, TypeOK, StagesInOrder
<1>10. PinnedTarget'
  BY DEF PinInv, TypeOK, PinnedTarget, Reconciles
<1> QED
  BY <1>5, <1>6, <1>7, <1>8, <1>9, <1>10 DEF PinInv

(* A watch event brings the informer to the latest version. *)
LEMMA SyncKeeps ==
  ASSUME PinInv, NEW w \in Workers, Sync(w)
  PROVE  PinInv'
<1> USE DEF Sync, strapiVars, workerVars, budgets
<1>1. TypeOK'
  BY WorkerCR DEF PinInv, TypeOK
<1>2. UidsPast' /\ VersionsStand'
  BY WorkerCR DEF PinInv, TypeOK, UidsPast, VersionsStand
<1>3. FinalizersPin'
  BY WorkerCR DEF PinInv, TypeOK, FinalizersPin, Pinned
<1>4. CopiesAgree'
  BY WorkerCR DEF PinInv, TypeOK, CopiesAgree, Agrees
<1>5. StagesInOrder' /\ PinnedTarget'
  BY DEF PinInv, TypeOK, StagesInOrder, PinnedTarget, Reconciles
<1> QED
  BY <1>1, <1>2, <1>3, <1>4, <1>5 DEF PinInv

(* The workers of a crashed process lose all they had. *)
LEMMA CrashKeeps ==
  ASSUME PinInv, NEW r \in Replicas, Crash(r)
  PROVE  PinInv'
<1> DEFINE mine == {w \in Workers : w[1] = r}
<1>1. /\ pc' = [w \in Workers |-> IF w \in mine THEN "idle" ELSE pc[w]]
      /\ obj' = [w \in Workers |-> IF w \in mine THEN NoCR ELSE obj[w]]
      /\ current' = [w \in Workers |-> w \notin mine /\ current[w]]
      /\ target' = [w \in Workers |->
                      IF w \in mine THEN NoTarget ELSE target[w]]
      /\ informer' = [w \in Workers |->
                        IF w \in mine THEN NoCR ELSE informer[w]]
      /\ synced' = [w \in Workers |->
                      IF w \in mine THEN api[CR(w)] = NoCR ELSE synced[w]]
      /\ UNCHANGED <<api, roles, nextId, owner, stray, edits>>
  BY DEF Crash
<1>0. \A m \in late' : m.from \in CRs \cup {Nobody}
  BY WorkerCR DEF Crash, Body, Grantor, PinInv, TypeOK
<1> HIDE DEF mine
<1> USE <1>1
<1>2. TypeOK'
  BY <1>0 DEF PinInv, TypeOK, PC
<1>3. UidsPast' /\ VersionsStand'
  BY DEF PinInv, TypeOK, UidsPast, VersionsStand
<1>4. FinalizersPin'
  BY DEF PinInv, FinalizersPin, Pinned
<1>5. CopiesAgree'
  BY DEF PinInv, CopiesAgree, Agrees
<1>6. StagesInOrder'
  BY DEF PinInv, StagesInOrder
<1>7. PinnedTarget'
  BY DEF PinInv, PinnedTarget, Reconciles
<1> QED
  BY <1>2, <1>3, <1>4, <1>5, <1>6, <1>7 DEF PinInv

-----------------------------------------------------------------------------
(* Strapi. *)

(* Roles come with new ids and may go; which ids are taken is all that
   counts. *)
LEMMA StrapiKeeps ==
  ASSUME PinInv, UNCHANGED <<k8sVars, workerVars, edits>>,
         nextId' \in {nextId, nextId + 1},
         DOMAIN roles' \subseteq RoleIds \cap (1..nextId' - 1),
         DOMAIN roles' \cap (1..nextId - 1) \subseteq DOMAIN roles,
         owner' \in [RoleIds -> CRs \cup {Nobody}],
         stray' \subseteq DOMAIN roles', late' \subseteq late
  PROVE  PinInv'
<1>0. /\ nextId \in Nat /\ nextId' \in Nat
      /\ 1..nextId - 1 \subseteq 1..nextId' - 1
  <2>1. nextId \in Nat
    BY DEF PinInv, TypeOK
  <2>2. CASE nextId' = nextId
    BY <2>1, <2>2
  <2>3. CASE nextId' = nextId + 1
    BY <2>1, <2>3
  <2> QED
    BY <2>1, <2>2, <2>3
<1> USE <1>0 DEF k8sVars, workerVars
<1>1. TypeOK'
  BY DEF PinInv, TypeOK
<1>2. UidsPast' /\ VersionsStand'
  BY DEF PinInv, UidsPast, VersionsStand
<1>3. FinalizersPin'
  BY DEF PinInv, FinalizersPin, Pinned
<1>4. CopiesAgree'
  <2>1. ASSUME NEW w \in Workers, NEW o, Agrees(o, CR(w))
        PROVE  Agrees(o, CR(w))'
    <3>1. api[CR(w)] # NoCR /\ api[CR(w)].finalizer
            => api[CR(w)].extName \in 1..nextId - 1
      BY WorkerCR DEF PinInv, FinalizersPin, Pinned
    <3> QED
      BY <2>1, <3>1 DEF Agrees
  <2> QED
    BY <2>1 DEF PinInv, CopiesAgree, Agrees
<1>5. StagesInOrder'
  BY DEF PinInv, StagesInOrder
<1>6. PinnedTarget'
  <2>1. ASSUME NEW w \in Workers, pc[w] = "put", Reconciles(w),
               api[CR(w)].extName \in DOMAIN roles'
        PROVE  target[w].id = api[CR(w)].extName
    <3>1. obj[w] # NoCR /\ obj[w].finalizer /\ Agrees(obj[w], CR(w))
      BY <2>1 DEF PinInv, TypeOK, StagesInOrder, CopiesAgree
    <3>2. api[CR(w)] # NoCR /\ api[CR(w)].finalizer
      BY <2>1, <3>1 DEF Reconciles, Agrees
    <3>3. api[CR(w)].extName \in 1..nextId - 1
      BY <3>2, WorkerCR DEF PinInv, FinalizersPin, Pinned
    <3> QED
      BY <2>1, <3>3 DEF PinInv, PinnedTarget
  <2> QED
    BY <2>1 DEF PinInv, PinnedTarget, Reconciles
<1> QED
  BY <1>1, <1>2, <1>3, <1>4, <1>5, <1>6 DEF PinInv

(* A PUT that arrives late, and what administrators do. *)
LEMMA OutsideKeeps ==
  ASSUME PinInv, (\E m \in late : LateEnds(m)) \/ Administrators
  PROVE  PinInv'
<1>0. /\ DOMAIN roles \subseteq RoleIds \cap (1..nextId - 1) /\ nextId \in Nat
      /\ owner \in [RoleIds -> CRs \cup {Nobody}] /\ stray \subseteq DOMAIN roles
      /\ \A m \in late : m.from \in CRs \cup {Nobody}
  BY DEF PinInv, TypeOK
<1>1. ASSUME NEW m \in late, LateEnds(m) PROVE PinInv'
  <2>1. /\ DOMAIN roles' = DOMAIN roles
        /\ owner' \in [RoleIds -> CRs \cup {Nobody}]
        /\ stray' \subseteq DOMAIN roles' /\ late' \subseteq late
    BY <1>0, <1>1 DEF LateEnds, Execute
  <2> QED
    BY <1>0, <1>1, <2>1, StrapiKeeps DEF LateEnds, budgets
<1>2. ASSUME NEW n \in Names, AdminCreate(n) PROVE PinInv'
  <2>1. DOMAIN roles' = DOMAIN roles \cup {nextId} /\ nextId \in RoleIds
    BY <1>2 DEF AdminCreate
  <2>2. nextId' = nextId + 1 /\ UNCHANGED <<owner, stray, late>>
    BY <1>2 DEF AdminCreate, Admin
  <2>3. DOMAIN roles' \subseteq RoleIds \cap (1..nextId' - 1)
    BY <1>0, <2>1, <2>2 DEF RoleIds
  <2>4. DOMAIN roles' \cap (1..nextId - 1) \subseteq DOMAIN roles
    BY <1>0, <2>1
  <2>5. UNCHANGED <<k8sVars, workerVars, edits>>
    BY <1>2 DEF AdminCreate, Admin
  <2> QED
    BY <1>0, <2>1, <2>2, <2>3, <2>4, <2>5, StrapiKeeps
<1>3. ASSUME NEW i \in RoleIds,
             \/ AdminRemove(i)
             \/ \E t \in AdminTrees : AdminSetPerms(i, t)
             \/ \E n \in Names : AdminRename(i, n)
      PROVE  PinInv'
  <2>1. /\ DOMAIN roles' \subseteq DOMAIN roles /\ nextId' = nextId
        /\ owner' \in [RoleIds -> CRs \cup {Nobody}]
        /\ stray' \subseteq DOMAIN roles'
    BY <1>0, <1>3 DEF AdminRemove, AdminSetPerms, AdminRename
  <2>2. UNCHANGED <<k8sVars, workerVars, edits, late>>
    BY <1>3 DEF AdminRemove, AdminSetPerms, AdminRename, Admin
  <2> QED
    BY <1>0, <2>1, <2>2, StrapiKeeps
<1> QED
  BY <1>1, <1>2, <1>3 DEF Administrators

-----------------------------------------------------------------------------
(* Fields to the API server. *)

(* A write that keeps uid, external-name and finalizer, or removes the
   object.  The writer's own reconcile, if it is one, ends. *)
LEMMA ReplaceKeeps ==
  ASSUME PinInv, NEW c \in CRs, NEW n \in CRObjects \cup {NoCR},
         n # NoCR => /\ api[c] # NoCR /\ Pinned(n)
                     /\ n.uid = api[c].uid /\ n.extName = api[c].extName
                     /\ n.finalizer = api[c].finalizer,
         api' = [api EXCEPT ![c] = n], Outdate(c, {}), informer' = informer,
         UNCHANGED <<roles, nextId, owner, stray, late>>,
         edits' \in {edits, edits + 1},
         \/ UNCHANGED <<pc, obj, target>>
         \/ \E w \in Workers : /\ CR(w) = c /\ Finish(w)
                              /\ obj' = [obj EXCEPT ![w] = NoCR]
  PROVE  PinInv'
<1>0. edits \in Nat /\ edits' \in Nat /\ edits <= edits'
  BY DEF PinInv, TypeOK
<1>1. /\ pc' \in [Workers -> PC] /\ obj' \in [Workers -> CRObjects \cup {NoCR}]
      /\ DOMAIN target' = Workers
      /\ \A v \in Workers :
           \/ pc'[v] = pc[v] /\ obj'[v] = obj[v] /\ target'[v] = target[v]
           \/ pc'[v] = "idle" /\ obj'[v] = NoCR /\ CR(v) = c
  BY DEF Finish, Goto, PinInv, TypeOK, PC
<1>2. /\ synced' \in [Workers -> BOOLEAN] /\ current' \in [Workers -> BOOLEAN]
      /\ \A v \in Workers :
           /\ synced'[v] => synced[v] /\ CR(v) # c
           /\ current'[v] => current[v] /\ CR(v) # c
  <2>1. synced \in [Workers -> BOOLEAN] /\ current \in [Workers -> BOOLEAN]
    BY DEF PinInv, TypeOK
  <2> QED
    BY <2>1 DEF Outdate
<1>3. /\ api' \in [CRs -> CRObjects \cup {NoCR}] /\ api'[c] = n
      /\ \A d \in CRs \ {c} : api'[d] = api[d]
  BY DEF PinInv, TypeOK
<1>4. TypeOK'
  BY <1>0, <1>1, <1>2, <1>3 DEF PinInv, TypeOK
<1>5. UidsPast'
  <2>1. ASSUME NEW d \in CRs, api'[d] # NoCR PROVE api'[d].uid < edits'
    <3>1. api[d] # NoCR /\ api'[d].uid = api[d].uid
      BY <1>3, <2>1
    <3>2. api[d].uid < edits /\ api[d].uid \in Nat
      <4>1. api[d] \in CRObjects
        BY <3>1 DEF PinInv, TypeOK
      <4> QED
        BY <3>1, <4>1, Fields DEF PinInv, UidsPast
    <3> QED
      BY <1>0, <3>1, <3>2
  <2>2. ASSUME NEW v \in Workers
        PROVE  /\ informer[v] # NoCR => informer[v].uid < edits'
               /\ obj[v] # NoCR => obj[v].uid < edits'
    <3>1. /\ informer[v] # NoCR => informer[v].uid < edits /\ informer[v].uid \in Nat
          /\ obj[v] # NoCR => obj[v].uid < edits /\ obj[v].uid \in Nat
      BY Facts, Fields DEF PinInv, UidsPast
    <3> QED
      BY <1>0, <3>1
  <2> QED
    BY <1>1, <2>1, <2>2 DEF UidsPast
<1>6. VersionsStand'
  BY <1>1, <1>2, <1>3, WorkerCR DEF PinInv, VersionsStand
<1>7. FinalizersPin'
  BY <1>1, <1>3 DEF PinInv, FinalizersPin, Pinned
<1>8. CopiesAgree'
  BY <1>1, <1>3, WorkerCR DEF PinInv, CopiesAgree, Agrees
<1>9. StagesInOrder'
  BY <1>1 DEF PinInv, StagesInOrder
<1>10. PinnedTarget'
  BY <1>1, <1>3, WorkerCR DEF PinInv, PinnedTarget, Reconciles
<1> QED
  BY <1>4, <1>5, <1>6, <1>7, <1>8, <1>9, <1>10 DEF PinInv

(* The status write, the removal of the finalizer, and what users do to a CR
   that is there. *)
LEMMA WriteStatusKeeps ==
  ASSUME PinInv, NEW w \in Workers, WriteStatus(w)
  PROVE  PinInv'
<1>1. CASE current[w] /\ api[CR(w)].cleared # obj[w].cleared
  <2> DEFINE n == [api[CR(w)] EXCEPT !.cleared = obj[w].cleared]
  <2>1. /\ CR(w) \in CRs /\ api[CR(w)] # NoCR /\ api[CR(w)] \in CRObjects
        /\ obj[w].cleared \in BOOLEAN /\ Pinned(api[CR(w)])
    BY <1>1, Facts, Fields DEF WriteStatus, PinInv, VersionsStand, FinalizersPin
  <2>2. n \in CRObjects
    BY <2>1 DEF CRObjects
  <2>3. /\ n.uid = api[CR(w)].uid /\ n.extName = api[CR(w)].extName
        /\ n.finalizer = api[CR(w)].finalizer /\ n.deleting = api[CR(w)].deleting
    BY <2>1 DEF CRObjects
  <2>4. Pinned(n)
    BY <2>1, <2>3 DEF Pinned
  <2>5. api' = [api EXCEPT ![CR(w)] = n]
    BY <1>1 DEF WriteStatus
  <2> HIDE DEF n
  <2> QED
    BY <1>1, <2>1, <2>2, <2>3, <2>4, <2>5, ReplaceKeeps
    DEF WriteStatus, strapiVars, budgets
<1>2. CASE ~(current[w] /\ api[CR(w)].cleared # obj[w].cleared)
  <2>1. Abort(w)
    BY <1>2 DEF WriteStatus, Abort, Forget, k8sVars
  <2> QED
    BY <2>1, AbortKeeps DEF WriteStatus, strapiVars, budgets
<1> QED
  BY <1>1, <1>2

(* The API server drops the object when its finalizer goes; *)
LEMMA ReleaseKeeps ==
  ASSUME PinInv, NEW w \in Workers, Release(w)
  PROVE  PinInv'
<1>1. CASE current[w]
  BY <1>1, WorkerCR, ReplaceKeeps DEF Release, strapiVars, budgets
<1>2. CASE ~current[w]
  <2>1. Abort(w)
    BY <1>2 DEF Release, Abort, Forget, k8sVars
  <2> QED
    BY <2>1, AbortKeeps DEF Release, strapiVars, budgets
<1> QED
  BY <1>1, <1>2

(* a user replaces the spec, *)
LEMMA UserEditKeeps ==
  ASSUME PinInv, NEW c \in CRs, NEW s \in Specs, UserEdit(c, s)
  PROVE  PinInv'
<1> DEFINE n == [api[c] EXCEPT !.role = s.role, !.perms = s.perms,
                               !.policy = s.policy]
<1>1. api[c] # NoCR /\ api[c] \in CRObjects /\ Pinned(api[c])
  BY DEF UserEdit, PinInv, TypeOK, FinalizersPin
<1>2. /\ n \in CRObjects
      /\ n.uid = api[c].uid /\ n.extName = api[c].extName
      /\ n.finalizer = api[c].finalizer /\ n.deleting = api[c].deleting
  <2>1. /\ s.role \in {t.role : t \in Specs}
        /\ s.perms \in {t.perms : t \in Specs}
        /\ s.policy \in {t.policy : t \in Specs}
    OBVIOUS
  <2>2. n \in CRObjects
    BY <1>1, <2>1 DEF CRObjects
  <2> QED
    BY <1>1, <2>1, <2>2 DEF CRObjects
<1>3. Pinned(n)
  BY <1>1, <1>2 DEF Pinned
<1>4. /\ api' = [api EXCEPT ![c] = n] /\ Outdate(c, {})
      /\ UNCHANGED <<informer, roles, nextId, owner, stray, late, pc, obj, target>>
      /\ edits' = edits + 1
  BY DEF UserEdit, UserWrites, Edit
<1> HIDE DEF n
<1> QED
  BY <1>1, <1>2, <1>3, <1>4, ReplaceKeeps

(* or asks for the deletion, which marks a CR with a finalizer and removes one
   without. *)
LEMMA UserDeleteKeeps ==
  ASSUME PinInv, NEW c \in CRs, UserDelete(c)
  PROVE  PinInv'
<1>0. /\ Outdate(c, {}) /\ edits' = edits + 1
      /\ UNCHANGED <<informer, roles, nextId, owner, stray, late, pc, obj, target>>
  BY DEF UserDelete, UserWrites, Edit
<1>1. api[c] # NoCR /\ api[c] \in CRObjects /\ Pinned(api[c])
  BY DEF UserDelete, Live, PinInv, TypeOK, FinalizersPin
<1>2. CASE api[c].finalizer
  <2> DEFINE n == [api[c] EXCEPT !.deleting = TRUE]
  <2>1. n \in CRObjects
    BY <1>1 DEF CRObjects
  <2>2. /\ n.uid = api[c].uid /\ n.extName = api[c].extName
        /\ n.finalizer = api[c].finalizer
    BY <1>1 DEF CRObjects
  <2>3. Pinned(n)
    BY <1>1, <1>2, <2>2 DEF Pinned
  <2>4. api' = [api EXCEPT ![c] = n]
    BY <1>2 DEF UserDelete, UserWrites
  <2> HIDE DEF n
  <2> QED
    BY <1>0, <1>1, <2>1, <2>2, <2>3, <2>4, ReplaceKeeps
<1>3. CASE ~api[c].finalizer
  <2>1. api' = [api EXCEPT ![c] = NoCR]
    BY <1>3 DEF UserDelete, UserWrites
  <2> QED
    BY <1>0, <2>1, ReplaceKeeps
<1> QED
  BY <1>2, <1>3

(* A new CR has a uid no copy can have. *)
LEMMA UserCreateKeeps ==
  ASSUME PinInv, NEW c \in CRs, NEW s \in Specs, UserCreate(c, s)
  PROVE  PinInv'
<1> DEFINE n == Created(s, edits)
<1>0. edits \in Nat /\ edits' = edits + 1 /\ edits < edits'
  BY DEF UserCreate, Edit, PinInv, TypeOK
<1>1. /\ n \in CRObjects /\ n.uid = edits /\ ~n.finalizer /\ ~n.deleting
      /\ n # NoCR
  BY <1>0, Creates, NoCRAssumption
<1>2. /\ api' = [api EXCEPT ![c] = n] /\ Outdate(c, {})
      /\ UNCHANGED <<informer, roles, nextId, stray, late, pc, obj, target>>
  BY DEF UserCreate, UserWrites, Created
<1>3. /\ synced' \in [Workers -> BOOLEAN] /\ current' \in [Workers -> BOOLEAN]
      /\ \A v \in Workers :
           /\ synced'[v] => synced[v] /\ CR(v) # c
           /\ current'[v] => current[v] /\ CR(v) # c
  <2>1. synced \in [Workers -> BOOLEAN] /\ current \in [Workers -> BOOLEAN]
    BY DEF PinInv, TypeOK
  <2> QED
    BY <1>2, <2>1 DEF Outdate
<1>4. /\ api' \in [CRs -> CRObjects \cup {NoCR}] /\ api'[c] = n
      /\ \A d \in CRs \ {c} : api'[d] = api[d]
  BY <1>1, <1>2 DEF PinInv, TypeOK
<1>5. \A v \in Workers :
        /\ informer[v] # NoCR => informer[v].uid < edits /\ informer[v].uid \in Nat
        /\ obj[v] # NoCR => obj[v].uid < edits /\ obj[v].uid \in Nat
  BY Facts, Fields DEF PinInv, UidsPast
<1> HIDE DEF n
<1> USE <1>0, <1>1, <1>2, <1>3, <1>4
<1>6. TypeOK'
  <2>1. owner' \in [RoleIds -> CRs \cup {Nobody}]
    BY DEF UserCreate, PinInv, TypeOK
  <2> QED
    BY <2>1 DEF PinInv, TypeOK
<1>7. UidsPast'
  <2>1. ASSUME NEW d \in CRs \ {c}, api[d] # NoCR PROVE api[d].uid < edits'
    <3>1. api[d].uid < edits /\ api[d] \in CRObjects
      BY <2>1 DEF PinInv, TypeOK, UidsPast
    <3>2. api[d].uid \in Nat
      BY <3>1, Fields
    <3> QED
      BY <3>1, <3>2
  <2>2. \A v \in Workers :
          /\ informer[v] # NoCR => informer[v].uid < edits'
          /\ obj[v] # NoCR => obj[v].uid < edits'
    BY <1>5
  <2> QED
    BY <2>1, <2>2 DEF UidsPast
<1>8. VersionsStand'
  BY WorkerCR DEF PinInv, VersionsStand
<1>9. FinalizersPin'
  BY DEF PinInv, FinalizersPin, Pinned
<1>10. CopiesAgree'
  BY <1>5, WorkerCR DEF PinInv, CopiesAgree, Agrees
<1>11. StagesInOrder'
  BY DEF PinInv, StagesInOrder
<1>12. PinnedTarget'
  <2>1. \A v \in Workers : pc[v] = "put" => obj[v] # NoCR
    BY DEF PinInv, TypeOK
  <2> QED
    BY <1>5, <2>1, WorkerCR DEF PinInv, PinnedTarget, Reconciles
<1> QED
  BY <1>6, <1>7, <1>8, <1>9, <1>10, <1>11, <1>12 DEF PinInv

(* A worker's own update of the metadata succeeds only on the version it has,
   before there is a finalizer: no copy has one yet. *)
LEMMA UpdateKeeps ==
  ASSUME PinInv, NEW w \in Workers, current[w], ~obj[w].finalizer,
         NEW n \in CRObjects, n.uid = obj[w].uid, Pinned(n), UpdateObject(w, n),
         NEW l \in {"observe", "update", "status"}, Goto(w, l),
         l = "update" => n.finalizer,
         UNCHANGED <<target, roles, nextId, owner, stray, late, edits>>
  PROVE  PinInv'
<1> DEFINE c == CR(w)
<1>1. /\ c \in CRs /\ api[c] # NoCR /\ obj[w] # NoCR /\ n # NoCR
      /\ api[c].uid = n.uid /\ ~api[c].finalizer
  BY WorkerCR, NoCRAssumption DEF PinInv, VersionsStand, TypeOK
<1>2. n.uid < edits
  BY <1>1 DEF PinInv, UidsPast
<1>3. /\ api' \in [CRs -> CRObjects \cup {NoCR}] /\ api'[c] = n
      /\ \A d \in CRs \ {c} : api'[d] = api[d]
      /\ obj' \in [Workers -> CRObjects \cup {NoCR}] /\ obj'[w] = n
      /\ pc' \in [Workers -> PC] /\ pc'[w] = l
      /\ \A v \in Workers \ {w} : obj'[v] = obj[v] /\ pc'[v] = pc[v]
      /\ informer' = informer
  BY <1>1 DEF UpdateObject, Goto, PinInv, TypeOK, PC
<1>4. /\ synced' \in [Workers -> BOOLEAN] /\ current' \in [Workers -> BOOLEAN]
      /\ \A v \in Workers :
           /\ synced'[v] => synced[v] /\ CR(v) # c
           /\ v # w /\ current'[v] => current[v] /\ CR(v) # c
  <2>1. synced \in [Workers -> BOOLEAN] /\ current \in [Workers -> BOOLEAN]
    BY DEF PinInv, TypeOK
  <2> QED
    BY <2>1 DEF UpdateObject, Outdate
<1> HIDE DEF c
<1> USE <1>1, <1>3
<1>5. \A v \in Workers :
        CR(v) = c => /\ informer[v] # NoCR /\ informer[v].uid = n.uid
                          => ~informer[v].finalizer
                     /\ obj[v] # NoCR /\ obj[v].uid = n.uid
                          => ~obj[v].finalizer
  BY DEF PinInv, CopiesAgree, Agrees
<1>6. TypeOK'
  BY <1>4 DEF PinInv, TypeOK
<1>7. UidsPast'
  BY <1>2 DEF PinInv, UidsPast
<1>8. VersionsStand'
  <2>1. CR(w) = c
    BY DEF c
  <2> QED
    BY <1>4, <2>1, WorkerCR DEF PinInv, VersionsStand
<1>9. FinalizersPin'
  BY DEF PinInv, FinalizersPin, Pinned
<1>10. CopiesAgree'
  BY <1>5, WorkerCR DEF PinInv, CopiesAgree, Agrees, c
<1>11. StagesInOrder'
  BY DEF PinInv, StagesInOrder
<1>12. PinnedTarget'
  <2>1. \A d \in CRs : api'[d] # NoCR /\ api'[d].finalizer => api'[d].extName \in Nat
    BY DEF PinInv, PinnedTarget, TypeOK, Pinned
  <2>2. ASSUME NEW v \in Workers, pc'[v] = "put", Reconciles(v)'
        PROVE  v # w /\ CR(v) # c
    <3>1. v # w /\ pc[v] = "put" /\ obj'[v] = obj[v]
      BY <2>2
    <3>2. obj[v] # NoCR /\ obj[v].finalizer
      BY <3>1 DEF PinInv, TypeOK, StagesInOrder
    <3>3. CR(v) = c => obj[v].uid = n.uid
      BY <2>2, <3>1 DEF Reconciles
    <3> QED
      BY <1>5, <3>1, <3>2, <3>3
  <2> QED
    BY <2>1, <2>2, WorkerCR DEF PinInv, PinnedTarget, Reconciles
<1> QED
  BY <1>6, <1>7, <1>8, <1>9, <1>10, <1>11, <1>12 DEF PinInv

(* The initializer runs before there is a finalizer; *)
LEMMA InitializeKeeps ==
  ASSUME PinInv, NEW w \in Workers, Initialize(w)
  PROVE  PinInv'
<1>1. CASE current[w]
  <2> DEFINE k == NameId[CR(w)]
             e == IF k = 0 THEN NonNumeric ELSE k
             n == [obj[w] EXCEPT !.extName = e]
  <2>1. pc[w] = "initialize" /\ obj[w] \in CRObjects /\ obj[w] # NoCR
    BY Facts, NoCRAssumption DEF Initialize
  <2>2. ~obj[w].finalizer /\ ~obj[w].deleting
    <3>1. obj[w].extName = Unset /\ Pinned(obj[w])
      BY <2>1 DEF PinInv, StagesInOrder, FinalizersPin
    <3>2. nextId \in Nat /\ Unset \notin Nat
      BY ExtNameAssumption, Facts
    <3> QED
      BY <3>1, <3>2 DEF Pinned
  <2>3. e \in ExtNames
    BY WorkerCR, NameIdAssumption DEF ExtNames
  <2> HIDE DEF e
  <2>4. n \in CRObjects
    BY <2>1, <2>3 DEF CRObjects
  <2>5. /\ n.uid = obj[w].uid /\ n.finalizer = obj[w].finalizer
        /\ n.deleting = obj[w].deleting
    BY <2>1 DEF CRObjects
  <2>6. Pinned(n)
    BY <2>2, <2>5 DEF Pinned
  <2>7. /\ UpdateObject(w, n) /\ Goto(w, "observe")
        /\ UNCHANGED <<target, roles, nextId, owner, stray, late, edits>>
    BY <1>1 DEF Initialize, e, strapiVars, budgets
  <2> HIDE DEF n
  <2> QED
    BY <1>1, <2>2, <2>4, <2>5, <2>6, <2>7, UpdateKeeps
<1>2. CASE ~current[w]
  BY <1>2, AbortKeeps DEF Initialize, strapiVars, budgets
<1> QED
  BY <1>1, <1>2

(* and the finalizer is added to an object with the id of a role. *)
LEMMA AddFinalizerKeeps ==
  ASSUME PinInv, NEW w \in Workers, AddFinalizer(w)
  PROVE  PinInv'
<1>1. CASE current[w]
  <2> DEFINE n == [obj[w] EXCEPT !.finalizer = TRUE]
             l == AfterFinalizer(obj[w], target[w].drift)
  <2>1. /\ pc[w] = "addfinalizer" /\ obj[w] \in CRObjects
        /\ ~obj[w].finalizer /\ obj[w].extName \in 1..nextId - 1
    BY Facts DEF AddFinalizer, PinInv, StagesInOrder
  <2>2. n \in CRObjects
    BY <2>1 DEF CRObjects
  <2>3. /\ n.uid = obj[w].uid /\ n.extName = obj[w].extName
        /\ n.finalizer
    BY <2>1 DEF CRObjects
  <2>4. Pinned(n)
    BY <2>1, <2>3 DEF Pinned
  <2>5. l \in {"update", "status"}
    BY DEF AfterFinalizer
  <2>6. /\ UpdateObject(w, n) /\ Goto(w, l)
        /\ UNCHANGED <<target, roles, nextId, owner, stray, late, edits>>
    BY <1>1 DEF AddFinalizer, strapiVars, budgets
  <2> HIDE DEF n, l
  <2> QED
    BY <1>1, <2>1, <2>2, <2>3, <2>4, <2>5, <2>6, UpdateKeeps
<1>2. CASE ~current[w]
  BY <1>2, AbortKeeps DEF AddFinalizer, strapiVars, budgets
<1> QED
  BY <1>1, <1>2

-----------------------------------------------------------------------------
(* The theorems. *)

(* Every step preserves the invariant. *)
LEMMA StepPins == PinInv /\ [Next]_vars => PinInv'
<1> SUFFICES ASSUME PinInv, [Next]_vars PROVE PinInv'
  OBVIOUS
<1>1. CASE UNCHANGED vars
  BY <1>1, StrapiKeeps
  DEF vars, k8sVars, strapiVars, workerVars, budgets, PinInv, TypeOK
<1>2. ASSUME NEW w \in Workers, Start(w) \/ Progress(w) \/ Sync(w)
      PROVE  PinInv'
  <2>1. CASE PutMissing(w)
    BY <2>1, AbortKeeps DEF PutMissing, strapiVars, budgets
  <2> QED
    BY <1>2, <2>1, StartKeeps, SyncKeeps, InitializeKeeps, ObserveKeeps,
       AddFinalizerKeeps, ResolveKeeps, PutKeeps, WriteStatusKeeps, ReleaseKeeps
    DEF Progress
<1>3. CASE Failures
  <2>1. ASSUME NEW w \in Workers, PutFails(w) \/ Fault(w) PROVE PinInv'
    BY <2>1, AbortKeeps DEF PutFails, Fault, strapiVars
  <2> QED
    BY <1>3, <2>1, CrashKeeps DEF Failures
<1>4. CASE Users
  BY <1>4, UserCreateKeeps, UserEditKeeps, UserDeleteKeeps DEF Users
<1> QED
  BY <1>1, <1>2, <1>3, <1>4, OutsideKeeps DEF Next

(* Who writes to the API server: four steps of a reconcile that has the latest
   version, and users. *)
LEMMA ApiWriters ==
  ASSUME PinInv, [Next]_vars
  PROVE  \/ api' = api
         \/ \E w \in Workers :
              current[w] /\ (\/ Initialize(w) \/ AddFinalizer(w)
                             \/ WriteStatus(w) \/ Release(w))
         \/ Users
<1>1. ASSUME NEW w \in Workers, Start(w) \/ Progress(w) \/ Sync(w)
      PROVE  \/ api' = api
             \/ current[w] /\ (\/ Initialize(w) \/ AddFinalizer(w)
                               \/ WriteStatus(w) \/ Release(w))
  <2>1. Start(w) \/ Sync(w) \/ Observe(w) \/ Resolve(w) \/ PutDone(w) \/ PutMissing(w)
          => api' = api
    BY DEF Start, Sync, Observe, Resolve, PutDone, PutMissing, Abort, k8sVars
  <2>2. Initialize(w) \/ AddFinalizer(w) \/ WriteStatus(w) \/ Release(w)
          => api' = api \/ current[w]
    BY DEF Initialize, AddFinalizer, WriteStatus, Release, Abort, k8sVars
  <2> QED
    BY <1>1, <2>1, <2>2 DEF Progress
<1>2. (\E m \in late : LateEnds(m)) \/ Administrators \/ Failures \/ UNCHANGED vars
        => api' = api
  BY DEF LateEnds, Administrators, AdminCreate, AdminRemove, AdminSetPerms,
         AdminRename, Admin, Failures, PutFails, Fault, Crash, Abort, k8sVars, vars
<1> QED
  BY <1>1, <1>2 DEF Next

(* A worker that writes the metadata with the latest version writes to a CR
   without finalizer. *)
LEMMA UpdatesComeFirst ==
  ASSUME PinInv, NEW w \in Workers, current[w], Initialize(w) \/ AddFinalizer(w)
  PROVE  /\ obj[w] \in CRObjects /\ ~obj[w].finalizer /\ ~obj[w].deleting
         /\ CR(w) \in CRs /\ api[CR(w)] \in CRObjects
         /\ ~api[CR(w)].finalizer
         /\ \E n \in CRObjects :
              /\ api' = [api EXCEPT ![CR(w)] = n]
              /\ n.finalizer <=> AddFinalizer(w)
              /\ AddFinalizer(w) => n.extName = obj[w].extName
              /\ n.deleting = obj[w].deleting /\ n.policy = obj[w].policy
              /\ n.cleared = obj[w].cleared
<1>1. /\ obj[w] \in CRObjects /\ obj[w] # NoCR
      /\ CR(w) \in CRs /\ api[CR(w)] \in CRObjects
      /\ api[CR(w)].finalizer = obj[w].finalizer
      /\ pc[w] = IF AddFinalizer(w) THEN "addfinalizer" ELSE "initialize"
  BY Facts, NoCRAssumption
  DEF Initialize, AddFinalizer, PinInv, VersionsStand
<1>2. ~obj[w].finalizer
  <2>1. CASE AddFinalizer(w)
    BY <1>1, <2>1 DEF PinInv, StagesInOrder
  <2>2. CASE ~AddFinalizer(w)
    <3>1. obj[w].extName = Unset /\ Pinned(obj[w])
      BY <1>1, <2>2 DEF PinInv, StagesInOrder, FinalizersPin
    <3>2. nextId \in Nat /\ Unset \notin Nat
      BY ExtNameAssumption, Facts
    <3> QED
      BY <3>1, <3>2 DEF Pinned
  <2> QED
    BY <2>1, <2>2
<1>3. ~obj[w].deleting
  BY <1>1, <1>2 DEF PinInv, FinalizersPin, Pinned
<1>4. CASE AddFinalizer(w)
  <2> DEFINE n == [obj[w] EXCEPT !.finalizer = TRUE]
  <2>1. /\ n \in CRObjects
        /\ n.finalizer = TRUE /\ n.extName = obj[w].extName
        /\ n.deleting = obj[w].deleting /\ n.policy = obj[w].policy
        /\ n.cleared = obj[w].cleared
    <3>1. n \in CRObjects
      BY <1>1 DEF CRObjects
    <3> QED
      BY <1>1, <3>1 DEF CRObjects
  <2>2. api' = [api EXCEPT ![CR(w)] = n]
    BY <1>4 DEF AddFinalizer, UpdateObject
  <2> QED
    BY <1>1, <1>2, <1>3, <1>4, <2>1, <2>2
<1>5. CASE ~AddFinalizer(w)
  <2> DEFINE e == IF NameId[CR(w)] = 0 THEN NonNumeric ELSE NameId[CR(w)]
             n == [obj[w] EXCEPT !.extName = e]
  <2>1. e \in ExtNames
    BY <1>1, NameIdAssumption DEF ExtNames
  <2>2. api' = [api EXCEPT ![CR(w)] = n]
    BY <1>5 DEF Initialize, UpdateObject
  <2> HIDE DEF e
  <2>3. /\ n \in CRObjects
        /\ n.finalizer = FALSE
        /\ n.deleting = obj[w].deleting /\ n.policy = obj[w].policy
        /\ n.cleared = obj[w].cleared
    <3>1. n \in CRObjects
      BY <1>1, <2>1 DEF CRObjects
    <3> QED
      BY <1>1, <1>2, <3>1 DEF CRObjects
  <2> HIDE DEF n
  <2> QED
    BY <1>1, <1>2, <1>3, <1>5, <2>2, <2>3
<1> QED
  BY <1>4, <1>5

(* The objects that a status write, an edit and a deletion store. *)
Reported(o, b) == [o EXCEPT !.cleared = b]

Respecified(o, s) ==
  [o EXCEPT !.role = s.role, !.perms = s.perms, !.policy = s.policy]

Condemned(o) == [o EXCEPT !.deleting = TRUE]

(* What they leave alone. *)
LEMMA ReportKeeps ==
  ASSUME NEW o \in CRObjects, NEW b
  PROVE  /\ Reported(o, b).finalizer = o.finalizer
         /\ Reported(o, b).extName = o.extName
         /\ Reported(o, b).deleting = o.deleting
         /\ Reported(o, b).policy = o.policy
         /\ Reported(o, b).cleared = b
         /\ b \in BOOLEAN => Reported(o, b) # NoCR
<1>1. b \in BOOLEAN => Reported(o, b) \in CRObjects
  BY DEF CRObjects, Reported
<1> QED
  BY <1>1, NoCRAssumption DEF CRObjects, Reported

(* The same of an edit, *)
LEMMA EditKeeps ==
  ASSUME NEW o \in CRObjects, NEW s \in Specs
  PROVE  /\ Respecified(o, s).finalizer = o.finalizer
         /\ Respecified(o, s).extName = o.extName
         /\ Respecified(o, s).deleting = o.deleting
         /\ Respecified(o, s).policy = s.policy
         /\ Respecified(o, s).cleared = o.cleared
         /\ Respecified(o, s) # NoCR
<1>1. /\ s.role \in {t.role : t \in Specs}
      /\ s.perms \in {t.perms : t \in Specs}
      /\ s.policy \in {t.policy : t \in Specs}
  OBVIOUS
<1>2. Respecified(o, s) \in CRObjects
  BY <1>1 DEF CRObjects, Respecified
<1> QED
  BY <1>2, NoCRAssumption DEF CRObjects, Respecified

(* and of a deletion. *)
LEMMA DeletionKeeps ==
  ASSUME NEW o \in CRObjects
  PROVE  /\ Condemned(o).finalizer = o.finalizer
         /\ Condemned(o).extName = o.extName
         /\ Condemned(o).deleting
         /\ Condemned(o).policy = o.policy
         /\ Condemned(o).cleared = o.cleared
         /\ Condemned(o) # NoCR
<1>1. Condemned(o) \in CRObjects
  BY DEF CRObjects, Condemned
<1> QED
  BY <1>1, NoCRAssumption DEF CRObjects, Condemned

(* The writes of the four workers and of users, one object each. *)
LEMMA ApiWrites ==
  ASSUME PinInv
  PROVE  /\ \A w \in Workers : WriteStatus(w) =>
              \/ api' = api
              \/ /\ current[w] /\ pc[w] = "status" /\ obj[w] \in CRObjects
                 /\ api[CR(w)] \in CRObjects
                 /\ api' = [api EXCEPT ![CR(w)] = Reported(api[CR(w)], obj[w].cleared)]
         /\ \A d \in CRs, s \in Specs : UserCreate(d, s) =>
              /\ api[d] = NoCR /\ edits \in Nat
              /\ api' = [api EXCEPT ![d] = Created(s, edits)]
         /\ \A d \in CRs, s \in Specs : UserEdit(d, s) =>
              /\ api[d] \in CRObjects
              /\ api' = [api EXCEPT ![d] = Respecified(api[d], s)]
         /\ \A d \in CRs : UserDelete(d) =>
              /\ api[d] \in CRObjects /\ ~api[d].deleting
              /\ api' = [api EXCEPT ![d] = IF api[d].finalizer
                                           THEN Condemned(api[d]) ELSE NoCR]
<1>1. ASSUME NEW w \in Workers, WriteStatus(w)
      PROVE  \/ api' = api
             \/ /\ current[w] /\ pc[w] = "status" /\ obj[w] \in CRObjects
                /\ api[CR(w)] \in CRObjects
                /\ api' = [api EXCEPT ![CR(w)] = Reported(api[CR(w)], obj[w].cleared)]
  BY <1>1, Facts DEF WriteStatus, Reported, PinInv, VersionsStand
<1>2. ASSUME NEW d \in CRs, NEW s \in Specs, UserCreate(d, s)
      PROVE  /\ api[d] = NoCR /\ edits \in Nat
             /\ api' = [api EXCEPT ![d] = Created(s, edits)]
  BY <1>2 DEF UserCreate, UserWrites, Created, PinInv, TypeOK
<1>3. ASSUME NEW d \in CRs, NEW s \in Specs, UserEdit(d, s)
      PROVE  /\ api[d] \in CRObjects
             /\ api' = [api EXCEPT ![d] = Respecified(api[d], s)]
  BY <1>3 DEF UserEdit, UserWrites, Respecified, PinInv, TypeOK
<1>4. ASSUME NEW d \in CRs, UserDelete(d)
      PROVE  /\ api[d] \in CRObjects /\ ~api[d].deleting
             /\ api' = [api EXCEPT ![d] = IF api[d].finalizer
                                          THEN Condemned(api[d]) ELSE NoCR]
  BY <1>4 DEF UserDelete, UserWrites, Live, Condemned, PinInv, TypeOK
<1> QED
  BY <1>1, <1>2, <1>3, <1>4

(* No step touches the record of a CR that has its finalizer. *)
LEMMA RecordStep ==
  ASSUME PinInv, [Next]_vars, NEW c \in CRs,
         api[c] # NoCR, api[c].finalizer, api'[c] # NoCR
  PROVE  api'[c].finalizer /\ api'[c].extName = api[c].extName
<1>1. api \in [CRs -> CRObjects \cup {NoCR}] /\ api[c] \in CRObjects
  BY DEF PinInv, TypeOK
<1>2. ASSUME NEW w \in Workers, current[w],
             \/ Initialize(w) \/ AddFinalizer(w) \/ WriteStatus(w) \/ Release(w)
      PROVE  api'[c].finalizer /\ api'[c].extName = api[c].extName
  <2>1. CASE Initialize(w) \/ AddFinalizer(w)
    <3>1. CR(w) # c
      BY <1>2, <2>1, UpdatesComeFirst
    <3>2. PICK n \in CRObjects : api' = [api EXCEPT ![CR(w)] = n]
      BY <1>2, <2>1, UpdatesComeFirst
    <3> QED
      BY <1>1, <3>1, <3>2
  <2>2. CASE WriteStatus(w)
    <3>1. ASSUME api' # api
          PROVE  api'[c] = api[c] \/ api'[c] = Reported(api[c], obj[w].cleared)
      BY <1>1, <2>2, <3>1, ApiWrites
    <3> QED
      BY <1>1, <3>1, ReportKeeps
  <2>3. CASE Release(w)
    <3>1. api' = [api EXCEPT ![CR(w)] = NoCR]
      BY <1>2, <2>3 DEF Release
    <3> QED
      BY <1>1, <3>1
  <2> QED
    BY <1>2, <2>1, <2>2, <2>3
<1>3. ASSUME NEW d \in CRs, NEW s \in Specs, UserCreate(d, s)
      PROVE  api'[c] = api[c]
  BY <1>1, <1>3 DEF UserCreate, UserWrites
<1>4. ASSUME NEW d \in CRs, NEW s \in Specs, UserEdit(d, s)
      PROVE  api'[c].finalizer /\ api'[c].extName = api[c].extName
  <2>1. api'[c] = api[c] \/ api'[c] = Respecified(api[c], s)
    BY <1>1, <1>4, ApiWrites
  <2> QED
    BY <1>1, <2>1, EditKeeps
<1>5. ASSUME NEW d \in CRs, UserDelete(d)
      PROVE  api'[c].finalizer /\ api'[c].extName = api[c].extName
  <2>1. api'[c] = api[c] \/ api'[c] = Condemned(api[c])
    BY <1>1, <1>5, ApiWrites
  <2> QED
    BY <1>1, <2>1, DeletionKeeps
<1> QED
  BY <1>2, <1>3, <1>4, <1>5, ApiWriters DEF Users

(* The inductive invariant: a finalizer comes with the id of a role, every copy
   of the CR that has one agrees on it, and nothing is PUT without it. *)
THEOREM PinInvariance == Spec => []PinInv
<1>1. PinInv /\ [Next]_vars => PinInv'
  BY StepPins
<1> QED
  BY InitPins, <1>1, PTL DEF Spec

(* Every reachable state of the controller, the API server and Strapi is well
   formed: a reconcile under way has its object, and a PUT goes to an id Strapi
   has issued, never to the zero id of a failed lookup. *)
THEOREM TypeCorrect == Spec => []TypeOK
<1>1. PinInv => TypeOK
  BY DEF PinInv
<1> QED
  BY PinInvariance, <1>1, PTL

(* For any number of replicas and CRs, whatever is renamed, removed, edited,
   lost or crashes: PUTs on behalf of a CR stay on its recorded role. *)
THEOREM TargetIsPinned == Spec => []PinnedTarget
<1>1. PinInv => PinnedTarget
  BY DEF PinInv
<1> QED
  BY PinInvariance, <1>1, PTL

(* For any number of replicas: once a CR has its finalizer, nothing but its
   disappearance ends or changes the role on record. *)
THEOREM RecordIsDurable == Spec => RecordStands
<1>1. PinInv /\ [Next]_vars =>
        [\A c \in CRs :
           /\ api[c] # NoCR /\ api[c].finalizer
           /\ api'[c] # NoCR
           => api'[c].finalizer /\ api'[c].extName = api[c].extName]_vars
  BY RecordStep
<1> QED
  BY <1>1, PinInvariance, PTL DEF RecordStands, Spec
=============================================================================
