-------------------------- MODULE RolePermissions --------------------------
(***************************************************************************)
(* The RolePermissions controller: the external client of                  *)
(* internal/controller/rolepermissions/rolepermissions.go, driven by the   *)
(* managed reconciler of crossplane-runtime, between two stores it does    *)
(* not own.                                                                *)
(*                                                                         *)
(*   - The Kubernetes API server holds the custom resources (CRs).  Users  *)
(*     create, edit and delete them.  A worker reads a CR from an informer *)
(*     that lags behind, and every write carries the version it read: it   *)
(*     fails with a conflict when the CR has changed since.                *)
(*   - Strapi holds the roles.  Administrators edit, rename, remove and    *)
(*     create them while the controller runs.  A PUT replaces a role's     *)
(*     name and permission tree; it may fail, and one that timed out may   *)
(*     still be executed later.                                            *)
(*                                                                         *)
(* A worker is a replica of the provider and a CR: one process reconciles  *)
(* different CRs concurrently but never the same CR twice at a time, and   *)
(* since leader election is off by default, there may be two processes     *)
(* during a rollout.                                                       *)
(***************************************************************************)
EXTENDS Permissions

CONSTANTS
  Replicas,    \* provider processes
  CRs,         \* names of RolePermissions resources
  Specs,       \* the specs users write: records [role, perms, policy]
  Names,       \* the names administrators give to roles
  AdminTrees,  \* the permission trees administrators leave behind
  InitRoles,   \* Strapi's roles at the start: id -> [type, name, perms]
  MaxRoles,    \* bound on role ids
  NameId,      \* CR -> the number its metadata.name parses to, 0 if none
  MaxEdits,    \* bound on user actions
  MaxAdmin,    \* bound on administrator actions
  MaxFaults,   \* bound on failures, time-outs and crashes
  NoCR,        \* api[c] when there is no such resource
  Unset,       \* an absent external-name annotation
  NonNumeric,  \* an external-name that strconv.Atoi does not parse
  Nobody       \* owner of a tree no CR granted

RoleIds == 1..MaxRoles

ExtNames == Nat \cup {Unset, NonNumeric}

(* What matters of spec.managementPolicies: whether they include Update and
   Delete, both ("all"), only one of them or none ("observe"). *)
Policies == {"all", "orphan", "noupdate", "observe"}

ASSUME PoliciesAssumption == \A s \in Specs : s.policy \in Policies

CRObjects ==
  [role : {s.role : s \in Specs}, perms : {s.perms : s \in Specs},
   policy : {s.policy : s \in Specs}, uid : Nat, extName : ExtNames,
   deleting : BOOLEAN, finalizer : BOOLEAN, cleared : BOOLEAN]

ASSUME NoCRAssumption == NoCR \notin CRObjects
ASSUME ExtNameAssumption ==
  {Unset, NonNumeric} \cap Nat = {} /\ Unset # NonNumeric
ASSUME RolesAssumption ==
  MaxRoles \in Nat /\ \E n \in 0..MaxRoles : DOMAIN InitRoles = 1..n
ASSUME NobodyAssumption == Nobody \notin CRs
ASSUME NameIdAssumption == NameId \in [CRs -> Nat]

VARIABLES
  api,       \* API server: CR -> its object, or NoCR
  roles,     \* Strapi: id -> role
  nextId,    \* Strapi: the id of the next role
  owner,     \* history: id -> the CR whose PUT granted the role's tree
  stray,     \* history: ids whose tree a PUT granted that was given up before
  late,      \* PUTs given up by the client but still on their way to Strapi
  informer,  \* worker -> the CR as its replica's informer last saw it
  synced,    \* worker -> whether that is the CR's latest version
  pc,        \* worker -> where its reconcile is
  obj,       \* worker -> the in-memory object of that reconcile
  current,   \* worker -> whether obj has the CR's latest version
  target,    \* worker -> [id, name, drift] of the role it resolved
  edits, admin, faults  \* how much of each budget is spent

k8sVars == <<api, informer, synced>>
strapiVars == <<roles, nextId, owner, stray, late>>
workerVars == <<pc, obj, current, target>>
budgets == <<edits, admin, faults>>
vars == <<k8sVars, strapiVars, workerVars, budgets>>

Workers == Replicas \X CRs
CR(w) == w[2]

ShouldDelete(o) == o.policy \in {"all", "noupdate"}
ShouldUpdate(o) == o.policy \in {"all", "orphan"}

NoTarget == [id |-> 0, name |-> Unset, drift |-> FALSE]

-----------------------------------------------------------------------------
(***************************************************************************)
(* The API server.                                                         *)
(***************************************************************************)

(* A write by anyone but w gives the CR a new version: no informer and no
   other worker has it. *)
Outdate(c, except) ==
  /\ synced' = [w \in Workers |-> synced[w] /\ CR(w) # c]
  /\ current' = [w \in Workers |->
                   current[w] /\ (CR(w) # c \/ w \in except)]

Live(c) == api[c] # NoCR /\ ~api[c].deleting

(* Update of the object's metadata by w: the server keeps its own status, and
   returns what it stored. *)
UpdateObject(w, new) ==
  /\ api' = [api EXCEPT ![CR(w)] = new]
  /\ obj' = [obj EXCEPT ![w] = new]
  /\ Outdate(CR(w), {w})
  /\ UNCHANGED informer

-----------------------------------------------------------------------------
(***************************************************************************)
(* Init.                                                                   *)
(***************************************************************************)

Init ==
  /\ api = [c \in CRs |-> NoCR]
  /\ roles = InitRoles
  /\ nextId = Cardinality(DOMAIN InitRoles) + 1
  /\ owner = [i \in RoleIds |-> Nobody]
  /\ stray = {} /\ late = {}
  /\ informer = [w \in Workers |-> NoCR]
  /\ synced = [w \in Workers |-> TRUE]
  /\ pc = [w \in Workers |-> "idle"]
  /\ obj = [w \in Workers |-> NoCR]
  /\ current = [w \in Workers |-> FALSE]
  /\ target = [w \in Workers |-> NoTarget]
  /\ edits = 0 /\ admin = 0 /\ faults = 0

-----------------------------------------------------------------------------
(***************************************************************************)
(* A reconcile.                                                            *)
(***************************************************************************)

Goto(w, l) == pc' = [pc EXCEPT ![w] = l]

(* The end of a reconcile, successful or not: it is requeued, on error with
   back-off and otherwise after the poll interval.  Locals are dead. *)
Finish(w) ==
  /\ Goto(w, "idle")
  /\ target' = [target EXCEPT ![w] = NoTarget]

Forget(w) ==
  /\ obj' = [obj EXCEPT ![w] = NoCR]
  /\ current' = [current EXCEPT ![w] = FALSE]

Abort(w) == Finish(w) /\ Forget(w) /\ UNCHANGED k8sVars

(* Mutant of resolveRole: ignores the external-name. *)
resolveBySelector(o) == FindRole(roles, o.role)

(* resolveRole: the roles it may return, as a set of ids; empty is the "role
   not found" error. *)
resolveRole(o) ==
  IF o.extName \in DOMAIN roles THEN {o.extName} ELSE FindRole(roles, o.role)

(* Get the CR from the cache.  A CR being deleted under a policy without
   Delete goes straight to the removal of its finalizer; one without
   external-name is given its metadata.name first. *)
Start(w) ==
  /\ pc[w] = "idle"
  /\ informer[w] # NoCR
  /\ LET o == informer[w] IN
     /\ obj' = [obj EXCEPT ![w] = o]
     /\ Goto(w, IF o.deleting /\ ~ShouldDelete(o) THEN "release"
                ELSE IF o.extName = Unset THEN "initialize" ELSE "observe")
  /\ current' = [current EXCEPT ![w] = synced[w]]
  /\ UNCHANGED <<k8sVars, strapiVars, target, budgets>>

(* NameAsExternalName. *)
Initialize(w) ==
  /\ pc[w] = "initialize"
  /\ IF current[w]
     THEN LET n == NameId[CR(w)] IN
          /\ UpdateObject(w, [obj[w] EXCEPT !.extName =
                                IF n = 0 THEN NonNumeric ELSE n])
          /\ Goto(w, "observe")
          /\ UNCHANGED target
     ELSE Abort(w)
  /\ UNCHANGED <<strapiVars, budgets>>

(* Where a reconcile goes once the finalizer is there. *)
AfterFinalizer(o, drift) ==
  IF drift /\ ShouldUpdate(o) THEN "update" ELSE "status"

(* Mutants of ReportsGone: a deleted CR always, or never, counts as gone. *)
DeletedIsGone(o) == o.deleting
NeverGone(o) == FALSE

(* The early return of Observe for a CR whose wipe is on record. *)
ReportsGone(o) == o.deleting /\ o.cleared

(* Mutant of Observed: the external-name is left alone. *)
ObservedUnpinned(o, i) == [o EXCEPT !.cleared = ReportsGone(o)]

(* What Observe writes to the in-memory object: the id of the role it
   resolved and, unless it returns early, a fresh AtProvider. *)
Observed(o, i) == [o EXCEPT !.extName = i, !.cleared = ReportsGone(o)]

(* Observe, and the reconciler's decision on what it reports. *)
Observe(w) ==
  /\ pc[w] = "observe"
  /\ \/ /\ resolveRole(obj[w]) = {}
        /\ Abort(w)
     \/ \E i \in resolveRole(obj[w]) :
          LET o == obj[w]
              drift == ~UpToDate(o.perms, roles[i].perms)
          IN  /\ obj' = [obj EXCEPT ![w] = Observed(o, i)]
              /\ Goto(w, CASE ReportsGone(o)  -> "release"
                           [] o.deleting /\ ~ReportsGone(o) -> "delete"
                           [] ~o.deleting /\ ~o.finalizer -> "addfinalizer"
                           [] OTHER -> AfterFinalizer(o, drift))
              /\ target' = [target EXCEPT ![w].drift = drift]
              /\ UNCHANGED <<k8sVars, current>>
  /\ UNCHANGED <<strapiVars, budgets>>

(* Mutant of AddFinalizer: writes whatever the version. *)
AddFinalizerUnversioned(w) ==
  /\ pc[w] = "addfinalizer"
  /\ UpdateObject(w, [obj[w] EXCEPT !.finalizer = TRUE])
  /\ Goto(w, AfterFinalizer(obj[w], target[w].drift))
  /\ UNCHANGED <<target, strapiVars, budgets>>

(* The one write that makes Observe's external-name durable: later reconciles
   find the finalizer present and do not update the object again. *)
AddFinalizer(w) ==
  /\ pc[w] = "addfinalizer"
  /\ IF current[w]
     THEN /\ UpdateObject(w, [obj[w] EXCEPT !.finalizer = TRUE])
          /\ Goto(w, AfterFinalizer(obj[w], target[w].drift))
          /\ UNCHANGED target
     ELSE Abort(w)
  /\ UNCHANGED <<strapiVars, budgets>>

(* Mutant of Resolve: goes on with the zero Role when none is found. *)
ResolveUnchecked(w) ==
  /\ pc[w] \in {"update", "delete"}
  /\ target' = [target EXCEPT ![w].id = 0]
  /\ Goto(w, "put")
  /\ UNCHANGED <<k8sVars, obj, current, strapiVars, budgets>>

(* Update (applyPermissions) and Delete list and resolve again. *)
Resolve(w) ==
  /\ pc[w] \in {"update", "delete"}
  /\ \/ /\ resolveRole(obj[w]) = {}
        /\ Abort(w)
     \/ \E i \in resolveRole(obj[w]) :
          /\ target' = [target EXCEPT ![w] =
                          [id |-> i, name |-> roles[i].name, drift |-> FALSE]]
          /\ Goto(w, "put")
          /\ UNCHANGED <<k8sVars, obj, current>>
  /\ UNCHANGED <<strapiVars, budgets>>

(* Who answers for the tree that w's request leaves behind: nobody for a
   wipe. *)
Grantor(w) == IF obj[w].deleting THEN Nobody ELSE CR(w)

(* The request of UpdateRole: the listed role with its tree replaced, and, as
   history, the CR it grants for. *)
Body(w) ==
  [id    |-> target[w].id,
   name  |-> target[w].name,
   perms |-> ExpandPermissions(IF obj[w].deleting THEN <<>> ELSE obj[w].perms),
   from  |-> Grantor(w)]

(* Strapi executes a PUT. *)
Execute(m) ==
  /\ m.id \in DOMAIN roles
  /\ roles' = [roles EXCEPT ![m.id].name = m.name, ![m.id].perms = m.perms]
  /\ owner' = [owner EXCEPT ![m.id] = m.from]

(* UpdateRole succeeds.  After a wipe Delete raises Cleared. *)
PutDone(w) ==
  /\ pc[w] = "put"
  /\ Execute(Body(w))
  /\ stray' = stray \ {target[w].id}
  /\ obj' = [obj EXCEPT ![w].cleared = obj[w].deleting]
  /\ Goto(w, "status")
  /\ UNCHANGED <<k8sVars, nextId, late, current, target, budgets>>

(* Strapi answers 404: the role went away since it was listed. *)
PutMissing(w) ==
  /\ pc[w] = "put"
  /\ target[w].id \notin DOMAIN roles
  /\ Abort(w)
  /\ UNCHANGED <<strapiVars, budgets>>

(* Mutant of PutFails: the error of UpdateRole is not returned. *)
PutFailsUnnoticed(w) ==
  /\ pc[w] = "put"
  /\ faults < MaxFaults /\ faults' = faults + 1
  /\ obj' = [obj EXCEPT ![w].cleared = obj[w].deleting]
  /\ Goto(w, "status")
  /\ UNCHANGED <<k8sVars, strapiVars, current, target, edits, admin>>

(* UpdateRole fails.  The request never left, or it is on its way and Strapi
   may execute it at any later time, at once included. *)
PutFails(w) ==
  /\ pc[w] = "put"
  /\ faults < MaxFaults /\ faults' = faults + 1
  /\ late' \in {late, late \cup {Body(w)}}
  /\ Abort(w)
  /\ UNCHANGED <<roles, nextId, owner, stray, edits, admin>>

(* Status().Update: persists Cleared, and nothing of the metadata. *)
WriteStatus(w) ==
  /\ pc[w] = "status"
  /\ Finish(w)
  /\ obj' = [obj EXCEPT ![w] = NoCR]
  /\ IF current[w] /\ api[CR(w)].cleared # obj[w].cleared
     THEN /\ api' = [api EXCEPT ![CR(w)].cleared = obj[w].cleared]
          /\ Outdate(CR(w), {})
     ELSE /\ current' = [current EXCEPT ![w] = FALSE]
          /\ UNCHANGED <<api, synced>>
  /\ UNCHANGED <<informer, strapiVars, budgets>>

(* Mutant of Release: removes it whatever the version. *)
ReleaseUnversioned(w) ==
  /\ pc[w] = "release"
  /\ Finish(w)
  /\ obj' = [obj EXCEPT ![w] = NoCR]
  /\ api' = [api EXCEPT ![CR(w)] = NoCR]
  /\ Outdate(CR(w), {})
  /\ UNCHANGED <<informer, strapiVars, budgets>>

(* RemoveFinalizer: the last finalizer of a deleted object, so the API server
   drops the object. *)
Release(w) ==
  /\ pc[w] = "release"
  /\ Finish(w)
  /\ obj' = [obj EXCEPT ![w] = NoCR]
  /\ IF current[w]
     THEN /\ api' = [api EXCEPT ![CR(w)] = NoCR]
          /\ Outdate(CR(w), {})
     ELSE /\ current' = [current EXCEPT ![w] = FALSE]
          /\ UNCHANGED <<api, synced>>
  /\ UNCHANGED <<informer, strapiVars, budgets>>

(* Connect, ListRoles or a write to the API server fails. *)
Fault(w) ==
  /\ pc[w] \notin {"idle", "put"}
  /\ faults < MaxFaults /\ faults' = faults + 1
  /\ Abort(w)
  /\ UNCHANGED <<strapiVars, edits, admin>>

(* A provider process dies and is replaced by one with empty caches.  PUTs it
   was waiting for may still arrive, each or none of them. *)
Crash(r) ==
  /\ faults < MaxFaults /\ faults' = faults + 1
  /\ LET mine == {w \in Workers : w[1] = r}
         sent == {Body(w) : w \in {v \in mine : pc[v] = "put"}}
     IN  /\ \E under \in SUBSET sent : late' = late \cup under
         /\ pc' = [w \in Workers |-> IF w \in mine THEN "idle" ELSE pc[w]]
         /\ obj' = [w \in Workers |-> IF w \in mine THEN NoCR ELSE obj[w]]
         /\ current' = [w \in Workers |-> w \notin mine /\ current[w]]
         /\ target' = [w \in Workers |->
                         IF w \in mine THEN NoTarget ELSE target[w]]
         /\ informer' = [w \in Workers |->
                           IF w \in mine THEN NoCR ELSE informer[w]]
         /\ synced' = [w \in Workers |->
                         IF w \in mine THEN api[CR(w)] = NoCR ELSE synced[w]]
  /\ UNCHANGED <<api, roles, nextId, owner, stray, edits, admin>>

(* A watch event reaches the informer. *)
Sync(w) ==
  /\ ~synced[w]
  /\ informer' = [informer EXCEPT ![w] = api[CR(w)]]
  /\ synced' = [synced EXCEPT ![w] = TRUE]
  /\ UNCHANGED <<api, strapiVars, workerVars, budgets>>

(* A PUT the client no longer waits for is executed, or lost for good; for an
   id Strapi does not know it does nothing.  What it grants is the CR's grant,
   though the controller took the request for failed. *)
LateEnds(m) ==
  /\ late' = late \ {m}
  /\ \/ /\ Execute(m)
        /\ stray' = IF m.from = Nobody THEN stray \ {m.id}
                                       ELSE stray \cup {m.id}
     \/ UNCHANGED <<roles, owner, stray>>
  /\ UNCHANGED <<k8sVars, nextId, workerVars, budgets>>

-----------------------------------------------------------------------------
(***************************************************************************)
(* Users of Kubernetes.                                                    *)
(***************************************************************************)

Edit == edits < MaxEdits /\ edits' = edits + 1 /\ UNCHANGED <<admin, faults>>

UserWrites(c, o) ==
  /\ api' = [api EXCEPT ![c] = o]
  /\ Outdate(c, {})
  /\ UNCHANGED <<informer, roles, nextId, stray, late, pc, obj, target>>

(* What an earlier CR of that name left under an orphaning policy is not the
   new one's grant. *)
UserCreate(c, spec) ==
  /\ Edit
  /\ api[c] = NoCR
  /\ UserWrites(c, [role |-> spec.role, perms |-> spec.perms,
                    policy |-> spec.policy, uid |-> edits, extName |-> Unset,
                    deleting |-> FALSE, finalizer |-> FALSE,
                    cleared |-> FALSE])
  /\ owner' = [i \in RoleIds |-> IF owner[i] = c THEN Nobody ELSE owner[i]]

UserEdit(c, spec) ==
  /\ Edit
  /\ api[c] # NoCR
  /\ UserWrites(c, [api[c] EXCEPT !.role = spec.role, !.perms = spec.perms,
                                  !.policy = spec.policy])
  /\ UNCHANGED owner

UserDelete(c) ==
  /\ Edit
  /\ Live(c)
  /\ UserWrites(c, IF api[c].finalizer
                   THEN [api[c] EXCEPT !.deleting = TRUE] ELSE NoCR)
  /\ UNCHANGED owner

-----------------------------------------------------------------------------
(***************************************************************************)
(* Administrators of Strapi.                                               *)
(***************************************************************************)

Admin == 
  /\ admin < MaxAdmin /\ admin' = admin + 1
  /\ UNCHANGED <<k8sVars, late, workerVars, edits, faults>>

AdminSetPerms(i, t) ==
  /\ Admin
  /\ i \in DOMAIN roles
  /\ roles' = [roles EXCEPT ![i].perms = t]
  /\ owner' = [owner EXCEPT ![i] = Nobody]
  /\ stray' = stray \ {i}
  /\ UNCHANGED nextId

AdminRename(i, n) ==
  /\ Admin
  /\ i \in DOMAIN roles
  /\ roles' = [roles EXCEPT ![i].name = n]
  /\ UNCHANGED <<owner, stray, nextId>>

AdminRemove(i) ==
  /\ Admin
  /\ i \in DOMAIN roles
  /\ roles' = [j \in DOMAIN roles \ {i} |-> roles[j]]
  /\ owner' = [owner EXCEPT ![i] = Nobody]
  /\ stray' = stray \ {i}
  /\ UNCHANGED nextId

(* Strapi numbers roles upwards and never uses an id again; it derives the
   type of a new role from its name, and grants it nothing. *)
AdminCreate(n) ==
  /\ Admin
  /\ nextId \in RoleIds
  /\ roles' = [i \in DOMAIN roles \cup {nextId} |->
                 IF i = nextId THEN [type |-> n, name |-> n, perms |-> <<>>]
                               ELSE roles[i]]
  /\ nextId' = nextId + 1
  /\ UNCHANGED <<owner, stray>>

-----------------------------------------------------------------------------
(***************************************************************************)
(* Specification.                                                          *)
(***************************************************************************)

(* The steps of a reconcile that nothing but the worker's turn is needed
   for. *)
Progress(w) ==
  \/ Initialize(w) \/ Observe(w) \/ AddFinalizer(w) \/ Resolve(w)
  \/ PutDone(w) \/ PutMissing(w) \/ WriteStatus(w) \/ Release(w)

Users ==
  \E c \in CRs :
    UserDelete(c) \/ \E spec \in Specs : UserCreate(c, spec) \/ UserEdit(c, spec)

Administrators ==
  \/ \E n \in Names : AdminCreate(n)
  \/ \E i \in RoleIds :
       \/ AdminRemove(i)
       \/ \E t \in AdminTrees : AdminSetPerms(i, t)
       \/ \E n \in Names : AdminRename(i, n)

Failures ==
  \/ \E w \in Workers : PutFails(w) \/ Fault(w)
  \/ \E r \in Replicas : Crash(r)

Next ==
  \/ \E w \in Workers : Start(w) \/ Progress(w) \/ Sync(w)
  \/ \E m \in late : LateEnds(m)
  \/ Failures
  \/ Users
  \/ Administrators

Spec == Init /\ [][Next]_vars

(***************************************************************************)
(* Fairness.  Every CR is polled again (requeue or poll interval), a       *)
(* reconcile that has begun goes on, watch events arrive, and a request on *)
(* its way ends.  Users and administrators owe nothing; failures are       *)
(* bounded by MaxFaults, so that a behaviour has a last one.               *)
(***************************************************************************)
Fairness ==
  /\ \A w \in Workers : WF_vars(Start(w)) /\ WF_vars(Progress(w))
                          /\ WF_vars(Sync(w))
  /\ WF_vars(\E m \in late : LateEnds(m))

FairSpec == Spec /\ Fairness

-----------------------------------------------------------------------------
(***************************************************************************)
(* Properties.                                                             *)
(***************************************************************************)

PC == {"idle", "initialize", "observe", "addfinalizer", "update", "delete",
       "put", "status", "release"}

TypeOK ==
  /\ api \in [CRs -> CRObjects \cup {NoCR}]
  /\ informer \in [Workers -> CRObjects \cup {NoCR}]
  /\ obj \in [Workers -> CRObjects \cup {NoCR}]
  /\ pc \in [Workers -> PC]
  /\ synced \in [Workers -> BOOLEAN] /\ current \in [Workers -> BOOLEAN]
  /\ DOMAIN target = Workers
  /\ nextId \in Nat /\ DOMAIN roles \subseteq RoleIds \cap (1..nextId - 1)
  /\ owner \in [RoleIds -> CRs \cup {Nobody}]
  /\ stray \subseteq DOMAIN roles
  /\ \A m \in late : m.from \in CRs \cup {Nobody}
  /\ edits \in Nat
  /\ \A w \in Workers :
       /\ pc[w] # "idle" => obj[w] # NoCR
       /\ pc[w] = "put" => target[w].id \in 1..nextId - 1

(* The worker acts for the present incarnation of its CR. *)
Reconciles(w) == api[CR(w)] # NoCR /\ api[CR(w)].uid = obj[w].uid

(* resolveRole prefers the recorded id "for stability": once a CR has its
   finalizer its external-name is the id of a role, and as long as that role
   exists no PUT on behalf of the CR goes to any other, whatever
   administrators rename, whatever stale copy the worker started from and
   however many replicas run. *)
PinnedTarget ==
  /\ \A c \in CRs : api[c] # NoCR /\ api[c].finalizer =>
       api[c].extName \in Nat
  /\ \A w \in Workers : pc[w] = "put" /\ Reconciles(w) =>
       LET id == api[CR(w)].extName
       IN  id \in DOMAIN roles => target[w].id = id

(* Why.  A uid is used once; *)
UidsPast ==
  /\ \A c \in CRs : api[c] # NoCR => api[c].uid < edits
  /\ \A w \in Workers :
       /\ informer[w] # NoCR => informer[w].uid < edits
       /\ obj[w] # NoCR => obj[w].uid < edits

(* what counts as the latest version is the latest; *)
VersionsStand ==
  \A w \in Workers :
    /\ synced[w] => informer[w] = api[CR(w)]
    /\ current[w] =>
         /\ pc[w] # "idle"
         /\ api[CR(w)] # NoCR
         /\ api[CR(w)].uid = obj[w].uid
         /\ api[CR(w)].finalizer = obj[w].finalizer

(* a finalizer, without which nothing is marked as deleted, comes with the id
   of a role; *)
Pinned(o) ==
  /\ o.finalizer => o.extName \in 1..nextId - 1
  /\ o.deleting => o.finalizer

FinalizersPin ==
  /\ \A c \in CRs : api[c] # NoCR => Pinned(api[c])
  /\ \A w \in Workers :
       /\ informer[w] # NoCR => Pinned(informer[w])
       /\ obj[w] # NoCR => Pinned(obj[w])

(* a copy with a finalizer has the id on record, or that role is gone; *)
Agrees(o, c) ==
  api[c] # NoCR /\ o.uid = api[c].uid /\ o.finalizer =>
    /\ api[c].finalizer
    /\ o.extName = api[c].extName \/ api[c].extName \notin DOMAIN roles

CopiesAgree ==
  \A w \in Workers :
    /\ informer[w] # NoCR => Agrees(informer[w], CR(w))
    /\ obj[w] # NoCR => Agrees(obj[w], CR(w))

(* and nothing is PUT before the finalizer is there. *)
StagesInOrder ==
  \A w \in Workers :
    /\ pc[w] = "initialize" => obj[w].extName = Unset
    /\ pc[w] = "addfinalizer" =>
         ~obj[w].finalizer /\ obj[w].extName \in 1..nextId - 1
    /\ pc[w] \in {"update", "delete", "put"} => obj[w].finalizer

PinInv ==
  /\ TypeOK
  /\ UidsPast
  /\ VersionsStand
  /\ FinalizersPin
  /\ CopiesAgree
  /\ StagesInOrder
  /\ PinnedTarget

(* What a CR grants on i by a request that its controller saw succeed.  Of
   one that it gave up it can know nothing: Strapi may execute it after the
   wipe too, and nobody comes back to wipe again. *)
GrantedBy(c, i) == owner[i] = c /\ i \notin stray

(* Status says "cleared" only of a resource that is being deleted, still has
   its finalizer, and grants nothing on its recorded role, unless Strapi has
   executed a PUT there that the controller had given up: the flag survives
   crashes, conflicts and failed PUTs without ever running ahead of the wipe,
   which is what Observe relies on to report absence. *)
ClearedMeansWiped ==
  \A c \in CRs : api[c] # NoCR /\ api[c].cleared =>
    /\ api[c].deleting /\ api[c].finalizer
    /\ api[c].extName \in DOMAIN roles => ~GrantedBy(c, api[c].extName)

(* Why, with one process.  Nothing is cleared before it is deleted; *)
ClearedAreDeleted ==
  /\ \A c \in CRs : api[c] # NoCR /\ api[c].cleared => api[c].deleting
  /\ \A w \in Workers :
       /\ informer[w] # NoCR /\ informer[w].cleared => informer[w].deleting
       /\ obj[w] # NoCR /\ obj[w].cleared => obj[w].deleting

(* the latest version agrees with the CR in what deletion depends on, but for
   a wipe that is not on record yet; *)
CopiesCurrent ==
  \A w \in Workers : current[w] =>
    /\ api[CR(w)].deleting = obj[w].deleting
    /\ api[CR(w)].policy = obj[w].policy
    /\ pc[w] # "status" /\ obj[w].cleared => api[CR(w)].cleared

(* whoever acts on a deletion has it in the informer, *)
DeletionSeen ==
  \A w \in Workers :
    LET c == CR(w)
    IN  api[c] # NoCR /\ informer[w] # NoCR
          /\ (api[c].cleared \/ (current[w] /\ obj[w].deleting))
        => informer[w].deleting

(* so that a copy with a finalizer and no deletion is of a CR that is there
   and nobody starts to grant again after the wipe; *)
LiveCopy(o, c) ==
  o.finalizer /\ ~o.deleting => api[c] # NoCR /\ api[c].uid = o.uid

CopiesLive ==
  \A w \in Workers :
    /\ informer[w] # NoCR => LiveCopy(informer[w], CR(w))
    /\ obj[w] # NoCR => LiveCopy(obj[w], CR(w))
    /\ pc[w] # "idle" /\ api[CR(w)] # NoCR /\ api[CR(w)].cleared =>
         obj[w].deleting

(* the finalizer goes after the wipe or under a policy that keeps the
   permissions, a deletion has nothing to report before the wipe, and what is
   about to go on record has happened; *)
WipedFirst ==
  \A w \in Workers :
    /\ pc[w] = "release" =>
         obj[w].deleting /\ (ShouldDelete(obj[w]) => obj[w].cleared)
    /\ pc[w] \in {"addfinalizer", "update"} => ~obj[w].deleting
    /\ pc[w] = "status" /\ obj[w].deleting => obj[w].cleared
    /\ pc[w] = "status" /\ current[w] /\ obj[w].cleared =>
         LET id == api[CR(w)].extName
         IN  id \in DOMAIN roles => ~GrantedBy(CR(w), id)

(* and all that a CR grants, it grants on its recorded role. *)
GrantsOnRecord ==
  \A c \in CRs : api[c] # NoCR =>
    \A i \in RoleIds : GrantedBy(c, i) =>
      /\ api[c].finalizer
      /\ api[c].extName \in DOMAIN roles => i = api[c].extName

WipeInv ==
  /\ ClearedAreDeleted
  /\ CopiesCurrent
  /\ DeletionSeen
  /\ CopiesLive
  /\ WipedFirst
  /\ GrantsOnRecord
  /\ ClearedMeansWiped

(* "Delete means: clear the managed permissions on the role": when a CR whose
   policies include Delete disappears from the API server and its recorded
   role exists, no role is left with permissions one of its PUTs granted, but
   for PUTs that were executed after the controller gave them up. *)
NoOrphanGrants ==
  [][\A c \in CRs :
       /\ api[c] # NoCR /\ api'[c] = NoCR
       /\ ShouldDelete(api[c])
       /\ api[c].extName \in DOMAIN roles
       => \A i \in RoleIds : ~GrantedBy(c, i)]_vars

(* The record of a CR is durable: from the finalizer on its external-name and
   the finalizer stay as they are until the CR goes, although every reconcile
   computes the external-name anew from a copy of its own.  (Users who edit
   the annotation by hand are not modelled.) *)
RecordStands ==
  [][\A c \in CRs :
       /\ api[c] # NoCR /\ api[c].finalizer
       /\ api'[c] # NoCR
       => api'[c].finalizer /\ api'[c].extName = api[c].extName]_vars

(* What an administrator sees of a CR. *)
Phase(o) ==
  CASE o.cleared                                  -> "wiped"
    [] o.deleting /\ ~o.cleared                   -> "leaving"
    [] o.finalizer /\ ~o.deleting /\ ~o.cleared   -> "managed"
    [] OTHER                                      -> "new"

Life(o) ==
  IF o = NoCR
  THEN [phase |-> "absent", role |-> 0, keeps |-> FALSE]
  ELSE [phase |-> Phase(o),
        role  |-> IF o.finalizer THEN o.extName ELSE 0,
        keeps |-> ~ShouldDelete(o)]

(* The grants that Strapi may still execute for clients that gave up. *)
Pending == {<<m.from, m.id>> : m \in {n \in late : n.from # Nobody}}

Lifecycle == INSTANCE GrantLifecycle
  WITH life <- [c \in CRs |-> Life(api[c])], exists <- DOMAIN roles,
       pending <- Pending

(* Seen from outside every step of users, administrators, the reconciler and
   its failures is a step of the life cycle or nothing: one role is recorded
   and kept, grants go there, requests for them are not sent any more after the
   wipe (but one sent before and given up may still land), and only a CR that
   was wiped, or whose policy keeps the permissions, disappears with a role. *)
KeepsLifecycle == Lifecycle!Spec

Grants(tree) == {ActionString(k) : k \in Enabled(tree)}

InSync(c) ==
  \A i \in resolveRole(api[c]) :
    Grants(roles[i].perms) = Grants(ExpandPermissions(api[c].perms))

(* "This list is authoritative": once users and administrators leave it
   alone, the role of a live CR grants exactly the listed actions, whatever
   failed, crashed or arrived late on the way. *)
Converges ==
  \A c \in CRs :
    <>[](Live(c) /\ ShouldUpdate(api[c])
           /\ Cardinality(resolveRole(api[c])) = 1 => InSync(c))

(* A settled role is left alone: for a list that UpToDate can recognise the
   controller stops sending PUTs. *)
EventuallyQuiet ==
  \A w \in Workers :
    <>[](Live(CR(w)) /\ Settleable(api[CR(w)].perms) => pc[w] # "put")

(* A deleted CR does not stay forever while its role can be resolved. *)
Deleting(c) == api[c] # NoCR /\ api[c].deleting

DeletionDrains ==
  \A c \in CRs : []<>(Deleting(c) => resolveRole(api[c]) = {})

-----------------------------------------------------------------------------
(***************************************************************************)
(* Statements of the documentation that the code does not meet.            *)
(***************************************************************************)

(* "On the next deletion reconcile Observe uses it to report the external
   resource as gone, so the finalizer drains" (rolepermissions_types.go:57):
   a cleared CR disappears. *)
ClearedDrains ==
  \A c \in CRs : (api[c] # NoCR /\ api[c].cleared) ~> api[c] = NoCR

(* "Role identifies the users-permissions role to manage"
   (rolepermissions_types.go:28): PUTs go to the role the spec selects. *)
WritesSelectedRole ==
  \A w \in Workers :
    pc[w] = "put" => target[w].id \in FindRole(roles, obj[w].role)

(* "This resource manages the role's permission set, not its lifecycle"
   (rolepermissions_types.go:31): only administrators change the name of a
   role. *)
NamesLeftAlone ==
  [][\A i \in DOMAIN roles \cap DOMAIN roles' :
       roles'[i].name # roles[i].name => admin' # admin]_vars
=============================================================================
