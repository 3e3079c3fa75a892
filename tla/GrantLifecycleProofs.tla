------------------------ MODULE GrantLifecycleProofs ------------------------
(***************************************************************************)
(* Proof that the controller, with a single process, implements the life   *)
(* cycle of GrantLifecycle for any CRs, roles, specs and administrators.   *)
(* Every step of Next is taken in turn: those that write to the API server *)
(* move one CR along, those that write to Strapi grant, lose or remove,    *)
(* and the others are not seen.                                            *)
(***************************************************************************)
EXTENDS RoleDeletionProofs

-----------------------------------------------------------------------------
(* The mapping. *)

Lives == [c \in CRs |-> Life(api[c])]

(* What is seen of an object, by its flags. *)
LEMMA LifeOf ==
  ASSUME NEW o \in CRObjects, NEW k, k = ~ShouldDelete(o)
  PROVE  /\ ~o.finalizer /\ ~o.deleting /\ ~o.cleared =>
              Life(o) = [phase |-> "new", role |-> 0, keeps |-> k]
         /\ o.finalizer /\ ~o.deleting /\ ~o.cleared =>
              Life(o) = [phase |-> "managed", role |-> o.extName, keeps |-> k]
         /\ o.finalizer /\ o.deleting /\ ~o.cleared =>
              Life(o) = [phase |-> "leaving", role |-> o.extName, keeps |-> k]
         /\ o.finalizer /\ o.deleting /\ o.cleared =>
              Life(o) = [phase |-> "wiped", role |-> o.extName, keeps |-> k]
<1>1. Life(o) = [phase |-> Phase(o),
                 role  |-> IF o.finalizer THEN o.extName ELSE 0,
                 keeps |-> k]
  BY NoCRAssumption DEF Life
<1>2. /\ ~o.finalizer /\ ~o.deleting /\ ~o.cleared => Phase(o) = "new"
      /\ o.finalizer /\ ~o.deleting /\ ~o.cleared => Phase(o) = "managed"
      /\ o.finalizer /\ o.deleting /\ ~o.cleared => Phase(o) = "leaving"
      /\ o.finalizer /\ o.deleting /\ o.cleared => Phase(o) = "wiped"
  BY DEF Phase
<1> QED
  BY <1>1, <1>2

(* A CR is deleted only with a finalizer, and cleared only when deleted. *)
LEMMA Ordered ==
  ASSUME PinInv, WipeInv, NEW c \in CRs, api[c] # NoCR
  PROVE  /\ api[c] \in CRObjects
         /\ api[c].deleting => api[c].finalizer
         /\ api[c].cleared => api[c].deleting
         /\ api[c].finalizer => api[c].extName \in 1..nextId - 1
BY DEF PinInv, TypeOK, FinalizersPin, Pinned, WipeInv, ClearedAreDeleted

(* A write to one CR moves that CR. *)
LEMMA OneMoves ==
  ASSUME PinInv, NEW c \in CRs, NEW n, api' = [api EXCEPT ![c] = n]
  PROVE  Lives' = [Lives EXCEPT ![c] = Life(n)] /\ Lives[c] = Life(api[c])
BY DEF Lives, PinInv, TypeOK

(* What is seen of Strapi, and of the requests on their way there. *)
LEMMA StrapiSeen ==
  /\ UNCHANGED roles => UNCHANGED (DOMAIN roles)
  /\ UNCHANGED late => UNCHANGED Pending
BY DEF Pending

(* Seen as a step of the life cycle, when Strapi is left alone. *)
LEMMA MoveSeen ==
  ASSUME NEW c \in CRs, NEW l, Lives' = [Lives EXCEPT ![c] = l],
         UNCHANGED <<roles, owner, stray, late>>
  PROVE  Lifecycle!Becomes(c, l)
<1>1. (DOMAIN roles)' = DOMAIN roles /\ owner' = owner /\ stray' = stray
      /\ Pending' = Pending
  BY StrapiSeen
<1> QED
  BY <1>1, Zenon DEF Lifecycle!Becomes, Lives

(* Nothing exists at first. *)
LEMMA InitLives == Init => Lifecycle!Init
<1> SUFFICES ASSUME Init PROVE Lifecycle!Init
  OBVIOUS
<1>1. Lives = [c \in CRs |-> Life(NoCR)]
  BY DEF Init, Lives
<1>2. Life(NoCR) = [phase |-> "absent", role |-> 0, keeps |-> FALSE]
  BY DEF Life
<1>3. DOMAIN roles \subseteq RoleIds
  BY FirstIds DEF Init
<1> QED
  BY <1>1, <1>2, <1>3
  DEF Init, Lifecycle!Init, Lifecycle!Absent, Lifecycle!NoRole, Lives, Pending

(* Strapi's ids are bounded, as those of the life cycle are. *)
IdsBounded == nextId \in 1..MaxRoles + 1

(* AdminCreate stays below the bound. *)
LEMMA BoundKept == Spec => []IdsBounded
<1>1. Init => IdsBounded
  <2>1. PICK n \in 0..MaxRoles : DOMAIN InitRoles = 1..n
    BY RolesAssumption
  <2>2. n \in Nat /\ MaxRoles \in Nat /\ n <= MaxRoles
    BY RolesAssumption
  <2>3. Cardinality(DOMAIN InitRoles) = n
    BY <2>1, <2>2, FS_Interval
  <2>4. n + 1 \in 1..MaxRoles + 1
    BY <2>2
  <2> QED
    BY <2>3, <2>4, Zenon DEF Init, IdsBounded
<1>2. ASSUME IdsBounded, [Next]_vars PROVE IdsBounded'
  <2>1. ASSUME NEW n \in Names, AdminCreate(n) PROVE IdsBounded'
    BY <1>2, <2>1, RolesAssumption DEF AdminCreate, RoleIds, IdsBounded
  <2>2. ASSUME nextId' = nextId PROVE IdsBounded'
    BY <1>2, <2>2 DEF IdsBounded
  <2>3. ASSUME NEW w \in Workers, Start(w) \/ Progress(w) \/ Sync(w)
        PROVE  nextId' = nextId
    BY <2>3
    DEF Start, Sync, Progress, Initialize, Observe, AddFinalizer, Resolve,
        PutDone, PutMissing, WriteStatus, Release, strapiVars
  <2>4. CASE Failures \/ UNCHANGED vars \/ \E m \in late : LateEnds(m)
    <3>1. nextId' = nextId
      BY <2>4, Zenon
      DEF LateEnds, Failures, PutFails, Fault, Crash, strapiVars, vars
    <3> QED
      BY <2>2, <3>1
  <2>5. ASSUME Users PROVE nextId' = nextId
    BY <2>5, Zenon DEF Users, UserCreate, UserEdit, UserDelete, UserWrites
  <2>6. ASSUME NEW i \in RoleIds,
               \/ AdminRemove(i)
               \/ \E t \in AdminTrees : AdminSetPerms(i, t)
               \/ \E n \in Names : AdminRename(i, n)
        PROVE  nextId' = nextId
    BY <2>6 DEF AdminRemove, AdminSetPerms, AdminRename
  <2> QED
    BY <1>2, <2>1, <2>2, <2>3, <2>4, <2>5, <2>6 DEF Next, Administrators
<1> QED
  BY <1>1, <1>2, PTL DEF Spec

-----------------------------------------------------------------------------
(* Writes to the API server: one CR moves along. *)

(* The initializer is not seen, and AddFinalizer records the role. *)
LEMMA AdoptsRole ==
  ASSUME PinInv, WipeInv, IdsBounded, NEW w \in Workers, current[w],
         Initialize(w) \/ AddFinalizer(w)
  PROVE  [Lifecycle!Next]_(Lifecycle!lifeVars)
<1> DEFINE c == CR(w)
           k == ~ShouldDelete(api[c])
<1>1. /\ obj[w] \in CRObjects /\ ~obj[w].finalizer /\ ~obj[w].deleting
      /\ c \in CRs /\ api[c] \in CRObjects /\ api[c] # NoCR /\ ~api[c].finalizer
  BY UpdatesComeFirst, NoCRAssumption
<1>2. PICK n \in CRObjects :
        /\ api' = [api EXCEPT ![c] = n]
        /\ n.finalizer <=> AddFinalizer(w)
        /\ AddFinalizer(w) => n.extName = obj[w].extName
        /\ n.deleting = obj[w].deleting /\ n.policy = obj[w].policy
        /\ n.cleared = obj[w].cleared
  BY UpdatesComeFirst
<1>3. ~api[c].deleting /\ ~api[c].cleared /\ ~n.deleting /\ ~n.cleared
  BY <1>1, <1>2, NoCRAssumption, Ordered DEF WipeInv, ClearedAreDeleted
<1>4. k = ~ShouldDelete(n)
  BY <1>2 DEF WipeInv, CopiesCurrent, ShouldDelete
<1>5. Lives' = [Lives EXCEPT ![c] = Life(n)] /\ Lives[c] = Life(api[c])
  BY <1>1, <1>2, OneMoves
<1>6. Life(api[c]) = [phase |-> "new", role |-> 0, keeps |-> k]
  BY <1>1, <1>3, LifeOf
<1>7. UNCHANGED <<roles, owner, stray, late>>
  BY DEF Initialize, AddFinalizer, strapiVars
<1> HIDE DEF k
<1>8. CASE AddFinalizer(w)
  <2>1. Life(n) = [phase |-> "managed", role |-> n.extName, keeps |-> k]
    BY <1>2, <1>3, <1>4, <1>8, LifeOf
  <2>2. n.extName \in RoleIds
    <3>1. obj[w].extName \in 1..nextId - 1
      BY <1>8 DEF AddFinalizer, PinInv, StagesInOrder
    <3> QED
      BY <1>2, <1>8, <3>1, RolesAssumption DEF IdsBounded, RoleIds
  <2>3. Lifecycle!Adopt(c, n.extName)
    <3>1. [phase |-> "managed", role |-> n.extName, keeps |-> Lives[c].keeps]
            = Life(n)
      BY <1>5, <1>6, <2>1
    <3>2. Lives[c].phase = "new"
      BY <1>5, <1>6
    <3>3. Lifecycle!Becomes(c, Life(n))
      BY <1>1, <1>5, <1>7, MoveSeen
    <3> QED
      BY <3>1, <3>2, <3>3, Zenon DEF Lifecycle!Adopt, Lives
  <2> QED
    BY <1>1, <2>2, <2>3 DEF Lifecycle!Next
<1>9. CASE ~AddFinalizer(w)
  <2>1. Life(n) = Life(api[c])
    BY <1>2, <1>3, <1>4, <1>6, <1>9, LifeOf
  <2>2. Lives' = Lives
    BY <1>1, <1>5, <2>1 DEF Lives
  <2> QED
    BY <1>7, <2>2, StrapiSeen DEF Lifecycle!lifeVars, Lives
<1> QED
  BY <1>8, <1>9

(* The status write of a wipe is the end of the grant; a flag that is on
   record stays. *)
LEMMA WipesRole ==
  ASSUME PinInv, WipeInv, NEW w \in Workers, WriteStatus(w)
  PROVE  [Lifecycle!Next]_(Lifecycle!lifeVars)
<1> DEFINE c == CR(w)
           o == api[c]
           n == Reported(o, obj[w].cleared)
           k == ~ShouldDelete(o)
<1>1. UNCHANGED <<roles, owner, stray, late>>
  BY DEF WriteStatus, strapiVars
<1>2. CASE api' = api
  BY <1>1, <1>2, StrapiSeen DEF Lifecycle!lifeVars
<1>3. CASE /\ current[w] /\ pc[w] = "status" /\ obj[w] \in CRObjects
           /\ o \in CRObjects
           /\ api' = [api EXCEPT ![c] = n]
  <2>1. /\ c \in CRs /\ o # NoCR /\ obj[w].cleared \in BOOLEAN
        /\ o.cleared \in BOOLEAN
    BY <1>3, WorkerCR, Fields
  <2>2. /\ n.finalizer = o.finalizer /\ n.extName = o.extName
        /\ n.deleting = o.deleting /\ n.policy = o.policy
        /\ n.cleared = obj[w].cleared
    BY <1>3, ReportKeeps
  <2>3. n \in CRObjects
    BY <1>3, <2>1 DEF CRObjects, Reported
  <2>4. Lives' = [Lives EXCEPT ![c] = Life(n)] /\ Lives[c] = Life(o)
    BY <1>3, <2>1, OneMoves
  <2>5. k = ~ShouldDelete(n)
    BY <2>2 DEF ShouldDelete
  <2> HIDE DEF n, k
  <2>6. CASE obj[w].cleared = o.cleared
    <3>1. Life(n) = Life(o)
      BY <1>3, <2>1, <2>2, <2>3, <2>6, NoCRAssumption
      DEF Life, Phase, ShouldDelete
    <3>2. Lives' = Lives
      BY <2>1, <2>4, <3>1 DEF Lives
    <3> QED
      BY <1>1, <3>2, StrapiSeen DEF Lifecycle!lifeVars, Lives
  <2>7. CASE obj[w].cleared # o.cleared
    <3>1. obj[w].cleared /\ ~o.cleared
      BY <1>3, <2>1, <2>7 DEF WipeInv, CopiesLive, WipedFirst
    <3>2. o.deleting /\ o.finalizer
      BY <1>3, <2>1, <3>1, NoCRAssumption, Ordered
      DEF WipeInv, ClearedAreDeleted, CopiesCurrent
    <3>3. Life(o) = [phase |-> "leaving", role |-> o.extName, keeps |-> k]
      BY <1>3, <3>1, <3>2, LifeOf DEF k
    <3>4. Life(n) = [phase |-> "wiped", role |-> o.extName, keeps |-> k]
      BY <2>2, <2>3, <2>5, <3>1, <3>2, LifeOf
    <3>5. o.extName \in DOMAIN roles => ~GrantedBy(c, o.extName)
      BY <1>3, <3>1 DEF WipeInv, WipedFirst
    <3>6. Lifecycle!Wiped(c)
      <4>1. /\ [Lives[c] EXCEPT !.phase = "wiped"] = Life(n)
            /\ Lives[c].phase = "leaving" /\ Lives[c].role = o.extName
        BY <2>4, <3>3, <3>4
      <4>2. Lives[c].role \in DOMAIN roles => ~Lifecycle!Grants(c, Lives[c].role)
        BY <3>5, <4>1 DEF GrantedBy, Lifecycle!Grants
      <4>3. Lifecycle!Becomes(c, Life(n))
        BY <1>1, <2>1, <2>4, MoveSeen
      <4> QED
        BY <4>1, <4>2, <4>3, Zenon DEF Lifecycle!Wiped, Lives
    <3> QED
      BY <2>1, <3>6 DEF Lifecycle!Next
  <2> QED
    BY <2>6, <2>7
<1> QED
  BY <1>2, <1>3, ApiWrites

(* The finalizer goes when the wipe is on record or under another policy. *)
LEMMA ReleasesRole ==
  ASSUME PinInv, WipeInv, NEW w \in Workers, current[w], Release(w)
  PROVE  [Lifecycle!Next]_(Lifecycle!lifeVars)
<1> DEFINE c == CR(w)
           o == api[c]
           k == ~ShouldDelete(o)
<1>1. /\ c \in CRs /\ o # NoCR /\ pc[w] = "release"
      /\ api' = [api EXCEPT ![c] = NoCR]
      /\ UNCHANGED <<roles, owner, stray, late>>
  BY WorkerCR DEF Release, strapiVars, PinInv, VersionsStand
<1>2. o \in CRObjects /\ o.deleting /\ o.finalizer
  BY <1>1, Ordered DEF WipeInv, CopiesCurrent, WipedFirst
<1>3. k \/ o.cleared
  BY <1>1 DEF WipeInv, CopiesCurrent, WipedFirst, ShouldDelete
<1>4. Lives' = [Lives EXCEPT ![c] = Life(NoCR)] /\ Lives[c] = Life(o)
  BY <1>1, OneMoves
<1>5. Life(NoCR) = Lifecycle!Absent
  BY DEF Life, Lifecycle!Absent, Lifecycle!NoRole
<1>6. Lifecycle!Becomes(c, Lifecycle!Absent)
  <2>1. Lives' = [Lives EXCEPT ![c] = Lifecycle!Absent]
    BY <1>4, <1>5, Zenon
  <2> QED
    BY <1>1, <2>1, MoveSeen
<1>7. CASE o.cleared
  <2>1. /\ Lives[c].phase = "wiped" /\ Lives[c].role = o.extName
    BY <1>2, <1>4, <1>7, LifeOf
  <2>2. o.extName \in DOMAIN roles => \A i \in RoleIds : ~GrantedBy(c, i)
    BY <1>1, <1>7 DEF WipeInv, ClearedMeansWiped, GrantsOnRecord
  <2>3. Lives[c].role \in DOMAIN roles =>
          \A i \in RoleIds : ~Lifecycle!Grants(c, i)
    BY <2>1, <2>2 DEF GrantedBy, Lifecycle!Grants
  <2>4. Lifecycle!Go(c)
    BY <1>6, <2>1, <2>3, Zenon DEF Lifecycle!Go, Lives
  <2> QED
    BY <1>1, <2>4 DEF Lifecycle!Next
<1>8. CASE ~o.cleared
  <2>1. k
    BY <1>3, <1>8
  <2>2. Lives[c] = [phase |-> "leaving", role |-> o.extName, keeps |-> TRUE]
    BY <1>2, <1>4, <1>8, <2>1, LifeOf
  <2>3. Lives[c].phase \in {"leaving", "wiped"} /\ Lives[c].keeps
    BY <2>2
  <2>4. Lifecycle!Go(c)
    BY <1>6, <2>3, Zenon DEF Lifecycle!Go, Lives
  <2> QED
    BY <1>1, <2>4 DEF Lifecycle!Next
<1> QED
  BY <1>7, <1>8

(* What users do: create, edit, and delete before or after the finalizer. *)
LEMMA UsersSeen ==
  ASSUME PinInv, WipeInv, Users
  PROVE  [Lifecycle!Next]_(Lifecycle!lifeVars)
<1>1. ASSUME NEW c \in CRs, NEW s \in Specs, UserCreate(c, s)
      PROVE  Lifecycle!Next
  <2> DEFINE k == ~ShouldDelete(Created(s, edits))
  <2>1. /\ api[c] = NoCR /\ edits \in Nat
        /\ api' = [api EXCEPT ![c] = Created(s, edits)]
    BY <1>1, ApiWrites
  <2>2. Created(s, edits) \in CRObjects
    BY <2>1, Creates
  <2>3. /\ ~Created(s, edits).finalizer /\ ~Created(s, edits).deleting
        /\ ~Created(s, edits).cleared
    BY DEF Created
  <2>4. Life(Created(s, edits)) = [phase |-> "new", role |-> 0, keeps |-> k]
    BY <2>2, <2>3, LifeOf
  <2>5. /\ Lives' = [Lives EXCEPT ![c] = Life(Created(s, edits))]
        /\ Lives[c] = Life(NoCR)
    BY <2>1, OneMoves
  <2>6. Lives[c].phase = "absent"
    BY <2>5 DEF Life
  <2>7. /\ owner' = [i \in RoleIds |-> IF owner[i] = c THEN Nobody ELSE owner[i]]
        /\ (DOMAIN roles)' = DOMAIN roles /\ stray' = stray /\ Pending' = Pending
    BY <1>1, StrapiSeen DEF UserCreate, UserWrites
  <2>8. k \in BOOLEAN
    BY DEF ShouldDelete
  <2> HIDE DEF k
  <2>9. Lifecycle!Create(c, k)
    <3>1. Lives' = [Lives EXCEPT ![c] = [phase |-> "new", role |-> 0, keeps |-> k]]
      BY <2>4, <2>5, Zenon
    <3> QED
      BY <2>6, <2>7, <3>1, Zenon
      DEF Lifecycle!Create, Lifecycle!NoRole, Lives
  <2> QED
    BY <2>8, <2>9 DEF Lifecycle!Next
<1>2. ASSUME NEW c \in CRs, NEW s \in Specs, UserEdit(c, s)
      PROVE  Lifecycle!Next
  <2> DEFINE o == api[c]
             n == Respecified(o, s)
             k == ~ShouldDelete(n)
  <2>1. /\ o \in CRObjects /\ o # NoCR /\ api' = [api EXCEPT ![c] = n]
    BY <1>2, ApiWrites, NoCRAssumption
  <2>2. /\ n.finalizer = o.finalizer /\ n.extName = o.extName
        /\ n.deleting = o.deleting /\ n.cleared = o.cleared /\ n # NoCR
    BY <2>1, EditKeeps
  <2>3. Lives' = [Lives EXCEPT ![c] = Life(n)] /\ Lives[c] = Life(o)
    BY <2>1, OneMoves
  <2>4. UNCHANGED <<roles, owner, stray, late>>
    BY <1>2 DEF UserEdit, UserWrites
  <2>5. k \in BOOLEAN
    BY DEF ShouldDelete
  <2>6. /\ Life(n) = [phase |-> Phase(n), role |-> Life(o).role, keeps |-> k]
        /\ Life(o) = [phase |-> Phase(o), role |-> Life(o).role,
                      keeps |-> ~ShouldDelete(o)]
    BY <2>1, <2>2 DEF Life
  <2>7. Phase(n) = Phase(o) /\ Phase(o) # "absent"
    BY <2>2 DEF Phase
  <2> HIDE DEF n, o, k
  <2>8. Lives[c].phase # "absent"
    BY <2>3, <2>6, <2>7
  <2>9. [Lives[c] EXCEPT !.keeps = k] = Life(n)
    BY <2>3, <2>6, <2>7
  <2>10. Lifecycle!Becomes(c, Life(n))
    BY <2>3, <2>4, MoveSeen
  <2>11. Lifecycle!Change(c, k)
    BY <2>8, <2>9, <2>10, Zenon DEF Lifecycle!Change, Lives
  <2> QED
    BY <2>5, <2>11 DEF Lifecycle!Next
<1>3. ASSUME NEW c \in CRs, UserDelete(c)
      PROVE  Lifecycle!Next
  <2> DEFINE o == api[c]
             k == ~ShouldDelete(o)
  <2>1. /\ o \in CRObjects /\ o # NoCR /\ ~o.deleting
        /\ api' = [api EXCEPT ![c] = IF o.finalizer THEN Condemned(o) ELSE NoCR]
    BY <1>3, ApiWrites, NoCRAssumption
  <2>2. ~o.cleared
    BY <2>1, Ordered
  <2>3. UNCHANGED <<roles, owner, stray, late>>
    BY <1>3 DEF UserDelete, UserWrites
  <2>4. CASE o.finalizer
    <3>1. /\ Lives' = [Lives EXCEPT ![c] = Life(Condemned(o))]
          /\ Lives[c] = Life(o)
      BY <2>1, <2>4, OneMoves
    <3>2. /\ Condemned(o).finalizer /\ Condemned(o).extName = o.extName
          /\ Condemned(o).deleting /\ ~Condemned(o).cleared
          /\ k = ~ShouldDelete(Condemned(o))
      BY <2>1, <2>2, <2>4, DeletionKeeps DEF ShouldDelete
    <3>3. Condemned(o) \in CRObjects
      BY <2>1 DEF Condemned, CRObjects
    <3> HIDE DEF k
    <3>4. Life(Condemned(o)) = [phase |-> "leaving", role |-> o.extName, keeps |-> k]
      BY <3>2, <3>3, LifeOf
    <3>5. Life(o) = [phase |-> "managed", role |-> o.extName, keeps |-> k]
      BY <2>1, <2>2, <2>4, LifeOf DEF k
    <3>6. /\ Lives[c].phase = "managed"
          /\ [Lives[c] EXCEPT !.phase = "leaving"] = Life(Condemned(o))
      BY <3>1, <3>4, <3>5
    <3>7. Lifecycle!Becomes(c, Life(Condemned(o)))
      BY <2>3, <3>1, MoveSeen
    <3>8. Lifecycle!Leave(c)
      BY <3>6, <3>7, Zenon DEF Lifecycle!Leave, Lives
    <3> QED
      BY <3>8 DEF Lifecycle!Next
  <2>5. CASE ~o.finalizer
    <3>1. Lives' = [Lives EXCEPT ![c] = Life(NoCR)] /\ Lives[c] = Life(o)
      BY <2>1, <2>5, OneMoves
    <3>2. Life(NoCR) = Lifecycle!Absent
      BY DEF Life, Lifecycle!Absent, Lifecycle!NoRole
    <3>3. Lives[c].phase = "new"
      BY <2>1, <2>2, <2>5, <3>1, LifeOf
    <3>4. Lives' = [Lives EXCEPT ![c] = Lifecycle!Absent]
      BY <3>1, <3>2, Zenon
    <3>5. Lifecycle!Becomes(c, Lifecycle!Absent)
      BY <2>3, <3>4, MoveSeen
    <3>6. Lifecycle!Withdraw(c)
      BY <3>3, <3>5, Zenon DEF Lifecycle!Withdraw, Lives
    <3> QED
      BY <3>6 DEF Lifecycle!Next
  <2> QED
    BY <2>4, <2>5
<1> QED
  BY <1>1, <1>2, <1>3 DEF Users

-----------------------------------------------------------------------------
(* Writes to Strapi: grants go to the recorded role, and come before the
   wipe. *)

(* While an update is about to be PUT, its CR may grant on the target. *)
LEMMA MayPut ==
  ASSUME PinInv, WipeInv, NEW w \in Workers, pc[w] = "put", ~obj[w].deleting
  PROVE  CR(w) \in CRs /\ Lifecycle!MayGrant(CR(w), target[w].id)
<1> DEFINE c == CR(w)
           o == api[c]
           t == target[w].id
<1>1. /\ c \in CRs /\ obj[w] \in CRObjects /\ obj[w] # NoCR /\ obj[w].finalizer
      /\ Agrees(obj[w], c) /\ LiveCopy(obj[w], c)
  BY Facts, Fields
  DEF PinInv, StagesInOrder, CopiesAgree, WipeInv, CopiesLive
<1>2. o # NoCR /\ o.uid = obj[w].uid
  BY <1>1 DEF LiveCopy
<1>3. /\ o \in CRObjects /\ o.finalizer /\ ~o.cleared
      /\ o.extName \in DOMAIN roles => t = o.extName
  BY <1>1, <1>2, Ordered
  DEF Agrees, PinInv, PinnedTarget, Reconciles, WipeInv, CopiesLive
<1>4. Life(o).phase \in {"managed", "leaving"} /\ Life(o).role = o.extName
  BY <1>3, LifeOf, Fields
<1>5. Lives[c] = Life(o)
  BY <1>1 DEF Lives
<1>6. /\ Lives[c].phase \in {"managed", "leaving"}
      /\ Lives[c].role \in DOMAIN roles => t = Lives[c].role
  BY <1>3, <1>4, <1>5
<1> QED
  BY <1>1, <1>6, Zenon DEF Lifecycle!MayGrant, Lives

(* A PUT that is answered grants, or wipes. *)
LEMMA PutSeen ==
  ASSUME PinInv, WipeInv, NEW w \in Workers, PutDone(w)
  PROVE  Lifecycle!Next
<1> DEFINE t == target[w].id
<1>1. t \in DOMAIN roles /\ t \in RoleIds /\ pc[w] = "put"
  BY DEF PutDone, Execute, Body, PinInv, TypeOK
<1>2. /\ (DOMAIN roles)' = DOMAIN roles /\ stray' = stray \ {t}
      /\ owner' = [owner EXCEPT ![t] = Grantor(w)]
      /\ api' = api /\ Pending' = Pending
  BY StrapiSeen DEF PutDone, Execute, Body, k8sVars
<1>3. Lives' = Lives
  BY <1>2 DEF Lives
<1>4. CASE obj[w].deleting
  <2>1. owner' = [owner EXCEPT ![t] = Nobody]
    BY <1>2, <1>4 DEF Grantor
  <2>2. Lifecycle!Lose(t)
    BY <1>1, <1>2, <1>3, <2>1, Zenon DEF Lifecycle!Lose, Lives
  <2> QED
    BY <1>1, <2>2 DEF Lifecycle!Next
<1>5. CASE ~obj[w].deleting
  <2>1. owner' = [owner EXCEPT ![t] = CR(w)]
    BY <1>2, <1>5 DEF Grantor
  <2>2. CR(w) \in CRs /\ Lifecycle!MayGrant(CR(w), t)
    BY <1>1, <1>5, MayPut
  <2>3. Lifecycle!Grant(CR(w), t)
    BY <1>1, <1>2, <1>3, <2>1, <2>2, Zenon DEF Lifecycle!Grant, Lives
  <2> QED
    BY <1>1, <2>2, <2>3 DEF Lifecycle!Next
<1> QED
  BY <1>4, <1>5

(* Requests given up leave grants pending that might have been made, and
   wipes, which are not counted. *)
LEMMA FailuresSeen ==
  ASSUME PinInv, WipeInv, Failures
  PROVE  [Lifecycle!Next]_(Lifecycle!lifeVars)
<1>1. UNCHANGED <<api, roles, owner, stray>> /\ late \subseteq late'
  BY DEF Failures, PutFails, Fault, Crash, Abort, k8sVars, strapiVars
<1>2. \A m \in late' \ late : \E w \in Workers : pc[w] = "put" /\ m = Body(w)
  BY DEF Failures, PutFails, Fault, Crash, strapiVars
<1>3. Pending \subseteq Pending'
  BY <1>1 DEF Pending
<1>4. ASSUME NEW p \in Pending' \ Pending
      PROVE  p[1] \in CRs /\ Lifecycle!MayGrant(p[1], p[2])
  <2>1. PICK m \in late' : m.from # Nobody /\ p = <<m.from, m.id>>
    BY <1>4 DEF Pending
  <2>2. m \notin late
    BY <1>4, <2>1 DEF Pending
  <2>3. PICK w \in Workers : pc[w] = "put" /\ m = Body(w)
    BY <1>2, <2>1, <2>2
  <2>4. m.from = Grantor(w) /\ m.id = target[w].id
    BY <2>3 DEF Body
  <2>5. ~obj[w].deleting /\ m.from = CR(w)
    BY <2>1, <2>4 DEF Grantor
  <2>6. CR(w) \in CRs /\ Lifecycle!MayGrant(CR(w), target[w].id)
    BY <2>3, <2>5, MayPut
  <2>7. p[1] = CR(w) /\ p[2] = target[w].id
    BY <2>1, <2>4, <2>5
  <2> QED
    BY <2>6, <2>7
<1>5. (DOMAIN roles)' = DOMAIN roles /\ Lives' = Lives
  BY <1>1 DEF Lives
<1>6. Lifecycle!GiveUp
  BY <1>1, <1>3, <1>4, <1>5, Zenon DEF Lifecycle!GiveUp, Lives
<1> QED
  BY <1>6 DEF Lifecycle!Next

(* A request that has ended is not pending, unless there is another one like
   it. *)
LEMMA Ends ==
  ASSUME NEW m \in late, late' = late \ {m}
  PROVE  /\ m.from = Nobody => Pending' = Pending
         /\ m.from # Nobody =>
              /\ <<m.from, m.id>> \in Pending
              /\ Pending' \in {Pending, Pending \ {<<m.from, m.id>>}}
<1>1. Pending' \subseteq Pending
  BY DEF Pending
<1>2. \A p \in Pending \ Pending' : p = <<m.from, m.id>> /\ m.from # Nobody
  BY DEF Pending
<1>3. m.from # Nobody => <<m.from, m.id>> \in Pending
  BY DEF Pending
<1> QED
  BY <1>1, <1>2, <1>3

(* Late requests land or are lost; administrators take grants away, remove
   roles, and bring no recorded one back. *)
LEMMA OutsideSeen ==
  ASSUME PinInv, WipeInv, (\E m \in late : LateEnds(m)) \/ Administrators
  PROVE  [Lifecycle!Next]_(Lifecycle!lifeVars)
<1>0. /\ DOMAIN roles \subseteq RoleIds \cap (1..nextId - 1) /\ nextId \in Nat
  BY DEF PinInv, TypeOK
<1>1. Lives' = Lives
  <2>1. api' = api
    BY DEF LateEnds, Administrators, AdminCreate, AdminRemove, AdminSetPerms,
           AdminRename, Admin, k8sVars
  <2> QED
    BY <2>1 DEF Lives
<1>2. ASSUME NEW i \in DOMAIN roles, owner' = [owner EXCEPT ![i] = Nobody],
             stray' = stray \ {i}, (DOMAIN roles)' = DOMAIN roles,
             Pending' = Pending
      PROVE  Lifecycle!Next
  <2>1. Lifecycle!Lose(i)
    BY <1>1, <1>2, Zenon DEF Lifecycle!Lose, Lives
  <2> QED
    BY <1>0, <2>1 DEF Lifecycle!Next
<1>3. ASSUME UNCHANGED <<owner, stray>>, (DOMAIN roles)' = DOMAIN roles,
             Pending' = Pending
      PROVE  UNCHANGED (Lifecycle!lifeVars)
  BY <1>1, <1>3, Zenon DEF Lifecycle!lifeVars, Lives
<1>4. ASSUME NEW m \in late, LateEnds(m)
      PROVE  [Lifecycle!Next]_(Lifecycle!lifeVars)
  <2>1. late' = late \ {m} /\ m.from \in CRs \cup {Nobody}
    BY <1>4 DEF LateEnds, PinInv, TypeOK
  <2>2. CASE UNCHANGED <<roles, owner, stray>>
    <3>1. CASE Pending' = Pending
      BY <1>3, <2>2, <3>1
    <3>2. CASE Pending' # Pending
      <4>1. /\ <<m.from, m.id>> \in Pending
            /\ Pending' = Pending \ {<<m.from, m.id>>}
        BY <2>1, <3>2, Ends
      <4>2. (DOMAIN roles)' = DOMAIN roles
        BY <2>2
      <4>3. Lifecycle!Lost(<<m.from, m.id>>)
        BY <1>1, <2>2, <4>1, <4>2, Zenon DEF Lifecycle!Lost, Lives
      <4> QED
        BY <4>1, <4>3 DEF Lifecycle!Next
    <3> QED
      BY <3>1, <3>2
  <2>3. CASE /\ Execute(m)
             /\ stray' = IF m.from = Nobody THEN stray \ {m.id}
                                             ELSE stray \cup {m.id}
    <3>1. /\ m.id \in DOMAIN roles /\ (DOMAIN roles)' = DOMAIN roles
          /\ owner' = [owner EXCEPT ![m.id] = m.from]
      BY <2>3 DEF Execute
    <3>2. CASE m.from = Nobody
      BY <1>2, <2>1, <2>3, <3>1, <3>2, Ends
    <3>3. CASE m.from # Nobody
      <4>1. /\ <<m.from, m.id>> \in Pending
            /\ Pending' \in {Pending, Pending \ {<<m.from, m.id>>}}
        BY <2>1, <3>3, Ends
      <4>2. stray' = stray \cup {m.id}
        BY <2>3, <3>3
      <4>3. Lifecycle!Land(m.from, m.id)
        BY <1>1, <3>1, <4>1, <4>2, Zenon DEF Lifecycle!Land, Lives
      <4>4. m.from \in CRs /\ m.id \in RoleIds
        BY <1>0, <2>1, <3>1, <3>3
      <4> QED
        BY <4>3, <4>4 DEF Lifecycle!Next
    <3> QED
      BY <3>2, <3>3
  <2> QED
    BY <1>4, <2>2, <2>3 DEF LateEnds
<1>5. ASSUME NEW i \in RoleIds, NEW t \in AdminTrees, AdminSetPerms(i, t)
      PROVE  Lifecycle!Next
  <2>1. /\ i \in DOMAIN roles /\ owner' = [owner EXCEPT ![i] = Nobody]
        /\ stray' = stray \ {i}
        /\ (DOMAIN roles)' = DOMAIN roles /\ Pending' = Pending
    BY <1>5, StrapiSeen DEF AdminSetPerms, Admin
  <2> QED
    BY <1>2, <2>1
<1>6. ASSUME NEW i \in RoleIds, NEW n \in Names, AdminRename(i, n)
      PROVE  UNCHANGED (Lifecycle!lifeVars)
  <2>1. /\ UNCHANGED <<owner, stray>>
        /\ (DOMAIN roles)' = DOMAIN roles /\ Pending' = Pending
    BY <1>6, StrapiSeen DEF AdminRename, Admin
  <2> QED
    BY <1>3, <2>1
<1>7. ASSUME NEW i \in RoleIds, AdminRemove(i)
      PROVE  Lifecycle!Next
  <2>1. /\ i \in DOMAIN roles /\ owner' = [owner EXCEPT ![i] = Nobody]
        /\ stray' = stray \ {i}
        /\ (DOMAIN roles)' = DOMAIN roles \ {i} /\ Pending' = Pending
    BY <1>7, StrapiSeen DEF AdminRemove, Admin
  <2>2. Lifecycle!Remove(i)
    BY <1>1, <2>1, Zenon DEF Lifecycle!Remove, Lives
  <2> QED
    BY <2>2 DEF Lifecycle!Next
<1>8. ASSUME NEW n \in Names, AdminCreate(n)
      PROVE  Lifecycle!Next
  <2>1. /\ nextId \in RoleIds /\ nextId \notin DOMAIN roles
        /\ (DOMAIN roles)' = DOMAIN roles \cup {nextId}
        /\ UNCHANGED <<owner, stray>> /\ Pending' = Pending
    BY <1>0, <1>8, StrapiSeen DEF AdminCreate, Admin
  <2>2. ASSUME NEW c \in CRs PROVE Lives[c].role # nextId
    <3>1. Lives[c] = Life(api[c])
      BY DEF Lives
    <3>2. CASE api[c] # NoCR /\ api[c].finalizer
      <4>1. Life(api[c]).role = api[c].extName
        BY <3>2 DEF Life
      <4>2. api[c].extName \in 1..nextId - 1
        BY <3>2, RecordedIds
      <4> QED
        BY <1>0, <3>1, <4>1, <4>2
    <3>3. CASE ~(api[c] # NoCR /\ api[c].finalizer)
      <4>1. Life(api[c]).role = 0
        BY <3>3 DEF Life
      <4>2. nextId # 0
        BY <2>1, RolesAssumption DEF RoleIds
      <4> QED
        BY <3>1, <4>1, <4>2
    <3> QED
      BY <3>2, <3>3
  <2>3. Lifecycle!Appear(nextId)
    BY <1>1, <2>1, <2>2, Zenon DEF Lifecycle!Appear, Lives
  <2> QED
    BY <2>1, <2>3 DEF Lifecycle!Next
<1> QED
  BY <1>4, <1>5, <1>6, <1>7, <1>8 DEF Administrators

-----------------------------------------------------------------------------
(* The theorem. *)

(* The other steps of the workers change neither the CRs nor the roles. *)
LEMMA Unseen ==
  ASSUME UNCHANGED <<api, roles, owner, stray, late>>
  PROVE  UNCHANGED (Lifecycle!lifeVars)
<1>1. (DOMAIN roles)' = DOMAIN roles /\ owner' = owner /\ api' = api
      /\ stray' = stray /\ Pending' = Pending
  BY StrapiSeen
<1> QED
  BY <1>1 DEF Lifecycle!lifeVars

(* Every step of the system is one of the life cycle, or hidden. *)
LEMMA StepSeen ==
  ASSUME PinInv, WipeInv, IdsBounded, [Next]_vars
  PROVE  [Lifecycle!Next]_(Lifecycle!lifeVars)
<1>1. ASSUME NEW w \in Workers, Start(w) \/ Progress(w) \/ Sync(w)
      PROVE  [Lifecycle!Next]_(Lifecycle!lifeVars)
  <2>1. CASE Start(w) \/ Sync(w) \/ Observe(w) \/ Resolve(w) \/ PutMissing(w)
    <3>1. UNCHANGED <<api, roles, owner, stray, late>>
      BY <2>1
      DEF Start, Sync, Observe, Resolve, PutMissing, Abort, k8sVars, strapiVars
    <3> QED
      BY <3>1, Unseen
  <2>2. CASE Initialize(w) \/ AddFinalizer(w)
    <3>1. ASSUME ~current[w] PROVE UNCHANGED <<api, roles, owner, stray, late>>
      BY <2>2, <3>1 DEF Initialize, AddFinalizer, Abort, k8sVars, strapiVars
    <3> QED
      BY <2>2, <3>1, AdoptsRole, Unseen
  <2>3. CASE Release(w)
    <3>1. ASSUME ~current[w] PROVE UNCHANGED <<api, roles, owner, stray, late>>
      BY <2>3, <3>1 DEF Release, strapiVars
    <3> QED
      BY <2>3, <3>1, ReleasesRole, Unseen
  <2> QED
    BY <1>1, <2>1, <2>2, <2>3, WipesRole, PutSeen DEF Progress
<1>2. CASE UNCHANGED vars
  BY <1>2, Unseen DEF vars, k8sVars, strapiVars
<1> QED
  BY <1>1, <1>2, UsersSeen, OutsideSeen, FailuresSeen DEF Next

(* With one process the reconciler, its informers, versions, retries, crashes
   and late requests implement the life cycle: a CR records one role and keeps
   it, sends no grant elsewhere while that role exists and none at all once it
   is reported as wiped, and goes only then, unless its policy keeps what it
   granted.  A grant that was given up before may still land afterwards. *)
THEOREM LifecycleKept ==
  ASSUME OneProcess PROVE Spec => KeepsLifecycle
<1>1. PinInv /\ WipeInv /\ IdsBounded /\ [Next]_vars
        => [Lifecycle!Next]_(Lifecycle!lifeVars)
  BY StepSeen
<1> QED
  BY InitLives, PinInvariance, WipeInvariance, BoundKept, <1>1, PTL
  DEF Spec, KeepsLifecycle, Lifecycle!Spec
=============================================================================
