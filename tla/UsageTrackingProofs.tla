------------------------ MODULE UsageTrackingProofs ------------------------
(***************************************************************************)
(* Proofs about UsageTracking, for any CRs, configs and specs and without  *)
(* a bound on what users do or on how often the process dies.              *)
(***************************************************************************)
EXTENDS UsageTracking, TLAPS

(* What Connect starts from is not a CR that exists. *)
LEMMA UnreadIsNone == Unread.state = "none" /\ Unread \notin CRObjects
BY NoneAssumption DEF Unread, CRObjects, References

(* At first nobody is remembered and nothing is deleted. *)
LEMMA InitUsageInv == UsageInit => UsageInv
<1> SUFFICES ASSUME UsageInit PROVE UsageInv
  OBVIOUS
<1>1. PICK s \in Scenarios :
        /\ crs = [c \in CRs |-> [state |-> "exists", ref |-> s.ref[c],
                                 finalizer |-> s.settled]]
        /\ configs = [k \in Configs |-> [state |-> "exists", spec |-> InitSpec[k],
                                         finalizer |-> s.settled]]
        /\ usages = [c \in CRs |-> IF s.settled THEN s.ref[c] ELSE None]
        /\ queued = IF s.settled THEN {} ELSE Configs
        /\ left = s.bound
  BY DEF UsageInit
<1>2. /\ s.ref \in [CRs -> References] /\ s.settled \in BOOLEAN
      /\ s.bound \in [edits : Nat, rotations : Nat, faults : Nat]
  BY ScenariosAssumption
<1>3. UsageTypeOK
  BY <1>1, <1>2, InitAssumption
  DEF UsageInit, UsageTypeOK, States, CRObjects, ConfigObjects, NoPass, Absent
<1> QED
  BY <1>1, <1>3, NoneAssumption
  DEF UsageInit, UsageInv, HeldOnRecord, DeletionStands, HeldCounted, NoPass,
      Absent

-----------------------------------------------------------------------------
(* Type correctness. *)

(* What is written is an object again. *)
LEMMA CRWrites ==
  ASSUME NEW o \in CRObjects
  PROVE  /\ \A s \in States : [o EXCEPT !.state = s] \in CRObjects
         /\ \A r \in References : [o EXCEPT !.ref = r] \in CRObjects
         /\ \A b \in BOOLEAN : [o EXCEPT !.finalizer = b] \in CRObjects
         /\ \A s \in States, b \in BOOLEAN :
              [o EXCEPT !.state = s, !.finalizer = b] \in CRObjects
         /\ o.state \in States /\ o.ref \in References /\ o.finalizer \in BOOLEAN
BY DEF CRObjects

(* Writes to single fields of a config leave a config. *)
LEMMA ConfigWrites ==
  ASSUME NEW o \in ConfigObjects
  PROVE  /\ \A s \in States : [o EXCEPT !.state = s] \in ConfigObjects
         /\ \A x \in Specs : [o EXCEPT !.spec = x] \in ConfigObjects
         /\ \A b \in BOOLEAN : [o EXCEPT !.finalizer = b] \in ConfigObjects
         /\ o.state \in States /\ o.spec \in Specs /\ o.finalizer \in BOOLEAN
BY DEF ConfigObjects

Passes == [active : BOOLEAN, config : ConfigObjects, users : SUBSET CRs]

(* What is absent or has not begun is well formed too. *)
LEMMA Empties ==
  ASSUME NEW k \in Configs
  PROVE  Absent(k) \in ConfigObjects /\ NoPass(k) \in Passes
BY InitAssumption DEF Absent, NoPass, ConfigObjects, States, Passes

Left == [edits : Nat, rotations : Nat, faults : Nat]

(* Budgets stay numbers. *)
LEMMA SpendTypes ==
  ASSUME UsageTypeOK, NEW what \in {"edits", "rotations", "faults"}, Spend(what)
  PROVE  left' \in Left
<1>1. left \in Left
  BY DEF UsageTypeOK, Left
<1>2. CASE what = "edits"
  <2>1. left' = [left EXCEPT !.edits = left.edits - 1] /\ left.edits > 0
    BY <1>2 DEF Spend
  <2> QED
    BY <1>1, <2>1 DEF Left
<1>3. CASE what = "rotations"
  <2>1. left' = [left EXCEPT !.rotations = left.rotations - 1] /\ left.rotations > 0
    BY <1>3 DEF Spend
  <2> QED
    BY <1>1, <2>1 DEF Left
<1>4. CASE what = "faults"
  <2>1. left' = [left EXCEPT !.faults = left.faults - 1] /\ left.faults > 0
    BY <1>4 DEF Spend
  <2> QED
    BY <1>1, <2>1 DEF Left
<1> QED
  BY <1>2, <1>3, <1>4

(* Types, for the steps of a reconcile and the events about its CR; *)
LEMMA ConnectTypes ==
  ASSUME UsageTypeOK, NEW c \in CRs,
         \/ Begin(c) \/ Track(c) \/ GetConfig(c) \/ Complete(c) \/ GiveUp(c)
         \/ Interrupted(c) \/ Collect(c) \/ SyncUsage(c)
  PROVE  UsageTypeOK'
<1> USE DEF UsageTypeOK, apiVars, seenVars, configVars, connVars
<1>0. crs[c] \in CRObjects
  OBVIOUS
<1>1. CASE Begin(c)
  BY <1>0, <1>1 DEF Begin
<1>2. CASE Track(c)
  <2>1. obj[c].ref \in References
    BY <1>2, CRWrites DEF Track
  <2>2. /\ usages' \in [CRs -> References \cup {None}]
        /\ held' \in [Configs -> SUBSET CRs]
        /\ UNCHANGED <<crs, configs, seenVars, configVars, left>>
    <3>1. CASE Record(c, obj[c].ref)
      BY <1>2, <2>1, <3>1 DEF Track, Record
    <3>2. CASE UNCHANGED <<usages, held>>
      BY <1>2, <3>2 DEF Track
    <3> QED
      BY <1>2, <3>1, <3>2 DEF Track
  <2>3. CASE /\ conn' = [conn EXCEPT ![c] = "get"]
             /\ UNCHANGED <<obj, used>>
    BY <1>2, <2>2, <2>3 DEF Track
  <2>4. CASE Leave(c)
    BY <2>2, <2>4 DEF Leave
  <2> QED
    BY <1>2, <2>3, <2>4 DEF Track
<1>3. CASE GetConfig(c)
  <2>1. CASE obj[c].ref \in Configs /\ seenConfigs[obj[c].ref].state # "none"
    <3>1. seenConfigs[obj[c].ref].spec \in Specs
      BY <2>1, ConfigWrites
    <3> QED
      BY <1>3, <2>1, <3>1 DEF GetConfig
  <2>2. CASE ~(obj[c].ref \in Configs /\ seenConfigs[obj[c].ref].state # "none")
    BY <1>3, <2>2 DEF GetConfig, Leave
  <2> QED
    BY <2>1, <2>2
<1>4. CASE Complete(c)
  <2>1. crs' \in [CRs -> CRObjects]
    <3>1. obj[c] \in CRObjects
      BY <1>4 DEF Complete
    <3>2. /\ [obj[c] EXCEPT !.state = "none", !.finalizer = FALSE] \in CRObjects
          /\ [obj[c] EXCEPT !.finalizer = TRUE] \in CRObjects
      BY <3>1, CRWrites DEF States
    <3> QED
      BY <1>4, <3>2 DEF Complete
  <2> QED
    BY <1>4, <2>1 DEF Complete, Leave
<1>5. CASE GiveUp(c)
  BY <1>5 DEF GiveUp, Leave
<1>6. CASE Interrupted(c)
  BY <1>6, SpendTypes DEF Interrupted, Leave, Left
<1>7. CASE Collect(c)
  BY <1>7 DEF Collect, Record
<1>8. CASE SyncUsage(c)
  BY <1>8 DEF SyncUsage
<1> QED
  BY <1>1, <1>2, <1>3, <1>4, <1>5, <1>6, <1>7, <1>8

(* for the config controller; *)
LEMMA ConfigTypes ==
  ASSUME UsageTypeOK, NEW k \in Configs,
         Look(k) \/ Decide(k) \/ PassFails(k) \/ SyncConfig(k)
  PROVE  UsageTypeOK'
<1> USE DEF UsageTypeOK, apiVars, seenVars, configVars, connVars
<1>0. NoPass(k) \in Passes /\ Absent(k) \in ConfigObjects
  BY Empties
<1>1. CASE Look(k)
  <2>1. [active |-> TRUE, config |-> seenConfigs[k], users |-> Users(k)] \in Passes
    BY DEF Users, Passes
  <2> QED
    BY <1>0, <1>1, <2>1 DEF Look, Passes
<1>2. CASE Decide(k)
  <2>1. [pass[k].config EXCEPT !.finalizer = TRUE] \in ConfigObjects
    BY ConfigWrites, InitAssumption
  <2>2. configs' \in [Configs -> ConfigObjects]
    BY <1>0, <1>2, <2>1 DEF Decide
  <2>3. pass' \in [Configs -> Passes] /\ queued' \subseteq Configs
    BY <1>0, <1>2 DEF Decide, EndPass, Passes
  <2> QED
    BY <1>2, <2>2, <2>3 DEF Decide, Passes
<1>3. CASE PassFails(k)
  <2>1. pass' \in [Configs -> Passes] /\ queued' \subseteq Configs
    BY <1>0, <1>3 DEF PassFails, EndPass, Passes
  <2>2. left' \in Left
    BY <1>3, SpendTypes DEF PassFails
  <2> QED
    BY <1>3, <2>1, <2>2 DEF PassFails, Passes, Left
<1>4. CASE SyncConfig(k)
  BY <1>4 DEF SyncConfig
<1> QED
  BY <1>1, <1>2, <1>3, <1>4

(* for users and restarts; *)
LEMMA UserTypes ==
  ASSUME UsageTypeOK, UserEdits \/ EditElsewhere \/ Restart
  PROVE  UsageTypeOK'
<1> USE DEF UsageTypeOK, apiVars, seenVars, configVars, connVars
<1>0. ASSUME NEW what \in {"edits", "rotations"}, Edit(what)
      PROVE  left' \in Left
  BY <1>0, SpendTypes DEF Edit
<1>1. ASSUME NEW c \in CRs, DeleteCR(c) PROVE UsageTypeOK'
  <2>1. \A s \in States : [crs[c] EXCEPT !.state = s] \in CRObjects
    BY <1>1, CRWrites
  <2>2. crs' \in [CRs -> CRObjects]
    BY <1>1, <2>1 DEF DeleteCR, States
  <2> QED
    BY <1>0, <1>1, <2>2 DEF DeleteCR, Edit, Left
<1>2. ASSUME NEW c \in CRs, NEW k \in References, EditRef(c, k)
      PROVE UsageTypeOK'
  <2>1. [crs[c] EXCEPT !.ref = k] \in CRObjects
    BY <1>2, CRWrites
  <2>2. crs' \in [CRs -> CRObjects]
    BY <1>2, <2>1 DEF EditRef
  <2> QED
    BY <1>0, <1>2, <2>2 DEF EditRef, Edit, Left
<1>3. ASSUME NEW k \in Configs, DeleteConfig(k) PROVE UsageTypeOK'
  <2>1. [configs[k] EXCEPT !.state = "deleting"] \in ConfigObjects
    BY <1>3, ConfigWrites DEF States
  <2>2. configs' \in [Configs -> ConfigObjects]
    BY <1>3, <2>1, Empties DEF DeleteConfig
  <2>3. held' \in [Configs -> SUBSET CRs]
    BY <1>3 DEF DeleteConfig
  <2> QED
    BY <1>0, <1>3, <2>2, <2>3 DEF DeleteConfig, Edit, Left
<1>4. ASSUME NEW k \in Configs, NEW s \in Specs, EditConfig(k, s)
      PROVE UsageTypeOK'
  <2>1. [configs[k] EXCEPT !.spec = s] \in ConfigObjects
    BY <1>4, ConfigWrites
  <2>2. configs' \in [Configs -> ConfigObjects]
    BY <1>4, <2>1 DEF EditConfig
  <2> QED
    BY <1>0, <1>4, <2>2 DEF EditConfig, Edit, Left
<1>5. CASE EditElsewhere
  BY <1>0, <1>5 DEF EditElsewhere, Edit, Left
<1>6. CASE Restart
  <2>1. pass' \in [Configs -> Passes]
    BY <1>6, Empties DEF Restart
  <2>2. left' \in Left
    BY <1>6, SpendTypes DEF Restart
  <2> QED
    BY <1>6, <2>1, <2>2 DEF Restart, Passes, Left
<1> QED
  BY <1>1, <1>2, <1>3, <1>4, <1>5, <1>6 DEF UserEdits

(* and so for every step. *)
LEMMA TypeStep ==
  ASSUME UsageTypeOK, [UsageNext]_usageVars
  PROVE  UsageTypeOK'
<1>1. CASE UNCHANGED usageVars
  BY <1>1 DEF usageVars, apiVars, seenVars, configVars, connVars, UsageTypeOK
<1> QED
  BY <1>1, ConnectTypes, ConfigTypes, UserTypes DEF UsageNext, ConfigSteps

-----------------------------------------------------------------------------
(* The usages and those who remember them. *)
TrackInv == HeldOnRecord /\ DeletionStands /\ HeldCounted

(* Tracking, for the steps of a reconcile: nobody but the CR's own Connect and
   the garbage collector move its usage. *)
LEMMA ConnectTracks ==
  ASSUME UsageTypeOK, TrackInv, NEW c \in CRs,
         \/ Begin(c) \/ Track(c) \/ GetConfig(c) \/ Complete(c) \/ GiveUp(c)
         \/ Interrupted(c) \/ Collect(c) \/ SyncUsage(c)
  PROVE  TrackInv'
<1> USE DEF UsageTypeOK, TrackInv, HeldOnRecord, DeletionStands, HeldCounted, apiVars, seenVars, configVars, connVars
<1>1. CASE Begin(c)
  BY <1>1 DEF Begin
<1>2. CASE Track(c)
  <2>1. CASE UNCHANGED <<usages, held>>
    BY <1>2, <2>1 DEF Track
  <2>2. CASE Record(c, obj[c].ref)
    BY <1>2, <2>2 DEF Track, Record
  <2> QED
    BY <1>2, <2>1, <2>2 DEF Track
<1>3. CASE GetConfig(c)
  BY <1>3 DEF GetConfig, Leave
<1>4. CASE Complete(c)
  BY <1>4 DEF Complete, Leave
<1>5. CASE GiveUp(c)
  BY <1>5 DEF GiveUp, Leave
<1>6. CASE Interrupted(c)
  BY <1>6 DEF Interrupted, Leave
<1>7. CASE Collect(c)
  BY <1>7, NoneAssumption DEF Collect, Record
<1>8. CASE SyncUsage(c)
  BY <1>8 DEF SyncUsage
<1> QED
  BY <1>1, <1>2, <1>3, <1>4, <1>5, <1>6, <1>7, <1>8

(* A write by the controller brings no config back that was marked deleted:
   it is made to the version that was read. *)
LEMMA DecideKeeps ==
  ASSUME UsageTypeOK, NEW k \in Configs, Decide(k)
  PROVE  \A j \in Configs : configs'[j].state = "exists" => configs[j].state = "exists"
<1> USE DEF UsageTypeOK, Absent
<1>1. CASE configs' = configs
  BY <1>1
<1>2. CASE configs' = [configs EXCEPT ![k] = Absent(k)]
  BY <1>2
<1>3. CASE /\ configs[k] = pass[k].config
           /\ configs' = [configs EXCEPT ![k] = [pass[k].config EXCEPT !.finalizer = TRUE]]
  <2>1. [pass[k].config EXCEPT !.finalizer = TRUE].state = configs[k].state
    BY <1>3 DEF ConfigObjects
  <2> QED
    BY <1>3, <2>1
<1> QED
  BY <1>1, <1>2, <1>3 DEF Decide

(* A user's deletion marks a config or drops it. *)
LEMMA DeleteKeeps ==
  ASSUME UsageTypeOK, NEW k \in Configs, DeleteConfig(k)
  PROVE  \A j \in Configs : configs'[j].state = "exists" => configs[j].state = "exists"
<1> USE DEF UsageTypeOK
<1>1. CASE configs' = [configs EXCEPT ![k].state = "deleting"]
  <2>1. configs'[k].state = "deleting"
    BY <1>1 DEF ConfigObjects
  <2> QED
    BY <1>1, <2>1
<1>2. CASE configs' = [configs EXCEPT ![k] = Absent(k)]
  BY <1>2 DEF Absent
<1> QED
  BY <1>1, <1>2 DEF DeleteConfig

(* The config controller counts what its informer has and removes a finalizer
   only from a config it counted nobody for. *)
LEMMA ConfigTracks ==
  ASSUME UsageTypeOK, TrackInv, NEW k \in Configs,
         Look(k) \/ Decide(k) \/ PassFails(k) \/ SyncConfig(k)
  PROVE  TrackInv'
<1> USE DEF UsageTypeOK, TrackInv, HeldOnRecord, DeletionStands, HeldCounted, apiVars, seenVars, configVars, connVars,
            NoPass, Absent
<1>1. CASE Look(k)
  <2>1. Kind[k] = "ProviderConfig" => held[k] \subseteq Users(k)
    BY DEF Users, Counted, Tracked
  <2> QED
    BY <1>1, <2>1 DEF Look
<1>2. CASE Decide(k)
  <2>1. /\ pass' = [pass EXCEPT ![k] = NoPass(k)]
        /\ UNCHANGED <<crs, usages, seenVars, connVars, held>>
    BY <1>2 DEF Decide, EndPass
  <2>2. \A j \in Configs : configs'[j].state = "exists" => configs[j].state = "exists"
    BY <1>2, DecideKeeps
  <2>3. HeldOnRecord'
    BY <2>1
  <2>4. DeletionStands'
    BY <2>1, <2>2
  <2>5. HeldCounted'
    BY <2>1
  <2> QED
    BY <2>3, <2>4, <2>5
<1>3. CASE PassFails(k)
  BY <1>3 DEF PassFails, EndPass
<1>4. CASE SyncConfig(k)
  BY <1>4 DEF SyncConfig
<1> QED
  BY <1>1, <1>2, <1>3, <1>4

(* Users and restarts disturb no usage of a config in use. *)
LEMMA UserTracks ==
  ASSUME UsageTypeOK, TrackInv, UserEdits \/ EditElsewhere \/ Restart
  PROVE  TrackInv'
<1> USE DEF UsageTypeOK, TrackInv, HeldOnRecord, DeletionStands, HeldCounted, apiVars, seenVars, configVars, connVars,
            NoPass, Absent, Edit
<1>1. ASSUME NEW c \in CRs, DeleteCR(c) PROVE TrackInv'
  BY <1>1 DEF DeleteCR
<1>2. ASSUME NEW c \in CRs, NEW k \in References, EditRef(c, k)
      PROVE TrackInv'
  BY <1>2 DEF EditRef
<1>3. ASSUME NEW k \in Configs, DeleteConfig(k) PROVE TrackInv'
  <2>1. \A j \in Configs : configs'[j].state = "exists" => configs[j].state = "exists"
    BY <1>3, DeleteKeeps
  <2>2. DeletionStands'
    BY <1>3, <2>1 DEF DeleteConfig
  <2>3. /\ \A j \in Configs \ {k} : held'[j] = held[j]
        /\ \A c \in held'[k] :
             c \in held[k] \/ (usages[c] = k /\ seenUsages[c] = k)
        /\ UNCHANGED <<usages, seenUsages, pass, crs, conn, obj>>
    BY <1>3 DEF DeleteConfig
  <2>4. HeldCounted'
    <3>1. ~(pass[k].active /\ pass[k].config.state = "deleting")
      BY <1>3 DEF DeleteConfig
    <3> QED
      BY <2>3, <3>1
  <2> QED
    BY <2>2, <2>3, <2>4
<1>4. ASSUME NEW k \in Configs, NEW s \in Specs, EditConfig(k, s)
      PROVE TrackInv'
  BY <1>4 DEF EditConfig
<1>5. CASE EditElsewhere
  BY <1>5 DEF EditElsewhere
<1>6. CASE Restart
  BY <1>6 DEF Restart
<1> QED
  BY <1>1, <1>2, <1>3, <1>4, <1>5, <1>6 DEF UserEdits

(* Every step preserves the invariant. *)
LEMMA UsageStep ==
  ASSUME UsageInv, [UsageNext]_usageVars
  PROVE  UsageInv'
<1> USE DEF UsageInv, TrackInv
<1>1. CASE UNCHANGED usageVars
  BY <1>1
  DEF usageVars, apiVars, seenVars, configVars, connVars, UsageTypeOK,
      HeldOnRecord, DeletionStands, HeldCounted
<1>2. CASE UsageNext
  <2>1. TrackInv'
    BY <1>2, ConnectTracks, ConfigTracks, UserTracks DEF UsageNext, ConfigSteps
  <2> QED
    BY <1>2, <2>1, TypeStep
<1> QED
  BY <1>1, <1>2

(* The inductive invariant holds in every reachable state. *)
THEOREM UsageInvariance == UsageSpec => []UsageInv
BY InitUsageInv, UsageStep, PTL DEF UsageSpec

(* Only a pass that has counted no user lets go of a config. *)
LEMMA InUseStep ==
  ASSUME UsageInv, [UsageNext]_usageVars
  PROVE  KeptWhileHeld({"ProviderConfig"})
<1> SUFFICES ASSUME NEW k \in Configs, Kind[k] = "ProviderConfig",
                    configs[k].state = "deleting", configs'[k].state = "none"
             PROVE  held[k] = {}
  BY DEF KeptWhileHeld
<1> USE DEF UsageInv, UsageTypeOK, ConfigObjects, apiVars
<1>1. PICK j \in Configs : Decide(j) \/ DeleteConfig(j) \/ \E s \in Specs : EditConfig(j, s)
  BY DEF UsageNext, usageVars, seenVars, configVars, connVars, Begin, Track,
         GetConfig, Complete, GiveUp, Interrupted, Collect, SyncUsage,
         ConfigSteps, Look, PassFails, SyncConfig, UserEdits, DeleteCR, EditRef,
         EditElsewhere, Restart
<1>2. CASE Decide(j)
  <2>1. j = k /\ pass[k].active /\ pass[k].config = configs[k] /\ pass[k].users = {}
    BY <1>2 DEF Decide, EndPass
  <2> QED
    BY <2>1 DEF HeldCounted
<1>3. CASE DeleteConfig(j)
  BY <1>3 DEF DeleteConfig
<1>4. ASSUME NEW s \in Specs, EditConfig(j, s) PROVE FALSE
  BY <1>4 DEF EditConfig
<1> QED
  BY <1>1, <1>2, <1>3, <1>4

(* A deleted ProviderConfig stays while a usage names it that named it, to its
   controller's knowledge, when it was deleted, whatever the order of the
   events, edits and crashes and however stale the copies. *)
THEOREM UsedConfigsStay == UsageSpec => InUseIsKept
BY UsageInvariance, InUseStep, PTL DEF UsageSpec, InUseIsKept
=============================================================================
