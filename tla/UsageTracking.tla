--------------------------- MODULE UsageTracking ---------------------------
(***************************************************************************)
(* ProviderConfigs and their users: the first half of Connect in           *)
(* internal/controller/rolepermissions/rolepermissions.go, which records   *)
(* that a RolePermissions resource (CR) uses a config and then reads the   *)
(* config, and the two controllers of internal/controller/config/config.go,*)
(* which keep a deleted config until nobody uses it.  They share nothing   *)
(* but the API server, which each sees through informers that lag behind.  *)
(*                                                                         *)
(* A usage is an object named after the UID of its CR and owned by it, so  *)
(* there is at most one for each CR and the API server collects it when    *)
(* the CR is gone.  CRs and configs are there from the start, which stands *)
(* for any time at which the process hears of them; one created again under*)
(* an old name has another UID and is another element of CRs, or of        *)
(* Configs.  A worker reads its CR from the API server directly: with one  *)
(* worker per CR a late read cannot be told from an earlier start.         *)
(***************************************************************************)
EXTENDS Naturals, FiniteSets

CONSTANTS
  CRs,         \* RolePermissions resources
  Configs,     \* ProviderConfigs and ClusterProviderConfigs, names distinct
  Kind,        \* config -> its kind
  Specs,       \* the specs users give to configs
  InitSpec,    \* config -> its first spec
  Elsewhere,   \* a reference of another kind, or to a config nobody made
  None,        \* no config, no spec
  Scenarios    \* each behaviour starts in one: the references of the CRs,
               \* whether they and the configs are new or the process has
               \* dealt with them and, as bounds, how many edits, rotations
               \* and faults follow

ConfigKinds == {"ProviderConfig", "ClusterProviderConfig"}

ASSUME KindAssumption == Kind \in [Configs -> ConfigKinds]
References == Configs \cup {Elsewhere}

ASSUME InitAssumption == InitSpec \in [Configs -> Specs]
ASSUME NoneAssumption ==
  {Elsewhere, None} \cap (Configs \cup Specs) = {} /\ Elsewhere # None
ASSUME ScenariosAssumption ==
  \A s \in Scenarios :
    /\ s.ref \in [CRs -> References] /\ s.settled \in BOOLEAN
    /\ s.bound \in [edits : Nat, rotations : Nat, faults : Nat]

VARIABLES
  crs,          \* API server: the CRs
  configs,      \* API server: the configs
  usages,       \* API server: CR -> the config its usage names, or None
  seenConfigs,  \* informer of the configs
  seenUsages,   \* informer of the usages
  queued,       \* configs in the work queues of their controllers
  pass,         \* config -> what the reconcile in progress has read
  conn,         \* CR -> where its worker is inside Connect
  obj,          \* CR -> the copy of it that the worker reconciles, Unread if idle
  used,         \* CR -> the spec that Connect read
  held,         \* history: config -> users known when it was deleted
  left          \* how many more edits, rotations and faults there may be

apiVars == <<crs, configs, usages>>
seenVars == <<seenConfigs, seenUsages>>
configVars == <<queued, pass>>
connVars == <<conn, obj, used>>
usageVars ==
  <<apiVars, seenVars, configVars, connVars, held, left>>

(* A config that is gone. *)
Absent(k) == [state |-> "none", spec |-> InitSpec[k], finalizer |-> FALSE]

Unread == [state |-> "none", ref |-> None, finalizer |-> FALSE]

NoPass(k) == [active |-> FALSE, config |-> Absent(k), users |-> {}]

UsageInit ==
  /\ \E s \in Scenarios :
       /\ crs = [c \in CRs |-> [state |-> "exists", ref |-> s.ref[c],
                                finalizer |-> s.settled]]
       /\ configs = [k \in Configs |-> [state |-> "exists", spec |-> InitSpec[k],
                                        finalizer |-> s.settled]]
       /\ usages = [c \in CRs |-> IF s.settled THEN s.ref[c] ELSE None]
       /\ queued = IF s.settled THEN {} ELSE Configs
       /\ left = s.bound
  /\ seenConfigs = configs
  /\ seenUsages = usages
  /\ pass = [k \in Configs |-> NoPass(k)]
  /\ conn = [c \in CRs |-> "idle"]
  /\ obj = [c \in CRs |-> Unread]
  /\ used = [c \in CRs |-> None]
  /\ held = [k \in Configs |-> {}]

Exists(c) == crs[c].state # "none"

-----------------------------------------------------------------------------
(***************************************************************************)
(* Which usages count.  Connect records ProviderConfigUsages, whatever the *)
(* kind of the config; the controller of each kind of config lists, and is *)
(* woken by, usages of the kind it was set up with.                        *)
(***************************************************************************)

Tracked == "ProviderConfigUsage"

(* Mutant of Counted: the kinds are swapped. *)
CountedSwapped(kind) ==
  IF kind = "ProviderConfig" THEN "ClusterProviderConfigUsage"
                             ELSE "ProviderConfigUsage"

Counted(kind) ==
  IF kind = "ProviderConfig" THEN "ProviderConfigUsage"
                             ELSE "ClusterProviderConfigUsage"

(* Mutant of Watched: both controllers watch the cluster-scoped usages. *)
WatchedCluster(kind) == "ClusterProviderConfigUsage"

Watched(kind) ==
  IF kind = "ProviderConfig" THEN "ProviderConfigUsage"
                             ELSE "ClusterProviderConfigUsage"

Users(k) ==
  {c \in CRs : seenUsages[c] = k /\ Counted(Kind[k]) = Tracked}

-----------------------------------------------------------------------------
(***************************************************************************)
(* Connect, and how the reconcile it belongs to ends.                      *)
(***************************************************************************)

Leave(c) ==
  /\ conn' = [conn EXCEPT ![c] = "idle"]
  /\ obj' = [obj EXCEPT ![c] = Unread]
  /\ used' = [used EXCEPT ![c] = None]

Begin(c) ==
  /\ conn[c] = "idle"
  /\ Exists(c)
  /\ obj' = [obj EXCEPT ![c] = crs[c]]
  /\ conn' = [conn EXCEPT ![c] = "track"]
  /\ UNCHANGED <<apiVars, seenVars, configVars, used, held, left>>

(* The usage of c names k from now on. *)
Record(c, k) ==
  /\ usages' = [usages EXCEPT ![c] = k]
  /\ held' = [j \in Configs |-> IF j = k THEN held[j] ELSE held[j] \ {c}]

(* Mutant of Track: an existing usage is not updated. *)
TrackOnce(c) ==
  /\ conn[c] = "track"
  /\ IF usages[c] = None THEN Record(c, obj[c].ref)
                         ELSE UNCHANGED <<usages, held>>
  /\ conn' = [conn EXCEPT ![c] = "get"]
  /\ UNCHANGED <<crs, configs, seenVars, configVars, obj, used, left>>

(* usage.Track reads the usage of c through the manager's client, that is
   from the informer.  A copy that names the present reference is left alone,
   even if it is stale; otherwise the usage is created, or updated at the
   version of the copy, and a conflict ends the reconcile.  That the copy has
   the present version is that it has the present value: every write changes
   the value and is itself made to a copy that is up to date. *)
Track(c) ==
  /\ conn[c] = "track"
  /\ \/ /\ seenUsages[c] = obj[c].ref
        /\ conn' = [conn EXCEPT ![c] = "get"]
        /\ UNCHANGED <<usages, obj, used, held>>
     \/ /\ seenUsages[c] # obj[c].ref /\ seenUsages[c] = usages[c]
        /\ Record(c, obj[c].ref)
        /\ conn' = [conn EXCEPT ![c] = "get"]
        /\ UNCHANGED <<obj, used>>
     \/ /\ seenUsages[c] \notin {obj[c].ref, usages[c]}
        /\ Leave(c)
        /\ UNCHANGED <<usages, held>>
  /\ UNCHANGED <<crs, configs, seenVars, configVars, left>>

(* The switch on the kind of the reference and kube.Get of the config, from
   the informer: it may be gone already. *)
GetConfig(c) ==
  /\ conn[c] = "get"
  /\ LET k == obj[c].ref IN
     IF k \in Configs /\ seenConfigs[k].state # "none"
     THEN /\ used' = [used EXCEPT ![c] = seenConfigs[k].spec]
          /\ conn' = [conn EXCEPT ![c] = "connected"]
          /\ UNCHANGED obj
     ELSE Leave(c)
  /\ UNCHANGED <<apiVars, seenVars, configVars, held, left>>

(* The reconcile went well: it ends with the finalizer in place or, for a
   deleted CR, with the finalizer removed and the CR gone.  Both are writes
   to the version that was read. *)
Complete(c) ==
  /\ conn[c] = "connected"
  /\ Leave(c)
  /\ IF crs[c] # obj[c] THEN UNCHANGED crs
     ELSE crs' = [crs EXCEPT ![c] =
            IF obj[c].state = "deleting"
            THEN [obj[c] EXCEPT !.state = "none", !.finalizer = FALSE]
            ELSE [obj[c] EXCEPT !.finalizer = TRUE]]
  /\ UNCHANGED <<configs, usages, seenVars, configVars, held, left>>

(* Connect, or a request made with what it returned, comes to an error. *)
GiveUp(c) ==
  /\ conn[c] # "idle"
  /\ Leave(c)
  /\ UNCHANGED <<apiVars, seenVars, configVars, held, left>>

(* The garbage collector of the API server. *)
Collect(c) ==
  /\ crs[c].state = "none"
  /\ usages[c] # None
  /\ Record(c, None)
  /\ UNCHANGED <<crs, configs, seenVars, configVars, connVars, left>>

-----------------------------------------------------------------------------
(***************************************************************************)
(* The config controllers.                                                 *)
(***************************************************************************)

(* Get the config and list its usages, both from informers. *)
Look(k) ==
  /\ k \in queued
  /\ ~pass[k].active
  /\ queued' = queued \ {k}
  /\ pass' = [pass EXCEPT ![k] =
                IF seenConfigs[k].state = "none" THEN NoPass(k)
                ELSE [active |-> TRUE, config |-> seenConfigs[k],
                      users |-> Users(k)]]
  /\ UNCHANGED <<apiVars, seenVars, connVars, held, left>>

EndPass(k, again) ==
  /\ pass' = [pass EXCEPT ![k] = NoPass(k)]
  /\ queued' = IF again THEN queued \cup {k} ELSE queued

(* A config in use stays, and nothing but an event looks at it again.  An
   unused one loses its finalizer; a live one is given it.  Both are writes
   to the version that was read, and a conflict is retried. *)
Decide(k) ==
  /\ pass[k].active
  /\ LET read == pass[k].config
         deleted == read.state = "deleting"
         stale == configs[k] # read
     IN IF deleted /\ pass[k].users # {}
        THEN EndPass(k, FALSE) /\ UNCHANGED configs
        ELSE /\ EndPass(k, stale)
             /\ configs' = IF stale THEN configs
                           ELSE [configs EXCEPT ![k] =
                                   IF deleted THEN Absent(k)
                                   ELSE [read EXCEPT !.finalizer = TRUE]]
  /\ UNCHANGED <<crs, usages, seenVars, connVars, held, left>>

SyncConfig(k) ==
  /\ seenConfigs[k] # configs[k]
  /\ seenConfigs' = [seenConfigs EXCEPT ![k] = configs[k]]
  /\ queued' = queued \cup {k}
  /\ UNCHANGED <<apiVars, seenUsages, pass, connVars, held, left>>

(* An event about a usage wakes the configs it names now and named before,
   if their controller watches this kind of usage. *)
SyncUsage(c) ==
  /\ seenUsages[c] # usages[c]
  /\ seenUsages' = [seenUsages EXCEPT ![c] = usages[c]]
  /\ queued' = queued \cup {k \in Configs \cap {seenUsages[c], usages[c]} :
                              Watched(Kind[k]) = Tracked}
  /\ UNCHANGED <<apiVars, seenConfigs, pass, connVars, held, left>>

-----------------------------------------------------------------------------
(***************************************************************************)
(* Users and failures.                                                     *)
(***************************************************************************)

Spend(what) ==
  /\ left[what] > 0
  /\ left' = [left EXCEPT ![what] = @ - 1]

Edit(what) ==
  /\ Spend(what)
  /\ UNCHANGED <<usages, seenVars, configVars, connVars>>

EditRef(c, k) ==
  /\ Edit("edits")
  /\ Exists(c) /\ crs[c].ref # k
  /\ crs' = [crs EXCEPT ![c].ref = k]
  /\ UNCHANGED <<configs, held>>

DeleteCR(c) ==
  /\ Edit("edits")
  /\ crs[c].state = "exists"
  /\ crs' = [crs EXCEPT ![c].state =
               IF crs[c].finalizer THEN "deleting" ELSE "none"]
  /\ UNCHANGED <<configs, held>>

EditConfig(k, s) ==
  /\ Edit("rotations")
  /\ configs[k].state # "none" /\ configs[k].spec # s
  /\ configs' = [configs EXCEPT ![k].spec = s]
  /\ UNCHANGED <<crs, held>>

(* A config that has its finalizer is only marked.  Those who use it then, as
   far as its controller can know, are remembered. *)
DeleteConfig(k) ==
  /\ Edit("edits")
  /\ configs[k].state = "exists"
  /\ IF configs[k].finalizer
     THEN /\ configs' = [configs EXCEPT ![k].state = "deleting"]
          /\ held' = [held EXCEPT ![k] =
                        {c \in CRs : usages[c] = k /\ seenUsages[c] = k}]
     ELSE /\ configs' = [configs EXCEPT ![k] = Absent(k)]
          /\ UNCHANGED held
  /\ UNCHANGED crs

(* Users turn to something that no controller here watches. *)
EditElsewhere ==
  /\ Edit("rotations")
  /\ UNCHANGED <<crs, configs, held>>

(* A request of the reconcile of a CR is lost. *)
Interrupted(c) ==
  /\ Spend("faults")
  /\ conn[c] # "idle"
  /\ Leave(c)
  /\ UNCHANGED <<apiVars, seenVars, configVars, held>>

(* The reconcile of a config fails: it is retried. *)
PassFails(k) ==
  /\ Spend("faults")
  /\ pass[k].active
  /\ EndPass(k, TRUE)
  /\ UNCHANGED <<apiVars, seenVars, connVars, held>>

(* The process dies; the new one fills its informers before it starts its
   controllers, and every config is queued. *)
Restart ==
  /\ Spend("faults")
  /\ seenConfigs' = configs
  /\ seenUsages' = usages
  /\ queued' = {k \in Configs : configs[k].state # "none"}
  /\ pass' = [k \in Configs |-> NoPass(k)]
  /\ conn' = [c \in CRs |-> "idle"]
  /\ obj' = [c \in CRs |-> Unread]
  /\ used' = [c \in CRs |-> None]
  /\ UNCHANGED <<apiVars, held>>

UserEdits ==
  \/ \E c \in CRs : DeleteCR(c) \/ \E k \in References : EditRef(c, k)
  \/ \E k \in Configs : DeleteConfig(k) \/ \E s \in Specs : EditConfig(k, s)

ConfigSteps(k) == Look(k) \/ Decide(k)

UsageNext ==
  \/ \E c \in CRs :
       \/ Begin(c) \/ Track(c) \/ GetConfig(c) \/ Complete(c) \/ GiveUp(c)
       \/ Interrupted(c) \/ Collect(c) \/ SyncUsage(c)
  \/ \E k \in Configs : ConfigSteps(k) \/ PassFails(k) \/ SyncConfig(k)
  \/ UserEdits
  \/ EditElsewhere
  \/ Restart

UsageSpec == UsageInit /\ [][UsageNext]_usageVars

-----------------------------------------------------------------------------
States == {"none", "exists", "deleting"}
CRObjects == [state : States, ref : References, finalizer : BOOLEAN]
ConfigObjects == [state : States, spec : Specs, finalizer : BOOLEAN]

UsageTypeOK ==
  /\ crs \in [CRs -> CRObjects]
  /\ configs \in [Configs -> ConfigObjects]
  /\ seenConfigs \in [Configs -> ConfigObjects]
  /\ usages \in [CRs -> References \cup {None}]
  /\ seenUsages \in [CRs -> References \cup {None}]
  /\ queued \subseteq Configs
  /\ pass \in [Configs ->
                [active : BOOLEAN, config : ConfigObjects, users : SUBSET CRs]]
  /\ conn \in [CRs -> {"idle", "track", "get", "connected"}]
  /\ obj \in [CRs -> CRObjects \cup {Unread}]
  /\ used \in [CRs -> Specs \cup {None}]
  /\ held \in [Configs -> SUBSET CRs]
  /\ left \in [edits : Nat, rotations : Nat, faults : Nat]
  /\ \A c \in CRs :
       /\ conn[c] # "idle" => obj[c] \in CRObjects
       /\ conn[c] = "connected" => used[c] \in Specs /\ obj[c].ref \in Configs

(* "Reconciles ProviderConfigs by accounting for their current usage"
   (config.go): a deleted config does not go as long as the usage of a CR
   names it that named it when it was deleted, to the API server's and to the
   controller's knowledge, and has not been moved since. *)
KeptWhileHeld(kinds) ==
  \A k \in Configs :
    /\ Kind[k] \in kinds
    /\ configs[k].state = "deleting"
    /\ configs'[k].state = "none"
    => held[k] = {}

InUseIsKept == [][KeptWhileHeld({"ProviderConfig"})]_usageVars

(* Why: the users remembered are still on record, with the API server and in
   the informer; *)
HeldOnRecord ==
  \A k \in Configs : \A c \in held[k] : usages[c] = k /\ seenUsages[c] = k

(* no copy says that a config is deleted when it is not; *)
DeletionStands ==
  \A k \in Configs :
    \/ seenConfigs[k].state = "deleting"
    \/ pass[k].active /\ pass[k].config.state = "deleting"
    => configs[k].state # "exists"

(* and a pass that has read the deletion has counted them. *)
HeldCounted ==
  \A k \in Configs :
    /\ Kind[k] = "ProviderConfig"
    /\ pass[k].active
    /\ pass[k].config.state = "deleting"
    => held[k] \subseteq pass[k].users

UsageInv ==
  /\ UsageTypeOK
  /\ HeldOnRecord
  /\ DeletionStands
  /\ HeldCounted
=============================================================================
