-------------------------- MODULE ConnectorProofs --------------------------
(***************************************************************************)
(* Connector implements its two components, so what is proved of each of   *)
(* them alone holds of their composition, for any CRs, configs, specs and  *)
(* passwords.                                                              *)
(***************************************************************************)
EXTENDS Connector, UsageTrackingProofs

CacheProofs == INSTANCE ClientCacheProofs
  WITH Workers <- CRs, Servers <- Specs, Credentials <- Passwords,
       Constructible <- [server : Specs, creds : Passwords]

-----------------------------------------------------------------------------
(* Seen from the configs and their users, the rest of Connect and of the cache
   stands still or is one of the ways in which a reconcile ends. *)
LEMMA StepTracks == [Next]_vars => [UsageNext]_usageVars
<1> SUFFICES ASSUME [Next]_vars PROVE [UsageNext]_usageVars
  OBVIOUS
<1>1. ASSUME NEW c \in CRs, Reconcile(c) \/ Succeed(c) \/ Fails(c)
                            \/ ServerStep(c) \/ UsageEvent(c)
      PROVE  [UsageNext]_usageVars
  BY <1>1
  DEF Reconcile, ConnectStep, ReadSecret, GetClient, Refused, Succeed, Fails,
      ServerStep, UsageEvent, UsageNext
<1>2. ASSUME NEW k \in Configs, ControllerStep(k) \/ ControllerFails(k)
                                \/ ConfigEvent(k)
      PROVE  [UsageNext]_usageVars
  BY <1>2 DEF ControllerStep, ControllerFails, ConfigEvent, UsageNext
<1>3. CASE UserStep \/ Rotation \/ Die
  BY <1>3 DEF UserStep, Rotation, ChangeSecret, ChangePassword, Die, UsageNext
<1>4. CASE UNCHANGED vars
  BY <1>4 DEF vars
<1> QED
  BY <1>1, <1>2, <1>3, <1>4 DEF Next

(* So Connector's behaviours are behaviours of UsageTracking. *)
LEMMA TracksUsages == Spec => UsageSpec
<1>1. Init => UsageInit
  BY DEF Init
<1> QED
  BY <1>1, StepTracks, PTL DEF Spec, UsageSpec

(* The accounting invariant holds of the composition. *)
THEOREM UsageInvHolds == Spec => []UsageInv
BY TracksUsages, UsageInvariance, PTL

(* A deleted ProviderConfig stays while a usage names it that named it, to its
   controller's knowledge, when it was deleted, whatever the rest of the
   provider does. *)
THEOREM UsedConfigsAreKept == Spec => InUseIsKept
BY TracksUsages, UsedConfigsStay, PTL

-----------------------------------------------------------------------------
(* The configurations that Connect asks the cache for are well-formed. *)
ConnectorTypes ==
  /\ UsageTypeOK
  /\ secrets \in [Configs -> Passwords \cup {Malformed}]

(* The composition starts with nobody in the cache and no config read. *)
LEMMA InitTypes == Init => ConnectorTypes
BY InitUsageInv, PasswordsAssumption DEF Init, UsageInv, ConnectorTypes

(* Every step keeps the types of both parts and of the passwords. *)
LEMMA StepTypes ==
  ASSUME ConnectorTypes, [Next]_vars
  PROVE  ConnectorTypes'
<1>1. UsageTypeOK'
  BY StepTracks, TypeStep DEF ConnectorTypes
<1>2. secrets' \in [Configs -> Passwords \cup {Malformed}]
  BY DEF ConnectorTypes, Next, vars, passwordVars, Reconcile, ConnectStep,
         ReadSecret, GetClient, Refused, Succeed, Fails, ServerStep, UsageEvent,
         ControllerStep, ControllerFails, ConfigEvent, UserStep, Rotation,
         ChangeSecret, ChangePassword, Die
<1> QED
  BY <1>1, <1>2 DEF ConnectorTypes

(* So they hold throughout. *)
LEMMA TypesHold == Spec => []ConnectorTypes
BY InitTypes, StepTypes, PTL DEF Spec

(* A step of the composition is a step of the cache or leaves it alone. *)
LEMMA StepCaches ==
  ASSUME ConnectorTypes, [Next]_vars
  PROVE  [Cache!CacheNext]_(Cache!cacheVars)
<1> DEFINE Goal == [Cache!CacheNext]_(Cache!cacheVars)
<1> USE DEF Cache!cacheVars, cacheVars, Cache!CacheNext
<1>1. ASSUME NEW c \in CRs, ReadSecret(c) PROVE Goal
  <2>1. CASE secrets[obj[c].ref] = Malformed
    BY <1>1, <2>1 DEF ReadSecret
  <2>2. CASE secrets[obj[c].ref] # Malformed
    <3> DEFINE cfg == [server |-> used[c], creds |-> secrets[obj[c].ref]]
    <3>1. used[c] \in Specs /\ secrets[obj[c].ref] \in Passwords
      BY <1>1, <2>2 DEF ReadSecret, ConnectorTypes, UsageTypeOK
    <3>2. cfg \in Cache!Cfgs
      BY <3>1 DEF Cache!Cfgs
    <3>3. Cache!GetCall(c, cfg)
      BY <1>1, <2>2 DEF ReadSecret
    <3> QED
      BY <3>2, <3>3
  <2> QED
    BY <2>1, <2>2
<1>2. ASSUME NEW c \in CRs, GetClient(c) PROVE Goal
  BY <1>2 DEF GetClient
<1>3. ASSUME NEW c \in CRs, Succeed(c) \/ Refused(c) \/ Fails(c) PROVE Goal
  BY <1>3 DEF Succeed, Refused, Fails
<1>4. CASE Die
  BY <1>4 DEF Die
<1>5. ASSUME NEW c \in CRs, ConnectStep(c) \/ ServerStep(c) \/ UsageEvent(c)
      PROVE  Goal
  BY <1>5 DEF ConnectStep, ServerStep, UsageEvent
<1>6. ASSUME NEW k \in Configs,
             ControllerStep(k) \/ ControllerFails(k) \/ ConfigEvent(k)
      PROVE  Goal
  BY <1>6 DEF ControllerStep, ControllerFails, ConfigEvent
<1>7. CASE UserStep \/ Rotation
  BY <1>7 DEF UserStep, Rotation, ChangeSecret, ChangePassword
<1>8. CASE UNCHANGED vars
  BY <1>8 DEF vars
<1> QED
  BY <1>1, <1>2, <1>3, <1>4, <1>5, <1>6, <1>7, <1>8 DEF Next, Reconcile

(* What the workers do with the cache is what ClientCache allows. *)
LEMMA UsesCache == Spec => Cache!CacheSpec
<1>1. Init => Cache!CacheInit
  BY DEF Init
<1> QED
  BY <1>1, TypesHold, StepCaches, PTL DEF Spec, Cache!CacheSpec

(* The instance that brings the theorems and the one in Connector are the
   same. *)
LEMMA SameCache ==
  /\ Cache!CacheInit <=> CacheProofs!CacheInit
  /\ [Cache!CacheNext]_(Cache!cacheVars)
       <=> [CacheProofs!CacheNext]_(CacheProofs!cacheVars)
  /\ OneClientPerConfig
       <=> CacheProofs!OneClientPerConfig /\ CacheProofs!HandleFits
<1> USE DEF Cache!NoClient, CacheProofs!NoClient, Cache!NoClients,
            CacheProofs!NoClients, Cache!Cfgs, CacheProofs!Cfgs,
            Cache!cacheKey, CacheProofs!cacheKey,
            Cache!cacheVars, CacheProofs!cacheVars
<1>1. Cache!CacheInit <=> CacheProofs!CacheInit
  BY DEF Cache!CacheInit, CacheProofs!CacheInit
<1>2. \A w \in CRs : Cache!GetStep(w) <=> CacheProofs!GetStep(w)
  BY DEF Cache!GetStep, CacheProofs!GetStep, Cache!GetHit, CacheProofs!GetHit,
         Cache!GetMiss, CacheProofs!GetMiss, Cache!Build, CacheProofs!Build
<1>3. \A w \in CRs : Cache!Drop(w) <=> CacheProofs!Drop(w)
  BY DEF Cache!Drop, CacheProofs!Drop
<1>4. \A w \in CRs : \A cfg \in Cache!Cfgs :
        Cache!GetCall(w, cfg) <=> CacheProofs!GetCall(w, cfg)
  BY DEF Cache!GetCall, CacheProofs!GetCall
<1>5. Cache!Restarted <=> CacheProofs!Restarted
  BY DEF Cache!Restarted, CacheProofs!Restarted
<1>6. Cache!CacheNext <=> CacheProofs!CacheNext
  BY <1>2, <1>3, <1>4, <1>5 DEF Cache!CacheNext, CacheProofs!CacheNext
<1>7. OneClientPerConfig
        <=> CacheProofs!OneClientPerConfig /\ CacheProofs!HandleFits
  BY DEF OneClientPerConfig, Cache!OneClientPerConfig, Cache!HandleFits,
         CacheProofs!OneClientPerConfig, CacheProofs!HandleFits
<1> QED
  BY <1>1, <1>6, <1>7

(* So its invariant holds of the composition. *)
LEMMA CacheInvHolds == Spec => []CacheProofs!CacheInv
<1>0. CacheProofs!CacheConstants
  BY CacheAssumption
  DEF Cache!CacheConstants, CacheProofs!CacheConstants, Cache!Cfgs,
      CacheProofs!Cfgs
<1>1. CacheProofs!CacheInit => CacheProofs!CacheInv
  BY CacheProofs!InitCacheInv, <1>0
<1>2. CacheProofs!CacheInv /\ [CacheProofs!CacheNext]_(CacheProofs!cacheVars)
        => CacheProofs!CacheInv'
  BY CacheProofs!CacheStep, <1>0
<1> QED
  BY UsesCache, SameCache, <1>1, <1>2, PTL DEF Cache!CacheSpec

(* One client for one configuration, and everybody has the right one, however
   many CRs are reconciled at once. *)
THEOREM ConnectorShares == Spec => []OneClientPerConfig
<1>1. CacheProofs!CacheInv => OneClientPerConfig
  BY SameCache DEF CacheProofs!CacheInv
<1> QED
  BY CacheInvHolds, <1>1, PTL

(* The two instances of the registry are the same. *)
LEMMA SameRegistry ==
  /\ CacheProofs!Registry!RegistryInit <=> Cache!Registry!RegistryInit
  /\ [CacheProofs!Registry!RegistryNext]_(CacheProofs!Registry!registryVars)
       <=> [Cache!Registry!RegistryNext]_(Cache!Registry!registryVars)
<1> USE DEF Cache!Registry!Known, CacheProofs!Registry!Known,
            Cache!Registry!Waiting, CacheProofs!Registry!Waiting,
            Cache!Registry!Nobody, CacheProofs!Registry!Nobody,
            Cache!Registry!Nothing, CacheProofs!Registry!Nothing,
            Cache!Registry!registryVars, CacheProofs!Registry!registryVars
<1>1. CacheProofs!Registry!RegistryInit <=> Cache!Registry!RegistryInit
  BY DEF CacheProofs!Registry!RegistryInit, Cache!Registry!RegistryInit
<1>2. \A w \in CRs :
        /\ \A cfg \in [server : Specs, creds : Passwords] :
             CacheProofs!Registry!Ask(w, cfg) <=> Cache!Registry!Ask(w, cfg)
        /\ CacheProofs!Registry!Give(w) <=> Cache!Registry!Give(w)
        /\ CacheProofs!Registry!Register(w) <=> Cache!Registry!Register(w)
        /\ CacheProofs!Registry!Refuse(w) <=> Cache!Registry!Refuse(w)
        /\ CacheProofs!Registry!Return(w) <=> Cache!Registry!Return(w)
  BY DEF CacheProofs!Registry!Ask, Cache!Registry!Ask,
         CacheProofs!Registry!Give, Cache!Registry!Give,
         CacheProofs!Registry!Register, Cache!Registry!Register,
         CacheProofs!Registry!Refuse, Cache!Registry!Refuse,
         CacheProofs!Registry!Return, Cache!Registry!Return
<1>3. CacheProofs!Registry!Forget <=> Cache!Registry!Forget
  BY DEF CacheProofs!Registry!Forget, Cache!Registry!Forget
<1> QED
  BY <1>1, <1>2, <1>3
  DEF CacheProofs!Registry!RegistryNext, Cache!Registry!RegistryNext

(* Connect hands out clients as the registry does, one for each configuration
   and in a single step, whatever the interleaving of the workers, the mutex
   and the deaths of the process. *)
THEOREM ConnectorIsRegistry == Spec => SharesClients
<1>0. CacheProofs!CacheConstants
  BY CacheAssumption
  DEF Cache!CacheConstants, CacheProofs!CacheConstants, Cache!Cfgs,
      CacheProofs!Cfgs
<1>1. Cache!CacheInit => Cache!Registry!RegistryInit
  BY SameCache, SameRegistry, CacheProofs!RegistryStart
<1>2. CacheProofs!CacheInv /\ [Cache!CacheNext]_(Cache!cacheVars)
        => [Cache!Registry!RegistryNext]_(Cache!Registry!registryVars)
  BY <1>0, SameCache, SameRegistry, CacheProofs!RegistryStep
<1> QED
  BY UsesCache, CacheInvHolds, <1>1, <1>2, PTL
  DEF Cache!CacheSpec, SharesClients, Cache!SharesClients,
      Cache!Registry!RegistrySpec

-----------------------------------------------------------------------------
(* A worker is inside the cache only while its reconcile is connected. *)
Coupled == \A c \in CRs : get[c] # "idle" => conn[c] = "connected"

(* Whoever is in the cache has read its config: the calls around Get come after
   GetConfig, and every way out of the reconcile leaves the cache too. *)
LEMMA CoupledStep ==
  ASSUME UsageTypeOK, Coupled, get \in [CRs -> {"idle", "lock", "new", "held"}],
         [Next]_vars
  PROVE  Coupled'
<1> USE DEF UsageTypeOK, Coupled
<1>1. ASSUME NEW c \in CRs, ConnectStep(c) PROVE Coupled'
  BY <1>1 DEF ConnectStep, Begin, Track, GetConfig, Leave, cacheVars
<1>2. ASSUME NEW c \in CRs, ReadSecret(c) PROVE Coupled'
  BY <1>2 DEF ReadSecret, GiveUp, Leave, Cache!GetCall, cacheVars, usageVars,
              connVars
<1>3. ASSUME NEW c \in CRs, GetClient(c) PROVE Coupled'
  BY <1>3 DEF GetClient, Cache!GetStep, Cache!GetHit, Cache!GetMiss, Cache!Build,
              usageVars, connVars
<1>4. ASSUME NEW c \in CRs, Succeed(c) \/ Refused(c) PROVE Coupled'
  BY <1>4 DEF Succeed, Refused, Complete, GiveUp, Leave, Cache!Drop
<1>5. ASSUME NEW c \in CRs, Fails(c) PROVE Coupled'
  BY <1>5 DEF Fails, Interrupted, Leave, Cache!Drop, cacheVars
<1>6. CASE Die
  BY <1>6 DEF Die, Restart, Cache!Restarted
<1>7. ASSUME UNCHANGED <<conn, get>> PROVE Coupled'
  BY <1>7
<1>8. ASSUME NEW c \in CRs, ServerStep(c) \/ UsageEvent(c)
      PROVE  UNCHANGED <<conn, get>>
  BY <1>8 DEF ServerStep, UsageEvent, Collect, SyncUsage, connVars, cacheVars
<1>9. ASSUME NEW k \in Configs,
             ControllerStep(k) \/ ControllerFails(k) \/ ConfigEvent(k)
      PROVE  UNCHANGED <<conn, get>>
  BY <1>9 DEF ControllerStep, ControllerFails, ConfigEvent, ConfigSteps, Look,
              Decide, PassFails, SyncConfig, connVars, cacheVars
<1>10. ASSUME UserStep \/ Rotation PROVE UNCHANGED <<conn, get>>
  BY <1>10 DEF UserStep, UserEdits, DeleteCR, EditRef, DeleteConfig, EditConfig,
               Rotation, ChangeSecret, ChangePassword, EditElsewhere, Edit,
               connVars, cacheVars
<1>11. CASE UNCHANGED vars
  BY <1>7, <1>11 DEF vars, usageVars, connVars, cacheVars
<1> QED
  BY <1>1, <1>2, <1>3, <1>4, <1>5, <1>6, <1>7, <1>8, <1>9, <1>10, <1>11
  DEF Next, Reconcile

(* What a server accepts stays a password. *)
LEMMA AcceptedStep ==
  ASSUME accepted \in [Specs -> Passwords], [Next]_vars
  PROVE  accepted' \in [Specs -> Passwords]
BY DEF Next, vars, passwordVars, Reconcile, ConnectStep, ReadSecret, GetClient,
       Refused, Succeed, Fails, ServerStep, UsageEvent, ControllerStep,
       ControllerFails, ConfigEvent, UserStep, Rotation, ChangeSecret,
       ChangePassword, Die

(* Type correctness of the composition, the coupling of its two program
   counters included. *)
THEOREM ConnectorTypeCorrect == Spec => []TypeOK
<1>1. Spec => []Cache!CacheTypeOK
  <2>1. CacheProofs!CacheInv => Cache!CacheTypeOK
    BY DEF CacheProofs!CacheInv, CacheProofs!CacheTypeOK, Cache!CacheTypeOK,
           CacheProofs!Cfgs, Cache!Cfgs, CacheProofs!NoClient, Cache!NoClient
  <2> QED
    BY CacheInvHolds, <2>1, PTL
<1>2. Init => Coupled /\ accepted \in [Specs -> Passwords]
  BY PasswordsAssumption DEF Init, Coupled, Cache!CacheInit
<1>3. Cache!CacheTypeOK => get \in [CRs -> {"idle", "lock", "new", "held"}]
  BY DEF Cache!CacheTypeOK
<1>4. ConnectorTypes /\ Cache!CacheTypeOK /\ Coupled /\ [Next]_vars => Coupled'
  BY <1>3, CoupledStep DEF ConnectorTypes
<1>5. ConnectorTypes /\ Cache!CacheTypeOK /\ Coupled
        /\ accepted \in [Specs -> Passwords] => TypeOK
  BY DEF TypeOK, ConnectorTypes, Coupled
<1>6. accepted \in [Specs -> Passwords] /\ [Next]_vars
        => (accepted \in [Specs -> Passwords])'
  BY AcceptedStep
<1> QED
  BY TypesHold, <1>1, <1>2, <1>4, <1>5, <1>6, PTL DEF Spec
=============================================================================
