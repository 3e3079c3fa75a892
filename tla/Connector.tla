----------------------------- MODULE Connector -----------------------------
(***************************************************************************)
(* The whole of Connect in                                                 *)
(* internal/controller/rolepermissions/rolepermissions.go, and the use of  *)
(* what it returns: UsageTracking up to the config's spec, then the Secret *)
(* and ParseCredentials, then ClientCache for the client.  Users rotate    *)
(* passwords in Strapi and in the Secrets, one after the other, and move a *)
(* config to another server.  A worker of ClientCache is the reconcile of  *)
(* one CR.                                                                 *)
(***************************************************************************)
EXTENDS UsageTracking, Sequences

CONSTANTS
  Passwords,    \* contents of a Secret that ParseCredentials accepts
  Malformed,    \* contents that it rejects
  FirstPassword,
  NoWorker, NoCfg

ASSUME PasswordsAssumption ==
  FirstPassword \in Passwords /\ Malformed \notin Passwords

VARIABLES
  secrets,      \* API server: config -> content of the Secret it names
  accepted,     \* Strapi: server -> the password it accepts at a login
  cacheMu, clients, built, get, arg, handle

cacheVars == <<cacheMu, clients, built, get, arg, handle>>
passwordVars == <<secrets, accepted>>
vars == <<usageVars, cacheVars, passwordVars>>

Cache == INSTANCE ClientCache
  WITH Workers <- CRs, Servers <- Specs, Credentials <- Passwords,
       Constructible <- [server : Specs, creds : Passwords]

ASSUME CacheAssumption == Cache!CacheConstants

Init ==
  /\ UsageInit
  /\ Cache!CacheInit
  /\ secrets = [k \in Configs |-> FirstPassword]
  /\ accepted = [s \in Specs |-> FirstPassword]

-----------------------------------------------------------------------------
(***************************************************************************)
(* Connect and the reconcile.                                              *)
(***************************************************************************)

ConnectStep(c) ==
  /\ Begin(c) \/ Track(c) \/ GetConfig(c)
  /\ UNCHANGED <<cacheVars, passwordVars>>

(* The credential extractor and ParseCredentials. *)
ReadSecret(c) ==
  /\ conn[c] = "connected"
  /\ get[c] = "idle"
  /\ LET content == secrets[obj[c].ref] IN
     IF content = Malformed
     THEN GiveUp(c) /\ UNCHANGED cacheVars
     ELSE /\ Cache!GetCall(c, [server |-> used[c], creds |-> content])
          /\ UNCHANGED usageVars
  /\ UNCHANGED passwordVars

GetClient(c) ==
  /\ Cache!GetStep(c)
  /\ UNCHANGED <<usageVars, passwordVars>>

Client(c) == built[handle[c]]

(* The requests of the reconcile succeed: the password is right, or an
   earlier login left a token that Strapi still accepts. *)
Succeed(c) ==
  /\ get[c] = "held"
  /\ Complete(c)
  /\ Cache!Drop(c)
  /\ UNCHANGED passwordVars

(* Mutant of Refused: the client is put out of the cache. *)
RefusedEvicts(c) ==
  /\ get[c] = "held"
  /\ Client(c).creds # accepted[Client(c).server]
  /\ GiveUp(c)
  /\ clients' = [k \in {k \in DOMAIN clients : clients[k] # handle[c]} |->
                   clients[k]]
  /\ get' = [get EXCEPT ![c] = "idle"]
  /\ arg' = [arg EXCEPT ![c] = NoCfg]
  /\ handle' = [handle EXCEPT ![c] = 0]
  /\ UNCHANGED <<cacheMu, built, passwordVars>>

(* Strapi refuses the login. *)
Refused(c) ==
  /\ get[c] = "held"
  /\ Client(c).creds # accepted[Client(c).server]
  /\ GiveUp(c)
  /\ Cache!Drop(c)
  /\ UNCHANGED passwordVars

(* A request of the reconcile fails for another reason. *)
Fails(c) ==
  /\ Interrupted(c)
  /\ get[c] \in {"idle", "held"}
  /\ IF get[c] = "held" THEN Cache!Drop(c) ELSE UNCHANGED cacheVars
  /\ UNCHANGED passwordVars

-----------------------------------------------------------------------------
ControllerStep(k) ==
  /\ ConfigSteps(k)
  /\ UNCHANGED <<cacheVars, passwordVars>>

ServerStep(c) ==
  /\ Collect(c)
  /\ UNCHANGED <<cacheVars, passwordVars>>

(* The informers. *)
ConfigEvent(k) ==
  /\ SyncConfig(k)
  /\ UNCHANGED <<cacheVars, passwordVars>>

UsageEvent(c) ==
  /\ SyncUsage(c)
  /\ UNCHANGED <<cacheVars, passwordVars>>

UserStep ==
  /\ UserEdits
  /\ UNCHANGED <<cacheVars, passwordVars>>

ChangeSecret(k, content) ==
  /\ EditElsewhere
  /\ secrets[k] # content
  /\ secrets' = [secrets EXCEPT ![k] = content]
  /\ UNCHANGED <<accepted, cacheVars>>

ChangePassword(s, p) ==
  /\ EditElsewhere
  /\ accepted[s] # p
  /\ accepted' = [accepted EXCEPT ![s] = p]
  /\ UNCHANGED <<secrets, cacheVars>>

Rotation ==
  \/ \E k \in Configs, content \in Passwords \cup {Malformed} :
       ChangeSecret(k, content)
  \/ \E s \in Specs, p \in Passwords : ChangePassword(s, p)

ControllerFails(k) ==
  /\ PassFails(k)
  /\ UNCHANGED <<cacheVars, passwordVars>>

Die ==
  /\ Restart
  /\ Cache!Restarted
  /\ UNCHANGED passwordVars

Reconcile(c) ==
  ConnectStep(c) \/ ReadSecret(c) \/ GetClient(c) \/ Refused(c)

Next ==
  \/ \E c \in CRs :
       Reconcile(c) \/ Succeed(c) \/ Fails(c) \/ ServerStep(c) \/ UsageEvent(c)
  \/ \E k \in Configs : ControllerStep(k) \/ ControllerFails(k) \/ ConfigEvent(k)
  \/ UserStep
  \/ Rotation
  \/ Die

Spec == Init /\ [][Next]_vars

(***************************************************************************)
(* Fairness.  A CR is polled again and its reconcile goes on; when the     *)
(* password is right it keeps getting the chance to succeed.  The mutex of *)
(* the cache goes to a waiter that has starved.  Watch events arrive, a    *)
(* queued config is looked at, garbage is collected.  The hourly resync of *)
(* main.go, which queues every config, is left out: events must do.        *)
(***************************************************************************)
Fairness ==
  /\ \A c \in CRs :
       /\ WF_vars(Reconcile(c)) /\ SF_vars(GetClient(c))
       /\ WF_vars(Succeed(c) /\ Client(c).creds = accepted[Client(c).server])
       /\ WF_vars(ServerStep(c)) /\ WF_vars(UsageEvent(c))
  /\ \A k \in Configs : WF_vars(ControllerStep(k)) /\ WF_vars(ConfigEvent(k))

FairSpec == Spec /\ Fairness

-----------------------------------------------------------------------------
(***************************************************************************)
(* Properties.                                                             *)
(***************************************************************************)

TypeOK ==
  /\ UsageTypeOK
  /\ Cache!CacheTypeOK
  /\ secrets \in [Configs -> Passwords \cup {Malformed}]
  /\ accepted \in [Specs -> Passwords]
  /\ \A c \in CRs : get[c] # "idle" => conn[c] = "connected"

(* The cache behind Connect: one client for one configuration, whatever
   workers come at once, and every worker has the client of the configuration
   it read. *)
OneClientPerConfig == Cache!OneClientPerConfig /\ Cache!HandleFits

(* Seen without the mutex and the map, every worker of Connect is handed the one
   client of the configuration it read in a single step. *)
SharesClients == Cache!SharesClients

(* A usage lags behind the reference of its CR, and is even wrong for a while
   when users turn a CR away and back faster than the informer follows: the
   stale copy already names the reference.  In the end it names it. *)
UsagesCatchUp ==
  \A c \in CRs : <>[](Exists(c) => usages[c] = crs[c].ref)

(* A deleted config goes once its last user has gone or turned away, although
   its controller only looks at it when an event says so. *)
ConfigsDrain ==
  \A k \in Configs :
    []<>(configs[k].state = "deleting" =>
           \E c \in CRs : Exists(c) /\ usages[c] = k)

(* A deleted CR goes: what keeps it is only a config that is missing, a Secret
   that is malformed, or a password that Strapi does not accept. *)
Reachable(k) ==
  /\ k \in Configs
  /\ configs[k].state # "none"
  /\ secrets[k] = accepted[configs[k].spec]

CRsDrain ==
  \A c \in CRs :
    []<>(crs[c].state = "deleting" => ~Reachable(crs[c].ref))

(* A rotated password or a changed endpoint takes effect without a restart,
   although clients of the old one stay in the cache: in the end every
   reconcile works with what the config and its Secret say. *)
RotationTakesEffect ==
  \A c \in CRs :
    <>[](get[c] = "held" /\ configs[obj[c].ref].state # "none" =>
           Client(c) = [server |-> configs[obj[c].ref].spec,
                        creds |-> secrets[obj[c].ref]])

(* "A ClusterProviderConfigUsage indicates that a resource is using a
   ClusterProviderConfig" (types.go:131): with it the controller of
   cluster-scoped configs keeps them too while they are in use. *)
EveryKindKept == [][KeptWhileHeld(ConfigKinds)]_usageVars
=============================================================================
