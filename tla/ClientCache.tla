---------------------------- MODULE ClientCache ----------------------------
(***************************************************************************)
(* Cache of internal/clients/strapi/cache.go: one Client per effective     *)
(* configuration for the lifetime of the process.  Get holds the mutex     *)
(* from the look-up to the insertion.  Clients are numbered in the order   *)
(* they are built; each is a StrapiClient with its own token.              *)
(***************************************************************************)
EXTENDS Naturals, Sequences

CONSTANTS
  Workers,        \* the goroutines that may be inside Get at the same time
  NoWorker,       \* the value of cacheMu when it is unlocked
  Servers,        \* values of Endpoint and InsecureSkipTLSVerify
  Credentials,    \* values of Credentials
  Constructible,  \* the configurations New accepts
  NoCfg           \* arg of a worker that asks for nothing

Cfgs == [server : Servers, creds : Credentials]

(* What those who instantiate this module have to assume. *)
CacheConstants == NoWorker \notin Workers /\ NoCfg \notin Cfgs

VARIABLES
  cacheMu,   \* the holder of Cache.mu
  clients,   \* Cache.clients: cache key -> number of the client
  built,     \* the configuration each client was built with
  get,       \* where each worker is inside Get
  arg,       \* the configuration it asked for, NoCfg when idle
  handle     \* the client it was given, 0 if none

cacheVars == <<cacheMu, clients, built, get, arg, handle>>

NoClient == 0

(* Mutant of cacheKey: the credentials are left out. *)
cacheKeyOfServer(cfg) == <<cfg.server>>

(* Mutant of cacheKey: the endpoint is left out. *)
cacheKeyOfCredentials(cfg) == <<cfg.creds>>

(* The fields that are hashed, in their order; SHA-256 is taken for
   injective. *)
cacheKey(cfg) == <<cfg.server, cfg.creds>>

NoClients == [k \in {} |-> NoClient]

CacheInit ==
  /\ cacheMu = NoWorker
  /\ clients = NoClients
  /\ built = <<>>
  /\ get = [w \in Workers |-> "idle"]
  /\ arg = [w \in Workers |-> NoCfg]
  /\ handle = [w \in Workers |-> NoClient]

GetCall(w, cfg) ==
  /\ get[w] = "idle"
  /\ get' = [get EXCEPT ![w] = "lock"]
  /\ arg' = [arg EXCEPT ![w] = cfg]
  /\ UNCHANGED <<cacheMu, clients, built, handle>>

GetHit(w) ==
  /\ get[w] = "lock"
  /\ cacheMu = NoWorker
  /\ cacheKey(arg[w]) \in DOMAIN clients
  /\ handle' = [handle EXCEPT ![w] = clients[cacheKey(arg[w])]]
  /\ get' = [get EXCEPT ![w] = "held"]
  /\ UNCHANGED <<cacheMu, clients, built, arg>>

(* Mutant of GetMiss: the mutex guards the look-up only. *)
GetMissUnlocked(w) ==
  /\ get[w] = "lock"
  /\ cacheMu = NoWorker
  /\ cacheKey(arg[w]) \notin DOMAIN clients
  /\ get' = [get EXCEPT ![w] = "new"]
  /\ UNCHANGED <<cacheMu, clients, built, arg, handle>>

GetMiss(w) ==
  /\ get[w] = "lock"
  /\ cacheMu = NoWorker
  /\ cacheKey(arg[w]) \notin DOMAIN clients
  /\ cacheMu' = w
  /\ get' = [get EXCEPT ![w] = "new"]
  /\ UNCHANGED <<clients, built, arg, handle>>

(* New, the insertion and the deferred Unlock. *)
Build(w) ==
  /\ get[w] = "new"
  /\ cacheMu' = NoWorker
  /\ IF arg[w] \in Constructible
     THEN LET n == Len(built) + 1
              key == cacheKey(arg[w])
          IN  /\ built' = Append(built, arg[w])
              /\ clients' = [k \in DOMAIN clients \cup {key} |->
                               IF k = key THEN n ELSE clients[k]]
              /\ handle' = [handle EXCEPT ![w] = n]
              /\ get' = [get EXCEPT ![w] = "held"]
              /\ UNCHANGED arg
     ELSE /\ get' = [get EXCEPT ![w] = "idle"]
          /\ arg' = [arg EXCEPT ![w] = NoCfg]
          /\ UNCHANGED <<clients, built, handle>>

(* The reconcile that got the client ends: Disconnect does nothing. *)
Drop(w) ==
  /\ get[w] = "held"
  /\ get' = [get EXCEPT ![w] = "idle"]
  /\ arg' = [arg EXCEPT ![w] = NoCfg]
  /\ handle' = [handle EXCEPT ![w] = NoClient]
  /\ UNCHANGED <<cacheMu, clients, built>>

(* A new process starts with NewCache. *)
Restarted ==
  /\ cacheMu' = NoWorker
  /\ clients' = NoClients
  /\ built' = <<>>
  /\ get' = [w \in Workers |-> "idle"]
  /\ arg' = [w \in Workers |-> NoCfg]
  /\ handle' = [w \in Workers |-> NoClient]

GetStep(w) == GetHit(w) \/ GetMiss(w) \/ Build(w)

CacheNext ==
  \/ \E w \in Workers :
       GetStep(w) \/ Drop(w) \/ \E cfg \in Cfgs : GetCall(w, cfg)
  \/ Restarted

CacheSpec == CacheInit /\ [][CacheNext]_cacheVars

-----------------------------------------------------------------------------
CacheTypeOK ==
  /\ cacheMu \in Workers \cup {NoWorker}
  /\ built \in Seq(Cfgs)
  /\ DOMAIN clients \subseteq Servers \X Credentials
  /\ \A k \in DOMAIN clients : clients[k] \in 1..Len(built)
  /\ get \in [Workers -> {"idle", "lock", "new", "held"}]
  /\ arg \in [Workers -> Cfgs \cup {NoCfg}]
  /\ \A w \in Workers : get[w] = "idle" <=> arg[w] = NoCfg
  /\ handle \in [Workers -> 0..Len(built)]
  /\ \A w \in Workers : get[w] = "held" <=> handle[w] # NoClient

(* Seen without its mutex, its map and its keys, the cache is a registry that
   hands out the one client of a configuration in a single step. *)
Registry == INSTANCE SharedClients
  WITH registered <- built, asked <- arg, has <- handle

SharesClients == Registry!RegistrySpec

(* However many reconciles ask at once, a process never builds two clients
   for one configuration: with StrapiClient's bound on the logins of a client
   this is the "one login per provider lifetime" of cache.go. *)
OneClientPerConfig ==
  \A i, j \in 1..Len(built) : built[i] = built[j] => i = j

(* Nobody is given a client that logs in elsewhere, or as somebody else, than
   its own configuration says. *)
HandleFits ==
  \A w \in Workers : get[w] = "held" =>
    handle[w] \in 1..Len(built) /\ built[handle[w]] = arg[w]

(* What the mutex protects: whoever builds holds it and has found no client,
   and the map lists exactly the clients built. *)
BuildsAlone ==
  \A w \in Workers : get[w] = "new" <=> cacheMu = w

MissStands ==
  \A w \in Workers :
    get[w] = "new" => cacheKey(arg[w]) \notin DOMAIN clients

Indexed ==
  /\ \A k \in DOMAIN clients :
       /\ clients[k] \in 1..Len(built)
       /\ cacheKey(built[clients[k]]) = k
  /\ \A i \in 1..Len(built) :
       /\ cacheKey(built[i]) \in DOMAIN clients
       /\ clients[cacheKey(built[i])] = i

CacheInv ==
  /\ CacheTypeOK
  /\ OneClientPerConfig
  /\ HandleFits
  /\ BuildsAlone
  /\ MissStands
  /\ Indexed
=============================================================================
