------------------------- MODULE ClientCacheProofs -------------------------
(***************************************************************************)
(* Proofs about ClientCache, for any workers and any configurations: the   *)
(* mutex makes look-up and insertion one step, and the key tells           *)
(* configurations apart.                                                   *)
(***************************************************************************)
EXTENDS ClientCache, TLAPS

(* Different configurations have different keys. *)
LEMMA KeyInjective ==
  ASSUME NEW x \in Cfgs, NEW y \in Cfgs, cacheKey(x) = cacheKey(y)
  PROVE  x = y
BY DEF Cfgs, cacheKey

(* An empty cache. *)
LEMMA InitCacheInv ==
  ASSUME CacheConstants, CacheInit
  PROVE  CacheInv
BY DEF CacheConstants, CacheInit, CacheInv, CacheTypeOK, OneClientPerConfig,
       HandleFits, BuildsAlone, MissStands, Indexed, NoClients, NoClient

(* Before the next client is built nobody has one for its configuration. *)
LEMMA FirstOfItsKind ==
  ASSUME CacheInv, NEW w \in Workers, get[w] = "new"
  PROVE  \A i \in 1..Len(built) : built[i] # arg[w]
BY DEF CacheInv, MissStands, Indexed

(* Every step of Get, of its caller and of a restart. *)
LEMMA CacheStep ==
  ASSUME CacheConstants, CacheInv, [CacheNext]_cacheVars
  PROVE  CacheInv'
<1> USE DEF CacheInv, OneClientPerConfig, HandleFits, BuildsAlone, MissStands,
            Indexed
<1>a. /\ built \in Seq(Cfgs)
      /\ Len(built) \in Nat
      /\ \A i \in 1..Len(built) : built[i] \in Cfgs
      /\ \A w \in Workers : get[w] # "idle" => arg[w] \in Cfgs
  BY DEF CacheTypeOK
<1>b. NoWorker \notin Workers /\ NoCfg \notin Cfgs
  BY DEF CacheConstants
<1>1. ASSUME NEW w \in Workers, NEW cfg \in Cfgs, GetCall(w, cfg)
      PROVE CacheInv'
  BY <1>a, <1>1, <1>b DEF GetCall, CacheTypeOK
<1>2. ASSUME NEW w \in Workers, GetHit(w) PROVE CacheInv'
  <2>1. built[clients[cacheKey(arg[w])]] = arg[w]
    BY <1>a, <1>2, KeyInjective DEF GetHit
  <2> QED
    BY <1>a, <1>2, <2>1, <1>b DEF GetHit, CacheTypeOK, NoClient
<1>3. ASSUME NEW w \in Workers, GetMiss(w) PROVE CacheInv'
  BY <1>a, <1>3, <1>b DEF GetMiss, CacheTypeOK
<1>4. ASSUME NEW w \in Workers, Build(w) PROVE CacheInv'
  <2>1. cacheMu = w /\ \A v \in Workers \ {w} : get[v] # "new"
    BY <1>4 DEF Build
  <2>2. CASE arg[w] \notin Constructible
    <3>1. /\ cacheMu' = NoWorker
          /\ get' = [get EXCEPT ![w] = "idle"]
          /\ arg' = [arg EXCEPT ![w] = NoCfg]
          /\ UNCHANGED <<clients, built, handle>>
      BY <1>4, <2>2 DEF Build
    <3>2. BuildsAlone' /\ MissStands'
      BY <2>1, <3>1, <1>b DEF CacheTypeOK
    <3> QED
      <4>1. CacheTypeOK'
        BY <1>a, <1>4, <3>1, <1>b DEF Build, CacheTypeOK, NoClient
      <4>2. HandleFits'
        BY <3>1 DEF CacheTypeOK
      <4> QED
        BY <1>a, <3>1, <3>2, <4>1, <4>2
  <2>3. CASE arg[w] \in Constructible
    <3> DEFINE n == Len(built) + 1
               key == cacheKey(arg[w])
    <3>1. /\ built' = Append(built, arg[w])
          /\ clients' = [k \in DOMAIN clients \cup {key} |->
                           IF k = key THEN n ELSE clients[k]]
          /\ handle' = [handle EXCEPT ![w] = n]
          /\ get' = [get EXCEPT ![w] = "held"]
          /\ arg' = arg /\ cacheMu' = NoWorker
      BY <1>4, <2>3 DEF Build
    <3>2. /\ built' \in Seq(Cfgs) /\ Len(built') = n
          /\ \A i \in 1..Len(built) : built'[i] = built[i]
          /\ built'[n] = arg[w] /\ arg[w] \in Cfgs
          /\ \A i \in 1..n : i = n \/ i \in 1..Len(built)
      BY <1>4, <1>a, <3>1 DEF Build
    <3>3. key \in Servers \X Credentials
      BY <3>2 DEF cacheKey, Cfgs
    <3>4. \A i \in 1..Len(built) : built[i] # arg[w]
      BY <1>4, FirstOfItsKind DEF Build
    <3>5. CacheTypeOK'
      BY <1>a, <1>4, <3>1, <3>2, <3>3 DEF Build, CacheTypeOK
    <3>6. OneClientPerConfig'
      BY <1>a, <3>2, <3>4
    <3>7. HandleFits'
      BY <1>a, <3>1, <3>2 DEF CacheTypeOK
    <3>8. BuildsAlone' /\ MissStands'
      BY <2>1, <3>1, <1>b DEF CacheTypeOK
    <3>9. key \notin DOMAIN clients
      BY <1>4 DEF Build
    <3>10. Indexed'
      BY <1>a, <3>1, <3>2, <3>9
    <3> QED
      BY <3>5, <3>6, <3>7, <3>8, <3>10
  <2> QED
    BY <2>2, <2>3
<1>5. ASSUME NEW w \in Workers, Drop(w) PROVE CacheInv'
  BY <1>a, <1>5, <1>b DEF Drop, CacheTypeOK, NoClient
<1>6. CASE Restarted
  BY <1>6, <1>b DEF Restarted, CacheTypeOK, NoClients, NoClient
<1>7. CASE UNCHANGED cacheVars
  BY <1>7 DEF cacheVars, CacheTypeOK
<1> QED
  BY <1>1, <1>2, <1>3, <1>4, <1>5, <1>6, <1>7 DEF CacheNext, GetStep

(* What the mutex of Get protects, in every reachable state. *)
THEOREM CacheInvariance ==
  ASSUME CacheConstants
  PROVE  CacheSpec => []CacheInv
<1>1. CacheInit => CacheInv
  BY InitCacheInv
<1>2. CacheInv /\ [CacheNext]_cacheVars => CacheInv'
  BY CacheStep
<1> QED
  BY <1>1, <1>2, PTL DEF CacheSpec

(* One client for one configuration for the lifetime of the process, and each
   worker has the client of the configuration it asked for. *)
THEOREM ClientsAreShared ==
  ASSUME CacheConstants
  PROVE  CacheSpec => [](OneClientPerConfig /\ HandleFits)
<1>1. CacheInv => OneClientPerConfig /\ HandleFits
  BY DEF CacheInv
<1> QED
  BY CacheInvariance, <1>1, PTL

-----------------------------------------------------------------------------
(* Every step of the cache is a step of the registry or changes nothing in it:
   the look-up that finds a client gives it, and the insertion registers one,
   because whoever builds holds the mutex and nobody has built meanwhile. *)
LEMMA RegistryStep ==
  ASSUME CacheConstants, CacheInv, [CacheNext]_cacheVars
  PROVE  [Registry!RegistryNext]_(Registry!registryVars)
<1> DEFINE Goal == [Registry!RegistryNext]_(Registry!registryVars)
<1> USE DEF Registry!registryVars, Registry!RegistryNext
<1>a. /\ built \in Seq(Cfgs) /\ Len(built) \in Nat
      /\ \A w \in Workers : get[w] = "idle" <=> arg[w] = NoCfg
      /\ \A w \in Workers : get[w] = "held" <=> handle[w] # 0
  BY DEF CacheInv, CacheTypeOK, NoClient
<1>1. ASSUME NEW w \in Workers, NEW cfg \in Cfgs, GetCall(w, cfg)
      PROVE  Goal
  <2>1. Registry!Ask(w, cfg)
    BY <1>a, <1>1 DEF GetCall, Registry!Ask
  <2> QED
    BY <2>1 DEF Cfgs
<1>2. ASSUME NEW w \in Workers, GetHit(w) PROVE Goal
  <2> DEFINE n == clients[cacheKey(arg[w])]
  <2>1. n \in 1..Len(built) /\ cacheKey(built[n]) = cacheKey(arg[w])
    BY <1>2 DEF GetHit, CacheInv, Indexed
  <2>2. arg[w] \in Cfgs /\ built[n] \in Cfgs
    BY <1>a, <1>2, <2>1 DEF GetHit, CacheInv, CacheTypeOK
  <2>3. built[n] = arg[w]
    BY <2>1, <2>2, KeyInjective
  <2>4. Registry!Give(w)
    BY <1>a, <1>2, <2>1, <2>3 DEF GetHit, Registry!Give, Registry!Waiting
  <2> QED
    BY <2>4
<1>3. ASSUME NEW w \in Workers, GetMiss(w) PROVE Goal
  BY <1>3 DEF GetMiss
<1>4. ASSUME NEW w \in Workers, Build(w) PROVE Goal
  <2>1. Registry!Waiting(w) /\ arg[w] \notin Registry!Known
    BY <1>a, <1>4, FirstOfItsKind DEF Build, Registry!Waiting, Registry!Known
  <2>2. CASE arg[w] \in Constructible
    <3>1. Registry!Register(w)
      BY <1>4, <2>1, <2>2 DEF Build, Registry!Register
    <3> QED
      BY <3>1
  <2>3. CASE arg[w] \notin Constructible
    <3>1. Registry!Refuse(w)
      BY <1>4, <2>1, <2>3 DEF Build, Registry!Refuse
    <3> QED
      BY <3>1
  <2> QED
    BY <2>2, <2>3
<1>5. ASSUME NEW w \in Workers, Drop(w) PROVE Goal
  <2>1. Registry!Return(w)
    BY <1>a, <1>5 DEF Drop, Registry!Return, NoClient
  <2> QED
    BY <2>1
<1>6. CASE Restarted
  <2>1. Registry!Forget
    BY <1>6 DEF Restarted, Registry!Forget, Registry!Nothing, Registry!Nobody,
                NoClient
  <2> QED
    BY <2>1
<1>7. CASE UNCHANGED cacheVars
  BY <1>7 DEF cacheVars
<1> QED
  BY <1>1, <1>2, <1>3, <1>4, <1>5, <1>6, <1>7 DEF CacheNext, GetStep

(* It starts as an empty registry. *)
LEMMA RegistryStart == CacheInit => Registry!RegistryInit
BY DEF CacheInit, Registry!RegistryInit, Registry!Nothing, Registry!Nobody,
       NoClient

(* The cache implements the registry of shared clients. *)
THEOREM CacheIsRegistry ==
  ASSUME CacheConstants
  PROVE  CacheSpec => SharesClients
<1>1. CacheInv /\ [CacheNext]_cacheVars
        => [Registry!RegistryNext]_(Registry!registryVars)
  BY RegistryStep
<1> QED
  BY CacheInvariance, RegistryStart, <1>1, PTL
  DEF CacheSpec, SharesClients, Registry!RegistrySpec
=============================================================================
