--------------------------- MODULE SharedClients ---------------------------
(***************************************************************************)
(* What Cache of internal/clients/strapi/cache.go promises, without its    *)
(* mutex, its map and its keys: a process has one client for each          *)
(* configuration that anybody asked for, built when it is first asked for, *)
(* and gives it to everybody who asks.                                     *)
(***************************************************************************)
EXTENDS Naturals, Sequences

CONSTANTS
  Workers,        \* those who ask
  Servers,        \* values of Endpoint and InsecureSkipTLSVerify
  Credentials,    \* values of Credentials
  Constructible,  \* the configurations New accepts
  NoCfg           \* asked of a worker that asks for nothing

VARIABLES
  registered,  \* the configurations of the clients, as they were built
  asked,       \* worker -> the configuration it asked for, or NoCfg
  has          \* worker -> the number of the client it has, 0 if none

registryVars == <<registered, asked, has>>

Nobody == [w \in Workers |-> 0]

Nothing == [w \in Workers |-> NoCfg]

RegistryInit ==
  registered = <<>> /\ asked = Nothing /\ has = Nobody

Known == {registered[n] : n \in 1..Len(registered)}

(* A worker asks. *)
Ask(w, cfg) ==
  /\ asked[w] = NoCfg
  /\ asked' = [asked EXCEPT ![w] = cfg]
  /\ UNCHANGED <<registered, has>>

Waiting(w) == asked[w] # NoCfg /\ has[w] = 0

(* It is given the client of its configuration, *)
Give(w) ==
  /\ Waiting(w)
  /\ \E n \in 1..Len(registered) :
       /\ registered[n] = asked[w]
       /\ has' = [has EXCEPT ![w] = n]
  /\ UNCHANGED <<registered, asked>>

(* a new one if it is the first to ask, *)
Register(w) ==
  /\ Waiting(w)
  /\ asked[w] \in Constructible \ Known
  /\ registered' = Append(registered, asked[w])
  /\ has' = [has EXCEPT ![w] = Len(registered) + 1]
  /\ UNCHANGED asked

(* or none if there can be no such client. *)
Refuse(w) ==
  /\ Waiting(w)
  /\ asked[w] \notin Constructible \cup Known
  /\ asked' = [asked EXCEPT ![w] = NoCfg]
  /\ UNCHANGED <<registered, has>>

(* It needs the client no longer; the registry keeps it. *)
Return(w) ==
  /\ has[w] # 0
  /\ asked' = [asked EXCEPT ![w] = NoCfg]
  /\ has' = [has EXCEPT ![w] = 0]
  /\ UNCHANGED registered

(* A new process. *)
Forget ==
  registered' = <<>> /\ asked' = Nothing /\ has' = Nobody

RegistryNext ==
  \/ \E w \in Workers :
       \/ \E cfg \in [server : Servers, creds : Credentials] : Ask(w, cfg)
       \/ Give(w) \/ Register(w) \/ Refuse(w) \/ Return(w)
  \/ Forget

RegistrySpec == RegistryInit /\ [][RegistryNext]_registryVars
=============================================================================
