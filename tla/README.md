# A TLA+ verification of provider-strapi

provider-strapi is a Crossplane provider: it keeps the permission set of a
users-permissions role of a Strapi server equal to the list in a Kubernetes
custom resource (CR) of kind `RolePermissions`. This directory holds TLA+ models of
the parts of it that are concurrent, that retry, or that compute with permission
strings; TLC configurations that check them on small instances; and proofs
checked with TLAPS. Paths below are relative to the repository.

## 1. Inventory

| Component | Where | State it keeps | Operations | Interacts with | Hard behaviour | What makes it correct |
|---|---|---|---|---|---|---|
| Client session | `internal/clients/strapi/strapi.go` | the cached admin JWT, guarded by a mutex | `Do`, `DoJSON`, `do`, `tokenLocked`, `login`, `invalidate` | called by up to ten reconcile workers; HTTP to Strapi | workers race to log in, tokens expire at any time, a late 401 drops somebody else's token, a login holds the lock for up to 30 s | one login in steady state, the retry uses a new token, every call returns |
| Client cache | `internal/clients/strapi/cache.go` | map from configuration hash to client, guarded by a mutex | `Get` | called by `Connect` | concurrent first calls, rotated credentials and endpoints, a restart in between | one client per configuration, the client of the present configuration after a rotation |
| Formats | `internal/clients/strapi/roles.go` | none | `ExpandPermissions`, `FlattenPermissions`, `splitFlat`, `FindRole`, `ListRoles`, `UpdateRole` | Strapi's role API; used by the controller | dotted names with implicit parts, duplicates, empty against nil | what is called up to date is what is listed; a PUT brings the two together |
| RolePermissions controller | `internal/controller/rolepermissions` | `external-name`, finalizer and `status.atProvider.cleared` of each CR (in the API server) | `Connect`, `Disconnect`, `Observe`, `Create`, `Update`, `Delete` | managed reconciler of crossplane-runtime, API server, Strapi | stale caches, version conflicts, crashes between the PUT and the status write, requests executed after their time-out, roles changed by administrators, several CRs or replicas | one role per CR, no grant outlives its CR, convergence, deletion completes |
| ProviderConfig controllers | `internal/controller/config`, `apis/v1alpha1` | finalizer and user count of each config; usage objects | usage tracking in `Connect`, reconcile of both config kinds | API server, RolePermissions controller | a config deleted while a CR starts to use it or turns away, informers that lag, a controller that is woken only by events on usages | a config that a usage names is not deleted; usages follow their CRs; a deleted config goes with its last user |
| Process wiring | `cmd/provider/main.go` | none | flags, registration | all of the above | leader election is off by default | - |
| Demo chart | `cluster/charts/strapi` | a Strapi server and a bootstrap job | wait, register the admin | Strapi | retries | not part of the provider |
| Generated code | `apis/**/zz_generated*`, `package/crds` | none | - | - | - | generated from the types |

## 2. Modules

| Module | Models |
|---|---|
| `StrapiClient` | `Client` of `strapi.go`: workers inside `Do`, the mutex, the cached token, Strapi's issuing and expiring of tokens |
| `AuthenticatedCalls` | what `Do` promises its callers, without lock, cache and attempts |
| `ClientCache` | `Cache` of `cache.go`: `Get`, its mutex, the map from keys to clients |
| `SharedClients` | what `Cache` promises: one client per configuration, handed out in one step, without mutex, map and keys |
| `Permissions` | the formats of `roles.go`, `FindRole`, and the comparison `Observe` makes with them; operators only |
| `PermissionSync` | one role and one list: the poll loop reduced to compare and PUT, to check `Permissions` on all small inputs |
| `RolePermissions` | the controller and its two stores; uses `Permissions` for what it compares and sends |
| `GrantLifecycle` | what the RolePermissions controller promises an administrator about a CR, its role and its grants, without reconciles, caches and requests |
| `UsageTracking` | the first half of `Connect` and the two config controllers, which share nothing but the API server |
| `Connector` | all of `Connect` and the use of what it returns: `UsageTracking`, the Secret, and `ClientCache`, with rotations |
| `MC...` | constants for TLC |
| `StrapiClientProofs`, `ClientCacheProofs`, `UsageTrackingProofs`, `ConnectorProofs`, `RolePermissionsProofs`, `RoleDeletionProofs`, `GrantLifecycleProofs`, `PermissionSyncProofs` | theorems |

How they fit: `Connector` extends `UsageTracking` and instantiates `ClientCache`, a worker of the cache
being the reconcile of one CR. The clients that the cache hands out are `StrapiClient`s; what the
users of one may expect is `AuthenticatedCalls`, which `StrapiClient` implements. `RolePermissions` is what
happens between `Connect` and the end of a reconcile, and implements `GrantLifecycle`; there an unsuccessful `Connect` is a `Fault`, and
in `Connector` everything after it is one step, `Succeed`, `Refused` or `Fails`.

### StrapiClient

`mu` and `token` are the fields of `Client`; `pc[w]` says where worker `w` is
inside `Do`; `tok[w]` is the token its attempt carries; `rejected[w]` is the token
of the first attempt once it got a 401, so that "first attempt" is `rejected[w] = 0`.
Tokens are numbers in the order of issue. The step from lock to unlock is one
action when nothing can be observed in between (`AcquireCached`, `Invalidate`)
and several when a request is sent under the lock (`AcquireEmpty`,
`LoginAnswered` or `LoginFailed`, `StoreToken`). `drops` is a history variable. `LoginsBounded`
and `Mint` count the logins whose token arrives, not those that fail or time out.

| Action | Code |
|---|---|
| `Call` | entry of `Do` |
| `AcquireCached`, `AcquireEmpty` | `tokenLocked` with and without a cached token |
| `LoginAnswered`, `LoginFailed`, `StoreToken` | `login` and the end of `tokenLocked` |
| `Answered`, `SendFailed`, `Rejected`, `RejectedAgain` | the outcomes of `do` on each attempt |
| `Invalidate` | `invalidate` |
| `Expire` | Strapi stops accepting a token (external) |

`AuthenticatedCalls` sees only who is in `Do`, what came back, which tokens Strapi has refused to whom,
how many it has issued and which have expired. Its actions say that nobody is refused the same token twice,
that a new token is issued only if there are no more tokens than refusals, and that a 401 is returned only
after two tokens expired under the call. `StrapiClient` maps to it with the callers in `Do` as `asking` and `drops`
as `refused` (`KeepsContract`).

### Permissions and PermissionSync

A dotted string is a sequence of segments, so first dot, last dot and empty part
keep their meaning. The parsers return the set of their results, empty for
`ok = false`. A tree is a function from keys (resource, controller, action) to
the enabled flag. `FlattenPermissions` returns a bag: both lists are sorted
before they are compared, so only the number of occurrences matters. `UpToDate`
keeps the difference `reflect.DeepEqual` makes between the nil slice of an empty
list and an empty slice. Letter case is folded away and the policy string of an
action is left out. `FlatStrings` and `ActionKeys` are the types of strings and keys: `strings.Split` returns
at least one segment, and Strapi has resources of the sources `api` and `plugin` only.

### RolePermissions

A worker is a pair of a replica and a CR. `api` is the API server's truth,
`informer[w]` what the worker's replica last saw, `obj[w]` the in-memory object of
the reconcile in progress. Instead of version numbers, `synced[w]` and `current[w]` say
whether the copy has the latest version; every write makes the other copies outdated,
and a write from an outdated copy is a conflict that ends the reconcile. `roles` is
Strapi's truth; `late` holds PUTs whose client gave up, each with the CR it grants for (`Grantor`; a wipe grants for
nobody). `owner` and `stray` are history variables: the CR whose PUT last granted a role's tree, and the roles where that
was a PUT given up before. What a CR grants to its controller's knowledge is `GrantedBy`: `owner` without `stray`.

One reconcile walks through `pc[w]`:

    idle -Start-> initialize -Initialize-> observe -Observe-> addfinalizer
         -AddFinalizer-> update -Resolve-> put -PutDone-> status -WriteStatus-> idle
    observe -> delete -Resolve-> put -> status      (deleted, not yet cleared)
    observe or idle -> release -Release-> idle      (deleted and cleared, or orphaned)

| Action or operator | Code |
|---|---|
| `Start`, `Initialize`, `AddFinalizer`, `WriteStatus`, `Release` | the managed reconciler of crossplane-runtime (external) |
| `resolveRole`, `Observe`, `ReportsGone`, `Observed` | `resolveRole` and `Observe` |
| `Resolve`, `Body`, `PutDone`, `PutMissing`, `PutFails` | `applyPermissions` and `Delete`, which share the pattern list, resolve, PUT |
| `Fault` | an error of `Connect`, `ListRoles` or an API server write |
| `Crash`, `Sync`, `LateEnds` | process restart, watch event, a PUT executed after its time-out |
| `UserCreate`, `UserEdit`, `UserDelete` | users of Kubernetes |
| `AdminSetPerms`, `AdminRename`, `AdminRemove`, `AdminCreate` | administrators of Strapi |

The runtime's source is not part of the repository; it is modelled from how
`Setup` and the comments of `rolepermissions.go` use it: a reconcile of one CR at a time
per process, `NameAsExternalName` before the first `Observe`, metadata persisted only
with the finalizer, `Status().Update` after `Update` and `Delete`, the finalizer removed
when `Observe` reports absence or the policies lack Delete.
`Create` is not modelled: `Observe` reports absence only for a deleted CR, so the
reconciler never calls it. Conditions and the other status fields are not modelled;
a status write that changes only them has the effect of a `UserEdit` with the same spec.
Paused reconciliation is a reconcile that does not start.

### GrantLifecycle

An administrator sees where a CR stands (`life`), which roles there are (`exists`), and whose grants are on a role
(`owner`), which of them are stray and which requests are still pending. A CR is new until the finalizer and the id of its role are on record, then managed, leaving once it is
deleted, wiped once `cleared` is set, and absent. The promises are in the guards:

| Action | Promise |
|---|---|
| `Adopt` | a CR records one role, once; afterwards only `Leave`, `Wiped` and `Go` change where it stands, and none of them changes the role |
| `MayGrant`, `Grant` | a CR grants when its role is on record and before it is wiped, and on no other role while that one exists |
| `GiveUp` | only a request that might have been granted is given up and may land later |
| `Land`, `Lost` | a request that was given up is executed at any later time, also after the wipe, or never; the grant is `stray` |
| `Wiped` | nothing it granted is left on its role when the wipe is recorded, stray grants excepted |
| `Go` | a CR whose policy does not keep the permissions goes after the wipe, and while its role exists without a grant anywhere, stray grants excepted |
| `Change`, `Withdraw`, `Lose`, `Remove`, `Appear` | what users and administrators may do at any time; a wipe, also one executed late, is a `Lose` |

`RolePermissions` maps to it (`KeepsLifecycle`) with `life[c]` computed from the object in the API server (`Life`, `Phase`:
`cleared` before `deleting` before `finalizer`), `exists` the domain of `roles`, `owner` and `stray` themselves,
and `pending` the CRs and roles of the grants in `late`. Every step of a
reconcile that writes neither the API server nor Strapi is a stutter. An edit of the list is one too: the life cycle does
not say which permissions are granted, which `Converges` and the formats do.

### ClientCache

`cacheMu` and `clients` are the fields of `Cache`. Clients are numbers, `built[n]` is the configuration that
`New` was given for the `n`-th. `get[w]` says where worker `w` is: waiting for the lock, inside `New` with
the lock held, or using its `handle[w]`. A key is the tuple of the hashed fields; SHA-256 is taken for injective.

| Action | Code |
|---|---|
| `GetCall`, `GetHit`, `GetMiss`, `Build` | `Cache.Get`: entry; the look-up that finds; the one that does not and keeps the lock; `New`, insertion, unlock |
| `Drop` | the end of the reconcile, `Disconnect` |
| `Restarted` | `Setup` in a new process |

`SharedClients` knows only the clients there are, in the order of their configurations (`registered`), who asked for which
(`asked`) and who has which (`has`). `Give` hands out the client there is, `Register` a new one if nobody has asked for the
configuration before, `Refuse` none if `New` fails. `ClientCache` maps to it with `built`, `arg` and `handle`, so that the
wait for the mutex is a stutter and look-up and insertion are one step (`SharesClients`).

### UsageTracking

`crs`, `configs` and `usages` are the API server's truth, `seenConfigs` and `seenUsages` the informers. A usage is
named after the UID of its CR, so there is one per CR, and `usages[c]` is the config it names. `queued` and `pass` are the
work queue of the config controllers and what a reconcile of a config has read; `conn[c]` is where the worker of a CR
is inside `Connect`, `obj[c]` its copy of the CR. `held` is a history variable: the users a config had, to the API server's
and to its controller's knowledge, when it was deleted, and whose usage has not been moved since.

The tracker is built on the manager's cached client (`rolepermissions.go:80`), so `Track` starts from `seenUsages`. If that
copy names the reference it writes nothing, even if the copy is stale; otherwise it creates or updates the usage at the
version of the copy, and a conflict ends the reconcile. Every write changes the usage and needs an up-to-date copy, so that the
copy has the latest version exactly if it has the present value, and versions need not be modelled.

| Action or operator | Code |
|---|---|
| `Begin`, `Complete` | the managed reconciler around `Connect` (external) |
| `Track`, `GetConfig`, `GiveUp` | `usage.Track`, the switch on the kind with `kube.Get`, the error returns of `Connect` |
| `Tracked`, `Counted`, `Watched`, `Users`, `SyncUsage` | which kind of usage is created, listed and watched: `Setup` of the controller, `setupNamespacedProviderConfig`, `setupClusterProviderConfig` |
| `Look`, `Decide` | the config reconciler of crossplane-runtime (external) |
| `Collect`, `SyncConfig`, `Restart` | garbage collection, informers, restart (external) |
| `EditRef`, `DeleteCR`, `EditConfig`, `DeleteConfig` | users of Kubernetes |

### Connector

| Action | Code |
|---|---|
| `ReadSecret` | extraction of the credentials and `ParseCredentials`, and the call of the cache |
| `GetClient` | `strapiClient`, `Cache.Get` |
| `Refused`, `Succeed`, `Fails` | the first request of `Observe` meets a login that Strapi refuses; the reconcile goes through; a request is lost |
| `ChangeSecret`, `ChangePassword`, `EditConfig` | a rotation: in the Secret, in Strapi, of the endpoint, in any order |
| `Die` | the process ends and its map with it |

`Succeed` is possible with an outdated password too, since a token from an earlier login may still be
accepted; only with the right one is it fair.

## 3. Runs

| Run | Question | Instance |
|---|---|---|
| `client` | Is one token fetched at a time, kept newest, retried once and bounded in number? Does every call return? Does all this keep the contract? | 2 workers, 3 expiries |
| `permission_formats` | Which lists settle, and is "up to date" sound? | every string of at most 4 segments that may be empty and of at most 3 over two names (with three longer ones), all pairs of 6 interacting spellings, every tree of at most 2 keys over 6 keys (3 resources, 2 controllers) |
| `role_safety` | Does no grant outlive its CR, late PUTs excepted? Is the life cycle kept? Is the invariant of the proof right? | 1 replica, 1 CR, 3 policies, 4 user, 2 administrator actions, 1 fault |
| `role_replicas` | Do PUTs stay on one role, the same for two replicas with stale caches? Does its record stand? Is the invariant of the proof right? | 2 replicas, 3 user, 1 administrator action, 1 fault |
| `role_liveness` | Convergence, quiet, end of deletion | 1 replica, 1 CR, 4 specs, 3 user, 2 administrator actions, 1 fault |
| `connect` | Is a config kept while its usages name it and released after? Do usages follow their CRs? Do deleted CRs go? Is there one client per configuration, and the right one after a rotation? | 2 CRs, 1 config, 2 endpoints, 2 passwords and a malformed Secret, six scenarios |

The bounds suffice for the cases the properties are about. Two workers already give a
login in flight while another waits, a late 401 after a new login, and two logins for one
expiry; the third expiry lets a dropped token be replaced twice. Four user actions are a
creation, an edit, a deletion and a second creation of the same name, so stale copies of
an earlier incarnation occur. The policies are
those with both Update and Delete and with only one of them. Two administrator actions remove a role and create one, or
rename and regrant. One fault puts a crash, a failed request or a late PUT at any point.
One CR and one process are what TLC can afford with all of this: two CRs, or two processes in what concerns deletion,
are covered by the theorems for any CRs and by the run `two_processes`. Strings of four segments reach every branch of the parsers, and a fifth adds one more dot
to a controller.

A behaviour of `connect` starts in one of six scenarios, which say how many edits of objects, rotations and
faults it may contain: three edits, or two edits with a fault, or two rotations with a fault or an edit, or an edit and
a fault with a process that has not seen the objects yet. Both CRs use the config, or one has still to turn to it. Three edits
are a turn of a reference, the deletion of the config and of a CR; two rotations are the two halves of a
change of password, or one and a change of endpoint. The scenarios replace the product of all bounds, which is out
of reach; the proofs do without bounds. "Settled" scenarios skip the first reconciles, which the
unsettled one contains.

`MaxExpired`, `MaxRoles`, `MaxEdits`, `MaxAdmin`, `MaxFaults` and the `bound` of a scenario
are the only bounds inside the modules; each appears in the guard of the actions it counts.
Deadlock is not checked for `RolePermissions` and `Connector`: with every CR deleted and the budgets
spent, nothing is left to do.

### Disagreements between code and documentation

Each of these runs checks one statement and TLC refutes it.

| Run | Statement | What happens |
|---|---|---|
| `empty_list` | a role that grants exactly the listed strings is in sync | an empty list is never up to date: `DeepEqual` of nil and empty (`rolepermissions.go:236`), so the role is PUT on every poll |
| `cleared_then_removed` | a cleared CR disappears (`rolepermissions_types.go:57`) | `Observe` resolves the role first; once the role is gone it fails for ever |
| `numeric_name` | the CR manages the role it selects | a `metadata.name` such as `2` is taken for a recorded role id |
| `rename_lost` | only the permission set is managed (`rolepermissions_types.go:31`) | a rename between list and PUT is undone |
| `two_processes` | "Delete" clears the managed permissions (`rolepermissions.go:261`) | leader election is off by default (`main.go:53`): during a rollout the old process, which listed the roles before the deletion, PUTs its list after the new one has cleared the role, and the CR goes |
| `cluster_config_in_use` | a `ClusterProviderConfigUsage` indicates that a resource uses the config (`types.go:131`) | nothing creates one: `Connect` always records a `ProviderConfigUsage`, so a deleted cluster-scoped config goes while it is in use |

More limits are visible in the models and stated as assumptions or exceptions rather than findings:

- two CRs on one role replace each other's list for ever;
- editing the selector of a CR with a recorded id has no effect;
- a role adopted after the recorded one vanished is not recorded;
- a PUT that the controller gave up may be executed after the wipe: it grants the list again for a CR that is reported as
  cleared or has gone. `ClearedMeansWiped`, `NoOrphanGrants` and `GrantLifecycle` name it as their only exception (`stray`, `Land`);
- a worker past `Track` need not have a usage that names its config: a CR turned away and back faster than the informer
  follows keeps the usage of the other config until a later poll (`UsagesCatchUp`), and the config it works with may be deleted
  meanwhile. The same holds of a usage that has not reached the informer yet when the config is deleted. `InUseIsKept`
  therefore speaks of what a usage named at the deletion, to the controller's knowledge, and still names.

## 4. Fairness

`StrapiClient`: every HTTP exchange ends, by an answer or by the 30 s time-out of the
client (`strapi.go:39`), so `Login` and `Request` are weakly fair. Go's mutex
hands the lock to a waiter that has starved, so `Locking` is strongly fair. Nobody has
to call `Do`, and no token has to expire.

`RolePermissions`: a CR is requeued after an error and polled every minute, a reconcile
that began goes on, watch events arrive, and requests end: weak fairness of `Start`,
`Progress`, `Sync` and `LateEnds`. Faults, users and administrators are not fair; they are
bounded, so that a behaviour has a last disturbance after which convergence is judged.

`Connector`: the same for the reconcile of each CR; `GetClient` is strongly fair for the mutex of the cache; `Succeed`
is weakly fair while the password is right. Every informer and every config controller is weakly fair
by itself. The hourly resync (`main.go`), which would queue every config again, is left out: `ConfigsDrain` shows
that events on usages are enough.

## 5. Proofs

All theorems hold for every value of the constants, without the bounds of the runs unless they are
named. The only assumptions are the named `ASSUME`s of the modules (that the model values
differ, that bounds are numbers and initial values well typed), and those stated with the theorems.

**StrapiClientProofs** proves, for every finite set of workers and any number of
expiries, `TypeOK`, `CacheIsNewest`, `TransparentExpiry` and
`LoginsBounded`. The properties are not inductive. `IInv` adds

- the lock: its holder is exactly the worker that logs in, the cache is empty
  meanwhile, and what is about to be stored is the newest token;
- the retry: a rejected worker carries, or can only be given, a token newer than the
  rejected one;
- the drops: nobody carries or can be given a token it has already dropped, so that every
  `Invalidate` adds a new pair to `drops`;
- the account: at most one more token was issued than was dropped.

There is one lemma per group with one step per action. `LoginsBounded` follows since `drops` is a
set of pairs of a worker and an expired token, whose size is bounded by the
product. `ContractKept` is the refinement: the initial state maps to that of `AuthenticatedCalls`, and from `IInv`
every step maps to one of its steps or to a stutter. The retry group justifies a 401, the drops a `Refuse`,
the account a `Mint`.

**ClientCacheProofs** proves `OneClientPerConfig` and `HandleFits` from `CacheInv`: whoever is inside `New` holds the mutex
and the key it missed is still missing, and the map lists exactly the clients that were built. `CacheIsRegistry` is the
refinement of `SharedClients`: from `CacheInv` a hit finds the client that was built with the very configuration, and nobody
has registered one for it when `Build` inserts.

**UsageTrackingProofs** proves `InUseIsKept` from `UsageInv`: the users of a deleted config whose usage has not been moved
are still on record in the API server and in the informer, whatever `Track` makes of stale copies; no copy says
that a config is deleted when it is not; and a pass of the config controller that has read the deletion has counted them.

**ConnectorProofs** composes. By construction every step of `Connector` is a step of each part or leaves it alone (the
lemmas `TracksUsages` and `UsesCache`), so the theorems about the parts carry over: `UsageInv`, `InUseIsKept`,
`OneClientPerConfig` and `SharesClients` hold of Connect as a whole without being proved again. What is left is that a worker
in the cache has read its config (`Coupled`), which makes `TypeOK` hold.

**RolePermissionsProofs** proves `PinnedTarget` for any number of replicas and CRs. `PinInv` adds that uids are used once, that
what counts as the latest version agrees with the API server, that a finalizer comes with the id of a role, that
every copy with a finalizer agrees on that id unless the role is gone, and that nothing is PUT before the finalizer is
there. The version check on the write of the finalizer is what makes two replicas agree. `RecordIsDurable` adds that no
write of anybody changes the record again: the API server is written by the finalizer, the status, the release and users
only (`ApiWriters`), a write that succeeds starts from the latest version, and by `PinInv` that version has the record.

**RoleDeletionProofs** proves `ClearedMeansWiped` and `NoOrphanGrants` for any CRs, under `OneProcess`: the run
`two_processes` shows that they need it. Both are about what a CR grants by PUTs that were not given up before (`GrantedBy`).
`WipeInv` adds to `PinInv` that

- whoever acts on a deletion, and whose write may succeed, has the deletion in its informer, so that no later reconcile
  starts from a copy that does not know of it;
- a copy with a finalizer that does not know of a deletion is of a CR that exists;
- the finalizer is removed only after the wipe or under a policy that keeps the permissions, and what is about to be
  written as cleared has been wiped;
- all that a CR grants, it grants on its recorded role;
- a copy about to be written back as status that knows of the deletion carries `cleared`: this write is the wipe of the
  life cycle and never a step back from it.

**GrantLifecycleProofs** proves `KeepsLifecycle` for any CRs and roles, also under `OneProcess`: `LifecycleKept`. The initial
state maps to that of `GrantLifecycle`, and from `PinInv`, `WipeInv` and the bound on ids (`IdsBounded`) every step maps to
one of its steps or a stutter, with one lemma per kind of step. `PinInv` gives the target of a `Grant` and of a request given up, `WipeInv` the guards
of `Wiped` and `Go`, and `IdsBounded` that a role that appears has an id nobody recorded. One step of the detailed module is
one step of the abstract one, so no history had to be added.

**PermissionSyncProofs** proves every property of the formats for lists of any length and spelling and any trees. The
assumptions are types: lists are sequences of flat strings, trees have keys of the two sources. No property needs induction:
a list is compared as a bag, and a bag says how often each element occurs whatever the order. `SyncInv` says that after a PUT
the tree is what the list expands to. The lemmas are

- on strings: what `splitFlat` returns is well formed (`WellFormed`), a well-formed key flattens to a string
  that splits to it again, and so does the key of a conventional tree;
- on trees: `FlattenPermissions` is a bag with each action string of an enabled key as often as keys have it, and on well-formed
  keys the string determines the key;
- on lists: the bag of a list counts each string once exactly if the list is injective. So it equals the bag of its own
  expansion exactly if it has no duplicates and its elements are canonical, which is `Settleable` except for the empty list.

Only model-checked: liveness (`DoReturns`, `Converges`, `EventuallyQuiet`, `DeletionDrains`, `UsagesCatchUp`, `ConfigsDrain`,
`CRsDrain`, `RotationTakesEffect`), since reasoning under fairness and `ENABLED` is out of the prover's reach. The refuted statements of section 3
are runs, not theorems. Every invariant, action property and refinement of a passing run is a theorem.

## 6. Plan

Done: the client and its contract, the formats, the RolePermissions controller and its life cycle, the client cache, usage
tracking with the config controllers, their composition, and proofs of every safety invariant, action property and
refinement of these.

What could follow:

1. `RolePermissions` with configs that come and go inside a reconcile, in place of `Fault`.
2. What of the life cycle is left with two processes: `PinnedTarget` and `RecordStands` hold there, `NoOrphanGrants` does not.

## 7. Not modelled

- Request and response bodies beyond the role record, TLS, logging and metrics; the
  rate limiter (it delays reconciles, and `Start` may be delayed anyway); the change log feature, off by default; the
  demo chart, CI and generated code.
- The runtime. Reconcilers, informers, garbage collection and version conflicts are modelled as the code in
  `src/` configures and uses them, and marked external.
- `Create` of the RolePermissions controller, which is never reached (see above), and `GetRole`, which has no caller.
- In `Connector`: errors of `New`, since the CRD's pattern and `ParseCredentials` exclude them; two spellings of one
  endpoint, which are two keys (`cache.go:73`) and cost a second login; configs or CRs created again under an old name, which have
  another UID and count as others; a config of one kind with the name of one of the other kind; a CR with an orphaning policy, which
  the runtime lets go before `Connect`.
- In `RolePermissions`: conditions and the other status fields.
