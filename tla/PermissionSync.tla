--------------------------- MODULE PermissionSync ---------------------------
(***************************************************************************)
(* One role, one list and no concurrency: what Observe's comparison and    *)
(* the PUT of applyPermissions make of every list a user may write and     *)
(* every tree Strapi may hold.  This isolates the arithmetic of the two    *)
(* permission formats from the reconciler (module RolePermissions).        *)
(***************************************************************************)
EXTENDS Permissions

CONSTANTS
  Lists,   \* the values of spec.forProvider.permissions
  Trees    \* the permission trees Strapi may hold before the first PUT

ASSUME ListsAssumption == Lists \subseteq Seq(FlatStrings)
ASSUME TreesAssumption ==
  \A t \in Trees : DOMAIN t \subseteq ActionKeys /\ t \in [DOMAIN t -> BOOLEAN]

VARIABLES
  list,    \* spec.forProvider.permissions of the resource
  tree,    \* the role's permission tree in Strapi
  applied  \* history: whether the tree is one the provider PUT

vars == <<list, tree, applied>>

Init ==
  /\ list \in Lists
  /\ tree \in Trees
  /\ applied = FALSE

(* A poll that finds the role different from the list replaces its tree; it
   does so on every poll when the PUT does not bring the two in sync. *)
Apply ==
  /\ ~UpToDate(list, tree)
  /\ tree' = ExpandPermissions(list)
  /\ applied' = TRUE
  /\ UNCHANGED list

(* A poll that finds nothing to do. *)
Settled ==
  /\ UpToDate(list, tree)
  /\ UNCHANGED vars

Next == Apply \/ Settled

Spec == Init /\ [][Next]_vars

-----------------------------------------------------------------------------
(***************************************************************************)
(* Properties.                                                             *)
(***************************************************************************)

Listed == ToSet(list)

Granted == {ActionString(k) : k \in Enabled(tree)}

(* Strapi's naming convention: "api::<api>.<contentType>" and
   "plugin::<plugin>" resources, non-empty names. *)
Conventional(k) ==
  /\ Len(k.resource.path) = (IF k.resource.src = "api" THEN 2 ELSE 1)
  /\ k.resource.path[1] # Blank /\ Last(k.resource.path) # Blank
  /\ k.controller # Empty /\ k.action # Blank

(* Types: a tree has keys of the right shape, whoever wrote it. *)
TypeOK ==
  /\ list \in Lists
  /\ applied \in BOOLEAN
  /\ DOMAIN tree \subseteq ActionKeys
  /\ tree \in [DOMAIN tree -> BOOLEAN]

(* Observe reports "up to date" only when the role grants exactly the listed
   actions: nothing missing, nothing extra, whatever an administrator put
   there and however two spellings of an action collapse. *)
UpToDateSound == UpToDate(list, tree) => Granted = Listed

(* After one PUT the poll loop is quiet exactly for the lists that are not
   empty, have no duplicates and spell every action in canonical form; every
   other list is PUT again on every poll, although it changes nothing. *)
ApplySettles == applied => (UpToDate(list, tree) <=> Settleable(list))

(* The inductive invariant: what the comparison sees after a PUT is what the
   list expands to. *)
SyncInv == TypeOK /\ (applied => tree = ExpandPermissions(list))

(* What status.atProvider.permissions shows can be pasted back: expanding the
   strings of a conventional tree enables the same actions. *)
RoundTrip ==
  (\A k \in Enabled(tree) : Conventional(k)) =>
    \A k \in Enabled(tree) : splitFlat(ActionString(k)) = {k}

(* "Permissions is the full set of action strings granted to the role"
   (rolepermissions_types.go:36): a role that grants exactly the listed
   strings is in sync. *)
UpToDateComplete ==
  IsInjective(list) /\ Granted = Listed => UpToDate(list, tree)
=============================================================================
