---------------------------- MODULE Permissions ----------------------------
(***************************************************************************)
(* The permission formats of internal/clients/strapi/roles.go and the      *)
(* comparison the controller makes with them.                              *)
(*                                                                         *)
(* A dotted string is the sequence of its segments, so that "first dot",   *)
(* "last dot" and "empty part" mean what they mean in the code; "" is an   *)
(* empty segment.  A flat string is its prefix and the segments after it:  *)
(*   "api::article.article.find"                                           *)
(*      [src |-> "api", segs |-> <<"article", "article", "find">>]         *)
(* A string with neither prefix has src "other".                           *)
(*                                                                         *)
(* A permission tree maps keys (resource, controller, action) to the       *)
(* enabled flag of the action; the policy string is not modelled.          *)
(***************************************************************************)
EXTENDS Sequences, SequencesExt, FiniteSets, Naturals

Blank == ""

Empty == <<Blank>>

Segments == Seq(STRING) \ {<<>>}

FlatStrings == [src : {"api", "plugin", "other"}, segs : Segments]

(* What is enabled or not: Strapi only has resources of two sources. *)
ActionKeys ==
  [resource   : [src : {"api", "plugin"}, path : Segments],
   controller : Segments,
   action     : STRING]

-----------------------------------------------------------------------------
(***************************************************************************)
(* splitFlat and its helpers.  Each returns the set of its results: empty  *)
(* where the code returns ok = false, a singleton otherwise.               *)
(***************************************************************************)

(* "api::<api>.<contentType>" or "api::<api>.<contentType>.<controller>";
   further dots belong to the controller. *)
splitAPI(before) ==
  IF Len(before) < 2 \/ before[1] = Blank \/ Tail(before) = Empty
  THEN {}
  ELSE {[resource   |-> [src |-> "api", path |-> SubSeq(before, 1, 2)],
         controller |-> IF Len(before) = 2 THEN Tail(before)
                                           ELSE Tail(Tail(before))]}

(* Mutant of splitPlugin: a plugin without controller is accepted. *)
splitPluginNoController(before) ==
  IF Len(before) < 1 \/ before[1] = Blank
  THEN {}
  ELSE {[resource   |-> [src |-> "plugin", path |-> SubSeq(before, 1, 1)],
         controller |-> Tail(before)]}

splitPlugin(before) ==
  IF Len(before) < 2 \/ before[1] = Blank \/ Tail(before) = Empty
  THEN {}
  ELSE {[resource   |-> [src |-> "plugin", path |-> SubSeq(before, 1, 1)],
         controller |-> Tail(before)]}

splitFlat(p) ==
  LET before == Front(p.segs)
      parsed == CASE p.src = "api"    -> splitAPI(before)
                  [] p.src = "plugin" -> splitPlugin(before)
                  [] OTHER            -> {}
  IN  IF Len(p.segs) < 2 \/ Last(p.segs) = Blank
      THEN {}
      ELSE {[resource   |-> r.resource,
             controller |-> r.controller,
             action     |-> Last(p.segs)] :
               r \in {q \in parsed : q.controller # Empty}}

(* Mutant of ExpandPermissions: forgets to set Enabled. *)
ExpandDisabled(list) ==
  [k \in UNION {splitFlat(p) : p \in ToSet(list)} |-> FALSE]

(* The tree PUT for a list: every well-formed entry enabled, the malformed
   ones dropped. *)
ExpandPermissions(list) ==
  [k \in UNION {splitFlat(p) : p \in ToSet(list)} |-> TRUE]

-----------------------------------------------------------------------------
(***************************************************************************)
(* The way back.                                                           *)
(***************************************************************************)

(* Mutant of implicitController: does not look at the controller. *)
implicitForApi(resource, controller) == resource.src = "api"

(* The controller of an api resource whose last segment is its name. *)
implicitController(resource, controller) ==
  /\ resource.src = "api"
  /\ Len(resource.path) >= 2
  /\ controller = <<Last(resource.path)>>

ActionString(k) ==
  [src  |-> k.resource.src,
   segs |-> k.resource.path
              \o (IF implicitController(k.resource, k.controller)
                  THEN <<>> ELSE k.controller)
              \o <<k.action>>]

Enabled(tree) == {k \in DOMAIN tree : tree[k]}

(* Mutant of FlattenPermissions: does not skip disabled actions. *)
FlattenAll(tree) ==
  [s \in {ActionString(k) : k \in DOMAIN tree} |->
     Cardinality({k \in DOMAIN tree : ActionString(k) = s})]

(* The code returns a sorted list.  Since every list is sorted before it is
   compared, a list is determined by how often each string occurs in it: a
   bag, for which the order of map iteration does not matter. *)
FlattenPermissions(tree) ==
  LET strings == {ActionString(k) : k \in Enabled(tree)}
  IN  [s \in strings |->
         Cardinality({k \in Enabled(tree) : ActionString(k) = s})]

-----------------------------------------------------------------------------
(* Mutant of UpToDate: looks for missing actions only. *)
NothingMissing(list, tree) ==
  list # <<>> /\ ToSet(list) \subseteq DOMAIN FlattenPermissions(tree)

(* Mutant of UpToDate: compares as sets. *)
SameSet(list, tree) ==
  list # <<>> /\ ToSet(list) = DOMAIN FlattenPermissions(tree)

(* Observe's reflect.DeepEqual(current, desired).  current is never nil;
   desired is the nil slice when no permission is listed, and DeepEqual tells
   nil from empty, so an empty list never compares equal. *)
UpToDate(list, tree) ==
  /\ list # <<>>
  /\ FlattenPermissions(tree) = ToBag(list)

(* A string in the form FlattenPermissions gives to the action it denotes. *)
Canonical(p) == \E k \in splitFlat(p) : ActionString(k) = p

(* A list that a PUT brings into sync. *)
Settleable(l) ==
  /\ l # <<>>
  /\ IsInjective(l)
  /\ \A p \in ToSet(l) : Canonical(p)

(* The roles FindRole may return, as a set of ids: a role whose type matches
   wins over one whose name does, and among several it is the first in
   Strapi's answer, whose order is not defined.  Letter case is abstracted
   away: selectors, types and names are compared folded. *)
FindRole(roles, selector) ==
  LET byType == {i \in DOMAIN roles : roles[i].type = selector}
      byName == {i \in DOMAIN roles : roles[i].name = selector}
  IN  IF byType # {} THEN byType ELSE byName
=============================================================================
