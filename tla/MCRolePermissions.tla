------------------------- MODULE MCRolePermissions -------------------------
(***************************************************************************)
(* Constants for TLC.  Strapi starts with the custom role "editor" (id 1)  *)
(* and, in some runs, the built-in "public" (id 2).  Two actions, p and q, *)
(* can be granted.                                                         *)
(***************************************************************************)
EXTENDS RolePermissions

CONSTANTS r1, r2, c1

p == [src |-> "api", segs |-> <<"x", "x", "p">>]
q == [src |-> "plugin", segs |-> <<"x", "y", "q">>]

(* What users ask for: lists of one, two and no actions, and the management
   policies. *)
Spec1 == [role |-> "editor", perms |-> <<p>>, policy |-> "all"]
Spec2 == [role |-> "editor", perms |-> <<q, p>>, policy |-> "all"]
SpecOrphan == [role |-> "editor", perms |-> <<p>>, policy |-> "orphan"]
SpecNoUpdate == [role |-> "editor", perms |-> <<p>>, policy |-> "noupdate"]
SpecObserve == [role |-> "editor", perms |-> <<q>>, policy |-> "observe"]
SpecEmpty == [role |-> "editor", perms |-> <<>>, policy |-> "all"]

OneSpec == {Spec1}
PolicySpecs == {Spec1, SpecOrphan, SpecNoUpdate}
AllSpecs == {Spec2, SpecOrphan, SpecObserve, SpecEmpty}

(* An administrator grants an action the list does not have and leaves
   another one registered but disabled. *)
AdminTree ==
  [k \in splitFlat(q) \cup splitFlat(p) |-> k \in splitFlat(q)]

MCAdminTrees == {AdminTree}

EditorOnly == (1 :> [type |-> "custom", name |-> "editor", perms |-> <<>>])
EditorAndPublic ==
  EditorOnly @@ (2 :> [type |-> "public", name |-> "public", perms |-> <<>>])

NoNumericNames == [c \in CRs |-> 0]
NumericNames == [c \in CRs |-> 2]

OneReplica == {r1}
TwoReplicas == {r1, r2}
OneCR == {c1}

MCNames == {"writer", "editor"}
=============================================================================
