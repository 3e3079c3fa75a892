--------------------------- MODULE GrantLifecycle ---------------------------
(***************************************************************************)
(* What the RolePermissions controller promises an administrator, without  *)
(* its reconciles, caches, versions and requests: a custom resource (CR)   *)
(* grants permissions on one role, which is recorded before the first of   *)
(* them, and when it goes it has taken back what it granted there, but for *)
(* what requests do that time out and are executed later.  The detailed    *)
(* module is RolePermissions.                                              *)
(***************************************************************************)
EXTENDS Naturals

CONSTANTS
  CRs,      \* names of RolePermissions resources
  RoleIds,  \* the ids Strapi may give to roles
  Nobody    \* owner of the permissions no CR granted

VARIABLES
  life,     \* CR -> [phase, role, keeps]: where it stands, the role it
            \*       recorded, and whether its policy keeps the permissions
  exists,   \* the roles there are
  owner,    \* role -> the CR that granted its permissions
  stray,    \* the roles where that was a request given up before
  pending   \* [CR, role] of such requests that may still be executed

lifeVars == <<life, exists, owner, stray, pending>>

NoRole == 0

Absent == [phase |-> "absent", role |-> NoRole, keeps |-> FALSE]

Init ==
  /\ life = [c \in CRs |-> Absent]
  /\ exists \subseteq RoleIds
  /\ owner = [i \in RoleIds |-> Nobody]
  /\ stray = {} /\ pending = {}

Becomes(c, l) ==
  /\ life' = [life EXCEPT ![c] = l]
  /\ UNCHANGED <<exists, owner, stray, pending>>

(* What c grants on i, by a request it knows of. *)
Grants(c, i) == owner[i] = c /\ i \notin stray

(* Permissions are granted from the moment the role is recorded until they
   are wiped, and on no other role as long as that one exists. *)
MayGrant(c, i) ==
  /\ life[c].phase \in {"managed", "leaving"}
  /\ life[c].role \in exists => i = life[c].role

-----------------------------------------------------------------------------
(* A new CR answers for nothing an earlier one of that name granted. *)
Create(c, k) ==
  /\ life[c].phase = "absent"
  /\ life' = [life EXCEPT ![c] =
                [phase |-> "new", role |-> NoRole, keeps |-> k]]
  /\ owner' = [i \in RoleIds |-> IF owner[i] = c THEN Nobody ELSE owner[i]]
  /\ UNCHANGED <<exists, stray, pending>>

(* Its role is recorded once, and for good. *)
Adopt(c, i) ==
  /\ life[c].phase = "new"
  /\ Becomes(c, [phase |-> "managed", role |-> i, keeps |-> life[c].keeps])

(* The user changes the policy. *)
Change(c, k) ==
  /\ life[c].phase # "absent"
  /\ Becomes(c, [life[c] EXCEPT !.keeps = k])

(* The user deletes it before a role is recorded, or after. *)
Withdraw(c) ==
  /\ life[c].phase = "new"
  /\ Becomes(c, Absent)

Leave(c) ==
  /\ life[c].phase = "managed"
  /\ Becomes(c, [life[c] EXCEPT !.phase = "leaving"])

(* The permissions on the recorded role are taken back. *)
Wiped(c) ==
  /\ life[c].phase = "leaving"
  /\ life[c].role \in exists => ~Grants(c, life[c].role)
  /\ Becomes(c, [life[c] EXCEPT !.phase = "wiped"])

(* It goes: with nothing left behind, or under a policy that keeps it. *)
Go(c) ==
  /\ \/ life[c].phase \in {"leaving", "wiped"} /\ life[c].keeps
     \/ /\ life[c].phase = "wiped"
        /\ life[c].role \in exists => \A i \in RoleIds : ~Grants(c, i)
  /\ Becomes(c, Absent)

-----------------------------------------------------------------------------
(* The grants, while they may be made. *)
Grant(c, i) ==
  /\ MayGrant(c, i)
  /\ i \in exists
  /\ owner' = [owner EXCEPT ![i] = c]
  /\ stray' = stray \ {i}
  /\ UNCHANGED <<life, exists, pending>>

(* Requests are given up; only such as might have been granted. *)
GiveUp ==
  /\ pending \subseteq pending'
  /\ \A r \in pending' \ pending : r[1] \in CRs /\ MayGrant(r[1], r[2])
  /\ UNCHANGED <<life, exists, owner, stray>>

(* One of them is executed after all, though its CR be wiped or gone, *)
Land(c, i) ==
  /\ <<c, i>> \in pending
  /\ i \in exists
  /\ owner' = [owner EXCEPT ![i] = c]
  /\ stray' = stray \cup {i}
  /\ pending' \in {pending, pending \ {<<c, i>>}}
  /\ UNCHANGED <<life, exists>>

(* or it is lost. *)
Lost(r) ==
  /\ pending' = pending \ {r}
  /\ UNCHANGED <<life, exists, owner, stray>>

(* Anybody may take permissions away: a wipe, one given up included, or an
   administrator. *)
Lose(i) ==
  /\ i \in exists
  /\ owner' = [owner EXCEPT ![i] = Nobody]
  /\ stray' = stray \ {i}
  /\ UNCHANGED <<life, exists, pending>>

Remove(i) ==
  /\ i \in exists
  /\ exists' = exists \ {i}
  /\ owner' = [owner EXCEPT ![i] = Nobody]
  /\ stray' = stray \ {i}
  /\ UNCHANGED <<life, pending>>

(* A recorded id does not come back. *)
Appear(i) ==
  /\ i \notin exists
  /\ \A c \in CRs : life[c].role # i
  /\ exists' = exists \cup {i}
  /\ UNCHANGED <<life, owner, stray, pending>>

Next ==
  \/ \E c \in CRs :
       \/ \E k \in BOOLEAN : Create(c, k) \/ Change(c, k)
       \/ Withdraw(c) \/ Leave(c) \/ Wiped(c) \/ Go(c)
       \/ \E i \in RoleIds : Adopt(c, i) \/ Grant(c, i) \/ Land(c, i)
  \/ \E i \in RoleIds : Lose(i) \/ Remove(i) \/ Appear(i)
  \/ GiveUp
  \/ \E r \in pending : Lost(r)

Spec == Init /\ [][Next]_lifeVars
=============================================================================
