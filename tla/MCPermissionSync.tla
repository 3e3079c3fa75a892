-------------------------- MODULE MCPermissionSync --------------------------
(***************************************************************************)
(* Every single string of up to four segments that may be empty, and every *)
(* pair of the spellings that interact, against trees with at most two     *)
(* keys, enabled or not.                                                   *)
(***************************************************************************)
EXTENDS PermissionSync

Seqs(S, n) == UNION {[1..m -> S] : m \in 1..n}

(* "x" is both an api and its content type, "y" another name. *)
Strings ==
  [src : {"api", "plugin"}, segs : Seqs({"x", ""}, 4) \cup Seqs({"x", "y"}, 3)]
    \cup [src : {"other"}, segs : Seqs({"x"}, 3)]
    \cup {[src |-> "api", segs |-> <<"x", "x", "y", "x">>],
          [src |-> "api", segs |-> <<"x", "x", "x", "x", "x">>],
          [src |-> "plugin", segs |-> <<"x", "y", "x", "x">>]}

(* Spellings that meet in pairs: canonical and explicit forms of one action,
   another controller, a plugin, a dropped entry. *)
Meeting ==
  {[src |-> "api", segs |-> <<"x", "x", "x">>],
   [src |-> "api", segs |-> <<"x", "x", "x", "x">>],
   [src |-> "api", segs |-> <<"x", "x", "y", "x">>],
   [src |-> "api", segs |-> <<"x", "y", "x">>],
   [src |-> "plugin", segs |-> <<"x", "x", "x">>],
   [src |-> "other", segs |-> <<"x", "x", "x">>]}

MCLists == {<<>>} \cup Seqs(Strings, 1) \cup Seqs(Meeting, 2)

Keys ==
  [resource : {[src |-> "api", path |-> <<"x", "x">>],
               [src |-> "api", path |-> <<"x">>],
               [src |-> "plugin", path |-> <<"x">>]},
   controller : {<<"x">>, <<"y">>},
   action : {"x"}]

MCTrees == {t \in UNION {[K -> BOOLEAN] : K \in SUBSET Keys} :
              Cardinality(DOMAIN t) <= 2}
=============================================================================
