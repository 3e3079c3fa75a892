---------------------------- MODULE MCConnector ----------------------------
(* One config.  A behaviour contains edits of the objects, or rotations of
   passwords and endpoints, or a failure with another disturbance. *)
EXTENDS Connector

CONSTANTS p, g, c2

MCKind ==
  [k \in Configs |-> IF k = p THEN "ProviderConfig" ELSE "ClusterProviderConfig"]

MCInitSpec == [k \in Configs |-> CHOOSE s \in Specs : TRUE]

Scenario(ref, settled, e, r, f) ==
  [ref |-> ref, settled |-> settled,
   bound |-> [edits |-> e, rotations |-> r, faults |-> f]]

(* Everybody uses the config, or one CR has yet to turn to it. *)
AllUse == [c \in CRs |-> CHOOSE k \in Configs : TRUE]
OneUses == [AllUse EXCEPT ![c2] = Elsewhere]

MCScenarios ==
  {Scenario(AllUse, TRUE, 3, 0, 0), Scenario(OneUses, TRUE, 3, 0, 0),
   Scenario(AllUse, TRUE, 2, 0, 1), Scenario(AllUse, TRUE, 0, 2, 1),
   Scenario(OneUses, TRUE, 1, 2, 0), Scenario(OneUses, FALSE, 1, 0, 1)}
=============================================================================
