---------------------------- MODULE MCIngestion ----------------------------
(***************************************************************************)
(* Finite instances of Ingestion.                                          *)
(***************************************************************************)
EXTENDS Ingestion, TLC

\* One alert; two that fire together; one that resolves and fires again.
AlertmanagerBodies ==
    {<<<<s, l>>>> : s \in AlertmanagerStates, l \in Labels}
    \cup {<<<<"firing", l[1]>>, <<"firing", l[2]>>>> : l \in {x \in Labels \X Labels : x[1] # x[2]}}
    \cup {<<<<"resolved", l>>, <<"firing", l>>>> : l \in Labels}

\* The same labels from the other source.
GrafanaBodies == {<<<<"no_data", l>>>> : l \in Labels}

Webhooks == ({"alertmanager"} \X AlertmanagerBodies) \cup ({"grafana"} \X GrafanaBodies)

Symmetry == Permutations(Labels) \cup Permutations(Requests)
=============================================================================
