------------------------------ MODULE MCCluster ------------------------------
(* Values for TLC. *)
EXTENDS Cluster, TLC

CONSTANTS a1, a2, a3, n1, n2, n0

MCBoth == {a1, a2}
MCOne  == {a1}

\* One name of a repository in three namespaces, of which n0 is the global one; of the two
\* operators a1 supports all namespaces, and of the instances a2 is there at first.
MCExisting   == {a2}
MCNamespaces == {n1, n2, n0}

\* Clusters n0, the default, and n1.  The token of a1 is of a namespace that he has, that of a2
\* of one he has not in n0, where he has none, and that of a3 of no namespace.
MCAccounts    == {a1, a2, a3}
MCClusters == {n0, n1}
MCAccess   == a1 :> (n0 :> {n1} @@ n1 :> {n2}) @@ a2 :> (n0 :> {} @@ n1 :> {n1, n2})
              @@ a3 :> (n0 :> {n2} @@ n1 :> {})
MCHome     == a1 :> n1 @@ a2 :> n1 @@ a3 :> NoNS

MCTwo == {n1, n2}

\* A chart gets a version, and the other goes.
MCIndexes == <<<<{1}, {1}>>, <<{1, 2}, {}>>>>

MCMax == [resources    |-> [moves |-> 2, changes |-> 1, breaks |-> 1],
          repositories |-> [moves |-> 4, errors |-> 1],
          form         |-> [features |-> 1, edits |-> 5, fixes |-> 2],
          instances    |-> [moves |-> 3, sends |-> 1, errors |-> 1],
          operators    |-> [moves |-> 3, errors |-> 1],
          session      |-> [moves |-> 5, turns |-> 1],
          controller   |-> [ops |-> 3, breaks |-> 1, crashes |-> 1, faults |-> 1],
          syncer       |-> [starts |-> 3, errors |-> 1, cleanups |-> 1]]

ASSUME ConstantsAssumption
=============================================================================
