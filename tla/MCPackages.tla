----------------------------- MODULE MCPackages -----------------------------
(* Values for TLC; and, as a part of its own, a call of the API. *)
EXTENDS Packages, TLC

CONSTANTS a, b, x, y, w

\* Two repositories to filter by, x for all of them, with three pages of packages, or one.
MCNamespaces == {w}
MCFilters    == {x, y}
MCListing    == [n \in {w} |-> x :> <<{a}, {b}, {w}>> @@ y :> <<{b}>>]

MCBoth     == {a, b}
MCOne      == {a}
MCOther    == {b}
MCTwo      == {x, y}
MCNumbers  == {1, 2}
MCVersions == {1, 2, 3}

\* A parameter of each kind, w for the array; the third version has none of them.
MCDefaults == <<a :> x @@ b :> x @@ w :> <<>>, a :> y @@ b :> x @@ w :> <<x>>,
                [p \in {a, b, w} |-> Unset]>>
MCApplied == a :> x @@ b :> y @@ w :> <<>>

MCMax == [catalog   |-> [moves |-> 3, calls |-> 2, errors |-> 1],
          package   |-> [moves |-> 5, errors |-> 1],
          values    |-> [moves |-> 4],
          installed |-> [moves |-> 3, errors |-> 1, same |-> 1]]

ASSUME ConstantsAssumption

-----------------------------------------------------------------------------
\* Every case of the oneof with most of them, that of a repository's credentials.
Api == INSTANCE ApiCalls WITH Kinds <- 1..8

MCInit == Init \/ (part = "api" /\ Api!Init)
MCNext == Next \/ (On("api") /\ Api!Next)
MCSpec == MCInit /\ [][MCNext]_vars
MCFairSpec == MCSpec /\ Fairness

\* The server understands what a caller says, the caller what the server answers, and an error
\* ends the session or is shown (src/shared, the classes of src/gen, handleErrorAction).
CallsMean == part = "api" => Api!TypeOK /\ Api!RequestsArrive /\ Api!AnswersArrive /\ Api!ErrorsAreHandled
=============================================================================
