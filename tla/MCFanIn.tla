------------------------------- MODULE MCFanIn -------------------------------
(* FanIn on one to three plugins with up to three packages each.             *)
EXTENDS FanIn

P(name, repo) == [name |-> name, repo |-> repo]
Helm(ps) == [kind |-> "helm", packages |-> ps]
Flux(ps) == [kind |-> "flux", packages |-> ps]

\* Two repositories, with a package of the same name.
Packages == SUBSET {P(1, 1), P(2, 1), P(1, 2)}
Two == {<<a, b>> : a, b \in {Helm(s) : s \in Packages} \cup {Flux(s) : s \in Packages}}

\* With three plugins and pages of one package the plugins are asked for all they have.
Three == {<<Helm({P(1, 1), P(3, 1)}), Helm(s), q>> : s \in Packages, q \in {Helm({P(2, 1)}), Flux({P(2, 1)})}}
OneAndTwo == {<<Flux({P(1, 1), P(2, 1), P(3, 1)})>>} \cup Two \cup Three

OneFlux == {<<Flux({P(1, 1), P(2, 2)})>>}
=============================================================================
