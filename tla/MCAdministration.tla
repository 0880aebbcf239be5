-------------------------- MODULE MCAdministration --------------------------
(***************************************************************************)
(* Instances of Administration for TLC.                                    *)
(***************************************************************************)
EXTENDS Administration, TLC

\* JENKINS_BASE_URL is https://jenkins/job/Gentoo.
MCProjectRoot == <<"Gentoo">>

\* "Alice" is the same name as "alice".
MCLowerName == [name \in Names |-> IF name = "Alice" THEN "alice" ELSE name]

MCAsked == {{}, {"NO_SUCH"}}

\* The web processes are interchangeable, and so are the keys.
Symmetric == Permutations(Web) \cup Permutations(Keys)
=============================================================================
