------------------------------ MODULE MCPages ------------------------------
(***************************************************************************)
(* Instances of Pages for TLC.                                             *)
(***************************************************************************)
EXTENDS Pages

\* Builds 1 to 3 of a machine, and a build of another one.
MCMachineOf == [b \in Builds |-> IF b = 4 THEN 2 ELSE 1]

\* The clock was put back after build 1, so only {1, 3} and {2, 3} are in order.
MCBuiltAt == [b \in Builds |-> CASE b = 1 -> 2 [] b = 2 -> 1 [] OTHER -> b]

\* The tag "r", and one whose name reads as "the build before r".
MCTagNames == {<<>>, <<"r">>, <<"r", "-", "1">>}
MCBases == {<<>>, <<"r">>}

\* From build to build a package is added and another one removed; the artifact
\* of build 2 has no package index.
MCPackagesIn == [b \in Builds |-> IF b = 2 THEN Nil ELSE {b, b + 1}]

\* There are capitals in the log of build 1.
MCLogOf == [b \in Builds |-> IF b = 1 THEN "Bad" ELSE "ok"]

\* A text in lower case and one with capitals; what contains what.
MCContaining == {<<"ok", "ok">>, <<"Bad", "Bad">>, <<"bad", "bad">>}
MCLower == [x \in {"ok", "Bad", "bad"} |-> IF x = "Bad" THEN "bad" ELSE x]
=============================================================================
