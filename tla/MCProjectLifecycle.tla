-------------------------- MODULE MCProjectLifecycle --------------------------
(***************************************************************************)
(* Three commands of any kind on one project, with the console reading.    *)
(***************************************************************************)
EXTENDS ProjectLifecycle

MCLabels == {"A", "B"}
MCRosters == {<<"A", "B">>, <<"B", "A">>}
Symmetry == Permutations(Procs)
=============================================================================
