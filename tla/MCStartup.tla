----------------------------- MODULE MCStartup -----------------------------
(* An instance of the start of ubd for TLC. *)
EXTENDS Startup, TLC

\* A group may be configured twice, and there may be one too many; nodes may be
\* in groups that are not configured, or in more than there is room for.
MCGroupConfigs == {<<"red", "green">>, <<"red", "red", "green", "blue">>}
MCNodeConfigs == {<<<<"green", "red">>, <<"blue">>, <<"white", "red", "green">>>>}

Symmetry == Permutations(Procs)
=============================================================================
