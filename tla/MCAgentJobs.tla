---------------------------- MODULE MCAgentJobs ----------------------------
(* Small instances of AgentJobs for TLC. *)
EXTENDS AgentJobs, TLC

\* Releases 1 and 1.1; with a development build, three steps of updates.
MCReleases == {<<1>>, <<1, 1>>}

Symmetry == Permutations(Cmds)
=============================================================================
