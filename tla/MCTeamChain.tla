---------------------------- MODULE MCTeamChain ----------------------------
EXTENDS TeamChainProperties, TLC
CONSTANTS a1, a2, a3, a4
Full == <<"DEVELOPER", "REVIEWER", "QA">>
Symmetry == Permutations(Agents)
=============================================================================
