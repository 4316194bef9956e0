------------------------------ MODULE MCSinaIp ------------------------------
EXTENDS SinaIp, TLC

Symmetry == Permutations(Holders) \cup Permutations(Streams)
=============================================================================
