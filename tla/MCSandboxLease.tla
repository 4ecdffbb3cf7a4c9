---------------------------- MODULE MCSandboxLease ----------------------------
EXTENDS SandboxLease, TLC
Sym == Permutations(Leases)
================================================================================
