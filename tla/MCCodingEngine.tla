---------------------------- MODULE MCCodingEngine ----------------------------
EXTENDS CodingEngine
Sym == Permutations(Snaps \ {Snap0})
================================================================================
