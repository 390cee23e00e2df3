------------------------------- MODULE MCReseed --------------------------------
EXTENDS Reseed, TLC

Symmetry == Permutations(Callers) \cup Permutations(Senders) \cup Permutations(Scripts)
================================================================================
