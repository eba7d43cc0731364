---------------------------- MODULE MCWorkforce ------------------------------
EXTENDS Workforce, TLC

CONSTANTS u1, u2, e1, e2, e3, s1, s2, s3, k1, a1

Symmetry == Permutations(Entries) \cup Permutations(Sessions)

=============================================================================
