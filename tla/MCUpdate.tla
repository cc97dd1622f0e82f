------------------------------ MODULE MCUpdate ------------------------------
EXTENDS Update, TLC
CONSTANTS v1, v2, d1, d2, a1, a2
MCVersions == {v1, v2}
MCDownloads == {d1, d2}
MCAppliers == {a1, a2}
MCSymmetry == Permutations(MCVersions) \cup Permutations(MCDownloads) \cup Permutations(MCAppliers)
=============================================================================
