---------------------------- MODULE MCAppProfiles ----------------------------
EXTENDS AppProfilesProperties, TLC
CONSTANTS c1, p1, p2, a1, s1, s2

ProfileSymmetry == Permutations(Profiles)
=============================================================================
