----------------------------- MODULE MCCallHome -----------------------------
EXTENDS CallHome
CONSTANTS r1
=============================================================================
