------------------------ MODULE MCClusterRegistration ------------------------
EXTENDS ClusterRegistration
CONSTANTS r1, n1
=============================================================================
