------------------------ MODULE MCClusterController ------------------------
EXTENDS ClusterProperties
CONSTANTS c1, p1
=============================================================================
