-------------------------- MODULE MCClusterCommands ---------------------------
EXTENDS ClusterCommands
=============================================================================
