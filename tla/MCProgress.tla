------------------------------ MODULE MCProgress ------------------------------
EXTENDS MCRaft, RaftProgress
==============================================================================
