------------------------------- MODULE MCCommit -------------------------------
EXTENDS MCRaft, RaftCommit
==============================================================================
