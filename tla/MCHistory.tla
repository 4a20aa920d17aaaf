------------------------------ MODULE MCHistory -------------------------------
EXTENDS MCRaft, RaftHistory
==============================================================================
