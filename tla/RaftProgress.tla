----------------------------- MODULE RaftProgress -----------------------------
(***************************************************************************)
(* What the servers of Raft.tla get done, and what they do not.            *)
(***************************************************************************)
EXTENDS RaftProperties

(* What the code's scheduling justifies: the timer of a leader expires     *)
(* (node.cc:12-46), whatever that finds to do; and a message that waits is *)
(* received and handled, since a node receives before it looks at the time *)
(* (mpi_include.cc:98-101).  Nobody has to stand for election, no client   *)
(* has to send, and the operator crashes and recovers whom it likes.       *)
Fairness ==
  \A n \in Node :
    /\ WF_vars(LeaderTimeout(n))
    /\ \A m \in Node \ {n} : WF_vars(HandleNodeRequest(n, m))

FairSpec == Spec /\ Fairness

-----------------------------------------------------------------------------
(* n is a leader and has an entry at position k of its log. *)
Leads(n, k) == state[n] = "LEADER" /\ k \in DOMAIN logs[n]

(* And took that entry itself, in its present term. *)
LeadsWithOwn(n, k) == Leads(n, k) /\ logs[n][k].term = term[n]

SavedByAll(entry) ==
  \A m \in Node : \E i \in DOMAIN file[m] : file[m][i] = entry

SavedUpTo(n, k) == \A j \in 1 .. k : SavedByAll(logs[n][j])

(* A command a leader has taken, and with it whatever its log holds before *)
(* it, also what it has of earlier leaders, is saved by every node sooner  *)
(* or later, however often followers crashed and lost updates or answers   *)
(* on the way, unless the leader is deposed (or a process dies): updates   *)
(* are resent until they are acknowledged, a refusal takes nextIndex back  *)
(* to where the logs meet, and the next heartbeat tells of the commit      *)
(* (leaderCycle.cc:9-21, 62-97, followerCycle.cc:45-70).  The nodes must   *)
(* be up from some time on.                                                *)
EntriesReachFiles ==
  (\A m \in Node : <>[]~crash[m]) =>
    \A n \in Node : \A k \in 1 .. MaxLog[n] :
      LeadsWithOwn(n, k) ~>
        (aborted \/ ~LeadsWithOwn(n, k) \/ SavedUpTo(n, k))

(* The same of every entry of a leader, also one of an earlier term: what  *)
(* the tests wait 30 seconds for (tests/test.sh:42-57).                    *)
AllEntriesReachFiles ==
  (\A m \in Node : <>[]~crash[m]) =>
    \A n \in Node : \A k \in 1 .. MaxSaved :
      Leads(n, k) ~> (aborted \/ ~Leads(n, k) \/ SavedByAll(logs[n][k]))
==============================================================================
