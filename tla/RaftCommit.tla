------------------------------ MODULE RaftCommit ------------------------------
(***************************************************************************)
(* Raft with a record of what leaders have committed.                      *)
(*                                                                         *)
(* That a committed entry stays, and is the same in every file, fails in   *)
(* three ways:                                                             *)
(*   - an election counts a vote of an earlier term                        *)
(*     (candidateCycle.cc:30-32), so that a term may have two leaders;     *)
(*   - a leader counts an answer it was given in an earlier term           *)
(*     (leaderCycle.cc:70-74), for entries its log may have lost since;    *)
(*   - a leader commits an entry of an earlier term because a majority     *)
(*     holds it (leaderCycle.cc:38-47), which does not keep a node whose   *)
(*     log ends in a later term from being elected.                        *)
(* The properties below say that there is no fourth.                       *)
(***************************************************************************)
EXTENDS RaftHistory

VARIABLES commits,   \* what leaders have committed: [term, log]
          unbacked,  \* the elections that counted a vote of an earlier term
          late       \* the terms whose leader counted an answer of an earlier one

commitHistory == <<commits, unbacked, late>>

(* The leaders whose commit loop goes on in the step, within their logs. *)
Committing ==
  {n \in Node : /\ state[n] = "LEADER"
                /\ commitIndex'[n] \in commitIndex[n] + 1 .. LastIndex(logs[n])}

(* The leaders that count an answer to an update of an earlier term. *)
CountingLate ==
  {n \in Node : /\ state[n] = "LEADER"
                /\ \E m \in Node : /\ matchIndex'[n][m] # matchIndex[n][m]
                                   /\ NextRpc(n, m).term < term[n]}

RecordCommits ==
  /\ commits' = commits \cup
       {[term |-> term[n], log |-> SubSeq(logs[n], 1, commitIndex'[n] + 1)] :
          n \in Committing}
  /\ unbacked' = unbacked \cup {e \in elections' \ elections : ~Backed(e)'}
  /\ late' = late \cup {term[n] : n \in CountingLate}

CommitInit == HistoryInit /\ commits = {} /\ unbacked = {} /\ late = {}

CommitNext == HistoryNext /\ RecordCommits

CommitSpec == CommitInit /\ [][CommitNext]_<<vars, historyVars, commitHistory>>

-----------------------------------------------------------------------------
(* The last entry committed is of the leader's own term. *)
OfOwnTerm(c) == LastTerm(c.log) = c.term

(* What a leader has committed, up to an entry of its own term and by      *)
(* answers of its own term, is in the log of every leader of that term and *)
(* of later ones, whoever voted for them and however late their updates    *)
(* arrive (followerCycle.cc:79-83, leaderCycle.cc:38-47).                  *)
LeadersHoldCommits ==
  unbacked = {} =>
    \A c \in commits :
      OfOwnTerm(c) /\ c.term \notin late =>
        \A n \in Node :
          state[n] = "LEADER" /\ term[n] >= c.term =>
            /\ Len(c.log) <= Len(logs[n])
            /\ SubSeq(logs[n], 1, Len(c.log)) = c.log

(* When every commit so far was of that kind, the files agree: the entry   *)
(* saved at a position, by a leader or by a follower, is the one every     *)
(* node saves there, however often it is saved (followerCycle.cc:62-66,    *)
(* leaderCycle.cc:79-83).                                                  *)
SavedEntriesAgree ==
  unbacked = {} /\ late = {} /\ (\A c \in commits : OfOwnTerm(c)) =>
    \A m, n \in Node :
      \A i \in DOMAIN file[m], j \in DOMAIN file[n] :
        file[m][i].index = file[n][j].index => file[m][i] = file[n][j]
==============================================================================
