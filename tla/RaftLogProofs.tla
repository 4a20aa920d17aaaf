---------------------------- MODULE RaftLogProofs -----------------------------
(***************************************************************************)
(* Theorems about leaders and logs, for every number of nodes, clients and *)
(* commands and every value of the bounds:                                 *)
(*   LogsMatch                  HistorySpec => []LogMatching               *)
(*   AcknowledgedEntriesRemain  HistorySpec => []AcknowledgedEntriesStay   *)
(*                                                                         *)
(* Both speak of runs in which every election was backed, where a term has *)
(* one leader (UniqueLeaders).  Then each term has one log: the longest    *)
(* its leader has had.  Follow(T) says that T[t] is the log of term t,     *)
(* that every log, up to any of its entries, begins the log of that        *)
(* entry's term, and that every update under way is a part of the log of   *)
(* its own term; Traced says that there is such a T.  A step makes T[t]    *)
(* longer for the one leader that takes a command and leaves the rest      *)
(* (HistoriesGrow).  For the second theorem Acknowledged(T) says what each *)
(* answer under way promises, and UpdatesReachFurther why no update behind *)
(* it cuts that off.                                                       *)
(***************************************************************************)
EXTENDS RaftHistoryProofs

-----------------------------------------------------------------------------
(* Who leads, in which term.                                               *)

(* No two elections of one term had different winners.  An election that   *)
(* is not backed may become so later, but this, once lost, is lost.        *)
UniqueLeaders == \A e, f \in elections : e.term = f.term => e.leader = f.leader

LEMMA BackedLeadersUnique ==
  ASSUME AllBacked, BackedElectionsAgree
  PROVE  UniqueLeaders
BY DEF AllBacked, BackedElectionsAgree, UniqueLeaders

(* n has won an election of term t. *)
OnRecord(n, t) == \E e \in elections : e.leader = n /\ e.term = t

(* A leader leads in a term it has won, and has won no term it stands in;  *)
(* nobody stands or leads in term 0.                                       *)
Offices ==
  /\ \A n \in Node : state[n] # "FOLLOWER" => term[n] > 0
  /\ \A n \in Node : state[n] = "LEADER" => OnRecord(n, term[n])
  /\ \A e \in elections :
       /\ e.leader \in Node /\ e.term \in Nat /\ e.term > 0
       /\ \/ e.term < term[e.leader]
          \/ e.term = term[e.leader] /\ state[e.leader] # "CANDIDATE"

(* An update is sent by the leader of its term. *)
UpdatesOnRecord ==
  \A a, b \in Node : \A x \in InFlight(a, b) :
    x.type = "APPEND_ENTRIES" => OnRecord(a, x.term)

(* The terms of those who are candidates or leaders after a step. *)
TermOfOffice(k) ==
  /\ state'[k] = "CANDIDATE" =>
       term'[k] > term[k] \/ (term'[k] = term[k] /\ state[k] = "CANDIDATE")
  /\ state'[k] = "LEADER" => term'[k] = term[k] /\ state[k] # "FOLLOWER"

LEMMA OfficeStep ==
  ASSUME TypeOK, [Next]_vars, NEW k \in Node
  PROVE  TermOfOffice(k)
<1>1. /\ state \in [Node -> {"FOLLOWER", "LEADER", "CANDIDATE"}]
      /\ term \in [Node -> Nat]
  BY DEF TypeOK
<1>2. CASE UNCHANGED <<state, term>>
  BY <1>2 DEF TermOfOffice
<1>3. ASSUME NEW n \in Node, StartCandidate(n, chan)
      PROVE  TermOfOffice(k)
  <2>1. /\ state' = [state EXCEPT ![n] = "CANDIDATE"]
        /\ term' = [term EXCEPT ![n] = @ + 1]
    BY <1>3 DEF StartCandidate
  <2> QED BY <1>1, <2>1 DEF TermOfOffice
<1>4. ASSUME NEW n \in Node, NEW t, state[n] = "FOLLOWER" \/ state'[n] = "FOLLOWER",
             \/ UNCHANGED state
             \/ state' = [state EXCEPT ![n] = "FOLLOWER"],
             term' = [term EXCEPT ![n] = t]
      PROVE  TermOfOffice(k)
  BY <1>1, <1>4 DEF TermOfOffice
<1>5. ASSUME NEW n \in Node,
             FollowerTimeout(n) \/ CandidateTimeout(n) \/ LeaderTimeout(n)
      PROVE  TermOfOffice(k)
  <2>1. StartCandidate(n, chan) \/ UNCHANGED <<state, term>>
    BY <1>5 DEF FollowerTimeout, CandidateTimeout, LeaderTimeout, Abort, voteVars
  <2> QED BY <1>2, <1>3, <2>1
<1>6. ASSUME NEW n \in Node, NEW m \in Node \ {n}, HandleNodeRequest(n, m)
      PROVE  TermOfOffice(k)
  <2>1. CASE FollowerRequestVote(n, m) \/ FollowerRejectsGap(n, m)
             \/ FollowerAppends(n, m) \/ FollowerIgnores(n, m)
    <3>1. /\ state[n] = "FOLLOWER" /\ UNCHANGED state
          /\ \E t : term' = [term EXCEPT ![n] = t]
      BY <2>1 DEF FollowerRequestVote, FollowerRejectsGap, FollowerAppends,
                  FollowerIgnores, Receives
    <3> QED BY <1>4, <3>1
  <2>2. CASE StepDown(n, m) \/ CandidateMeetsLeader(n, m)
    <3>1. /\ state' = [state EXCEPT ![n] = "FOLLOWER"]
          /\ (\E t : term' = [term EXCEPT ![n] = t]) \/ UNCHANGED term
      BY <2>2 DEF StepDown, CandidateMeetsLeader, BecomeFollower
    <3>2. state'[n] = "FOLLOWER"
      BY <1>1, <3>1
    <3> QED BY <1>1, <1>4, <3>1, <3>2 DEF TermOfOffice
  <2>3. CASE CandidateTakesVote(n, m)
    <3>1. /\ state[n] = "CANDIDATE" /\ UNCHANGED term
          /\ UNCHANGED state \/ state' = [state EXCEPT ![n] = "LEADER"]
      BY <2>3 DEF CandidateTakesVote, CandidateCountsVote, CandidateIsElected, Receives
    <3> QED BY <1>1, <3>1 DEF TermOfOffice
  <2>4. CASE \/ FollowerRejectsStaleLeader(n, m) \/ FollowerAborts(n, m)
             \/ CandidateIgnores(n, m) \/ LeaderAppendSucceeded(n, m)
             \/ LeaderAppendFailed(n, m) \/ LeaderAborts(n, m)
             \/ LeaderIgnores(n, m) \/ CrashLoopDrops(n, m)
    <3>1. UNCHANGED <<state, term>>
      BY <2>4 DEF FollowerRejectsStaleLeader, FollowerAborts, CandidateIgnores,
         LeaderAppendSucceeded, LeaderAppendFailed, LeaderAborts, LeaderIgnores,
         CrashLoopDrops, Abort, voteVars
    <3> QED BY <1>2, <3>1
  <2> QED BY <1>6, <2>1, <2>2, <2>3, <2>4 DEF HandleNodeRequest
<1>7. ASSUME NEW n \in Node, NEW c \in Client, NEW cmd \in Cmd,
             LeaderAppendsCommand(n, c, cmd)
      PROVE  TermOfOffice(k)
  BY <1>2, <1>7 DEF LeaderAppendsCommand, voteVars
<1>8. ASSUME NEW n \in CrashTargets, Crash(n) \/ Recover(n) \/ RecoverAborts(n)
      PROVE  TermOfOffice(k)
  <2>1. n \in Node
    BY CrashAssumption
  <2>2. StartCandidate(n, chan) \/ UNCHANGED <<state, term>>
    BY <1>8 DEF Crash, Recover, RecoverAborts, Abort, voteVars
  <2> QED BY <1>2, <1>3, <2>1, <2>2
<1>9. CASE UNCHANGED vars
  BY <1>2, <1>9 DEF vars, voteVars
<1> QED BY <1>5, <1>6, <1>7, <1>8, <1>9 DEF Next

(* What a step adds to the elections on record. *)
LEMMA RecordStep ==
  ASSUME [HistoryNext]_<<vars, historyVars>>
  PROVE  /\ elections \subseteq elections'
         /\ \A e \in elections' :
              \/ e \in elections
              \/ \E k \in Node : /\ state'[k] = "LEADER" /\ state[k] # "LEADER"
                                 /\ e.leader = k /\ e.term = term'[k]
         /\ \A k \in Node : state'[k] = "LEADER" /\ state[k] # "LEADER" =>
              \E e \in elections' : e.leader = k /\ e.term = term'[k]
<1>1. CASE UNCHANGED <<vars, historyVars>>
  BY <1>1 DEF vars, voteVars, historyVars
<1>2. CASE HistoryNext
  <2> DEFINE won(n) == [term |-> term'[n], leader |-> n, voters |-> hasVotedForMe'[n] \cup {n}]
  <2>1. elections' = elections \cup
          {won(n) : n \in {k \in Node : state'[k] = "LEADER" /\ state[k] # "LEADER"}}
    BY <1>2 DEF HistoryNext, Record
  <2>2. \A n : won(n).leader = n /\ won(n).term = term'[n]
    OBVIOUS
  <2> HIDE DEF won
  <2> QED BY <2>1, <2>2
<1> QED BY <1>1, <1>2

LEMMA OfficesStep ==
  ASSUME TypeOK, TypeOK', Offices, [HistoryNext]_<<vars, historyVars>>
  PROVE  Offices'
<1>1. /\ state \in [Node -> {"FOLLOWER", "LEADER", "CANDIDATE"}]
      /\ state' \in [Node -> {"FOLLOWER", "LEADER", "CANDIDATE"}]
      /\ term \in [Node -> Nat] /\ term' \in [Node -> Nat]
  BY DEF TypeOK
<1>2. [Next]_vars
  BY DEF HistoryNext
<1>3. ASSUME NEW n \in Node
      PROVE  TermOfOffice(n) /\ VoteKept(n) /\ term[n] \in Nat /\ term'[n] \in Nat
  BY <1>1, <1>2, OfficeStep, OneVoteStep
<1>4. ASSUME NEW n \in Node, state'[n] # "FOLLOWER" PROVE term'[n] > 0
  <2>1. state'[n] = "CANDIDATE" \/ state'[n] = "LEADER"
    BY <1>1, <1>4
  <2> QED BY <1>3, <2>1 DEF TermOfOffice, Offices
<1>5. ASSUME NEW n \in Node, state'[n] = "LEADER" PROVE OnRecord(n, term[n])'
  <2>1. term'[n] = term[n]
    BY <1>3, <1>5 DEF TermOfOffice
  <2>2. CASE state[n] = "LEADER"
    BY <2>1, <2>2, RecordStep DEF Offices, OnRecord
  <2>3. CASE state[n] # "LEADER"
    BY <1>5, <2>3, RecordStep DEF OnRecord
  <2> QED BY <2>2, <2>3
<1>6. ASSUME NEW e \in elections'
      PROVE  /\ e.leader \in Node /\ e.term \in Nat /\ e.term > 0
             /\ \/ e.term < term'[e.leader]
                \/ e.term = term'[e.leader] /\ state'[e.leader] # "CANDIDATE"
  <2>1. CASE e \in elections
    <3>1. /\ e.leader \in Node /\ e.term \in Nat /\ e.term > 0
          /\ \/ e.term < term[e.leader]
             \/ e.term = term[e.leader] /\ state[e.leader] # "CANDIDATE"
      BY <2>1 DEF Offices
    <3> QED BY <1>3, <3>1 DEF TermOfOffice, VoteKept
  <2>2. ASSUME NEW k \in Node, state'[k] = "LEADER", e.leader = k, e.term = term'[k]
        PROVE  /\ e.leader \in Node /\ e.term \in Nat /\ e.term > 0
               /\ e.term = term'[e.leader] /\ state'[e.leader] # "CANDIDATE"
    BY <1>3, <1>4, <2>2
  <2> QED BY <2>1, <2>2, RecordStep
<1> QED BY <1>4, <1>5, <1>6 DEF Offices

LEMMA UpdatesOnRecordStep ==
  ASSUME TypeOK, TypeOK', Offices', UpdatesOnRecord, [HistoryNext]_<<vars, historyVars>>
  PROVE  UpdatesOnRecord'
<1> SUFFICES ASSUME NEW a \in Node, NEW b \in Node, NEW x \in InFlight(a, b)',
                    x.type = "APPEND_ENTRIES"
             PROVE  \E e \in elections' : e.leader = a /\ e.term = x.term
  BY DEF UpdatesOnRecord, OnRecord
<1>1. [Next]_vars
  BY DEF HistoryNext
<1>2. x \in InFlight(a, b) \/ Sends(a, b, x)
  BY <1>1, StepSends
<1>3. CASE x \in InFlight(a, b)
  BY <1>3, RecordStep DEF UpdatesOnRecord, OnRecord
<1>4. CASE Sends(a, b, x)
  <2>1. /\ state'[a] = "LEADER"
        /\ \E next \in Int : x = Update(a, logs[a], next, commitIndex[a])
    BY <1>4 DEF Sends, RequestVoteResponse
  <2>2. x.term = term[a]
    BY <2>1 DEF Update, AppendEntries
  <2>3. term'[a] = term[a]
    BY <1>1, <2>1, OfficeStep DEF TermOfOffice
  <2> QED BY <2>1, <2>2, <2>3 DEF Offices, OnRecord
<1> QED BY <1>2, <1>3, <1>4

(* Leaders and updates are on record, whatever happens. *)
LEMMA OfficesInv == HistorySpec => [](TypeOK /\ Offices /\ UpdatesOnRecord)
<1>1. HistorySpec => []TypeOK
  BY HistoryRefines, TypeCorrect, PTL
<1>2. HistoryInit => Offices /\ UpdatesOnRecord
  BY DEF HistoryInit, Init, MailboxInit, Offices, UpdatesOnRecord, InFlight, UnderWay
<1>3. TypeOK /\ TypeOK' /\ Offices /\ UpdatesOnRecord
        /\ [HistoryNext]_<<vars, historyVars>> => Offices' /\ UpdatesOnRecord'
  BY OfficesStep, UpdatesOnRecordStep
<1> QED BY <1>1, <1>2, <1>3, PTL DEF HistorySpec

-----------------------------------------------------------------------------
(* The log a term has had.  T[t] is the log of the leader of term t, as it *)
(* was when it last led in that term.                                      *)

Histories == [Nat -> Seq(Entry)]

Begins(p, h) == Len(p) <= Len(h) /\ \A i \in 1 .. Len(p) : p[i] = h[i]

(* log and h are the same up to position i. *)
Within(log, i, h) == i <= Len(h) /\ \A k \in 1 .. i : log[k] = h[k]

(* Up to an entry of term t, log is the log of the leader of term t. *)
LogOf(T, log) == \A i \in DOMAIN log : Within(log, i, T[log[i].term])

(* The position an update reaches. *)
End(x) == x.prevLogIndex + 1 + Len(x.entries)

(* x can be followed: it names the entry before its own, or needs none. *)
IsUpdate(x) ==
  /\ x.type = "APPEND_ENTRIES" /\ ~Throws(x)
  /\ x.prevLogIndex = -1 \/ x.prevLogTerm > 0

(* x is a part of the log h. *)
PartOf(h, x) ==
  /\ End(x) <= Len(h)
  /\ \A k \in 1 .. Len(x.entries) : x.entries[k] = h[x.prevLogIndex + 1 + k]
  /\ x.prevLogIndex # -1 => h[x.prevLogIndex + 1].term = x.prevLogTerm

(* Every log, and every update under way, comes from these logs. *)
Follow(T) ==
  /\ \A n \in Node : LogOf(T, logs[n])
  /\ \A t \in Nat : LogOf(T, T[t])
  /\ \A a, b \in Node : \A x \in InFlight(a, b) : IsUpdate(x) => PartOf(T[x.term], x)
  /\ \A n \in Node : state[n] = "LEADER" => T[term[n]] = logs[n]
  /\ \A t \in Nat : (\A e \in elections : e.term # t) => T[t] = <<>>

Grow(T, T2) == \A t \in Nat : Begins(T[t], T2[t])

LEMMA LogOfGrows ==
  ASSUME NEW T \in Histories, NEW T2 \in Histories, Grow(T, T2),
         NEW log \in Seq(Entry), LogOf(T, log)
  PROVE  LogOf(T2, log)
<1> SUFFICES ASSUME NEW i \in DOMAIN log
             PROVE  Within(log, i, T2[log[i].term])
  BY DEF LogOf
<1>1. i \in Nat /\ log[i].term \in Nat
  BY EntryFields
<1> DEFINE h == T[log[i].term]
           h2 == T2[log[i].term]
<1>2. h \in Seq(Entry) /\ h2 \in Seq(Entry) /\ Begins(h, h2) /\ Within(log, i, h)
  BY <1>1 DEF Histories, Grow, LogOf
<1> HIDE DEF h, h2
<1>3. Len(h) \in Nat /\ Len(h2) \in Nat
  BY <1>2
<1>4. Within(log, i, h2)
  BY <1>1, <1>2, <1>3 DEF Within, Begins
<1> QED BY <1>4 DEF h2

LEMMA PartGrows ==
  ASSUME NEW h \in Seq(Entry), NEW h2 \in Seq(Entry), Begins(h, h2),
         NEW x \in NodeRpc, IsUpdate(x), PartOf(h, x)
  PROVE  PartOf(h2, x)
<1>1. x.prevLogIndex \in Int /\ x.prevLogIndex >= -1 /\ x.entries \in Seq(Entry)
  BY NodeRpcFields DEF IsUpdate, Throws
<1>2. Len(x.entries) \in Nat /\ Len(h) \in Nat /\ Len(h2) \in Nat
  BY <1>1
<1>3. End(x) <= Len(h) /\ End(x) <= Len(h2)
  BY <1>1, <1>2 DEF PartOf, Begins, End
<1>4. ASSUME NEW k \in 1 .. Len(x.entries)
      PROVE  x.entries[k] = h2[x.prevLogIndex + 1 + k]
  <2>1. x.prevLogIndex + 1 + k \in 1 .. Len(h)
    BY <1>1, <1>2, <1>3 DEF End
  <2> QED BY <2>1 DEF PartOf, Begins
<1>5. ASSUME x.prevLogIndex # -1
      PROVE  h2[x.prevLogIndex + 1].term = x.prevLogTerm
  <2>1. x.prevLogIndex + 1 \in 1 .. Len(h)
    BY <1>1, <1>2, <1>3, <1>5 DEF End
  <2> QED BY <1>5, <2>1 DEF PartOf, Begins
<1> QED BY <1>3, <1>4, <1>5 DEF PartOf

(* What comes before an entry of a log that is part of the histories.      *)
LEMMA BeginningOf ==
  ASSUME NEW T \in Histories, NEW h \in Seq(Entry), LogOf(T, h),
         NEW p \in Seq(Entry), Begins(p, h)
  PROVE  LogOf(T, p)
<1> SUFFICES ASSUME NEW i \in DOMAIN p PROVE Within(p, i, T[p[i].term])
  BY DEF LogOf
<1>1. /\ i \in 1 .. Len(p) /\ Len(p) \in Nat /\ Len(h) \in Nat
      /\ DOMAIN h = 1 .. Len(h)
  OBVIOUS
<1>2. i \in DOMAIN h /\ p[i] = h[i]
  BY <1>1 DEF Begins
<1>3. Within(h, i, T[h[i].term])
  BY <1>2 DEF LogOf
<1>4. \A k \in 1 .. i : p[k] = h[k]
  BY <1>1 DEF Begins
<1> QED BY <1>2, <1>3, <1>4 DEF Within

(* Two sequences that agree up to a position have the same beginning.      *)
LEMMA SubSeqEqual ==
  ASSUME NEW p, NEW q, NEW i \in Nat, \A k \in 1 .. i : p[k] = q[k]
  PROVE  SubSeq(p, 1, i) = SubSeq(q, 1, i)
OBVIOUS

(* Two logs with an entry of one term at one position are equal up to it.  *)
LEMMA SameUpTo ==
  ASSUME NEW T, NEW p, NEW q, LogOf(T, p), LogOf(T, q),
         NEW i \in DOMAIN p \cap DOMAIN q, p[i].term = q[i].term
  PROVE  \A k \in 1 .. i : p[k] = q[k]
<1>1. Within(p, i, T[p[i].term]) /\ Within(q, i, T[p[i].term])
  BY DEF LogOf
<1> QED BY <1>1 DEF Within

(* What a leader sends that can be followed is the end of its log. *)
LEMMA LeaderUpdate ==
  ASSUME TypeOK, NEW a \in Node, NEW next \in Int,
         NEW x, x = Update(a, logs[a], next, commitIndex[a]), IsUpdate(x)
  PROVE  /\ x.term = term[a]
         /\ PartOf(logs[a], x)
         /\ End(x) = Len(logs[a])
<1> DEFINE log == logs[a]
           from == IF next < 0 THEN 1 ELSE next + 1
           prevTerm == IF next - 1 \in 0 .. LastIndex(log)
                       THEN log[next - 1 + 1].term ELSE 0
<1>1. log \in Seq(Entry)
  BY DEF TypeOK
<1>2. /\ x.term = term[a] /\ x.prevLogIndex = next - 1 /\ x.prevLogTerm = prevTerm
      /\ x.entries = SubSeq(log, from, Len(log))
  BY DEF Update, AppendEntries
<1>3. next \in Nat /\ from = next + 1
  <2> HIDE DEF from, prevTerm
  <2>1. next \in Nat
    BY <1>2 DEF IsUpdate, Throws
  <2> QED BY <2>1 DEF from
<1>4. next # 0 => next \in 1 .. Len(log) /\ prevTerm = log[next].term
  <2>1. ASSUME next # 0 PROVE next \in 1 .. Len(log) /\ prevTerm = log[next].term
    <3>1. x.prevLogIndex # -1
      BY <1>2, <1>3, <2>1
    <3>2. prevTerm # 0
      BY <1>2, <3>1 DEF IsUpdate
    <3>3. next - 1 \in 0 .. LastIndex(log)
      BY <3>2
    <3>4. next \in 1 .. Len(log) /\ next - 1 + 1 = next
      BY <1>1, <1>3, <3>3 DEF LastIndex
    <3> QED BY <3>3, <3>4
  <2> QED BY <2>1
<1> HIDE DEF from, prevTerm
<1> DEFINE s == SubSeq(log, next + 1, Len(log))
<1>5. x.entries = s
  BY <1>2, <1>3
<1>6. next <= Len(log) /\ Len(log) \in Nat
  BY <1>1, <1>3, <1>4
<1>7. /\ Len(s) = Len(log) - next
      /\ \A i \in 1 .. Len(log) - next : s[i] = log[next + i]
  <2> HIDE DEF log
  <2> QED BY <1>1, <1>3, <1>6, Suffix
<1> HIDE DEF s, log
<1>8. x.prevLogIndex + 1 = next
  BY <1>2, <1>3
<1>9. End(x) = Len(log)
  BY <1>3, <1>5, <1>6, <1>7, <1>8 DEF End
<1>10. PartOf(log, x)
  BY <1>2, <1>3, <1>4, <1>5, <1>6, <1>7, <1>8, <1>9 DEF PartOf
<1> QED BY <1>2, <1>9, <1>10 DEF log

(* A follower that follows an update of term t has, after it, a beginning  *)
(* of the log of the leader of term t, which ends where the update does.   *)
LEMMA FollowerLog ==
  ASSUME TypeOK, NEW T \in Histories, Follow(T), T[0] = <<>>,
         NEW n \in Node, NEW m \in Node \ {n}, FollowerAppends(n, m),
         NEW rpc, rpc = NextRpc(n, m)
  PROVE  /\ rpc \in InFlight(m, n) /\ rpc \in NodeRpc /\ IsUpdate(rpc)
         /\ logs'[n] \in Seq(Entry)
         /\ Begins(logs'[n], T[rpc.term])
         /\ Len(logs'[n]) = End(rpc)
<1> DEFINE log == logs[n]
           cut == rpc.prevLogIndex + 1
           new == SubSeq(log, 1, cut) \o rpc.entries
           h == T[rpc.term]
<1>1. /\ rpc \in InFlight(m, n) /\ rpc \in NodeRpc
      /\ rpc.type = "APPEND_ENTRIES" /\ ~Throws(rpc)
      /\ ConsistentEntry(log, rpc) /\ cut \in 0 .. Len(log)
      /\ rpc.entries \in Seq(Entry) /\ logs'[n] = new
  BY FollowerAppendsLog
<1>2. log \in Seq(Entry) /\ LogOf(T, log)
  BY DEF TypeOK, Follow
<1>3. rpc.term \in Nat /\ rpc.prevLogIndex \in Int /\ rpc.prevLogTerm \in Nat
  BY <1>1, NodeRpcFields
<1>4. h \in Seq(Entry) /\ LogOf(T, h)
  BY <1>3 DEF Histories, Follow
<1>5. rpc.prevLogIndex # -1 =>
        cut \in DOMAIN log /\ log[cut].term = rpc.prevLogTerm
  BY <1>1, <1>2, <1>3 DEF ConsistentEntry, LastIndex
<1> HIDE DEF log
<1>6. IsUpdate(rpc)
  <2>1. ASSUME rpc.prevLogIndex # -1 PROVE rpc.prevLogTerm > 0
    <3>1. Within(log, cut, T[rpc.prevLogTerm])
      BY <1>2, <1>5, <2>1 DEF LogOf
    <3>2. cut > 0
      BY <1>1, <1>3, <2>1
    <3>3. Len(T[0]) = 0
      OBVIOUS
    <3> HIDE DEF cut
    <3>4. cut \in Nat /\ cut <= Len(T[rpc.prevLogTerm])
      BY <1>1, <1>2, <3>1 DEF Within
    <3>5. rpc.prevLogTerm # 0
      BY <3>2, <3>3, <3>4
    <3> QED BY <1>3, <3>5
  <2> QED BY <1>1, <2>1 DEF IsUpdate
<1>7. PartOf(h, rpc)
  BY <1>1, <1>6 DEF Follow
<1>8. /\ Len(new) = cut + Len(rpc.entries)
      /\ \A i \in 1 .. cut : new[i] = log[i]
      /\ \A i \in cut + 1 .. cut + Len(rpc.entries) : new[i] = rpc.entries[i - cut]
  <2> HIDE DEF cut
  <2> QED BY <1>1, <1>2, CutAndContinue
<1>9. new \in Seq(Entry)
  <2>1. SubSeq(log, 1, cut) \in Seq(Entry)
    BY <1>1, <1>2
  <2> QED BY <1>1, <2>1
<1> HIDE DEF new, h
<1>10. Len(rpc.entries) \in Nat /\ Len(h) \in Nat /\ Len(log) \in Nat /\ cut \in Nat
  BY <1>1, <1>2, <1>4
<1>11. Len(new) = End(rpc) /\ Len(new) <= Len(h)
  BY <1>7, <1>8 DEF PartOf, End
<1>12. ASSUME NEW i \in 1 .. cut PROVE log[i] = h[i]
  <2>1. rpc.prevLogIndex # -1
    BY <1>3, <1>12
  <2>2. cut \in DOMAIN log /\ cut \in DOMAIN h /\ log[cut].term = h[cut].term
    BY <1>4, <1>5, <1>7, <1>8, <1>10, <1>11, <2>1, <1>12 DEF PartOf
  <2> HIDE DEF cut
  <2> QED BY <1>2, <1>4, <2>2, SameUpTo
<1>13. ASSUME NEW i \in cut + 1 .. cut + Len(rpc.entries) PROVE new[i] = h[i]
  <2>1. i - cut \in 1 .. Len(rpc.entries) /\ cut + (i - cut) = i
    BY <1>10, <1>13
  <2>2. rpc.entries[i - cut] = h[cut + (i - cut)]
    BY <1>7, <2>1 DEF PartOf
  <2> QED BY <1>8, <2>1, <2>2
<1>14. ASSUME NEW i \in 1 .. Len(new) PROVE new[i] = h[i]
  <2>1. i \in 1 .. cut \/ i \in cut + 1 .. cut + Len(rpc.entries)
    BY <1>8, <1>10
  <2> QED BY <1>8, <1>12, <1>13, <2>1
<1> QED BY <1>1, <1>6, <1>9, <1>11, <1>14 DEF Begins, h

-----------------------------------------------------------------------------
(* The histories, from one state to the next.                              *)

(* The log of a term that somebody leads is what its leader's log becomes; *)
(* the other terms keep theirs.                                            *)
Continue(T, T2) ==
  /\ \A n \in Node : state'[n] = "LEADER" => T2[term'[n]] = logs'[n]
  /\ \A t \in Nat :
       (\A n \in Node : state'[n] = "LEADER" => term'[n] # t) => T2[t] = T[t]

(* A leader leads alone in its term. *)
LEMMA LeaderAlone ==
  ASSUME Offices, UniqueLeaders, NEW a \in Node, NEW b \in Node,
         state[a] = "LEADER", OnRecord(b, term[a])
  PROVE  a = b
BY DEF Offices, UniqueLeaders, OnRecord

(* No election that a step records makes two leaders of a term one. *)
LEMMA UniqueBefore ==
  ASSUME [HistoryNext]_<<vars, historyVars>>, UniqueLeaders'
  PROVE  UniqueLeaders
BY RecordStep DEF UniqueLeaders

(* There is a log for every term after the step. *)
LEMMA HistoryContinues ==
  ASSUME TypeOK', Offices', UniqueLeaders', NEW T \in Histories
  PROVE  \E T2 \in Histories : Continue(T, T2)
<1> DEFINE leads(t) == {n \in Node : state'[n] = "LEADER" /\ term'[n] = t}
           T2 == [t \in Nat |-> IF leads(t) # {} THEN logs'[CHOOSE n \in leads(t) : TRUE]
                                ELSE T[t]]
<1>1. /\ term' \in [Node -> Nat] /\ logs' \in [Node -> Seq(Entry)]
      /\ T \in [Nat -> Seq(Entry)]
  BY DEF TypeOK, Histories
<1>2. ASSUME NEW t \in Nat, leads(t) # {} PROVE (CHOOSE n \in leads(t) : TRUE) \in leads(t)
  BY <1>2
<1>3. ASSUME NEW n \in Node, NEW k \in Node, state'[n] = "LEADER",
             k \in leads(term'[n])
      PROVE  k = n
  <2>1. state'[k] = "LEADER" /\ term'[k] = term'[n]
    BY <1>3
  <2>2. OnRecord(n, term[n])'
    BY <1>3 DEF Offices
  <2>3. OnRecord(k, term[k])'
    BY <2>1 DEF Offices
  <2> QED BY <2>1, <2>2, <2>3 DEF UniqueLeaders, OnRecord
<1>4. T2 \in Histories
  <2> SUFFICES ASSUME NEW t \in Nat PROVE T2[t] \in Seq(Entry)
    BY DEF Histories
  <2>1. leads(t) \subseteq Node
    OBVIOUS
  <2> HIDE DEF leads
  <2> QED BY <1>1, <1>2, <2>1
<1>5. ASSUME NEW n \in Node, state'[n] = "LEADER" PROVE T2[term'[n]] = logs'[n]
  <2>1. n \in leads(term'[n]) /\ term'[n] \in Nat
    BY <1>1, <1>5
  <2>2. leads(term'[n]) \subseteq Node
    OBVIOUS
  <2> HIDE DEF leads
  <2>3. (CHOOSE k \in leads(term'[n]) : TRUE) = n
    BY <1>2, <1>3, <1>5, <2>1, <2>2
  <2> QED BY <2>1, <2>3
<1>6. ASSUME NEW t \in Nat, \A n \in Node : state'[n] = "LEADER" => term'[n] # t
      PROVE  T2[t] = T[t]
  <2>1. leads(t) = {}
    BY <1>6
  <2> HIDE DEF leads
  <2> QED BY <2>1
<1> HIDE DEF T2
<1> QED BY <1>4, <1>5, <1>6 DEF Continue

(* The log of a leader to be begins with the log its term has had so far:  *)
(* it is that log, or the term has had none.                               *)
LEMMA LeaderHistory ==
  ASSUME TypeOK, Offices, UniqueLeaders', [HistoryNext]_<<vars, historyVars>>,
         NEW T \in Histories, Follow(T), NEW a \in Node, state'[a] = "LEADER"
  PROVE  term'[a] = term[a] /\ Begins(T[term[a]], logs[a])
<1>1. [Next]_vars
  BY DEF HistoryNext
<1>2. term'[a] = term[a] /\ state[a] # "FOLLOWER"
  BY <1>1, OfficeStep DEF TermOfOffice
<1>3. term[a] \in Nat /\ logs[a] \in Seq(Entry) /\ state[a] \in {"FOLLOWER", "LEADER", "CANDIDATE"}
  BY DEF TypeOK
<1>4. CASE state[a] = "LEADER"
  BY <1>3, <1>4, <1>2 DEF Follow, Begins
<1>5. CASE state[a] = "CANDIDATE"
  <2>1. ASSUME NEW e \in elections PROVE e.term # term[a]
    <3>1. PICK f \in elections' : f.leader = a /\ f.term = term'[a]
      BY <1>5, RecordStep
    <3>2. e \in elections'
      BY RecordStep
    <3>3. ASSUME e.term = term[a] PROVE e.leader = a
      BY <1>2, <3>1, <3>2, <3>3 DEF UniqueLeaders
    <3> QED BY <1>3, <1>5, <3>3 DEF Offices
  <2>2. T[term[a]] = <<>>
    BY <1>3, <2>1 DEF Follow
  <2> QED BY <1>2, <1>3, <2>2 DEF Begins
<1> QED BY <1>2, <1>3, <1>4, <1>5

(* A leader keeps what it has in its log, and adds at most an entry of its *)
(* own term.                                                               *)
LEMMA LeaderLogStep ==
  ASSUME TypeOK, [Next]_vars, NEW a \in Node, state'[a] = "LEADER"
  PROVE  \/ logs'[a] = logs[a]
         \/ \E e \in Entry : e.term = term[a] /\ logs'[a] = Append(logs[a], e)
<1>1. /\ state \in [Node -> {"FOLLOWER", "LEADER", "CANDIDATE"}]
      /\ term \in [Node -> Nat] /\ logs \in [Node -> Seq(Entry)]
  BY DEF TypeOK
<1>2. ASSUME NEW m \in Node \ {a}, FollowerAppends(a, m) PROVE FALSE
  <2>1. state[a] = "FOLLOWER" /\ state' = state
    BY <1>2 DEF FollowerAppends, Receives
  <2> QED BY <2>1
<1>3. ASSUME NEW c \in Client, NEW cmd \in Cmd, LeaderAppendsCommand(a, c, cmd)
      PROVE  \E e \in Entry : e.term = term[a] /\ logs'[a] = Append(logs[a], e)
  <2> DEFINE e == MakeEntry(Len(logs[a]), term[a], cmd, c)
  <2>1. logs'[a] = Append(logs[a], e)
    BY <1>1, <1>3 DEF LeaderAppendsCommand
  <2>2. Len(logs[a]) \in Nat /\ term[a] \in Nat
    BY <1>1
  <2>3. e \in Entry /\ e.term = term[a]
    BY <2>2 DEF MakeEntry, Entry
  <2> HIDE DEF e
  <2> QED BY <2>1, <2>3
<1> QED BY <1>2, <1>3, LogStep

LEMMA AppendBegins ==
  ASSUME NEW log \in Seq(Entry), NEW e \in Entry
  PROVE  /\ Append(log, e) \in Seq(Entry) /\ Begins(log, Append(log, e))
         /\ DOMAIN Append(log, e) = 1 .. Len(log) + 1
         /\ Append(log, e)[Len(log) + 1] = e
         /\ Len(Append(log, e)) = Len(log) + 1
BY DEF Begins

LEMMA BeginsTransitive ==
  ASSUME NEW p \in Seq(Entry), NEW q \in Seq(Entry), NEW r \in Seq(Entry),
         Begins(p, q), Begins(q, r)
  PROVE  Begins(p, r)
<1>1. Len(p) \in Nat /\ Len(q) \in Nat /\ Len(r) \in Nat
  OBVIOUS
<1> QED BY <1>1 DEF Begins

LEMMA LeaderLogGrows ==
  ASSUME TypeOK, [Next]_vars, NEW a \in Node, state'[a] = "LEADER"
  PROVE  Begins(logs[a], logs'[a])
<1>1. logs[a] \in Seq(Entry)
  BY DEF TypeOK
<1>2. CASE logs'[a] = logs[a]
  BY <1>1, <1>2 DEF Begins
<1>3. ASSUME NEW e \in Entry, logs'[a] = Append(logs[a], e)
      PROVE  Begins(logs[a], logs'[a])
  BY <1>1, <1>3, AppendBegins
<1> QED BY <1>2, <1>3, LeaderLogStep

(* The log of a term only ever grows. *)
LEMMA HistoriesGrow ==
  ASSUME TypeOK, TypeOK', Offices, UniqueLeaders', [HistoryNext]_<<vars, historyVars>>,
         NEW T \in Histories, Follow(T), NEW T2 \in Histories, Continue(T, T2)
  PROVE  Grow(T, T2)
<1> SUFFICES ASSUME NEW t \in Nat PROVE Begins(T[t], T2[t])
  BY DEF Grow
<1>1. [Next]_vars
  BY DEF HistoryNext
<1>2. T[t] \in Seq(Entry)
  BY DEF Histories
<1>3. ASSUME NEW a \in Node, state'[a] = "LEADER", term'[a] = t
      PROVE  Begins(T[t], T2[t])
  <2>1. Begins(T[t], logs[a])
    BY <1>3, LeaderHistory
  <2>2. Begins(logs[a], logs'[a]) /\ T2[t] = logs'[a]
    BY <1>1, <1>3, LeaderLogGrows DEF Continue
  <2>3. logs[a] \in Seq(Entry) /\ logs'[a] \in Seq(Entry)
    BY DEF TypeOK
  <2> QED BY <1>2, <2>1, <2>2, <2>3, BeginsTransitive
<1>4. CASE \A a \in Node : state'[a] = "LEADER" => term'[a] # t
  BY <1>2, <1>4 DEF Continue, Begins
<1> QED BY <1>3, <1>4

-----------------------------------------------------------------------------
(* Every log and every update still comes from the logs of the terms.      *)

LEMMA LeaderLogFollows ==
  ASSUME TypeOK, TypeOK', [Next]_vars, NEW T \in Histories, Follow(T),
         NEW T2 \in Histories, Grow(T, T2), Continue(T, T2),
         NEW a \in Node, state'[a] = "LEADER", term'[a] = term[a]
  PROVE  LogOf(T2, logs'[a])
<1>1. logs[a] \in Seq(Entry) /\ logs'[a] \in Seq(Entry) /\ term[a] \in Nat
  BY DEF TypeOK
<1>2. LogOf(T2, logs[a])
  BY <1>1, LogOfGrows DEF Follow
<1>3. CASE logs'[a] = logs[a]
  BY <1>2, <1>3
<1>4. ASSUME NEW e \in Entry, e.term = term[a], logs'[a] = Append(logs[a], e)
      PROVE  LogOf(T2, logs'[a])
  <2> DEFINE log == logs[a]
             new == logs'[a]
  <2>1. /\ DOMAIN new = 1 .. Len(log) + 1 /\ Len(log) \in Nat
        /\ new[Len(log) + 1] = e /\ Len(new) = Len(log) + 1
        /\ \A k \in 1 .. Len(log) : new[k] = log[k]
    BY <1>1, <1>4, AppendBegins DEF Begins
  <2>2. T2[e.term] = new
    BY <1>4 DEF Continue
  <2>3. DOMAIN log = 1 .. Len(log)
    BY <1>1
  <2> HIDE DEF log, new
  <2> SUFFICES ASSUME NEW i \in DOMAIN new PROVE Within(new, i, T2[new[i].term])
    BY DEF LogOf, new
  <2>4. CASE i = Len(log) + 1
    BY <2>1, <2>2, <2>4 DEF Within
  <2>5. CASE i \in 1 .. Len(log)
    <3>1. Within(log, i, T2[log[i].term])
      BY <1>2, <2>3, <2>5 DEF LogOf, log
    <3>2. \A k \in 1 .. i : new[k] = log[k]
      BY <2>1, <2>5
    <3>3. new[i] = log[i]
      BY <2>1, <2>5
    <3> QED BY <3>1, <3>2, <3>3 DEF Within
  <2> QED BY <2>1, <2>4, <2>5
<1> QED BY <1>3, <1>4, LeaderLogStep

LEMMA LogsFollowStep ==
  ASSUME TypeOK, TypeOK', [Next]_vars, Offices, NEW T \in Histories, Follow(T),
         NEW T2 \in Histories, Grow(T, T2), Continue(T, T2), T[0] = <<>>,
         NEW n \in Node
  PROVE  LogOf(T2, logs'[n])
<1>1. logs[n] \in Seq(Entry) /\ LogOf(T, logs[n])
  BY DEF TypeOK, Follow
<1>2. CASE logs'[n] = logs[n]
  BY <1>1, <1>2, LogOfGrows
<1>3. ASSUME NEW m \in Node \ {n}, FollowerAppends(n, m)
      PROVE  LogOf(T2, logs'[n])
  <2> DEFINE rpc == NextRpc(n, m)
  <2>1. /\ rpc \in NodeRpc /\ logs'[n] \in Seq(Entry)
        /\ Begins(logs'[n], T[rpc.term])
    BY <1>3, FollowerLog
  <2>2. rpc.term \in Nat
    BY <2>1, NodeRpcFields
  <2>3. T[rpc.term] \in Seq(Entry) /\ LogOf(T, T[rpc.term])
    BY <2>2 DEF Histories, Follow
  <2>4. LogOf(T, logs'[n])
    BY <2>1, <2>3, BeginningOf
  <2> QED BY <2>1, <2>4, LogOfGrows
<1>4. ASSUME NEW c \in Client, NEW cmd \in Cmd, LeaderAppendsCommand(n, c, cmd)
      PROVE  LogOf(T2, logs'[n])
  <2>1. state'[n] = "LEADER" /\ term'[n] = term[n]
    BY <1>4 DEF LeaderAppendsCommand, voteVars
  <2> QED BY <2>1, LeaderLogFollows
<1> QED BY <1>2, <1>3, <1>4, LogStep

(* An update a step sends: it is the end of the log its leader has, which  *)
(* goes at least as far as the log of the term has gone.                   *)
LEMMA UpdateSent ==
  ASSUME TypeOK, TypeOK', Offices, UniqueLeaders', [HistoryNext]_<<vars, historyVars>>,
         NEW T \in Histories, Follow(T), NEW T2 \in Histories, Continue(T, T2),
         NEW a \in Node, NEW b \in Node, NEW x \in NodeRpc, Sends(a, b, x), IsUpdate(x)
  PROVE  /\ state'[a] = "LEADER" /\ x.term = term[a] /\ term'[a] = term[a]
         /\ PartOf(T2[x.term], x)
         /\ End(x) = Len(logs[a]) /\ Len(T[x.term]) <= End(x)
<1>1. [Next]_vars
  BY DEF HistoryNext
<1>2. x.type = "APPEND_ENTRIES"
  BY DEF IsUpdate
<1>3. PICK next \in Int : state'[a] = "LEADER" /\ x = Update(a, logs[a], next, commitIndex[a])
  BY <1>2 DEF Sends, RequestVoteResponse
<1>4. x.term = term[a] /\ PartOf(logs[a], x) /\ End(x) = Len(logs[a])
  BY <1>3, LeaderUpdate
<1>5. term'[a] = term[a] /\ Begins(T[term[a]], logs[a])
  BY <1>3, LeaderHistory
<1>6. T2[x.term] = logs'[a] /\ Begins(logs[a], logs'[a])
  BY <1>1, <1>3, <1>4, <1>5, LeaderLogGrows DEF Continue
<1>7. logs[a] \in Seq(Entry) /\ logs'[a] \in Seq(Entry)
  BY DEF TypeOK
<1>8. PartOf(T2[x.term], x)
  BY <1>4, <1>6, <1>7, PartGrows
<1> QED BY <1>3, <1>4, <1>5, <1>8 DEF Begins

LEMMA FollowStep ==
  ASSUME TypeOK, TypeOK', Offices, Offices', UniqueLeaders',
         [HistoryNext]_<<vars, historyVars>>,
         NEW T \in Histories, Follow(T), NEW T2 \in Histories, Continue(T, T2)
  PROVE  Follow(T2)'
<1>1. [Next]_vars
  BY DEF HistoryNext
<1>2. Grow(T, T2)
  BY HistoriesGrow
<1>3. T[0] = <<>>
  BY DEF Follow, Offices
<1>4. ASSUME NEW n \in Node PROVE LogOf(T2, logs'[n])
  BY <1>1, <1>2, <1>3, LogsFollowStep
<1>5. ASSUME NEW t \in Nat PROVE LogOf(T2, T2[t])
  <2>1. ASSUME NEW n \in Node, state'[n] = "LEADER", term'[n] = t
        PROVE  LogOf(T2, T2[t])
    BY <1>4, <2>1 DEF Continue
  <2>2. CASE \A n \in Node : state'[n] = "LEADER" => term'[n] # t
    <3>1. T2[t] = T[t] /\ LogOf(T, T[t]) /\ T[t] \in Seq(Entry)
      BY <2>2 DEF Continue, Follow, Histories
    <3> QED BY <1>2, <3>1, LogOfGrows
  <2> QED BY <2>1, <2>2
<1>6. ASSUME NEW a \in Node, NEW b \in Node, NEW x \in InFlight(a, b)', IsUpdate(x)
      PROVE  PartOf(T2[x.term], x)
  <2>1. x \in NodeRpc
    BY UnderWayType DEF InFlight, TypeOK
  <2>2. x \in InFlight(a, b) \/ Sends(a, b, x)
    BY <1>1, StepSends
  <2>3. CASE x \in InFlight(a, b)
    <3>1. x.term \in Nat /\ PartOf(T[x.term], x)
      BY <1>6, <2>1, <2>3, NodeRpcFields DEF Follow
    <3>2. /\ T[x.term] \in Seq(Entry) /\ T2[x.term] \in Seq(Entry)
          /\ Begins(T[x.term], T2[x.term])
      BY <1>2, <3>1 DEF Histories, Grow
    <3> QED BY <1>6, <2>1, <3>1, <3>2, PartGrows
  <2>4. CASE Sends(a, b, x)
    BY <1>6, <2>1, <2>4, UpdateSent
  <2> QED BY <2>2, <2>3, <2>4
<1>7. ASSUME NEW t \in Nat, \A e \in elections' : e.term # t
      PROVE  T2[t] = <<>>
  <2>1. ASSUME NEW n \in Node, state'[n] = "LEADER" PROVE term'[n] # t
    BY <1>7, <2>1 DEF Offices, OnRecord
  <2>2. T2[t] = T[t]
    BY <2>1 DEF Continue
  <2>3. \A e \in elections : e.term # t
    BY <1>7, RecordStep
  <2> QED BY <2>2, <2>3 DEF Follow
<1>8. \A n \in Node : state'[n] = "LEADER" => T2[term'[n]] = logs'[n]
  BY DEF Continue
<1> QED BY <1>4, <1>5, <1>6, <1>7, <1>8 DEF Follow

-----------------------------------------------------------------------------
(* What a follower has acknowledged.                                       *)

(* Of two updates of one term in a queue the later reaches as far as the   *)
(* earlier.                                                                *)
UpdatesReachFurther ==
  \A a, b \in Node : \A i, j \in DOMAIN Line(a, b) :
    LET x == Line(a, b)[i]
        y == Line(a, b)[j]
    IN  i < j /\ IsUpdate(x) /\ IsUpdate(y) /\ x.term = y.term => End(x) <= End(y)

(* m has told n, leader of a term, that its log is the one of that term up *)
(* to newIndex; while m is in that term it stays so, for the updates of n  *)
(* still under way reach as far.                                           *)
Acknowledges(T, m, n, r) ==
  /\ r.term <= term[m] /\ OnRecord(n, r.term)
  /\ r.newIndex <= Len(T[r.term])
  /\ term[m] = r.term =>
       /\ r.newIndex <= Len(logs[m]) /\ Within(logs[m], r.newIndex, T[r.term])
       /\ \A x \in InFlight(n, m) :
            IsUpdate(x) /\ x.term = r.term => r.newIndex <= End(x)

IsAcknowledgement(x) == x.type = "APPEND_ENTRIES_RESPONSE" /\ x.success

Acknowledged(T) ==
  \A m, n \in Node : \A r \in InFlight(m, n) :
    IsAcknowledgement(r) => Acknowledges(T, m, n, r)

LEMMA EndType ==
  ASSUME NEW x \in NodeRpc, IsUpdate(x)
  PROVE  End(x) \in Nat /\ x.term \in Nat
<1>1. /\ x.prevLogIndex \in Int /\ x.prevLogIndex >= -1
      /\ x.entries \in Seq(Entry) /\ x.term \in Nat
  BY NodeRpcFields DEF IsUpdate, Throws
<1>2. Len(x.entries) \in Nat
  BY <1>1
<1> QED BY <1>1, <1>2 DEF End

(* The positions of a queue that lost its head or got one more message.    *)
LEMMA AppendPositions ==
  ASSUME NEW S, NEW q \in Seq(S), NEW e \in S, NEW i \in DOMAIN Append(q, e)
  PROVE  \/ i = Len(q) + 1 /\ Append(q, e)[i] = e
         \/ i \in DOMAIN q /\ i <= Len(q) /\ Append(q, e)[i] = q[i]
<1>1. Append(q, e) \in Seq(S) /\ Len(Append(q, e)) = Len(q) + 1 /\ Len(q) \in Nat
  OBVIOUS
<1>2. i \in 1 .. Len(q) + 1
  BY <1>1
<1>3. DOMAIN q = 1 .. Len(q)
  OBVIOUS
<1> QED BY <1>1, <1>2, <1>3

LEMMA UpdatesReachFurtherStep ==
  ASSUME TypeOK, TypeOK', Offices, UniqueLeaders', [HistoryNext]_<<vars, historyVars>>,
         NEW T \in Histories, Follow(T), NEW T2 \in Histories, Continue(T, T2),
         UpdatesReachFurther
  PROVE  UpdatesReachFurther'
<1> SUFFICES ASSUME NEW a \in Node, NEW b \in Node,
                    NEW i \in DOMAIN Line(a, b)', NEW j \in DOMAIN Line(a, b)', i < j,
                    NEW x, x = Line(a, b)'[i], NEW y, y = Line(a, b)'[j],
                    IsUpdate(x), IsUpdate(y), x.term = y.term
             PROVE  End(x) <= End(y)
  BY DEF UpdatesReachFurther, IsUpdate, End, Throws
<1> DEFINE q == Line(a, b)
           r == Line(a, b)'
<1>1. q \in Seq(NodeRpc)
  BY LineUnderWay
<1>2. LineMoves(a, b)
  BY LineStep DEF HistoryNext
<1>3. \A k \in DOMAIN q : q[k] \in InFlight(a, b) /\ q[k] \in NodeRpc
  <2>1. \A k \in DOMAIN q : q[k] \in InFlight(a, b)
    BY LineUnderWay
  <2> HIDE DEF q
  <2> QED BY <1>1, <2>1
<1>4. \A k, l \in DOMAIN q :
        k < l /\ IsUpdate(q[k]) /\ IsUpdate(q[l]) /\ q[k].term = q[l].term
          => End(q[k]) <= End(q[l])
  BY DEF UpdatesReachFurther
<1>5. CASE r = q
  BY <1>4, <1>5
<1>6. CASE q # <<>> /\ r = Tail(q)
  <2> HIDE DEF q
  <2>1. /\ i + 1 \in DOMAIN q /\ x = q[i + 1]
        /\ j + 1 \in DOMAIN q /\ y = q[j + 1]
    BY <1>1, <1>6, TailElement
  <2>2. i + 1 < j + 1
    <3>1. DOMAIN q \subseteq Int /\ DOMAIN r \subseteq Int
      BY <1>1, <1>6
    <3> QED BY <3>1
  <2> QED BY <1>4, <2>1, <2>2
<1>7. ASSUME NEW e \in NodeRpc, Sends(a, b, e), r = Append(q, e)
      PROVE  End(x) <= End(y)
  <2> HIDE DEF q
  <2>1. \/ i = Len(q) + 1 /\ x = e
        \/ i \in DOMAIN q /\ i <= Len(q) /\ x = q[i]
    BY <1>1, <1>7, AppendPositions
  <2>2. \/ j = Len(q) + 1 /\ y = e
        \/ j \in DOMAIN q /\ j <= Len(q) /\ y = q[j]
    BY <1>1, <1>7, AppendPositions
  <2>3. Len(q) \in Nat /\ DOMAIN q = 1 .. Len(q)
    BY <1>1
  <2>4. i \in DOMAIN q /\ x = q[i]
    BY <2>1, <2>2, <2>3
  <2>5. CASE j \in DOMAIN q /\ y = q[j]
    BY <1>4, <2>4, <2>5
  <2>6. CASE y = e
    <3>1. End(x) <= Len(T[x.term])
      BY <1>3, <2>4 DEF Follow, PartOf
    <3>2. Len(T[x.term]) <= End(y)
      BY <1>7, <2>6, UpdateSent
    <3>3. x.term \in Nat /\ End(x) \in Nat /\ End(y) \in Nat
      BY <1>3, <1>7, <2>4, <2>6, EndType
    <3>4. Len(T[x.term]) \in Nat
      <4>1. T[x.term] \in Seq(Entry)
        BY <3>3 DEF Histories
      <4> QED BY <4>1
    <3> QED BY <3>1, <3>2, <3>3, <3>4
  <2> QED BY <2>2, <2>5, <2>6
<1> QED BY <1>2, <1>5, <1>6, <1>7 DEF LineMoves

(* The response to the update a follower has followed: its log is the log  *)
(* of the term up to where the update reaches, and the updates behind it   *)
(* reach as far.                                                           *)
LEMMA NewAcknowledgement ==
  ASSUME TypeOK, TypeOK', UpdatesOnRecord, [HistoryNext]_<<vars, historyVars>>,
         NEW T \in Histories, Follow(T), T[0] = <<>>, UpdatesReachFurther,
         NEW m \in Node, NEW n \in Node \ {m}, FollowerAppends(m, n),
         NEW r, r.term = TermAfter(m, NextRpc(m, n)), r.newIndex = Len(logs'[m])
  PROVE  /\ r.term = term'[m] /\ r.term \in Nat
         /\ OnRecord(n, r.term)
         /\ r.newIndex \in Nat /\ Within(logs'[m], r.newIndex, T[r.term])
         /\ \A x \in InFlight(n, m) :
              IsUpdate(x) /\ x.term = r.term => r.newIndex <= End(x)
<1> DEFINE rpc == NextRpc(m, n)
           q == Line(n, m)
<1>1. /\ rpc \in InFlight(n, m) /\ rpc \in NodeRpc /\ IsUpdate(rpc)
      /\ logs'[m] \in Seq(Entry)
      /\ Begins(logs'[m], T[rpc.term]) /\ Len(logs'[m]) = End(rpc)
  BY FollowerLog
<1>2. /\ rpc.term >= term[m] /\ term' = [term EXCEPT ![m] = TermAfter(m, rpc)]
      /\ Receives(m, n, "FOLLOWER", {"APPEND_ENTRIES"})
  BY DEF FollowerAppends
<1>3. rpc.term \in Nat /\ term \in [Node -> Nat]
  BY <1>1, NodeRpcFields DEF TypeOK
<1>4. r.term = rpc.term /\ r.term = term'[m]
  BY <1>2, <1>3 DEF TermAfter
<1>5. OnRecord(n, rpc.term)
  BY <1>1 DEF UpdatesOnRecord, IsUpdate
<1>6. /\ q \in Seq(NodeRpc) /\ q # <<>> /\ rpc = Head(q)
  <2>1. CanReceive(m, n)
    BY <1>2 DEF Receives
  <2> QED BY <2>1, TakeQueue, QueueType DEF Line, TypeOK
<1>7. 1 \in DOMAIN q /\ rpc = q[1] /\ DOMAIN q \subseteq Nat \ {0}
  <2> HIDE DEF q
  <2> QED BY <1>6
<1>8. ASSUME NEW x \in InFlight(n, m), IsUpdate(x), x.term = rpc.term
       PROVE  End(rpc) <= End(x)
  <2>1. PICK i \in DOMAIN q : x = q[i]
    BY LineUnderWay
  <2>2. CASE i = 1
    <3>1. x = rpc
      BY <1>7, <2>1, <2>2
    <3>2. End(rpc) \in Nat
      BY <1>1, EndType
    <3> QED BY <3>1, <3>2
  <2>3. CASE i # 1
    <3>1. 1 < i
      BY <1>7, <2>3
    <3> QED BY <1>1, <1>7, <1>8, <2>1, <3>1 DEF UpdatesReachFurther
  <2> QED BY <2>2, <2>3
<1>9. Within(logs'[m], Len(logs'[m]), T[rpc.term]) /\ Len(logs'[m]) \in Nat
  BY <1>1 DEF Begins, Within
<1> QED BY <1>1, <1>3, <1>4, <1>5, <1>8, <1>9

(* While the term of the acknowledgement lasts, the log of m stays what it *)
(* is up to newIndex.                                                      *)
LEMMA AcknowledgedLogStep ==
  ASSUME TypeOK, TypeOK', UniqueLeaders, UpdatesOnRecord, [Next]_vars,
         NEW T \in Histories, Follow(T), T[0] = <<>>,
         NEW m \in Node, NEW n \in Node, NEW r, r.newIndex \in Nat,
         Acknowledges(T, m, n, r), term[m] = r.term, term'[m] = r.term
  PROVE  r.newIndex <= Len(logs'[m]) /\ Within(logs'[m], r.newIndex, T[r.term])
<1> DEFINE i == r.newIndex
<1>1. /\ i <= Len(logs[m]) /\ Within(logs[m], i, T[r.term]) /\ OnRecord(n, r.term)
      /\ \A x \in InFlight(n, m) : IsUpdate(x) /\ x.term = r.term => i <= End(x)
  BY DEF Acknowledges
<1>2. logs[m] \in Seq(Entry) /\ term[m] \in Nat /\ logs'[m] \in Seq(Entry)
  BY DEF TypeOK
<1>3. CASE logs'[m] = logs[m]
  BY <1>1, <1>3
<1>4. ASSUME NEW p \in Node \ {m}, FollowerAppends(m, p)
      PROVE  i <= Len(logs'[m]) /\ Within(logs'[m], i, T[r.term])
  <2> DEFINE rpc == NextRpc(m, p)
  <2>1. /\ rpc \in InFlight(p, m) /\ rpc \in NodeRpc /\ IsUpdate(rpc)
        /\ Begins(logs'[m], T[rpc.term]) /\ Len(logs'[m]) = End(rpc)
    BY <1>4, FollowerLog
  <2>2. rpc.term \in Nat
    BY <2>1, NodeRpcFields
  <2>3. rpc.term = r.term
    <3>1. rpc.term >= term[m] /\ term' = [term EXCEPT ![m] = TermAfter(m, rpc)]
      BY <1>4 DEF FollowerAppends
    <3>2. term \in [Node -> Nat]
      BY DEF TypeOK
    <3>3. term'[m] = TermAfter(m, rpc)
      BY <3>1, <3>2
    <3> HIDE DEF rpc
    <3> QED BY <1>2, <2>2, <3>1, <3>3 DEF TermAfter
  <2>4. OnRecord(p, r.term)
    BY <2>1, <2>3 DEF UpdatesOnRecord, IsUpdate
  <2>5. p = n
    BY <1>1, <2>4 DEF UniqueLeaders, OnRecord
  <2>6. i <= Len(logs'[m])
    BY <1>1, <2>1, <2>3, <2>5
  <2>7. Len(T[r.term]) \in Nat /\ Len(logs'[m]) \in Nat
    <3>1. T[r.term] \in Seq(Entry)
      BY <1>2 DEF Histories
    <3> QED BY <1>2, <3>1
  <2> QED BY <2>1, <2>3, <2>6, <2>7 DEF Begins, Within
<1>5. ASSUME NEW c \in Client, NEW cmd \in Cmd, LeaderAppendsCommand(m, c, cmd)
      PROVE  i <= Len(logs'[m]) /\ Within(logs'[m], i, T[r.term])
  <2>1. state'[m] = "LEADER"
    BY <1>5 DEF LeaderAppendsCommand, voteVars
  <2>2. Begins(logs[m], logs'[m])
    BY <2>1, LeaderLogGrows
  <2>3. Len(logs[m]) \in Nat /\ Len(logs'[m]) \in Nat
    BY <1>2
  <2> QED BY <1>1, <2>2, <2>3 DEF Begins, Within
<1> QED BY <1>3, <1>4, <1>5, LogStep

(* No update that is under way after the step cuts the log below newIndex. *)
LEMMA AcknowledgedUpdatesStep ==
  ASSUME TypeOK, TypeOK', Offices, UniqueLeaders', [HistoryNext]_<<vars, historyVars>>,
         NEW T \in Histories, Follow(T), NEW T2 \in Histories, Continue(T, T2),
         NEW m \in Node, NEW n \in Node, NEW t \in Nat, NEW i \in Nat, i <= Len(T[t]),
         \A x \in InFlight(n, m) : IsUpdate(x) /\ x.term = t => i <= End(x),
         NEW x \in InFlight(n, m)', IsUpdate(x), x.term = t
  PROVE  i <= End(x)
<1>1. x \in NodeRpc
  BY UnderWayType DEF InFlight, TypeOK
<1>2. x \in InFlight(n, m) \/ Sends(n, m, x)
  BY StepSends DEF HistoryNext
<1>3. CASE Sends(n, m, x)
  <2>1. Len(T[t]) <= End(x)
    BY <1>1, <1>3, UpdateSent
  <2>2. End(x) \in Nat /\ T[t] \in Seq(Entry)
    BY <1>1, EndType DEF Histories
  <2>3. Len(T[t]) \in Nat
    BY <2>2
  <2> QED BY <2>1, <2>2, <2>3
<1> QED BY <1>2, <1>3

LEMMA WithinGrows ==
  ASSUME NEW T \in Histories, NEW T2 \in Histories, Grow(T, T2), NEW t \in Nat,
         NEW log, NEW i \in Nat, Within(log, i, T[t])
  PROVE  Within(log, i, T2[t])
<1>1. Begins(T[t], T2[t]) /\ T[t] \in Seq(Entry) /\ T2[t] \in Seq(Entry)
  BY DEF Grow, Histories
<1>2. Len(T[t]) \in Nat /\ Len(T2[t]) \in Nat
  BY <1>1
<1> QED BY <1>1, <1>2 DEF Begins, Within

(* An acknowledgement is sent by a follower that follows an update. *)
LEMMA AcknowledgementSent ==
  ASSUME NEW m \in Node, NEW n \in Node, NEW r, IsAcknowledgement(r), Sends(m, n, r)
  PROVE  /\ FollowerAppends(m, n) /\ n # m
         /\ r.term = TermAfter(m, NextRpc(m, n)) /\ r.newIndex = Len(logs'[m])
<1>1. r.type = "APPEND_ENTRIES_RESPONSE" /\ r.success
  BY DEF IsAcknowledgement
<1>2. ASSUME NEW t, NEW g PROVE r # RequestVoteResponse(t, g)
  <2>1. RequestVoteResponse(t, g).type = "REQUEST_VOTE_RESPONSE"
    BY DEF RequestVoteResponse
  <2> QED BY <1>1, <2>1
<1>3. ASSUME NEW next \in Int PROVE r # Update(m, logs[m], next, commitIndex[m])
  <2>1. Update(m, logs[m], next, commitIndex[m]).type = "APPEND_ENTRIES"
    BY DEF Update, AppendEntries
  <2> QED BY <1>1, <2>1
<1> QED BY <1>1, <1>2, <1>3 DEF Sends

(* An acknowledgement that holds goes on to hold. *)
LEMMA AcknowledgesStep ==
  ASSUME TypeOK, TypeOK', Offices, UniqueLeaders, UniqueLeaders', UpdatesOnRecord,
         [HistoryNext]_<<vars, historyVars>>,
         NEW T \in Histories, Follow(T), NEW T2 \in Histories, Continue(T, T2),
         NEW m \in Node, NEW n \in Node,
         NEW r, r.term \in Nat, r.newIndex \in Nat, Acknowledges(T, m, n, r)
  PROVE  Acknowledges(T2, m, n, r)'
<1>1. [Next]_vars
  BY DEF HistoryNext
<1>2. Grow(T, T2) /\ T[0] = <<>>
  BY HistoriesGrow DEF Follow, Offices
<1>3. term[m] \in Nat /\ term'[m] \in Nat /\ term[m] <= term'[m]
  <2>1. term[m] \in Nat /\ term'[m] \in Nat
    BY DEF TypeOK
  <2>2. VoteKept(m)
    BY <1>1, OneVoteStep
  <2> QED BY <2>1, <2>2 DEF VoteKept
<1>4. OnRecord(n, r.term)'
  BY RecordStep DEF OnRecord, Acknowledges
<1>5. r.newIndex <= Len(T2[r.term])
  <2>1. Begins(T[r.term], T2[r.term]) /\ T[r.term] \in Seq(Entry) /\ T2[r.term] \in Seq(Entry)
    BY <1>2 DEF Grow, Histories
  <2>2. Len(T[r.term]) \in Nat /\ Len(T2[r.term]) \in Nat
    BY <2>1
  <2> QED BY <2>1, <2>2 DEF Begins, Acknowledges
<1>6. ASSUME term'[m] = r.term
      PROVE  /\ r.newIndex <= Len(logs'[m]) /\ Within(logs'[m], r.newIndex, T2[r.term])
             /\ \A x \in InFlight(n, m)' :
                  IsUpdate(x) /\ x.term = r.term => r.newIndex <= End(x)
  <2>1. term[m] = r.term
    BY <1>3, <1>6 DEF Acknowledges
  <2>2. r.newIndex <= Len(logs'[m]) /\ Within(logs'[m], r.newIndex, T[r.term])
    BY <1>1, <1>2, <1>6, <2>1, AcknowledgedLogStep
  <2>3. /\ r.newIndex <= Len(T[r.term])
        /\ \A x \in InFlight(n, m) : IsUpdate(x) /\ x.term = r.term => r.newIndex <= End(x)
    BY <2>1 DEF Acknowledges
  <2> QED BY <1>2, <2>2, <2>3, AcknowledgedUpdatesStep, WithinGrows
<1> QED BY <1>3, <1>4, <1>5, <1>6 DEF Acknowledges, IsUpdate, End, Throws

(* One comes to hold when a follower follows an update. *)
LEMMA NewlyAcknowledges ==
  ASSUME TypeOK, TypeOK', Offices, UniqueLeaders', UpdatesOnRecord, UpdatesReachFurther,
         [HistoryNext]_<<vars, historyVars>>,
         NEW T \in Histories, Follow(T), NEW T2 \in Histories, Continue(T, T2),
         NEW m \in Node, NEW n \in Node \ {m}, FollowerAppends(m, n),
         NEW r, r.term = TermAfter(m, NextRpc(m, n)), r.newIndex = Len(logs'[m])
  PROVE  /\ r.term = term'[m] /\ r.term \in Nat /\ r.newIndex \in Nat
         /\ r.newIndex <= Len(T[r.term])
         /\ Acknowledges(T2, m, n, r)'
<1>1. [Next]_vars
  BY DEF HistoryNext
<1>2. Grow(T, T2) /\ T[0] = <<>>
  BY HistoriesGrow DEF Follow, Offices
<1>3. /\ r.term = term'[m] /\ r.term \in Nat /\ r.newIndex \in Nat
      /\ OnRecord(n, r.term)
      /\ Within(logs'[m], r.newIndex, T[r.term])
      /\ \A x \in InFlight(n, m) : IsUpdate(x) /\ x.term = r.term => r.newIndex <= End(x)
  BY <1>2, NewAcknowledgement
<1>4. r.newIndex <= Len(T[r.term])
  BY <1>3 DEF Within
<1>5. \A x \in InFlight(n, m)' :
        IsUpdate(x) /\ x.term = r.term => r.newIndex <= End(x)
  BY <1>3, <1>4, AcknowledgedUpdatesStep
<1>6. Within(logs'[m], r.newIndex, T2[r.term])
  BY <1>2, <1>3, WithinGrows
<1>7. r.newIndex <= Len(T2[r.term])
  BY <1>6 DEF Within
<1>8. OnRecord(n, r.term)'
  BY <1>3, RecordStep DEF OnRecord
<1>9. r.newIndex <= Len(logs'[m]) /\ r.term <= term'[m]
  BY <1>3
<1> QED BY <1>3, <1>4, <1>5, <1>6, <1>7, <1>8, <1>9
        DEF Acknowledges, IsUpdate, End, Throws

LEMMA AcknowledgedStep ==
  ASSUME TypeOK, TypeOK', Offices, UniqueLeaders, UniqueLeaders', UpdatesOnRecord,
         [HistoryNext]_<<vars, historyVars>>,
         NEW T \in Histories, Follow(T), NEW T2 \in Histories, Continue(T, T2),
         UpdatesReachFurther, Acknowledged(T)
  PROVE  Acknowledged(T2)'
<1> SUFFICES ASSUME NEW m \in Node, NEW n \in Node, NEW r \in InFlight(m, n)',
                    IsAcknowledgement(r)
             PROVE  Acknowledges(T2, m, n, r)'
  BY DEF Acknowledged, IsAcknowledgement
<1>1. [Next]_vars
  BY DEF HistoryNext
<1>2. r.term \in Nat /\ r.newIndex \in Nat
  <2>1. r \in NodeRpc
    BY UnderWayType DEF InFlight, TypeOK
  <2> QED BY <2>1, NodeRpcFields DEF IsAcknowledgement
<1>3. CASE r \in InFlight(m, n)
  BY <1>2, <1>3, AcknowledgesStep DEF Acknowledged
<1>4. CASE Sends(m, n, r)
  BY <1>4, AcknowledgementSent, NewlyAcknowledges
<1> QED BY <1>1, <1>3, <1>4, StepSends

-----------------------------------------------------------------------------
(* What holds as long as no two elections of a term had different winners. *)

Traced == UniqueLeaders =>
  UpdatesReachFurther /\ \E T \in Histories : Follow(T) /\ Acknowledged(T)

LEMMA TracedStep ==
  ASSUME TypeOK, TypeOK', Offices, Offices', UpdatesOnRecord, Traced,
         [HistoryNext]_<<vars, historyVars>>
  PROVE  Traced'
<1> SUFFICES ASSUME UniqueLeaders'
             PROVE  /\ UpdatesReachFurther'
                    /\ (\E T \in Histories : Follow(T) /\ Acknowledged(T))'
  BY DEF Traced
<1>1. UniqueLeaders
  BY UniqueBefore
<1>2. UpdatesReachFurther
  BY <1>1 DEF Traced
<1>3. PICK T \in Histories : Follow(T) /\ Acknowledged(T)
  BY <1>1 DEF Traced
<1>4. PICK T2 \in Histories : Continue(T, T2)
  BY HistoryContinues
<1>5. Follow(T2)'
  BY <1>3, <1>4, FollowStep
<1>6. Acknowledged(T2)'
  BY <1>1, <1>2, <1>3, <1>4, AcknowledgedStep
<1>7. UpdatesReachFurther'
  BY <1>2, <1>3, <1>4, UpdatesReachFurtherStep
<1> QED BY <1>5, <1>6, <1>7 DEF Histories

LEMMA TracedInit == ASSUME HistoryInit PROVE Traced
<1> DEFINE T == [t \in Nat |-> <<>>]
<1>1. T \in Histories
  BY DEF Histories
<1>2. \A a, b \in Node : InFlight(a, b) = {}
  BY DEF HistoryInit, Init, MailboxInit, InFlight, UnderWay
<1>3. Follow(T)
  BY <1>2 DEF HistoryInit, Init, Follow, LogOf
<1>4. Acknowledged(T)
  BY <1>2 DEF Acknowledged
<1>5. UpdatesReachFurther
  <2>1. \A a, b \in Node : Line(a, b) \in Seq(NodeRpc) /\ DOMAIN Line(a, b) = {}
    <3>1. TypeOK
      BY InitType DEF HistoryInit
    <3> QED BY <1>2, <3>1, LineUnderWay
  <2> QED BY <2>1 DEF UpdatesReachFurther
<1> QED BY <1>1, <1>3, <1>4, <1>5 DEF Traced

LEMMA TracedInv == HistorySpec => [](TypeOK /\ Offices /\ UpdatesOnRecord /\ Traced)
<1>1. TypeOK /\ TypeOK' /\ Offices /\ Offices' /\ UpdatesOnRecord /\ Traced
        /\ [HistoryNext]_<<vars, historyVars>> => Traced'
  BY TracedStep
<1>2. HistoryInit => Traced
  BY TracedInit
<1> QED BY <1>1, <1>2, OfficesInv, PTL DEF HistorySpec

(* LogMatching: as long as every election rests on votes of its own term,  *)
(* two logs with an entry of one term at one position are equal up to it,  *)
(* however often followers cut and rewrite theirs (followerCycle.cc:34-36).*)
THEOREM LogsMatch == HistorySpec => []LogMatching
<1>1. TypeOK /\ Traced /\ BackedElectionsAgree => LogMatching
  <2> SUFFICES ASSUME TypeOK, Traced, BackedElectionsAgree, AllBacked,
                      NEW m \in Node, NEW n \in Node,
                      NEW i \in DOMAIN logs[m] \cap DOMAIN logs[n],
                      logs[m][i].term = logs[n][i].term
               PROVE  SubSeq(logs[m], 1, i) = SubSeq(logs[n], 1, i)
    BY DEF LogMatching
  <2> DEFINE p == logs[m]
             q == logs[n]
  <2>1. PICK T \in Histories : Follow(T)
    BY BackedLeadersUnique DEF Traced
  <2>2. p \in Seq(Entry) /\ q \in Seq(Entry) /\ LogOf(T, p) /\ LogOf(T, q)
    BY <2>1 DEF TypeOK, Follow
  <2> HIDE DEF p, q
  <2>3. \A k \in 1 .. i : p[k] = q[k]
    BY <2>2, SameUpTo DEF p, q
  <2>4. i \in Nat
    BY <2>2 DEF p
  <2>5. SubSeq(p, 1, i) = SubSeq(q, 1, i)
    BY <2>3, <2>4, SubSeqEqual
  <2> QED BY <2>5 DEF p, q
<1> QED BY <1>1, TracedInv, BackedElectionsSafe, PTL

(* AcknowledgedEntriesStay: as long as every election rests on votes of    *)
(* its own term, what a follower has acknowledged to the leader of its     *)
(* term stays in both logs until the leader hears of it                    *)
(* (followerCycle.cc:34-36, leaderCycle.cc:47-56).                         *)
THEOREM AcknowledgedEntriesRemain == HistorySpec => []AcknowledgedEntriesStay
<1>1. TypeOK /\ Traced /\ BackedElectionsAgree => AcknowledgedEntriesStay
  <2> SUFFICES ASSUME TypeOK, Traced, BackedElectionsAgree, AllBacked,
                      NEW m \in Node, NEW n \in Node, NEW r \in InFlight(m, n),
                      IsAcknowledgement(r),
                      state[n] = "LEADER", term[n] = r.term, term[m] = r.term
               PROVE  /\ r.newIndex <= Len(logs[m]) /\ r.newIndex <= Len(logs[n])
                      /\ SubSeq(logs[m], 1, r.newIndex) = SubSeq(logs[n], 1, r.newIndex)
    BY DEF AcknowledgedEntriesStay, IsAcknowledgement
  <2>1. PICK T \in Histories : Follow(T) /\ Acknowledged(T)
    BY BackedLeadersUnique DEF Traced
  <2>2. T[r.term] = logs[n]
    BY <2>1 DEF Follow
  <2>3. /\ r.newIndex <= Len(logs[m]) /\ r.newIndex <= Len(logs[n])
        /\ Within(logs[m], r.newIndex, logs[n])
    BY <2>1, <2>2 DEF Acknowledged, Acknowledges
  <2>4. r.newIndex \in Nat
    <3>1. r \in NodeRpc
      BY UnderWayType DEF InFlight, TypeOK
    <3> QED BY <3>1, NodeRpcFields DEF IsAcknowledgement
  <2>5. \A k \in 1 .. r.newIndex : logs[m][k] = logs[n][k]
    BY <2>3 DEF Within
  <2>6. SubSeq(logs[m], 1, r.newIndex) = SubSeq(logs[n], 1, r.newIndex)
    BY <2>4, <2>5, SubSeqEqual
  <2> QED BY <2>3, <2>6
<1> QED BY <1>1, TracedInv, BackedElectionsSafe, PTL
==============================================================================
