# Raft_Algorep in TLA+

TLA+ modules, TLC configurations and TLAPS proofs for the Raft implementation in
this repository: a C++17 program that runs, under MPI, a controller (rank 0), a
number of nodes (the Raft servers) and a number of clients. Paths below are
relative to `src/src/` unless they begin with `src/`.

## The system

| component | source | state | operations |
|---|---|---|---|
| messages, entries | `rpc/*`, `runners/node/entry.*` | - | construction, JSON both ways |
| mailbox | `wrappers/mpi_include.*`, `wrappers/mpi/rpcRecieverReinjecter.*` | MPI's queues, the cache `reinjected_messages_` | `Send_Rpc`, `Recv_Rpc`, `Recv_Rpc_Timeout`, `get_rpc*`, `reinject_rpc` |
| node | `runners/node.{hh,cc}` | `state`, `term`, `votedFor`, `leaderId`, `logs`, `matchIndex`, `nextIndex`, `commitIndex`, `crash`; the file `node_<rank>.log` | `start`, `update`, `initLeader`, `save_commit` |
| cycle | `runners/node/cycle/cycle.*` | `nextState` | `check_always_should_stop`, `handle_controller_request`, `crash_loop` |
| follower | `runners/node/cycle/followerCycle.*` | - | votes, appends, saves what is committed; stands on timeout |
| candidate | `runners/node/cycle/candidateCycle.*` | `voteCount`, `hasVotedForMe` | asks for votes, counts them, wins or stands down |
| leader | `runners/node/cycle/leaderCycle.*` | - | updates and heartbeats, commit loop, client commands |
| client | `runners/client/client.*` | `run`, `request`, `leaderId` | asks random nodes for the leader, sends its commands |
| controller | `runners/controller/controller.*` | - | turns a script or the terminal into requests to nodes and clients |
| clock | `utils/clock.*` | `speed` | delays between two cycles |
| configuration, main | `config/globalConfig.*`, `main.cc` | ranks | arguments, roles |

Processes share nothing and interact by messages only. Nodes exchange
RequestVote and AppendEntries and their responses; a client asks a node for the
leader and sends it commands, and the leader answers each command when it has
committed it; the controller tells nodes and clients to crash, recover, slow
down, start, and (clients) to submit a command.

A node is one thread. `Node::start` builds a cycle object for the present role
and `Node::update` runs it: `pre_cycle`, messages until the timer expires or a
handler asks to leave, `post_cycle`. A message with a newer term makes a
candidate or a leader follower; it is put into the cache (`reinject_rpc`) and
handled again in the new role.

What is hard here:

- any order of messages of different senders, any delay: an answer arrives when
  the node that asked has gone on to another term or role;
- retries: a candidate stands again with old requests under way; a leader sends
  the whole unacknowledged suffix on every heartbeat without waiting for answers;
- CRASH keeps the memory of a node and drops what reaches it until RECOVERY;
- a client asks nodes at random who leads and believes any answer of the one it
  asked last; while it asks it listens to nobody else, and it clears its queue when
  it has sent it, whoever receives it;
- a follower answers no update without entries, so a leader may hold what everybody
  holds and not know it;
- the log of a follower is cut on every AppendEntries (`followerCycle.cc:36`);
- indices are signed integers without bounds, and the default build is RELEASE
  (`src/Makefile:1`), in which the assertions that bound them are compiled out.

What makes each part correct: the mailbox loses, duplicates and reorders nothing
between one sender and one receiver and returns a reinjected message first. A
node votes once per term and never takes a promise back. A leader has a majority
of different voters. Logs that agree on an entry agree before it, entries carry
their position, terms in a log do not decrease. What is acknowledged stays. What
is committed stays and is the same everywhere, and every file agrees with it. What
a leader takes reaches every file. Whomever a node names as leader has won an
election. A command is taken in the order it was typed and at most once, and a
client does not keep it, nor fail to hear the controller, while a leader is known.

The list of hazards, each at its line, is in `PROJECT.json`.

## Modules

    Rpc <- Mailbox <- Raft <- RaftProperties <- RaftHistory <- RaftCommit
             |                  |        |          |   \         |
             |                  |   RaftProgress    |    \     MCCommit
             |                  |        |          |     -- implements -->  Cluster
             |               MCRaft, MCProgress  MCHistory
             |
      MailboxProofs <- RaftProofs <- RaftMessageProofs <- RaftHistoryProofs
                                              <- RaftLogProofs <- RaftCommitProofs

    Rpc <- Links <- Client     \
       \        <- Controller   >  System <- SystemProperties  -- implements -->  Delivery
        <- Cluster             /                |      |
                        GlobalConfig <- MCSystem    SystemProofs

(`A <- B`: B extends A.) There are two halves. `Raft` has everything the nodes do
among themselves, with clients and controller open. `System` has the clients and the
controller as they are, and the nodes as `Cluster`, which says of them what the others can
see: roles, leaders and crashes. That `Raft` implements `Cluster` is checked and
proved, so what `System` shows holds with `Raft` in the place of `Cluster`.

- `Rpc`: all the messages, as records with the fields of the JSON form, and log
  entries. A command is a member of `Cmd`.
- `Mailbox`: `chan[s][d]` is the FIFO queue of one ordered pair of processes (MPI
  does not let messages of one sender, tag and communicator overtake each other);
  nothing orders different senders, and a message may stay in its queue for ever.
  `reinjected[n]` is the cache.
- `Raft`: all the nodes. One action is what a node does between two returns of
  `get_rpc_timeout`: the handler and, when it leaves the cycle, `post_cycle`, the
  change of `state` and the `pre_cycle` of the next one. This is as fine as anybody can see, since
  the only effect of a node on others is the messages it sends, which `chan` may delay
  as it likes. Clients and controller are open: a command, a CRASH or a
  RECOVERY may arrive whenever a node receives.
- `RaftProperties`: the type invariant, safety and action properties.
- `RaftHistory`: records every vote and every election, for the properties that
  relate a state to earlier ones.
  Its last part, `Nodes == INSTANCE Cluster WITH led <- {e.leader : e \in elections}, ...`,
  is the refinement mapping: `state`, `leaderId` and `crash` are the same
  variables, and `led` is read off the elections on record.
- `RaftCommit`: records what every leader has committed, and the three ways in which a
  commit may be lost again, for the properties of committed and saved entries.
- `RaftProgress`: the fairness of the nodes, and what they get done under it.
- `Cluster`: the nodes seen from outside. A node stands, wins and names itself, stands
  down, follows a node that has led, crashes, recovers. `MayStand` is a bound for
  TLC and void in the refinement.
- `Links`: `link[s][d]`, the queues between controller, nodes and clients, with the
  same assumptions as `Mailbox`.
- `Controller`: a script is a sequence of lines, and a line is the command, the
  rank and the rest. `Addressees` says to whom it goes, or that it is refused;
  `ReadLine` sends it. It never receives.
- `Client`: `asked[c]` is where the thread of the client is: `Nil` in
  `handle_requests`, otherwise the node `request_leader_id` waits for. The other variables
  are its members `run`, `request` and `leaderId` (`knownLeader`). What
  `send_request` does is part of the step that receives the answer.
- `System`: all of them, and what a node does for the controller and for clients
  (`handle_controller_request`, `crash_loop`, `handle_client_request` of the three
  roles). `accepted` is the record of the commands that leaders put into their logs.
- `SystemProperties`: safety and liveness of the whole; `Delivery` is what the
  operator may expect of one command: given once, then taken once or lost, and
  never given again. The mapping takes as yet to be given what the lines left of the script
  order (`Ungiven`), and as pending what is in the controller's messages to clients, in a
  queue of a client or on its way to a node.
- `GlobalConfig`: which rank has which role.
- `MCRaft`, `MCHistory`, `MCCommit`, `MCProgress`, `MCSystem`: constants for TLC.
- `MailboxProofs`, `RaftProofs`, `RaftMessageProofs`, `RaftHistoryProofs`,
  `RaftLogProofs`, `RaftCommitProofs`, `SystemProofs`: lemmas and theorems
  (`GlobalConfig` has two of its own).

Names are the code's: `votedFor`, `matchIndex`, `hasVotedForMe`, ... An
action is named for the role and what happens in it (`FollowerRejectsGap`,
`CandidateTakesVote`, `LeaderAppendFailed`); `PROJECT.json` gives the lines of
every definition. Positions: `logs[n]` is a sequence, so the entry of index `i`
in C++ is `logs[n][i + 1]`; every index variable (`prevLogIndex`, `matchIndex`,
...) keeps the code's value, -1 included.

Undefined behaviour. Three places in the code can reach it, and the model keeps the
outcomes:

- `*nextState` when a candidate timed out (`candidateCycle.cc:60`): the value is
  arbitrary, so `initLeader` runs or does not (`EmptyNextStateRead`).
- reading `logs` beyond its end in the commit loops (`leaderCycle.cc:56,79`,
  `followerCycle.cc:63`): the process dies, or reads the remains of an entry that
  was there (`Remains`).
- reading `logs[-1]` (`leaderCycle.cc:16-17`): the process dies, or sends a
  bogus entry in front of the real ones; the receiver throws before it looks.

When a process dies, or throws (`logs.at`), mpirun ends the job: `aborted`.

Several definitions of `Raft`, `Mailbox`, `Client`, `Controller` and `System` marked "Slip" are not part of the
specification. Each is the definition after it with one plausible mistake, and shows
(under `mutants` in `PROJECT.json`) that a property would notice that mistake.

## Runs

| run | instance | result |
|---|---|---|
| `Election` | 4 nodes, one stands in term 1 and two in term 2, no entries, the first of them crashes | votes are final, bind the voter, are really cast and counted once; backed elections agree |
| `Replication` | 3 nodes, 3 terms led by n1, n2, n1, up to 2 entries | entries at their positions, logs ordered by term, and matching; later leaders hold what was committed, and the files agree |
| `Faults` | 3 nodes, 2 terms, 1 entry, 2 messages under way per pair, the first leader crashes | what a follower acknowledged stays in its log; Raft implements `Cluster` |
| `Refusals` | 3 nodes, 2 terms, 1 entry, 2 messages under way per pair, the second leader crashes | types hold even where nextIndex goes below 0 and processes read outside their log |
| `Sessions` | 2 nodes that lead in turn, 1 client, 2 commands, 3 scripts | commands go to nodes that have led, in order and once; `System` implements `Delivery`; queues drain and orders are obeyed while one node knows a leader |
| `Progress` | 3 nodes, 2 terms, one entry of the first leader, a log of two of the second, a follower crashes | an entry a leader took itself, and all of its log before it, reaches every file |
| `ElectionSafety` | 3 nodes, 2 terms | violated: two leaders of one term |
| `CommitMonotone` | 3 nodes, 2 terms, 1 entry | violated: commitIndex goes back |
| `FilesAgree` | 3 nodes, 2 terms, 2 entries | violated: an entry is saved twice |
| `NextIndex` | 3 nodes, 2 terms, 2 messages under way | violated: nextIndex below 0 |
| `CommitOverrun` | 3 nodes, 4 terms | violated: commit beyond the log |
| `Stalled` | 3 nodes, 2 terms, one entry of the first leader | violated: an entry that every node holds is never saved |

The violated properties are statements of the documentation, an assertion or the
test; `findings` in `PROJECT.json` quotes each. In short:

1. A candidate counts a granted vote of any term. A vote of term 1 that
   arrives in term 2 elects a leader whom nobody voted for in term 2, next to
   the one who was.
2. A follower takes `leaderCommit` as it is, so its `commitIndex` goes back
   under a new leader that has not yet learnt what is committed ...
3. ... and what is committed again is saved again, which the test's `diff`
   would report.
4. `nextIndex` is decremented on each refusal with nothing to stop it, and
   several refusals may be under way.
5. A leader counts a successful response whatever its term: `matchIndex` may
   then name entries its own log has not got. (With three nodes the schedule also needs a
   vote as in 1.)
6. A new leader starts with `matchIndex` -1 and `nextIndex` at the end of its log,
   and a follower answers no empty update. If the followers already hold the whole
   log of the leader, nobody ever commits it until a client sends another
   command; the test waits 30 seconds for the files and fails.

Because of 1 and 5 the usual theorems of Raft do not hold of this program without a
condition. `RaftHistory` states the condition (`AllBacked`: every election so
far counted only votes of its own term) and the properties that hold
under it.

That a committed entry stays needs more. `RaftCommit` states three conditions, and
`LeadersHoldCommits` and `SavedEntriesAgree` say that nothing else can go wrong:

- `unbacked = {}`: every election was backed, as above;
- `late`: the terms whose leader counted an answer to an update of an earlier term (5);
  their commits are left out;
- `OfOwnTerm`: the last entry committed is of the leader's own term. The code commits an
  entry of an earlier term as soon as a majority holds it (`leaderCycle.cc:38-47`), which is
  what Figure 8 of the Raft paper warns of.

None of them may be left out: without `OfOwnTerm`, TLC finds the schedule of Figure 8 with
three nodes and four terms, up to two files that hold different entries at one position;
without `unbacked` it finds commits of two leaders of one
term that disagree; without `late`, a directed schedule of five nodes and four terms
has a leader commit an entry that no majority holds and the next leader has not got. These
three are not among the runs: the first takes 1.5 million states, and the votes
and answers of the other two are those of `ElectionSafety` and `CommitOverrun`. In
the instance of `Replication` (646,000 states), and in 3.8 million states of three nodes and
four terms, the two properties hold.

Bounds, each named in `Raft`:

- `MaxTerm`, `Standing`: which nodes may stand in which term. The interesting schedules
  need a leader to lose and regain its role (3 terms) or two leaders to alternate
  (4 terms); letting everybody stand in every term of those is out of reach.
  The election runs let two nodes compete in the last term, which is where votes split,
  and one of them before it, so that votes of an earlier term are still under way.
- Four nodes in `Election`: only there does a counted vote leave the candidate short of
  a majority (`CandidateCountsVote`), which counting it twice would not.
- `MaxLog`: a leader n whose log has `MaxLog[n]` entries takes no command: two of n1 and
  one of n2 are enough to have logs that are shorter, longer, or different at the same
  position.
- `MaxSaved`: a step that would make a file longer is not taken. With `MaxSaved
  >= MaxLog` it cuts only behaviours in which an entry is saved twice.
- `MaxInFlight`: a heartbeat is sent only when less is under way between the
  leader and every node. With 2, a second update overlaps the first and its answer.
- `CrashTargets`: which nodes the controller crashes.

In `Progress` the second leader may have inherited the entry of the first and have taken one
of its own behind it; its `nextIndex` then starts at 1, and a follower that lost the first
entry in a crash refuses until `nextIndex` is back at 0. With a log of one entry no update
would ever be refused.

In `Progress` no state runs into `MaxSaved` (files hold at most three entries), and the
heartbeats that `MaxInFlight` holds back are sent once the last has been handled, so
neither bound stops what fairness promises. No process dies in that instance
either: the exit `aborted` in `EntriesReachFiles`, there for larger instances, is not
used. The behaviour `Stalled` finds saves nothing at all.

Bounds of the composed system:

- `MCSystem!InTurn` (for `MayStand`): node 1 is the first leader, node 2 the second, and
  nobody stands after that; so a deposed leader, an answer that names it, and a
  candidate that never wins all occur.
- `MaxAsked`: a client may ask again and again while its questions pile up; a question
  more than the bound to the same node is left out. With 1 a late answer can still be
  taken for the answer to a newer question, since the answer counts as well: it is what
  the client finds when it asks that node again.
- `MaxAnswers`: answers to commands under way, which a client drops or mistakes for
  a refusal.
- `Scripts`: the three scripts of `MCSystem` together use every command: commands
  before the start (as in `tests/multiple_cmd_begining.cmd`) with a leader that goes
  down, a client that is stopped and started, a node that crashes and recovers, and every
  kind of line that is refused.

Symmetry is used only where the bounds treat the permuted nodes alike.
Deadlock is not checked: mpirun ends the job after a fault, and the bounds end
what the timers would go on with.

## Fairness

Nodes (`RaftProgress!Fairness`): weak fairness of a leader's timer and of handling the
next message from each other node. A node is one thread that loops between
`get_rpc_timeout` and handlers that always return; `Recv_Rpc_Timeout` tries to receive
before it looks at the time (`mpi_include.cc:98-101`), so a message that has
arrived is taken even if the timer is late. MPI gives no preference to a sender for
ever. Crashes are the operator's: nothing forces RECOVERY, hence the premise
that all the nodes are up from some time on.

Clients (`SystemProperties!Fairness`): strong fairness of taking a request of the
controller, of asking each node and of taking the reply of the node asked, because
each of these is possible only in one part of the client's loop, which it leaves and
enters again. Asking each node rests on `std::rand`, taking replies on two
seconds being enough for an answer again and again. Weak fairness of a node serving a
client. Elections, crashes, recoveries and typing are not forced; the two liveness
properties assume instead that some node, from some time on, is up, no candidate, and
knows a leader. They say nothing of a job that died (`aborted` of `Raft`): `System` goes on
where mpirun would have ended everything.

## Proofs

For every number of nodes, clients, commands and every value of the bounds, from
the named assumptions of `Raft` (the set of nodes is finite and not empty, `Nil` is no node,
clients are not nodes, the bounds are numbers, crash targets are nodes):

- `TypeCorrect`: `Spec => []TypeOK`. `TypeOK` is inductive as it stands. Two of its parts
  are not mere declarations: what travels between two nodes is never a message
  for clients, and a node never holds two reinjected messages (`ReinjectedOK`), since what it
  reinjects is what it took last and will take next.
- `OneVote`: `Spec => OneVotePerTerm`. By cases over the actions, from the
  types: the term and the vote change only where a candidate stands, a vote is cast, or
  a newer term is adopted.
- `VotesAreUnique`: `HistorySpec => []VotesUnique`. By itself not inductive: a node
  could have voted for somebody in the record and have forgotten it. The
  strengthening `VotesBind` says that every vote on record either is of a term its
  voter has left or is the voter's present `votedFor`; `OneVoteStep` keeps it.
- `MajorityElects`: `HistorySpec => []ElectedByMajority`. The strengthening
  `CountsDistinct`: a candidate's `voteCount` is one more than the number of
  nodes in `hasVotedForMe`, and the candidate is not one of them.
- `BackedElectionsSafe`: `HistorySpec => []BackedElectionsAgree`. Two majorities
  share a node, and that node voted once.

Four more rest on what is under way between nodes. `StepSends` (in
`RaftMessageProofs`) says once what a step can add to it: a request for votes, a
response to an update, the answer to a vote request as the follower computes it, or
an update cut from the sender's log. Everything else was under way before.

- `GrantsBind`: `Spec => []GrantBinding`. A vote just sent is the sender's vote;
  one that was already under way goes on binding it by `OneVoteStep`.
- `EntriesAreIndexed`: `Spec => []EntriesIndexed`. Inductive as stated, since it
  speaks of the logs and of the updates under way together: a follower keeps a
  prefix of its log and continues it with what an update carries.
- `LogTermsAreInOrder`: `Spec => []LogTermsInOrder`. The strengthening
  `UpdatesInOrder` says that an update carries entries in the order of their terms,
  none older than the entry before them (whose term the follower compares) and
  none newer than the update.
- `VotesWereCast`: `HistorySpec => []CountedVotesWereCast`. The strengthening
  `GrantsOnRecord`: a granted vote under way is on record.

The refinement, `RaftImplementsCluster`: `HistorySpec => RefinesCluster`. `RoleStep`
sorts the steps of Raft by what they do to roles, leaders and crashes (nothing, a node
stands, wins, gives way, hears from a leader, goes down or comes back), and
`ClusterStep` maps each sort to an action of `Cluster`. Two invariants are needed:
`LeadersWon` (a leader is on record as elected and names itself, so that its heartbeats
change nothing `Cluster` sees) and `UpdatesFromLed` (an update under way, however old,
was sent by a node on record, so that who hears it follows a node that has led). The second
follows from `StepSends`.

The two theorems on the logs of different nodes, in `RaftLogProofs`, are about runs in
which every election was backed:

- `LogsMatch`: `HistorySpec => []LogMatching`. Far from inductive: the entries of a
  leader long deposed go on living in other logs and in updates under way. The
  strengthening is `Traced`: for some `T`, where `T[t]` stands for the longest log the leader
  of term `t` has had, every log, cut at any of its entries, is the beginning of `T[t]` for the
  term `t` of that entry, and every update under way is a part of the log of its own term
  (`Follow`). Two logs that agree on the term of an entry then begin with one `T[t]` up to there. A step of the one leader that takes a command
  makes `T[t]` longer for its own term (`HistoriesGrow`); a follower's cut and
  continuation is a part of the sender's `T[t]`, however old the update. `T` is a bound
  variable of the invariant and adds nothing to the model. That there is one leader of a term is
  `UniqueLeaders`, from `BackedElectionsAgree`; `Offices` ties who leads now, and
  `UpdatesOnRecord` who sent an update, to the elections on record.
- `AcknowledgedEntriesRemain`: `HistorySpec => []AcknowledgedEntriesStay`. `Acknowledged`
  says for every answer under way what its sender's log holds, and
  `UpdatesReachFurther` why no update behind it cuts that off: the queue from one node to
  another is FIFO and the leader sends everything from `nextIndex` on, so
  an update that is still to be handled reaches as far as every answer already given.

`Follow` was checked by TLC, with a recorded `T`, on two instances of three nodes (340,000
and 435,000 states) before it was proved.

The two theorems on what is committed, in `RaftCommitProofs`, are the longest:

- `LeadersKeepCommits`: `CommitSpec => []LeadersHoldCommits`;
- `FilesNeverDisagree`: `CommitSpec => []SavedEntriesAgree`.

Besides `T`, the invariant (`Ledger`) speaks of a second record of the run that is a bound variable
only: `A[q][t]` is how far node `q` has ever acknowledged the log of term `t`, by
the `newIndex` of a positive answer. A node `Holds` position `k` of `T[t]` when
it has acknowledged it or has led in term `t`. The position is `Lost` when a majority has left
term `t` without holding it: they will never acknowledge it. The heart is `Kept`. As
long as an entry that its own leader took is not lost,

- who holds it has it in its log (`LogsKeep`): the only thing that could cut it off is an
  update, either of the leader of that term, which reaches as far (`Promised`), or of a later
  leader, which has it and whose update reaches as far (`UpdatesKeep`);
- a candidate that got the vote of a node that holds it has it (`CandidatesKeep`): the voter compares
  the ends of the two logs (`followerCycle.cc:79-83`, lemma `UpToDateLog`), and
  the ends of the logs agree with `T`. The request may be old, but while its sender stands the
  log it speaks of is the one it has (`RequestsCurrent`);
- every later leader has it (`LeadersKeep`): its voters are a majority, which were in its term by then,
  so, the entry not being lost, one of them holds it.

What a majority holds is never lost (`ChosenIsNotLost`), as two majorities share a node. That
a commit is held by a majority (`Recorded`) follows from `Matched`: a leader outside `late`
knows of a follower no more than it has acknowledged, by `Told`. That the loop does not run
beyond the leader's log is a consequence (`CommitsChosen`), not an assumption: with a `late` answer it
does (5). `Saved` carries it to the files: `commitIndex`, the
`leaderCommit` of every update under way and every saved entry are covered by a commit on
record. A file may hold an entry twice (3), but never another one. The parts of the invariant
that hold of every run, backed or not, are in `Sound`.

The composed system, for every number of nodes and clients, every script and every
value of the bounds (from the assumptions of `Links`, `Controller`, `Client`,
`Cluster` and `System`): `SystemTyped`, `CommandsGoToLeaders` and
`OrdersReachHandlers` state `SystemTypeOK`, `LeaderWasElected` and `OrdersUnderstood`.
`SystemTypeOK` is more than the types of the variables: it says what each queue of `link`
may hold (`QueuesOf`, `Allowed`): from the controller, requests of lines of the script that
are for that process; from a client, questions and commands that were ordered for it; from a
node, answers that name nobody or a node that has led; and that what a client has queued,
and what a leader took of it, was ordered for it (`Ordered`). All three theorems come from
`SystemInv`, which has a part for the plain types (`StateTyped`), for the commands
(`CommandsOrdered`), for `link` and for the lines still to be typed. That answers name
nodes that have led is kept because the set of these only grows.

- `CommandsStayInOrder`: `SystemSpec => []InOrder`. `InOrder` is stated of the whole way
  of a command, `Pipeline`: what a node has taken of a client, what is under way to it,
  what the client has queued, what the controller has given and has yet to give. `StepsMove` sorts
  every step by the move it makes along that way (a command is given, queued, sent, taken,
  lost, or nothing moves), and `PipelinesThin` shows that after each of these a pipeline is
  what it was with some commands left out, so it goes on increasing.
- `CommandsAreTakenOnce`: `SystemSpec => DeliversAtMostOnce`, the refinement of
  `Delivery`. A step that takes a command must take it out of what is pending, so nobody
  else may have it, and a step that loses one must leave it with nobody, not even with the
  operator: `Apart` says that no command is on its way through two clients, nor
  to two nodes, nor still behind its client once it has been sent, and that none is typed
  twice (`TypedStaysUngiven`, `UngivenIsTyped`).

Both use the assumption `NumberingAssumption` of `SystemProperties`: the commands of a
script are numbers that increase. It names the lines of a script and says nothing
of the program, which never compares two commands.

`GlobalConfig`: `OneRoleEach` and `RanksApart` prove of the ranks what the other modules
assume of `Root`, `Node` and `Client`, for numbers of nodes and clients that are not
negative.

Only model-checked: `EntriesReachFiles`, `QueueDrains` and `OrdersObeyed`. They are
liveness under fairness, which the prover cannot do (it knows nothing of ENABLED). All the
other properties of passing runs are theorems. What a recursive definition computes for
every input would need induction over data, which is out of reach too; the models have no such
definitions.

## Not modelled

- The contents of logs in `System`: when a leader commits and answers is left open there.
- How a line is cut into words and numbers (`String::to_int`, which does not catch the
  exception for a number that is too long), reading the two numbers of the job
  (`init_nb_process`), starting MPI.
- That somebody is ever elected: it rests on the lengths of the random timers.
- The probe and receive of `Recv_Rpc`, both with any source, as two steps; the buffer
  of `MPI_Isend`, which is freed while MPI may still read it.
- JSON, printing, logging, `STATUS`, `PRINT_LOG`, `SPEED` and the clock: any delay is
  already possible.

## Plan

Done: the nodes and their messages (`Raft`), their history, progress and refinement of
`Cluster`; clients and controller (`System`) and their refinement of `Delivery`; the
ranks; what is committed and saved; theorems about all of these.

Left, most wanted first:

1. The receive race as a module: probe any source, then receive any source.
2. The cluster of one node, which never elects itself.
