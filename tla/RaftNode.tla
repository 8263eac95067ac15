------------------------------ MODULE RaftNode ------------------------------
(***************************************************************************)
(* The Raft nodes of groundhog/raft/node.py, one server per member of      *)
(* Server, with the durable state each one keeps through RaftStorage       *)
(* (raft/persist.py) and the messages between them.                        *)
(*                                                                         *)
(* One action per handler.  A handler runs to its end inside one event of  *)
(* the simulator's single-threaded loop, so its steps are not interleaved  *)
(* with those of another node; a write that fails in the middle of it is   *)
(* the DiskError action.                                                   *)
(*                                                                         *)
(* The network is the set of all messages ever sent.  Handling a message   *)
(* does not remove it, and nothing forces a message to be handled: loss,   *)
(* duplication, delay and reordering (sim/net.py) are all behaviours of    *)
(* such a set.                                                             *)
(***************************************************************************)
EXTENDS StableStore, FiniteSets

CONSTANTS
  Server,    \* the cluster: a node and its peers
  Request,   \* client request ids; a request id names its command
  Nil,       \* Python's None
  Faulty,    \* the servers that may crash, or whose disk may fail
  MaxTerm,   \* bound: no election starts a term above this
  MaxLog     \* bound: no leader's log grows beyond this many entries

ASSUME ServerAssumption == IsFiniteSet(Server) /\ Server # {}
ASSUME NilAssumption == Nil \notin Server
ASSUME FaultyAssumption == Faulty \subseteq Server
ASSUME BoundAssumption == MaxTerm \in Nat /\ MaxLog \in Nat

VARIABLES
  current_term, voted_for, log,          \* persistent (Figure 2), in memory
  disk,                                  \* what replaying the WAL would give
  running, role, leader_id,
  commit_index, applied,                 \* applied[n]: the entries n's kv store holds
  votes_granted, next_index, match_index,
  pending_clients,                       \* [index, request_id] debts of n
  election_timer, heartbeat_timer,       \* is the timer armed?
  msgs

hardVars == <<current_term, voted_for, log>>
commitVars == <<commit_index, applied, pending_clients>>
leaderVars == <<next_index, match_index>>
timerVars == <<election_timer, heartbeat_timer>>
vars == <<current_term, voted_for, log, disk, running, role, leader_id,
          commit_index, applied, votes_granted, next_index, match_index,
          pending_clients, election_timer, heartbeat_timer, msgs>>

Role == {"follower", "candidate", "leader"}
Entry == [term : Nat, request_id : Request]
HardState == [current_term : Nat, voted_for : Server \cup {Nil}, log : Seq(Entry)]
Debt == [index : Nat, request_id : Request]

Peers(n) == Server \ {n}
(* Mistakes of the code, each next to what it would replace, are named     *)
(* Bad...; the configurations' properties are checked against them.        *)
BadIsMajority(S) == Cardinality(S) >= Cardinality(Server) \div 2

IsMajority(S) == Cardinality(S) >= Cardinality(Server) \div 2 + 1

-----------------------------------------------------------------------------
(* Messages.  A request's candidate_id or leader_id is its sender, so the  *)
(* envelope's `from` stands for both.                                      *)

RequestVote(n, p, term, lg) ==
  [type |-> "RequestVote", from |-> n, to |-> p, term |-> term,
   last_log_index |-> LastIndex(lg), last_log_term |-> LastTerm(lg)]

RequestVoteReply(n, p, term, granted) ==
  [type |-> "RequestVoteReply", from |-> n, to |-> p, term |-> term,
   vote_granted |-> granted]

BadAppendEntriesReply(n, p, term, success, match) ==
  [type |-> "AppendEntriesReply", from |-> n, to |-> p, term |-> term,
   success |-> success, match_index |-> match - 1]

AppendEntriesReply(n, p, term, success, match) ==
  [type |-> "AppendEntriesReply", from |-> n, to |-> p, term |-> term,
   success |-> success, match_index |-> match]

ClientReply(n, r) ==
  [type |-> "ClientReply", from |-> n, request_id |-> r, ok |-> TRUE]

(* replicate_to(p): what p is missing, by next, in the log lg.             *)
AppendEntries(n, p, term, lg, next, commit) ==
  [type |-> "AppendEntries", from |-> n, to |-> p, term |-> term,
   prev_log_index |-> next - 1,
   prev_log_term |-> TermAt(lg, next - 1),
   entries |-> IF next <= LastIndex(lg) THEN SliceFrom(lg, next) ELSE << >>,
   leader_commit |-> commit]

Message ==
  [type : {"RequestVote"}, from : Server, to : Server, term : Nat,
   last_log_index : Nat, last_log_term : Nat]
  \cup
  [type : {"RequestVoteReply"}, from : Server, to : Server, term : Nat,
   vote_granted : BOOLEAN]
  \cup
  [type : {"AppendEntries"}, from : Server, to : Server, term : Nat,
   prev_log_index : Nat, prev_log_term : Nat, entries : Seq(Entry),
   leader_commit : Nat]
  \cup
  [type : {"AppendEntriesReply"}, from : Server, to : Server, term : Nat,
   success : BOOLEAN, match_index : Nat]
  \cup
  [type : {"ClientReply"}, from : Server, request_id : Request, ok : BOOLEAN]

Send(ms) == msgs' = msgs \cup ms

(* on_message: a node that is down hears nothing.                          *)
Receives(n, m, type) ==
  /\ m.type = type
  /\ m.to = n
  /\ running[n]

-----------------------------------------------------------------------------
(* Durable state.  Every handler that writes ends its writes with a sync   *)
(* before it sends, so between events the disk holds all that was written. *)

(* What a handler writes: truncate the log at cut, append new, then the    *)
(* STATE record.                                                           *)
Written(n, cut, new, term, vote) == AfterWrite(disk[n], cut, new, term, vote)

(* What a crash may keep of those writes: a prefix of their records.       *)
Torn(n, cut, new, term, vote) == AfterTear(disk[n], cut, new, term, vote)

Persist(n, cut, new, term, vote) ==
  disk' = [disk EXCEPT ![n] = Written(n, cut, new, term, vote)]

(* The vote is left out; a step down is not written.                       *)
BadPersistVote(n, term, vote) ==
  Persist(n, LastIndex(log[n]) + 1, << >>, term, disk[n].voted_for)
BadPersistTerm(n, term, vote) ==
  IF vote = Nil
  THEN UNCHANGED disk
  ELSE Persist(n, LastIndex(log[n]) + 1, << >>, term, vote)

PersistState(n, term, vote) == Persist(n, LastIndex(log[n]) + 1, << >>, term, vote)

-----------------------------------------------------------------------------
(* The role transitions.                                                   *)

(* The term and the vote once become_follower(term) has seen term.         *)
TermAfter(n, term) == Larger(current_term[n], term)
VoteAfter(n, term) == IF term > current_term[n] THEN Nil ELSE voted_for[n]

(* The old leader's hint is kept until a new one is known.                 *)
BadBecomeFollower(n, leader) ==
  /\ role' = [role EXCEPT ![n] = "follower"]
  /\ leader_id' = [leader_id EXCEPT ![n] = IF leader = Nil THEN @ ELSE leader]
  /\ votes_granted' = [votes_granted EXCEPT ![n] = {}]
  /\ heartbeat_timer' = [heartbeat_timer EXCEPT ![n] = FALSE]

BecomeFollower(n, leader) ==
  /\ role' = [role EXCEPT ![n] = "follower"]
  /\ leader_id' = [leader_id EXCEPT ![n] = leader]
  /\ votes_granted' = [votes_granted EXCEPT ![n] = {}]
  /\ heartbeat_timer' = [heartbeat_timer EXCEPT ![n] = FALSE]

(* A reply from a newer term: become_follower, persist, sync, and nothing  *)
(* else.                                                                   *)
StepDown(n, term) ==
  /\ current_term' = [current_term EXCEPT ![n] = TermAfter(n, term)]
  /\ voted_for' = [voted_for EXCEPT ![n] = VoteAfter(n, term)]
  /\ BecomeFollower(n, Nil)
  /\ PersistState(n, TermAfter(n, term), VoteAfter(n, term))
  /\ UNCHANGED <<log, running, commitVars, leaderVars, election_timer, msgs>>

BecomeLeader(n, term) ==
  /\ role' = [role EXCEPT ![n] = "leader"]
  /\ leader_id' = [leader_id EXCEPT ![n] = n]
  /\ next_index' = [next_index EXCEPT ![n] = [p \in Server |-> LastIndex(log[n]) + 1]]
  /\ match_index' = [match_index EXCEPT ![n] = [p \in Server |-> SENTINEL_INDEX]]
  /\ election_timer' = [election_timer EXCEPT ![n] = FALSE]
  /\ heartbeat_timer' = [heartbeat_timer EXCEPT ![n] = TRUE]
  /\ Send({AppendEntries(n, p, term, log[n], LastIndex(log[n]) + 1, commit_index[n]) :
             p \in Peers(n)})

-----------------------------------------------------------------------------
(* Committing and applying.                                                *)

(* A commit one past what a majority holds; a commit of an older term.     *)
BadCommitCount(n, lg, match) ==
  {i \in commit_index[n] + 1 .. LastIndex(lg) :
     /\ TermAt(lg, i) = current_term[n]
     /\ IsMajority({n} \cup {p \in Peers(n) : match[p] >= i - 1})}
BadCommitTerm(n, lg, match) ==
  {i \in commit_index[n] + 1 .. LastIndex(lg) :
     IsMajority({n} \cup {p \in Peers(n) : match[p] >= i})}

(* advance_commit_index: an entry of this term, held by a majority.        *)
Committable(n, lg, match) ==
  {i \in commit_index[n] + 1 .. LastIndex(lg) :
     /\ TermAt(lg, i) = current_term[n]
     /\ IsMajority({n} \cup {p \in Peers(n) : match[p] >= i})}

(* Where the commit index stands afterwards: the greatest of these.        *)
Reach(n, lg, match) == {commit_index[n]} \cup Committable(n, lg, match)
AdvancesTo(n, lg, match, c) == \A i \in Reach(n, lg, match) : i <= c

(* _apply_committed: apply the entries up to c that are not yet applied,   *)
(* and pay off the debts recorded at their indexes.                        *)
BadPaid(n, debts, c) == {d \in debts : d.index \in Len(applied[n]) + 1 .. c - 1}

Paid(n, debts, c) == {d \in debts : d.index \in Len(applied[n]) + 1 .. c}

ApplyCommitted(n, lg, debts, c) ==
  /\ commit_index' = [commit_index EXCEPT ![n] = c]
  /\ applied' = [applied EXCEPT ![n] = @ \o SubSeq(lg, Len(@) + 1, c)]
  /\ pending_clients' = [pending_clients EXCEPT ![n] = debts \ Paid(n, debts, c)]

ReplyTo(n, debts) == {ClientReply(n, d.request_id) : d \in debts}

-----------------------------------------------------------------------------
(* Elections.                                                              *)

BadUpToDate(n, m) == TRUE

(* Section 5.4.1: the last term first, the length as the tie-break.        *)
UpToDate(n, m) ==
  \/ m.last_log_term > LastTerm(log[n])
  \/ /\ m.last_log_term = LastTerm(log[n])
     /\ m.last_log_index >= LastIndex(log[n])

BadGrants(n, m) == m.term >= current_term[n] /\ UpToDate(n, m)

Grants(n, m) ==
  /\ m.term >= current_term[n]
  /\ VoteAfter(n, m.term) \in {Nil, m.from}
  /\ UpToDate(n, m)

VoteOn(n, m) == IF Grants(n, m) THEN m.from ELSE VoteAfter(n, m.term)

OnRequestVote(n, m) ==
  /\ Receives(n, m, "RequestVote")
  /\ current_term' = [current_term EXCEPT ![n] = TermAfter(n, m.term)]
  /\ voted_for' = [voted_for EXCEPT ![n] = VoteOn(n, m)]
  /\ IF m.term > current_term[n]
     THEN BecomeFollower(n, Nil)
     ELSE UNCHANGED <<role, leader_id, votes_granted, heartbeat_timer>>
  /\ election_timer' = [election_timer EXCEPT ![n] = @ \/ Grants(n, m)]
  /\ PersistState(n, TermAfter(n, m.term), VoteOn(n, m))
  /\ Send({RequestVoteReply(n, m.from, TermAfter(n, m.term), Grants(n, m))})
  /\ UNCHANGED <<log, running, commitVars, leaderVars>>

(* A vote counts once per voter, and only in the term it was asked for.    *)
CountsVote(n, m) ==
  /\ Receives(n, m, "RequestVoteReply")
  /\ m.term = current_term[n]
  /\ role[n] = "candidate"
  /\ m.vote_granted

VotesWith(n, m) == votes_granted[n] \cup {m.from}

CountVote(n, m) ==
  /\ CountsVote(n, m)
  /\ ~IsMajority(VotesWith(n, m))
  /\ votes_granted' = [votes_granted EXCEPT ![n] = VotesWith(n, m)]
  /\ UNCHANGED <<hardVars, disk, running, role, leader_id, commitVars,
                 leaderVars, timerVars, msgs>>

WinElection(n, m) ==
  /\ CountsVote(n, m)
  /\ IsMajority(VotesWith(n, m))
  /\ votes_granted' = [votes_granted EXCEPT ![n] = VotesWith(n, m)]
  /\ BecomeLeader(n, current_term[n])
  /\ UNCHANGED <<hardVars, disk, running, commitVars>>

VoteReplyFromNewerTerm(n, m) ==
  /\ Receives(n, m, "RequestVoteReply")
  /\ m.term > current_term[n]
  /\ StepDown(n, m.term)

(* on_election_timeout: a new term, a vote for oneself on the disk, and    *)
(* only then the question to the others.                                   *)
Campaign(n) ==
  /\ running[n]
  /\ election_timer[n]
  /\ current_term[n] < MaxTerm
  /\ current_term' = [current_term EXCEPT ![n] = @ + 1]
  /\ voted_for' = [voted_for EXCEPT ![n] = n]
  /\ votes_granted' = [votes_granted EXCEPT ![n] = {n}]
  /\ PersistState(n, current_term[n] + 1, n)
  /\ UNCHANGED <<log, running, commitVars>>

(* A timer that has fired is not armed again.                              *)
BadAskForVotes(n) ==
  /\ role' = [role EXCEPT ![n] = "candidate"]
  /\ leader_id' = [leader_id EXCEPT ![n] = Nil]
  /\ Send({RequestVote(n, p, current_term[n] + 1, log[n]) : p \in Peers(n)})
  /\ election_timer' = [election_timer EXCEPT ![n] = FALSE]
  /\ UNCHANGED <<leaderVars, heartbeat_timer>>

AskForVotes(n) ==
  /\ role' = [role EXCEPT ![n] = "candidate"]
  /\ leader_id' = [leader_id EXCEPT ![n] = Nil]
  /\ Send({RequestVote(n, p, current_term[n] + 1, log[n]) : p \in Peers(n)})
  /\ UNCHANGED <<leaderVars, timerVars>>

(* A cluster of one needs no answer.                                       *)
ElectionTimeout(n) ==
  /\ Campaign(n)
  /\ IF IsMajority({n})
     THEN BecomeLeader(n, current_term[n] + 1)
     ELSE AskForVotes(n)

-----------------------------------------------------------------------------
(* Log replication, the follower's side.                                   *)

(* Rule 1: a stale leader is refused, and the election timer is left alone.*)
RefuseStaleLeader(n, m) ==
  /\ Receives(n, m, "AppendEntries")
  /\ m.term < current_term[n]
  /\ Send({AppendEntriesReply(n, m.from, current_term[n], FALSE, 0)})
  /\ UNCHANGED <<hardVars, disk, running, role, leader_id, commitVars,
                 votes_granted, leaderVars, timerVars>>

(* What every message of a current leader does.                            *)
HearLeader(n, m) ==
  /\ Receives(n, m, "AppendEntries")
  /\ m.term >= current_term[n]
  /\ current_term' = [current_term EXCEPT ![n] = TermAfter(n, m.term)]
  /\ voted_for' = [voted_for EXCEPT ![n] = VoteAfter(n, m.term)]
  /\ BecomeFollower(n, m.from)
  /\ election_timer' = [election_timer EXCEPT ![n] = TRUE]

(* Rule 2, the consistency check.                                          *)
Consistent(n, m) ==
  /\ HasEntry(log[n], m.prev_log_index)
  /\ TermAt(log[n], m.prev_log_index) = m.prev_log_term

RefuseGap(n, m) ==
  /\ HearLeader(n, m)
  /\ ~Consistent(n, m)
  /\ PersistState(n, TermAfter(n, m.term), VoteAfter(n, m.term))
  /\ Send({AppendEntriesReply(n, m.from, TermAfter(n, m.term), FALSE, 0)})
  /\ UNCHANGED <<log, running, commitVars, leaderVars>>

BadHolds(n, m, i) == HasEntry(log[n], m.prev_log_index + i)

(* Rules 3 and 4: the first h entries of m are in the log already, and the *)
(* next one, if there is one, is missing or conflicts.                     *)
Holds(n, m, i) ==
  /\ HasEntry(log[n], m.prev_log_index + i)
  /\ TermAt(log[n], m.prev_log_index + i) = m.entries[i].term

Held(n, m, h) ==
  /\ h \in 0 .. Len(m.entries)
  /\ \A i \in 1 .. h : Holds(n, m, i)
  /\ h < Len(m.entries) => ~Holds(n, m, h + 1)

(* A conflict is not cut away; a log is cut where nothing conflicts.       *)
BadNoCut(n, m, h) == LastIndex(log[n]) + 1
BadCut(n, m, h) == m.prev_log_index + h + 1

(* Where the log is cut, and what is appended there.                       *)
CutAt(n, m, h) ==
  IF h = Len(m.entries) THEN LastIndex(log[n]) + 1 ELSE m.prev_log_index + h + 1

NewEntries(m, h) == SubSeq(m.entries, h + 1, Len(m.entries))

BadCommitAfter(n, m) == Smaller(m.leader_commit, m.prev_log_index + Len(m.entries))

(* Rule 5: never past the last entry this message delivered.               *)
CommitAfter(n, m) ==
  IF m.leader_commit > commit_index[n]
  THEN Smaller(m.leader_commit, m.prev_log_index + Len(m.entries))
  ELSE commit_index[n]

TakeEntries(n, m) ==
  /\ HearLeader(n, m)
  /\ Consistent(n, m)
  /\ \E h \in 0 .. Len(m.entries) :
       /\ Held(n, m, h)
       /\ log' = [log EXCEPT ![n] = TruncateFrom(@, CutAt(n, m, h)) \o NewEntries(m, h)]
       /\ Persist(n, CutAt(n, m, h), NewEntries(m, h),
                  TermAfter(n, m.term), VoteAfter(n, m.term))
  /\ ApplyCommitted(n, log'[n], pending_clients[n], CommitAfter(n, m))
  /\ Send({AppendEntriesReply(n, m.from, TermAfter(n, m.term), TRUE,
                              m.prev_log_index + Len(m.entries))}
            \cup ReplyTo(n, Paid(n, pending_clients[n], CommitAfter(n, m))))
  /\ UNCHANGED <<running, leaderVars>>

-----------------------------------------------------------------------------
(* Log replication, the leader's side.                                     *)

HearFollower(n, m) ==
  /\ Receives(n, m, "AppendEntriesReply")
  /\ m.term = current_term[n]
  /\ role[n] = "leader"

AppendReplyFromNewerTerm(n, m) ==
  /\ Receives(n, m, "AppendEntriesReply")
  /\ m.term > current_term[n]
  /\ StepDown(n, m.term)

BadMatchAfter(n, m) ==
  [match_index[n] EXCEPT ![m.from] = Larger(@, m.match_index + 1)]

(* What is known of a follower only grows, whatever order replies come in. *)
MatchAfter(n, m) ==
  [match_index[n] EXCEPT ![m.from] = Larger(@, m.match_index)]

OnAppendSuccess(n, m) ==
  /\ HearFollower(n, m)
  /\ m.success
  /\ match_index' = [match_index EXCEPT ![n] = MatchAfter(n, m)]
  /\ next_index' = [next_index EXCEPT ![n][m.from] = MatchAfter(n, m)[m.from] + 1]
  /\ \E c \in Reach(n, log[n], MatchAfter(n, m)) :
       /\ AdvancesTo(n, log[n], MatchAfter(n, m), c)
       /\ ApplyCommitted(n, log[n], pending_clients[n], c)
       /\ Send(ReplyTo(n, Paid(n, pending_clients[n], c)))
  /\ UNCHANGED <<hardVars, disk, running, role, leader_id, votes_granted, timerVars>>

(* The guess is not lowered.                                               *)
BadNextAfterFailure(n, p) == next_index[n][p]

NextAfterFailure(n, p) == Larger(1, next_index[n][p] - 1)

OnAppendFailure(n, m) ==
  /\ HearFollower(n, m)
  /\ ~m.success
  /\ next_index' = [next_index EXCEPT ![n][m.from] = NextAfterFailure(n, m.from)]
  /\ Send({AppendEntries(n, m.from, current_term[n], log[n],
                         NextAfterFailure(n, m.from), commit_index[n])})
  /\ UNCHANGED <<hardVars, disk, running, role, leader_id, commitVars,
                 votes_granted, match_index, timerVars>>

(* on_client_request at the leader.  (A refusal touches no server.)        *)
OnClientRequest(n, r) ==
  /\ running[n]
  /\ role[n] = "leader"
  /\ LastIndex(log[n]) < MaxLog
  /\ LET entry == [term |-> current_term[n], request_id |-> r]
         index == LastIndex(log[n]) + 1
         longer == Append(log[n], entry)
         debts == {d \in pending_clients[n] : d.index # index}
                    \cup {[index |-> index, request_id |-> r]}
     IN /\ log' = [log EXCEPT ![n] = longer]
        /\ disk' = [disk EXCEPT ![n].log = Append(@, entry)]
        /\ \E c \in Reach(n, longer, match_index[n]) :
             /\ AdvancesTo(n, longer, match_index[n], c)
             /\ ApplyCommitted(n, longer, debts, c)
             /\ Send({AppendEntries(n, p, current_term[n], longer, next_index[n][p],
                                    commit_index[n]) : p \in Peers(n)}
                       \cup ReplyTo(n, Paid(n, debts, c)))
  /\ UNCHANGED <<current_term, voted_for, running, role, leader_id, votes_granted,
                 leaderVars, timerVars>>

(* A heartbeat that does not arm the next one.                             *)
BadFireHeartbeat(n) ==
  /\ running[n]
  /\ heartbeat_timer[n]
  /\ IF role[n] = "leader"
     THEN /\ Send({AppendEntries(n, p, current_term[n], log[n], next_index[n][p],
                                 commit_index[n]) : p \in Peers(n)})
          /\ heartbeat_timer' = [heartbeat_timer EXCEPT ![n] = FALSE]
     ELSE /\ heartbeat_timer' = [heartbeat_timer EXCEPT ![n] = FALSE]
          /\ UNCHANGED msgs
  /\ UNCHANGED <<hardVars, disk, running, role, leader_id, commitVars,
                 votes_granted, leaderVars, election_timer>>

(* _fire_heartbeat: only a leader's heartbeat sends, and arms the next.    *)
FireHeartbeat(n) ==
  /\ running[n]
  /\ heartbeat_timer[n]
  /\ IF role[n] = "leader"
     THEN /\ Send({AppendEntries(n, p, current_term[n], log[n], next_index[n][p],
                                 commit_index[n]) : p \in Peers(n)})
          /\ UNCHANGED heartbeat_timer
     ELSE /\ heartbeat_timer' = [heartbeat_timer EXCEPT ![n] = FALSE]
          /\ UNCHANGED msgs
  /\ UNCHANGED <<hardVars, disk, running, role, leader_id, commitVars,
                 votes_granted, leaderVars, election_timer>>

-----------------------------------------------------------------------------
(* Crashes, failed writes and restarts.                                    *)

(* crash(): everything in memory goes; the disk is left as d.              *)
Die(n, d) ==
  /\ running[n]
  /\ n \in Faulty
  /\ disk' = [disk EXCEPT ![n] = d]
  /\ running' = [running EXCEPT ![n] = FALSE]
  /\ current_term' = [current_term EXCEPT ![n] = 0]
  /\ voted_for' = [voted_for EXCEPT ![n] = Nil]
  /\ log' = [log EXCEPT ![n] = << >>]
  /\ role' = [role EXCEPT ![n] = "follower"]
  /\ leader_id' = [leader_id EXCEPT ![n] = Nil]
  /\ votes_granted' = [votes_granted EXCEPT ![n] = {}]
  /\ next_index' = [next_index EXCEPT ![n] = [p \in Server |-> 1]]
  /\ match_index' = [match_index EXCEPT ![n] = [p \in Server |-> SENTINEL_INDEX]]
  /\ commit_index' = [commit_index EXCEPT ![n] = SENTINEL_INDEX]
  /\ applied' = [applied EXCEPT ![n] = << >>]
  /\ pending_clients' = [pending_clients EXCEPT ![n] = {}]
  /\ election_timer' = [election_timer EXCEPT ![n] = FALSE]
  /\ heartbeat_timer' = [heartbeat_timer EXCEPT ![n] = FALSE]
  /\ UNCHANGED msgs

Crash(n) == Die(n, disk[n])

(* What the handler of m may leave on a disk that fails under it.          *)
TornBy(n, m) ==
  CASE m.type = "RequestVote" ->
         Torn(n, LastIndex(log[n]) + 1, << >>, TermAfter(n, m.term), VoteOn(n, m))
    [] m.type = "AppendEntries" /\ m.term >= current_term[n] /\ Consistent(n, m) ->
         UNION {Torn(n, CutAt(n, m, h), NewEntries(m, h),
                     TermAfter(n, m.term), VoteAfter(n, m.term)) :
                  h \in {i \in 0 .. Len(m.entries) : Held(n, m, i)}}
    [] \/ m.type = "AppendEntries" /\ m.term >= current_term[n] /\ ~Consistent(n, m)
       \/ m.type = "RequestVoteReply" /\ m.term > current_term[n]
       \/ m.type = "AppendEntriesReply" /\ m.term > current_term[n] ->
         Torn(n, LastIndex(log[n]) + 1, << >>, TermAfter(n, m.term), VoteAfter(n, m.term))
    [] OTHER -> {}

(* guard(): a DiskError in a handler is a crash with part of its writes    *)
(* kept, before anything was sent.                                         *)
DiskErrorOnMessage(n, m) ==
  /\ m.type # "ClientReply"
  /\ m.to = n
  /\ \E d \in TornBy(n, m) : Die(n, d)

DiskErrorOnTimeout(n) ==
  /\ election_timer[n]
  /\ current_term[n] < MaxTerm
  /\ \E d \in Torn(n, LastIndex(log[n]) + 1, << >>, current_term[n] + 1, n) : Die(n, d)

DiskErrorOnRequest(n, r) ==
  /\ role[n] = "leader"
  /\ LastIndex(log[n]) < MaxLog
  /\ \E d \in Torn(n, LastIndex(log[n]) + 1,
                   <<[term |-> current_term[n], request_id |-> r]>>,
                   current_term[n], voted_for[n]) : Die(n, d)

(* The timer is not armed.                                                 *)
BadRestart(n) ==
  /\ n \in Faulty
  /\ current_term' = [current_term EXCEPT ![n] = disk[n].current_term]
  /\ voted_for' = [voted_for EXCEPT ![n] = disk[n].voted_for]
  /\ log' = [log EXCEPT ![n] = disk[n].log]
  /\ running' = [running EXCEPT ![n] = TRUE]
  /\ UNCHANGED <<disk, role, leader_id, commitVars, votes_granted, leaderVars,
                 timerVars, msgs>>

(* restart(): read back what survived.  The code has no test that the node *)
(* is down: a node that runs keeps what is not reloaded.                   *)
Restart(n) ==
  /\ n \in Faulty
  /\ current_term' = [current_term EXCEPT ![n] = disk[n].current_term]
  /\ voted_for' = [voted_for EXCEPT ![n] = disk[n].voted_for]
  /\ log' = [log EXCEPT ![n] = disk[n].log]
  /\ running' = [running EXCEPT ![n] = TRUE]
  /\ election_timer' = [election_timer EXCEPT ![n] = TRUE]
  /\ UNCHANGED <<disk, role, leader_id, commitVars, votes_granted, leaderVars,
                 heartbeat_timer, msgs>>

-----------------------------------------------------------------------------
(* Every variable holds a value the code can give it.                      *)
TypeOK ==
  /\ current_term \in [Server -> Nat]
  /\ voted_for \in [Server -> Server \cup {Nil}]
  /\ log \in [Server -> Seq(Entry)]
  /\ disk \in [Server -> HardState]
  /\ running \in [Server -> BOOLEAN]
  /\ role \in [Server -> Role]
  /\ leader_id \in [Server -> Server \cup {Nil}]
  /\ commit_index \in [Server -> Nat]
  /\ applied \in [Server -> Seq(Entry)]
  /\ votes_granted \in [Server -> SUBSET Server]
  /\ next_index \in [Server -> [Server -> Nat]]
  /\ match_index \in [Server -> [Server -> Nat]]
  /\ pending_clients \in [Server -> SUBSET Debt]
  /\ election_timer \in [Server -> BOOLEAN]
  /\ heartbeat_timer \in [Server -> BOOLEAN]
  /\ msgs \in SUBSET Message

Init ==
  /\ current_term = [n \in Server |-> 0]
  /\ voted_for = [n \in Server |-> Nil]
  /\ log = [n \in Server |-> << >>]
  /\ disk = [n \in Server |-> [current_term |-> 0, voted_for |-> Nil, log |-> << >>]]
  /\ running = [n \in Server |-> TRUE]
  /\ role = [n \in Server |-> "follower"]
  /\ leader_id = [n \in Server |-> Nil]
  /\ commit_index = [n \in Server |-> SENTINEL_INDEX]
  /\ applied = [n \in Server |-> << >>]
  /\ votes_granted = [n \in Server |-> {}]
  /\ next_index = [n \in Server |-> [p \in Server |-> 1]]
  /\ match_index = [n \in Server |-> [p \in Server |-> SENTINEL_INDEX]]
  /\ pending_clients = [n \in Server |-> {}]
  /\ election_timer = [n \in Server |-> TRUE]
  /\ heartbeat_timer = [n \in Server |-> FALSE]
  /\ msgs = {}

OnMessage(n, m) ==
  \/ OnRequestVote(n, m)
  \/ CountVote(n, m)
  \/ WinElection(n, m)
  \/ VoteReplyFromNewerTerm(n, m)
  \/ RefuseStaleLeader(n, m)
  \/ RefuseGap(n, m)
  \/ TakeEntries(n, m)
  \/ AppendReplyFromNewerTerm(n, m)
  \/ OnAppendSuccess(n, m)
  \/ OnAppendFailure(n, m)
  \/ DiskErrorOnMessage(n, m)

(* One event of server n that is not a client's doing.                     *)
Step(n) ==
  \/ \E m \in msgs : OnMessage(n, m)
  \/ ElectionTimeout(n)
  \/ FireHeartbeat(n)
  \/ DiskErrorOnTimeout(n)
  \/ Crash(n)
  \/ Restart(n)

(* A client's request r arrives at n.                                      *)
OnRequest(n, r) == OnClientRequest(n, r) \/ DiskErrorOnRequest(n, r)

Next == \E n \in Server : Step(n) \/ \E r \in Request : OnRequest(n, r)

Spec == Init /\ [][Next]_vars
=============================================================================
