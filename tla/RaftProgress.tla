---------------------------- MODULE RaftProgress ----------------------------
(***************************************************************************)
(* What a leader brings about when it is left alone: the repair of logs    *)
(* that diverged under its predecessors, and answers to its clients.       *)
(*                                                                         *)
(* Left alone means what the quiet profile of sim/faults.py gives once a   *)
(* leader is there: no packet is dropped or doubled, latency is 10 ms at   *)
(* most, and a heartbeat every 50 ms keeps election timers of 150 ms and   *)
(* more from firing; no server crashes or comes back.                      *)
(*                                                                         *)
(* So msgs is here only what handlers have just sent, and flight what is   *)
(* on its way, from where a packet is taken when it arrives.  Two packets  *)
(* that are alike and on their way together arrive as one.                 *)
(***************************************************************************)
EXTENDS MCRaft

VARIABLE flight

progressVars == <<vars, flight>>

(* n1 led term 1 and n2 term 2, each with an entry that it never got to    *)
(* replicate; n3 has just elected n1 again, in term 3, and has crashed.    *)
(* n1 and n2 are a majority, and must do without it.                       *)
InitDiverged ==
  LET up == {n1, n2}
      logOf(n) == CASE n = n1 -> <<[term |-> 1, request_id |-> r1]>>
                    [] n = n2 -> <<[term |-> 2, request_id |-> r1],
                                   [term |-> 2, request_id |-> r1]>>
                    [] OTHER -> << >>
  IN  /\ current_term = [n \in Server |-> IF n \in up THEN 3 ELSE 0]
      /\ voted_for = [n \in Server |-> IF n = n1 THEN n1 ELSE Nil]
      /\ log = [n \in Server |-> logOf(n)]
      /\ disk = [n \in Server |-> [current_term |-> 3,
                                   voted_for |-> IF n = n2 THEN Nil ELSE n1,
                                   log |-> logOf(n)]]
      /\ running = [n \in Server |-> n \in up]
      /\ role = [n \in Server |-> IF n = n1 THEN "leader" ELSE "follower"]
      /\ leader_id = [n \in Server |-> IF n = n1 THEN n1 ELSE Nil]
      /\ votes_granted = [n \in Server |-> IF n = n1 THEN {n1, n3} ELSE {}]
      /\ commit_index = [n \in Server |-> SENTINEL_INDEX]
      /\ applied = [n \in Server |-> << >>]
      /\ next_index = [n \in Server |-> [p \in Server |-> IF n = n1 THEN 2 ELSE 1]]
      /\ match_index = [n \in Server |-> [p \in Server |-> SENTINEL_INDEX]]
      /\ pending_clients = [n \in Server |-> {}]
      /\ election_timer = [n \in Server |-> n = n2]
      /\ heartbeat_timer = [n \in Server |-> n = n1]
      /\ msgs = {AppendEntries(n1, p, 3, logOf(n1), 2, SENTINEL_INDEX) : p \in Peers(n1)}
      /\ flight = {}

(* n3 led term 1, had r1 replicated, committed and applied it and told the *)
(* client, and crashed before the others heard of the commit.  n2 elected  *)
(* n1 in term 2, and n3 is back; every server is up and has r1 in its log. *)
InitSucceeded ==
  LET entries == <<[term |-> 1, request_id |-> r1]>>
  IN  /\ current_term = [n \in Server |-> IF n = n3 THEN 1 ELSE 2]
      /\ voted_for = [n \in Server |-> IF n = n3 THEN n3 ELSE n1]
      /\ log = [n \in Server |-> entries]
      /\ disk = [n \in Server |-> [current_term |-> current_term[n],
                                   voted_for |-> voted_for[n], log |-> entries]]
      /\ running = [n \in Server |-> TRUE]
      /\ role = [n \in Server |-> IF n = n1 THEN "leader" ELSE "follower"]
      /\ leader_id = [n \in Server |-> IF n = n1 THEN n1 ELSE Nil]
      /\ votes_granted = [n \in Server |-> IF n = n1 THEN {n1, n2} ELSE {}]
      /\ commit_index = [n \in Server |-> SENTINEL_INDEX]
      /\ applied = [n \in Server |-> << >>]
      /\ next_index = [n \in Server |-> [p \in Server |-> IF n = n1 THEN 2 ELSE 1]]
      /\ match_index = [n \in Server |-> [p \in Server |-> SENTINEL_INDEX]]
      /\ pending_clients = [n \in Server |-> {}]
      /\ election_timer = [n \in Server |-> n # n1]
      /\ heartbeat_timer = [n \in Server |-> n = n1]
      /\ msgs = {AppendEntries(n1, p, 2, entries, 2, SENTINEL_INDEX) : p \in Peers(n1)}
      /\ flight = {ClientReply(n3, r1)}

Carry ==
  /\ msgs # {}
  /\ flight' = flight \cup msgs
  /\ msgs' = {}
  /\ UNCHANGED <<hardVars, disk, running, role, leader_id, commitVars,
                 votes_granted, leaderVars, timerVars>>

Arrive(n, m) ==
  /\ m \in flight
  /\ OnMessage(n, m)
  /\ flight' = flight \ {m}

Beat(n) == FireHeartbeat(n) /\ UNCHANGED flight

Ask(n, r) == OnClientRequest(n, r) /\ UNCHANGED flight

LeftAlone ==
  \/ Carry
  \/ \E n \in Server :
       \/ \E m \in flight : Arrive(n, m)
       \/ Beat(n)
       \/ \E r \in Request : Ask(n, r)

(* The messages that the logs of at most MaxLog entries can lead to,       *)
(* by what tells them apart within n1's term.                              *)
FromLeader == [prev_log_index : 0 .. MaxLog, commit : 0 .. MaxLog, len : 0 .. MaxLog]
FromFollower == [success : BOOLEAN, match_index : 0 .. MaxLog]

Takes(p, a) == \E m \in flight :
  /\ m.type = "AppendEntries"
  /\ m.to = p
  /\ m.prev_log_index = a.prev_log_index
  /\ m.leader_commit = a.commit
  /\ Len(m.entries) = a.len
  /\ Arrive(p, m)

Learns(p, a) == \E m \in flight :
  /\ m.type = "AppendEntriesReply"
  /\ m.from = p
  /\ m.success = a.success
  /\ m.match_index = a.match_index
  /\ Arrive(n1, m)

(* Every packet between n1 and its followers arrives, and the leader's     *)
(* heartbeats go on.                                                       *)
Fairness(followers) ==
  /\ WF_progressVars(Carry)
  /\ \A p \in followers : \A a \in FromLeader : WF_progressVars(Takes(p, a))
  /\ \A p \in followers : \A a \in FromFollower : WF_progressVars(Learns(p, a))
  /\ WF_progressVars(Beat(n1))

SpecProgress == InitDiverged /\ [][LeftAlone]_progressVars /\ Fairness({n2})

SpecSucceeded == InitSucceeded /\ [][LeftAlone]_progressVars /\ Fairness({n2, n3})

-----------------------------------------------------------------------------
(* The logs that old leaders left behind come to agree with the leader's,  *)
(* on disk too, and stay so: next_index is walked back far enough, and no  *)
(* late reply undoes the repair.                                           *)
LogsRepaired ==
  <>[](log[n2] = log[n1] /\ disk[n2].log = log[n1])

(* A client whose write the leader took is answered.                       *)
RequestsAnswered ==
  \A r \in Request :
    (\E d \in pending_clients[n1] : d.request_id = r)
      ~> ClientReply(n1, r) \in flight

(* What the leader has committed, its follower applies.                    *)
CommitReachesAll ==
  \A i \in 1 .. MaxLog :
    commit_index[n1] = i ~> Len(applied[n2]) >= i

(* "If you told somebody a write succeeded, that write happened, and it    *)
(* stays happened" (invariants/history.py:3-5), and once the world is      *)
(* quiet its effect is what a store must show (history.py:45-46): what was *)
(* acknowledged gets applied by a server that runs.  The code does not     *)
(* bring this about when the leader changes and no write follows.          *)
ReceiptsStand ==
  \A r \in Request :
    (\E n \in Server : ClientReply(n, r) \in flight)
      ~> \E n \in Server : running[n] /\ \E i \in DOMAIN applied[n] :
                                           applied[n][i].request_id = r
=============================================================================
