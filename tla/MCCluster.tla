------------------------------ MODULE MCCluster ------------------------------
(***************************************************************************)
(* An instance of RaftCluster for TLC: the state from which the client     *)
(* starts.                                                                 *)
(***************************************************************************)
EXTENDS RaftCluster, MCRaft

MCNodeIds == <<n1, n2, n3>>

(* n2 and n3 have moved to term 2 and n2 leads there, while n1 still leads *)
(* term 1; no log holds anything yet.                                      *)
InitTwoLeaders ==
  /\ current_term = [n \in Server |-> IF n = n1 THEN 1 ELSE 2]
  /\ voted_for = [n \in Server |-> IF n = n1 THEN n1 ELSE n2]
  /\ log = [n \in Server |-> << >>]
  /\ disk = [n \in Server |-> [current_term |-> current_term[n],
                               voted_for |-> voted_for[n], log |-> << >>]]
  /\ running = [n \in Server |-> TRUE]
  /\ role = [n \in Server |-> IF n = n3 THEN "follower" ELSE "leader"]
  /\ leader_id = [n \in Server |-> IF n = n1 THEN n1 ELSE n2]
  /\ votes_granted = [n \in Server |-> IF n = n3 THEN {} ELSE {n, n3}]
  /\ commit_index = [n \in Server |-> SENTINEL_INDEX]
  /\ applied = [n \in Server |-> << >>]
  /\ next_index = [n \in Server |-> [p \in Server |-> 1]]
  /\ match_index = [n \in Server |-> [p \in Server |-> SENTINEL_INDEX]]
  /\ pending_clients = [n \in Server |-> {}]
  /\ election_timer = [n \in Server |-> n = n3]
  /\ heartbeat_timer = [n \in Server |-> n # n3]
  /\ msgs = {AppendEntries(n, p, current_term[n], << >>, 1, SENTINEL_INDEX) :
               n \in {n1, n2}, p \in {n3}}

(* n2 leads term 2 with n3, while n1 is down and stays so.  The client has *)
(* sent its first request to n1 and then to n2; neither has got it yet.    *)
InitRepeat ==
  LET up == {n2, n3}
  IN  /\ current_term = [n \in Server |-> IF n \in up THEN 2 ELSE 0]
      /\ voted_for = [n \in Server |-> IF n \in up THEN n2 ELSE Nil]
      /\ log = [n \in Server |-> << >>]
      /\ disk = [n \in Server |-> [current_term |-> IF n \in up THEN 2 ELSE 1,
                                   voted_for |-> IF n \in up THEN n2 ELSE n1,
                                   log |-> << >>]]
      /\ running = [n \in Server |-> n \in up]
      /\ role = [n \in Server |-> IF n = n2 THEN "leader" ELSE "follower"]
      /\ leader_id = [n \in Server |-> IF n \in up THEN n2 ELSE Nil]
      /\ votes_granted = [n \in Server |-> IF n = n2 THEN up ELSE {}]
      /\ commit_index = [n \in Server |-> SENTINEL_INDEX]
      /\ applied = [n \in Server |-> << >>]
      /\ next_index = [n \in Server |-> [p \in Server |-> 1]]
      /\ match_index = [n \in Server |-> [p \in Server |-> SENTINEL_INDEX]]
      /\ pending_clients = [n \in Server |-> {}]
      /\ election_timer = [n \in Server |-> n = n3]
      /\ heartbeat_timer = [n \in Server |-> n = n2]
      /\ msgs = {AppendEntries(n2, n3, 2, << >>, 1, SENTINEL_INDEX)}
      /\ target = n2
      /\ next_request_id = 1
      /\ inflight = 0
      /\ acked = << >>
      /\ attempts = 2
      /\ retry_timer = TRUE
      /\ next_due = FALSE
      /\ redirects = 0
      /\ requests = {[to |-> n, request_id |-> 0] : n \in {n1, n2}}
      /\ refusals = {}

SpecTwoLeaders ==
  InitTwoLeaders /\ ClientInit /\ [][ClusterNext]_<<vars, clientVars>>

SpecClient ==
  ((InitTwoLeaders /\ ClientInit) \/ InitRepeat) /\ [][ClusterNext]_<<vars, clientVars>>

(* Two leaders are enough for logs of two entries; a repeated request only *)
(* shows behind a second one.                                              *)
ClientBounded ==
  /\ Cardinality(msgs) <= MaxMsgs
  /\ running[n1] => \A n \in Server : Len(log[n]) <= 2
=============================================================================
