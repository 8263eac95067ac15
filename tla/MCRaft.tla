------------------------------- MODULE MCRaft -------------------------------
(***************************************************************************)
(* Instances of RaftNode for TLC: bounds, symmetry, and starting states    *)
(* further into an execution than Init.                                    *)
(***************************************************************************)
EXTENDS RaftSafety, TLC

CONSTANTS
  n1, n2, n3, r1, r2,
  MaxCampaigns,   \* bound: how many elections are started in all
  MaxMsgs         \* bound: how many different messages are sent in all

Symmetry == Permutations(Server \ (Faulty \cup {n1}))

Campaigns == {<<m.from, m.term>> : m \in {x \in msgs : x.type = "RequestVote"}}
Bounded ==
  /\ Cardinality(Campaigns) <= MaxCampaigns
  /\ Cardinality(msgs) <= MaxMsgs

(* All servers running in term, with these votes and logs, on disk as in   *)
(* memory.                                                                 *)
At(term, vote, logs) ==
  /\ current_term = [n \in Server |-> term]
  /\ voted_for = vote
  /\ log = logs
  /\ disk = [n \in Server |-> [current_term |-> term, voted_for |-> vote[n],
                               log |-> logs[n]]]
  /\ running = [n \in Server |-> TRUE]
  /\ commit_index = [n \in Server |-> SENTINEL_INDEX]
  /\ applied = [n \in Server |-> << >>]
  /\ next_index = [n \in Server |-> [p \in Server |-> 1]]
  /\ match_index = [n \in Server |-> [p \in Server |-> SENTINEL_INDEX]]
  /\ pending_clients = [n \in Server |-> {}]

(* n1 has been elected in term 1 and has told the others, and nothing is   *)
(* in any log.  Of the messages before that, none arrives any more.        *)
InitElected ==
  /\ At(1, [n \in Server |-> n1], [n \in Server |-> << >>])
  /\ role = [n \in Server |-> IF n = n1 THEN "leader" ELSE "follower"]
  /\ votes_granted = [n \in Server |-> IF n = n1 THEN {n1, n2} ELSE {}]
  /\ leader_id = [n \in Server |-> n1]
  /\ election_timer = [n \in Server |-> n # n1]
  /\ heartbeat_timer = [n \in Server |-> n = n1]
  /\ msgs = {AppendEntries(n1, p, 1, << >>, 1, SENTINEL_INDEX) : p \in Peers(n1)}

(* The elections from the start, with no client, and what a leader does    *)
(* that has been elected: the two have all but the term in common, and the *)
(* messages of term 1 tell them apart for good.                            *)
SpecRaft == (Init \/ InitElected) /\ [][Next]_vars

StartedElected ==
  /\ \E m \in msgs : m.type = "AppendEntries" /\ m.term = 1
  /\ ~\E m \in msgs : m.type = "RequestVote" /\ m.term = 1

RaftBounded ==
  \/ /\ StartedElected
     /\ Cardinality(Campaigns) <= MaxCampaigns - 1
     /\ Cardinality(msgs) <= MaxMsgs
  \/ /\ ~StartedElected
     /\ Cardinality(Campaigns) <= MaxCampaigns
     /\ \A n \in Server : log[n] = << >>

(* The start of Figure 8: n1 led term 1 and appended r1; n2 was elected in *)
(* term 2 by n3, and appended r2; neither got to replicate its entry, and  *)
(* both have crashed and restarted.  No earlier message arrives any more.  *)
InitFigure8 ==
  /\ At(2, [n \in Server |-> IF n = n1 THEN Nil ELSE n2],
        [n \in Server |-> CASE n = n1 -> <<[term |-> 1, request_id |-> r1]>>
                             [] n = n2 -> <<[term |-> 2, request_id |-> r2]>>
                             [] OTHER -> << >>])
  /\ role = [n \in Server |-> "follower"]
  /\ leader_id = [n \in Server |-> IF n = n3 THEN n2 ELSE Nil]
  /\ votes_granted = [n \in Server |-> {}]
  /\ election_timer = [n \in Server |-> TRUE]
  /\ heartbeat_timer = [n \in Server |-> FALSE]
  /\ msgs = {}

SpecFigure8 == InitFigure8 /\ [][Next]_vars
=============================================================================
