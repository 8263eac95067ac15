----------------------------- MODULE RaftSafety -----------------------------
(***************************************************************************)
(* What the nodes of RaftNode promise together: the safety properties of   *)
(* the Raft paper as raft/figure2.md and invariants/safety.py state them,  *)
(* and the promises about the disk that raft/persist.py is for.            *)
(***************************************************************************)
EXTENDS RaftNode, SequencesExt

Leads(n, t) ==
  \/ running[n] /\ role[n] = "leader" /\ current_term[n] = t
  \/ \E m \in msgs : m.type = "AppendEntries" /\ m.from = n /\ m.term = t

(* At most one server ever leads in a term: no two servers are leaders of  *)
(* it, and none sends AppendEntries in a term that another one led, be it  *)
(* a leader whose vote was crashed away, or a duplicated vote reply.       *)
ElectionSafety ==
  \A n, p \in Server : \A t \in {m.term : m \in {x \in msgs : x.type = "AppendEntries"}}
                               \cup {current_term[n]} :
    Leads(n, t) /\ Leads(p, t) => n = p

(* A vote is a promise that outlives the voter: it grants one candidate a  *)
(* term, and none if it stood in that term itself, though it may have      *)
(* crashed and restarted between the two answers (_reply_vote persists     *)
(* before it sends).                                                       *)
OneVotePerTerm ==
  \A m1 \in {m \in msgs : m.type = "RequestVoteReply" /\ m.vote_granted} :
    \A m2 \in {m \in msgs : m.type \in {"RequestVoteReply", "RequestVote"}} :
      m2.from = m1.from /\ m2.term = m1.term =>
        /\ m2.type = "RequestVoteReply"
        /\ m2.vote_granted => m2.to = m1.to

Logs == {log[n] : n \in Server} \cup {disk[n].log : n \in Server}

(* Two logs, in memory or on a disk, that agree about the term of an entry *)
(* agree about it and about all the entries before it.                     *)
LogMatching ==
  \A a, b \in Logs : \A i \in 1 .. Smaller(Len(a), Len(b)) :
    a[i].term = b[i].term => SubSeq(a, 1, i) = SubSeq(b, 1, i)

(* No two servers apply different commands at one index.                   *)
StateMachineSafety ==
  \A n, p \in Server : IsPrefix(applied[n], applied[p]) \/ IsPrefix(applied[p], applied[n])

(* A leader holds every entry that a server of its own or an earlier term  *)
(* has applied: the election restriction kept the others out.              *)
LeaderCompleteness ==
  \A n, p \in Server :
    running[p] /\ role[p] = "leader" /\ current_term[n] <= current_term[p] =>
      IsPrefix(applied[n], log[p])

(* What a server has applied is on the disks of a majority, so that no     *)
(* crash of a minority, torn write or restart can take it back.            *)
AppliedIsOnMajority ==
  \A n \in Server : IsMajority({p \in Server : IsPrefix(applied[n], disk[p].log)})

(* What a leader believes of a follower is on that follower's disk, until  *)
(* a later leader has spoken to it: a success reply is a promise about     *)
(* durable state, which no crash and no torn write may take back.          *)
MatchIndexIsDurable ==
  \A n \in Server : running[n] /\ role[n] = "leader" =>
    \A p \in Peers(n) :
      \/ IsPrefix(SubSeq(log[n], 1, match_index[n][p]), disk[p].log)
      \/ \E m \in msgs : /\ m.type = "AppendEntries" /\ m.to = p
                         /\ m.term > current_term[n]

(* Between events, a running server's term, vote and log are what a        *)
(* restart would read back: every handler persists what it changed.        *)
MemoryIsDurable ==
  \A n \in Server : running[n] =>
    disk[n] = [current_term |-> current_term[n], voted_for |-> voted_for[n],
               log |-> log[n]]

(* A leader's next_index names an entry of its log or the one after it:    *)
(* replicate_to would raise IndexError otherwise, which no guard catches.  *)
NextIndexInRange ==
  \A n \in Server : running[n] /\ role[n] = "leader" =>
    \A p \in Peers(n) : next_index[n][p] \in 1 .. LastIndex(log[n]) + 1

(* Only a server that once led can be left without an election timer, by   *)
(* stepping down: figure2.md has every follower stand when it hears of no  *)
(* leader, and no crash, restart or lost election may stop the others.     *)
OnlyOldLeadersStandBy ==
  \A n \in Server : running[n] /\ role[n] # "leader" /\ ~election_timer[n] =>
    \E m \in msgs : m.type = "AppendEntries" /\ m.from = n /\ m.term < current_term[n]

(* A server that nothing need come to: it leads and sends heartbeats, its  *)
(* election timer is armed, or it is down and restarts with one that is.   *)
CanStand(n) == ~running[n] \/ role[n] = "leader" \/ election_timer[n]

(* Old leaders that stand by wait to be spoken to, and never all for each  *)
(* other: for each server there is one that need not wait, in a term that  *)
(* is no older, so that its next election or heartbeat reaches the rest.   *)
SomebodyCanStand ==
  \A n \in Server : \E p \in Server :
    CanStand(p) /\ disk[n].current_term <= disk[p].current_term

(* What a server has applied is still in its log: an AppendEntries that is *)
(* late, or a duplicate, never cuts away committed entries.                *)
AppliedInLog ==
  \A n \in Server : running[n] => IsPrefix(applied[n], log[n])

-----------------------------------------------------------------------------
(* The commit index of a server that stays up never moves back, whatever   *)
(* old AppendEntries arrive late.                                          *)
CommitMonotonic ==
  [][\A n \in Server : running'[n] => commit_index[n] <= commit_index'[n]]_vars

(* The term on a disk never goes back, and within a term the vote on it is *)
(* never changed or withdrawn, through crashes and torn writes too.        *)
HardStateMonotonic ==
  [][\A n \in Server :
       /\ disk[n].current_term <= disk'[n].current_term
       /\ disk[n].current_term = disk'[n].current_term =>
            disk[n].voted_for \in {Nil, disk'[n].voted_for}]_vars
=============================================================================
