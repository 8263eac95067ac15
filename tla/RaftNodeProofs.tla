--------------------------- MODULE RaftNodeProofs ---------------------------
(***************************************************************************)
(* What holds of RaftNode for every cluster, every set of requests and     *)
(* every bound: type correctness, the agreement of memory and disk, the    *)
(* range of next_index, the safety of elections and the matching of logs,  *)
(* through every crash, torn write and restart.                            *)
(***************************************************************************)
EXTENDS RaftSafety, FiniteSetTheorems, SequenceTheorems, TLAPS

-----------------------------------------------------------------------------
(* The log operators.                                                      *)

(* The term of the last entry, and of any entry the log has, is a number.  *)
LEMMA TermAtType ==
  ASSUME NEW lg \in Seq(Entry)
  PROVE  /\ LastTerm(lg) \in Nat
         /\ \A i \in 0 .. Len(lg) : TermAt(lg, i) \in Nat
<1>1. \A i \in 1 .. Len(lg) : lg[i] \in Entry
  OBVIOUS
<1>2. \A i \in 1 .. Len(lg) : lg[i].term \in Nat
  BY <1>1 DEF Entry
<1>3. lg # << >> => Len(lg) \in 1 .. Len(lg)
  OBVIOUS
<1>4. LastTerm(lg) \in Nat
  BY <1>2, <1>3 DEF LastTerm, SENTINEL_TERM
<1>5. \A i \in 0 .. Len(lg) : TermAt(lg, i) \in Nat
  BY <1>2 DEF TermAt, SENTINEL_TERM, SENTINEL_INDEX
<1> QED
  BY <1>4, <1>5

(* A truncated log is a log, cut to the entries before the index.          *)
LEMMA TruncateType ==
  ASSUME NEW lg \in Seq(Entry), NEW i \in Nat \ {0}
  PROVE  /\ TruncateFrom(lg, i) \in Seq(Entry)
         /\ Len(TruncateFrom(lg, i)) = IF i <= Len(lg) THEN i - 1 ELSE Len(lg)
  BY DEF TruncateFrom, LastIndex

(* max and min of two indexes are indexes, and bound them.                 *)
LEMMA LargerType ==
  ASSUME NEW a \in Nat, NEW b \in Nat
  PROVE  /\ Larger(a, b) \in Nat
         /\ Larger(a, b) >= a
         /\ Larger(a, b) >= b
         /\ Smaller(a, b) \in Nat
         /\ Smaller(a, b) <= a
         /\ Smaller(a, b) <= b
  BY DEF Larger, Smaller

-----------------------------------------------------------------------------
(* The messages.                                                           *)

(* The fields of a message, by its type.                                   *)
LEMMA MessageFields ==
  ASSUME NEW m \in Message
  PROVE  /\ m.from \in Server
         /\ m.type # "ClientReply" => m.to \in Server /\ m.term \in Nat
         /\ m.type = "RequestVote" => m.last_log_index \in Nat /\ m.last_log_term \in Nat
         /\ m.type = "RequestVoteReply" => m.vote_granted \in BOOLEAN
         /\ m.type = "AppendEntries" =>
              /\ m.prev_log_index \in Nat
              /\ m.prev_log_term \in Nat
              /\ m.entries \in Seq(Entry)
              /\ m.leader_commit \in Nat
         /\ m.type = "AppendEntriesReply" =>
              m.success \in BOOLEAN /\ m.match_index \in Nat
  BY DEF Message

(* A RequestVote built from a log is a message.                            *)
LEMMA RequestVoteType ==
  ASSUME NEW n \in Server, NEW p \in Server, NEW t \in Nat, NEW lg \in Seq(Entry)
  PROVE  RequestVote(n, p, t, lg) \in Message
<1>1. LastTerm(lg) \in Nat /\ LastIndex(lg) \in Nat
  BY TermAtType DEF LastIndex
<1> QED
  BY <1>1 DEF RequestVote, Message

(* So is the answer to it.                                                 *)
LEMMA RequestVoteReplyType ==
  ASSUME NEW n \in Server, NEW p \in Server, NEW t \in Nat, NEW b \in BOOLEAN
  PROVE  RequestVoteReply(n, p, t, b) \in Message
  BY DEF RequestVoteReply, Message

(* An AppendEntriesReply with a match_index of 0 or more is a message.     *)
LEMMA AppendEntriesReplyType ==
  ASSUME NEW n \in Server, NEW p \in Server, NEW t \in Nat, NEW b \in BOOLEAN, NEW i \in Nat
  PROVE  AppendEntriesReply(n, p, t, b, i) \in Message
  BY DEF AppendEntriesReply, Message

(* The acknowledgement of a request is a message.                          *)
LEMMA ClientReplyType ==
  ASSUME NEW n \in Server, NEW r \in Request
  PROVE  ClientReply(n, r) \in Message
  BY DEF ClientReply, Message

(* An AppendEntries from a next_index in the log's range is a message,     *)
(* and brings a follower to the end of that log.                           *)
LEMMA AppendEntriesType ==
  ASSUME NEW n \in Server, NEW p \in Server, NEW t \in Nat, NEW lg \in Seq(Entry),
         NEW next \in 1 .. Len(lg) + 1, NEW c \in Nat
  PROVE  /\ AppendEntries(n, p, t, lg, next, c) \in Message
         /\ AppendEntries(n, p, t, lg, next, c).prev_log_index
              + Len(AppendEntries(n, p, t, lg, next, c).entries) = Len(lg)
<1> DEFINE es == IF next <= LastIndex(lg) THEN SliceFrom(lg, next) ELSE << >>
<1>1. es \in Seq(Entry) /\ next - 1 + Len(es) = Len(lg)
  BY DEF SliceFrom, LastIndex
<1>2. TermAt(lg, next - 1) \in Nat
  BY TermAtType
<1>3. next - 1 \in Nat
  OBVIOUS
<1> HIDE DEF es
<1>4. AppendEntries(n, p, t, lg, next, c) =
        [type |-> "AppendEntries", from |-> n, to |-> p, term |-> t,
         prev_log_index |-> next - 1, prev_log_term |-> TermAt(lg, next - 1),
         entries |-> es, leader_commit |-> c]
  BY DEF AppendEntries, es
<1> QED
  BY <1>1, <1>2, <1>3, <1>4 DEF Message

-----------------------------------------------------------------------------
(* The inductive invariant behind type correctness.  The term that an      *)
(* AppendEntries carries for its prev_log_index is only a number if that   *)
(* index is in the leader's log, so the types hang on the range of         *)
(* next_index, and through the replies on what AppendEntries were sent.    *)

IsAppend(m) == m.type = "AppendEntries"
LastNew(m) == m.prev_log_index + Len(m.entries)

DownIsFollower == \A n \in Server : ~running[n] => role[n] = "follower"

AppliedCovers == \A n \in Server : commit_index[n] <= Len(applied[n])

NextInRange ==
  \A n \in Server : role[n] = "leader" =>
    \A p \in Server : /\ next_index[n][p] \in 1 .. LastIndex(log[n]) + 1
                      /\ match_index[n][p] <= LastIndex(log[n])

(* A server has led only in terms its disk has reached, and never yet in   *)
(* the one it stands in.                                                   *)
OwnTermsPast ==
  \A m \in msgs : IsAppend(m) =>
    /\ m.term <= disk[m.from].current_term
    /\ role[m.from] = "candidate" => m.term # current_term[m.from]

(* A leader's log covers all that it has sent in its term.                 *)
SentInRange ==
  \A m \in msgs :
    IsAppend(m) /\ role[m.from] = "leader" /\ m.term = current_term[m.from] =>
      LastNew(m) <= LastIndex(log[m.from])

(* A success reply answers an AppendEntries of the server it goes to.      *)
ReplyAnswers ==
  \A r \in msgs : r.type = "AppendEntriesReply" /\ r.success =>
    \E m \in msgs : /\ IsAppend(m)
                    /\ m.from = r.to
                    /\ m.term = r.term
                    /\ LastNew(m) = r.match_index

TInv ==
  /\ TypeOK
  /\ MemoryIsDurable
  /\ DownIsFollower
  /\ AppliedCovers
  /\ NextInRange
  /\ OwnTermsPast
  /\ SentInRange
  /\ ReplyAnswers

(* The initial states satisfy it.                                          *)
LEMMA TInvInit == Init => TInv
<1> SUFFICES ASSUME Init PROVE TInv
  OBVIOUS
<1>1. TypeOK
  BY DEF Init, TypeOK, HardState, Role, SENTINEL_INDEX
<1>2. MemoryIsDurable /\ DownIsFollower /\ NextInRange
  BY DEF Init, MemoryIsDurable, DownIsFollower, NextInRange
<1>3. AppliedCovers
  BY DEF Init, AppliedCovers, SENTINEL_INDEX
<1>4. OwnTermsPast /\ SentInRange /\ ReplyAnswers
  BY DEF Init, OwnTermsPast, SentInRange, ReplyAnswers
<1> QED
  BY <1>1, <1>2, <1>3, <1>4 DEF TInv

-----------------------------------------------------------------------------
(* What is written.                                                        *)

(* A running server's write leaves on its disk the new term, vote and log, *)
(* and no other disk changes.                                              *)
LEMMA PersistWrites ==
  ASSUME TypeOK, MemoryIsDurable, NEW n \in Server, running[n],
         NEW cut \in Nat \ {0}, NEW new \in Seq(Entry),
         NEW t \in Nat, NEW v \in Server \cup {Nil},
         Persist(n, cut, new, t, v)
  PROVE  /\ disk' \in [Server -> HardState]
         /\ disk'[n] = [current_term |-> t, voted_for |-> v,
                        log |-> TruncateFrom(log[n], cut) \o new]
         /\ \A p \in Server : p # n => disk'[p] = disk[p]
<1>1. disk[n].log = log[n] /\ log[n] \in Seq(Entry) /\ disk \in [Server -> HardState]
  <2>1. disk[n] = [current_term |-> current_term[n], voted_for |-> voted_for[n],
                   log |-> log[n]]
    BY DEF MemoryIsDurable
  <2>2. disk[n].log = log[n]
    BY <2>1
  <2> QED
    BY <2>2 DEF TypeOK
<1>2. TruncateFrom(log[n], cut) \in Seq(Entry)
  BY <1>1, TruncateType
<1>3. TruncateFrom(log[n], cut) \o new \in Seq(Entry)
  BY <1>2
<1> QED
  BY <1>1, <1>3 DEF Persist, Written, AfterWrite, HardState

(* save_state and sync put the term and the vote on the disk, and leave    *)
(* the log that is there alone.                                            *)
LEMMA PersistStateWrites ==
  ASSUME TypeOK, MemoryIsDurable, NEW n \in Server, running[n],
         NEW t \in Nat, NEW v \in Server \cup {Nil}, PersistState(n, t, v)
  PROVE  /\ disk' \in [Server -> HardState]
         /\ disk'[n] = [current_term |-> t, voted_for |-> v, log |-> log[n]]
         /\ \A p \in Server : p # n => disk'[p] = disk[p]
<1>1. log[n] \in Seq(Entry) /\ LastIndex(log[n]) + 1 \in Nat \ {0}
  <2>1. log[n] \in Seq(Entry)
    BY DEF TypeOK
  <2>2. Len(log[n]) \in Nat
    BY <2>1
  <2> QED BY ONLY <2>1, <2>2 DEF LastIndex
<1>2. TruncateFrom(log[n], LastIndex(log[n]) + 1) \o << >> = log[n]
  BY <1>1 DEF TruncateFrom, LastIndex
<1>3. << >> \in Seq(Entry)
  OBVIOUS
<1>4. Persist(n, LastIndex(log[n]) + 1, << >>, t, v)
  BY DEF PersistState
<1>5. /\ disk' \in [Server -> HardState]
      /\ disk'[n] = [current_term |-> t, voted_for |-> v,
                     log |-> TruncateFrom(log[n], LastIndex(log[n]) + 1) \o << >>]
      /\ \A p \in Server : p # n => disk'[p] = disk[p]
  BY <1>1, <1>3, <1>4, PersistWrites
<1> QED
  BY <1>2, <1>5

(* The term and the vote that become_follower leaves.                      *)
LEMMA AfterType ==
  ASSUME TypeOK, NEW n \in Server, NEW t \in Nat
  PROVE  /\ TermAfter(n, t) \in Nat
         /\ TermAfter(n, t) >= current_term[n]
         /\ TermAfter(n, t) >= t
         /\ VoteAfter(n, t) \in Server \cup {Nil}
  BY LargerType DEF TypeOK, TermAfter, VoteAfter

-----------------------------------------------------------------------------
(* What a step of n may do to the parts of the invariant that are about    *)
(* messages: its disk and its term do not go back, it becomes leader only  *)
(* in a term it has not led, and it sends only what its log holds.         *)
Advances(n, new) ==
  /\ msgs' = msgs \cup new
  /\ \A p \in Server : p # n =>
       /\ disk'[p].current_term = disk[p].current_term
       /\ role'[p] = role[p]
       /\ current_term'[p] = current_term[p]
       /\ log'[p] = log[p]
  /\ disk'[n].current_term \in Nat
  /\ disk'[n].current_term >= disk[n].current_term
  /\ current_term'[n] \in Nat
  /\ LastIndex(log'[n]) \in Nat
  /\ role'[n] \in {"candidate", "leader"} =>
       \/ current_term'[n] > disk[n].current_term
       \/ role[n] = "candidate" /\ current_term'[n] = current_term[n]
       \/ /\ role[n] = "leader" /\ role'[n] = "leader"
          /\ current_term'[n] = current_term[n]
          /\ LastIndex(log'[n]) >= LastIndex(log[n])
  /\ \A x \in new : IsAppend(x) =>
       /\ x.from = n /\ x.term = current_term'[n] /\ role'[n] = "leader"
       /\ x.term <= disk'[n].current_term
       /\ LastNew(x) <= LastIndex(log'[n])
  /\ \A r \in new : r.type = "AppendEntriesReply" /\ r.success =>
       \E m \in msgs : /\ IsAppend(m) /\ m.from = r.to /\ m.term = r.term
                       /\ LastNew(m) = r.match_index

(* What the invariant says of the messages survives every step that moves  *)
(* the sender forward as Advances describes.                               *)
LEMMA MessageFrame ==
  ASSUME TInv, NEW n \in Server, NEW new, Advances(n, new)
  PROVE  OwnTermsPast' /\ SentInRange' /\ ReplyAnswers'
<1>1. \A m \in msgs : IsAppend(m) =>
        /\ m.from \in Server /\ m.term \in Nat /\ LastNew(m) \in Nat
        /\ m.term <= disk[m.from].current_term
        /\ role[m.from] = "candidate" => m.term # current_term[m.from]
        /\ role[m.from] = "leader" /\ m.term = current_term[m.from] =>
             LastNew(m) <= LastIndex(log[m.from])
  <2> SUFFICES ASSUME NEW m \in msgs, IsAppend(m)
               PROVE  /\ m.from \in Server /\ m.term \in Nat /\ LastNew(m) \in Nat
                      /\ m.term <= disk[m.from].current_term
                      /\ role[m.from] = "candidate" => m.term # current_term[m.from]
                      /\ role[m.from] = "leader" /\ m.term = current_term[m.from] =>
                           LastNew(m) <= LastIndex(log[m.from])
    OBVIOUS
  <2>1. m \in Message
    BY DEF TInv, TypeOK
  <2>2. m.from \in Server /\ m.term \in Nat /\ LastNew(m) \in Nat
    BY <2>1, MessageFields DEF IsAppend, LastNew
  <2> QED
    BY <2>2 DEF TInv, OwnTermsPast, SentInRange
<1>2. LastIndex(log[n]) \in Nat /\ disk[n].current_term \in Nat
  BY DEF TInv, TypeOK, LastIndex, HardState
<1>3. \A m \in msgs : IsAppend(m) =>
        /\ m.term <= disk'[m.from].current_term
        /\ role'[m.from] = "candidate" => m.term # current_term'[m.from]
        /\ role'[m.from] = "leader" /\ m.term = current_term'[m.from] =>
             LastNew(m) <= LastIndex(log'[m.from])
  <2> SUFFICES ASSUME NEW m \in msgs, IsAppend(m)
               PROVE  /\ m.term <= disk'[m.from].current_term
                      /\ role'[m.from] = "candidate" => m.term # current_term'[m.from]
                      /\ role'[m.from] = "leader" /\ m.term = current_term'[m.from] =>
                           LastNew(m) <= LastIndex(log'[m.from])
    OBVIOUS
  <2>1. CASE m.from # n
    BY <1>1, <2>1 DEF Advances
  <2>2. CASE m.from = n
    BY <1>1, <1>2, <2>2 DEF Advances
  <2> QED
    BY <2>1, <2>2
<1>4. OwnTermsPast'
  BY <1>3 DEF OwnTermsPast, IsAppend, Advances
<1>5. SentInRange'
  BY <1>3 DEF SentInRange, IsAppend, LastNew, Advances
<1>6. ReplyAnswers'
  BY DEF TInv, ReplyAnswers, IsAppend, LastNew, Advances
<1> QED
  BY <1>4, <1>5, <1>6

(* Stepping down on a newer term keeps the invariant.                      *)
LEMMA StepDownStep ==
  ASSUME TInv, NEW n \in Server, running[n], NEW t \in Nat, t > current_term[n],
         StepDown(n, t)
  PROVE  TInv'
<1> USE DEF TInv
<1>1. /\ TermAfter(n, t) \in Nat /\ TermAfter(n, t) >= current_term[n]
      /\ VoteAfter(n, t) \in Server \cup {Nil}
  BY AfterType
<1>2. /\ disk' \in [Server -> HardState]
      /\ disk'[n] = [current_term |-> TermAfter(n, t), voted_for |-> VoteAfter(n, t),
                     log |-> log[n]]
      /\ \A p \in Server : p # n => disk'[p] = disk[p]
  BY <1>1, PersistStateWrites DEF StepDown
<1>3. TypeOK'
  BY <1>1, <1>2 DEF TypeOK, StepDown, BecomeFollower, Role, commitVars, leaderVars
<1>4. MemoryIsDurable'
  BY <1>2 DEF TypeOK, MemoryIsDurable, StepDown
<1>5. DownIsFollower' /\ AppliedCovers' /\ NextInRange'
  BY DEF TypeOK, DownIsFollower, AppliedCovers, NextInRange, StepDown, BecomeFollower,
         commitVars, leaderVars
<1>6. OwnTermsPast' /\ SentInRange' /\ ReplyAnswers'
  <2>1. msgs' = msgs \cup {}
    BY DEF StepDown
  <2>2. disk[n].current_term = current_term[n] /\ disk[n].current_term \in Nat
    BY DEF MemoryIsDurable, TypeOK, HardState
  <2>3. /\ current_term'[n] = TermAfter(n, t) /\ role'[n] = "follower"
        /\ LastIndex(log'[n]) \in Nat
        /\ \A p \in Server : p # n =>
             /\ role'[p] = role[p] /\ current_term'[p] = current_term[p]
             /\ log'[p] = log[p]
    BY DEF TypeOK, StepDown, BecomeFollower, LastIndex
  <2>4. Advances(n, {})
    BY <1>1, <1>2, <2>1, <2>2, <2>3 DEF Advances
  <2> QED
    BY <2>4, MessageFrame
<1> QED
  BY <1>3, <1>4, <1>5, <1>6

(* The disk of a running server holds its term, its vote and its log.      *)
LEMMA DiskAgrees ==
  ASSUME TypeOK, MemoryIsDurable, NEW n \in Server, running[n]
  PROVE  /\ disk[n].current_term = current_term[n]
         /\ disk[n].voted_for = voted_for[n]
         /\ disk[n].log = log[n]
  BY DEF MemoryIsDurable, TypeOK, HardState

-----------------------------------------------------------------------------
(* Elections.                                                              *)

(* Answering a RequestVote keeps the invariant.                            *)
LEMMA OnRequestVoteStep ==
  ASSUME TInv, NEW n \in Server, NEW m \in msgs, OnRequestVote(n, m)
  PROVE  TInv'
<1> USE DEF TInv
<1> DEFINE t == TermAfter(n, m.term)
           v == VoteOn(n, m)
           reply == RequestVoteReply(n, m.from, t, Grants(n, m))
<1>1. running[n] /\ m.type = "RequestVote" /\ m.from \in Server /\ m.term \in Nat
  BY MessageFields DEF OnRequestVote, Receives, TypeOK
<1>2. t \in Nat /\ t >= current_term[n] /\ v \in Server \cup {Nil}
  BY <1>1, AfterType DEF VoteOn
<1>3. /\ disk' \in [Server -> HardState]
      /\ disk'[n] = [current_term |-> t, voted_for |-> v, log |-> log[n]]
      /\ \A p \in Server : p # n => disk'[p] = disk[p]
  BY <1>1, <1>2, PersistStateWrites DEF OnRequestVote
<1>4. Grants(n, m) \in BOOLEAN
  BY DEF Grants
<1>5. reply \in Message
  BY <1>1, <1>2, <1>4, RequestVoteReplyType
<1>6. /\ msgs' = msgs \cup {reply}
      /\ current_term' = [current_term EXCEPT ![n] = t]
      /\ voted_for' = [voted_for EXCEPT ![n] = v]
      /\ UNCHANGED <<log, running, commit_index, applied, pending_clients,
                     next_index, match_index>>
      /\ election_timer' = [election_timer EXCEPT ![n] = @ \/ Grants(n, m)]
  BY DEF OnRequestVote, Send, commitVars, leaderVars
<1>a. current_term[n] \in Nat
  BY DEF TypeOK
<1>b. m.term > current_term[n] \/ t = current_term[n]
  BY <1>1, <1>a DEF TermAfter, Larger
<1>7. \/ BecomeFollower(n, Nil) /\ m.term > current_term[n]
      \/ UNCHANGED <<role, leader_id, votes_granted, heartbeat_timer>> /\ t = current_term[n]
  BY <1>b DEF OnRequestVote
<1> HIDE DEF t, v, reply
<1>8. TypeOK'
  <2>1. /\ role' \in [Server -> Role] /\ leader_id' \in [Server -> Server \cup {Nil}]
        /\ votes_granted' \in [Server -> SUBSET Server]
        /\ heartbeat_timer' \in [Server -> BOOLEAN]
    BY <1>7 DEF TypeOK, BecomeFollower, Role
  <2>2. election_timer' \in [Server -> BOOLEAN]
    BY <1>6, <1>4 DEF TypeOK
  <2>3. current_term' \in [Server -> Nat] /\ voted_for' \in [Server -> Server \cup {Nil}]
    BY <1>2, <1>6 DEF TypeOK
  <2>4. msgs' \in SUBSET Message
    BY <1>5, <1>6 DEF TypeOK
  <2> QED
    BY <1>3, <1>6, <2>1, <2>2, <2>3, <2>4 DEF TypeOK
<1>9. MemoryIsDurable'
  BY <1>3, <1>6 DEF TypeOK, MemoryIsDurable
<1>10. DownIsFollower' /\ AppliedCovers' /\ NextInRange'
  <2>1. \A p \in Server : role'[p] = "follower" \/ role'[p] = role[p]
    BY <1>7 DEF TypeOK, BecomeFollower
  <2> QED
    BY <1>6, <2>1 DEF TypeOK, DownIsFollower, AppliedCovers, NextInRange
<1>11. Advances(n, {reply})
  <2>1. disk[n].current_term = current_term[n] /\ disk[n].current_term \in Nat
    BY <1>1, DiskAgrees DEF TypeOK
  <2>2. /\ current_term'[n] = t /\ LastIndex(log'[n]) = LastIndex(log[n])
        /\ LastIndex(log[n]) \in Nat
        /\ \A p \in Server : p # n =>
             role'[p] = role[p] /\ current_term'[p] = current_term[p] /\ log'[p] = log[p]
    BY <1>6, <1>7 DEF TypeOK, BecomeFollower, LastIndex
  <2>3. role'[n] = "follower" \/ (role'[n] = role[n] /\ t = current_term[n])
    BY <1>7 DEF TypeOK, BecomeFollower
  <2>4. reply.type = "RequestVoteReply"
    BY DEF reply, RequestVoteReply
  <2>5. disk'[n].current_term = t /\ \A p \in Server : p # n => disk'[p] = disk[p]
    BY <1>3
  <2>6. role'[n] \in {"candidate", "leader"} =>
          \/ role[n] = "candidate" /\ t = current_term[n]
          \/ role[n] = "leader" /\ role'[n] = "leader" /\ t = current_term[n]
    BY <2>3
  <2>7. msgs' = msgs \cup {reply}
    BY <1>6
  <2>8. t \in Nat /\ t >= disk[n].current_term
    BY <1>2, <2>1
  <2> QED
    BY <2>2, <2>4, <2>5, <2>6, <2>7, <2>8 DEF Advances, IsAppend
<1> QED
  BY <1>8, <1>9, <1>10, <1>11, MessageFrame

(* Counting a vote changes nothing that the invariant is about.            *)
LEMMA CountVoteStep ==
  ASSUME TInv, NEW n \in Server, NEW m \in msgs, CountVote(n, m)
  PROVE  TInv'
<1> USE DEF TInv
<1>1. m.from \in Server
  BY MessageFields DEF TypeOK
<1>2. /\ votes_granted' = [votes_granted EXCEPT ![n] = votes_granted[n] \cup {m.from}]
      /\ UNCHANGED <<current_term, voted_for, log, disk, running, role, leader_id,
                     commit_index, applied, pending_clients, next_index, match_index,
                     election_timer, heartbeat_timer, msgs>>
  BY DEF CountVote, VotesWith, hardVars, commitVars, leaderVars, timerVars
<1>3. TypeOK'
  BY <1>1, <1>2 DEF TypeOK
<1>4. MemoryIsDurable' /\ DownIsFollower' /\ AppliedCovers' /\ NextInRange'
  BY <1>2 DEF MemoryIsDurable, DownIsFollower, AppliedCovers, NextInRange
<1>5. OwnTermsPast' /\ SentInRange' /\ ReplyAnswers'
  BY <1>2 DEF OwnTermsPast, SentInRange, ReplyAnswers
<1> QED
  BY <1>3, <1>4, <1>5

(* The AppendEntries of a new leader, at the end of its log.               *)
LEMMA NewLeaderSends ==
  ASSUME TypeOK, NEW n \in Server, NEW t \in Nat
  PROVE  \A x \in {AppendEntries(n, p, t, log[n], LastIndex(log[n]) + 1, commit_index[n]) :
                     p \in Peers(n)} :
           /\ x \in Message /\ x.type = "AppendEntries" /\ x.from = n /\ x.term = t
           /\ LastNew(x) = LastIndex(log[n])
<1> SUFFICES ASSUME NEW p \in Peers(n)
             PROVE  LET x == AppendEntries(n, p, t, log[n], LastIndex(log[n]) + 1,
                                           commit_index[n])
                    IN /\ x \in Message /\ x.type = "AppendEntries" /\ x.from = n
                       /\ x.term = t /\ LastNew(x) = LastIndex(log[n])
  OBVIOUS
<1>1. /\ p \in Server /\ log[n] \in Seq(Entry) /\ commit_index[n] \in Nat
      /\ LastIndex(log[n]) = Len(log[n])
      /\ LastIndex(log[n]) + 1 \in 1 .. Len(log[n]) + 1
  BY DEF TypeOK, Peers, LastIndex
<1> DEFINE x == AppendEntries(n, p, t, log[n], LastIndex(log[n]) + 1, commit_index[n])
<1>2. x \in Message /\ x.prev_log_index + Len(x.entries) = Len(log[n])
  <2>1. PICK lg : lg = log[n]
    OBVIOUS
  <2>2. PICK next : next = LastIndex(log[n]) + 1
    OBVIOUS
  <2>3. PICK c : c = commit_index[n]
    OBVIOUS
  <2>4. /\ n \in Server /\ p \in Server /\ t \in Nat /\ lg \in Seq(Entry)
        /\ next \in 1 .. Len(lg) + 1 /\ c \in Nat
    BY <1>1, <2>1, <2>2, <2>3
  <2>5. PICK y : y = AppendEntries(n, p, t, lg, next, c)
    OBVIOUS
  <2>6. y \in Message /\ y.prev_log_index + Len(y.entries) = Len(lg)
    BY ONLY <2>4, <2>5, AppendEntriesType
  <2> QED BY ONLY <2>1, <2>2, <2>3, <2>5, <2>6
<1>3. x.type = "AppendEntries" /\ x.from = n /\ x.term = t
  BY DEF AppendEntries
<1> HIDE DEF x
<1>4. LastNew(x) = LastIndex(log[n])
  BY <1>1, <1>2 DEF LastNew
<1> QED
  BY <1>2, <1>3, <1>4 DEF x

(* Winning with the votes of a majority keeps the invariant.               *)
LEMMA WinElectionStep ==
  ASSUME TInv, NEW n \in Server, NEW m \in msgs, WinElection(n, m)
  PROVE  TInv'
<1> USE DEF TInv
<1> DEFINE new == {AppendEntries(n, p, current_term[n], log[n], LastIndex(log[n]) + 1,
                                 commit_index[n]) : p \in Peers(n)}
<1>1. m.from \in Server /\ running[n] /\ role[n] = "candidate"
  BY MessageFields DEF TypeOK, WinElection, CountsVote, Receives
<1>2. /\ votes_granted' = [votes_granted EXCEPT ![n] = votes_granted[n] \cup {m.from}]
      /\ role' = [role EXCEPT ![n] = "leader"]
      /\ leader_id' = [leader_id EXCEPT ![n] = n]
      /\ next_index' = [next_index EXCEPT ![n] = [p \in Server |-> LastIndex(log[n]) + 1]]
      /\ match_index' = [match_index EXCEPT ![n] = [p \in Server |-> 0]]
      /\ election_timer' = [election_timer EXCEPT ![n] = FALSE]
      /\ heartbeat_timer' = [heartbeat_timer EXCEPT ![n] = TRUE]
      /\ msgs' = msgs \cup new
      /\ UNCHANGED <<current_term, voted_for, log, disk, running, commit_index, applied,
                     pending_clients>>
  BY DEF WinElection, BecomeLeader, Send, VotesWith, hardVars, commitVars, SENTINEL_INDEX
<1>3. LastIndex(log[n]) \in Nat /\ current_term[n] \in Nat
  BY DEF TypeOK, LastIndex
<1>4. \A x \in new : /\ x \in Message /\ x.type = "AppendEntries" /\ x.from = n
                     /\ x.term = current_term[n] /\ LastNew(x) = LastIndex(log[n])
  BY <1>3, NewLeaderSends
<1> HIDE DEF new
<1>5. TypeOK'
  <2>1. /\ [p \in Server |-> LastIndex(log[n]) + 1] \in [Server -> Nat]
        /\ [p \in Server |-> 0] \in [Server -> Nat]
    BY <1>3
  <2>2. next_index' \in [Server -> [Server -> Nat]] /\ match_index' \in [Server -> [Server -> Nat]]
    BY <1>2, <2>1 DEF TypeOK
  <2>3. msgs' \in SUBSET Message
    BY <1>2, <1>4 DEF TypeOK
  <2>4. /\ role' \in [Server -> Role] /\ leader_id' \in [Server -> Server \cup {Nil}]
        /\ votes_granted' \in [Server -> SUBSET Server]
    BY <1>1, <1>2 DEF TypeOK, Role
  <2>5. election_timer' \in [Server -> BOOLEAN] /\ heartbeat_timer' \in [Server -> BOOLEAN]
    BY <1>2 DEF TypeOK
  <2> QED
    BY <1>2, <2>2, <2>3, <2>4, <2>5 DEF TypeOK
<1>6. MemoryIsDurable' /\ AppliedCovers'
  BY <1>2 DEF MemoryIsDurable, AppliedCovers
<1>7. DownIsFollower' /\ NextInRange'
  <2>1. DownIsFollower'
    BY <1>1, <1>2 DEF TypeOK, DownIsFollower
  <2>2. \A p \in Server :
          next_index'[n][p] = LastIndex(log[n]) + 1 /\ match_index'[n][p] = 0
    BY <1>2 DEF TypeOK
  <2>3. \A q \in Server : q # n =>
          /\ next_index'[q] = next_index[q] /\ match_index'[q] = match_index[q]
          /\ role'[q] = role[q]
    BY <1>2 DEF TypeOK
  <2>4. NextInRange'
    BY <1>2, <1>3, <2>2, <2>3 DEF NextInRange
  <2> QED
    BY <2>1, <2>4
<1>8. Advances(n, new)
  <2>1. disk[n].current_term = current_term[n]
    BY <1>1, DiskAgrees
  <2>2. /\ role'[n] = "leader"
        /\ \A p \in Server : p # n => role'[p] = role[p]
    BY <1>2 DEF TypeOK
  <2>3. UNCHANGED <<current_term, log, disk>> /\ msgs' = msgs \cup new
    BY <1>2
  <2> QED
    BY <1>1, <1>3, <1>4, <2>1, <2>2, <2>3 DEF Advances, IsAppend
<1> QED
  BY <1>5, <1>6, <1>7, <1>8, MessageFrame

(* What a campaign changes, won at once or not.                            *)
LEMMA CampaignStep ==
  ASSUME TInv, NEW n \in Server, Campaign(n)
  PROVE  /\ disk' \in [Server -> HardState]
         /\ disk'[n] = [current_term |-> current_term[n] + 1, voted_for |-> n,
                        log |-> log[n]]
         /\ \A p \in Server : p # n => disk'[p] = disk[p]
         /\ disk[n].current_term = current_term[n]
         /\ current_term[n] \in Nat /\ LastIndex(log[n]) \in Nat
         /\ current_term' \in [Server -> Nat]
         /\ voted_for' \in [Server -> Server \cup {Nil}]
         /\ votes_granted' \in [Server -> SUBSET Server]
         /\ MemoryIsDurable'
<1> USE DEF TInv
<1>1. /\ running[n]
      /\ current_term' = [current_term EXCEPT ![n] = current_term[n] + 1]
      /\ voted_for' = [voted_for EXCEPT ![n] = n]
      /\ votes_granted' = [votes_granted EXCEPT ![n] = {n}]
      /\ PersistState(n, current_term[n] + 1, n)
      /\ UNCHANGED <<log, running>>
  BY DEF Campaign
<1>2. current_term[n] \in Nat /\ current_term[n] + 1 \in Nat /\ LastIndex(log[n]) \in Nat
  BY DEF TypeOK, LastIndex
<1>3. /\ disk' \in [Server -> HardState]
      /\ disk'[n] = [current_term |-> current_term[n] + 1, voted_for |-> n,
                     log |-> log[n]]
      /\ \A p \in Server : p # n => disk'[p] = disk[p]
  BY <1>1, <1>2, PersistStateWrites
<1>4. disk[n].current_term = current_term[n]
  BY <1>1, DiskAgrees
<1>5. /\ current_term' \in [Server -> Nat]
      /\ voted_for' \in [Server -> Server \cup {Nil}]
      /\ votes_granted' \in [Server -> SUBSET Server]
  BY <1>1, <1>2 DEF TypeOK
<1>6. MemoryIsDurable'
  BY <1>1, <1>3 DEF TypeOK, MemoryIsDurable
<1> QED
  BY <1>2, <1>3, <1>4, <1>5, <1>6

(* Asking for votes keeps the invariant: the new term is above every term  *)
(* in which the server has sent AppendEntries.                             *)
LEMMA AskForVotesStep ==
  ASSUME TInv, NEW n \in Server, Campaign(n), AskForVotes(n)
  PROVE  TInv'
<1> USE DEF TInv
<1> DEFINE new == {RequestVote(n, p, current_term[n] + 1, log[n]) : p \in Peers(n)}
<1>1. /\ Campaign(n) /\ running[n]
      /\ role' = [role EXCEPT ![n] = "candidate"]
      /\ leader_id' = [leader_id EXCEPT ![n] = Nil]
      /\ current_term' = [current_term EXCEPT ![n] = current_term[n] + 1]
      /\ msgs' = msgs \cup new
      /\ UNCHANGED <<log, running, commit_index, applied, pending_clients, next_index,
                     match_index, election_timer, heartbeat_timer>>
  BY DEF AskForVotes, Campaign, Send, commitVars, leaderVars, timerVars
<1>2. /\ disk' \in [Server -> HardState]
      /\ disk'[n] = [current_term |-> current_term[n] + 1, voted_for |-> n,
                     log |-> log[n]]
      /\ \A p \in Server : p # n => disk'[p] = disk[p]
      /\ disk[n].current_term = current_term[n]
      /\ current_term[n] \in Nat /\ LastIndex(log[n]) \in Nat
      /\ current_term' \in [Server -> Nat]
      /\ voted_for' \in [Server -> Server \cup {Nil}]
      /\ votes_granted' \in [Server -> SUBSET Server]
      /\ MemoryIsDurable'
  BY <1>1, CampaignStep
<1>3. \A x \in new : x \in Message /\ x.type = "RequestVote"
  <2> SUFFICES ASSUME NEW p \in Peers(n)
               PROVE  /\ RequestVote(n, p, current_term[n] + 1, log[n]) \in Message
                      /\ RequestVote(n, p, current_term[n] + 1, log[n]).type = "RequestVote"
    OBVIOUS
  <2>a. p \in Server /\ log[n] \in Seq(Entry)
    BY DEF TypeOK, Peers
  <2>1. p \in Server /\ log[n] \in Seq(Entry) /\ current_term[n] + 1 \in Nat
    BY ONLY <1>2, <2>a
  <2>2. RequestVote(n, p, current_term[n] + 1, log[n]) \in Message
    <3>1. n \in Server
      OBVIOUS
    <3> QED
      BY ONLY <2>1, <3>1, RequestVoteType
  <2>3. RequestVote(n, p, current_term[n] + 1, log[n]).type = "RequestVote"
    BY DEF RequestVote
  <2> QED
    BY <2>2, <2>3
<1> HIDE DEF new
<1>4. TypeOK'
  <2>1. role' \in [Server -> Role] /\ leader_id' \in [Server -> Server \cup {Nil}]
    BY <1>1 DEF TypeOK, Role
  <2>2. msgs' \in SUBSET Message
    BY <1>1, <1>3 DEF TypeOK
  <2> QED
    BY <1>1, <1>2, <2>1, <2>2 DEF TypeOK
<1>5. DownIsFollower' /\ AppliedCovers' /\ NextInRange'
  BY <1>1 DEF TypeOK, DownIsFollower, AppliedCovers, NextInRange
<1>6. Advances(n, new)
  <2>1. /\ current_term'[n] = current_term[n] + 1
        /\ role'[n] = "candidate" /\ log' = log
        /\ \A p \in Server : p # n =>
             role'[p] = role[p] /\ current_term'[p] = current_term[p]
    BY <1>1 DEF TypeOK
  <2> QED
    BY <1>1, <1>2, <1>3, <2>1 DEF Advances, IsAppend
<1> QED
  BY <1>2, <1>4, <1>5, <1>6, MessageFrame

(* So does an election that a cluster of one wins at once.                 *)
LEMMA ElectOneselfStep ==
  ASSUME TInv, NEW n \in Server, Campaign(n), BecomeLeader(n, current_term[n] + 1)
  PROVE  TInv'
<1> USE DEF TInv
<1> DEFINE new == {AppendEntries(n, p, current_term[n] + 1, log[n], LastIndex(log[n]) + 1,
                                 commit_index[n]) : p \in Peers(n)}
<1>1. /\ Campaign(n) /\ running[n]
      /\ role' = [role EXCEPT ![n] = "leader"]
      /\ leader_id' = [leader_id EXCEPT ![n] = n]
      /\ current_term' = [current_term EXCEPT ![n] = current_term[n] + 1]
      /\ next_index' = [next_index EXCEPT ![n] = [p \in Server |-> LastIndex(log[n]) + 1]]
      /\ match_index' = [match_index EXCEPT ![n] = [p \in Server |-> 0]]
      /\ election_timer' = [election_timer EXCEPT ![n] = FALSE]
      /\ heartbeat_timer' = [heartbeat_timer EXCEPT ![n] = TRUE]
      /\ msgs' = msgs \cup new
      /\ UNCHANGED <<log, running, commit_index, applied, pending_clients>>
  BY DEF Campaign, BecomeLeader, Send, commitVars, SENTINEL_INDEX
<1>2. /\ disk' \in [Server -> HardState]
      /\ disk'[n] = [current_term |-> current_term[n] + 1, voted_for |-> n,
                     log |-> log[n]]
      /\ \A p \in Server : p # n => disk'[p] = disk[p]
      /\ disk[n].current_term = current_term[n]
      /\ current_term[n] \in Nat /\ LastIndex(log[n]) \in Nat
      /\ current_term' \in [Server -> Nat]
      /\ voted_for' \in [Server -> Server \cup {Nil}]
      /\ votes_granted' \in [Server -> SUBSET Server]
      /\ MemoryIsDurable'
  BY <1>1, CampaignStep
<1>3. \A x \in new : /\ x \in Message /\ x.type = "AppendEntries" /\ x.from = n
                     /\ x.term = current_term[n] + 1 /\ LastNew(x) = LastIndex(log[n])
  <2>1. current_term[n] + 1 \in Nat
    BY <1>2
  <2> QED
    BY <2>1, NewLeaderSends
<1> HIDE DEF new
<1>4. TypeOK'
  <2>1. /\ [p \in Server |-> LastIndex(log[n]) + 1] \in [Server -> Nat]
        /\ [p \in Server |-> 0] \in [Server -> Nat]
    BY <1>2
  <2>2. next_index' \in [Server -> [Server -> Nat]] /\ match_index' \in [Server -> [Server -> Nat]]
    BY <1>1, <2>1 DEF TypeOK
  <2>3. msgs' \in SUBSET Message
    BY <1>1, <1>3 DEF TypeOK
  <2>4. role' \in [Server -> Role] /\ leader_id' \in [Server -> Server \cup {Nil}]
    BY <1>1 DEF TypeOK, Role
  <2>5. election_timer' \in [Server -> BOOLEAN] /\ heartbeat_timer' \in [Server -> BOOLEAN]
    BY <1>1 DEF TypeOK
  <2> QED
    BY <1>1, <1>2, <2>2, <2>3, <2>4, <2>5 DEF TypeOK
<1>5. DownIsFollower' /\ AppliedCovers'
  BY <1>1 DEF TypeOK, DownIsFollower, AppliedCovers
<1>6. NextInRange'
  <2>1. \A p \in Server :
          next_index'[n][p] = LastIndex(log[n]) + 1 /\ match_index'[n][p] = 0
    BY <1>1 DEF TypeOK
  <2>2. \A q \in Server : q # n =>
          /\ next_index'[q] = next_index[q] /\ match_index'[q] = match_index[q]
          /\ role'[q] = role[q]
    BY <1>1 DEF TypeOK
  <2> QED
    BY <1>1, <1>2, <2>1, <2>2 DEF NextInRange
<1>7. Advances(n, new)
  <2>1. /\ current_term'[n] = current_term[n] + 1
        /\ role'[n] = "leader" /\ log' = log
        /\ \A p \in Server : p # n =>
             role'[p] = role[p] /\ current_term'[p] = current_term[p]
    BY <1>1 DEF TypeOK
  <2> QED
    BY <1>1, <1>2, <1>3, <2>1 DEF Advances, IsAppend
<1> QED
  BY <1>2, <1>4, <1>5, <1>6, <1>7, MessageFrame

-----------------------------------------------------------------------------
(* Log replication.                                                        *)

(* Refusing a stale leader changes no server.                              *)
LEMMA RefuseStaleLeaderStep ==
  ASSUME TInv, NEW n \in Server, NEW m \in msgs, RefuseStaleLeader(n, m)
  PROVE  TInv'
<1> USE DEF TInv
<1> DEFINE reply == AppendEntriesReply(n, m.from, current_term[n], FALSE, 0)
<1>1. m.from \in Server /\ current_term[n] \in Nat
  BY MessageFields DEF TypeOK
<1>2. /\ msgs' = msgs \cup {reply}
      /\ UNCHANGED <<current_term, voted_for, log, disk, running, role, leader_id,
                     commit_index, applied, pending_clients, votes_granted, next_index,
                     match_index, election_timer, heartbeat_timer>>
  BY DEF RefuseStaleLeader, Send, hardVars, commitVars, leaderVars, timerVars
<1>3. reply \in Message /\ reply.type = "AppendEntriesReply" /\ ~reply.success
  BY <1>1, AppendEntriesReplyType DEF AppendEntriesReply
<1> HIDE DEF reply
<1>4. TypeOK'
  BY <1>2, <1>3 DEF TypeOK
<1>5. MemoryIsDurable' /\ DownIsFollower' /\ AppliedCovers' /\ NextInRange'
  BY <1>2 DEF MemoryIsDurable, DownIsFollower, AppliedCovers, NextInRange
<1>6. OwnTermsPast' /\ SentInRange'
  BY <1>2, <1>3 DEF OwnTermsPast, SentInRange, IsAppend
<1>7. ReplyAnswers'
  BY <1>2, <1>3 DEF ReplyAnswers
<1> QED
  BY <1>4, <1>5, <1>6, <1>7

(* What a message of the current leader changes.                           *)
LEMMA HearLeaderStep ==
  ASSUME TInv, NEW n \in Server, NEW m \in msgs, HearLeader(n, m)
  PROVE  /\ running[n] /\ m \in Message /\ m.type = "AppendEntries"
         /\ m.from \in Server /\ m.term \in Nat
         /\ m.prev_log_index \in Nat /\ m.entries \in Seq(Entry) /\ m.leader_commit \in Nat
         /\ TermAfter(n, m.term) = m.term /\ m.term >= current_term[n]
         /\ VoteAfter(n, m.term) \in Server \cup {Nil}
         /\ current_term' = [current_term EXCEPT ![n] = m.term]
         /\ voted_for' = [voted_for EXCEPT ![n] = VoteAfter(n, m.term)]
         /\ role' = [role EXCEPT ![n] = "follower"]
         /\ leader_id' = [leader_id EXCEPT ![n] = m.from]
         /\ votes_granted' = [votes_granted EXCEPT ![n] = {}]
         /\ heartbeat_timer' = [heartbeat_timer EXCEPT ![n] = FALSE]
         /\ election_timer' = [election_timer EXCEPT ![n] = TRUE]
<1>1. /\ running[n] /\ m \in Message /\ m.type = "AppendEntries" /\ m.term >= current_term[n]
      /\ current_term[n] \in Nat
  BY DEF HearLeader, Receives, TInv, TypeOK
<1>2. /\ m.from \in Server /\ m.term \in Nat
      /\ m.prev_log_index \in Nat /\ m.entries \in Seq(Entry) /\ m.leader_commit \in Nat
  BY <1>1, MessageFields
<1>3. TermAfter(n, m.term) = m.term
  BY <1>1, <1>2 DEF TermAfter, Larger
<1>4. VoteAfter(n, m.term) \in Server \cup {Nil}
  BY <1>2, AfterType DEF TInv
<1> QED
  BY <1>1, <1>2, <1>3, <1>4 DEF HearLeader, BecomeFollower

(* Refusing entries that do not connect to the log.                        *)
LEMMA RefuseGapStep ==
  ASSUME TInv, NEW n \in Server, NEW m \in msgs, RefuseGap(n, m)
  PROVE  TInv'
<1> USE DEF TInv
<1> DEFINE v == VoteAfter(n, m.term)
           reply == AppendEntriesReply(n, m.from, m.term, FALSE, 0)
<1>1. /\ running[n] /\ m \in Message /\ m.from \in Server /\ m.term \in Nat
      /\ TermAfter(n, m.term) = m.term /\ m.term >= current_term[n]
      /\ v \in Server \cup {Nil}
      /\ current_term' = [current_term EXCEPT ![n] = m.term]
      /\ voted_for' = [voted_for EXCEPT ![n] = v]
      /\ role' = [role EXCEPT ![n] = "follower"]
      /\ leader_id' = [leader_id EXCEPT ![n] = m.from]
      /\ votes_granted' = [votes_granted EXCEPT ![n] = {}]
      /\ heartbeat_timer' = [heartbeat_timer EXCEPT ![n] = FALSE]
      /\ election_timer' = [election_timer EXCEPT ![n] = TRUE]
  BY HearLeaderStep DEF RefuseGap
<1>2. /\ msgs' = msgs \cup {reply}
      /\ UNCHANGED <<log, running, commit_index, applied, pending_clients, next_index,
                     match_index>>
  BY <1>1 DEF RefuseGap, Send, commitVars, leaderVars
<1>3. reply \in Message /\ reply.type = "AppendEntriesReply" /\ ~reply.success
  BY <1>1, AppendEntriesReplyType DEF AppendEntriesReply
<1>4. /\ disk' \in [Server -> HardState]
      /\ disk'[n] = [current_term |-> m.term, voted_for |-> v, log |-> log[n]]
      /\ \A p \in Server : p # n => disk'[p] = disk[p]
  <2>1. PersistState(n, m.term, v)
    BY <1>1 DEF RefuseGap
  <2> QED
    BY <1>1, <2>1, PersistStateWrites
<1> HIDE DEF reply, v
<1>5. TypeOK'
  BY <1>1, <1>2, <1>3, <1>4 DEF TypeOK, Role
<1>6. MemoryIsDurable'
  BY <1>1, <1>2, <1>4 DEF TypeOK, MemoryIsDurable
<1>7. DownIsFollower' /\ AppliedCovers' /\ NextInRange'
  BY <1>1, <1>2 DEF TypeOK, DownIsFollower, AppliedCovers, NextInRange
<1>8. Advances(n, {reply})
  <2>1. disk[n].current_term = current_term[n] /\ current_term[n] \in Nat
        /\ LastIndex(log[n]) \in Nat
    <3>1. disk[n].current_term = current_term[n]
      BY <1>1, DiskAgrees
    <3> QED
      BY <3>1 DEF TypeOK, LastIndex
  <2>2. /\ current_term'[n] = m.term /\ role'[n] = "follower" /\ log' = log
        /\ \A p \in Server : p # n =>
             role'[p] = role[p] /\ current_term'[p] = current_term[p]
    BY <1>1, <1>2 DEF TypeOK
  <2> QED
    BY <1>1, <1>2, <1>3, <1>4, <2>1, <2>2 DEF Advances, IsAppend
<1> QED
  BY <1>5, <1>6, <1>7, <1>8, MessageFrame

(* Where a log is cut, and what is put there.                              *)
LEMMA CutType ==
  ASSUME TypeOK, NEW n \in Server, NEW m \in Message, m.type = "AppendEntries",
         NEW h \in 0 .. Len(m.entries)
  PROVE  CutAt(n, m, h) \in Nat \ {0} /\ NewEntries(m, h) \in Seq(Entry)
<1>1. m.prev_log_index \in Nat /\ m.entries \in Seq(Entry)
  BY MessageFields
<1>2. LastIndex(log[n]) \in Nat
  BY DEF TypeOK, LastIndex
<1>3. CutAt(n, m, h) \in Nat \ {0}
  BY <1>1, <1>2 DEF CutAt
<1>4. NewEntries(m, h) \in Seq(Entry)
  BY <1>1 DEF NewEntries
<1> QED
  BY <1>3, <1>4

(* The log that results reaches at least to the last entry delivered.      *)
LEMMA LogAfterTaking ==
  ASSUME TypeOK, NEW n \in Server, NEW m \in Message, m.type = "AppendEntries",
         Consistent(n, m), NEW h \in 0 .. Len(m.entries), Held(n, m, h)
  PROVE  LET lg == TruncateFrom(log[n], CutAt(n, m, h)) \o NewEntries(m, h)
         IN lg \in Seq(Entry) /\ Len(lg) >= LastNew(m)
<1>1. m.prev_log_index \in Nat /\ m.entries \in Seq(Entry) /\ log[n] \in Seq(Entry)
  BY MessageFields DEF TypeOK
<1>2. CutAt(n, m, h) \in Nat \ {0} /\ NewEntries(m, h) \in Seq(Entry)
  BY CutType
<1>3. /\ TruncateFrom(log[n], CutAt(n, m, h)) \in Seq(Entry)
      /\ Len(TruncateFrom(log[n], CutAt(n, m, h)))
           = IF CutAt(n, m, h) <= Len(log[n]) THEN CutAt(n, m, h) - 1 ELSE Len(log[n])
  BY <1>1, <1>2, TruncateType
<1>4. Len(NewEntries(m, h)) = Len(m.entries) - h
  BY <1>1 DEF NewEntries
<1>5. m.prev_log_index + h <= Len(log[n])
  <2>1. CASE h = 0
    BY <1>1, <2>1 DEF Consistent, HasEntry, LastIndex, SENTINEL_INDEX
  <2>2. CASE h # 0
    <3>1. Holds(n, m, h)
      BY <1>1, <2>2 DEF Held
    <3> QED
      BY <1>1, <3>1 DEF Holds, HasEntry, LastIndex, SENTINEL_INDEX
  <2> QED
    BY <2>1, <2>2
<1>6. CASE h = Len(m.entries)
  BY <1>1, <1>2, <1>3, <1>4, <1>5, <1>6 DEF CutAt, LastIndex, LastNew
<1>7. CASE h # Len(m.entries)
  <2>1. CutAt(n, m, h) = m.prev_log_index + h + 1
    BY <1>7 DEF CutAt
  <2>2. Len(TruncateFrom(log[n], CutAt(n, m, h))) = m.prev_log_index + h
    <3> DEFINE k == CutAt(n, m, h)
               L == Len(log[n])
               T == Len(TruncateFrom(log[n], k))
               e == m.prev_log_index + h
    <3>1. L \in Nat /\ e \in Nat /\ k = e + 1 /\ e <= L
      BY <1>1, <1>5, <2>1
    <3>2. T = IF k <= L THEN k - 1 ELSE L
      BY <1>3
    <3> HIDE DEF k, L, T, e
    <3>3. T = e
      BY <3>1, <3>2
    <3> QED
      BY <3>3 DEF k, L, T, e
  <2> QED
    BY <1>1, <1>2, <1>3, <1>4, <2>2 DEF LastNew
<1> QED
  BY <1>6, <1>7

(* Applying up to an index that the log has, or up to where it stands.     *)
LEMMA ApplyStep ==
  ASSUME TypeOK, AppliedCovers, NEW n \in Server, NEW lg \in Seq(Entry),
         NEW debts \in SUBSET Debt, NEW c \in Nat, c <= Len(lg) \/ c <= commit_index[n],
         ApplyCommitted(n, lg, debts, c)
  PROVE  /\ commit_index' \in [Server -> Nat]
         /\ applied' \in [Server -> Seq(Entry)]
         /\ pending_clients' \in [Server -> SUBSET Debt]
         /\ AppliedCovers'
         /\ \A x \in ReplyTo(n, Paid(n, debts, c)) : x \in Message /\ x.type = "ClientReply"
<1> DEFINE a == applied[n]
           more == SubSeq(lg, Len(a) + 1, c)
<1>1. a \in Seq(Entry) /\ Len(a) \in Nat /\ commit_index[n] <= Len(a)
      /\ commit_index[n] \in Nat
  BY DEF TypeOK, AppliedCovers
<1>2. more \in Seq(Entry) /\ Len(more) = IF Len(a) + 1 <= c THEN c - Len(a) ELSE 0
  <2>1. CASE Len(a) + 1 <= c
    <3>1. Len(a) + 1 \in 1 .. Len(lg) /\ c \in Len(a) + 1 .. Len(lg)
      BY <1>1, <2>1
    <3> HIDE DEF a
    <3> QED
      BY <1>1, <2>1, <3>1, SubSeqProperties
  <2>2. CASE ~(Len(a) + 1 <= c)
    <3>1. more = << >>
      <4> HIDE DEF a
      <4> QED
        BY <1>1, <2>2, SubSeqEmpty
    <3> QED
      BY <2>2, <3>1
  <2> QED
    BY <2>1, <2>2
<1> HIDE DEF a, more
<1>3. a \o more \in Seq(Entry) /\ Len(a \o more) >= c
  BY <1>1, <1>2
<1>4. /\ commit_index' = [commit_index EXCEPT ![n] = c]
      /\ applied' = [applied EXCEPT ![n] = a \o more]
      /\ pending_clients' = [pending_clients EXCEPT ![n] = debts \ Paid(n, debts, c)]
  BY DEF ApplyCommitted, a, more
<1>5. \A x \in ReplyTo(n, Paid(n, debts, c)) : x \in Message /\ x.type = "ClientReply"
  <2>1. \A d \in Paid(n, debts, c) : d.request_id \in Request
    BY DEF Paid, Debt
  <2> QED
    BY <2>1, ClientReplyType DEF ReplyTo, ClientReply
<1>6. /\ commit_index' \in [Server -> Nat]
      /\ applied' \in [Server -> Seq(Entry)]
      /\ pending_clients' \in [Server -> SUBSET Debt]
  BY <1>3, <1>4 DEF TypeOK
<1>7. AppliedCovers'
  BY <1>3, <1>4 DEF TypeOK, AppliedCovers
<1> QED
  BY <1>5, <1>6, <1>7

(* Taking entries keeps the invariant: the success reply tells the sender  *)
(* of m of no more than m delivered.                                       *)
LEMMA TakeEntriesStep ==
  ASSUME TInv, NEW n \in Server, NEW m \in msgs, TakeEntries(n, m)
  PROVE  TInv'
<1> USE DEF TInv
<1> DEFINE v == VoteAfter(n, m.term)
           c == CommitAfter(n, m)
           reply == AppendEntriesReply(n, m.from, m.term, TRUE, LastNew(m))
           paid == ReplyTo(n, Paid(n, pending_clients[n], c))
<1>1. /\ running[n] /\ m \in Message /\ m.type = "AppendEntries"
      /\ m.from \in Server /\ m.term \in Nat
      /\ m.prev_log_index \in Nat /\ m.entries \in Seq(Entry) /\ m.leader_commit \in Nat
      /\ TermAfter(n, m.term) = m.term /\ m.term >= current_term[n]
      /\ v \in Server \cup {Nil}
      /\ current_term' = [current_term EXCEPT ![n] = m.term]
      /\ voted_for' = [voted_for EXCEPT ![n] = v]
      /\ role' = [role EXCEPT ![n] = "follower"]
      /\ leader_id' = [leader_id EXCEPT ![n] = m.from]
      /\ votes_granted' = [votes_granted EXCEPT ![n] = {}]
      /\ heartbeat_timer' = [heartbeat_timer EXCEPT ![n] = FALSE]
      /\ election_timer' = [election_timer EXCEPT ![n] = TRUE]
  BY HearLeaderStep DEF TakeEntries
<1>2. PICK h \in 0 .. Len(m.entries) :
        /\ Held(n, m, h)
        /\ log' = [log EXCEPT ![n] = TruncateFrom(log[n], CutAt(n, m, h)) \o NewEntries(m, h)]
        /\ Persist(n, CutAt(n, m, h), NewEntries(m, h), m.term, v)
  BY <1>1 DEF TakeEntries
<1> DEFINE lg == TruncateFrom(log[n], CutAt(n, m, h)) \o NewEntries(m, h)
<1>3. lg \in Seq(Entry) /\ Len(lg) >= LastNew(m)
  BY <1>1, LogAfterTaking, <1>2 DEF TakeEntries
<1>4. log'[n] = lg
  BY <1>2 DEF TypeOK
<1>5. LastNew(m) \in Nat
  BY <1>1 DEF LastNew
<1>6. c \in Nat /\ (c <= Len(lg) \/ c <= commit_index[n])
  <2>1. commit_index[n] \in Nat
    BY DEF TypeOK
  <2>2. CASE m.leader_commit > commit_index[n]
    <3>1. c = Smaller(m.leader_commit, LastNew(m))
      BY <2>2 DEF CommitAfter, LastNew
    <3>2. c \in Nat /\ c <= LastNew(m)
      BY <1>1, <1>5, <3>1, LargerType
    <3>3. Len(lg) \in Nat
      BY <1>3
    <3> HIDE DEF lg, c
    <3> QED
      BY <1>3, <1>5, <3>2, <3>3
  <2>3. CASE ~(m.leader_commit > commit_index[n])
    BY <2>1, <2>3 DEF CommitAfter
  <2> QED
    BY <2>2, <2>3
<1>7. ApplyCommitted(n, lg, pending_clients[n], c)
  BY <1>4 DEF TakeEntries
<1>8. pending_clients[n] \in SUBSET Debt
  BY DEF TypeOK
<1> HIDE DEF c, lg
<1>9. /\ commit_index' \in [Server -> Nat]
      /\ applied' \in [Server -> Seq(Entry)]
      /\ pending_clients' \in [Server -> SUBSET Debt]
      /\ AppliedCovers'
      /\ \A x \in paid : x \in Message /\ x.type = "ClientReply"
  BY <1>3, <1>6, <1>7, <1>8, ApplyStep
<1>10. /\ msgs' = msgs \cup ({reply} \cup paid)
       /\ UNCHANGED <<running, next_index, match_index>>
  BY <1>1 DEF TakeEntries, Send, leaderVars, LastNew, c
<1>11. /\ reply \in Message /\ reply.type = "AppendEntriesReply" /\ reply.to = m.from
       /\ reply.term = m.term /\ reply.match_index = LastNew(m)
  BY <1>1, <1>5, AppendEntriesReplyType DEF AppendEntriesReply
<1> HIDE DEF reply, paid, v
<1>12. /\ disk' \in [Server -> HardState]
       /\ disk'[n] = [current_term |-> m.term, voted_for |-> v, log |-> lg]
       /\ \A p \in Server : p # n => disk'[p] = disk[p]
  <2>1. CutAt(n, m, h) \in Nat \ {0} /\ NewEntries(m, h) \in Seq(Entry)
    BY <1>1, CutType
  <2> QED
    BY <1>1, <1>2, <2>1, PersistWrites DEF lg
<1>13. log' = [log EXCEPT ![n] = lg]
  BY <1>2 DEF lg
<1>14. TypeOK'
  <2>1. /\ role' \in [Server -> Role] /\ leader_id' \in [Server -> Server \cup {Nil}]
        /\ votes_granted' \in [Server -> SUBSET Server]
        /\ current_term' \in [Server -> Nat] /\ voted_for' \in [Server -> Server \cup {Nil}]
        /\ election_timer' \in [Server -> BOOLEAN] /\ heartbeat_timer' \in [Server -> BOOLEAN]
    BY <1>1 DEF TypeOK, Role
  <2>2. msgs' \in SUBSET Message
    BY <1>9, <1>10, <1>11 DEF TypeOK
  <2>3. log' \in [Server -> Seq(Entry)]
    BY <1>3, <1>13 DEF TypeOK
  <2> QED
    BY <1>9, <1>10, <1>12, <2>1, <2>2, <2>3 DEF TypeOK
<1>15. MemoryIsDurable'
  BY <1>1, <1>10, <1>12, <1>13 DEF TypeOK, MemoryIsDurable
<1>16. DownIsFollower' /\ NextInRange'
  BY <1>1, <1>10, <1>13 DEF TypeOK, DownIsFollower, NextInRange
<1>17. Advances(n, {reply} \cup paid)
  <2>1. disk[n].current_term = current_term[n]
    BY <1>1, DiskAgrees
  <2>2. current_term[n] \in Nat /\ LastIndex(log'[n]) \in Nat
    BY <1>3, <1>4 DEF TypeOK, LastIndex
  <2>3. /\ current_term'[n] = m.term /\ role'[n] = "follower"
        /\ \A p \in Server : p # n =>
             role'[p] = role[p] /\ current_term'[p] = current_term[p] /\ log'[p] = log[p]
    BY <1>1, <1>13 DEF TypeOK
  <2>4. \A x \in {reply} \cup paid : ~IsAppend(x)
    BY <1>9, <1>11 DEF IsAppend
  <2>5. \A r \in {reply} \cup paid : r.type = "AppendEntriesReply" =>
          \E x \in msgs : /\ IsAppend(x) /\ x.from = r.to /\ x.term = r.term
                          /\ LastNew(x) = r.match_index
    BY <1>1, <1>9, <1>11 DEF IsAppend
  <2> QED
    BY <1>1, <1>10, <1>12, <2>1, <2>2, <2>3, <2>4, <2>5 DEF Advances
<1> QED
  BY <1>9, <1>14, <1>15, <1>16, <1>17, MessageFrame

(* A success reply to a leader tells it of no more than its log holds.     *)
LEMMA MatchInLog ==
  ASSUME TInv, NEW n \in Server, NEW m \in msgs, HearFollower(n, m), m.success
  PROVE  m.match_index \in Nat /\ m.match_index <= LastIndex(log[n])
<1>1. /\ m \in Message /\ m.type = "AppendEntriesReply" /\ m.to = n
      /\ m.term = current_term[n] /\ role[n] = "leader"
  BY DEF HearFollower, Receives, TInv, TypeOK
<1>2. m.match_index \in Nat
  BY <1>1, MessageFields
<1>3. PICK x \in msgs : /\ IsAppend(x) /\ x.from = n /\ x.term = current_term[n]
                        /\ LastNew(x) = m.match_index
  BY <1>1 DEF TInv, ReplyAnswers
<1>4. LastNew(x) <= LastIndex(log[n])
  BY <1>1, <1>3 DEF TInv, SentInRange
<1> QED
  BY <1>2, <1>3, <1>4

(* The index a leader advances to is in its log, or where it stood.        *)
LEMMA ReachType ==
  ASSUME TypeOK, NEW n \in Server, NEW lg \in Seq(Entry), NEW match,
         NEW c \in Reach(n, lg, match)
  PROVE  c \in Nat /\ (c <= Len(lg) \/ c <= commit_index[n])
<1>1. commit_index[n] \in Nat /\ Len(lg) \in Nat
  BY DEF TypeOK
<1> QED
  BY <1>1 DEF Reach, Committable, LastIndex

(* Counting a follower's success keeps the invariant.                      *)
LEMMA OnAppendSuccessStep ==
  ASSUME TInv, NEW n \in Server, NEW m \in msgs, OnAppendSuccess(n, m)
  PROVE  TInv'
<1> USE DEF TInv
<1> DEFINE match == MatchAfter(n, m)
<1>1. /\ running[n] /\ role[n] = "leader" /\ m.from \in Server
      /\ m.match_index \in Nat /\ m.match_index <= LastIndex(log[n])
  BY MatchInLog, MessageFields
     DEF OnAppendSuccess, HearFollower, Receives, TypeOK
<1>2. /\ LastIndex(log[n]) \in Nat /\ log[n] \in Seq(Entry)
      /\ match_index[n] \in [Server -> Nat] /\ next_index[n] \in [Server -> Nat]
  BY DEF TypeOK, LastIndex
<1>3. \A p \in Server : match_index[n][p] \in Nat
  BY <1>2
<1>4. match = [match_index[n] EXCEPT ![m.from] = Larger(match_index[n][m.from], m.match_index)]
  BY DEF MatchAfter
<1>5. match \in [Server -> Nat] /\ match[m.from] \in Nat
  <2>1. Larger(match_index[n][m.from], m.match_index) \in Nat
    BY <1>1, <1>3, LargerType
  <2> HIDE DEF match
  <2> QED
    BY <1>1, <1>2, <1>4, <2>1
<1>6. PICK c \in Reach(n, log[n], match) :
        /\ ApplyCommitted(n, log[n], pending_clients[n], c)
        /\ msgs' = msgs \cup ReplyTo(n, Paid(n, pending_clients[n], c))
  BY DEF OnAppendSuccess, Send
<1> HIDE DEF match
<1>7. c \in Nat /\ (c <= Len(log[n]) \/ c <= commit_index[n])
  BY <1>2, ReachType
<1> DEFINE paid == ReplyTo(n, Paid(n, pending_clients[n], c))
<1>8. /\ commit_index' \in [Server -> Nat]
      /\ applied' \in [Server -> Seq(Entry)]
      /\ pending_clients' \in [Server -> SUBSET Debt]
      /\ AppliedCovers'
      /\ \A x \in paid : x \in Message /\ x.type = "ClientReply"
  <2>1. pending_clients[n] \in SUBSET Debt
    BY DEF TypeOK
  <2> QED
    BY <1>2, <1>6, <1>7, <2>1, ApplyStep
<1>9. /\ match_index' = [match_index EXCEPT ![n] = match]
      /\ next_index' = [next_index EXCEPT ![n] =
                          [next_index[n] EXCEPT ![m.from] = match[m.from] + 1]]
      /\ UNCHANGED <<current_term, voted_for, log, disk, running, role, leader_id,
                     votes_granted, election_timer, heartbeat_timer>>
  BY DEF OnAppendSuccess, hardVars, timerVars, match
<1> HIDE DEF paid
<1>10. TypeOK'
  <2>1. msgs' \in SUBSET Message
    BY <1>6, <1>8 DEF TypeOK, paid
  <2>2. [next_index[n] EXCEPT ![m.from] = match[m.from] + 1] \in [Server -> Nat]
    <3>1. match[m.from] + 1 \in Nat
      BY <1>5
    <3> QED
      BY <1>2, <3>1
  <2>3. next_index' \in [Server -> [Server -> Nat]] /\ match_index' \in [Server -> [Server -> Nat]]
    BY <1>5, <1>9, <2>2 DEF TypeOK
  <2> QED
    BY <1>8, <1>9, <2>1, <2>3 DEF TypeOK
<1>11. MemoryIsDurable' /\ DownIsFollower'
  BY <1>9 DEF MemoryIsDurable, DownIsFollower
<1>12. NextInRange'
  <2> SUFFICES ASSUME NEW q \in Server, role'[q] = "leader", NEW p \in Server
               PROVE  /\ next_index'[q][p] \in 1 .. LastIndex(log'[q]) + 1
                      /\ match_index'[q][p] <= LastIndex(log'[q])
    BY DEF NextInRange
  <2>1. /\ next_index[q][p] \in 1 .. LastIndex(log[q]) + 1
        /\ match_index[q][p] <= LastIndex(log[q])
        /\ log' = log
    BY <1>9 DEF NextInRange
  <2>2. match[m.from] <= LastIndex(log[n])
    <3>1. match[m.from] = match_index[n][m.from] \/ match[m.from] = m.match_index
      BY <1>1, <1>2, <1>4 DEF Larger
    <3>2. match_index[n][m.from] <= LastIndex(log[n])
      BY <1>1 DEF NextInRange
    <3> QED
      BY <1>1, <3>1, <3>2
  <2>3. CASE q = n /\ p = m.from
    <3>1. next_index'[q][p] = match[m.from] + 1 /\ match_index'[q][p] = match[m.from]
      BY <1>1, <1>2, <1>9, <2>3 DEF TypeOK
    <3> QED
      BY <1>2, <1>5, <2>1, <2>2, <2>3, <3>1
  <2>4. CASE q = n /\ p # m.from
    <3>1. next_index'[q][p] = next_index[q][p]
      BY <1>2, <1>9, <2>4 DEF TypeOK
    <3>2. match_index'[q][p] = match_index[q][p]
      BY <1>2, <1>4, <1>9, <2>4 DEF TypeOK
    <3> QED
      BY <2>1, <3>1, <3>2
  <2>5. CASE q # n
    BY <1>9, <2>1, <2>5 DEF TypeOK
  <2> QED
    BY <2>3, <2>4, <2>5
<1>13. Advances(n, paid)
  <2>1. disk[n].current_term = current_term[n] /\ current_term[n] \in Nat
    <3>1. disk[n].current_term = current_term[n]
      BY <1>1, DiskAgrees
    <3> QED
      BY <3>1 DEF TypeOK
  <2> QED
    BY <1>1, <1>2, <1>6, <1>8, <1>9, <2>1 DEF Advances, IsAppend, paid
<1> QED
  BY <1>8, <1>10, <1>11, <1>12, <1>13, MessageFrame

(* Walking next_index back keeps the invariant.                            *)
LEMMA OnAppendFailureStep ==
  ASSUME TInv, NEW n \in Server, NEW m \in msgs, OnAppendFailure(n, m)
  PROVE  TInv'
<1> USE DEF TInv
<1> DEFINE next == NextAfterFailure(n, m.from)
           ae == AppendEntries(n, m.from, current_term[n], log[n], next, commit_index[n])
<1>1. running[n] /\ role[n] = "leader" /\ m.from \in Server
  BY MessageFields DEF OnAppendFailure, HearFollower, Receives, TypeOK
<1>2. /\ current_term[n] \in Nat /\ commit_index[n] \in Nat
      /\ log[n] \in Seq(Entry) /\ LastIndex(log[n]) = Len(log[n]) /\ Len(log[n]) \in Nat
      /\ next_index[n] \in [Server -> Nat]
  BY DEF TypeOK, LastIndex
<1>3. next \in 1 .. Len(log[n]) + 1
  <2>1. next_index[n][m.from] \in 1 .. Len(log[n]) + 1
    BY <1>1, <1>2 DEF NextInRange
  <2> QED
    BY <1>2, <2>1 DEF NextAfterFailure, Larger
<1> HIDE DEF next
<1>4. /\ ae \in Message /\ ae.type = "AppendEntries" /\ ae.from = n
      /\ ae.term = current_term[n] /\ LastNew(ae) = Len(log[n])
  <2>1. ae \in Message /\ LastNew(ae) = Len(log[n])
    BY <1>1, <1>2, <1>3, AppendEntriesType DEF LastNew
  <2> QED
    BY <2>1 DEF AppendEntries
<1>5. /\ msgs' = msgs \cup {ae}
      /\ next_index' = [next_index EXCEPT ![n] = [next_index[n] EXCEPT ![m.from] = next]]
      /\ UNCHANGED <<current_term, voted_for, log, disk, running, role, leader_id,
                     commit_index, applied, pending_clients, votes_granted, match_index,
                     election_timer, heartbeat_timer>>
  BY DEF OnAppendFailure, Send, hardVars, commitVars, timerVars, next
<1> HIDE DEF ae
<1>6. TypeOK'
  <2>1. [next_index[n] EXCEPT ![m.from] = next] \in [Server -> Nat]
    <3>1. next \in Nat
      BY <1>3
    <3> QED
      BY <1>2, <3>1
  <2>2. next_index' \in [Server -> [Server -> Nat]] /\ msgs' \in SUBSET Message
    BY <1>4, <1>5, <2>1 DEF TypeOK
  <2> QED
    BY <1>5, <2>2 DEF TypeOK
<1>7. MemoryIsDurable' /\ DownIsFollower' /\ AppliedCovers'
  BY <1>5 DEF MemoryIsDurable, DownIsFollower, AppliedCovers
<1>8. NextInRange'
  <2> SUFFICES ASSUME NEW q \in Server, role'[q] = "leader", NEW p \in Server
               PROVE  /\ next_index'[q][p] \in 1 .. LastIndex(log'[q]) + 1
                      /\ match_index'[q][p] <= LastIndex(log'[q])
    BY DEF NextInRange
  <2>1. /\ next_index[q][p] \in 1 .. LastIndex(log[q]) + 1
        /\ match_index[q][p] <= LastIndex(log[q])
        /\ log' = log /\ match_index' = match_index
    BY <1>5 DEF NextInRange
  <2>2. next_index'[q][p] = next_index[q][p] \/ (q = n /\ next_index'[q][p] = next)
    BY <1>1, <1>2, <1>5 DEF TypeOK
  <2> QED
    BY <1>2, <1>3, <2>1, <2>2
<1>9. Advances(n, {ae})
  <2>1. disk[n].current_term = current_term[n]
    BY <1>1, DiskAgrees
  <2> QED
    BY <1>1, <1>2, <1>4, <1>5, <2>1 DEF Advances, IsAppend
<1> QED
  BY <1>6, <1>7, <1>8, <1>9, MessageFrame

(* The AppendEntries that a leader with log lg sends to all its peers.     *)
LEMMA LeaderSends ==
  ASSUME TInv, NEW n \in Server, role[n] = "leader", NEW lg \in Seq(Entry),
         Len(lg) >= LastIndex(log[n])
  PROVE  \A x \in {AppendEntries(n, p, current_term[n], lg, next_index[n][p],
                                 commit_index[n]) : p \in Peers(n)} :
           /\ x \in Message /\ x.type = "AppendEntries" /\ x.from = n
           /\ x.term = current_term[n] /\ LastNew(x) = Len(lg)
<1> SUFFICES ASSUME NEW p \in Peers(n)
             PROVE  LET x == AppendEntries(n, p, current_term[n], lg, next_index[n][p],
                                           commit_index[n])
                    IN /\ x \in Message /\ x.type = "AppendEntries" /\ x.from = n
                       /\ x.term = current_term[n] /\ LastNew(x) = Len(lg)
  OBVIOUS
<1>1. /\ p \in Server /\ current_term[n] \in Nat /\ commit_index[n] \in Nat
      /\ LastIndex(log[n]) \in Nat
  BY DEF TInv, TypeOK, Peers, LastIndex
<1>2. next_index[n][p] \in 1 .. LastIndex(log[n]) + 1
  BY <1>1 DEF TInv, NextInRange
<1>3. next_index[n][p] \in 1 .. Len(lg) + 1
  BY <1>1, <1>2
<1> QED
  BY <1>1, <1>3, AppendEntriesType DEF AppendEntries, LastNew

(* A client's request: the log grows on the disk before it is replicated.  *)
LEMMA OnClientRequestStep ==
  ASSUME TInv, NEW n \in Server, NEW r \in Request, OnClientRequest(n, r)
  PROVE  TInv'
<1> USE DEF TInv
<1> DEFINE entry == [term |-> current_term[n], request_id |-> r]
           index == LastIndex(log[n]) + 1
           longer == Append(log[n], entry)
           debts == {d \in pending_clients[n] : d.index # index}
                      \cup {[index |-> index, request_id |-> r]}
           sent == {AppendEntries(n, p, current_term[n], longer, next_index[n][p],
                                  commit_index[n]) : p \in Peers(n)}
<1>1. PICK c \in Reach(n, longer, match_index[n]) :
        /\ ApplyCommitted(n, longer, debts, c)
        /\ msgs' = msgs \cup (sent \cup ReplyTo(n, Paid(n, debts, c)))
  BY DEF OnClientRequest, Send
<1> DEFINE paid == ReplyTo(n, Paid(n, debts, c))
<1>2. /\ running[n] /\ role[n] = "leader"
      /\ log' = [log EXCEPT ![n] = longer]
      /\ disk' = [disk EXCEPT ![n].log = Append(@, entry)]
      /\ UNCHANGED <<current_term, voted_for, running, role, leader_id, votes_granted,
                     next_index, match_index, election_timer, heartbeat_timer>>
  BY DEF OnClientRequest, leaderVars, timerVars
<1>3. /\ current_term[n] \in Nat /\ log[n] \in Seq(Entry) /\ LastIndex(log[n]) \in Nat
      /\ LastIndex(log[n]) = Len(log[n]) /\ index \in Nat /\ entry \in Entry
  <2>1. current_term[n] \in Nat /\ log[n] \in Seq(Entry)
    BY DEF TypeOK
  <2>2. LastIndex(log[n]) = Len(log[n]) /\ LastIndex(log[n]) \in Nat /\ index \in Nat
    BY <2>1 DEF LastIndex
  <2>3. entry \in Entry
    BY <2>1 DEF Entry
  <2> QED
    BY <2>1, <2>2, <2>3
<1>4. longer \in Seq(Entry) /\ Len(longer) = LastIndex(log[n]) + 1
  BY <1>3
<1>5. debts \in SUBSET Debt
  BY <1>3 DEF TypeOK, Debt
<1> HIDE DEF debts, entry, index
<1>6. \A x \in sent : /\ x \in Message /\ x.type = "AppendEntries" /\ x.from = n
                      /\ x.term = current_term[n] /\ LastNew(x) = Len(longer)
  <2> HIDE DEF longer
  <2>1. Len(longer) >= LastIndex(log[n])
    BY <1>3, <1>4
  <2> QED
    BY <1>2, <1>4, <2>1, LeaderSends
<1> HIDE DEF sent
<1>7. /\ commit_index' \in [Server -> Nat]
      /\ applied' \in [Server -> Seq(Entry)]
      /\ pending_clients' \in [Server -> SUBSET Debt]
      /\ AppliedCovers'
      /\ \A x \in paid : x \in Message /\ x.type = "ClientReply"
  <2> HIDE DEF longer
  <2>1. c \in Nat /\ (c <= Len(longer) \/ c <= commit_index[n])
    BY <1>4, ReachType
  <2> QED
    BY <1>1, <1>4, <1>5, <2>1, ApplyStep
<1> HIDE DEF paid
<1>8. /\ disk' \in [Server -> HardState]
      /\ disk'[n] = [disk[n] EXCEPT !.log = longer]
      /\ \A p \in Server : p # n => disk'[p] = disk[p]
      /\ disk[n].current_term = current_term[n]
      /\ disk'[n].current_term = current_term[n]
  <2>1. disk[n].current_term = current_term[n] /\ disk[n].log = log[n]
    BY <1>2, DiskAgrees
  <2>2. disk' = [disk EXCEPT ![n] = [disk[n] EXCEPT !.log = longer]]
    BY <1>2, <2>1
  <2> HIDE DEF longer
  <2>3. disk[n] \in HardState
    BY DEF TypeOK
  <2>4. /\ [disk[n] EXCEPT !.log = longer] \in HardState
        /\ [disk[n] EXCEPT !.log = longer].current_term = disk[n].current_term
    BY <1>4, <2>3 DEF HardState
  <2> QED
    BY <2>1, <2>2, <2>4 DEF TypeOK
<1> HIDE DEF longer
<1>9. TypeOK'
  <2>1. msgs' \in SUBSET Message
    BY <1>1, <1>6, <1>7 DEF TypeOK, paid
  <2>2. log' \in [Server -> Seq(Entry)]
    BY <1>2, <1>4 DEF TypeOK
  <2> QED
    BY <1>2, <1>7, <1>8, <2>1, <2>2 DEF TypeOK
<1>10. MemoryIsDurable'
  <2> SUFFICES ASSUME NEW q \in Server, running'[q]
               PROVE  disk'[q] = [current_term |-> current_term'[q],
                                  voted_for |-> voted_for'[q], log |-> log'[q]]
    BY DEF MemoryIsDurable
  <2>1. disk[q] = [current_term |-> current_term[q], voted_for |-> voted_for[q],
                   log |-> log[q]]
    BY <1>2 DEF MemoryIsDurable
  <2>2. CASE q = n
    <3>1. disk'[n] = [current_term |-> current_term[n], voted_for |-> voted_for[n],
                      log |-> longer]
      BY <1>8, <2>1, <2>2
    <3>2. log'[n] = longer /\ current_term' = current_term /\ voted_for' = voted_for
      BY <1>2 DEF TypeOK
    <3> QED
      BY <2>2, <3>1, <3>2
  <2>3. CASE q # n
    <3>1. log'[q] = log[q] /\ current_term' = current_term /\ voted_for' = voted_for
      BY <1>2, <2>3 DEF TypeOK
    <3> QED
      BY <1>8, <2>1, <2>3, <3>1
  <2> QED
    BY <2>2, <2>3
<1>11. DownIsFollower'
  BY <1>2 DEF DownIsFollower
<1>12. NextInRange'
  <2> SUFFICES ASSUME NEW q \in Server, role'[q] = "leader", NEW p \in Server
               PROVE  /\ next_index'[q][p] \in 1 .. LastIndex(log'[q]) + 1
                      /\ match_index'[q][p] <= LastIndex(log'[q])
    BY DEF NextInRange
  <2>1. /\ next_index[q][p] \in 1 .. LastIndex(log[q]) + 1
        /\ match_index[q][p] <= LastIndex(log[q])
        /\ match_index[q][p] \in Nat
    BY <1>2 DEF NextInRange, TypeOK
  <2>2. LastIndex(log[q]) \in Nat /\
        (LastIndex(log'[q]) = LastIndex(log[q]) \/ LastIndex(log'[q]) = LastIndex(log[q]) + 1)
    <3>1. CASE q = n
      BY <1>2, <1>3, <1>4, <3>1 DEF TypeOK, LastIndex
    <3>2. CASE q # n
      BY <1>2, <3>2 DEF TypeOK, LastIndex
    <3> QED
      BY <3>1, <3>2
  <2> QED
    BY <1>2, <2>1, <2>2
<1>13. Advances(n, sent \cup paid)
  <2>1. LastIndex(log'[n]) = Len(longer) /\ (\A p \in Server : p # n => log'[p] = log[p])
    BY <1>2 DEF TypeOK, LastIndex
  <2>2. \A x \in sent \cup paid : x.type \in {"AppendEntries", "ClientReply"}
    BY <1>6, <1>7
  <2>3. \A x \in sent \cup paid : IsAppend(x) => x \in sent
    BY <1>7 DEF IsAppend
  <2>4. msgs' = msgs \cup (sent \cup paid)
    BY <1>1 DEF paid
  <2>5. \A x \in sent : x.term = current_term'[n] /\ x.term <= disk'[n].current_term
                        /\ LastNew(x) <= LastIndex(log'[n]) /\ x.from = n
    BY <1>2, <1>3, <1>4, <1>6, <1>8, <2>1
  <2>6. \A r1 \in sent \cup paid : r1.type # "AppendEntriesReply"
    BY <2>2
  <2> QED
    BY <1>2, <1>3, <1>4, <1>8, <2>1, <2>3, <2>4, <2>5, <2>6 DEF Advances
<1> QED
  BY <1>7, <1>9, <1>10, <1>11, <1>12, <1>13, MessageFrame

(* A heartbeat, or the timer of one that no longer leads.                  *)
LEMMA FireHeartbeatStep ==
  ASSUME TInv, NEW n \in Server, FireHeartbeat(n)
  PROVE  TInv'
<1> USE DEF TInv
<1> DEFINE sent == {AppendEntries(n, p, current_term[n], log[n], next_index[n][p],
                                  commit_index[n]) : p \in Peers(n)}
<1>1. /\ running[n]
      /\ UNCHANGED <<current_term, voted_for, log, disk, running, role, leader_id,
                     commit_index, applied, pending_clients, votes_granted, next_index,
                     match_index, election_timer>>
  BY DEF FireHeartbeat, hardVars, commitVars, leaderVars
<1>2. \/ /\ role[n] = "leader" /\ msgs' = msgs \cup sent
         /\ heartbeat_timer' = heartbeat_timer
      \/ /\ msgs' = msgs /\ heartbeat_timer' = [heartbeat_timer EXCEPT ![n] = FALSE]
  BY DEF FireHeartbeat, Send
<1>3. /\ log[n] \in Seq(Entry) /\ LastIndex(log[n]) = Len(log[n]) /\ Len(log[n]) \in Nat
      /\ current_term[n] \in Nat
  BY DEF TypeOK, LastIndex
<1>4. role[n] = "leader" =>
        \A x \in sent : /\ x \in Message /\ x.type = "AppendEntries" /\ x.from = n
                        /\ x.term = current_term[n] /\ LastNew(x) = Len(log[n])
  <2>1. Len(log[n]) >= LastIndex(log[n])
    BY <1>3
  <2> QED
    BY <1>3, <2>1, LeaderSends
<1> HIDE DEF sent
<1>5. TypeOK'
  <2>1. msgs' \in SUBSET Message /\ heartbeat_timer' \in [Server -> BOOLEAN]
    BY <1>2, <1>4 DEF TypeOK
  <2> QED
    BY <1>1, <2>1 DEF TypeOK
<1>6. MemoryIsDurable' /\ DownIsFollower' /\ AppliedCovers' /\ NextInRange'
  BY <1>1 DEF MemoryIsDurable, DownIsFollower, AppliedCovers, NextInRange
<1>7. OwnTermsPast' /\ SentInRange' /\ ReplyAnswers'
  <2>1. CASE role[n] = "leader" /\ msgs' = msgs \cup sent
    <3>1. disk[n].current_term = current_term[n]
      BY <1>1, DiskAgrees
    <3>2. Advances(n, sent)
      BY <1>1, <1>3, <1>4, <2>1, <3>1 DEF Advances, IsAppend
    <3> QED
      BY <3>2, MessageFrame
  <2>2. CASE msgs' = msgs
    BY <1>1, <2>2 DEF OwnTermsPast, SentInRange, ReplyAnswers
  <2> QED
    BY <1>2, <2>1, <2>2
<1> QED
  BY <1>5, <1>6, <1>7

-----------------------------------------------------------------------------
(* Crashes, failed writes and restarts.                                    *)

(* A crash that leaves a disk no older than it was keeps the invariant.    *)
LEMMA DieStep ==
  ASSUME TInv, NEW n \in Server, NEW d \in HardState,
         d.current_term >= disk[n].current_term, Die(n, d)
  PROVE  TInv'
<1> USE DEF TInv
<1>1. /\ disk' = [disk EXCEPT ![n] = d]
      /\ running' = [running EXCEPT ![n] = FALSE]
      /\ current_term' = [current_term EXCEPT ![n] = 0]
      /\ voted_for' = [voted_for EXCEPT ![n] = Nil]
      /\ log' = [log EXCEPT ![n] = << >>]
      /\ role' = [role EXCEPT ![n] = "follower"]
      /\ leader_id' = [leader_id EXCEPT ![n] = Nil]
      /\ votes_granted' = [votes_granted EXCEPT ![n] = {}]
      /\ next_index' = [next_index EXCEPT ![n] = [p \in Server |-> 1]]
      /\ match_index' = [match_index EXCEPT ![n] = [p \in Server |-> 0]]
      /\ commit_index' = [commit_index EXCEPT ![n] = 0]
      /\ applied' = [applied EXCEPT ![n] = << >>]
      /\ pending_clients' = [pending_clients EXCEPT ![n] = {}]
      /\ election_timer' = [election_timer EXCEPT ![n] = FALSE]
      /\ heartbeat_timer' = [heartbeat_timer EXCEPT ![n] = FALSE]
      /\ msgs' = msgs
  BY DEF Die, SENTINEL_INDEX
<1>2. TypeOK'
  <2>1. /\ current_term' \in [Server -> Nat] /\ voted_for' \in [Server -> Server \cup {Nil}]
        /\ log' \in [Server -> Seq(Entry)] /\ disk' \in [Server -> HardState]
        /\ running' \in [Server -> BOOLEAN] /\ role' \in [Server -> Role]
        /\ leader_id' \in [Server -> Server \cup {Nil}]
    BY <1>1 DEF TypeOK, Role
  <2>2. /\ commit_index' \in [Server -> Nat] /\ applied' \in [Server -> Seq(Entry)]
        /\ votes_granted' \in [Server -> SUBSET Server]
        /\ pending_clients' \in [Server -> SUBSET Debt]
        /\ election_timer' \in [Server -> BOOLEAN] /\ heartbeat_timer' \in [Server -> BOOLEAN]
        /\ msgs' \in SUBSET Message
    BY <1>1 DEF TypeOK
  <2>3. [p \in Server |-> 1] \in [Server -> Nat] /\ [p \in Server |-> 0] \in [Server -> Nat]
    OBVIOUS
  <2>4. next_index' \in [Server -> [Server -> Nat]] /\ match_index' \in [Server -> [Server -> Nat]]
    BY <1>1, <2>3 DEF TypeOK
  <2> QED
    BY <2>1, <2>2, <2>4 DEF TypeOK
<1>3. MemoryIsDurable'
  <2> SUFFICES ASSUME NEW q \in Server, running'[q]
               PROVE  disk'[q] = [current_term |-> current_term'[q],
                                  voted_for |-> voted_for'[q], log |-> log'[q]]
    BY DEF MemoryIsDurable
  <2>1. q # n /\ running[q]
    BY <1>1 DEF TypeOK
  <2> QED
    BY <1>1, <2>1 DEF TypeOK, MemoryIsDurable
<1>4. DownIsFollower' /\ AppliedCovers' /\ NextInRange'
  <2>1. \A q \in Server : q # n =>
          /\ running'[q] = running[q] /\ role'[q] = role[q] /\ applied'[q] = applied[q]
          /\ commit_index'[q] = commit_index[q] /\ next_index'[q] = next_index[q]
          /\ match_index'[q] = match_index[q] /\ log'[q] = log[q]
    BY <1>1 DEF TypeOK
  <2>2. role'[n] = "follower" /\ commit_index'[n] = 0 /\ applied'[n] = << >>
    BY <1>1 DEF TypeOK
  <2> QED
    BY <2>1, <2>2 DEF DownIsFollower, AppliedCovers, NextInRange
<1>5. Advances(n, {})
  <2>1. /\ disk'[n] = d /\ current_term'[n] = 0 /\ role'[n] = "follower" /\ log'[n] = << >>
        /\ \A p \in Server : p # n =>
             /\ disk'[p] = disk[p] /\ role'[p] = role[p]
             /\ current_term'[p] = current_term[p] /\ log'[p] = log[p]
    BY <1>1 DEF TypeOK
  <2>2. d.current_term \in Nat
    BY DEF HardState
  <2> QED
    BY <1>1, <2>1, <2>2 DEF Advances, LastIndex
<1> QED
  BY <1>2, <1>3, <1>4, <1>5, MessageFrame

(* Any part of a handler's writes leaves a disk no older than it was.      *)
LEMMA TornType ==
  ASSUME TypeOK, NEW n \in Server, NEW cut \in Nat \ {0}, NEW new \in Seq(Entry),
         NEW t \in Nat, NEW v \in Server \cup {Nil}, t >= disk[n].current_term,
         NEW d \in Torn(n, cut, new, t, v)
  PROVE  d \in HardState /\ d.current_term >= disk[n].current_term
<1>1. disk[n] \in HardState /\ disk[n].log \in Seq(Entry) /\ disk[n].current_term \in Nat
  BY DEF TypeOK, HardState
<1>2. TruncateFrom(disk[n].log, cut) \in Seq(Entry)
  BY <1>1, TruncateType
<1>3. CASE d = disk[n]
  BY <1>1, <1>3
<1>4. CASE d = Written(n, cut, new, t, v)
  <2>1. TruncateFrom(disk[n].log, cut) \o new \in Seq(Entry)
    BY <1>2
  <2> QED
    BY <1>4, <2>1 DEF Written, AfterWrite, HardState
<1>5. ASSUME NEW k \in 0 .. Len(new),
             d = [disk[n] EXCEPT !.log = TruncateFrom(@, cut) \o SubSeq(new, 1, k)]
      PROVE  d \in HardState /\ d.current_term >= disk[n].current_term
  <2>1. SubSeq(new, 1, k) \in Seq(Entry)
    BY SubSeqProperties
  <2>2. TruncateFrom(disk[n].log, cut) \o SubSeq(new, 1, k) \in Seq(Entry)
    BY <1>2, <2>1
  <2> DEFINE lg == TruncateFrom(disk[n].log, cut) \o SubSeq(new, 1, k)
  <2>3. d = [disk[n] EXCEPT !.log = lg]
    BY <1>5
  <2> HIDE DEF lg
  <2>4. lg \in Seq(Entry)
    BY <2>2 DEF lg
  <2>5. d = [current_term |-> disk[n].current_term, voted_for |-> disk[n].voted_for,
             log |-> lg]
    BY <1>1, <2>3 DEF HardState
  <2>6. disk[n].current_term \in Nat /\ disk[n].voted_for \in Server \cup {Nil}
    BY <1>1 DEF HardState
  <2>7. d \in HardState
    BY <2>4, <2>5, <2>6 DEF HardState
  <2>8. d.current_term = disk[n].current_term
    BY <2>5
  <2> QED
    BY <1>1, <2>7, <2>8
<1> QED
  BY <1>3, <1>4, <1>5 DEF Torn, AfterTear, Written

(* A write that fails while a message is handled.                          *)
LEMMA DiskErrorOnMessageStep ==
  ASSUME TInv, NEW n \in Server, NEW m \in msgs, DiskErrorOnMessage(n, m)
  PROVE  TInv'
<1>1. PICK d \in TornBy(n, m) : Die(n, d)
  BY DEF DiskErrorOnMessage
<1>2. /\ TypeOK /\ running[n] /\ m \in Message /\ m.type # "ClientReply"
  BY <1>1 DEF DiskErrorOnMessage, Die, TInv, TypeOK
<1>3. m.from \in Server /\ m.term \in Nat
  BY <1>2, MessageFields
<1>4. disk[n].current_term = current_term[n]
  BY <1>2, DiskAgrees DEF TInv
<1>5. /\ TermAfter(n, m.term) \in Nat /\ TermAfter(n, m.term) >= disk[n].current_term
      /\ VoteAfter(n, m.term) \in Server \cup {Nil}
      /\ VoteOn(n, m) \in Server \cup {Nil}
  BY <1>2, <1>3, <1>4, AfterType DEF VoteOn
<1>6. /\ LastIndex(log[n]) + 1 \in Nat \ {0} /\ << >> \in Seq(Entry)
  BY <1>2 DEF TypeOK, LastIndex
<1>7. d \in HardState /\ d.current_term >= disk[n].current_term
  <2>1. CASE m.type = "RequestVote"
    <3>1. d \in Torn(n, LastIndex(log[n]) + 1, << >>, TermAfter(n, m.term), VoteOn(n, m))
      BY <1>1, <2>1 DEF TornBy
    <3> QED
      BY <1>2, <1>5, <1>6, <3>1, TornType
  <2>2. CASE m.type = "AppendEntries" /\ m.term >= current_term[n] /\ Consistent(n, m)
    <3>1. PICK h \in 0 .. Len(m.entries) :
            d \in Torn(n, CutAt(n, m, h), NewEntries(m, h),
                       TermAfter(n, m.term), VoteAfter(n, m.term))
      BY <1>1, <2>2 DEF TornBy
    <3>2. CutAt(n, m, h) \in Nat \ {0} /\ NewEntries(m, h) \in Seq(Entry)
      BY <1>2, <2>2, CutType
    <3> QED
      BY <1>2, <1>5, <3>1, <3>2, TornType
  <2>3. CASE \/ m.type = "AppendEntries" /\ m.term >= current_term[n] /\ ~Consistent(n, m)
             \/ m.type = "RequestVoteReply" /\ m.term > current_term[n]
             \/ m.type = "AppendEntriesReply" /\ m.term > current_term[n]
    <3>1. d \in Torn(n, LastIndex(log[n]) + 1, << >>, TermAfter(n, m.term),
                     VoteAfter(n, m.term))
      BY <1>1, <2>3 DEF TornBy
    <3> QED
      BY <1>2, <1>5, <1>6, <3>1, TornType
  <2>4. CASE /\ m.type # "RequestVote"
             /\ ~(m.type = "AppendEntries" /\ m.term >= current_term[n])
             /\ ~(m.type = "RequestVoteReply" /\ m.term > current_term[n])
             /\ ~(m.type = "AppendEntriesReply" /\ m.term > current_term[n])
    BY <1>1, <2>4 DEF TornBy
  <2> QED
    BY <2>1, <2>2, <2>3, <2>4
<1> QED
  BY <1>1, <1>7, DieStep

(* A write that fails on an election timeout or a client's request.        *)
LEMMA DiskErrorStep ==
  ASSUME TInv, NEW n \in Server,
         DiskErrorOnTimeout(n) \/ \E r \in Request : DiskErrorOnRequest(n, r)
  PROVE  TInv'
<1>1. /\ TypeOK /\ current_term[n] \in Nat /\ voted_for[n] \in Server \cup {Nil}
      /\ LastIndex(log[n]) + 1 \in Nat \ {0} /\ << >> \in Seq(Entry)
  BY DEF TInv, TypeOK, LastIndex
<1>2. running[n]
  BY DEF DiskErrorOnTimeout, DiskErrorOnRequest, Die
<1>3. disk[n].current_term = current_term[n]
  BY <1>2, DiskAgrees DEF TInv
<1>4. CASE DiskErrorOnTimeout(n)
  <2>1. PICK d \in Torn(n, LastIndex(log[n]) + 1, << >>, current_term[n] + 1, n) : Die(n, d)
    BY <1>4 DEF DiskErrorOnTimeout
  <2>2. current_term[n] + 1 \in Nat /\ current_term[n] + 1 >= disk[n].current_term
    BY <1>1, <1>3
  <2>3. d \in HardState /\ d.current_term >= disk[n].current_term
    BY <1>1, <2>1, <2>2, TornType
  <2> QED
    BY <2>1, <2>3, DieStep
<1>5. ASSUME NEW r \in Request, DiskErrorOnRequest(n, r)
      PROVE  TInv'
  <2> DEFINE new == <<[term |-> current_term[n], request_id |-> r]>>
  <2>1. new \in Seq(Entry)
    BY <1>1 DEF Entry
  <2>2. PICK d \in Torn(n, LastIndex(log[n]) + 1, new, current_term[n], voted_for[n]) :
          Die(n, d)
    BY <1>5 DEF DiskErrorOnRequest
  <2> HIDE DEF new
  <2>3. current_term[n] >= disk[n].current_term
    BY <1>1, <1>3
  <2>4. d \in HardState /\ d.current_term >= disk[n].current_term
    BY <1>1, <2>1, <2>2, <2>3, TornType
  <2> QED
    BY <2>2, <2>4, DieStep
<1> QED
  BY <1>4, <1>5

(* Coming back from the disk.                                              *)
LEMMA RestartStep ==
  ASSUME TInv, NEW n \in Server, Restart(n)
  PROVE  TInv'
<1> USE DEF TInv
<1>1. /\ current_term' = [current_term EXCEPT ![n] = disk[n].current_term]
      /\ voted_for' = [voted_for EXCEPT ![n] = disk[n].voted_for]
      /\ log' = [log EXCEPT ![n] = disk[n].log]
      /\ running' = [running EXCEPT ![n] = TRUE]
      /\ election_timer' = [election_timer EXCEPT ![n] = TRUE]
      /\ UNCHANGED <<disk, role, leader_id, commit_index, applied, pending_clients,
                     votes_granted, next_index, match_index, heartbeat_timer, msgs>>
  BY DEF Restart, commitVars, leaderVars
<1>2. disk[n] \in HardState
  BY DEF TypeOK
<1>3. /\ disk[n].current_term \in Nat /\ disk[n].voted_for \in Server \cup {Nil}
      /\ disk[n].log \in Seq(Entry)
      /\ disk[n] = [current_term |-> disk[n].current_term, voted_for |-> disk[n].voted_for,
                    log |-> disk[n].log]
  BY <1>2 DEF HardState
<1>4. TypeOK'
  BY <1>1, <1>3 DEF TypeOK
<1>5. MemoryIsDurable'
  <2> SUFFICES ASSUME NEW q \in Server, running'[q]
               PROVE  disk'[q] = [current_term |-> current_term'[q],
                                  voted_for |-> voted_for'[q], log |-> log'[q]]
    BY DEF MemoryIsDurable
  <2>1. CASE q = n
    BY <1>1, <1>3, <2>1 DEF TypeOK
  <2>2. CASE q # n
    BY <1>1, <2>2 DEF TypeOK, MemoryIsDurable
  <2> QED
    BY <2>1, <2>2
<1>6. DownIsFollower' /\ AppliedCovers'
  BY <1>1 DEF TypeOK, DownIsFollower, AppliedCovers
<1>7. role[n] # "follower" =>
        /\ disk[n].current_term = current_term[n] /\ disk[n].log = log[n]
  <2>1. role[n] # "follower" => running[n]
    BY DEF DownIsFollower
  <2> QED
    BY <2>1, DiskAgrees
<1>8. NextInRange'
  <2>1. \A q \in Server : role[q] = "leader" => log'[q] = log[q]
    BY <1>1, <1>7 DEF TypeOK
  <2> QED
    BY <1>1, <2>1 DEF NextInRange
<1>9. Advances(n, {})
  <2>1. /\ current_term'[n] = disk[n].current_term /\ log'[n] = disk[n].log
        /\ \A p \in Server : p # n => current_term'[p] = current_term[p] /\ log'[p] = log[p]
    BY <1>1 DEF TypeOK
  <2>2. LastIndex(log'[n]) \in Nat
    BY <1>3, <2>1 DEF LastIndex
  <2>3. msgs' = msgs \cup {}
    BY <1>1
  <2> QED
    BY <1>1, <1>3, <1>7, <2>1, <2>2, <2>3 DEF Advances
<1> QED
  BY <1>4, <1>5, <1>6, <1>8, <1>9, MessageFrame

-----------------------------------------------------------------------------
(* Every step keeps the invariant.                                         *)
LEMMA TInvStep == TInv /\ [Next]_vars => TInv'
<1> SUFFICES ASSUME TInv, [Next]_vars PROVE TInv'
  OBVIOUS
<1>1. CASE UNCHANGED vars
  BY <1>1 DEF vars, TInv, TypeOK, MemoryIsDurable, DownIsFollower, AppliedCovers,
              NextInRange, OwnTermsPast, SentInRange, ReplyAnswers
<1>2. CASE Next
  <2>1. PICK n \in Server :
          \/ \E m \in msgs : OnMessage(n, m)
          \/ \E r \in Request : OnClientRequest(n, r) \/ DiskErrorOnRequest(n, r)
          \/ ElectionTimeout(n)
          \/ FireHeartbeat(n)
          \/ DiskErrorOnTimeout(n)
          \/ Crash(n)
          \/ Restart(n)
    BY <1>2 DEF Next, Step, OnRequest
  <2>2. ASSUME NEW m \in msgs, OnMessage(n, m)
        PROVE  TInv'
    <3>1. m.type # "ClientReply" => m.term \in Nat
      BY MessageFields DEF TInv, TypeOK
    <3>2. CASE OnRequestVote(n, m)
      BY <3>2, OnRequestVoteStep
    <3>3. CASE CountVote(n, m)
      BY <3>3, CountVoteStep
    <3>4. CASE WinElection(n, m)
      BY <3>4, WinElectionStep
    <3>5. CASE VoteReplyFromNewerTerm(n, m) \/ AppendReplyFromNewerTerm(n, m)
      <4>1. running[n] /\ m.term > current_term[n] /\ StepDown(n, m.term)
            /\ m.type # "ClientReply"
        BY <3>5 DEF VoteReplyFromNewerTerm, AppendReplyFromNewerTerm, Receives
      <4> QED
        BY <3>1, <4>1, StepDownStep
    <3>6. CASE RefuseStaleLeader(n, m)
      BY <3>6, RefuseStaleLeaderStep
    <3>7. CASE RefuseGap(n, m)
      BY <3>7, RefuseGapStep
    <3>8. CASE TakeEntries(n, m)
      BY <3>8, TakeEntriesStep
    <3>9. CASE OnAppendSuccess(n, m)
      BY <3>9, OnAppendSuccessStep
    <3>10. CASE OnAppendFailure(n, m)
      BY <3>10, OnAppendFailureStep
    <3>11. CASE DiskErrorOnMessage(n, m)
      BY <3>11, DiskErrorOnMessageStep
    <3> QED
      BY <2>2, <3>2, <3>3, <3>4, <3>5, <3>6, <3>7, <3>8, <3>9, <3>10, <3>11 DEF OnMessage
  <2>3. ASSUME NEW r \in Request, OnClientRequest(n, r)
        PROVE  TInv'
    BY <2>3, OnClientRequestStep
  <2>4. CASE ElectionTimeout(n) /\ IsMajority({n})
    BY <2>4, ElectOneselfStep DEF ElectionTimeout
  <2>5. CASE ElectionTimeout(n) /\ ~IsMajority({n})
    BY <2>5, AskForVotesStep DEF ElectionTimeout
  <2>6. CASE FireHeartbeat(n)
    BY <2>6, FireHeartbeatStep
  <2>7. CASE DiskErrorOnTimeout(n) \/ \E r \in Request : DiskErrorOnRequest(n, r)
    BY <2>7, DiskErrorStep
  <2>8. CASE Crash(n)
    <3>1. disk[n] \in HardState /\ disk[n].current_term >= disk[n].current_term
      BY DEF TInv, TypeOK, HardState
    <3> QED
      BY <2>8, <3>1, DieStep DEF Crash
  <2>9. CASE Restart(n)
    BY <2>9, RestartStep
  <2> QED
    BY <2>1, <2>2, <2>3, <2>4, <2>5, <2>6, <2>7, <2>8, <2>9
<1> QED
  BY <1>1, <1>2

(* The invariant holds in every behaviour.                                 *)
LEMMA TInvHolds == Spec => []TInv
  BY TInvInit, TInvStep, PTL DEF Spec

(* Every variable, and every message sent, keeps its type.                 *)
THEOREM TypeCorrect == Spec => []TypeOK
<1>1. TInv => TypeOK
  BY DEF TInv
<1> QED
  BY <1>1, TInvHolds, PTL

(* Between events a running server's memory is what its disk would give    *)
(* back, so that a crash of the process alone loses no promise.            *)
THEOREM MemoryDurable == Spec => []MemoryIsDurable
<1>1. TInv => MemoryIsDurable
  BY DEF TInv
<1> QED
  BY <1>1, TInvHolds, PTL

(* A leader never asks its log for a term it has not got.                  *)
THEOREM NextIndexSafe == Spec => []NextIndexInRange
<1>1. TInv => NextIndexInRange
  BY DEF TInv, NextInRange, NextIndexInRange, Peers
<1> QED
  BY <1>1, TInvHolds, PTL

-----------------------------------------------------------------------------
(* Elections: at most one leader in a term, one vote per server and term,  *)
(* hard state that never goes back, and nobody without an election timer   *)
(* but a leader that was deposed.                                          *)

(* m is a vote of m.from for m.to in m.term.                               *)
IsVote(m) == m.type = "RequestVoteReply" /\ m.vote_granted

(* m shows that m.from stood in m.term.                                    *)
IsStand(m) == m.type \in {"RequestVote", "AppendEntries"}

Voted(v, c, t) == \E m \in msgs : IsVote(m) /\ m.from = v /\ m.to = c /\ m.term = t

(* A vote of v for c in term t is on v's disk, or v has seen a newer term. *)
Kept(v, t, c) ==
  \/ disk[v].current_term > t
  \/ disk[v].current_term = t /\ disk[v].voted_for = c

NotToSelf ==
  \A m \in msgs : m.type \in {"RequestVote", "RequestVoteReply"} => m.to # m.from

VotesOnDisk == \A m \in msgs : IsVote(m) => Kept(m.from, m.term, m.to)

StandsOnDisk == \A m \in msgs : IsStand(m) => Kept(m.from, m.term, m.from)

VotesForSelf == \A n \in Server : role[n] # "follower" => voted_for[n] = n

OneVote ==
  \A m1, m2 \in msgs :
    IsVote(m1) /\ IsVote(m2) /\ m1.from = m2.from /\ m1.term = m2.term => m1.to = m2.to

VotedOrStood ==
  \A m1, m2 \in msgs :
    IsVote(m1) /\ IsStand(m2) /\ m1.from = m2.from => m1.term # m2.term

VotesBacked ==
  \A n \in Server : role[n] # "follower" =>
    \A v \in votes_granted[n] : v = n \/ Voted(v, n, current_term[n])

LeaderHasMajority ==
  \A n \in Server : role[n] = "leader" => IsMajority(votes_granted[n])

Elected(c, t) ==
  \E Q \in SUBSET Server : IsMajority(Q) /\ \A v \in Q : v = c \/ Voted(v, c, t)

SendersElected == \A m \in msgs : IsAppend(m) => Elected(m.from, m.term)

EInv ==
  /\ NotToSelf
  /\ VotesOnDisk
  /\ StandsOnDisk
  /\ VotesForSelf
  /\ OneVote
  /\ VotedOrStood
  /\ VotesBacked
  /\ LeaderHasMajority
  /\ SendersElected

-----------------------------------------------------------------------------
(* What a step of n that sends new may do to a vote: the hard state of the *)
(* disk only moves on, n is no follower only in a term in which its disk   *)
(* holds its own vote, and it sends a vote only once that vote is on disk. *)
MovesOn(n) ==
  /\ disk'[n].current_term \in Nat
  /\ disk[n].current_term <= disk'[n].current_term
  /\ disk[n].current_term = disk'[n].current_term =>
       disk[n].voted_for \in {Nil, disk'[n].voted_for}

StandsRightly(n) ==
  role'[n] # "follower" =>
    /\ disk'[n].current_term = current_term'[n]
    /\ disk'[n].voted_for = n
    /\ voted_for'[n] = n
    /\ \A v \in votes_granted'[n] : v = n \/ Voted(v, n, current_term'[n])
    /\ role'[n] = "leader" => IsMajority(votes_granted'[n])

SendsRightly(n, x) ==
  /\ x.type \in {"RequestVote", "RequestVoteReply"} => x.to # x.from
  /\ IsVote(x) => /\ x.from = n
                  /\ x.term = disk'[n].current_term
                  /\ x.to = disk'[n].voted_for
  /\ IsStand(x) => x.from = n /\ x.term = current_term'[n] /\ role'[n] # "follower"
  /\ IsAppend(x) => role'[n] = "leader"

OthersVote(n) ==
  \A p \in Server : p # n =>
    /\ disk'[p] = disk[p]
    /\ role'[p] = role[p]
    /\ current_term'[p] = current_term[p]
    /\ voted_for'[p] = voted_for[p]
    /\ votes_granted'[p] = votes_granted[p]

Elects(n, new) ==
  /\ msgs' = msgs \cup new
  /\ OthersVote(n)
  /\ MovesOn(n)
  /\ StandsRightly(n)
  /\ \A x \in new : SendsRightly(n, x)

(* A vote that is on a disk stays kept when the disk moves on.             *)
LEMMA KeptStays ==
  ASSUME TypeOK, NEW n \in Server, OthersVote(n), MovesOn(n),
         NEW v \in Server, NEW c \in Server, NEW t \in Nat, Kept(v, t, c)
  PROVE  Kept(v, t, c)'
<1>1. disk[v].current_term \in Nat /\ c # Nil
  BY NilAssumption DEF TypeOK, HardState
<1>2. CASE v = n
  BY <1>1, <1>2 DEF Kept, MovesOn
<1>3. CASE v # n
  BY <1>3 DEF Kept, OthersVote
<1> QED
  BY <1>2, <1>3

(* A step of this form keeps the invariant.                                *)
LEMMA ElectsKeeps ==
  ASSUME TypeOK, TypeOK', EInv, NEW n \in Server, NEW new, Elects(n, new)
  PROVE  EInv'
<1> USE DEF EInv
<1>1. /\ msgs' = msgs \cup new /\ OthersVote(n) /\ MovesOn(n) /\ StandsRightly(n)
      /\ \A x \in new : SendsRightly(n, x)
  BY DEF Elects
<1>2. \A m \in msgs' : /\ m.from \in Server
                       /\ m.type # "ClientReply" => m.to \in Server /\ m.term \in Nat
  <2>1. \A m \in msgs' : m \in Message
    BY DEF TypeOK
  <2> QED
    BY <2>1, MessageFields
<1>3. NotToSelf'
  BY <1>1 DEF NotToSelf, SendsRightly
<1>4. VotesOnDisk'
  <2> SUFFICES ASSUME NEW m \in msgs', IsVote(m)
               PROVE  Kept(m.from, m.term, m.to)'
    BY DEF VotesOnDisk, IsVote
  <2>1. m.from \in Server /\ m.to \in Server /\ m.term \in Nat
    BY <1>2 DEF IsVote
  <2>2. CASE m \in msgs
    BY <1>1, <2>1, <2>2, KeptStays DEF VotesOnDisk
  <2>3. CASE m \in new
    BY <1>1, <2>3 DEF SendsRightly, Kept
  <2> QED
    BY <1>1, <2>2, <2>3
<1>5. StandsOnDisk'
  <2> SUFFICES ASSUME NEW m \in msgs', IsStand(m)
               PROVE  Kept(m.from, m.term, m.from)'
    BY DEF StandsOnDisk, IsStand
  <2>1. m.from \in Server /\ m.term \in Nat
    BY <1>2 DEF IsStand
  <2>2. CASE m \in msgs
    BY <1>1, <2>1, <2>2, KeptStays DEF StandsOnDisk
  <2>3. CASE m \in new
    BY <1>1, <2>3 DEF SendsRightly, StandsRightly, Kept
  <2> QED
    BY <1>1, <2>2, <2>3
<1>6. VotesForSelf'
  BY <1>1 DEF VotesForSelf, StandsRightly, OthersVote
<1>7. \A m \in msgs' : IsVote(m) /\ m \in new =>
        /\ m.from = n /\ m.term = disk'[n].current_term /\ m.to = disk'[n].voted_for
        /\ m.term \in Nat
  BY <1>1, <1>2 DEF SendsRightly, IsVote
<1>8. \A m \in msgs' : IsStand(m) /\ m \in new =>
        /\ m.from = n /\ m.term = disk'[n].current_term /\ disk'[n].voted_for = n
        /\ m.term \in Nat
  BY <1>1, <1>2 DEF SendsRightly, StandsRightly, IsStand
<1>9. \A m \in msgs' : IsVote(m) /\ m.from = n /\ m.term = disk'[n].current_term =>
        m.to = disk'[n].voted_for
  BY <1>4, <1>1 DEF VotesOnDisk, Kept, IsVote, MovesOn
<1>10. \A m \in msgs' : IsStand(m) /\ m.from = n /\ m.term = disk'[n].current_term =>
        n = disk'[n].voted_for
  BY <1>5, <1>1 DEF StandsOnDisk, Kept, IsStand, MovesOn
<1>11. OneVote'
  <2> SUFFICES ASSUME NEW m1 \in msgs', NEW m2 \in msgs', IsVote(m1), IsVote(m2),
                      m1.from = m2.from, m1.term = m2.term
               PROVE  m1.to = m2.to
    BY DEF OneVote, IsVote
  <2>1. CASE m1 \in msgs /\ m2 \in msgs
    BY <2>1 DEF OneVote
  <2>2. CASE m1 \in new \/ m2 \in new
    BY <2>2, <1>7, <1>9
  <2> QED
    BY <1>1, <2>1, <2>2
<1>12. VotedOrStood'
  <2> SUFFICES ASSUME NEW m1 \in msgs', NEW m2 \in msgs', IsVote(m1), IsStand(m2),
                      m1.from = m2.from, m1.term = m2.term
               PROVE  FALSE
    BY DEF VotedOrStood, IsVote, IsStand
  <2>1. m1.to # m1.from
    BY <1>3 DEF NotToSelf, IsVote
  <2>2. CASE m1 \in msgs /\ m2 \in msgs
    BY <2>2 DEF VotedOrStood
  <2>3. CASE m1 \in new
    BY <2>1, <2>3, <1>7, <1>10
  <2>4. CASE m2 \in new
    BY <2>1, <2>4, <1>8, <1>9
  <2> QED
    BY <1>1, <2>2, <2>3, <2>4
<1>13. \A v, c, t : Voted(v, c, t) => Voted(v, c, t)'
  BY <1>1 DEF Voted, IsVote
<1>14. VotesBacked'
  <2> SUFFICES ASSUME NEW p \in Server, role'[p] # "follower", NEW v \in votes_granted'[p],
                      NEW t, t = current_term'[p]
               PROVE  v = p \/ Voted(v, p, t)'
    BY DEF VotesBacked
  <2>1. v = p \/ Voted(v, p, t)
    BY <1>1 DEF VotesBacked, StandsRightly, OthersVote
  <2> QED
    BY <2>1, <1>1 DEF Voted, IsVote
<1>15. LeaderHasMajority'
  <2> SUFFICES ASSUME NEW p \in Server, role'[p] = "leader"
               PROVE  IsMajority(votes_granted'[p])
    BY DEF LeaderHasMajority, IsMajority
  <2> QED
    BY <1>1 DEF LeaderHasMajority, StandsRightly, OthersVote
<1>16. SendersElected'
  <2> SUFFICES ASSUME NEW m \in msgs', IsAppend(m)
               PROVE  Elected(m.from, m.term)'
    BY DEF SendersElected, IsAppend
  <2>1. CASE m \in msgs
    <3>1. PICK Q \in SUBSET Server :
            IsMajority(Q) /\ \A v \in Q : v = m.from \/ Voted(v, m.from, m.term)
      BY <2>1 DEF SendersElected, Elected
    <3>2. \A v \in Q : v = m.from \/ Voted(v, m.from, m.term)'
      BY <3>1, <1>1 DEF Voted, IsVote
    <3> QED
      BY <3>1, <3>2 DEF Elected, IsMajority
  <2>2. CASE m \in new
    <3>1. m.from = n /\ m.term = current_term'[n] /\ role'[n] = "leader"
      BY <1>1, <2>2 DEF SendsRightly, IsStand, IsAppend
    <3>2. /\ IsMajority(votes_granted'[n])
          /\ \A v \in votes_granted'[n] : v = n \/ Voted(v, n, current_term'[n])
      BY <1>1, <3>1 DEF StandsRightly
    <3>3. \A v \in votes_granted'[n] : v = n \/ Voted(v, n, m.term)'
      BY <3>1, <3>2, <1>1 DEF Voted, IsVote
    <3>4. votes_granted'[n] \in SUBSET Server
      BY DEF TypeOK
    <3> QED
      BY <3>1, <3>2, <3>3, <3>4 DEF Elected, IsMajority
  <2> QED
    BY <1>1, <2>1, <2>2
<1> QED
  BY <1>3, <1>4, <1>5, <1>6, <1>11, <1>12, <1>14, <1>15, <1>16

-----------------------------------------------------------------------------
(* The actions are steps of this form.                                     *)

(* Writing the term and the vote that a handler leaves moves the disk on.  *)
LEMMA WritingMovesOn ==
  ASSUME TInv, NEW n \in Server, running[n], NEW t \in Nat,
         disk'[n].current_term = TermAfter(n, t),
         VoteAfter(n, t) \in {Nil, disk'[n].voted_for}
  PROVE  MovesOn(n)
<1>1. disk[n].current_term = current_term[n] /\ disk[n].voted_for = voted_for[n]
  BY DiskAgrees DEF TInv
<1>2. current_term[n] \in Nat
  BY DEF TInv, TypeOK
<1> QED
  BY <1>1, <1>2 DEF MovesOn, TermAfter, VoteAfter, Larger

(* So is a step that leaves the term, the vote, the role and the votes     *)
(* alone, and sends replies or, at a leader, AppendEntries.                *)
LEMMA QuietElects ==
  ASSUME TInv, EInv, NEW n \in Server, NEW new, msgs' = msgs \cup new,
         UNCHANGED <<current_term, voted_for, role, votes_granted>>,
         disk'[n].current_term = disk[n].current_term,
         disk'[n].voted_for = disk[n].voted_for,
         \A p \in Server : p # n => disk'[p] = disk[p],
         \A x \in new : \/ x.type \in {"AppendEntriesReply", "ClientReply"}
                        \/ /\ x.type = "AppendEntries" /\ x.from = n
                           /\ x.term = current_term[n] /\ role[n] = "leader"
  PROVE  Elects(n, new)
<1>1. OthersVote(n)
  BY DEF OthersVote
<1>2. MovesOn(n)
  BY DEF MovesOn, TInv, TypeOK, HardState
<1>3. ASSUME role[n] # "follower"
      PROVE  disk[n].current_term = current_term[n] /\ disk[n].voted_for = voted_for[n]
  BY <1>3, DiskAgrees DEF TInv, DownIsFollower
<1>4. StandsRightly(n)
  BY <1>3 DEF StandsRightly, EInv, VotesForSelf, VotesBacked, LeaderHasMajority
<1>5. \A x \in new : SendsRightly(n, x)
  BY DEF SendsRightly, IsVote, IsStand, IsAppend
<1> QED
  BY <1>1, <1>2, <1>4, <1>5 DEF Elects

(* A step that leaves n a follower, and sends no vote, need only move the  *)
(* disk on.                                                                *)
LEMMA FollowerElects ==
  ASSUME TInv, NEW n \in Server, NEW new, msgs' = msgs \cup new,
         OthersVote(n), MovesOn(n), role'[n] = "follower",
         \A x \in new : x.type \in {"AppendEntriesReply", "ClientReply"}
  PROVE  Elects(n, new)
<1>1. StandsRightly(n)
  BY DEF StandsRightly
<1>2. \A x \in new : SendsRightly(n, x)
  BY DEF SendsRightly, IsVote, IsStand, IsAppend
<1> QED
  BY <1>1, <1>2 DEF Elects

(* Answering a RequestVote.                                                *)
LEMMA OnRequestVoteElects ==
  ASSUME TInv, EInv, NEW n \in Server, NEW m \in msgs, OnRequestVote(n, m)
  PROVE  \E new : Elects(n, new)
<1> DEFINE t == TermAfter(n, m.term)
           v == VoteOn(n, m)
           reply == RequestVoteReply(n, m.from, t, Grants(n, m))
<1>1. /\ running[n] /\ m.type = "RequestVote" /\ m.to = n
      /\ m \in Message /\ TypeOK /\ MemoryIsDurable
  BY DEF OnRequestVote, Receives, TInv, TypeOK
<1>2. m.from \in Server /\ m.term \in Nat /\ m.from # n
  BY <1>1, MessageFields DEF EInv, NotToSelf
<1>3. t \in Nat /\ v \in Server \cup {Nil}
  BY <1>1, <1>2, AfterType DEF VoteOn
<1>4. /\ disk'[n] = [current_term |-> t, voted_for |-> v, log |-> log[n]]
      /\ \A p \in Server : p # n => disk'[p] = disk[p]
  <2>1. PersistState(n, t, v)
    BY DEF OnRequestVote
  <2> HIDE DEF t, v
  <2> QED
    BY <1>1, <1>3, <2>1, PersistStateWrites
<1>5. /\ current_term' = [current_term EXCEPT ![n] = t]
      /\ voted_for' = [voted_for EXCEPT ![n] = v]
      /\ msgs' = msgs \cup {reply}
      /\ m.term > current_term[n] =>
           /\ role' = [role EXCEPT ![n] = "follower"]
           /\ votes_granted' = [votes_granted EXCEPT ![n] = {}]
      /\ ~(m.term > current_term[n]) => UNCHANGED <<role, votes_granted>>
  BY DEF OnRequestVote, Send, BecomeFollower
<1>6. OthersVote(n)
  BY <1>1, <1>4, <1>5 DEF OthersVote, TypeOK
<1>7. VoteAfter(n, m.term) \in {Nil, v}
  BY DEF VoteOn, Grants
<1>8. MovesOn(n)
  BY <1>1, <1>2, <1>4, <1>7, WritingMovesOn
<1>9. StandsRightly(n)
  <2>1. CASE m.term > current_term[n]
    BY <2>1, <1>1, <1>5 DEF StandsRightly, TypeOK
  <2>2. CASE ~(m.term > current_term[n]) /\ role[n] # "follower"
    <3>1. voted_for[n] = n /\ n # Nil /\ current_term[n] \in Nat
      BY <2>2, <1>1, NilAssumption DEF EInv, VotesForSelf, TypeOK
    <3>2. VoteAfter(n, m.term) = n /\ t = current_term[n]
      BY <2>2, <1>2, <3>1 DEF VoteAfter, TermAfter, Larger
    <3>3. v = n
      BY <3>1, <3>2, <1>2 DEF VoteOn, Grants
    <3>4. current_term'[n] = current_term[n] /\ voted_for'[n] = n
      BY <3>2, <3>3, <1>1, <1>5 DEF TypeOK
    <3> QED
      BY <2>2, <1>4, <1>5, <3>2, <3>3, <3>4
      DEF StandsRightly, EInv, VotesBacked, LeaderHasMajority
  <2>3. CASE ~(m.term > current_term[n]) /\ role[n] = "follower"
    BY <2>3, <1>5 DEF StandsRightly
  <2> QED
    BY <2>1, <2>2, <2>3
<1>10. SendsRightly(n, reply)
  <2>1. /\ reply.type = "RequestVoteReply" /\ reply.from = n /\ reply.to = m.from
        /\ reply.term = t /\ reply.vote_granted = Grants(n, m)
    BY DEF RequestVoteReply
  <2>2. Grants(n, m) => v = m.from
    BY DEF VoteOn
  <2> HIDE DEF reply, t, v
  <2> QED
    BY <2>1, <2>2, <1>2, <1>4 DEF SendsRightly, IsVote, IsStand, IsAppend
<1> HIDE DEF reply
<1>11. Elects(n, {reply})
  BY <1>5, <1>6, <1>8, <1>9, <1>10 DEF Elects
<1> QED
  BY <1>11

(* Receiving a vote, with or without the majority it may complete.         *)
LEMMA CountedVotes ==
  ASSUME TInv, EInv, NEW n \in Server, NEW m \in msgs, CountsVote(n, m)
  PROVE  /\ m \in Message /\ m.from \in Server /\ role[n] = "candidate"
         /\ disk[n].current_term = current_term[n] /\ disk[n].voted_for = n
         /\ voted_for[n] = n
         /\ \A v \in VotesWith(n, m) : v = n \/ Voted(v, n, current_term[n])
<1>1. /\ m \in Message /\ running[n] /\ role[n] = "candidate" /\ IsVote(m)
      /\ m.to = n /\ m.term = current_term[n]
  BY DEF CountsVote, Receives, IsVote, TInv, TypeOK
<1>2. voted_for[n] = n /\ \A v \in votes_granted[n] : v = n \/ Voted(v, n, current_term[n])
  BY <1>1 DEF EInv, VotesForSelf, VotesBacked
<1>3. Voted(m.from, n, current_term[n])
  BY <1>1 DEF Voted
<1>4. disk[n].current_term = current_term[n] /\ disk[n].voted_for = voted_for[n]
  BY <1>1, DiskAgrees DEF TInv
<1> QED
  BY <1>1, <1>2, <1>3, <1>4, MessageFields DEF VotesWith

(* Counting a vote that does not decide the election.                      *)
LEMMA CountVoteElects ==
  ASSUME TInv, EInv, NEW n \in Server, NEW m \in msgs, CountVote(n, m)
  PROVE  \E new : Elects(n, new)
<1>1. /\ CountsVote(n, m)
      /\ votes_granted' = [votes_granted EXCEPT ![n] = VotesWith(n, m)]
      /\ UNCHANGED <<current_term, voted_for, disk, role, msgs>>
  BY DEF CountVote, hardVars
<1>2. /\ role[n] = "candidate" /\ disk[n].current_term = current_term[n]
      /\ disk[n].voted_for = n /\ voted_for[n] = n
      /\ \A v \in VotesWith(n, m) : v = n \/ Voted(v, n, current_term[n])
  BY <1>1, CountedVotes
<1>3. OthersVote(n) /\ votes_granted'[n] = VotesWith(n, m)
  BY <1>1 DEF OthersVote, TInv, TypeOK
<1>4. MovesOn(n)
  BY <1>1 DEF MovesOn, TInv, TypeOK, HardState
<1>5. StandsRightly(n)
  BY <1>1, <1>2, <1>3 DEF StandsRightly
<1>6. Elects(n, {})
  BY <1>1, <1>3, <1>4, <1>5 DEF Elects
<1> QED
  BY <1>6

(* Winning an election.                                                    *)
LEMMA WinElectionElects ==
  ASSUME TInv, EInv, NEW n \in Server, NEW m \in msgs, WinElection(n, m)
  PROVE  \E new : Elects(n, new)
<1> DEFINE new == {AppendEntries(n, p, current_term[n], log[n], LastIndex(log[n]) + 1,
                                 commit_index[n]) : p \in Peers(n)}
<1>1. /\ CountsVote(n, m) /\ IsMajority(VotesWith(n, m))
      /\ votes_granted' = [votes_granted EXCEPT ![n] = VotesWith(n, m)]
      /\ role' = [role EXCEPT ![n] = "leader"]
      /\ msgs' = msgs \cup new
      /\ UNCHANGED <<current_term, voted_for, disk>>
  BY DEF WinElection, BecomeLeader, Send, hardVars
<1>2. /\ disk[n].current_term = current_term[n]
      /\ disk[n].voted_for = n /\ voted_for[n] = n
      /\ \A v \in VotesWith(n, m) : v = n \/ Voted(v, n, current_term[n])
  BY <1>1, CountedVotes
<1>3. OthersVote(n) /\ votes_granted'[n] = VotesWith(n, m) /\ role'[n] = "leader"
  BY <1>1 DEF OthersVote, TInv, TypeOK
<1>4. MovesOn(n)
  BY <1>1 DEF MovesOn, TInv, TypeOK, HardState
<1>5. StandsRightly(n)
  BY <1>1, <1>2, <1>3 DEF StandsRightly
<1>6. \A x \in new : x.type = "AppendEntries" /\ x.from = n /\ x.term = current_term[n]
  BY DEF AppendEntries
<1> HIDE DEF new
<1>7. \A x \in new : SendsRightly(n, x)
  BY <1>1, <1>3, <1>6 DEF SendsRightly, IsVote, IsStand, IsAppend
<1>8. Elects(n, new)
  BY <1>1, <1>3, <1>4, <1>5, <1>7 DEF Elects
<1> QED
  BY <1>8

(* Stepping down before a reply from a newer term.                         *)
LEMMA StepDownElects ==
  ASSUME TInv, NEW n \in Server, NEW t \in Nat, running[n], StepDown(n, t)
  PROVE  \E new : Elects(n, new)
<1>1. TermAfter(n, t) \in Nat /\ VoteAfter(n, t) \in Server \cup {Nil}
  BY AfterType DEF TInv
<1>2. /\ PersistState(n, TermAfter(n, t), VoteAfter(n, t))
      /\ current_term' = [current_term EXCEPT ![n] = TermAfter(n, t)]
      /\ voted_for' = [voted_for EXCEPT ![n] = VoteAfter(n, t)]
      /\ role' = [role EXCEPT ![n] = "follower"]
      /\ votes_granted' = [votes_granted EXCEPT ![n] = {}]
      /\ msgs' = msgs
  BY DEF StepDown, BecomeFollower
<1>3. /\ disk'[n].current_term = TermAfter(n, t) /\ disk'[n].voted_for = VoteAfter(n, t)
      /\ \A p \in Server : p # n => disk'[p] = disk[p]
  <2>1. TypeOK /\ MemoryIsDurable
    BY DEF TInv
  <2>2. /\ disk'[n] = [current_term |-> TermAfter(n, t), voted_for |-> VoteAfter(n, t),
                       log |-> log[n]]
        /\ \A p \in Server : p # n => disk'[p] = disk[p]
    BY <1>1, <1>2, <2>1, PersistStateWrites
  <2> QED
    BY <2>2
<1>4. OthersVote(n) /\ role'[n] = "follower"
  BY <1>2, <1>3 DEF OthersVote, TInv, TypeOK
<1>5. MovesOn(n)
  BY <1>3, WritingMovesOn
<1>6. Elects(n, {})
  BY <1>2, <1>4, <1>5, FollowerElects
<1> QED
  BY <1>6

(* Standing for election, and winning it at once in a cluster of one.      *)
LEMMA CampaignElects ==
  ASSUME TInv, NEW n \in Server, Campaign(n),
         NEW new, msgs' = msgs \cup new,
         NEW r \in {"candidate", "leader"}, role' = [role EXCEPT ![n] = r],
         r = "leader" => IsMajority({n}),
         \A x \in new : /\ x.from = n /\ x.term = current_term[n] + 1
                        /\ \/ x.type = "RequestVote" /\ x.to # n
                           \/ x.type = "AppendEntries" /\ r = "leader"
  PROVE  Elects(n, new)
<1>1. /\ disk'[n] = [current_term |-> current_term[n] + 1, voted_for |-> n,
                     log |-> log[n]]
      /\ \A p \in Server : p # n => disk'[p] = disk[p]
      /\ disk[n].current_term = current_term[n] /\ current_term[n] \in Nat
  BY CampaignStep
<1>2. /\ current_term' = [current_term EXCEPT ![n] = current_term[n] + 1]
      /\ voted_for' = [voted_for EXCEPT ![n] = n]
      /\ votes_granted' = [votes_granted EXCEPT ![n] = {n}]
  BY DEF Campaign
<1>3. /\ current_term'[n] = current_term[n] + 1 /\ voted_for'[n] = n
      /\ votes_granted'[n] = {n} /\ role'[n] = r
  BY <1>2 DEF TInv, TypeOK
<1>4. OthersVote(n)
  BY <1>1, <1>2 DEF OthersVote, TInv, TypeOK
<1>5. MovesOn(n)
  BY <1>1 DEF MovesOn
<1>6. StandsRightly(n)
  BY <1>1, <1>3 DEF StandsRightly
<1>7. \A x \in new : SendsRightly(n, x)
  BY <1>3 DEF SendsRightly, IsVote, IsStand, IsAppend
<1> QED
  BY <1>4, <1>5, <1>6, <1>7 DEF Elects

(* An election timeout that needs the votes of others.                     *)
LEMMA AskForVotesElects ==
  ASSUME TInv, NEW n \in Server, Campaign(n), AskForVotes(n)
  PROVE  \E new : Elects(n, new)
<1> DEFINE new == {RequestVote(n, p, current_term[n] + 1, log[n]) : p \in Peers(n)}
<1>1. /\ Campaign(n) /\ role' = [role EXCEPT ![n] = "candidate"]
      /\ msgs' = msgs \cup new
  BY DEF AskForVotes, Send
<1>2. \A x \in new : /\ x.from = n /\ x.term = current_term[n] + 1
                     /\ x.type = "RequestVote" /\ x.to # n
  BY DEF RequestVote, Peers
<1> HIDE DEF new
<1>3. Elects(n, new)
  BY <1>1, <1>2, CampaignElects
<1> QED
  BY <1>3

(* An election timeout of a cluster of one.                                *)
LEMMA ElectOneselfElects ==
  ASSUME TInv, NEW n \in Server, Campaign(n), IsMajority({n}),
         BecomeLeader(n, current_term[n] + 1)
  PROVE  \E new : Elects(n, new)
<1> DEFINE new == {AppendEntries(n, p, current_term[n] + 1, log[n], LastIndex(log[n]) + 1,
                                 commit_index[n]) : p \in Peers(n)}
<1>1. /\ Campaign(n) /\ IsMajority({n}) /\ role' = [role EXCEPT ![n] = "leader"]
      /\ msgs' = msgs \cup new
  BY DEF BecomeLeader, Send
<1>2. \A x \in new : /\ x.from = n /\ x.term = current_term[n] + 1
                     /\ x.type = "AppendEntries"
  BY DEF AppendEntries
<1> HIDE DEF new
<1>3. Elects(n, new)
  BY <1>1, <1>2, CampaignElects
<1> QED
  BY <1>3

(* Following a leader, with the log cut and extended or left alone.        *)
LEMMA HearLeaderElects ==
  ASSUME TInv, NEW n \in Server, NEW m \in msgs, HearLeader(n, m),
         NEW cut \in Nat \ {0}, NEW add \in Seq(Entry),
         Persist(n, cut, add, TermAfter(n, m.term), VoteAfter(n, m.term)),
         NEW new, msgs' = msgs \cup new,
         \A x \in new : x.type \in {"AppendEntriesReply", "ClientReply"}
  PROVE  Elects(n, new)
<1> DEFINE t == TermAfter(n, m.term)
           v == VoteAfter(n, m.term)
<1>1. TypeOK /\ MemoryIsDurable /\ running[n] /\ m \in Message /\ m.type = "AppendEntries"
  BY DEF HearLeader, Receives, TInv, TypeOK
<1>2. m.term \in Nat
  BY <1>1, MessageFields
<1>3. t \in Nat /\ v \in Server \cup {Nil}
  BY <1>1, <1>2, AfterType
<1>4. /\ current_term' = [current_term EXCEPT ![n] = t]
      /\ voted_for' = [voted_for EXCEPT ![n] = v]
      /\ role' = [role EXCEPT ![n] = "follower"]
      /\ votes_granted' = [votes_granted EXCEPT ![n] = {}]
  BY DEF HearLeader, BecomeFollower
<1>5. /\ disk'[n] = [current_term |-> t, voted_for |-> v,
                     log |-> TruncateFrom(log[n], cut) \o add]
      /\ \A p \in Server : p # n => disk'[p] = disk[p]
  <2> HIDE DEF t, v
  <2>1. Persist(n, cut, add, t, v)
    BY DEF t, v
  <2>2. TypeOK /\ MemoryIsDurable /\ running[n]
    BY <1>1
  <2>3. t \in Nat /\ v \in Server \cup {Nil}
    BY <1>3
  <2>4. /\ disk' \in [Server -> HardState]
        /\ disk'[n] = [current_term |-> t, voted_for |-> v,
                       log |-> TruncateFrom(log[n], cut) \o add]
        /\ \A p \in Server : p # n => disk'[p] = disk[p]
    BY ONLY <2>1, <2>2, <2>3, n \in Server, cut \in Nat \ {0}, add \in Seq(Entry), PersistWrites
  <2> QED
    BY <2>4
<1>6. disk'[n].current_term = t /\ disk'[n].voted_for = v
  BY <1>5
<1>7. OthersVote(n) /\ role'[n] = "follower"
  BY <1>1, <1>4, <1>5 DEF OthersVote, TypeOK
<1>8. MovesOn(n)
  BY <1>1, <1>2, <1>6, WritingMovesOn
<1> QED
  BY <1>7, <1>8, FollowerElects

(* Refusing a leader whose entries leave a gap.                            *)
LEMMA RefuseGapElects ==
  ASSUME TInv, NEW n \in Server, NEW m \in msgs, RefuseGap(n, m)
  PROVE  \E new : Elects(n, new)
<1> DEFINE new == {AppendEntriesReply(n, m.from, TermAfter(n, m.term), FALSE, 0)}
<1>1. /\ HearLeader(n, m) /\ msgs' = msgs \cup new
      /\ Persist(n, LastIndex(log[n]) + 1, << >>, TermAfter(n, m.term), VoteAfter(n, m.term))
  BY DEF RefuseGap, PersistState, Send
<1>2. \A x \in new : x.type \in {"AppendEntriesReply", "ClientReply"}
  BY DEF AppendEntriesReply
<1>3. LastIndex(log[n]) + 1 \in Nat \ {0} /\ << >> \in Seq(Entry)
  BY DEF LastIndex, TInv, TypeOK
<1> HIDE DEF new
<1>4. Elects(n, new)
  BY <1>1, <1>2, <1>3, HearLeaderElects
<1> QED
  BY <1>4

(* Taking entries.                                                         *)
LEMMA TakeEntriesElects ==
  ASSUME TInv, NEW n \in Server, NEW m \in msgs, TakeEntries(n, m)
  PROVE  \E new : Elects(n, new)
<1> DEFINE new == {AppendEntriesReply(n, m.from, TermAfter(n, m.term), TRUE,
                                      m.prev_log_index + Len(m.entries))}
                    \cup ReplyTo(n, Paid(n, pending_clients[n], CommitAfter(n, m)))
<1>1. HearLeader(n, m) /\ msgs' = msgs \cup new
  BY DEF TakeEntries, Send
<1>2. \A x \in new : x.type \in {"AppendEntriesReply", "ClientReply"}
  BY DEF AppendEntriesReply, ReplyTo, ClientReply
<1>3. PICK h \in 0 .. Len(m.entries) :
        Persist(n, CutAt(n, m, h), NewEntries(m, h),
                TermAfter(n, m.term), VoteAfter(n, m.term))
  BY DEF TakeEntries
<1>4. m \in Message /\ m.type = "AppendEntries" /\ TypeOK
  BY <1>1 DEF HearLeader, Receives, TInv, TypeOK
<1>5. CutAt(n, m, h) \in Nat \ {0} /\ NewEntries(m, h) \in Seq(Entry)
  BY <1>4, CutType
<1> HIDE DEF new
<1>6. Elects(n, new)
  BY <1>1, <1>2, <1>3, <1>5, HearLeaderElects
<1> QED
  BY <1>6

(* The steps that leave the term, the vote and the role of n alone.        *)
LEMMA QuietSteps ==
  ASSUME TInv, EInv, NEW n \in Server,
         \/ \E m \in msgs : \/ RefuseStaleLeader(n, m)
                            \/ OnAppendSuccess(n, m)
                            \/ OnAppendFailure(n, m)
         \/ \E r \in Request : OnClientRequest(n, r)
         \/ FireHeartbeat(n)
  PROVE  \E new : Elects(n, new)
<1> DEFINE Reply(x) == x.type \in {"AppendEntriesReply", "ClientReply"}
           Leading(x) == /\ x.type = "AppendEntries" /\ x.from = n
                         /\ x.term = current_term[n] /\ role[n] = "leader"
<1>1. disk \in [Server -> HardState]
  BY DEF TInv, TypeOK
<1>2. ASSUME NEW m \in msgs, RefuseStaleLeader(n, m)
      PROVE  \E new : Elects(n, new)
  <2> DEFINE new == {AppendEntriesReply(n, m.from, current_term[n], FALSE, 0)}
  <2>1. /\ msgs' = msgs \cup new
        /\ UNCHANGED <<current_term, voted_for, role, votes_granted, disk>>
    BY <1>2 DEF RefuseStaleLeader, Send, hardVars
  <2>2. \A x \in new : Reply(x)
    BY DEF AppendEntriesReply
  <2> HIDE DEF new
  <2>3. Elects(n, new)
    BY <2>1, <2>2, QuietElects
  <2> QED
    BY <2>3
<1>3. ASSUME NEW m \in msgs, OnAppendSuccess(n, m)
      PROVE  \E new : Elects(n, new)
  <2>1. PICK c : msgs' = msgs \cup ReplyTo(n, Paid(n, pending_clients[n], c))
    BY <1>3 DEF OnAppendSuccess, Send
  <2> DEFINE new == ReplyTo(n, Paid(n, pending_clients[n], c))
  <2>2. UNCHANGED <<current_term, voted_for, role, votes_granted, disk>>
    BY <1>3 DEF OnAppendSuccess, hardVars
  <2>3. \A x \in new : Reply(x)
    BY DEF ReplyTo, ClientReply
  <2> HIDE DEF new
  <2>4. msgs' = msgs \cup new
    BY <2>1 DEF new
  <2>5. Elects(n, new)
    BY <2>2, <2>3, <2>4, QuietElects
  <2> QED
    BY <2>5
<1>4. ASSUME NEW m \in msgs, OnAppendFailure(n, m)
      PROVE  \E new : Elects(n, new)
  <2> DEFINE new == {AppendEntries(n, m.from, current_term[n], log[n],
                                   NextAfterFailure(n, m.from), commit_index[n])}
  <2>1. /\ msgs' = msgs \cup new /\ role[n] = "leader"
        /\ UNCHANGED <<current_term, voted_for, role, votes_granted, disk>>
    BY <1>4 DEF OnAppendFailure, HearFollower, Send, hardVars
  <2>2. \A x \in new : Leading(x)
    BY <2>1 DEF AppendEntries
  <2> HIDE DEF new
  <2>3. Elects(n, new)
    BY <2>1, <2>2, QuietElects
  <2> QED
    BY <2>3
<1>5. ASSUME NEW r \in Request, OnClientRequest(n, r)
      PROVE  \E new : Elects(n, new)
  <2>1. PICK longer, debts, c :
          msgs' = msgs \cup ({AppendEntries(n, p, current_term[n], longer,
                                            next_index[n][p], commit_index[n]) :
                                p \in Peers(n)}
                               \cup ReplyTo(n, Paid(n, debts, c)))
    BY <1>5 DEF OnClientRequest, Send
  <2> DEFINE new == {AppendEntries(n, p, current_term[n], longer, next_index[n][p],
                                   commit_index[n]) : p \in Peers(n)}
                      \cup ReplyTo(n, Paid(n, debts, c))
  <2>2. /\ role[n] = "leader"
        /\ UNCHANGED <<current_term, voted_for, role, votes_granted>>
    BY <1>5 DEF OnClientRequest
  <2>3. PICK e : disk' = [disk EXCEPT ![n].log = e]
    BY <1>5 DEF OnClientRequest
  <2>4. /\ disk'[n].current_term = disk[n].current_term
        /\ disk'[n].voted_for = disk[n].voted_for
        /\ \A p \in Server : p # n => disk'[p] = disk[p]
    BY <1>1, <2>3 DEF HardState
  <2>5. \A x \in new : Reply(x) \/ Leading(x)
    BY <2>2 DEF AppendEntries, ReplyTo, ClientReply
  <2> HIDE DEF new
  <2>6. msgs' = msgs \cup new
    BY <2>1 DEF new
  <2>7. Elects(n, new)
    BY <2>2, <2>4, <2>5, <2>6, QuietElects
  <2> QED
    BY <2>7
<1>6. ASSUME FireHeartbeat(n)
      PROVE  \E new : Elects(n, new)
  <2> DEFINE new == IF role[n] = "leader"
                    THEN {AppendEntries(n, p, current_term[n], log[n],
                                        next_index[n][p], commit_index[n]) : p \in Peers(n)}
                    ELSE {}
  <2>1. /\ msgs' = msgs \cup new
        /\ UNCHANGED <<current_term, voted_for, role, votes_granted, disk>>
    BY <1>6 DEF FireHeartbeat, Send, hardVars
  <2>2. \A x \in new : Leading(x)
    BY DEF AppendEntries
  <2> HIDE DEF new
  <2>3. Elects(n, new)
    BY <2>1, <2>2, QuietElects
  <2> QED
    BY <2>3
<1> QED
  BY <1>2, <1>3, <1>4, <1>5, <1>6

(* A crash leaves a follower, whatever part of its last writes survives.   *)
LEMMA DieElects ==
  ASSUME TInv, NEW n \in Server, NEW d, Die(n, d),
         d.current_term \in Nat,
         disk[n].current_term <= d.current_term,
         disk[n].current_term = d.current_term => disk[n].voted_for \in {Nil, d.voted_for}
  PROVE  Elects(n, {})
<1>1. /\ disk' = [disk EXCEPT ![n] = d]
      /\ current_term' = [current_term EXCEPT ![n] = 0]
      /\ voted_for' = [voted_for EXCEPT ![n] = Nil]
      /\ role' = [role EXCEPT ![n] = "follower"]
      /\ votes_granted' = [votes_granted EXCEPT ![n] = {}]
      /\ msgs' = msgs
  BY DEF Die
<1>2. OthersVote(n) /\ role'[n] = "follower" /\ disk'[n] = d
  BY <1>1 DEF OthersVote, TInv, TypeOK
<1>3. MovesOn(n)
  BY <1>2 DEF MovesOn
<1> QED
  BY <1>1, <1>2, <1>3, FollowerElects

(* A crash in the middle of writing a term and a vote that may follow.     *)
LEMMA TornElects ==
  ASSUME TInv, NEW n \in Server, NEW cut, NEW add, NEW t \in Nat, NEW v,
         current_term[n] <= t,
         current_term[n] = t => voted_for[n] \in {Nil, v},
         NEW d \in Torn(n, cut, add, t, v), Die(n, d)
  PROVE  Elects(n, {})
<1>1. /\ disk[n].current_term = current_term[n] /\ disk[n].voted_for = voted_for[n]
      /\ disk[n] \in HardState /\ current_term[n] \in Nat
  BY DiskAgrees DEF Die, TInv, TypeOK
<1>2. \/ d.current_term = disk[n].current_term /\ d.voted_for = disk[n].voted_for
      \/ d.current_term = t /\ d.voted_for = v
  <2>1. CASE d = Written(n, cut, add, t, v)
    BY <2>1 DEF Written, AfterWrite
  <2>2. ASSUME NEW lg, d = [disk[n] EXCEPT !.log = lg]
        PROVE  d.current_term = disk[n].current_term /\ d.voted_for = disk[n].voted_for
    BY <1>1, <2>2 DEF HardState
  <2> QED
    BY <2>1, <2>2 DEF Torn, AfterTear, Written
<1> QED
  BY <1>1, <1>2, DieElects

(* What follows a vote written over a vote that may be changed.            *)
LEMMA AfterFollows ==
  ASSUME TInv, NEW n \in Server, NEW t \in Nat, NEW v, VoteAfter(n, t) \in {Nil, v}
  PROVE  /\ current_term[n] <= TermAfter(n, t)
         /\ current_term[n] = TermAfter(n, t) => voted_for[n] \in {Nil, v}
<1>1. current_term[n] \in Nat
  BY DEF TInv, TypeOK
<1> QED
  BY <1>1 DEF TermAfter, VoteAfter, Larger

(* A disk error while a message is handled.                                *)
LEMMA DiskErrorOnMessageElects ==
  ASSUME TInv, NEW n \in Server, NEW m \in msgs, DiskErrorOnMessage(n, m)
  PROVE  \E new : Elects(n, new)
<1>1. m \in Message /\ m.type # "ClientReply"
  BY DEF DiskErrorOnMessage, TInv, TypeOK
<1>2. m.term \in Nat /\ TermAfter(n, m.term) \in Nat
  BY <1>1, MessageFields, AfterType DEF TInv
<1>3. PICK d \in TornBy(n, m) : Die(n, d)
  BY DEF DiskErrorOnMessage
<1>4. \E cut, add, v :
        /\ d \in Torn(n, cut, add, TermAfter(n, m.term), v)
        /\ VoteAfter(n, m.term) \in {Nil, v}
  <2>1. CASE m.type = "RequestVote"
    <3>1. d \in Torn(n, LastIndex(log[n]) + 1, << >>, TermAfter(n, m.term), VoteOn(n, m))
      BY <1>3, <2>1 DEF TornBy
    <3>2. VoteAfter(n, m.term) \in {Nil, VoteOn(n, m)}
      BY DEF VoteOn, Grants
    <3> QED
      BY <3>1, <3>2
  <2>2. CASE m.type = "AppendEntries" /\ m.term >= current_term[n] /\ Consistent(n, m)
    <3>1. \E h : d \in Torn(n, CutAt(n, m, h), NewEntries(m, h),
                            TermAfter(n, m.term), VoteAfter(n, m.term))
      BY <1>3, <2>2 DEF TornBy
    <3> QED
      BY <3>1
  <2>3. CASE \/ m.type = "AppendEntries" /\ m.term >= current_term[n] /\ ~Consistent(n, m)
             \/ m.type = "RequestVoteReply" /\ m.term > current_term[n]
             \/ m.type = "AppendEntriesReply" /\ m.term > current_term[n]
    <3>1. d \in Torn(n, LastIndex(log[n]) + 1, << >>,
                     TermAfter(n, m.term), VoteAfter(n, m.term))
      BY <1>3, <2>3 DEF TornBy
    <3> QED
      BY <3>1
  <2> QED
    BY <1>3, <2>1, <2>2, <2>3 DEF TornBy
<1>5. PICK cut, add, v : /\ d \in Torn(n, cut, add, TermAfter(n, m.term), v)
                         /\ VoteAfter(n, m.term) \in {Nil, v}
  BY <1>4
<1>6. /\ current_term[n] <= TermAfter(n, m.term)
      /\ current_term[n] = TermAfter(n, m.term) => voted_for[n] \in {Nil, v}
  BY <1>2, <1>5, AfterFollows
<1>7. Elects(n, {})
  BY <1>2, <1>3, <1>5, <1>6, TornElects
<1> QED
  BY <1>7

(* A disk error in a timeout or in a request, and a crash between events.  *)
LEMMA CrashElects ==
  ASSUME TInv, NEW n \in Server,
         \/ DiskErrorOnTimeout(n)
         \/ \E r \in Request : DiskErrorOnRequest(n, r)
         \/ Crash(n)
  PROVE  \E new : Elects(n, new)
<1>1. current_term[n] \in Nat /\ disk[n].current_term \in Nat
  BY DEF TInv, TypeOK, HardState
<1>2. CASE DiskErrorOnTimeout(n)
  <2>1. PICK d \in Torn(n, LastIndex(log[n]) + 1, << >>, current_term[n] + 1, n) : Die(n, d)
    BY <1>2 DEF DiskErrorOnTimeout
  <2>2. /\ current_term[n] + 1 \in Nat /\ current_term[n] <= current_term[n] + 1
        /\ current_term[n] # current_term[n] + 1
    BY <1>1
  <2>3. Elects(n, {})
    BY <2>1, <2>2, TornElects
  <2> QED
    BY <2>3
<1>3. ASSUME NEW r \in Request, DiskErrorOnRequest(n, r)
      PROVE  \E new : Elects(n, new)
  <2>1. PICK d \in Torn(n, LastIndex(log[n]) + 1,
                        <<[term |-> current_term[n], request_id |-> r]>>,
                        current_term[n], voted_for[n]) : Die(n, d)
    BY <1>3 DEF DiskErrorOnRequest
  <2>2. current_term[n] <= current_term[n]
    BY <1>1
  <2>3. Elects(n, {})
    BY <1>1, <2>1, <2>2, TornElects
  <2> QED
    BY <2>3
<1>4. CASE Crash(n)
  <2>1. Die(n, disk[n])
    BY <1>4 DEF Crash
  <2>2. disk[n].current_term <= disk[n].current_term
    BY <1>1
  <2>3. Elects(n, {})
    BY <1>1, <2>1, <2>2, DieElects
  <2> QED
    BY <2>3
<1> QED
  BY <1>2, <1>3, <1>4

(* A restart reads back what is on the disk, and makes no one stand.       *)
LEMMA RestartElects ==
  ASSUME TInv, EInv, NEW n \in Server, Restart(n)
  PROVE  \E new : Elects(n, new)
<1>1. /\ current_term' = [current_term EXCEPT ![n] = disk[n].current_term]
      /\ voted_for' = [voted_for EXCEPT ![n] = disk[n].voted_for]
      /\ UNCHANGED <<disk, role, votes_granted, msgs>>
  BY DEF Restart
<1>2. OthersVote(n)
  BY <1>1 DEF OthersVote, TInv, TypeOK
<1>3. MovesOn(n)
  BY <1>1 DEF MovesOn, TInv, TypeOK, HardState
<1>4. StandsRightly(n)
  <2>1. CASE role[n] = "follower"
    BY <2>1, <1>1 DEF StandsRightly
  <2>2. CASE role[n] # "follower"
    <3>1. disk[n].current_term = current_term[n] /\ disk[n].voted_for = voted_for[n]
      BY <2>2, DiskAgrees DEF TInv, DownIsFollower
    <3>2. current_term'[n] = current_term[n] /\ voted_for'[n] = voted_for[n]
      BY <3>1, <1>1 DEF TInv, TypeOK
    <3> QED
      BY <2>2, <1>1, <3>1, <3>2
      DEF StandsRightly, EInv, VotesForSelf, VotesBacked, LeaderHasMajority
  <2> QED
    BY <2>1, <2>2
<1>5. Elects(n, {})
  BY <1>1, <1>2, <1>3, <1>4 DEF Elects
<1> QED
  BY <1>5

-----------------------------------------------------------------------------
(* Every step is of this form.                                             *)
LEMMA NextElects ==
  ASSUME TInv, EInv, Next
  PROVE  \E n \in Server : \E new : Elects(n, new)
<1>1. PICK n \in Server :
        \/ \E m \in msgs : OnMessage(n, m)
        \/ \E r \in Request : OnClientRequest(n, r) \/ DiskErrorOnRequest(n, r)
        \/ ElectionTimeout(n)
        \/ FireHeartbeat(n)
        \/ DiskErrorOnTimeout(n)
        \/ Crash(n)
        \/ Restart(n)
  BY DEF Next, Step, OnRequest
<1>2. ASSUME NEW m \in msgs, OnMessage(n, m)
      PROVE  \E new : Elects(n, new)
  <2>1. /\ m \in Message
        /\ m.type # "ClientReply" => m.term \in Nat
    BY MessageFields DEF TInv, TypeOK
  <2>2. CASE OnRequestVote(n, m)
    BY <2>2, OnRequestVoteElects
  <2>3. CASE CountVote(n, m)
    BY <2>3, CountVoteElects
  <2>4. CASE WinElection(n, m)
    BY <2>4, WinElectionElects
  <2>5. CASE VoteReplyFromNewerTerm(n, m)
    <3>1. m.term \in Nat /\ running[n] /\ StepDown(n, m.term)
      BY <2>1, <2>5 DEF VoteReplyFromNewerTerm, Receives
    <3> QED
      BY <3>1, StepDownElects
  <2>6. CASE RefuseStaleLeader(n, m) \/ OnAppendSuccess(n, m) \/ OnAppendFailure(n, m)
    BY <2>6, QuietSteps
  <2>7. CASE RefuseGap(n, m)
    BY <2>7, RefuseGapElects
  <2>8. CASE TakeEntries(n, m)
    BY <2>8, TakeEntriesElects
  <2>9. CASE AppendReplyFromNewerTerm(n, m)
    <3>1. m.term \in Nat /\ running[n] /\ StepDown(n, m.term)
      BY <2>1, <2>9 DEF AppendReplyFromNewerTerm, Receives
    <3> QED
      BY <3>1, StepDownElects
  <2>10. CASE DiskErrorOnMessage(n, m)
    BY <2>10, DiskErrorOnMessageElects
  <2> QED
    BY <1>2, <2>2, <2>3, <2>4, <2>5, <2>6, <2>7, <2>8, <2>9, <2>10 DEF OnMessage
<1>3. CASE ElectionTimeout(n) /\ ~IsMajority({n})
  BY <1>3, AskForVotesElects DEF ElectionTimeout
<1>4. CASE ElectionTimeout(n) /\ IsMajority({n})
  BY <1>4, ElectOneselfElects DEF ElectionTimeout
<1>5. CASE FireHeartbeat(n) \/ \E r \in Request : OnClientRequest(n, r)
  BY <1>5, QuietSteps
<1>6. CASE DiskErrorOnTimeout(n) \/ Crash(n) \/ \E r \in Request : DiskErrorOnRequest(n, r)
  BY <1>6, CrashElects
<1>7. CASE Restart(n)
  BY <1>7, RestartElects
<1> QED
  BY <1>1, <1>2, <1>3, <1>4, <1>5, <1>6, <1>7

(* The invariant of elections, from the start and through every step.      *)
LEMMA EInvStep == TInv /\ EInv /\ [Next]_vars => EInv'
<1> SUFFICES ASSUME TInv, EInv, [Next]_vars
             PROVE  EInv'
  OBVIOUS
<1>1. TypeOK /\ TypeOK'
  BY TInvStep DEF TInv
<1>2. CASE Next
  BY <1>1, <1>2, NextElects, ElectsKeeps
<1>3. CASE UNCHANGED vars
  BY <1>3 DEF vars, hardVars, commitVars, leaderVars, timerVars, EInv, NotToSelf,
     VotesOnDisk, StandsOnDisk, VotesForSelf, OneVote, VotedOrStood, VotesBacked,
     LeaderHasMajority, SendersElected, Elected, Voted, Kept, IsMajority, IsVote,
     IsStand, IsAppend
<1> QED
  BY <1>2, <1>3

(* No server has voted, stood or led at the start.                         *)
LEMMA EInvInit == Init => EInv
<1> SUFFICES ASSUME Init PROVE EInv
  OBVIOUS
<1>1. msgs = {} /\ \A n \in Server : role[n] = "follower"
  BY DEF Init
<1> QED
  BY <1>1 DEF EInv, NotToSelf, VotesOnDisk, StandsOnDisk, VotesForSelf, OneVote,
     VotedOrStood, VotesBacked, LeaderHasMajority, SendersElected

(* Both invariants hold in every behaviour.                                *)
LEMMA EInvHolds == Spec => [](TInv /\ EInv)
  BY TInvInit, EInvInit, TInvStep, EInvStep, PTL DEF Spec

-----------------------------------------------------------------------------
(* Two majorities have a server in common.                                 *)
LEMMA MajoritiesMeet ==
  ASSUME NEW Q1 \in SUBSET Server, NEW Q2 \in SUBSET Server,
         IsMajority(Q1), IsMajority(Q2)
  PROVE  \E v \in Server : v \in Q1 /\ v \in Q2
<1>1. IsFiniteSet(Server)
  BY ServerAssumption
<1>2. Q1 \subseteq Server /\ Q2 \subseteq Server
  OBVIOUS
<1>3. IsFiniteSet(Q1) /\ IsFiniteSet(Q2)
  BY <1>1, FS_Subset
<1>4. /\ Cardinality(Server) \in Nat
      /\ Cardinality(Q1) \in Nat /\ Cardinality(Q2) \in Nat
  BY <1>1, <1>3, FS_CardinalityType
<1>5. Cardinality(Q1) + Cardinality(Q2) > Cardinality(Server)
  BY <1>4 DEF IsMajority
<1>6. Q1 \cap Q2 # {}
  BY <1>1, <1>2, <1>5, FS_MajoritiesIntersect
<1> QED
  BY <1>6

(* Who leads a term was elected in it, by voters other than itself that    *)
(* said so, and itself voted for no other.                                 *)
LEMMA LeadersElected ==
  ASSUME TInv, EInv, NEW n \in Server, NEW t, Leads(n, t)
  PROVE  /\ Elected(n, t)
         /\ \A c \in Server : ~Voted(n, c, t)
<1>1. CASE running[n] /\ role[n] = "leader" /\ current_term[n] = t
  <2>1. /\ IsMajority(votes_granted[n]) /\ votes_granted[n] \in SUBSET Server
        /\ \A v \in votes_granted[n] : v = n \/ Voted(v, n, t)
    BY <1>1 DEF EInv, LeaderHasMajority, VotesBacked, TInv, TypeOK
  <2>2. disk[n].current_term = t /\ disk[n].voted_for = n /\ t \in Nat
    BY <1>1, DiskAgrees DEF TInv, TypeOK, EInv, VotesForSelf
  <2>3. ASSUME NEW c \in Server, Voted(n, c, t)
        PROVE  FALSE
    <3>1. PICK m \in msgs : IsVote(m) /\ m.from = n /\ m.to = c /\ m.term = t
      BY <2>3 DEF Voted
    <3>2. Kept(n, t, c) /\ c # n
      BY <3>1 DEF EInv, VotesOnDisk, NotToSelf, IsVote
    <3> QED
      BY <3>2, <2>2 DEF Kept
  <2> QED
    BY <2>1, <2>3 DEF Elected
<1>2. CASE \E m \in msgs : m.type = "AppendEntries" /\ m.from = n /\ m.term = t
  BY <1>2 DEF EInv, SendersElected, VotedOrStood, IsStand, IsAppend, Voted
<1> QED
  BY <1>1, <1>2 DEF Leads

(* The invariants imply election safety.                                   *)
LEMMA OneLeader ==
  ASSUME TInv, EInv
  PROVE  ElectionSafety
<1> SUFFICES ASSUME NEW n \in Server, NEW p \in Server, NEW t, Leads(n, t), Leads(p, t)
             PROVE  n = p
  BY DEF ElectionSafety
<1>1. PICK Q1 \in SUBSET Server :
        IsMajority(Q1) /\ \A v \in Q1 : v = n \/ Voted(v, n, t)
  BY LeadersElected DEF Elected
<1>2. PICK Q2 \in SUBSET Server :
        IsMajority(Q2) /\ \A v \in Q2 : v = p \/ Voted(v, p, t)
  BY LeadersElected DEF Elected
<1>3. PICK v \in Server : v \in Q1 /\ v \in Q2
  BY <1>1, <1>2, MajoritiesMeet
<1>4. (v = n \/ Voted(v, n, t)) /\ (v = p \/ Voted(v, p, t))
  BY <1>1, <1>2, <1>3
<1>5. ~Voted(n, p, t) /\ ~Voted(p, n, t)
  BY LeadersElected
<1>6. Voted(v, n, t) /\ Voted(v, p, t) => n = p
  BY DEF Voted, EInv, OneVote
<1> QED
  BY <1>4, <1>5, <1>6

-----------------------------------------------------------------------------
(* At most one server leads in a term, however many crash and restart.     *)
THEOREM OneLeaderPerTerm == Spec => []ElectionSafety
<1>1. TInv /\ EInv => ElectionSafety
  BY OneLeader
<1> QED
  BY <1>1, EInvHolds, PTL

(* A server's votes are one to a term, and none in a term it stood in.     *)
THEOREM VotesAreUnique == Spec => []OneVotePerTerm
<1>1. TInv /\ EInv => OneVotePerTerm
  <2> SUFFICES ASSUME TInv, EInv, NEW m1 \in msgs, NEW m2 \in msgs,
                      m1.type = "RequestVoteReply", m1.vote_granted,
                      m2.type \in {"RequestVoteReply", "RequestVote"},
                      m2.from = m1.from, m2.term = m1.term
               PROVE  /\ m2.type = "RequestVoteReply"
                      /\ m2.vote_granted => m2.to = m1.to
    BY DEF OneVotePerTerm
  <2>1. m2.type # "RequestVote"
    BY DEF EInv, VotedOrStood, IsVote, IsStand
  <2>2. m2.vote_granted /\ m2.type = "RequestVoteReply" => m2.to = m1.to
    BY DEF EInv, OneVote, IsVote
  <2> QED
    BY <2>1, <2>2
<1> QED
  BY <1>1, EInvHolds, PTL

(* The term and the vote on a disk only move on.                           *)
THEOREM HardStateMovesOn == Spec => HardStateMonotonic
<1> DEFINE Keeps == \A n \in Server :
                      /\ disk[n].current_term <= disk'[n].current_term
                      /\ disk[n].current_term = disk'[n].current_term =>
                           disk[n].voted_for \in {Nil, disk'[n].voted_for}
<1>1. ASSUME TInv, EInv, Next
      PROVE  Keeps
  <2>1. PICK n \in Server : \E new : Elects(n, new)
    BY <1>1, NextElects
  <2>2. OthersVote(n) /\ MovesOn(n)
    BY <2>1 DEF Elects
  <2>3. \A p \in Server : disk[p].current_term \in Nat
    BY <1>1 DEF TInv, TypeOK, HardState
  <2> QED
    BY <2>2, <2>3 DEF OthersVote, MovesOn
<1>2. TInv /\ EInv /\ [Next]_vars => [Keeps]_vars
  BY <1>1
<1>3. [](TInv /\ EInv) /\ [][Next]_vars => [][Keeps]_vars
  BY <1>2, PTL
<1>4. [][Keeps]_vars => HardStateMonotonic
  BY PTL DEF HardStateMonotonic
<1> HIDE DEF Keeps
<1> QED
  BY <1>3, <1>4, EInvHolds, PTL DEF Spec

-----------------------------------------------------------------------------
(* Who stands by, and who is named as leader.                              *)

SpokeIn(n, t) == \E m \in msgs : IsAppend(m) /\ m.from = n /\ m.term = t

NoneToSelf == \A m \in msgs : m.type # "ClientReply" => m.to # m.from

(* A leader that is not alone has spoken to the others in its term.        *)
LeadersSpoke ==
  \A n \in Server : role[n] = "leader" /\ Peers(n) # {} => SpokeIn(n, current_term[n])

(* Whom a server that does not lead names, has spoken as a leader.         *)
HintsSpoke ==
  \A n \in Server : role[n] # "leader" /\ leader_id[n] # Nil =>
    leader_id[n] # n /\ \E t \in Nat : SpokeIn(leader_id[n], t)

HInv == NoneToSelf /\ LeadersSpoke /\ HintsSpoke /\ OnlyOldLeadersStandBy

(* What a step of n may do to its role: it leads on in its term, or has    *)
(* just spoken to all its peers; it names whom it named, or a leader that  *)
(* it hears; and it is left without an election timer only if it had none, *)
(* or if it led and hears of a newer term.                                 *)
Turns(n, new) ==
  /\ msgs' = msgs \cup new
  /\ \A x \in new : x.type # "ClientReply" => x.to # x.from
  /\ \A p \in Server : p # n =>
       /\ role'[p] = role[p] /\ leader_id'[p] = leader_id[p]
       /\ running'[p] = running[p] /\ election_timer'[p] = election_timer[p]
       /\ current_term'[p] = current_term[p]
  /\ role'[n] = "leader" =>
       \/ role[n] = "leader" /\ current_term'[n] = current_term[n]
       \/ \A p \in Peers(n) : \E x \in new :
            IsAppend(x) /\ x.from = n /\ x.term = current_term'[n]
  /\ role'[n] # "leader" /\ leader_id'[n] # Nil =>
       \/ role[n] # "leader" /\ leader_id'[n] = leader_id[n]
       \/ \E m \in msgs : IsAppend(m) /\ m.to = n /\ m.from = leader_id'[n]
  /\ running'[n] /\ role'[n] # "leader" /\ ~election_timer'[n] =>
       \/ /\ running[n] /\ role[n] # "leader" /\ ~election_timer[n]
          /\ current_term[n] <= current_term'[n]
       \/ /\ role[n] = "leader" /\ current_term[n] < current_term'[n]
          /\ \E m \in msgs : m.type # "ClientReply" /\ m.to = n

(* A step of this form keeps the invariant.                                *)
LEMMA TurnsKeep ==
  ASSUME TInv, TInv', HInv, NEW n \in Server, NEW new, Turns(n, new)
  PROVE  HInv'
<1>1. NoneToSelf /\ LeadersSpoke /\ HintsSpoke /\ OnlyOldLeadersStandBy
  BY DEF HInv
<1>2. msgs' = msgs \cup new
  BY DEF Turns
<1>3. \A m \in msgs : /\ m.from \in Server
                      /\ m.type # "ClientReply" => m.to \in Server /\ m.term \in Nat
  <2>1. \A m \in msgs : m \in Message
    BY DEF TInv, TypeOK
  <2> QED BY <2>1, MessageFields
<1>4. \A p \in Server : current_term[p] \in Nat /\ current_term'[p] \in Nat
  BY DEF TInv, TypeOK
<1>5. NoneToSelf'
  BY <1>1, <1>2 DEF NoneToSelf, Turns
<1>6. LeadersSpoke'
  <2> SUFFICES ASSUME NEW p \in Server, role'[p] = "leader", NEW q \in Peers(p)
               PROVE  \E m \in msgs' : /\ m.type = "AppendEntries" /\ m.from = p
                                       /\ m.term = current_term'[p]
    BY DEF LeadersSpoke, SpokeIn, IsAppend
  <2>1. CASE role[p] = "leader" /\ current_term'[p] = current_term[p]
    BY <1>1, <1>2, <2>1 DEF LeadersSpoke, SpokeIn, IsAppend
  <2>2. CASE p = n /\ ~(role[p] = "leader" /\ current_term'[p] = current_term[p])
    BY <1>2, <2>2 DEF Turns, IsAppend
  <2>3. p # n => role[p] = "leader" /\ current_term'[p] = current_term[p]
    BY DEF Turns
  <2> QED BY <2>1, <2>2, <2>3
<1>7. HintsSpoke'
  <2> SUFFICES ASSUME NEW p \in Server, role'[p] # "leader", leader_id'[p] # Nil
               PROVE  leader_id'[p] # p /\ \E t \in Nat : \E m \in msgs' :
                        m.type = "AppendEntries" /\ m.from = leader_id'[p] /\ m.term = t
    BY DEF HintsSpoke, SpokeIn, IsAppend
  <2>1. CASE role[p] # "leader" /\ leader_id'[p] = leader_id[p]
    BY <1>1, <1>2, <2>1 DEF HintsSpoke, SpokeIn, IsAppend
  <2>2. CASE p = n /\ \E m \in msgs : IsAppend(m) /\ m.to = n /\ m.from = leader_id'[n]
    <3>1. PICK m \in msgs : IsAppend(m) /\ m.to = n /\ m.from = leader_id'[n]
      BY <2>2
    <3>2. m.type # "ClientReply" /\ m.term \in Nat /\ m.to # m.from
      BY <1>1, <1>3, <3>1 DEF IsAppend, NoneToSelf
    <3> QED BY <1>2, <2>2, <3>1, <3>2 DEF IsAppend
  <2>3. \/ role[p] # "leader" /\ leader_id'[p] = leader_id[p]
        \/ p = n /\ \E m \in msgs : IsAppend(m) /\ m.to = n /\ m.from = leader_id'[n]
    BY DEF Turns
  <2> QED BY <2>1, <2>2, <2>3
<1>8. OnlyOldLeadersStandBy'
  <2> SUFFICES ASSUME NEW p \in Server, running'[p], role'[p] # "leader", ~election_timer'[p]
               PROVE  \E m \in msgs' : /\ m.type = "AppendEntries" /\ m.from = p
                                       /\ m.term < current_term'[p]
    BY DEF OnlyOldLeadersStandBy
  <2>1. CASE /\ running[p] /\ role[p] # "leader" /\ ~election_timer[p]
             /\ current_term[p] <= current_term'[p]
    <3>1. PICK m \in msgs : m.type = "AppendEntries" /\ m.from = p /\ m.term < current_term[p]
      BY <1>1, <2>1 DEF OnlyOldLeadersStandBy
    <3>2. m.term \in Nat
      BY <1>3, <3>1
    <3>3. m.term < current_term'[p]
      BY <1>4, <2>1, <3>1, <3>2
    <3> QED BY <1>2, <3>1, <3>3
  <2>2. CASE /\ role[p] = "leader" /\ current_term[p] < current_term'[p]
             /\ \E m \in msgs : m.type # "ClientReply" /\ m.to = p
    <3>1. PICK x \in msgs : x.type # "ClientReply" /\ x.to = p
      BY <2>2
    <3>2. x.from \in Peers(p)
      BY <1>1, <1>3, <3>1 DEF NoneToSelf, Peers
    <3>3. SpokeIn(p, current_term[p])
      BY <1>1, <2>2, <3>2 DEF LeadersSpoke
    <3> QED BY <1>2, <2>2, <3>3 DEF SpokeIn, IsAppend
  <2>3. p # n => /\ running[p] /\ role[p] # "leader" /\ ~election_timer[p]
                 /\ current_term[p] = current_term'[p]
    BY DEF Turns
  <2>4. p # n => current_term[p] <= current_term'[p]
    BY <1>4, <2>3
  <2>5. p = n => \/ /\ running[n] /\ role[n] # "leader" /\ ~election_timer[n]
                    /\ current_term[n] <= current_term'[n]
                 \/ /\ role[n] = "leader" /\ current_term[n] < current_term'[n]
                    /\ \E m \in msgs : m.type # "ClientReply" /\ m.to = n
    BY DEF Turns
  <2> QED BY <2>1, <2>2, <2>3, <2>4, <2>5
<1> QED BY <1>5, <1>6, <1>7, <1>8 DEF HInv

(* Steps that leave the role and the timer alone, and send to others.      *)
LEMMA QuietTurns ==
  ASSUME TInv, NEW n \in Server, NEW new, msgs' = msgs \cup new,
         UNCHANGED <<current_term, role, leader_id, running, election_timer>>,
         running[n], \A x \in new : x.type # "ClientReply" => x.to # x.from
  PROVE  Turns(n, new)
<1>1. current_term[n] \in Nat
  BY DEF TInv, TypeOK
<1>2. current_term[n] <= current_term'[n]
  BY <1>1
<1> QED BY <1>2 DEF Turns

LEMMA QuietStepsTurn ==
  ASSUME TInv, HInv, NEW n \in Server,
         \/ \E m \in msgs : \/ CountVote(n, m)
                            \/ RefuseStaleLeader(n, m)
                            \/ OnAppendSuccess(n, m)
                            \/ OnAppendFailure(n, m)
         \/ \E r \in Request : OnClientRequest(n, r)
         \/ FireHeartbeat(n)
  PROVE  \E new : Turns(n, new)
<1> DEFINE ToOthers(x) == x.type # "ClientReply" => x.to # x.from
<1>1. \A p \in Peers(n) : p # n
  BY DEF Peers
<1>2. \A m \in msgs : m.to = n /\ m.type # "ClientReply" => m.from # n
  BY DEF HInv, NoneToSelf
<1>3. ASSUME NEW m \in msgs, CountVote(n, m)
      PROVE  \E new : Turns(n, new)
  <2>1. /\ msgs' = msgs \cup {} /\ running[n]
        /\ UNCHANGED <<current_term, role, leader_id, running, election_timer>>
    BY <1>3 DEF CountVote, CountsVote, Receives, hardVars, timerVars
  <2>2. Turns(n, {})
    BY <2>1, QuietTurns
  <2> QED BY <2>2
<1>4. ASSUME NEW m \in msgs, RefuseStaleLeader(n, m)
      PROVE  \E new : Turns(n, new)
  <2> DEFINE new == {AppendEntriesReply(n, m.from, current_term[n], FALSE, 0)}
  <2>1. /\ msgs' = msgs \cup new /\ running[n]
        /\ UNCHANGED <<current_term, role, leader_id, running, election_timer>>
    BY <1>4 DEF RefuseStaleLeader, Receives, Send, hardVars, timerVars
  <2>2. m.to = n /\ m.type = "AppendEntries"
    BY <1>4 DEF RefuseStaleLeader, Receives
  <2>3. \A x \in new : ToOthers(x)
    BY <1>2, <2>2 DEF AppendEntriesReply
  <2> HIDE DEF new
  <2>4. Turns(n, new)
    BY <2>1, <2>3, QuietTurns
  <2> QED BY <2>4
<1>5. ASSUME NEW m \in msgs, OnAppendSuccess(n, m)
      PROVE  \E new : Turns(n, new)
  <2>1. PICK c : msgs' = msgs \cup ReplyTo(n, Paid(n, pending_clients[n], c))
    BY <1>5 DEF OnAppendSuccess, Send
  <2> DEFINE new == ReplyTo(n, Paid(n, pending_clients[n], c))
  <2>2. running[n] /\ UNCHANGED <<current_term, role, leader_id, running, election_timer>>
    BY <1>5 DEF OnAppendSuccess, HearFollower, Receives, hardVars, timerVars
  <2>3. \A x \in new : ToOthers(x)
    BY DEF ReplyTo, ClientReply
  <2>4. msgs' = msgs \cup new
    BY <2>1
  <2> HIDE DEF new
  <2>5. Turns(n, new)
    BY <2>2, <2>3, <2>4, QuietTurns
  <2> QED BY <2>5
<1>6. ASSUME NEW m \in msgs, OnAppendFailure(n, m)
      PROVE  \E new : Turns(n, new)
  <2> DEFINE new == {AppendEntries(n, m.from, current_term[n], log[n],
                                   NextAfterFailure(n, m.from), commit_index[n])}
  <2>1. /\ msgs' = msgs \cup new /\ running[n]
        /\ UNCHANGED <<current_term, role, leader_id, running, election_timer>>
    BY <1>6 DEF OnAppendFailure, HearFollower, Receives, Send, hardVars, timerVars
  <2>2. m.to = n /\ m.type = "AppendEntriesReply"
    BY <1>6 DEF OnAppendFailure, HearFollower, Receives
  <2>3. \A x \in new : ToOthers(x)
    BY <1>2, <2>2 DEF AppendEntries
  <2> HIDE DEF new
  <2>4. Turns(n, new)
    BY <2>1, <2>3, QuietTurns
  <2> QED BY <2>4
<1>7. ASSUME NEW r \in Request, OnClientRequest(n, r)
      PROVE  \E new : Turns(n, new)
  <2>1. PICK longer, debts, c :
          msgs' = msgs \cup ({AppendEntries(n, p, current_term[n], longer,
                                            next_index[n][p], commit_index[n]) :
                                p \in Peers(n)}
                               \cup ReplyTo(n, Paid(n, debts, c)))
    BY <1>7 DEF OnClientRequest, Send
  <2> DEFINE new == {AppendEntries(n, p, current_term[n], longer, next_index[n][p],
                                   commit_index[n]) : p \in Peers(n)}
                      \cup ReplyTo(n, Paid(n, debts, c))
  <2>2. running[n] /\ UNCHANGED <<current_term, role, leader_id, running, election_timer>>
    BY <1>7 DEF OnClientRequest, timerVars
  <2>3. \A x \in new : ToOthers(x)
    BY <1>1 DEF AppendEntries, ReplyTo, ClientReply
  <2>4. msgs' = msgs \cup new
    BY <2>1
  <2> HIDE DEF new
  <2>5. Turns(n, new)
    BY <2>2, <2>3, <2>4, QuietTurns
  <2> QED BY <2>5
<1>8. ASSUME FireHeartbeat(n)
      PROVE  \E new : Turns(n, new)
  <2> DEFINE new == IF role[n] = "leader"
                    THEN {AppendEntries(n, p, current_term[n], log[n],
                                        next_index[n][p], commit_index[n]) : p \in Peers(n)}
                    ELSE {}
  <2>1. /\ msgs' = msgs \cup new /\ running[n]
        /\ UNCHANGED <<current_term, role, leader_id, running, election_timer>>
    BY <1>8 DEF FireHeartbeat, Send, hardVars
  <2>2. \A x \in new : ToOthers(x)
    BY <1>1 DEF AppendEntries
  <2> HIDE DEF new
  <2>3. Turns(n, new)
    BY <2>1, <2>2, QuietTurns
  <2> QED BY <2>3
<1> QED BY <1>3, <1>4, <1>5, <1>6, <1>7, <1>8

(* A vote asked for, and a reply from a newer term.                        *)
LEMMA FollowTurns ==
  ASSUME TInv, HInv, NEW n \in Server, NEW m \in msgs,
         \/ OnRequestVote(n, m)
         \/ VoteReplyFromNewerTerm(n, m)
         \/ AppendReplyFromNewerTerm(n, m)
  PROVE  \E new : Turns(n, new)
<1>1. m.type # "ClientReply" /\ m.to = n /\ running[n]
  BY DEF OnRequestVote, VoteReplyFromNewerTerm, AppendReplyFromNewerTerm, Receives
<1>2. m.term \in Nat /\ m.from # n
  <2>1. m \in Message
    BY DEF TInv, TypeOK
  <2> QED BY <1>1, <2>1, MessageFields DEF HInv, NoneToSelf
<1>3. /\ current_term \in [Server -> Nat] /\ role \in [Server -> Role]
      /\ leader_id \in [Server -> Server \cup {Nil}] /\ election_timer \in [Server -> BOOLEAN]
  BY DEF TInv, TypeOK
<1>4. current_term' = [current_term EXCEPT ![n] = TermAfter(n, m.term)]
  BY DEF OnRequestVote, VoteReplyFromNewerTerm, AppendReplyFromNewerTerm, StepDown
<1>5. /\ current_term[n] <= current_term'[n]
      /\ m.term > current_term[n] => current_term[n] < current_term'[n]
      /\ ~(m.term > current_term[n]) => current_term'[n] = current_term[n]
  BY <1>2, <1>3, <1>4 DEF TermAfter, Larger
<1>6. /\ running' = running
      /\ election_timer' \in {election_timer, [election_timer EXCEPT ![n] = @ \/ Grants(n, m)]}
      /\ m.term > current_term[n] =>
           /\ role' = [role EXCEPT ![n] = "follower"]
           /\ leader_id' = [leader_id EXCEPT ![n] = Nil]
      /\ ~(m.term > current_term[n]) => UNCHANGED <<role, leader_id>>
  BY DEF OnRequestVote, VoteReplyFromNewerTerm, AppendReplyFromNewerTerm, StepDown,
         BecomeFollower
<1>7. /\ ~election_timer'[n] => ~election_timer[n]
      /\ \A p \in Server : p # n => election_timer'[p] = election_timer[p]
  BY <1>3, <1>6
<1>8. \E new : /\ msgs' = msgs \cup new
               /\ \A x \in new : x.type # "ClientReply" => x.to # x.from
  <2>1. CASE OnRequestVote(n, m)
    <3> DEFINE new == {RequestVoteReply(n, m.from, TermAfter(n, m.term), Grants(n, m))}
    <3>1. msgs' = msgs \cup new
      BY <2>1 DEF OnRequestVote, Send
    <3>2. \A x \in new : x.to # x.from
      BY <1>2 DEF RequestVoteReply
    <3> HIDE DEF new
    <3> QED BY <3>1, <3>2
  <2>2. CASE msgs' = msgs
    <3> DEFINE new == {}
    <3>1. msgs' = msgs \cup new /\ \A x \in new : x.type # "ClientReply" => x.to # x.from
      BY <2>2
    <3> HIDE DEF new
    <3> QED BY <3>1
  <2> QED
    BY <2>1, <2>2 DEF VoteReplyFromNewerTerm, AppendReplyFromNewerTerm, StepDown
<1>9. PICK new : /\ msgs' = msgs \cup new
                 /\ \A x \in new : x.type # "ClientReply" => x.to # x.from
  BY <1>8
<1>10. CASE m.term > current_term[n]
  <2>1. role'[n] = "follower" /\ leader_id'[n] = Nil
    BY <1>3, <1>6, <1>10
  <2>2. \A p \in Server : p # n =>
          /\ role'[p] = role[p] /\ leader_id'[p] = leader_id[p]
          /\ running'[p] = running[p] /\ current_term'[p] = current_term[p]
    BY <1>3, <1>4, <1>6, <1>10
  <2>3. current_term[n] < current_term'[n] /\ current_term[n] <= current_term'[n]
    BY <1>5, <1>10
  <2>4. Turns(n, new)
    BY <1>1, <1>6, <1>7, <1>9, <2>1, <2>2, <2>3 DEF Turns
  <2> QED BY <2>4
<1>11. CASE ~(m.term > current_term[n])
  <2>1. UNCHANGED <<role, leader_id, running>> /\ current_term'[n] = current_term[n]
    BY <1>5, <1>6, <1>11
  <2>2. \A p \in Server : p # n => current_term'[p] = current_term[p]
    BY <1>3, <1>4
  <2>3. Turns(n, new)
    BY <1>1, <1>5, <1>7, <1>9, <2>1, <2>2 DEF Turns
  <2> QED BY <2>3
<1> QED BY <1>10, <1>11

(* A leader is heard.                                                      *)
LEMMA HearLeaderTurns ==
  ASSUME TInv, HInv, NEW n \in Server, NEW m \in msgs,
         RefuseGap(n, m) \/ TakeEntries(n, m)
  PROVE  \E new : Turns(n, new)
<1>1. /\ HearLeader(n, m) /\ running' = running
      /\ m.type = "AppendEntries" /\ m.to = n
  BY DEF RefuseGap, TakeEntries, HearLeader, Receives
<1>2. m.from # n
  BY <1>1 DEF HInv, NoneToSelf
<1>3. /\ current_term \in [Server -> Nat] /\ role \in [Server -> Role]
      /\ leader_id \in [Server -> Server \cup {Nil}] /\ election_timer \in [Server -> BOOLEAN]
  BY DEF TInv, TypeOK
<1>4. /\ current_term' = [current_term EXCEPT ![n] = TermAfter(n, m.term)]
      /\ role' = [role EXCEPT ![n] = "follower"]
      /\ leader_id' = [leader_id EXCEPT ![n] = m.from]
      /\ election_timer' = [election_timer EXCEPT ![n] = TRUE]
  BY <1>1 DEF HearLeader, BecomeFollower
<1>5. PICK success, match, paid :
        msgs' = msgs \cup ({AppendEntriesReply(n, m.from, TermAfter(n, m.term), success, match)}
                             \cup ReplyTo(n, paid))
  <2>1. CASE TakeEntries(n, m)
    BY <2>1 DEF TakeEntries, Send
  <2>2. CASE RefuseGap(n, m)
    <3>1. ReplyTo(n, {}) = {}
      BY DEF ReplyTo
    <3>2. msgs' = msgs \cup {AppendEntriesReply(n, m.from, TermAfter(n, m.term), FALSE, 0)}
      BY <2>2 DEF RefuseGap, Send
    <3>3. msgs' = msgs \cup ({AppendEntriesReply(n, m.from, TermAfter(n, m.term), FALSE, 0)}
                               \cup ReplyTo(n, {}))
      BY <3>1, <3>2
    <3> QED BY <3>3
  <2> QED BY <2>1, <2>2
<1> DEFINE new == {AppendEntriesReply(n, m.from, TermAfter(n, m.term), success, match)}
                    \cup ReplyTo(n, paid)
<1>6. \A x \in new : x.type # "ClientReply" => x.to # x.from
  BY <1>2 DEF AppendEntriesReply, ReplyTo, ClientReply
<1>7. msgs' = msgs \cup new
  BY <1>5
<1> HIDE DEF new
<1>8. role'[n] = "follower" /\ leader_id'[n] = m.from /\ election_timer'[n]
  BY <1>3, <1>4
<1>9. \A p \in Server : p # n =>
        /\ role'[p] = role[p] /\ leader_id'[p] = leader_id[p]
        /\ running'[p] = running[p] /\ election_timer'[p] = election_timer[p]
        /\ current_term'[p] = current_term[p]
  BY <1>1, <1>3, <1>4
<1>10. Turns(n, new)
  BY <1>1, <1>6, <1>7, <1>8, <1>9 DEF Turns, IsAppend
<1> QED BY <1>10

(* An election is won, and the new leader speaks to all its peers; or one  *)
(* is started.                                                             *)
LEMMA CampaignTurns ==
  ASSUME TInv, NEW n \in Server, ElectionTimeout(n) \/ \E m \in msgs : WinElection(n, m)
  PROVE  \E new : Turns(n, new)
<1>1. /\ current_term \in [Server -> Nat] /\ role \in [Server -> Role]
      /\ leader_id \in [Server -> Server \cup {Nil}] /\ election_timer \in [Server -> BOOLEAN]
  BY DEF TInv, TypeOK
<1>2. \A p \in Peers(n) : p # n
  BY DEF Peers
<1>3. ASSUME NEW t, BecomeLeader(n, t), current_term' = [current_term EXCEPT ![n] = t],
             running' = running
      PROVE  \E new : Turns(n, new)
  <2> DEFINE new == {AppendEntries(n, p, t, log[n], LastIndex(log[n]) + 1, commit_index[n]) :
                       p \in Peers(n)}
  <2>1. /\ role' = [role EXCEPT ![n] = "leader"]
        /\ leader_id' = [leader_id EXCEPT ![n] = n]
        /\ election_timer' = [election_timer EXCEPT ![n] = FALSE]
        /\ msgs' = msgs \cup new
    BY <1>3 DEF BecomeLeader, Send
  <2>2. \A x \in new : x.to # x.from
    BY <1>2 DEF AppendEntries
  <2>3. ASSUME NEW p \in Peers(n)
        PROVE  \E x \in new : IsAppend(x) /\ x.from = n /\ x.term = t
    <3>1. PICK x : x = AppendEntries(n, p, t, log[n], LastIndex(log[n]) + 1, commit_index[n])
      OBVIOUS
    <3>2. x \in new
      BY <3>1
    <3>3. x.type = "AppendEntries" /\ x.from = n /\ x.term = t
      BY <3>1 DEF AppendEntries
    <3> QED BY <3>2, <3>3 DEF IsAppend
  <2> HIDE DEF new
  <2>4. role'[n] = "leader" /\ current_term'[n] = t
    BY <1>1, <1>3, <2>1
  <2>5. \A p \in Server : p # n =>
          /\ role'[p] = role[p] /\ leader_id'[p] = leader_id[p]
          /\ running'[p] = running[p] /\ election_timer'[p] = election_timer[p]
          /\ current_term'[p] = current_term[p]
    BY <1>1, <1>3, <2>1
  <2>6. Turns(n, new)
    BY <2>1, <2>2, <2>3, <2>4, <2>5 DEF Turns
  <2> QED BY <2>6
<1>4. ASSUME NEW m \in msgs, WinElection(n, m)
      PROVE  \E new : Turns(n, new)
  <2>1. /\ BecomeLeader(n, current_term[n]) /\ running' = running
        /\ current_term' = current_term
    BY <1>4 DEF WinElection, hardVars
  <2>2. current_term' = [current_term EXCEPT ![n] = current_term[n]]
    BY <1>1, <2>1
  <2> QED BY <1>3, <2>1, <2>2
<1>5. CASE ElectionTimeout(n) /\ IsMajority({n})
  <2>1. /\ BecomeLeader(n, current_term[n] + 1) /\ running' = running
        /\ current_term' = [current_term EXCEPT ![n] = current_term[n] + 1]
    BY <1>5 DEF ElectionTimeout, Campaign
  <2> QED BY <1>3, <2>1
<1>6. CASE ElectionTimeout(n) /\ ~IsMajority({n})
  <2> DEFINE new == {RequestVote(n, p, current_term[n] + 1, log[n]) : p \in Peers(n)}
  <2>1. /\ role' = [role EXCEPT ![n] = "candidate"]
        /\ leader_id' = [leader_id EXCEPT ![n] = Nil]
        /\ current_term' = [current_term EXCEPT ![n] = @ + 1]
        /\ UNCHANGED <<running, election_timer>> /\ election_timer[n]
        /\ msgs' = msgs \cup new
    BY <1>6 DEF ElectionTimeout, Campaign, AskForVotes, Send, timerVars
  <2>2. \A x \in new : x.to # x.from
    BY <1>2 DEF RequestVote
  <2> HIDE DEF new
  <2>3. role'[n] = "candidate" /\ leader_id'[n] = Nil
    BY <1>1, <2>1
  <2>4. \A p \in Server : p # n =>
          /\ role'[p] = role[p] /\ leader_id'[p] = leader_id[p]
          /\ running'[p] = running[p] /\ election_timer'[p] = election_timer[p]
          /\ current_term'[p] = current_term[p]
    BY <1>1, <2>1
  <2>5. Turns(n, new)
    BY <2>1, <2>2, <2>3, <2>4 DEF Turns
  <2> QED BY <2>5
<1> QED BY <1>4, <1>5, <1>6

(* A node dies, or is started again.                                       *)
LEMMA DieTurns ==
  ASSUME TInv, NEW n \in Server, NEW d, Die(n, d)
  PROVE  Turns(n, {})
<1>1. /\ running \in [Server -> BOOLEAN] /\ current_term \in [Server -> Nat]
      /\ role \in [Server -> Role] /\ leader_id \in [Server -> Server \cup {Nil}]
      /\ election_timer \in [Server -> BOOLEAN]
  BY DEF TInv, TypeOK
<1>2. /\ running' = [running EXCEPT ![n] = FALSE]
      /\ current_term' = [current_term EXCEPT ![n] = 0]
      /\ role' = [role EXCEPT ![n] = "follower"]
      /\ leader_id' = [leader_id EXCEPT ![n] = Nil]
      /\ election_timer' = [election_timer EXCEPT ![n] = FALSE]
      /\ msgs' = msgs \cup {}
  BY DEF Die
<1>3. ~running'[n] /\ role'[n] = "follower" /\ leader_id'[n] = Nil
  BY <1>1, <1>2
<1>4. \A p \in Server : p # n =>
        /\ role'[p] = role[p] /\ leader_id'[p] = leader_id[p]
        /\ running'[p] = running[p] /\ election_timer'[p] = election_timer[p]
        /\ current_term'[p] = current_term[p]
  BY <1>1, <1>2
<1> QED BY <1>2, <1>3, <1>4 DEF Turns

LEMMA RestartTurns ==
  ASSUME TInv, NEW n \in Server, Restart(n)
  PROVE  Turns(n, {})
<1>1. /\ running \in [Server -> BOOLEAN] /\ current_term \in [Server -> Nat]
      /\ election_timer \in [Server -> BOOLEAN]
  BY DEF TInv, TypeOK
<1>2. /\ current_term' = [current_term EXCEPT ![n] = disk[n].current_term]
      /\ running' = [running EXCEPT ![n] = TRUE]
      /\ election_timer' = [election_timer EXCEPT ![n] = TRUE]
      /\ UNCHANGED <<role, leader_id>> /\ msgs' = msgs \cup {}
  BY DEF Restart
<1>3. role[n] = "leader" => current_term'[n] = current_term[n]
  <2> SUFFICES ASSUME role[n] = "leader" PROVE current_term'[n] = current_term[n]
    OBVIOUS
  <2>1. running[n]
    BY DEF TInv, DownIsFollower
  <2>2. disk[n].current_term = current_term[n]
    BY <2>1, DiskAgrees DEF TInv
  <2> QED BY <1>1, <1>2, <2>2
<1>4. \A p \in Server : p # n =>
        /\ running'[p] = running[p] /\ election_timer'[p] = election_timer[p]
        /\ current_term'[p] = current_term[p]
  BY <1>1, <1>2
<1> QED BY <1>1, <1>2, <1>3, <1>4 DEF Turns

(* Every step is of this form.                                             *)
LEMMA NextTurns ==
  ASSUME TInv, HInv, Next
  PROVE  \E n \in Server : \E new : Turns(n, new)
<1> SUFFICES ASSUME NEW n \in Server, Step(n) \/ \E r \in Request : OnRequest(n, r)
             PROVE  \E new : Turns(n, new)
  BY DEF Next
<1>1. ASSUME NEW m \in msgs, OnMessage(n, m)
      PROVE  \E new : Turns(n, new)
  <2>1. CASE \/ OnRequestVote(n, m) \/ VoteReplyFromNewerTerm(n, m)
             \/ AppendReplyFromNewerTerm(n, m)
    BY <2>1, FollowTurns
  <2>2. CASE \/ CountVote(n, m) \/ RefuseStaleLeader(n, m) \/ OnAppendSuccess(n, m)
             \/ OnAppendFailure(n, m)
    BY <2>2, QuietStepsTurn
  <2>3. CASE RefuseGap(n, m) \/ TakeEntries(n, m)
    BY <2>3, HearLeaderTurns
  <2>4. CASE WinElection(n, m)
    BY <2>4, CampaignTurns
  <2>5. CASE DiskErrorOnMessage(n, m)
    BY <2>5, DieTurns DEF DiskErrorOnMessage
  <2> QED BY <1>1, <2>1, <2>2, <2>3, <2>4, <2>5 DEF OnMessage
<1>2. CASE ElectionTimeout(n)
  BY <1>2, CampaignTurns
<1>3. CASE FireHeartbeat(n)
  BY <1>3, QuietStepsTurn
<1>4. CASE DiskErrorOnTimeout(n) \/ Crash(n)
  BY <1>4, DieTurns DEF DiskErrorOnTimeout, Crash
<1>5. CASE Restart(n)
  BY <1>5, RestartTurns
<1>6. ASSUME NEW r \in Request, OnRequest(n, r)
      PROVE  \E new : Turns(n, new)
  <2>1. CASE OnClientRequest(n, r)
    BY <2>1, QuietStepsTurn
  <2>2. CASE DiskErrorOnRequest(n, r)
    BY <2>2, DieTurns DEF DiskErrorOnRequest
  <2> QED BY <1>6, <2>1, <2>2 DEF OnRequest
<1> QED BY <1>1, <1>2, <1>3, <1>4, <1>5, <1>6 DEF Step

LEMMA HInvStep == TInv /\ HInv /\ [Next]_vars => HInv'
<1> SUFFICES ASSUME TInv, HInv, [Next]_vars PROVE HInv'
  OBVIOUS
<1>1. CASE Next
  <2>1. TInv'
    BY TInvStep
  <2>2. PICK n \in Server : \E new : Turns(n, new)
    BY <1>1, NextTurns
  <2>3. PICK new : Turns(n, new)
    BY <2>2
  <2> QED BY <2>1, <2>3, TurnsKeep
<1>2. CASE UNCHANGED vars
  BY <1>2 DEF vars, hardVars, commitVars, leaderVars, timerVars, HInv, NoneToSelf,
     LeadersSpoke, HintsSpoke, OnlyOldLeadersStandBy, SpokeIn, IsAppend
<1> QED BY <1>1, <1>2

LEMMA HInvInit == Init => HInv
<1> SUFFICES ASSUME Init PROVE HInv
  OBVIOUS
<1>1. msgs = {} /\ \A n \in Server : role[n] = "follower" /\ leader_id[n] = Nil /\ election_timer[n]
  BY DEF Init
<1> QED BY <1>1 DEF HInv, NoneToSelf, LeadersSpoke, HintsSpoke, OnlyOldLeadersStandBy

LEMMA HInvHolds == Spec => [](TInv /\ HInv)
BY TInvHolds, HInvInit, HInvStep, PTL DEF Spec

(* A running server that does not lead has its election timer, unless it   *)
(* led in an older term and has heard since of a newer one: a stepped-down *)
(* leader waits to be spoken to (raft/node.py, become_follower), and no    *)
(* other server can be left without a timer.                               *)
THEOREM OnlyOldLeadersWait == Spec => []OnlyOldLeadersStandBy
<1>1. HInv => OnlyOldLeadersStandBy
  BY DEF HInv
<1> QED BY <1>1, HInvHolds, PTL

-----------------------------------------------------------------------------
(* Somebody need not wait.                                                 *)

(* Who speaks in a term has it on its disk.                                *)
TermsReached ==
  \A m \in msgs : m.type # "ClientReply" => m.term <= disk[m.from].current_term

WInv == TermsReached /\ SomebodyCanStand

(* What a step of n may do to who waits: n waits afterwards only if it did *)
(* before, in its term, or if it hears of a newer term, and by then it is  *)
(* in none that is newer than that.                                        *)
Waits(n, new) ==
  /\ msgs' = msgs \cup new
  /\ \A x \in new : x.type # "ClientReply" => x.from = n /\ x.term <= disk'[n].current_term
  /\ \A p \in Server : p # n => disk'[p] = disk[p] /\ (CanStand(p) => CanStand(p)')
  /\ \/ CanStand(n)'
     \/ ~CanStand(n) /\ disk'[n].current_term = disk[n].current_term
     \/ \E m \in msgs : /\ m.type # "ClientReply"
                        /\ disk[n].current_term < m.term
                        /\ disk'[n].current_term <= m.term

LEMMA DisksMoveOn ==
  ASSUME TInv, EInv, Next
  PROVE  \A p \in Server : disk[p].current_term <= disk'[p].current_term
<1>1. PICK n \in Server : \E new : Elects(n, new)
  BY NextElects
<1>2. OthersVote(n) /\ MovesOn(n)
  BY <1>1 DEF Elects
<1>3. \A p \in Server : disk[p].current_term \in Nat
  BY DEF TInv, TypeOK, HardState
<1> QED
  BY <1>2, <1>3 DEF OthersVote, MovesOn

(* A step of this form keeps the invariant: whoever spoke in the newer     *)
(* term has reached it, and so has one that need not wait, which is not n. *)
LEMMA WaitsKeep ==
  ASSUME TInv, TInv', WInv, NEW n \in Server, NEW new, Waits(n, new),
         \A p \in Server : disk[p].current_term <= disk'[p].current_term
  PROVE  WInv'
<1> DEFINE T(p) == disk[p].current_term
<1>1. \A p \in Server : T(p) \in Nat /\ T(p)' \in Nat /\ T(p) <= T(p)'
  BY DEF TInv, TypeOK, HardState
<1>2. \A m \in msgs : m.type # "ClientReply" =>
        m.from \in Server /\ m.term \in Nat /\ m.term <= T(m.from)
  <2>1. \A m \in msgs : m \in Message
    BY DEF TInv, TypeOK
  <2> QED BY <2>1, MessageFields DEF WInv, TermsReached
<1>3. \A q \in Server : \E p \in Server : CanStand(p) /\ T(q) <= T(p)
  BY DEF WInv, SomebodyCanStand
<1>4. \A p \in Server : p # n => T(p)' = T(p) /\ (CanStand(p) => CanStand(p)')
  BY DEF Waits
<1>5. /\ msgs' = msgs \cup new
      /\ \A x \in new : x.type # "ClientReply" => x.from = n /\ x.term <= T(n)'
  BY DEF Waits
<1>6. \/ CanStand(n)'
      \/ ~CanStand(n) /\ T(n)' = T(n)
      \/ \E m \in msgs : m.type # "ClientReply" /\ T(n) < m.term /\ T(n)' <= m.term
  BY DEF Waits
<1> HIDE DEF T
<1>7. ASSUME NEW m \in msgs', m.type # "ClientReply" PROVE m.term <= T(m.from)'
  <2>1. CASE m \in msgs
    <3>1. m.from \in Server /\ m.term \in Nat /\ m.term <= T(m.from)
      BY <1>2, <1>7, <2>1
    <3>2. T(m.from) \in Nat /\ T(m.from)' \in Nat /\ T(m.from) <= T(m.from)'
      BY <1>1, <3>1
    <3> QED BY ONLY <3>1, <3>2
  <2>2. CASE m \in new
    BY <1>5, <1>7, <2>2
  <2> QED BY <1>5, <2>1, <2>2
<1>8. ASSUME NEW q \in Server PROVE \E p \in Server : CanStand(p)' /\ T(q)' <= T(p)'
  <2>1. PICK p \in Server : CanStand(p) /\ T(q) <= T(p)
    BY <1>3
  <2>2. CASE CanStand(n)'
    <3>1. CASE q = n
      BY <1>1, <2>2, <3>1
    <3>2. CASE q # n /\ p # n
      BY <1>1, <1>4, <2>1, <3>2
    <3>3. CASE q # n /\ p = n
      BY <1>1, <1>4, <2>1, <2>2, <3>3
    <3> QED BY <3>1, <3>2, <3>3
  <2>3. CASE ~CanStand(n) /\ T(n)' = T(n)
    <3>1. p # n
      BY <2>1, <2>3
    <3>2. CanStand(p)' /\ T(p)' = T(p) /\ T(q)' = T(q)
      BY <1>4, <2>1, <2>3, <3>1
    <3> QED BY <2>1, <3>2
  <2>4. CASE \E m \in msgs : m.type # "ClientReply" /\ T(n) < m.term /\ T(n)' <= m.term
    <3>1. PICK m \in msgs : m.type # "ClientReply" /\ T(n) < m.term /\ T(n)' <= m.term
      BY <2>4
    <3>2. m.from \in Server /\ m.term \in Nat /\ m.term <= T(m.from)
      BY <1>2, <3>1
    <3>3. PICK s \in Server : CanStand(s) /\ T(m.from) <= T(s)
      BY <1>3, <3>2
    <3>4. T(m.from) \in Nat /\ T(s) \in Nat /\ T(n) \in Nat /\ T(n)' \in Nat
      BY <1>1, <3>2
    <3>5. m.term <= T(s) /\ T(n) < T(s) /\ T(n)' <= T(s)
      BY ONLY <3>1, <3>2, <3>3, <3>4
    <3>6. s # n
      BY <3>4, <3>5
    <3>7. CanStand(s)' /\ T(s)' = T(s)
      BY <1>4, <3>3, <3>6
    <3>8. CASE q = n
      BY <3>5, <3>7, <3>8
    <3>9. CASE q # n /\ p # n
      BY <1>1, <1>4, <2>1, <3>9
    <3>10. CASE q # n /\ p = n
      <4>1. T(q)' = T(q) /\ T(q) <= T(n) /\ T(q) \in Nat
        BY <1>1, <1>4, <2>1, <3>10
      <4>2. T(q)' <= T(s)'
        BY ONLY <3>4, <3>5, <3>7, <4>1
      <4> QED BY <3>7, <4>2
    <3> QED BY <3>8, <3>9, <3>10
  <2> QED BY <1>6, <2>2, <2>3, <2>4
<1> QED BY <1>7, <1>8 DEF WInv, TermsReached, SomebodyCanStand, T

(* Steps that leave the role, the timer and the term alone.                *)
LEMMA QuietWaits ==
  ASSUME TInv, NEW n \in Server, NEW new, msgs' = msgs \cup new,
         UNCHANGED <<running, role, election_timer>>, running[n],
         \A p \in Server : p # n => disk'[p] = disk[p],
         disk'[n].current_term = disk[n].current_term,
         \A x \in new : x.type # "ClientReply" => x.from = n /\ x.term = current_term[n]
  PROVE  Waits(n, new)
<1>1. disk[n].current_term = current_term[n] /\ current_term[n] \in Nat
  BY DiskAgrees DEF TInv, TypeOK
<1>2. \A p \in Server : CanStand(p)' = CanStand(p)
  BY DEF CanStand
<1> QED BY <1>1, <1>2 DEF Waits

LEMMA QuietStepsWait ==
  ASSUME TInv, NEW n \in Server,
         \/ \E m \in msgs : \/ CountVote(n, m)
                            \/ RefuseStaleLeader(n, m)
                            \/ OnAppendSuccess(n, m)
                            \/ OnAppendFailure(n, m)
         \/ \E r \in Request : OnClientRequest(n, r)
         \/ FireHeartbeat(n)
  PROVE  \E new : Waits(n, new)
<1> DEFINE Own(x) == x.type # "ClientReply" => x.from = n /\ x.term = current_term[n]
<1>1. disk \in [Server -> HardState]
  BY DEF TInv, TypeOK
<1>2. ASSUME NEW new, msgs' = msgs \cup new, \A x \in new : Own(x), running[n],
             UNCHANGED <<running, role, election_timer, disk>>
      PROVE  \E s : Waits(n, s)
  <2>1. Waits(n, new)
    BY <1>2, QuietWaits
  <2> QED BY <2>1
<1>3. ASSUME NEW m \in msgs, CountVote(n, m) PROVE \E new : Waits(n, new)
  <2> DEFINE new == {}
  <2>1. /\ msgs' = msgs \cup new /\ running[n]
        /\ UNCHANGED <<running, role, election_timer, disk>>
    BY <1>3 DEF CountVote, CountsVote, Receives, hardVars, timerVars
  <2>2. \A x \in new : Own(x)
    OBVIOUS
  <2> HIDE DEF new
  <2> QED BY <1>2, <2>1, <2>2
<1>4. ASSUME NEW m \in msgs, RefuseStaleLeader(n, m) PROVE \E new : Waits(n, new)
  <2> DEFINE new == {AppendEntriesReply(n, m.from, current_term[n], FALSE, 0)}
  <2>1. /\ msgs' = msgs \cup new /\ running[n]
        /\ UNCHANGED <<running, role, election_timer, disk>>
    BY <1>4 DEF RefuseStaleLeader, Receives, Send, hardVars, timerVars
  <2>2. \A x \in new : Own(x)
    BY DEF AppendEntriesReply
  <2> HIDE DEF new
  <2> QED BY <1>2, <2>1, <2>2
<1>5. ASSUME NEW m \in msgs, OnAppendSuccess(n, m) PROVE \E new : Waits(n, new)
  <2>1. PICK c : msgs' = msgs \cup ReplyTo(n, Paid(n, pending_clients[n], c))
    BY <1>5 DEF OnAppendSuccess, Send
  <2>2. running[n] /\ UNCHANGED <<running, role, election_timer, disk>>
    BY <1>5 DEF OnAppendSuccess, HearFollower, Receives, hardVars, timerVars
  <2>3. \A x \in ReplyTo(n, Paid(n, pending_clients[n], c)) : Own(x)
    BY DEF ReplyTo, ClientReply
  <2> QED BY <1>2, <2>1, <2>2, <2>3
<1>6. ASSUME NEW m \in msgs, OnAppendFailure(n, m) PROVE \E new : Waits(n, new)
  <2> DEFINE new == {AppendEntries(n, m.from, current_term[n], log[n],
                                   NextAfterFailure(n, m.from), commit_index[n])}
  <2>1. /\ msgs' = msgs \cup new /\ running[n]
        /\ UNCHANGED <<running, role, election_timer, disk>>
    BY <1>6 DEF OnAppendFailure, HearFollower, Receives, Send, hardVars, timerVars
  <2>2. \A x \in new : Own(x)
    BY DEF AppendEntries
  <2> HIDE DEF new
  <2> QED BY <1>2, <2>1, <2>2
<1>7. ASSUME NEW r \in Request, OnClientRequest(n, r) PROVE \E new : Waits(n, new)
  <2>1. PICK longer, debts, c :
          msgs' = msgs \cup ({AppendEntries(n, p, current_term[n], longer,
                                            next_index[n][p], commit_index[n]) :
                                p \in Peers(n)}
                               \cup ReplyTo(n, Paid(n, debts, c)))
    BY <1>7 DEF OnClientRequest, Send
  <2> DEFINE new == {AppendEntries(n, p, current_term[n], longer, next_index[n][p],
                                   commit_index[n]) : p \in Peers(n)}
                      \cup ReplyTo(n, Paid(n, debts, c))
  <2>2. running[n] /\ UNCHANGED <<running, role, election_timer>>
    BY <1>7 DEF OnClientRequest, timerVars
  <2>3. \A x \in new : Own(x)
    BY DEF AppendEntries, ReplyTo, ClientReply
  <2>4. PICK e : disk' = [disk EXCEPT ![n].log = Append(@, e)]
    BY <1>7 DEF OnClientRequest
  <2>5. disk'[n].current_term = disk[n].current_term
    BY <1>1, <2>4 DEF HardState
  <2>6. \A p \in Server : p # n => disk'[p] = disk[p]
    BY <1>1, <2>4
  <2>7. msgs' = msgs \cup new
    BY <2>1
  <2> HIDE DEF new
  <2>8. Waits(n, new)
    BY <2>2, <2>3, <2>5, <2>6, <2>7, QuietWaits
  <2> QED BY <2>8
<1>8. ASSUME FireHeartbeat(n) PROVE \E new : Waits(n, new)
  <2> DEFINE new == IF role[n] = "leader"
                    THEN {AppendEntries(n, p, current_term[n], log[n],
                                        next_index[n][p], commit_index[n]) : p \in Peers(n)}
                    ELSE {}
  <2>1. /\ msgs' = msgs \cup new /\ running[n]
        /\ UNCHANGED <<running, role, election_timer, disk>>
    BY <1>8 DEF FireHeartbeat, Send, hardVars
  <2>2. \A x \in new : Own(x)
    BY DEF AppendEntries
  <2> HIDE DEF new
  <2> QED BY <1>2, <2>1, <2>2
<1> QED BY <1>3, <1>4, <1>5, <1>6, <1>7, <1>8

(* A vote asked for, and a reply from a newer term.                        *)
LEMMA FollowWaits ==
  ASSUME TInv, TInv', NEW n \in Server, NEW m \in msgs,
         \/ OnRequestVote(n, m)
         \/ VoteReplyFromNewerTerm(n, m)
         \/ AppendReplyFromNewerTerm(n, m)
  PROVE  \E new : Waits(n, new)
<1>1. m.type # "ClientReply" /\ running[n] /\ running' = running
  BY DEF OnRequestVote, VoteReplyFromNewerTerm, AppendReplyFromNewerTerm, Receives, StepDown
<1>2. m.term \in Nat
  <2>1. m \in Message
    BY DEF TInv, TypeOK
  <2> QED BY <1>1, <2>1, MessageFields
<1>3. /\ current_term \in [Server -> Nat] /\ role \in [Server -> Role]
      /\ election_timer \in [Server -> BOOLEAN] /\ disk \in [Server -> HardState]
  BY DEF TInv, TypeOK
<1>4. current_term' = [current_term EXCEPT ![n] = TermAfter(n, m.term)]
  BY DEF OnRequestVote, VoteReplyFromNewerTerm, AppendReplyFromNewerTerm, StepDown
<1>5. disk[n].current_term = current_term[n] /\ disk'[n].current_term = current_term'[n]
  <2>1. running'[n]
    BY <1>1
  <2> QED BY <1>1, <2>1 DEF TInv, TypeOK, MemoryIsDurable
<1>6. /\ current_term'[n] = TermAfter(n, m.term)
      /\ m.term > current_term[n] => current_term'[n] = m.term
      /\ ~(m.term > current_term[n]) => current_term'[n] = current_term[n]
  BY <1>2, <1>3, <1>4 DEF TermAfter, Larger
<1>7. /\ role' \in {role, [role EXCEPT ![n] = "follower"]}
      /\ election_timer' \in {election_timer, [election_timer EXCEPT ![n] = @ \/ Grants(n, m)]}
      /\ ~(m.term > current_term[n]) => UNCHANGED role
  BY DEF OnRequestVote, VoteReplyFromNewerTerm, AppendReplyFromNewerTerm, StepDown,
         BecomeFollower
<1>8. /\ election_timer[n] => election_timer'[n]
      /\ \A p \in Server : p # n => /\ election_timer'[p] = election_timer[p]
                                    /\ role'[p] = role[p]
  BY <1>3, <1>7
<1>9. \A p \in Server : p # n => disk'[p] = disk[p]
  <2>1. PICK d : disk' = [disk EXCEPT ![n] = d]
    BY DEF OnRequestVote, VoteReplyFromNewerTerm, AppendReplyFromNewerTerm, StepDown,
           PersistState, Persist
  <2> QED BY <1>3, <2>1
<1>10. PICK new : /\ msgs' = msgs \cup new
                  /\ \A x \in new : x.from = n /\ x.term = TermAfter(n, m.term)
  <2>1. CASE OnRequestVote(n, m)
    <3> DEFINE new == {RequestVoteReply(n, m.from, TermAfter(n, m.term), Grants(n, m))}
    <3>1. msgs' = msgs \cup new
      BY <2>1 DEF OnRequestVote, Send
    <3>2. \A x \in new : x.from = n /\ x.term = TermAfter(n, m.term)
      BY DEF RequestVoteReply
    <3> HIDE DEF new
    <3> QED BY <3>1, <3>2
  <2>2. CASE msgs' = msgs
    <3> DEFINE new == {}
    <3>1. msgs' = msgs \cup new
      BY <2>2
    <3>2. \A x \in new : x.from = n /\ x.term = TermAfter(n, m.term)
      OBVIOUS
    <3> HIDE DEF new
    <3> QED BY <3>1, <3>2
  <2> QED
    BY <2>1, <2>2 DEF VoteReplyFromNewerTerm, AppendReplyFromNewerTerm, StepDown
<1>11. /\ \A x \in new : x.type # "ClientReply" => x.from = n /\ x.term <= disk'[n].current_term
       /\ \A p \in Server : p # n => (CanStand(p) => CanStand(p)')
  <2>1. current_term'[n] \in Nat
    BY DEF TInv, TypeOK
  <2>2. \A x \in new : x.from = n /\ x.term <= disk'[n].current_term
    BY <1>5, <1>6, <1>10, <2>1
  <2> QED BY <1>1, <1>8, <2>2 DEF CanStand
<1>12. CASE m.term > current_term[n]
  <2>1. disk[n].current_term < m.term /\ disk'[n].current_term <= m.term
    BY <1>2, <1>3, <1>5, <1>6, <1>12
  <2>2. Waits(n, new)
    BY <1>1, <1>9, <1>10, <1>11, <2>1 DEF Waits
  <2> QED BY <2>2
<1>13. CASE ~(m.term > current_term[n])
  <2>1. disk'[n].current_term = disk[n].current_term
    BY <1>5, <1>6, <1>13
  <2>2. CanStand(n) => CanStand(n)'
    BY <1>1, <1>7, <1>8, <1>13 DEF CanStand
  <2>3. Waits(n, new)
    BY <1>9, <1>10, <1>11, <2>1, <2>2 DEF Waits
  <2> QED BY <2>3
<1> QED BY <1>12, <1>13

(* A step after which n need not wait.                                     *)
LEMMA StandingWaits ==
  ASSUME NEW n \in Server, NEW new, NEW d, msgs' = msgs \cup new, CanStand(n)',
         disk' = [disk EXCEPT ![n] = d], disk \in [Server -> HardState],
         \A p \in Server : p # n => /\ running'[p] = running[p] /\ role'[p] = role[p]
                                    /\ election_timer'[p] = election_timer[p],
         \A x \in new : x.type # "ClientReply" => x.from = n /\ x.term <= disk'[n].current_term
  PROVE  Waits(n, new)
<1>1. \A p \in Server : p # n => disk'[p] = disk[p] /\ (CanStand(p) => CanStand(p)')
  BY DEF CanStand
<1> QED BY <1>1 DEF Waits

(* A leader is heard: the timer is armed.                                  *)
LEMMA HearLeaderWaits ==
  ASSUME TInv, TInv', NEW n \in Server, NEW m \in msgs,
         RefuseGap(n, m) \/ TakeEntries(n, m)
  PROVE  \E new : Waits(n, new)
<1>1. HearLeader(n, m) /\ running' = running /\ running[n]
  BY DEF RefuseGap, TakeEntries, HearLeader, Receives
<1>2. /\ current_term \in [Server -> Nat] /\ role \in [Server -> Role]
      /\ election_timer \in [Server -> BOOLEAN] /\ disk \in [Server -> HardState]
  BY DEF TInv, TypeOK
<1>3. /\ current_term' = [current_term EXCEPT ![n] = TermAfter(n, m.term)]
      /\ role' = [role EXCEPT ![n] = "follower"]
      /\ election_timer' = [election_timer EXCEPT ![n] = TRUE]
  BY <1>1 DEF HearLeader, BecomeFollower
<1>4. PICK success, match, paid :
        msgs' = msgs \cup ({AppendEntriesReply(n, m.from, TermAfter(n, m.term), success, match)}
                             \cup ReplyTo(n, paid))
  <2>1. CASE TakeEntries(n, m)
    BY <2>1 DEF TakeEntries, Send
  <2>2. CASE RefuseGap(n, m)
    <3>1. ReplyTo(n, {}) = {}
      BY DEF ReplyTo
    <3>2. msgs' = msgs \cup {AppendEntriesReply(n, m.from, TermAfter(n, m.term), FALSE, 0)}
      BY <2>2 DEF RefuseGap, Send
    <3>3. msgs' = msgs \cup ({AppendEntriesReply(n, m.from, TermAfter(n, m.term), FALSE, 0)}
                               \cup ReplyTo(n, {}))
      BY <3>1, <3>2
    <3> QED BY <3>3
  <2> QED BY <2>1, <2>2
<1> DEFINE new == {AppendEntriesReply(n, m.from, TermAfter(n, m.term), success, match)}
                    \cup ReplyTo(n, paid)
<1>5. disk'[n].current_term = TermAfter(n, m.term) /\ disk'[n].current_term \in Nat
  <2>1. running'[n]
    BY <1>1
  <2>2. disk'[n].current_term = current_term'[n] /\ current_term'[n] \in Nat
    BY <2>1 DEF TInv, TypeOK, MemoryIsDurable
  <2> QED BY <1>2, <1>3, <2>2
<1>6. \A x \in new : x.type # "ClientReply" => x.from = n /\ x.term <= disk'[n].current_term
  BY <1>5 DEF AppendEntriesReply, ReplyTo, ClientReply
<1>7. msgs' = msgs \cup new
  BY <1>4
<1> HIDE DEF new
<1>8. PICK d : disk' = [disk EXCEPT ![n] = d]
  BY DEF RefuseGap, TakeEntries, PersistState, Persist
<1>9. CanStand(n)'
  BY <1>2, <1>3 DEF CanStand
<1>10. \A p \in Server : p # n => /\ running'[p] = running[p] /\ role'[p] = role[p]
                                  /\ election_timer'[p] = election_timer[p]
  BY <1>1, <1>2, <1>3
<1>11. Waits(n, new)
  BY <1>2, <1>6, <1>7, <1>8, <1>9, <1>10, StandingWaits
<1> QED BY <1>11

(* A winner leads; a candidate's timer stays armed.                        *)
LEMMA CampaignWaits ==
  ASSUME TInv, TInv', NEW n \in Server, ElectionTimeout(n) \/ \E m \in msgs : WinElection(n, m)
  PROVE  \E new : Waits(n, new)
<1>1. /\ current_term \in [Server -> Nat] /\ role \in [Server -> Role]
      /\ election_timer \in [Server -> BOOLEAN] /\ disk \in [Server -> HardState]
  BY DEF TInv, TypeOK
<1>2. running[n] /\ running' = running
  BY DEF ElectionTimeout, Campaign, WinElection, CountsVote, Receives
<1>3. disk'[n].current_term = current_term'[n] /\ current_term'[n] \in Nat
  <2>1. running'[n]
    BY <1>2
  <2> QED BY <2>1 DEF TInv, TypeOK, MemoryIsDurable
<1>4. PICK d : disk' = [disk EXCEPT ![n] = d]
  <2>1. disk = [disk EXCEPT ![n] = disk[n]]
    BY <1>1
  <2> QED BY <2>1 DEF ElectionTimeout, Campaign, PersistState, Persist, WinElection
<1>5. ASSUME NEW t, BecomeLeader(n, t), current_term'[n] = t
      PROVE  \E new : Waits(n, new)
  <2> DEFINE new == {AppendEntries(n, p, t, log[n], LastIndex(log[n]) + 1, commit_index[n]) :
                       p \in Peers(n)}
  <2>1. /\ role' = [role EXCEPT ![n] = "leader"]
        /\ election_timer' = [election_timer EXCEPT ![n] = FALSE]
        /\ msgs' = msgs \cup new
    BY <1>5 DEF BecomeLeader, Send
  <2>2. \A x \in new : x.from = n /\ x.term <= disk'[n].current_term
    BY <1>3, <1>5 DEF AppendEntries
  <2> HIDE DEF new
  <2>3. CanStand(n)'
    BY <1>1, <2>1 DEF CanStand
  <2>4. \A p \in Server : p # n => /\ running'[p] = running[p] /\ role'[p] = role[p]
                                   /\ election_timer'[p] = election_timer[p]
    BY <1>1, <1>2, <2>1
  <2>5. Waits(n, new)
    BY <1>1, <1>4, <2>1, <2>2, <2>3, <2>4, StandingWaits
  <2> QED BY <2>5
<1>6. ASSUME NEW m \in msgs, WinElection(n, m) PROVE \E new : Waits(n, new)
  <2>1. BecomeLeader(n, current_term[n]) /\ current_term' = current_term
    BY <1>6 DEF WinElection, hardVars
  <2> QED BY <1>5, <2>1
<1>7. ElectionTimeout(n) => current_term'[n] = current_term[n] + 1
  BY <1>1 DEF ElectionTimeout, Campaign
<1>8. CASE ElectionTimeout(n) /\ IsMajority({n})
  <2>1. BecomeLeader(n, current_term[n] + 1)
    BY <1>8 DEF ElectionTimeout
  <2> QED BY <1>5, <1>7, <1>8, <2>1
<1>9. CASE ElectionTimeout(n) /\ ~IsMajority({n})
  <2> DEFINE new == {RequestVote(n, p, current_term[n] + 1, log[n]) : p \in Peers(n)}
  <2>1. /\ role' = [role EXCEPT ![n] = "candidate"]
        /\ election_timer' = election_timer /\ election_timer[n]
        /\ msgs' = msgs \cup new
    BY <1>9 DEF ElectionTimeout, Campaign, AskForVotes, Send, timerVars
  <2>2. \A x \in new : x.from = n /\ x.term <= disk'[n].current_term
    BY <1>3, <1>7, <1>9 DEF RequestVote
  <2> HIDE DEF new
  <2>3. CanStand(n)'
    BY <2>1 DEF CanStand
  <2>4. \A p \in Server : p # n => /\ running'[p] = running[p] /\ role'[p] = role[p]
                                   /\ election_timer'[p] = election_timer[p]
    BY <1>1, <1>2, <2>1
  <2>5. Waits(n, new)
    BY <1>1, <1>4, <2>1, <2>2, <2>3, <2>4, StandingWaits
  <2> QED BY <2>5
<1> QED BY <1>6, <1>8, <1>9

(* Who is down need not wait, nor who has restarted.                       *)
LEMMA DieWaits ==
  ASSUME TInv, NEW n \in Server, NEW d, Die(n, d)
  PROVE  \E new : Waits(n, new)
<1>1. /\ running \in [Server -> BOOLEAN] /\ role \in [Server -> Role]
      /\ election_timer \in [Server -> BOOLEAN] /\ disk \in [Server -> HardState]
  BY DEF TInv, TypeOK
<1>2. /\ running' = [running EXCEPT ![n] = FALSE]
      /\ role' = [role EXCEPT ![n] = "follower"]
      /\ election_timer' = [election_timer EXCEPT ![n] = FALSE]
      /\ disk' = [disk EXCEPT ![n] = d]
      /\ msgs' = msgs \cup {}
  BY DEF Die
<1>3. CanStand(n)'
  BY <1>1, <1>2 DEF CanStand
<1>4. \A p \in Server : p # n => /\ running'[p] = running[p] /\ role'[p] = role[p]
                                 /\ election_timer'[p] = election_timer[p]
  BY <1>1, <1>2
<1> DEFINE new == {}
<1>5. msgs' = msgs \cup new /\ \A x \in new : x.from = n /\ x.term <= disk'[n].current_term
  BY <1>2
<1> HIDE DEF new
<1>6. Waits(n, new)
  BY <1>1, <1>2, <1>3, <1>4, <1>5, StandingWaits
<1> QED BY <1>6

LEMMA RestartWaits ==
  ASSUME TInv, NEW n \in Server, Restart(n)
  PROVE  \E new : Waits(n, new)
<1>1. /\ running \in [Server -> BOOLEAN] /\ role' = role
      /\ election_timer \in [Server -> BOOLEAN] /\ disk \in [Server -> HardState]
  BY DEF TInv, TypeOK, Restart
<1>2. /\ running' = [running EXCEPT ![n] = TRUE]
      /\ election_timer' = [election_timer EXCEPT ![n] = TRUE]
      /\ disk' = disk /\ msgs' = msgs \cup {}
  BY DEF Restart
<1>3. disk' = [disk EXCEPT ![n] = disk[n]]
  BY <1>1, <1>2
<1>4. CanStand(n)'
  BY <1>1, <1>2 DEF CanStand
<1>5. \A p \in Server : p # n => /\ running'[p] = running[p] /\ role'[p] = role[p]
                                 /\ election_timer'[p] = election_timer[p]
  BY <1>1, <1>2
<1> DEFINE new == {}
<1>6. msgs' = msgs \cup new /\ \A x \in new : x.from = n /\ x.term <= disk'[n].current_term
  BY <1>2
<1> HIDE DEF new
<1>7. Waits(n, new)
  BY <1>1, <1>2, <1>3, <1>4, <1>5, <1>6, StandingWaits
<1> QED BY <1>7

(* Every step is of this form.                                             *)
LEMMA NextWaits ==
  ASSUME TInv, TInv', Next
  PROVE  \E n \in Server : \E new : Waits(n, new)
<1> SUFFICES ASSUME NEW n \in Server, Step(n) \/ \E r \in Request : OnRequest(n, r)
             PROVE  \E new : Waits(n, new)
  BY DEF Next
<1>1. ASSUME NEW m \in msgs, OnMessage(n, m)
      PROVE  \E new : Waits(n, new)
  <2>1. CASE \/ OnRequestVote(n, m) \/ VoteReplyFromNewerTerm(n, m)
             \/ AppendReplyFromNewerTerm(n, m)
    BY <2>1, FollowWaits
  <2>2. CASE \/ CountVote(n, m) \/ RefuseStaleLeader(n, m) \/ OnAppendSuccess(n, m)
             \/ OnAppendFailure(n, m)
    BY <2>2, QuietStepsWait
  <2>3. CASE RefuseGap(n, m) \/ TakeEntries(n, m)
    BY <2>3, HearLeaderWaits
  <2>4. CASE WinElection(n, m)
    BY <2>4, CampaignWaits
  <2>5. CASE DiskErrorOnMessage(n, m)
    BY <2>5, DieWaits DEF DiskErrorOnMessage
  <2> QED BY <1>1, <2>1, <2>2, <2>3, <2>4, <2>5 DEF OnMessage
<1>2. CASE ElectionTimeout(n)
  BY <1>2, CampaignWaits
<1>3. CASE FireHeartbeat(n)
  BY <1>3, QuietStepsWait
<1>4. CASE DiskErrorOnTimeout(n) \/ Crash(n)
  BY <1>4, DieWaits DEF DiskErrorOnTimeout, Crash
<1>5. CASE Restart(n)
  BY <1>5, RestartWaits
<1>6. ASSUME NEW r \in Request, OnRequest(n, r)
      PROVE  \E new : Waits(n, new)
  <2>1. CASE OnClientRequest(n, r)
    BY <2>1, QuietStepsWait
  <2>2. CASE DiskErrorOnRequest(n, r)
    BY <2>2, DieWaits DEF DiskErrorOnRequest
  <2> QED BY <1>6, <2>1, <2>2 DEF OnRequest
<1> QED BY <1>1, <1>2, <1>3, <1>4, <1>5, <1>6 DEF Step

LEMMA WInvStep == TInv /\ EInv /\ WInv /\ [Next]_vars => WInv'
<1> SUFFICES ASSUME TInv, EInv, WInv, [Next]_vars PROVE WInv'
  OBVIOUS
<1>1. CASE Next
  <2>1. TInv' /\ \A p \in Server : disk[p].current_term <= disk'[p].current_term
    BY <1>1, TInvStep, DisksMoveOn
  <2>2. PICK n \in Server : \E new : Waits(n, new)
    BY <1>1, <2>1, NextWaits
  <2>3. PICK new : Waits(n, new)
    BY <2>2
  <2> QED BY <2>1, <2>3, WaitsKeep
<1>2. CASE UNCHANGED vars
  BY <1>2 DEF vars, hardVars, commitVars, leaderVars, timerVars, WInv, TermsReached,
     SomebodyCanStand, CanStand
<1> QED BY <1>1, <1>2

LEMMA WInvInit == Init => WInv
<1> SUFFICES ASSUME Init PROVE WInv
  OBVIOUS
<1>1. msgs = {} /\ \A n \in Server : election_timer[n] /\ disk[n].current_term = 0
  BY DEF Init
<1> QED BY <1>1 DEF WInv, TermsReached, SomebodyCanStand, CanStand

(* However many leaders have stepped down and stand by without a timer     *)
(* (raft/node.py, become_follower), for each server there is one in a term *)
(* no older that leads, has its timer, or restarts with it: they never all *)
(* wait for each other.                                                    *)
THEOREM NeverAllStandBy == Spec => []SomebodyCanStand
<1>1. TInv /\ EInv /\ WInv /\ [Next]_vars => WInv'
  BY WInvStep
<1>2. WInv => SomebodyCanStand
  BY DEF WInv
<1> QED BY <1>1, <1>2, EInvHolds, WInvInit, PTL DEF Spec

-----------------------------------------------------------------------------
(* Log matching.                                                           *)
(*                                                                         *)
(* The argument: let G[t] be the log of the leader of term t as far as it  *)
(* ever came, and empty if nobody led t.  A leader only appends, and there *)
(* is one to a term; an AppendEntries of term t is a slice of G[t]; so     *)
(* every log, in memory or on a disk, agrees up to each of its entries     *)
(* with G of the term of that entry.  Two logs that agree about a term     *)
(* then agree with the same G.                                             *)

(* a is the beginning of b.                                                *)
Begins(a, b) == Len(a) <= Len(b) /\ \A j \in 1 .. Len(a) : a[j] = b[j]

(* Up to each of its entries, lg is what the leader of its term had.       *)
AgreesAt(lg, G, i) ==
  /\ i <= Len(G[lg[i].term])
  /\ \A j \in 1 .. i : lg[j] = G[lg[i].term][j]
On(lg, G) == \A i \in 1 .. Len(lg) : AgreesAt(lg, G, i)

(* m is a piece of the log g, and names the term of the entry before it.   *)
SliceOf(m, g) ==
  /\ LastNew(m) <= Len(g)
  /\ m.prev_log_term = TermAt(g, m.prev_log_index)
  /\ \A k \in 1 .. Len(m.entries) : m.entries[k] = g[m.prev_log_index + k]

(* c has led term t: others heard of it, or there is nobody else.          *)
Led(c, t) ==
  \/ \E m \in msgs : IsAppend(m) /\ m.from = c /\ m.term = t
  \/ Server = {c} /\ disk[c].current_term >= t

LedNow(n) == Led(n, current_term[n])

GhostType(G) == G \in [Nat -> Seq(Entry)]
LeadersOn(G) == \A t \in Nat : On(G[t], G)
LogsOn(G) == \A n \in Server : On(log[n], G) /\ On(disk[n].log, G)
SlicesOn(G) == \A m \in msgs : IsAppend(m) => SliceOf(m, G[m.term])
LeadersHave(G) ==
  \A n \in Server : role[n] = "leader" =>
    log[n] = G[current_term[n]] /\ LedNow(n)
OnlyLed(G) == \A t \in Nat : G[t] # << >> => \E c \in Server : Led(c, t)

(* G is the history of the leaders' logs.                                  *)
History(G) ==
  /\ GhostType(G)
  /\ LeadersOn(G)
  /\ LogsOn(G)
  /\ SlicesOn(G)
  /\ LeadersHave(G)
  /\ OnlyLed(G)

-----------------------------------------------------------------------------
(* Logs and beginnings of logs.                                            *)

(* The beginning of a log agrees where the log does.                       *)
LEMMA BeginningOn ==
  ASSUME NEW G, NEW a \in Seq(Entry), NEW b \in Seq(Entry), On(b, G), Begins(a, b)
  PROVE  On(a, G)
<1> SUFFICES ASSUME NEW i \in 1 .. Len(a) PROVE AgreesAt(a, G, i)
  BY DEF On
<1>1. Len(a) \in Nat /\ Len(b) \in Nat /\ Len(a) <= Len(b)
  BY DEF Begins
<1>2. i \in 1 .. Len(b) /\ a[i] = b[i] /\ AgreesAt(b, G, i)
  BY <1>1 DEF Begins, On
<1>3. \A j \in 1 .. i : a[j] = b[j]
  BY <1>1 DEF Begins
<1> QED
  BY <1>2, <1>3 DEF AgreesAt

(* Two logs that agree about the term of an entry agree up to it.          *)
LEMMA SameTermSameLog ==
  ASSUME NEW G, NEW a \in Seq(Entry), NEW b \in Seq(Entry), On(a, G), On(b, G),
         NEW i \in Nat, 0 < i, i <= Len(a), i <= Len(b), a[i].term = b[i].term
  PROVE  \A j \in 1 .. i : a[j] = b[j]
<1>1. i \in 1 .. Len(a) /\ i \in 1 .. Len(b)
  OBVIOUS
<1>2. AgreesAt(a, G, i) /\ AgreesAt(b, G, i)
  BY <1>1 DEF On
<1> QED
  BY <1>2 DEF AgreesAt

(* What agrees with a history agrees with a longer one.                    *)
Extends(H, G) == \A t \in Nat : Begins(G[t], H[t])

(* A log on a history is on every longer one.                              *)
LEMMA OnExtends ==
  ASSUME NEW G, NEW H, GhostType(G), GhostType(H), Extends(H, G),
         NEW lg \in Seq(Entry), On(lg, G)
  PROVE  On(lg, H)
<1> SUFFICES ASSUME NEW i \in 1 .. Len(lg) PROVE AgreesAt(lg, H, i)
  BY DEF On
<1>1. AgreesAt(lg, G, i) /\ lg[i] \in Entry
  BY DEF On
<1>2. PICK t \in Nat : t = lg[i].term
  BY <1>1 DEF Entry
<1>3. i <= Len(G[t]) /\ \A j \in 1 .. i : lg[j] = G[t][j]
  BY <1>1, <1>2 DEF AgreesAt
<1>4. Begins(G[t], H[t])
  BY DEF Extends
<1>5. Len(G[t]) \in Nat /\ Len(H[t]) \in Nat
  <2>1. G[t] \in Seq(Entry) /\ H[t] \in Seq(Entry)
    BY DEF GhostType
  <2> QED
    BY <2>1
<1>6. i <= Len(H[t]) /\ \A j \in 1 .. i : lg[j] = H[t][j]
  BY <1>3, <1>4, <1>5 DEF Begins
<1> QED
  BY <1>2, <1>6 DEF AgreesAt

(* So does a slice of it.                                                  *)
LEMMA SliceExtends ==
  ASSUME NEW g \in Seq(Entry), NEW h \in Seq(Entry), Begins(g, h),
         NEW m, m.prev_log_index \in Nat, m.entries \in Seq(Entry), SliceOf(m, g)
  PROVE  SliceOf(m, h)
<1> DEFINE p == m.prev_log_index
           k == Len(m.entries)
<1>1. p \in Nat /\ k \in Nat /\ Len(g) \in Nat /\ Len(h) \in Nat
      /\ p + k <= Len(g) /\ Len(g) <= Len(h)
  BY DEF SliceOf, LastNew, Begins
<1>2. \A j \in 1 .. Len(g) : g[j] = h[j]
  BY DEF Begins
<1>3. LastNew(m) <= Len(h)
  BY <1>1 DEF LastNew
<1>4. m.prev_log_term = TermAt(h, p)
  <2>1. TermAt(g, p) = TermAt(h, p)
    <3> HIDE DEF p
    <3> QED
      BY <1>1, <1>2 DEF TermAt, SENTINEL_INDEX
  <2> QED
    BY <2>1 DEF SliceOf
<1>5. ASSUME NEW j \in 1 .. k PROVE m.entries[j] = h[p + j]
  <2>1. m.entries[j] = g[p + j]
    BY DEF SliceOf
  <2>2. p + j \in 1 .. Len(g)
    <3> HIDE DEF p, k
    <3> QED
      BY <1>1
  <2> QED
    BY <1>2, <2>1, <2>2
<1> QED
  BY <1>3, <1>4, <1>5 DEF SliceOf

(* Matching logs.                                                          *)
LEMMA HistoryMatches ==
  ASSUME TypeOK, NEW G, History(G)
  PROVE  LogMatching
<1> SUFFICES ASSUME NEW a \in Logs, NEW b \in Logs, NEW i \in 1 .. Smaller(Len(a), Len(b)),
                    a[i].term = b[i].term
             PROVE  SubSeq(a, 1, i) = SubSeq(b, 1, i)
  BY DEF LogMatching
<1>a. \A n \in Server : log[n] \in Seq(Entry) /\ disk[n].log \in Seq(Entry)
  BY DEF TypeOK, HardState
<1>b. \A n \in Server : On(log[n], G) /\ On(disk[n].log, G)
  BY DEF History, LogsOn
<1>1. /\ a \in Seq(Entry) /\ On(a, G)
      /\ b \in Seq(Entry) /\ On(b, G)
  BY <1>a, <1>b DEF Logs
<1>2. i \in Nat /\ 0 < i /\ i <= Len(a) /\ i <= Len(b)
  BY <1>1 DEF Smaller
<1>3. \A j \in 1 .. i : a[j] = b[j]
  BY <1>1, <1>2, SameTermSameLog
<1>4. SubSeq(a, 1, i) = [j \in 1 .. i |-> a[j]] /\ SubSeq(b, 1, i) = [j \in 1 .. i |-> b[j]]
  BY <1>1, <1>2
<1> QED
  BY <1>3, <1>4

-----------------------------------------------------------------------------
(* What a follower makes of an AppendEntries.                              *)

(* Up to the entries it holds already, its log is the leader's.            *)
LEMMA HeldIsLeaders ==
  ASSUME NEW G, GhostType(G), LeadersOn(G), NEW n \in Server,
         log[n] \in Seq(Entry), On(log[n], G),
         NEW m, m.term \in Nat, m.prev_log_index \in Nat, m.entries \in Seq(Entry),
         SliceOf(m, G[m.term]), Consistent(n, m),
         NEW h \in 0 .. Len(m.entries), Held(n, m, h)
  PROVE  /\ m.prev_log_index + h <= Len(log[n])
         /\ \A j \in 1 .. m.prev_log_index + h : log[n][j] = G[m.term][j]
<1> DEFINE l == log[n]
           g == G[m.term]
           p == m.prev_log_index
<1>1. l \in Seq(Entry) /\ g \in Seq(Entry) /\ On(l, G) /\ On(g, G)
  BY DEF GhostType, LeadersOn
<1>2. p \in Nat /\ h \in Nat /\ p + h <= Len(g) /\ h <= Len(m.entries)
      /\ Len(l) \in Nat /\ Len(g) \in Nat
  <2>1. p + Len(m.entries) <= Len(g) /\ Len(m.entries) \in Nat /\ Len(g) \in Nat
    BY <1>1 DEF SliceOf, LastNew
  <2>2. p \in Nat /\ h \in Nat /\ h <= Len(m.entries) /\ Len(l) \in Nat
    BY <1>1
  <2> HIDE DEF l, g, p
  <2> QED
    BY <2>1, <2>2
<1>3. CASE h = 0
  <2>1. p <= Len(l) /\ TermAt(l, p) = TermAt(g, p)
    BY DEF Consistent, HasEntry, SliceOf, LastIndex
  <2>2. CASE p = 0
    BY <1>2, <1>3, <2>1, <2>2
  <2>3. CASE p # 0
    <3>1. l[p].term = g[p].term
      BY <2>1, <2>3 DEF TermAt, SENTINEL_INDEX
    <3>2. p <= Len(g) /\ 0 < p
      <4> HIDE DEF l, g, p
      <4> QED
        BY <1>2, <2>3
    <3>3. \A j \in 1 .. p : l[j] = g[j]
      <4> HIDE DEF l, g, p
      <4>1. p \in Nat /\ 0 < p /\ p <= Len(l) /\ p <= Len(g)
        BY ONLY <1>2, <2>1, <3>2
      <4> QED
        BY ONLY <1>1, <3>1, <4>1, SameTermSameLog
    <3> QED
      BY <1>2, <1>3, <2>1, <3>3
  <2> QED
    BY <2>2, <2>3
<1>4. CASE h # 0
  <2>1. Holds(n, m, h) /\ h \in 1 .. Len(m.entries)
    BY <1>2, <1>4 DEF Held
  <2>2. p + h <= Len(l) /\ p + h # 0
    BY <1>2, <1>4, <2>1 DEF Holds, HasEntry, LastIndex
  <2>3. l[p + h].term = m.entries[h].term
    BY <2>1, <2>2 DEF Holds, TermAt, SENTINEL_INDEX
  <2>4. m.entries[h] = g[p + h]
    BY <2>1 DEF SliceOf
  <2>5. \A j \in 1 .. p + h : l[j] = g[j]
    <3>1. l[p + h].term = g[p + h].term
      BY <2>3, <2>4
    <3>2. p + h \in Nat /\ 0 < p + h
      <4> HIDE DEF l, g, p
      <4> QED
        BY <1>2, <2>2
    <3> HIDE DEF l, g, p
    <3> QED
      BY <1>1, <1>2, <2>2, <3>1, <3>2, SameTermSameLog
  <2> QED
    BY <2>2, <2>5
<1> QED
  BY <1>3, <1>4

(* Having taken them, its log is the leader's up to the last of them, and  *)
(* ends there unless it is its old one.                                    *)
Taken(n, m, h) == TruncateFrom(log[n], CutAt(n, m, h)) \o NewEntries(m, h)

(* It has all that the message brought from the leader.                    *)
LEMMA TakenIsLeaders ==
  ASSUME NEW G, GhostType(G), LeadersOn(G), NEW n \in Server,
         log[n] \in Seq(Entry), On(log[n], G),
         NEW m, m.term \in Nat, m.prev_log_index \in Nat, m.entries \in Seq(Entry),
         SliceOf(m, G[m.term]), Consistent(n, m),
         NEW h \in 0 .. Len(m.entries), Held(n, m, h)
  PROVE  /\ Taken(n, m, h) \in Seq(Entry)
         /\ LastNew(m) <= Len(Taken(n, m, h))
         /\ \A j \in 1 .. LastNew(m) : Taken(n, m, h)[j] = G[m.term][j]
         /\ Taken(n, m, h) = log[n] \/ Len(Taken(n, m, h)) = LastNew(m)
<1> DEFINE l == log[n]
           g == G[m.term]
           p == m.prev_log_index
           e == m.entries
           lg == TruncateFrom(l, CutAt(n, m, h)) \o NewEntries(m, h)
<1>1. /\ l \in Seq(Entry) /\ g \in Seq(Entry) /\ e \in Seq(Entry)
      /\ On(l, G) /\ On(g, G)
  BY DEF GhostType, LeadersOn
<1>2. /\ p \in Nat /\ h \in Nat /\ h <= Len(e) /\ p + Len(e) <= Len(g)
      /\ Len(l) \in Nat /\ Len(g) \in Nat /\ Len(e) \in Nat
  BY <1>1 DEF SliceOf, LastNew
<1>3. p + h <= Len(l) /\ \A j \in 1 .. p + h : l[j] = g[j]
  BY HeldIsLeaders
<1>t. lg = Taken(n, m, h)
  BY DEF Taken
<1>4. CASE h = Len(e)
  <2>1. CutAt(n, m, h) = Len(l) + 1 /\ NewEntries(m, h) = << >>
    <3>1. CutAt(n, m, h) = Len(l) + 1
      BY <1>4 DEF CutAt, LastIndex
    <3>2. NewEntries(m, h) = << >>
      BY <1>2, <1>4, SubSeqEmpty DEF NewEntries
    <3> QED
      BY <3>1, <3>2
  <2>2. TruncateFrom(l, Len(l) + 1) = l
    <3> HIDE DEF l
    <3> QED
      BY <1>2 DEF TruncateFrom, LastIndex
  <2>3. lg = l
    <3> HIDE DEF l
    <3> QED
      BY <1>1, <2>1, <2>2
  <2>4. LastNew(m) = p + h
    BY <1>4 DEF LastNew
  <2> HIDE DEF lg, l, g, p
  <2> QED
    BY <1>1, <1>3, <2>3, <2>4, <1>t DEF l, g
<1>5. CASE h # Len(e)
  <2> DEFINE T == TruncateFrom(l, p + h + 1)
             N == SubSeq(e, h + 1, Len(e))
  <2>1. lg = T \o N
    BY <1>5 DEF CutAt, NewEntries
  <2>2. T \in Seq(Entry) /\ Len(T) = p + h /\ \A j \in 1 .. p + h : T[j] = l[j]
    <3> HIDE DEF l, p
    <3>1. CASE p + h + 1 <= Len(l)
      <4>1. T = SubSeq(l, 1, p + h)
        BY <1>2, <3>1 DEF TruncateFrom, LastIndex
      <4>2. p + h \in 0 .. Len(l)
        BY <1>2, <1>3
      <4>3. /\ SubSeq(l, 1, p + h) \in Seq(Entry)
            /\ Len(SubSeq(l, 1, p + h)) = p + h
            /\ \A j \in 1 .. p + h : SubSeq(l, 1, p + h)[j] = l[j]
        <5> DEFINE q == p + h
        <5>1. q \in 0 .. Len(l)
          BY <4>2
        <5> HIDE DEF q
        <5>2. /\ SubSeq(l, 1, q) \in Seq(Entry) /\ Len(SubSeq(l, 1, q)) = q
              /\ \A j \in 1 .. q : SubSeq(l, 1, q)[j] = l[j]
          BY <1>1, <5>1
        <5> QED
          BY <5>2 DEF q
      <4> QED
        BY <4>1, <4>3
    <3>2. CASE ~(p + h + 1 <= Len(l))
      <4>1. T = l /\ Len(l) = p + h
        BY <1>2, <1>3, <3>2 DEF TruncateFrom, LastIndex
      <4> QED
        BY <1>1, <4>1
    <3> QED
      BY <3>1, <3>2
  <2>3. /\ N \in Seq(Entry) /\ Len(N) = Len(e) - h
        /\ \A k \in 1 .. Len(e) - h : N[k] = e[h + k]
    <3> HIDE DEF e
    <3> QED
      BY <1>1, <1>2, <1>5
  <2>4. \A k \in 1 .. Len(e) : e[k] = g[p + k]
    BY DEF SliceOf
  <2> HIDE DEF T, N, lg, l, g, p, e
  <2>0. T \in Seq(Entry) /\ N \in Seq(Entry)
    BY <2>2, <2>3
  <2>c. /\ lg \in Seq(Entry) /\ Len(lg) = Len(T) + Len(N)
        /\ \A j \in 1 .. Len(T) + Len(N) :
             lg[j] = IF j <= Len(T) THEN T[j] ELSE N[j - Len(T)]
    BY ONLY <2>0, <2>1, ConcatProperties
  <2>5. lg \in Seq(Entry) /\ Len(lg) = p + Len(e)
    BY ONLY <1>2, <2>2, <2>3, <2>c
  <2>6. ASSUME NEW j \in 1 .. p + Len(e) PROVE lg[j] = g[j]
    <3>1. CASE j <= p + h
      <4>1. j \in 1 .. p + h
        BY <1>2, <3>1
      <4>a. j \in 1 .. Len(T) + Len(N) /\ j <= Len(T)
        BY ONLY <1>2, <2>2, <2>3, <3>1, j \in 1 .. p + Len(e)
      <4>2. lg[j] = T[j]
        BY ONLY <2>c, <4>a
      <4> QED
        BY <1>3, <2>2, <4>1, <4>2
    <3>2. CASE ~(j <= p + h)
      <4>b. j \in Nat /\ j > p + h /\ j <= p + Len(e)
        BY <1>2, <3>2
      <4>c. j - (p + h) \in 1 .. Len(e) - h
        BY <1>2, <4>b
      <4>0. j \in Len(T) + 1 .. Len(T) + Len(N) /\ j - (p + h) \in 1 .. Len(e) - h
        BY <1>2, <2>2, <2>3, <4>b, <4>c
      <4>d. j \in 1 .. Len(T) + Len(N) /\ ~(j <= Len(T))
        BY ONLY <1>2, <2>2, <2>3, <4>0
      <4>a. lg[j] = N[j - Len(T)]
        BY ONLY <2>c, <4>d
      <4>e. Len(T) = p + h
        BY <2>2
      <4>f. lg[j] = N[j - (p + h)]
        BY ONLY <4>a, <4>e
      <4>1. lg[j] = N[j - (p + h)] /\ j - (p + h) \in 1 .. Len(e) - h
        BY ONLY <4>0, <4>f
      <4>2. N[j - (p + h)] = e[h + (j - (p + h))] /\ h + (j - (p + h)) = j - p
        <5>1. N[j - (p + h)] = e[h + (j - (p + h))]
          BY ONLY <2>3, <4>1
        <5> QED
          BY ONLY <1>2, <4>b, <5>1
      <4>3. j - p \in 1 .. Len(e) /\ p + (j - p) = j
        BY <1>2, <3>2
      <4>4. e[j - p] = g[p + (j - p)]
        BY <2>4, <4>3
      <4> QED
        BY <4>1, <4>2, <4>3, <4>4
    <3> QED
      BY <3>1, <3>2
  <2>7. LastNew(m) = p + Len(e)
    BY DEF LastNew, p, e
  <2>8. LastNew(m) <= Len(lg) /\ Len(lg) = LastNew(m)
    BY ONLY <1>2, <2>5, <2>7
  <2>9. \A j \in 1 .. LastNew(m) : lg[j] = g[j]
    BY <2>6, <2>7
  <2> QED
    BY <2>5, <2>8, <2>9, <1>t DEF l, g
<1> QED
  BY <1>4, <1>5

(* So it is its old one or a beginning of the leader's.                    *)
LEMMA TakenOn ==
  ASSUME NEW G, GhostType(G), LeadersOn(G), NEW n \in Server,
         log[n] \in Seq(Entry), On(log[n], G),
         NEW m, m.term \in Nat, m.prev_log_index \in Nat, m.entries \in Seq(Entry),
         SliceOf(m, G[m.term]), Consistent(n, m),
         NEW h \in 0 .. Len(m.entries), Held(n, m, h)
  PROVE  LET lg == TruncateFrom(log[n], CutAt(n, m, h)) \o NewEntries(m, h)
         IN lg \in Seq(Entry) /\ On(lg, G)
<1> DEFINE lg == Taken(n, m, h)
           g == G[m.term]
<1>1. /\ lg \in Seq(Entry)
      /\ \A j \in 1 .. LastNew(m) : lg[j] = g[j]
      /\ lg = log[n] \/ Len(lg) = LastNew(m)
  BY TakenIsLeaders
<1>2. g \in Seq(Entry) /\ On(g, G) /\ LastNew(m) <= Len(g)
  BY DEF GhostType, LeadersOn, SliceOf
<1> HIDE DEF lg, g
<1>3. CASE lg = log[n]
  BY <1>1, <1>3 DEF lg, Taken
<1>4. CASE Len(lg) = LastNew(m)
  <2>1. Begins(lg, g)
    BY <1>1, <1>2, <1>4 DEF Begins
  <2>2. On(lg, G)
    BY <1>1, <1>2, <2>1, BeginningOn
  <2> QED
    BY <1>1, <2>2 DEF lg, Taken
<1> QED
  BY <1>1, <1>3, <1>4

(* What a crash in the middle of the write leaves is a beginning of the    *)
(* log as it was or as it should have become.                              *)
LEMMA TornBegins ==
  ASSUME NEW d, d.log \in Seq(Entry), NEW cut \in Nat \ {0}, NEW new \in Seq(Entry),
         NEW t, NEW v, NEW x \in AfterTear(d, cut, new, t, v), d \in HardState
  PROVE  /\ x.log \in Seq(Entry)
         /\ \/ Begins(x.log, d.log)
            \/ Begins(x.log, TruncateFrom(d.log, cut) \o new)
<1> DEFINE T == TruncateFrom(d.log, cut)
<1>1. T \in Seq(Entry)
  BY TruncateType
<1> HIDE DEF T
<1>2. CASE x = d
  BY <1>2 DEF Begins
<1>3. CASE x = AfterWrite(d, cut, new, t, v)
  <2>1. x.log = T \o new
    BY <1>3 DEF AfterWrite, T
  <2> QED
    BY <1>1, <2>1 DEF Begins, T
<1>4. ASSUME NEW k \in 0 .. Len(new), x = [d EXCEPT !.log = T \o SubSeq(new, 1, k)]
      PROVE  x.log \in Seq(Entry) /\ Begins(x.log, T \o new)
  <2>1. x.log = T \o SubSeq(new, 1, k)
    BY <1>4 DEF HardState
  <2>2. /\ SubSeq(new, 1, k) \in Seq(Entry) /\ Len(SubSeq(new, 1, k)) = k
        /\ \A j \in 1 .. k : SubSeq(new, 1, k)[j] = new[j]
    OBVIOUS
  <2> QED
    BY <1>1, <2>1, <2>2 DEF Begins
<1> QED
  BY <1>2, <1>3, <1>4 DEF AfterTear, T

-----------------------------------------------------------------------------
(* A step of n that makes the history H of G.                              *)

OthersStay(n) ==
  \A p \in Server : p # n =>
    /\ log'[p] = log[p]
    /\ disk'[p].log = disk[p].log
    /\ role'[p] = role[p]
    /\ current_term'[p] = current_term[p]

Carries(n, G, H) ==
  /\ GhostType(H)
  /\ Extends(H, G)
  /\ LeadersOn(H)
  /\ OthersStay(n)
  /\ On(log'[n], H)
  /\ On(disk'[n].log, H)
  /\ \A m \in msgs' : IsAppend(m) => m \in msgs \/ SliceOf(m, H[m.term])
  /\ role'[n] = "leader" =>
       /\ log'[n] = H[current_term'[n]]
       /\ Led(n, current_term'[n]) \/ LedNow(n)'
  /\ \A p \in Server : p # n /\ role[p] = "leader" =>
       H[current_term[p]] = G[current_term[p]]
  /\ \A t \in Nat : H[t] = G[t] \/ \E c \in Server : Led(c, t) \/ Led(c, t)'

(* Whoever has led a term will always have.                                *)
LEMMA LedStays ==
  ASSUME TInv, Next, NEW c \in Server, NEW t \in Nat, Led(c, t), EInv
  PROVE  Led(c, t)'
<1>0. PICK n \in Server : \E new : Elects(n, new)
  BY NextElects
<1>1. PICK new : Elects(n, new)
  BY <1>0
<1>2. msgs \subseteq msgs'
  BY <1>1 DEF Elects
<1>3. disk[c].current_term <= disk'[c].current_term
      /\ disk[c].current_term \in Nat /\ disk'[c].current_term \in Nat
  <2>1. disk[c].current_term \in Nat
    BY DEF TInv, TypeOK, HardState
  <2>2. CASE c = n
    BY <1>1, <2>1, <2>2 DEF Elects, MovesOn
  <2>3. CASE c # n
    BY <1>1, <2>1, <2>3 DEF Elects, OthersVote
  <2> QED
    BY <2>2, <2>3
<1> QED
  BY <1>2, <1>3 DEF Led

(* Such a step keeps the history of the leaders' logs.                     *)
LEMMA CarriesKeeps ==
  ASSUME TInv, TInv', EInv, Next, NEW n \in Server, NEW G, NEW H,
         History(G), Carries(n, G, H)
  PROVE  History(H)'
<1>1. GhostType(G) /\ GhostType(H) /\ Extends(H, G) /\ LeadersOn(H)
  BY DEF History, Carries
<1>2. LogsOn(H)'
  <2>1. ASSUME NEW p \in Server
        PROVE  On(log'[p], H) /\ On(disk'[p].log, H)
    <3>1. CASE p = n
      BY <3>1 DEF Carries
    <3>2. CASE p # n
      <4>1. log'[p] = log[p] /\ disk'[p].log = disk[p].log
        BY <3>2 DEF Carries, OthersStay
      <4>2. log[p] \in Seq(Entry) /\ disk[p].log \in Seq(Entry)
        BY DEF TInv, TypeOK, HardState
      <4>3. On(log[p], G) /\ On(disk[p].log, G)
        BY DEF History, LogsOn
      <4>4. On(log[p], H) /\ On(disk[p].log, H)
        BY <1>1, <4>2, <4>3, OnExtends
      <4> QED
        BY <4>1, <4>4
    <3> QED
      BY <3>1, <3>2
  <2> QED
    BY <2>1 DEF LogsOn
<1>3. SlicesOn(H)'
  <2>1. ASSUME NEW m \in msgs', IsAppend(m)
        PROVE  SliceOf(m, H[m.term])
    <3>1. CASE m \in msgs
      <4>1. m \in Message
        BY <3>1 DEF TInv, TypeOK
      <4>2. m.term \in Nat /\ m.prev_log_index \in Nat /\ m.entries \in Seq(Entry)
        BY <2>1, <4>1, MessageFields DEF IsAppend
      <4>3. SliceOf(m, G[m.term])
        BY <2>1, <3>1 DEF History, SlicesOn
      <4>4. G[m.term] \in Seq(Entry) /\ H[m.term] \in Seq(Entry)
        BY <1>1, <4>2 DEF GhostType
      <4>5. Begins(G[m.term], H[m.term])
        BY <1>1, <4>2 DEF Extends
      <4> QED
        BY <4>2, <4>3, <4>4, <4>5, SliceExtends
    <3>2. CASE m \notin msgs
      BY <2>1, <3>2 DEF Carries
    <3> QED
      BY <3>1, <3>2
  <2> QED
    BY <2>1 DEF SlicesOn
<1>4. LeadersHave(H)'
  <2>1. ASSUME NEW p \in Server, role'[p] = "leader"
        PROVE  log'[p] = H[current_term'[p]] /\ LedNow(p)'
    <3>1. current_term'[p] \in Nat /\ current_term[p] \in Nat
      BY DEF TInv, TypeOK
    <3>2. CASE p = n
      <4>1. /\ log'[p] = H[current_term'[p]]
            /\ Led(p, current_term'[p]) \/ LedNow(p)'
        BY <2>1, <3>2 DEF Carries
      <4>2. PICK t \in Nat : t = current_term'[p]
        BY <3>1
      <4>3. Led(p, t) => Led(p, t)'
        BY LedStays
      <4>4. Led(p, t)' => LedNow(p)'
        BY <4>2 DEF Led, LedNow
      <4>5. LedNow(p)'
        BY <4>1, <4>2, <4>3, <4>4
      <4> QED
        BY <4>1, <4>5
    <3>3. CASE p # n
      <4>1. role[p] = "leader" /\ current_term'[p] = current_term[p] /\ log'[p] = log[p]
        BY <2>1, <3>3 DEF Carries, OthersStay
      <4>2. log[p] = G[current_term[p]] /\ LedNow(p)
        BY <4>1 DEF History, LeadersHave
      <4>3. H[current_term[p]] = G[current_term[p]]
        BY <3>3, <4>1 DEF Carries
      <4>4. PICK t \in Nat : t = current_term[p]
        BY <3>1
      <4>5. Led(p, t)
        BY <4>2, <4>4 DEF LedNow
      <4>7. Led(p, t)'
        BY <4>5, LedStays
      <4>8. LedNow(p)'
        BY <4>1, <4>4, <4>7 DEF Led, LedNow
      <4> QED
        BY <4>1, <4>2, <4>3, <4>8
    <3> QED
      BY <3>2, <3>3
  <2> QED
    BY <2>1 DEF LeadersHave
<1>5. OnlyLed(H)'
  <2>1. ASSUME NEW t \in Nat, H[t] # << >>
        PROVE  \E c \in Server : Led(c, t)'
    <3>1. H[t] = G[t] \/ \E c \in Server : Led(c, t) \/ Led(c, t)'
      BY DEF Carries
    <3>2. CASE H[t] = G[t]
      <4>1. PICK c \in Server : Led(c, t)
        BY <2>1, <3>2 DEF History, OnlyLed
      <4> QED
        BY <4>1, LedStays
    <3>3. CASE \E c \in Server : Led(c, t) \/ Led(c, t)'
      BY <3>3, LedStays
    <3> QED
      BY <3>1, <3>2, <3>3
  <2> QED
    BY <2>1 DEF OnlyLed
<1> QED
  BY <1>1, <1>2, <1>3, <1>4, <1>5 DEF History

(* A step that adds nothing to the leaders' logs.                          *)
LEMMA StaysCarries ==
  ASSUME NEW n \in Server, NEW G, History(G), OthersStay(n),
         On(log'[n], G), On(disk'[n].log, G),
         \A m \in msgs' : IsAppend(m) => m \in msgs \/ SliceOf(m, G[m.term]),
         role'[n] = "leader" =>
           role[n] = "leader" /\ log'[n] = log[n] /\ current_term'[n] = current_term[n]
  PROVE  Carries(n, G, G)
<1>1. GhostType(G) /\ LeadersOn(G)
  BY DEF History
<1>2. Extends(G, G)
  <2>1. ASSUME NEW t \in Nat PROVE Begins(G[t], G[t])
    <3>1. G[t] \in Seq(Entry)
      BY <1>1 DEF GhostType
    <3> QED
      BY <3>1 DEF Begins
  <2> QED
    BY <2>1 DEF Extends
<1>3. role'[n] = "leader" =>
        /\ log'[n] = G[current_term'[n]]
        /\ Led(n, current_term'[n])
  BY DEF History, LeadersHave, LedNow
<1> QED
  BY <1>1, <1>2, <1>3 DEF Carries

-----------------------------------------------------------------------------
(* The steps.                                                              *)

(* A slice of a log from an index in its range.                            *)
LEMMA LeaderSlice ==
  ASSUME NEW n, NEW p, NEW t, NEW g \in Seq(Entry), NEW next \in 1 .. Len(g) + 1, NEW c
  PROVE  SliceOf(AppendEntries(n, p, t, g, next, c), g)
<1> DEFINE m == AppendEntries(n, p, t, g, next, c)
           e == IF next <= LastIndex(g) THEN SliceFrom(g, next) ELSE << >>
<1>1. m.prev_log_index = next - 1 /\ m.prev_log_term = TermAt(g, next - 1) /\ m.entries = e
  BY DEF AppendEntries
<1>2. Len(g) \in Nat /\ next \in Nat
  OBVIOUS
<1>3. /\ next - 1 + Len(e) = Len(g)
      /\ \A k \in 1 .. Len(e) : e[k] = g[next - 1 + k]
  <2>1. CASE next <= Len(g)
    <3>1. e = SubSeq(g, next, Len(g))
      BY <2>1 DEF SliceFrom, LastIndex
    <3>2. /\ Len(SubSeq(g, next, Len(g))) = Len(g) - next + 1
          /\ \A k \in 1 .. Len(g) - next + 1 : SubSeq(g, next, Len(g))[k] = g[next + k - 1]
      BY <1>2, <2>1
    <3> HIDE DEF e
    <3>3. Len(e) = Len(g) - next + 1
      BY <3>1, <3>2
    <3>4. ASSUME NEW k \in 1 .. Len(e) PROVE e[k] = g[next - 1 + k]
      <4>1. e[k] = g[next + k - 1]
        BY <3>1, <3>2, <3>3
      <4>2. next + k - 1 = next - 1 + k
        BY <1>2, <3>3
      <4> QED
        BY <4>1, <4>2
    <3> QED
      BY <1>2, <3>3, <3>4
  <2>2. CASE ~(next <= Len(g))
    <3>1. e = << >> /\ next - 1 = Len(g)
      BY <1>2, <2>2 DEF LastIndex
    <3> HIDE DEF e
    <3> QED
      BY <1>2, <3>1
  <2> QED
    BY <2>1, <2>2
<1> HIDE DEF m, e
<1>4. SliceOf(m, g)
  BY <1>1, <1>2, <1>3 DEF SliceOf, LastNew
<1> QED
  BY <1>4 DEF m

(* What a leader sends is a slice of the history of its term.              *)
LEMMA LeaderSlices ==
  ASSUME TInv, NEW G, GhostType(G), NEW n \in Server, role[n] = "leader",
         NEW lg \in Seq(Entry), Len(lg) >= LastIndex(log[n]), lg = G[current_term[n]],
         NEW p \in Peers(n)
  PROVE  LET m == AppendEntries(n, p, current_term[n], lg, next_index[n][p], commit_index[n])
         IN SliceOf(m, G[m.term])
<1> DEFINE m == AppendEntries(n, p, current_term[n], lg, next_index[n][p], commit_index[n])
<1>1. p \in Server /\ LastIndex(log[n]) \in Nat
  BY DEF Peers, TInv, TypeOK, LastIndex
<1>2. next_index[n][p] \in 1 .. LastIndex(log[n]) + 1
  BY <1>1 DEF TInv, NextInRange
<1>3. next_index[n][p] \in 1 .. Len(lg) + 1
  BY <1>1, <1>2
<1>4. SliceOf(m, lg)
  BY <1>3, LeaderSlice
<1>5. m.term = current_term[n]
  BY DEF AppendEntries
<1> HIDE DEF m
<1>6. SliceOf(m, G[m.term])
  BY <1>4, <1>5
<1> QED
  BY <1>6 DEF m

(* Writing the term and the vote leaves the logs on the disks alone.       *)
LEMMA StateWritten ==
  ASSUME TInv, NEW n \in Server, running[n],
         NEW t \in Nat, NEW v \in Server \cup {Nil}, PersistState(n, t, v)
  PROVE  disk'[n].log = log[n] /\ \A p \in Server : p # n => disk'[p] = disk[p]
<1>1. /\ disk'[n] = [current_term |-> t, voted_for |-> v, log |-> log[n]]
      /\ \A p \in Server : p # n => disk'[p] = disk[p]
  BY PersistStateWrites DEF TInv
<1> QED
  BY <1>1

(* What a handler has written.                                             *)
LEMMA LogWritten ==
  ASSUME TInv, NEW n \in Server, running[n],
         NEW cut \in Nat \ {0}, NEW new \in Seq(Entry),
         NEW t \in Nat, NEW v \in Server \cup {Nil}, Persist(n, cut, new, t, v)
  PROVE  /\ disk'[n].log = TruncateFrom(log[n], cut) \o new
         /\ disk'[n].current_term = t
         /\ \A p \in Server : p # n => disk'[p] = disk[p]
<1> DEFINE lg == TruncateFrom(disk[n].log, cut) \o new
           w == [current_term |-> t, voted_for |-> v, log |-> lg]
<1>1. disk' = [disk EXCEPT ![n] = w]
  BY DEF Persist, Written, AfterWrite
<1>2. w.log = lg /\ w.current_term = t
  OBVIOUS
<1>3. disk[n].log = log[n]
  BY DiskAgrees DEF TInv
<1>4. lg = TruncateFrom(log[n], cut) \o new
  BY <1>3
<1>5. disk \in [Server -> HardState]
  BY DEF TInv, TypeOK
<1> HIDE DEF lg, w
<1>6. disk'[n] = w /\ \A p \in Server : p # n => disk'[p] = disk[p]
  BY ONLY <1>1, <1>5, n \in Server
<1> QED
  BY ONLY <1>2, <1>4, <1>6

(* Stepping down.                                                          *)
LEMMA StepDownCarries ==
  ASSUME TInv, NEW n \in Server, running[n], NEW t \in Nat, StepDown(n, t),
         NEW G, History(G)
  PROVE  Carries(n, G, G)
<1>1. disk'[n].log = log[n] /\ \A p \in Server : p # n => disk'[p] = disk[p]
  <2>1. PersistState(n, TermAfter(n, t), VoteAfter(n, t))
    BY DEF StepDown
  <2>2. TermAfter(n, t) \in Nat /\ VoteAfter(n, t) \in Server \cup {Nil}
    BY AfterType DEF TInv
  <2> QED
    BY <2>1, <2>2, StateWritten
<1>2. /\ log' = log /\ msgs' = msgs
      /\ role' = [role EXCEPT ![n] = "follower"]
      /\ current_term' = [current_term EXCEPT ![n] = TermAfter(n, t)]
  BY DEF StepDown, BecomeFollower
<1>3. OthersStay(n) /\ role'[n] = "follower"
  BY <1>1, <1>2 DEF OthersStay, TInv, TypeOK
<1>4. On(log'[n], G) /\ On(disk'[n].log, G)
  BY <1>1, <1>2 DEF History, LogsOn
<1> QED
  BY <1>2, <1>3, <1>4, StaysCarries

(* Answering a RequestVote.                                                *)
LEMMA OnRequestVoteCarries ==
  ASSUME TInv, NEW n \in Server, NEW m \in msgs, OnRequestVote(n, m), NEW G, History(G)
  PROVE  Carries(n, G, G)
<1> DEFINE t == TermAfter(n, m.term)
           v == VoteOn(n, m)
           reply == RequestVoteReply(n, m.from, t, Grants(n, m))
<1>1. running[n] /\ m.from \in Server /\ m.term \in Nat /\ current_term[n] \in Nat
  BY MessageFields DEF OnRequestVote, Receives, TInv, TypeOK
<1>2. t \in Nat /\ v \in Server \cup {Nil}
  BY <1>1, AfterType DEF VoteOn, TInv
<1>3. disk'[n].log = log[n] /\ \A p \in Server : p # n => disk'[p] = disk[p]
  <2>1. PersistState(n, t, v)
    BY DEF OnRequestVote
  <2> HIDE DEF t, v
  <2> QED
    BY <1>1, <1>2, <2>1, StateWritten
<1>4. /\ log' = log /\ msgs' = msgs \cup {reply}
      /\ current_term' = [current_term EXCEPT ![n] = t]
  BY DEF OnRequestVote, Send
<1>5. \/ role' = [role EXCEPT ![n] = "follower"]
      \/ role' = role /\ t = current_term[n]
  BY <1>1 DEF OnRequestVote, BecomeFollower, TermAfter, Larger
<1>6. ~IsAppend(reply)
  BY DEF RequestVoteReply, IsAppend
<1> HIDE DEF t, v, reply
<1>7. /\ OthersStay(n)
      /\ role'[n] = "leader" =>
           role[n] = "leader" /\ log'[n] = log[n] /\ current_term'[n] = current_term[n]
  BY <1>3, <1>4, <1>5 DEF OthersStay, TInv, TypeOK
<1>8. On(log'[n], G) /\ On(disk'[n].log, G)
  BY <1>3, <1>4 DEF History, LogsOn
<1>9. \A x \in msgs' : IsAppend(x) => x \in msgs \/ SliceOf(x, G[x.term])
  BY <1>4, <1>6
<1> QED
  BY <1>7, <1>8, <1>9, StaysCarries

(* Steps that leave the log, the disk, the term and the role alone, and    *)
(* send no AppendEntries but slices.                                       *)
LEMMA QuietCarries ==
  ASSUME TInv, NEW n \in Server, UNCHANGED <<log, disk, role, current_term>>,
         NEW G, History(G),
         \A x \in msgs' : IsAppend(x) => x \in msgs \/ SliceOf(x, G[x.term])
  PROVE  Carries(n, G, G)
<1>1. OthersStay(n) /\ On(log'[n], G) /\ On(disk'[n].log, G)
  BY DEF OthersStay, History, LogsOn
<1> QED
  BY <1>1, StaysCarries

(* Steps that leave every log alone.                                       *)
LEMMA QuietStepsCarry ==
  ASSUME TInv, NEW n \in Server, NEW m \in msgs,
         \/ CountVote(n, m)
         \/ RefuseStaleLeader(n, m)
         \/ OnAppendSuccess(n, m)
         \/ OnAppendFailure(n, m),
         NEW G, History(G)
  PROVE  Carries(n, G, G)
<1>1. UNCHANGED <<log, disk, role, current_term>>
  BY DEF CountVote, RefuseStaleLeader, OnAppendSuccess, OnAppendFailure, hardVars
<1>2. CASE CountVote(n, m)
  <2>1. msgs' = msgs
    BY <1>2 DEF CountVote
  <2> QED
    BY <1>1, <2>1, QuietCarries
<1>3. CASE RefuseStaleLeader(n, m)
  <2> DEFINE reply == AppendEntriesReply(n, m.from, current_term[n], FALSE, 0)
  <2>1. msgs' = msgs \cup {reply}
    BY <1>3 DEF RefuseStaleLeader, Send
  <2>2. ~IsAppend(reply)
    BY DEF AppendEntriesReply, IsAppend
  <2> HIDE DEF reply
  <2> QED
    BY <1>1, <2>1, <2>2, QuietCarries
<1>4. CASE OnAppendSuccess(n, m)
  <2>1. PICK c : msgs' = msgs \cup ReplyTo(n, Paid(n, pending_clients[n], c))
    BY <1>4 DEF OnAppendSuccess, Send
  <2>2. \A x \in ReplyTo(n, Paid(n, pending_clients[n], c)) : ~IsAppend(x)
    BY DEF ReplyTo, ClientReply, IsAppend
  <2> QED
    BY <1>1, <2>1, <2>2, QuietCarries
<1>5. CASE OnAppendFailure(n, m)
  <2> DEFINE next == NextAfterFailure(n, m.from)
             again == AppendEntries(n, m.from, current_term[n], log[n], next,
                                    commit_index[n])
  <2>a. m \in Message /\ role[n] = "leader" /\ msgs' = msgs \cup {again}
    BY <1>5 DEF OnAppendFailure, HearFollower, Send, TInv, TypeOK
  <2>b. m.from \in Server
    BY <2>a, MessageFields
  <2>1. msgs' = msgs \cup {again} /\ role[n] = "leader" /\ m.from \in Server
    BY <2>a, <2>b
  <2>2. next \in 1 .. Len(log[n]) + 1
    <3>a. NextInRange /\ log[n] \in Seq(Entry)
      BY DEF TInv, TypeOK
    <3>1. next_index[n][m.from] \in 1 .. Len(log[n]) + 1 /\ Len(log[n]) \in Nat
      BY <2>1, <3>a DEF NextInRange, LastIndex
    <3> QED
      BY <3>1 DEF NextAfterFailure, Larger
  <2>3. log[n] \in Seq(Entry) /\ log[n] = G[current_term[n]]
    BY <2>1 DEF TInv, TypeOK, History, LeadersHave
  <2> HIDE DEF next
  <2>4. SliceOf(again, log[n])
    BY <2>2, <2>3, LeaderSlice
  <2>5. again.term = current_term[n]
    BY DEF AppendEntries
  <2> HIDE DEF again
  <2>6. SliceOf(again, G[again.term])
    BY <2>3, <2>4, <2>5
  <2> QED
    BY <1>1, <2>1, <2>6, QuietCarries
<1> QED
  BY <1>2, <1>3, <1>4, <1>5

(* Heartbeats.                                                             *)
LEMMA FireHeartbeatCarries ==
  ASSUME TInv, NEW n \in Server, FireHeartbeat(n), NEW G, History(G)
  PROVE  Carries(n, G, G)
<1>1. UNCHANGED <<log, disk, role, current_term>>
  BY DEF FireHeartbeat, hardVars
<1>2. CASE role[n] = "leader"
  <2> DEFINE sent == {AppendEntries(n, p, current_term[n], log[n], next_index[n][p],
                                    commit_index[n]) : p \in Peers(n)}
  <2>1. msgs' = msgs \cup sent
    BY <1>2 DEF FireHeartbeat, Send
  <2>2. log[n] \in Seq(Entry) /\ log[n] = G[current_term[n]] /\ GhostType(G)
        /\ Len(log[n]) >= LastIndex(log[n])
    BY <1>2 DEF TInv, TypeOK, History, LeadersHave, LastIndex
  <2>3. \A x \in sent : SliceOf(x, G[x.term])
    BY <1>2, <2>2, LeaderSlices
  <2> HIDE DEF sent
  <2> QED
    BY <1>1, <2>1, <2>3, QuietCarries
<1>3. CASE role[n] # "leader"
  <2>1. msgs' = msgs
    BY <1>3 DEF FireHeartbeat
  <2> QED
    BY <1>1, <2>1, QuietCarries
<1> QED
  BY <1>2, <1>3

(* Refusing a leader whose entries leave a gap.                            *)
LEMMA RefuseGapCarries ==
  ASSUME TInv, NEW n \in Server, NEW m \in msgs, RefuseGap(n, m), NEW G, History(G)
  PROVE  Carries(n, G, G)
<1> DEFINE reply == AppendEntriesReply(n, m.from, TermAfter(n, m.term), FALSE, 0)
<1>1. /\ HearLeader(n, m) /\ log' = log /\ msgs' = msgs \cup {reply}
      /\ PersistState(n, TermAfter(n, m.term), VoteAfter(n, m.term))
  BY DEF RefuseGap, Send
<1>2. /\ running[n] /\ m.term \in Nat
      /\ current_term' = [current_term EXCEPT ![n] = m.term]
      /\ role' = [role EXCEPT ![n] = "follower"]
  BY <1>1, HearLeaderStep
<1>3. TermAfter(n, m.term) \in Nat /\ VoteAfter(n, m.term) \in Server \cup {Nil}
  BY <1>2, AfterType DEF TInv
<1>4. disk'[n].log = log[n] /\ \A p \in Server : p # n => disk'[p] = disk[p]
  BY <1>1, <1>2, <1>3, StateWritten
<1>5. ~IsAppend(reply)
  BY DEF AppendEntriesReply, IsAppend
<1> HIDE DEF reply
<1>6. OthersStay(n) /\ role'[n] = "follower"
  BY <1>1, <1>2, <1>4 DEF OthersStay, TInv, TypeOK
<1>7. On(log'[n], G) /\ On(disk'[n].log, G)
  BY <1>1, <1>4 DEF History, LogsOn
<1>8. \A x \in msgs' : IsAppend(x) => x \in msgs \/ SliceOf(x, G[x.term])
  BY <1>1, <1>5
<1> QED
  BY <1>6, <1>7, <1>8, StaysCarries

(* Taking entries.                                                         *)
LEMMA TakeEntriesCarries ==
  ASSUME TInv, NEW n \in Server, NEW m \in msgs, TakeEntries(n, m), NEW G, History(G)
  PROVE  Carries(n, G, G)
<1> DEFINE t == TermAfter(n, m.term)
           v == VoteAfter(n, m.term)
           new == {AppendEntriesReply(n, m.from, t, TRUE,
                                      m.prev_log_index + Len(m.entries))}
                    \cup ReplyTo(n, Paid(n, pending_clients[n], CommitAfter(n, m)))
<1>1. HearLeader(n, m) /\ Consistent(n, m) /\ msgs' = msgs \cup new
  BY DEF TakeEntries, Send
<1>2. /\ running[n] /\ m \in Message /\ m.type = "AppendEntries" /\ m.term \in Nat
      /\ m.prev_log_index \in Nat /\ m.entries \in Seq(Entry)
      /\ current_term' = [current_term EXCEPT ![n] = m.term]
      /\ role' = [role EXCEPT ![n] = "follower"]
  BY <1>1, HearLeaderStep
<1>3. t \in Nat /\ v \in Server \cup {Nil}
  BY <1>2, AfterType DEF TInv
<1>4. \A x \in new : ~IsAppend(x)
  BY DEF AppendEntriesReply, ReplyTo, ClientReply, IsAppend
<1> HIDE DEF new, t, v
<1>5. PICK h \in 0 .. Len(m.entries) :
        /\ Held(n, m, h)
        /\ log' = [log EXCEPT ![n] = TruncateFrom(@, CutAt(n, m, h)) \o NewEntries(m, h)]
        /\ Persist(n, CutAt(n, m, h), NewEntries(m, h), t, v)
  BY DEF TakeEntries, t, v
<1> DEFINE cut == CutAt(n, m, h)
           add == NewEntries(m, h)
           lg == TruncateFrom(log[n], cut) \o add
<1>6. cut \in Nat \ {0} /\ add \in Seq(Entry)
  BY <1>2, CutType DEF TInv
<1>7. lg \in Seq(Entry) /\ On(lg, G)
  <2>1. GhostType(G) /\ LeadersOn(G) /\ On(log[n], G) /\ log[n] \in Seq(Entry)
    BY DEF History, LogsOn, TInv, TypeOK
  <2>2. SliceOf(m, G[m.term])
    BY <1>2 DEF History, SlicesOn, IsAppend
  <2> QED
    BY <1>1, <1>2, <1>5, <2>1, <2>2, TakenOn
<1> HIDE DEF cut, add
<1>8. disk'[n].log = lg /\ \A p \in Server : p # n => disk'[p] = disk[p]
  <2>1. Persist(n, cut, add, t, v) /\ TypeOK /\ MemoryIsDurable
    BY <1>5 DEF cut, add, TInv
  <2> QED
    BY <1>2, <1>3, <1>6, <2>1, LogWritten
<1>9. log'[n] = lg /\ \A p \in Server : p # n => log'[p] = log[p]
  BY <1>5 DEF cut, add, TInv, TypeOK
<1> HIDE DEF lg
<1>10. OthersStay(n) /\ role'[n] = "follower"
  BY <1>2, <1>8, <1>9 DEF OthersStay, TInv, TypeOK
<1>11. \A x \in msgs' : IsAppend(x) => x \in msgs \/ SliceOf(x, G[x.term])
  BY <1>1, <1>4
<1> QED
  BY <1>7, <1>8, <1>9, <1>10, <1>11, StaysCarries

-----------------------------------------------------------------------------
(* Crashes.                                                                *)

(* What a crash leaves on the disk is enough to judge it by.               *)
LEMMA DieCarries ==
  ASSUME TInv, NEW n \in Server, NEW d, Die(n, d), d.log \in Seq(Entry),
         NEW G, History(G), On(d.log, G)
  PROVE  Carries(n, G, G)
<1>1. /\ disk' = [disk EXCEPT ![n] = d]
      /\ current_term' = [current_term EXCEPT ![n] = 0]
      /\ log' = [log EXCEPT ![n] = << >>]
      /\ role' = [role EXCEPT ![n] = "follower"]
      /\ msgs' = msgs
  BY DEF Die
<1>2. OthersStay(n) /\ disk'[n] = d /\ log'[n] = << >> /\ role'[n] = "follower"
  BY <1>1 DEF OthersStay, TInv, TypeOK
<1>3. On(log'[n], G)
  BY <1>2 DEF On
<1>4. On(disk'[n].log, G)
  BY <1>2
<1> QED
  BY <1>1, <1>2, <1>3, <1>4, StaysCarries

(* A torn write leaves the beginning of one of two logs.                   *)
LEMMA TornCarries ==
  ASSUME TInv, NEW n \in Server, NEW cut \in Nat \ {0}, NEW new \in Seq(Entry),
         NEW t, NEW v, NEW d \in Torn(n, cut, new, t, v), Die(n, d),
         NEW G, History(G), On(TruncateFrom(log[n], cut) \o new, G)
  PROVE  Carries(n, G, G)
<1>1. disk[n] \in HardState /\ disk[n].log \in Seq(Entry)
  BY DEF TInv, TypeOK, HardState
<1>2. disk[n].log = log[n]
  BY DiskAgrees DEF Die, TInv
<1>3. /\ d.log \in Seq(Entry)
      /\ \/ Begins(d.log, disk[n].log)
         \/ Begins(d.log, TruncateFrom(disk[n].log, cut) \o new)
  BY <1>1, TornBegins DEF Torn
<1>4. TruncateFrom(log[n], cut) \o new \in Seq(Entry)
  <2>1. TruncateFrom(log[n], cut) \in Seq(Entry)
    BY <1>1, <1>2, TruncateType
  <2> QED
    BY <2>1
<1>5. On(disk[n].log, G)
  BY DEF History, LogsOn
<1>6. On(d.log, G)
  <2> DEFINE lg == TruncateFrom(log[n], cut) \o new
  <2>1. lg \in Seq(Entry) /\ On(lg, G)
    BY <1>4
  <2>2. Begins(d.log, disk[n].log) \/ Begins(d.log, lg)
    BY <1>2, <1>3
  <2> HIDE DEF lg
  <2> QED
    BY <1>1, <1>3, <1>5, <2>1, <2>2, BeginningOn
<1> QED
  BY <1>3, <1>6, DieCarries

(* A torn write of the term and the vote leaves the log as it was.         *)
LEMMA TornStateCarries ==
  ASSUME TInv, NEW n \in Server, NEW t, NEW v,
         NEW d \in Torn(n, LastIndex(log[n]) + 1, << >>, t, v), Die(n, d),
         NEW G, History(G)
  PROVE  Carries(n, G, G)
<1>1. log[n] \in Seq(Entry) /\ LastIndex(log[n]) + 1 \in Nat \ {0}
      /\ << >> \in Seq(Entry)
  BY DEF TInv, TypeOK, LastIndex
<1>2. TruncateFrom(log[n], LastIndex(log[n]) + 1) \o << >> = log[n]
  BY <1>1 DEF TruncateFrom, LastIndex
<1>3. On(log[n], G)
  BY DEF History, LogsOn
<1> QED
  BY <1>1, <1>2, <1>3, TornCarries

(* A disk error while a message is handled.                                *)
LEMMA DiskErrorOnMessageCarries ==
  ASSUME TInv, NEW n \in Server, NEW m \in msgs, DiskErrorOnMessage(n, m),
         NEW G, History(G)
  PROVE  Carries(n, G, G)
<1>1. PICK d \in TornBy(n, m) : Die(n, d)
  BY DEF DiskErrorOnMessage
<1>2. m \in Message /\ TypeOK
  BY DEF TInv, TypeOK
<1>3. CASE m.type = "AppendEntries" /\ m.term >= current_term[n] /\ Consistent(n, m)
  <2>1. PICK h \in 0 .. Len(m.entries) :
          /\ Held(n, m, h)
          /\ d \in Torn(n, CutAt(n, m, h), NewEntries(m, h),
                        TermAfter(n, m.term), VoteAfter(n, m.term))
    BY <1>1, <1>3 DEF TornBy
  <2>2. CutAt(n, m, h) \in Nat \ {0} /\ NewEntries(m, h) \in Seq(Entry)
    BY <1>2, <1>3, CutType
  <2>3. On(TruncateFrom(log[n], CutAt(n, m, h)) \o NewEntries(m, h), G)
    <3>1. GhostType(G) /\ LeadersOn(G) /\ On(log[n], G) /\ log[n] \in Seq(Entry)
      BY DEF History, LogsOn, TInv, TypeOK
    <3>2. SliceOf(m, G[m.term])
      BY <1>3 DEF History, SlicesOn, IsAppend
    <3>3. m.term \in Nat /\ m.prev_log_index \in Nat /\ m.entries \in Seq(Entry)
      BY <1>2, <1>3, MessageFields
    <3> QED
      BY <1>3, <2>1, <3>1, <3>2, <3>3, TakenOn
  <2> QED
    BY <1>1, <2>1, <2>2, <2>3, TornCarries
<1>4. CASE ~(m.type = "AppendEntries" /\ m.term >= current_term[n] /\ Consistent(n, m))
  <2>1. \E t, v : d \in Torn(n, LastIndex(log[n]) + 1, << >>, t, v)
    <3>1. CASE m.type = "RequestVote"
      <4>1. d \in Torn(n, LastIndex(log[n]) + 1, << >>, TermAfter(n, m.term), VoteOn(n, m))
        BY <1>1, <3>1 DEF TornBy
      <4> QED
        BY <4>1
    <3>2. CASE m.type # "RequestVote"
      <4>1. d \in Torn(n, LastIndex(log[n]) + 1, << >>, TermAfter(n, m.term),
                       VoteAfter(n, m.term))
        BY <1>1, <1>4, <3>2 DEF TornBy
      <4> QED
        BY <4>1
    <3> QED
      BY <3>1, <3>2
  <2> QED
    BY <1>1, <2>1, TornStateCarries
<1> QED
  BY <1>3, <1>4

(* A disk error in a timeout, and a crash between events.                  *)
LEMMA CrashCarries ==
  ASSUME TInv, NEW n \in Server, DiskErrorOnTimeout(n) \/ Crash(n), NEW G, History(G)
  PROVE  Carries(n, G, G)
<1>1. CASE DiskErrorOnTimeout(n)
  BY <1>1, TornStateCarries DEF DiskErrorOnTimeout
<1>2. CASE Crash(n)
  <2>1. Die(n, disk[n]) /\ disk[n].log \in Seq(Entry) /\ On(disk[n].log, G)
    BY <1>2 DEF Crash, TInv, TypeOK, HardState, History, LogsOn
  <2> QED
    BY <2>1, DieCarries
<1> QED
  BY <1>1, <1>2

(* A restart reads the log back; one that runs, and so a leader, reads     *)
(* what it has.                                                            *)
LEMMA RestartCarries ==
  ASSUME TInv, NEW n \in Server, Restart(n), NEW G, History(G)
  PROVE  Carries(n, G, G)
<1>1. /\ current_term' = [current_term EXCEPT ![n] = disk[n].current_term]
      /\ log' = [log EXCEPT ![n] = disk[n].log]
      /\ UNCHANGED <<disk, role, msgs>>
  BY DEF Restart
<1>2. OthersStay(n) /\ log'[n] = disk[n].log /\ disk' = disk /\ role' = role
      /\ current_term'[n] = disk[n].current_term
  BY <1>1 DEF OthersStay, TInv, TypeOK
<1>3. On(log'[n], G) /\ On(disk'[n].log, G)
  BY <1>2 DEF History, LogsOn
<1>4. role'[n] = "leader" =>
        role[n] = "leader" /\ log'[n] = log[n] /\ current_term'[n] = current_term[n]
  BY <1>2, DiskAgrees DEF TInv, DownIsFollower
<1> QED
  BY <1>1, <1>2, <1>3, <1>4, StaysCarries

-----------------------------------------------------------------------------
(* New leaders.                                                            *)

(* An election timeout that needs the votes of others.                     *)
LEMMA AskForVotesCarries ==
  ASSUME TInv, NEW n \in Server, Campaign(n), AskForVotes(n), NEW G, History(G)
  PROVE  Carries(n, G, G)
<1> DEFINE sent == {RequestVote(n, p, current_term[n] + 1, log[n]) : p \in Peers(n)}
<1>1. /\ log' = log /\ msgs' = msgs \cup sent
      /\ role' = [role EXCEPT ![n] = "candidate"]
      /\ current_term' = [current_term EXCEPT ![n] = @ + 1]
  BY DEF Campaign, AskForVotes, Send
<1>2. disk'[n].log = log[n] /\ \A p \in Server : p # n => disk'[p] = disk[p]
  <2>1. /\ disk'[n] = [current_term |-> current_term[n] + 1, voted_for |-> n,
                       log |-> log[n]]
        /\ \A p \in Server : p # n => disk'[p] = disk[p]
    BY CampaignStep
  <2> QED
    BY <2>1
<1>3. \A x \in sent : ~IsAppend(x)
  BY DEF RequestVote, IsAppend
<1> HIDE DEF sent
<1>4. OthersStay(n) /\ role'[n] = "candidate"
  BY <1>1, <1>2 DEF OthersStay, TInv, TypeOK
<1>5. On(log'[n], G) /\ On(disk'[n].log, G)
  BY <1>1, <1>2 DEF History, LogsOn
<1>6. \A x \in msgs' : IsAppend(x) => x \in msgs \/ SliceOf(x, G[x.term])
  BY <1>1, <1>3
<1> QED
  BY <1>4, <1>5, <1>6, StaysCarries

(* Nobody has led the term that a new leader leads.                        *)
LEMMA NewLeaderFresh ==
  ASSUME TInv, ElectionSafety', NEW n \in Server, NEW t \in Nat,
         running'[n], role'[n] = "leader", current_term'[n] = t, msgs \subseteq msgs',
         \/ t > disk[n].current_term
         \/ role[n] = "candidate" /\ current_term[n] = t /\ Peers(n) # {},
         NEW c \in Server
  PROVE  ~Led(c, t)
<1>1. disk[n].current_term \in Nat
  BY DEF TInv, TypeOK, HardState
<1>2. ASSUME NEW m \in msgs, IsAppend(m), m.from = c, m.term = t
      PROVE  FALSE
  <2>1. m \in msgs' /\ m.type = "AppendEntries"
    BY <1>2 DEF IsAppend
  <2>2. Leads(c, t)'
    BY <1>2, <2>1 DEF Leads
  <2>3. Leads(n, t)'
    BY DEF Leads
  <2>4. c = n
    BY <2>2, <2>3 DEF ElectionSafety
  <2>5. /\ t <= disk[n].current_term
        /\ role[n] = "candidate" => t # current_term[n]
    BY <1>2, <2>4 DEF TInv, OwnTermsPast
  <2> QED
    BY <1>1, <2>5
<1>3. ASSUME Server = {c}, disk[c].current_term >= t
      PROVE  FALSE
  BY <1>1, <1>3 DEF Peers
<1> QED
  BY <1>2, <1>3 DEF Led

(* The history with the log of term t become lg.                           *)
With(G, t, lg) == [G EXCEPT ![t] = lg]

(* A longer log of one term makes a longer history.                        *)
LEMMA WithExtends ==
  ASSUME NEW G, GhostType(G), NEW t \in Nat, NEW lg \in Seq(Entry), Begins(G[t], lg)
  PROVE  /\ GhostType(With(G, t, lg))
         /\ Extends(With(G, t, lg), G)
         /\ With(G, t, lg)[t] = lg
         /\ \A s \in Nat : s # t => With(G, t, lg)[s] = G[s]
<1> DEFINE H == With(G, t, lg)
<1>1. /\ GhostType(H)
      /\ H[t] = lg
      /\ \A s \in Nat : s # t => H[s] = G[s]
  BY DEF GhostType, With
<1> HIDE DEF H
<1>2. ASSUME NEW s \in Nat PROVE Begins(G[s], H[s])
  <2>1. CASE s = t
    BY <1>1, <2>1
  <2>2. CASE s # t
    <3>1. G[s] \in Seq(Entry) /\ H[s] = G[s]
      BY <1>1, <2>2 DEF GhostType
    <3> QED
      BY <3>1 DEF Begins
  <2> QED
    BY <2>1, <2>2
<1>3. Extends(H, G)
  BY <1>2 DEF Extends
<1> QED
  BY <1>1, <1>3 DEF H

(* In which the leaders' logs agree, if that one does.                     *)
LEMMA WithLeadersOn ==
  ASSUME NEW G, GhostType(G), LeadersOn(G), NEW t \in Nat, NEW lg \in Seq(Entry),
         Begins(G[t], lg), On(lg, With(G, t, lg))
  PROVE  LeadersOn(With(G, t, lg))
<1> DEFINE H == With(G, t, lg)
<1>1. /\ GhostType(H) /\ Extends(H, G) /\ H[t] = lg
      /\ \A s \in Nat : s # t => H[s] = G[s]
  BY WithExtends
<1> HIDE DEF H
<1>2. ASSUME NEW s \in Nat PROVE On(H[s], H)
  <2>1. CASE s = t
    BY <1>1, <2>1 DEF H
  <2>2. CASE s # t
    <3>1. G[s] \in Seq(Entry) /\ H[s] = G[s] /\ On(G[s], G)
      BY <1>1, <2>2 DEF GhostType, LeadersOn
    <3> QED
      BY <1>1, <3>1, OnExtends
  <2> QED
    BY <2>1, <2>2
<1> QED
  BY <1>2 DEF LeadersOn, H

(* Taking the lead in a term that nobody has led.                          *)
LEMMA LeadCarries ==
  ASSUME TInv, NEW n \in Server, NEW t \in Nat, t = current_term'[n],
         \A c \in Server : ~Led(c, t),
         OthersStay(n), log'[n] = log[n], disk'[n].log = log[n],
         NEW new, msgs' = msgs \cup new,
         new = {AppendEntries(n, p, t, log[n], LastIndex(log[n]) + 1, commit_index[n]) :
                  p \in Peers(n)},
         Server = {n} => disk'[n].current_term >= t,
         NEW G, History(G)
  PROVE  Carries(n, G, With(G, t, log[n]))
<1> DEFINE H == With(G, t, log[n])
<1>1. GhostType(G) /\ LeadersOn(G) /\ On(log[n], G) /\ log[n] \in Seq(Entry)
  BY DEF History, LogsOn, TInv, TypeOK
<1>2. G[t] = << >>
  BY DEF History, OnlyLed
<1>3. Begins(G[t], log[n])
  BY <1>1, <1>2 DEF Begins
<1>4. /\ GhostType(H) /\ Extends(H, G) /\ H[t] = log[n]
      /\ \A s \in Nat : s # t => H[s] = G[s]
  BY <1>1, <1>3, WithExtends
<1>5. On(log[n], H)
  <2> HIDE DEF H
  <2> QED
    BY <1>1, <1>4, OnExtends
<1>6. LeadersOn(H)
  BY <1>1, <1>3, <1>5, WithLeadersOn
<1> HIDE DEF H
<1>7. \A m \in msgs' : IsAppend(m) => m \in msgs \/ SliceOf(m, H[m.term])
  <2> SUFFICES ASSUME NEW p \in Peers(n)
               PROVE  LET m == AppendEntries(n, p, t, log[n], LastIndex(log[n]) + 1,
                                             commit_index[n])
                      IN SliceOf(m, H[m.term])
    OBVIOUS
  <2> DEFINE m == AppendEntries(n, p, t, log[n], LastIndex(log[n]) + 1, commit_index[n])
  <2>1. LastIndex(log[n]) + 1 \in 1 .. Len(log[n]) + 1
    BY <1>1 DEF LastIndex
  <2>2. SliceOf(m, log[n])
    BY <1>1, <2>1, LeaderSlice
  <2>3. m.term = t
    BY DEF AppendEntries
  <2> HIDE DEF m
  <2>4. SliceOf(m, H[m.term])
    BY <1>4, <2>2, <2>3
  <2> QED
    BY <2>4 DEF m
<1>8. Led(n, t)'
  <2>1. CASE Peers(n) = {}
    <3>1. Server = {n}
      BY <2>1 DEF Peers
    <3> QED
      BY <3>1 DEF Led
  <2>2. CASE Peers(n) # {}
    <3>1. PICK p \in Peers(n) : TRUE
      BY <2>2
    <3> DEFINE m == AppendEntries(n, p, t, log[n], LastIndex(log[n]) + 1, commit_index[n])
    <3>2. m \in msgs'
      OBVIOUS
    <3>3. IsAppend(m) /\ m.from = n /\ m.term = t
      BY DEF AppendEntries, IsAppend
    <3> HIDE DEF m
    <3> QED
      BY <3>2, <3>3 DEF Led, IsAppend
  <2> QED
    BY <2>1, <2>2
<1>9. LedNow(n)'
  BY <1>8 DEF Led, LedNow
<1>10. ASSUME NEW p \in Server, p # n, role[p] = "leader"
       PROVE  H[current_term[p]] = G[current_term[p]]
  <2>1. Led(p, current_term[p]) /\ current_term[p] \in Nat
    BY <1>10 DEF History, LeadersHave, LedNow, TInv, TypeOK
  <2>2. current_term[p] # t
    BY <2>1
  <2> QED
    BY <1>4, <2>1, <2>2
<1>11. \A s \in Nat : H[s] = G[s] \/ \E c \in Server : Led(c, s) \/ Led(c, s)'
  BY <1>4, <1>8
<1>12. Carries(n, G, H)
  BY <1>4, <1>5, <1>6, <1>7, <1>9, <1>10, <1>11 DEF Carries
<1> QED
  BY <1>12 DEF H

(* Winning an election.                                                    *)
LEMMA WinElectionCarries ==
  ASSUME TInv, EInv, ElectionSafety', NEW n \in Server, NEW m \in msgs, WinElection(n, m),
         NEW G, History(G)
  PROVE  Carries(n, G, With(G, current_term[n], log[n]))
<1> DEFINE t == current_term[n]
           new == {AppendEntries(n, p, t, log[n], LastIndex(log[n]) + 1, commit_index[n]) :
                     p \in Peers(n)}
<1>1. /\ CountsVote(n, m) /\ msgs' = msgs \cup new
      /\ role' = [role EXCEPT ![n] = "leader"]
      /\ UNCHANGED <<log, disk, current_term, running>>
  BY DEF WinElection, BecomeLeader, Send, hardVars
<1>2. /\ m.type = "RequestVoteReply" /\ m.to = n /\ running[n] /\ role[n] = "candidate"
      /\ m \in Message
  BY <1>1 DEF CountsVote, Receives, TInv, TypeOK
<1>3. Peers(n) # {}
  <2>1. m.from \in Server /\ m.from # n
    BY <1>2, MessageFields DEF EInv, NotToSelf
  <2> QED
    BY <2>1 DEF Peers
<1>4. t \in Nat /\ t = current_term'[n] /\ role'[n] = "leader" /\ running'[n]
  BY <1>1, <1>2 DEF TInv, TypeOK
<1>5. disk[n].log = log[n]
  BY <1>2, DiskAgrees DEF TInv
<1>6. OthersStay(n) /\ log'[n] = log[n] /\ disk'[n].log = log[n]
  BY <1>1, <1>5 DEF OthersStay, TInv, TypeOK
<1>7. Server # {n}
  BY <1>3 DEF Peers
<1>8. msgs \subseteq msgs'
  BY <1>1
<1>9. \A c \in Server : ~Led(c, t)
  <2> HIDE DEF new, t
  <2>1. current_term[n] = t
    BY DEF t
  <2> QED
    BY <1>2, <1>3, <1>4, <1>8, <2>1, NewLeaderFresh
<1>10. \A N : msgs' = msgs \cup N /\ N = new => Carries(n, G, With(G, t, log[n]))
  <2> HIDE DEF t
  <2> QED
    BY <1>4, <1>6, <1>7, <1>9, LeadCarries
<1> QED
  BY <1>1, <1>10

(* A cluster of one elects itself.                                         *)
LEMMA ElectOneselfCarries ==
  ASSUME TInv, ElectionSafety', NEW n \in Server, Campaign(n),
         BecomeLeader(n, current_term[n] + 1), NEW G, History(G)
  PROVE  Carries(n, G, With(G, current_term[n] + 1, log[n]))
<1> DEFINE t == current_term[n] + 1
           new == {AppendEntries(n, p, t, log[n], LastIndex(log[n]) + 1, commit_index[n]) :
                     p \in Peers(n)}
<1>1. /\ msgs' = msgs \cup new
      /\ role' = [role EXCEPT ![n] = "leader"]
      /\ current_term' = [current_term EXCEPT ![n] = @ + 1]
      /\ running[n]
      /\ UNCHANGED <<log, running>>
  BY DEF Campaign, BecomeLeader, Send
<1>2. /\ disk'[n] = [current_term |-> t, voted_for |-> n, log |-> log[n]]
      /\ \A p \in Server : p # n => disk'[p] = disk[p]
      /\ disk[n].current_term = current_term[n] /\ current_term[n] \in Nat
  BY CampaignStep
<1>3. disk'[n].log = log[n] /\ disk'[n].current_term = t
  BY <1>2
<1>4. t \in Nat /\ t > disk[n].current_term /\ t >= t
  BY <1>2
<1>5. current_term'[n] = t /\ role'[n] = "leader" /\ running'[n]
  BY <1>1 DEF TInv, TypeOK
<1>6. OthersStay(n) /\ log'[n] = log[n]
  BY <1>1, <1>2 DEF OthersStay, TInv, TypeOK
<1>7. msgs \subseteq msgs'
  BY <1>1
<1>8. \A c \in Server : ~Led(c, t)
  <2> HIDE DEF new, t
  <2> QED
    BY <1>4, <1>5, <1>7, NewLeaderFresh
<1>9. \A N : msgs' = msgs \cup N /\ N = new => Carries(n, G, With(G, t, log[n]))
  <2> HIDE DEF t
  <2> QED
    BY <1>3, <1>4, <1>5, <1>6, <1>8, LeadCarries
<1> QED
  BY <1>1, <1>9

-----------------------------------------------------------------------------
(* Requests.                                                               *)

(* A log that its leader appends to is on the history that has it.         *)
LEMMA AppendOn ==
  ASSUME NEW H, NEW lg \in Seq(Entry), On(lg, H), NEW e \in Entry,
         H[e.term] = Append(lg, e)
  PROVE  On(Append(lg, e), H)
<1> DEFINE longer == Append(lg, e)
<1>1. /\ Len(lg) \in Nat /\ Len(longer) = Len(lg) + 1
      /\ longer[Len(lg) + 1] = e
      /\ \A j \in 1 .. Len(lg) : longer[j] = lg[j]
  OBVIOUS
<1>2. H[e.term] = longer
  OBVIOUS
<1> HIDE DEF longer
<1>3. ASSUME NEW i \in 1 .. Len(longer) PROVE AgreesAt(longer, H, i)
  <2>1. CASE i <= Len(lg)
    <3>1. i \in 1 .. Len(lg)
      BY <1>1, <2>1
    <3>2. AgreesAt(lg, H, i) /\ longer[i] = lg[i]
      BY <1>1, <3>1 DEF On
    <3>3. \A j \in 1 .. i : longer[j] = lg[j]
      BY <1>1, <2>1
    <3> QED
      BY <3>2, <3>3 DEF AgreesAt
  <2>2. CASE ~(i <= Len(lg))
    <3>1. i = Len(lg) + 1
      BY <1>1, <2>2
    <3>2. longer[i] = e
      BY <1>1, <3>1
    <3> QED
      BY <1>1, <1>2, <3>1, <3>2 DEF AgreesAt
  <2> QED
    BY <2>1, <2>2
<1> QED
  BY <1>3 DEF On, longer

(* What a leader's log becomes by a request, and the history by it.        *)
Longer(n, r) == Append(log[n], [term |-> current_term[n], request_id |-> r])

(* With it, the history is still one.                                      *)
LEMMA RequestHistory ==
  ASSUME TInv, EInv, NEW n \in Server, role[n] = "leader", NEW r \in Request,
         NEW G, History(G), NEW H, H = With(G, current_term[n], Longer(n, r))
  PROVE  /\ Longer(n, r) \in Seq(Entry) /\ Len(Longer(n, r)) >= LastIndex(log[n])
         /\ GhostType(H) /\ Extends(H, G) /\ LeadersOn(H)
         /\ On(Longer(n, r), H) /\ H[current_term[n]] = Longer(n, r)
         /\ Led(n, current_term[n])
         /\ \A p \in Server : p # n /\ role[p] = "leader" =>
              H[current_term[p]] = G[current_term[p]]
         /\ \A t \in Nat : H[t] = G[t] \/ \E c \in Server : Led(c, t) \/ Led(c, t)'
<1> DEFINE t == current_term[n]
           e == [term |-> t, request_id |-> r]
           lg == log[n]
           longer == Append(lg, e)
<1>1. /\ GhostType(G) /\ LeadersOn(G) /\ On(lg, G) /\ lg \in Seq(Entry) /\ t \in Nat
      /\ lg = G[t] /\ Led(n, t)
  BY DEF History, LogsOn, LeadersHave, LedNow, TInv, TypeOK
<1>2. e \in Entry /\ e.term = t
  BY <1>1 DEF Entry
<1> HIDE DEF e, t, lg
<1>3. longer \in Seq(Entry) /\ Len(longer) = Len(lg) + 1 /\ Len(lg) \in Nat
      /\ Begins(lg, longer)
  BY <1>1, <1>2 DEF Begins
<1>4. H = With(G, t, longer) /\ longer = Longer(n, r)
  BY DEF Longer, e, t, lg
<1> HIDE DEF longer
<1>5. /\ GhostType(H) /\ Extends(H, G) /\ H[t] = longer
      /\ \A s \in Nat : s # t => H[s] = G[s]
  BY <1>1, <1>3, <1>4, WithExtends
<1>6. On(longer, H)
  <2>1. On(lg, H)
    BY <1>1, <1>5, OnExtends
  <2> QED
    BY <1>1, <1>2, <1>5, <2>1, AppendOn DEF longer
<1>7. LeadersOn(H)
  BY <1>1, <1>3, <1>4, <1>6, WithLeadersOn
<1>8. Len(longer) >= LastIndex(log[n])
  BY <1>3 DEF LastIndex, lg
<1>9. ASSUME NEW p \in Server, p # n, role[p] = "leader"
      PROVE  H[current_term[p]] = G[current_term[p]]
  <2>1. current_term[p] \in Nat /\ running[p] /\ running[n]
    BY <1>9 DEF TInv, TypeOK, DownIsFollower
  <2>2. current_term[p] # t
    <3>1. SUFFICES ASSUME current_term[p] = current_term[n] PROVE FALSE
      BY DEF t
    <3>2. Leads(p, current_term[n]) /\ Leads(n, current_term[n])
      BY <1>9, <2>1, <3>1 DEF Leads
    <3>3. p = n
      BY <3>2, OneLeader DEF ElectionSafety
    <3> QED
      BY <1>9, <3>3
  <2> QED
    BY <1>5, <2>1, <2>2
<1>10. \A s \in Nat : H[s] = G[s] \/ \E c \in Server : Led(c, s) \/ Led(c, s)'
  BY <1>1, <1>5
<1> QED
  BY <1>1, <1>3, <1>4, <1>5, <1>6, <1>7, <1>8, <1>9, <1>10 DEF t

(* A request at the leader.                                                *)
LEMMA OnClientRequestCarries ==
  ASSUME TInv, EInv, NEW n \in Server, NEW r \in Request, OnClientRequest(n, r),
         NEW G, History(G)
  PROVE  Carries(n, G, With(G, current_term[n], Longer(n, r)))
<1> DEFINE H == With(G, current_term[n], Longer(n, r))
           longer == Longer(n, r)
           sent == {AppendEntries(n, p, current_term[n], longer, next_index[n][p],
                                  commit_index[n]) : p \in Peers(n)}
<1>1. PICK paid : /\ msgs' = msgs \cup (sent \cup paid)
                  /\ \A x \in paid : ~IsAppend(x)
  <2>1. PICK debts, c : msgs' = msgs \cup (sent \cup ReplyTo(n, Paid(n, debts, c)))
    BY DEF OnClientRequest, Send, Longer
  <2>2. \A x \in ReplyTo(n, Paid(n, debts, c)) : ~IsAppend(x)
    BY DEF ReplyTo, ClientReply, IsAppend
  <2> QED
    BY <2>1, <2>2
<1>2. /\ running[n] /\ role[n] = "leader"
      /\ log' = [log EXCEPT ![n] = longer]
      /\ disk' = [disk EXCEPT ![n].log =
                    Append(@, [term |-> current_term[n], request_id |-> r])]
      /\ UNCHANGED <<current_term, role>>
  BY DEF OnClientRequest, Longer
<1>3. disk[n].log = log[n] /\ disk \in [Server -> HardState]
  BY <1>2, DiskAgrees DEF TInv, TypeOK
<1>4. disk'[n].log = longer /\ \A p \in Server : p # n => disk'[p] = disk[p]
  BY <1>2, <1>3 DEF HardState, Longer
<1>5. /\ longer \in Seq(Entry) /\ Len(longer) >= LastIndex(log[n])
      /\ GhostType(H) /\ Extends(H, G) /\ LeadersOn(H)
      /\ On(longer, H) /\ H[current_term[n]] = longer
      /\ Led(n, current_term[n])
      /\ \A p \in Server : p # n /\ role[p] = "leader" =>
           H[current_term[p]] = G[current_term[p]]
      /\ \A t \in Nat : H[t] = G[t] \/ \E c \in Server : Led(c, t) \/ Led(c, t)'
  BY <1>2, RequestHistory
<1> HIDE DEF H, longer
<1>6. log'[n] = longer /\ OthersStay(n)
  BY <1>2, <1>4 DEF OthersStay, TInv, TypeOK
<1>7. \A x \in sent : SliceOf(x, H[x.term])
  BY <1>2, <1>5, LeaderSlices
<1> HIDE DEF sent
<1>8. \A x \in msgs' : IsAppend(x) => x \in msgs \/ SliceOf(x, H[x.term])
  BY <1>1, <1>7
<1>9. /\ log'[n] = H[current_term'[n]]
      /\ Led(n, current_term'[n])
  BY <1>2, <1>5, <1>6
<1>10. Carries(n, G, H)
  BY <1>4, <1>5, <1>6, <1>8, <1>9 DEF Carries
<1> QED
  BY <1>10 DEF H

(* A request whose write fails: the entry is on the disk of the dead       *)
(* leader, and then in the history of its term, or it is not.              *)
LEMMA DiskErrorOnRequestCarries ==
  ASSUME TInv, EInv, NEW n \in Server, NEW r \in Request, DiskErrorOnRequest(n, r),
         NEW G, History(G)
  PROVE  Carries(n, G, G) \/ Carries(n, G, With(G, current_term[n], Longer(n, r)))
<1> DEFINE H == With(G, current_term[n], Longer(n, r))
           longer == Longer(n, r)
           e == [term |-> current_term[n], request_id |-> r]
           cut == LastIndex(log[n]) + 1
<1>1. PICK d \in Torn(n, cut, <<e>>, current_term[n], voted_for[n]) : Die(n, d)
  BY DEF DiskErrorOnRequest
<1>2. /\ role[n] = "leader" /\ running[n] /\ disk[n] \in HardState
      /\ disk[n].log \in Seq(Entry) /\ log[n] \in Seq(Entry) /\ e \in Entry
      /\ cut \in Nat \ {0}
  <2>1. role[n] = "leader" /\ running[n]
    BY <1>1 DEF DiskErrorOnRequest, Die
  <2>2. disk[n] \in HardState /\ log[n] \in Seq(Entry) /\ current_term[n] \in Nat
    BY DEF TInv, TypeOK
  <2>3. disk[n].log \in Seq(Entry)
    BY <2>2 DEF HardState
  <2>4. e \in Entry /\ cut \in Nat \ {0}
    BY <2>2 DEF Entry, LastIndex
  <2> QED
    BY <2>1, <2>2, <2>3, <2>4
<1>3. disk[n].log = log[n]
  BY <1>2, DiskAgrees DEF TInv
<1>4. TruncateFrom(log[n], cut) \o <<e>> = longer
  <2>1. TruncateFrom(log[n], cut) = log[n]
    BY <1>2 DEF TruncateFrom, LastIndex
  <2> HIDE DEF e
  <2>2. log[n] \o <<e>> = Append(log[n], e)
    BY <1>2
  <2> QED
    BY <2>1, <2>2 DEF Longer, e
<1> HIDE DEF e, cut, longer
<1>5. d.log \in Seq(Entry) /\ (Begins(d.log, log[n]) \/ Begins(d.log, longer))
  <2>1. <<e>> \in Seq(Entry)
    BY <1>2
  <2>2. d \in AfterTear(disk[n], cut, <<e>>, current_term[n], voted_for[n])
    BY <1>1 DEF Torn
  <2> QED
    BY <1>2, <1>3, <1>4, <2>1, <2>2, TornBegins
<1>6. CASE Begins(d.log, log[n])
  <2>1. On(log[n], G)
    BY DEF History, LogsOn
  <2>2. On(d.log, G)
    BY <1>2, <1>5, <1>6, <2>1, BeginningOn
  <2> QED
    BY <1>1, <1>5, <2>2, DieCarries
<1>7. CASE Begins(d.log, longer)
  <2>1. /\ longer \in Seq(Entry)
        /\ GhostType(H) /\ Extends(H, G) /\ LeadersOn(H) /\ On(longer, H)
        /\ \A p \in Server : p # n /\ role[p] = "leader" =>
             H[current_term[p]] = G[current_term[p]]
        /\ \A t \in Nat : H[t] = G[t] \/ \E c \in Server : Led(c, t) \/ Led(c, t)'
    BY <1>2, RequestHistory DEF longer
  <2> HIDE DEF H
  <2>2. On(d.log, H)
    BY <1>5, <1>7, <2>1, BeginningOn
  <2>3. /\ disk' = [disk EXCEPT ![n] = d]
        /\ current_term' = [current_term EXCEPT ![n] = 0]
        /\ log' = [log EXCEPT ![n] = << >>]
        /\ role' = [role EXCEPT ![n] = "follower"]
        /\ msgs' = msgs
    BY <1>1 DEF Die
  <2>4. OthersStay(n) /\ disk'[n] = d /\ log'[n] = << >> /\ role'[n] = "follower"
    BY <2>3 DEF OthersStay, TInv, TypeOK
  <2>5. On(log'[n], H)
    BY <2>4 DEF On
  <2>6. On(disk'[n].log, H)
    BY <2>2, <2>4
  <2>7. Carries(n, G, H)
    BY <2>1, <2>3, <2>4, <2>5, <2>6 DEF Carries
  <2> QED
    BY <2>7 DEF H
<1> QED
  BY <1>5, <1>6, <1>7

-----------------------------------------------------------------------------
(* Every step carries the history on.                                      *)
LEMMA NextCarries ==
  ASSUME TInv, EInv, ElectionSafety', Next, NEW G, History(G)
  PROVE  \E n \in Server : \E H : Carries(n, G, H)
<1>1. PICK n \in Server :
        \/ \E m \in msgs : OnMessage(n, m)
        \/ \E r \in Request : OnClientRequest(n, r) \/ DiskErrorOnRequest(n, r)
        \/ ElectionTimeout(n)
        \/ FireHeartbeat(n)
        \/ DiskErrorOnTimeout(n)
        \/ Crash(n)
        \/ Restart(n)
  BY DEF Next, Step, OnRequest
<1>2. ASSUME NEW m \in msgs, OnMessage(n, m)
      PROVE  \E H : Carries(n, G, H)
  <2>1. m.type # "ClientReply" => m.term \in Nat
    BY MessageFields DEF TInv, TypeOK
  <2>2. CASE OnRequestVote(n, m)
    BY <2>2, OnRequestVoteCarries
  <2>3. CASE \/ CountVote(n, m)
             \/ RefuseStaleLeader(n, m)
             \/ OnAppendSuccess(n, m)
             \/ OnAppendFailure(n, m)
    BY <2>3, QuietStepsCarry
  <2>4. CASE WinElection(n, m)
    BY <2>4, WinElectionCarries
  <2>5. CASE VoteReplyFromNewerTerm(n, m) \/ AppendReplyFromNewerTerm(n, m)
    <3>1. running[n] /\ StepDown(n, m.term) /\ m.type # "ClientReply"
      BY <2>5 DEF VoteReplyFromNewerTerm, AppendReplyFromNewerTerm, Receives
    <3> QED
      BY <2>1, <3>1, StepDownCarries
  <2>6. CASE RefuseGap(n, m)
    BY <2>6, RefuseGapCarries
  <2>7. CASE TakeEntries(n, m)
    BY <2>7, TakeEntriesCarries
  <2>8. CASE DiskErrorOnMessage(n, m)
    BY <2>8, DiskErrorOnMessageCarries
  <2> QED
    BY <1>2, <2>2, <2>3, <2>4, <2>5, <2>6, <2>7, <2>8 DEF OnMessage
<1>3. ASSUME NEW r \in Request, OnClientRequest(n, r) \/ DiskErrorOnRequest(n, r)
      PROVE  \E H : Carries(n, G, H)
  <2>1. CASE OnClientRequest(n, r)
    BY <2>1, OnClientRequestCarries
  <2>2. CASE DiskErrorOnRequest(n, r)
    BY <2>2, DiskErrorOnRequestCarries
  <2> QED
    BY <1>3, <2>1, <2>2
<1>4. CASE ElectionTimeout(n) /\ ~IsMajority({n})
  BY <1>4, AskForVotesCarries DEF ElectionTimeout
<1>5. CASE ElectionTimeout(n) /\ IsMajority({n})
  BY <1>5, ElectOneselfCarries DEF ElectionTimeout
<1>6. CASE FireHeartbeat(n)
  BY <1>6, FireHeartbeatCarries
<1>7. CASE DiskErrorOnTimeout(n) \/ Crash(n)
  BY <1>7, CrashCarries
<1>8. CASE Restart(n)
  BY <1>8, RestartCarries
<1> QED
  BY <1>1, <1>2, <1>3, <1>4, <1>5, <1>6, <1>7, <1>8

(* There is a history of the leaders' logs.                                *)
LInv == \E G \in [Nat -> Seq(Entry)] : History(G)

(* Every step keeps some history.                                          *)
LEMMA LInvStep ==
  TInv /\ EInv /\ TInv' /\ ElectionSafety' /\ LInv /\ [Next]_vars => LInv'
<1> SUFFICES ASSUME TInv, EInv, TInv', ElectionSafety', [Next]_vars,
                    NEW G \in [Nat -> Seq(Entry)], History(G)
             PROVE  LInv'
  BY DEF LInv
<1>1. CASE Next
  <2>1. PICK n \in Server : \E H : Carries(n, G, H)
    BY <1>1, NextCarries
  <2>2. PICK H : Carries(n, G, H)
    BY <2>1
  <2>3. History(H)'
    BY <1>1, <2>2, CarriesKeeps
  <2>4. H \in [Nat -> Seq(Entry)]
    BY <2>2 DEF Carries, GhostType
  <2> QED
    BY <2>3, <2>4 DEF LInv
<1>2. CASE UNCHANGED vars
  <2>1. History(G)'
    BY <1>2 DEF vars, hardVars, leaderVars, commitVars, timerVars, History, GhostType,
       LeadersOn, LogsOn, SlicesOn, LeadersHave, OnlyLed, Led, LedNow
  <2> QED
    BY <2>1 DEF LInv
<1> QED
  BY <1>1, <1>2

(* Nobody has led at the start.                                            *)
Nobody == [t \in Nat |-> << >>]

(* That is a history of empty logs,                                        *)
LEMMA NobodyLed ==
  Nobody \in [Nat -> Seq(Entry)] /\ \A t \in Nat : Nobody[t] = << >>
  BY DEF Nobody

(* the one of the initial states.                                          *)
LEMMA HistoryInit == Init => History(Nobody)
<1> SUFFICES ASSUME Init PROVE History(Nobody)
  OBVIOUS
<1> DEFINE G == Nobody
<1>1. /\ G \in [Nat -> Seq(Entry)]
      /\ \A t \in Nat : G[t] = << >>
  BY NobodyLed
<1> HIDE DEF G
<1>2. /\ \A n \in Server : log[n] = << >> /\ disk[n].log = << >> /\ role[n] = "follower"
      /\ msgs = {}
  BY DEF Init
<1>3. LeadersOn(G) /\ LogsOn(G)
  BY <1>1, <1>2 DEF LeadersOn, LogsOn, On
<1>4. SlicesOn(G) /\ LeadersHave(G) /\ OnlyLed(G)
  BY <1>1, <1>2 DEF SlicesOn, LeadersHave, OnlyLed
<1>5. History(G)
  BY <1>1, <1>3, <1>4 DEF History, GhostType
<1> QED
  BY <1>5 DEF G

(* So there is one.                                                        *)
LEMMA LInvInit == Init => LInv
  BY HistoryInit, NobodyLed DEF LInv

(* Logs match: two logs, in memory or on a disk, that agree about the term *)
(* of an entry agree about it and about all before it, through every       *)
(* crash, torn write and restart, and however a follower's log was cut.    *)
THEOREM LogsMatch == Spec => []LogMatching
<1>1. TInv /\ EInv => ElectionSafety
  BY OneLeader
<1>2. TInv /\ LInv => LogMatching
  BY HistoryMatches DEF LInv, TInv
<1> QED
  BY <1>1, <1>2, EInvHolds, LInvInit, LInvStep, PTL DEF Spec

=============================================================================
