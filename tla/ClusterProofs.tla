--------------------------- MODULE ClusterProofs ---------------------------
(***************************************************************************)
(* What holds of RaftCluster for every cluster, every number of writes and *)
(* every bound: to its nodes the client is a client like any other, so     *)
(* what is proved of RaftNode holds of the cluster; it never stops asking, *)
(* and never takes one answer for another's.                               *)
(***************************************************************************)
EXTENDS RaftCluster, CommitProofs

(* Requests are counted when they are issued, and one is in flight at most.*)
OneAtATime ==
  next_request_id = Len(acked) + IF inflight = Nil THEN 0 ELSE 1

(* Waiting, the client has its retry timer; not waiting, it has client.next*)
(* scheduled or nothing left to write.                                     *)
SomethingDue ==
  /\ inflight # Nil => retry_timer /\ ~next_due
  /\ inflight = Nil => next_due \/ Len(acked) >= Writes

ClientInv == ClientTypeOK /\ OneAtATime /\ SomethingDue

(* The writes are numbered, and Nil is no number of one.                   *)
LEMMA RequestFacts ==
  /\ Writes \in Nat
  /\ \A r \in Request : r \in Nat /\ r # Nil
  /\ \A i \in Nat : i < Writes => i \in Request
  /\ 0 \in Request
<1>1. Writes \in Nat
  BY RequestAssumption, FS_CardinalityType DEF Writes
<1>2. Request = 0 .. Writes - 1 /\ Request # {} /\ Nil \notin Request
  BY RequestAssumption
<1> HIDE DEF Writes
<1> QED
  BY <1>1, <1>2

(* The nodes the client goes round are servers.                            *)
LEMMA NextNodeType ==
  ASSUME NEW n \in Server
  PROVE  After(n) \in Server
<1>1. NODE_IDS \in Seq(Server) /\ \E k \in DOMAIN NODE_IDS : NODE_IDS[k] = n
  BY NodeIdsAssumption
<1>2. PICK i : i = CHOOSE k \in DOMAIN NODE_IDS : NODE_IDS[k] = n
  OBVIOUS
<1>3. i \in DOMAIN NODE_IDS
  BY <1>1, <1>2
<1>4. Len(NODE_IDS) \in Nat /\ DOMAIN NODE_IDS = 1 .. Len(NODE_IDS)
  BY <1>1
<1>5. i \in 1 .. Len(NODE_IDS) /\ Len(NODE_IDS) > 0
  BY <1>3, <1>4
<1>6. (i % Len(NODE_IDS)) + 1 \in 1 .. Len(NODE_IDS)
  BY <1>4, <1>5
<1>7. NODE_IDS[(i % Len(NODE_IDS)) + 1] \in Server
  BY <1>1, <1>4, <1>6
<1>8. After(n) = NODE_IDS[(i % Len(NODE_IDS)) + 1]
  BY <1>2 DEF After
<1> QED
  BY <1>7, <1>8

(* Sending arms the timer and leaves a request on its way.                 *)
LEMMA SendToType ==
  ASSUME ClientTypeOK, NEW n \in Server, NEW r \in Request, SendTo(n, r)
  PROVE  /\ attempts' \in Nat
         /\ requests' \subseteq ClientRequest
         /\ requests \subseteq requests'
         /\ retry_timer' = TRUE
  BY DEF ClientTypeOK, SendTo, ClientRequest

-----------------------------------------------------------------------------
(* The client's invariant.                                                 *)

(* It holds at the start.                                                  *)
LEMMA ClientInvInit == ClientInit => ClientInv
<1> SUFFICES ASSUME ClientInit PROVE ClientInv
  OBVIOUS
<1>1. Server # {} /\ NODE_IDS \in Seq(Server) /\ NODE_IDS # << >>
  <2>1. PICK n : n \in Server
    BY ServerAssumption
  <2>2. \E i \in DOMAIN NODE_IDS : NODE_IDS[i] = n
    BY <2>1, NodeIdsAssumption
  <2> QED
    BY <2>1, <2>2, NodeIdsAssumption
<1>2. NODE_IDS[1] \in Server
  BY <1>1
<1>3. 0 \in Request /\ 0 # Nil
  BY RequestFacts
<1>4. requests \subseteq ClientRequest
  BY <1>2, <1>3 DEF ClientInit, ClientRequest
<1>5. ClientTypeOK
  <2>1. target \in Server /\ inflight \in Request \cup {Nil}
    BY <1>2, <1>3 DEF ClientInit
  <2>2. acked \in Seq(Request)
    BY DEF ClientInit
  <2>3. next_request_id \in Nat /\ attempts \in Nat /\ redirects \in Nat
    BY DEF ClientInit
  <2>4. retry_timer \in BOOLEAN /\ next_due \in BOOLEAN
    BY DEF ClientInit
  <2>5. refusals \subseteq Refusal
    BY DEF ClientInit
  <2> QED
    BY <1>4, <2>1, <2>2, <2>3, <2>4, <2>5 DEF ClientTypeOK
<1>6. OneAtATime
  BY <1>3 DEF ClientInit, OneAtATime
<1>7. SomethingDue
  BY <1>3 DEF ClientInit, SomethingDue
<1> QED
  BY <1>5, <1>6, <1>7 DEF ClientInv

(* The client issues its next request.                                     *)
LEMMA ClientNextKeeps ==
  ASSUME ClientInv, ClientNext
  PROVE  ClientInv'
<1>1. /\ ClientTypeOK /\ inflight = Nil /\ next_request_id = Len(acked)
      /\ Len(acked) \in Nat
  BY DEF ClientInv, ClientTypeOK, OneAtATime, SomethingDue, ClientNext
<1>2. /\ next_due' = FALSE
      /\ UNCHANGED <<target, acked, redirects, refusals>>
  BY DEF ClientNext
<1>3. CASE Issue
  <2>1. /\ Len(acked) < Writes /\ next_request_id' = next_request_id + 1
        /\ inflight' = next_request_id /\ SendTo(target, next_request_id)
    BY <1>3 DEF Issue
  <2>2. next_request_id \in Request /\ inflight' # Nil /\ target \in Server
    BY <1>1, <2>1, RequestFacts DEF ClientTypeOK
  <2>3. /\ attempts' \in Nat /\ requests' \subseteq ClientRequest /\ retry_timer' = TRUE
    BY <1>1, <2>1, <2>2, SendToType
  <2>4. ClientTypeOK'
    <3>1. target' \in Server /\ acked' \in Seq(Request)
      BY <1>1, <1>2 DEF ClientTypeOK
    <3>2. next_request_id' \in Nat /\ redirects' \in Nat
      BY <1>1, <1>2, <2>1 DEF ClientTypeOK
    <3>3. inflight' \in Request \cup {Nil}
      BY <2>1, <2>2
    <3>4. next_due' \in BOOLEAN /\ refusals' \subseteq Refusal
      BY <1>1, <1>2 DEF ClientTypeOK
    <3>5. retry_timer' \in BOOLEAN
      BY <2>3
    <3> QED
      BY <2>3, <3>1, <3>2, <3>3, <3>4, <3>5 DEF ClientTypeOK
  <2>5. OneAtATime' /\ SomethingDue'
    BY <1>1, <1>2, <2>1, <2>2, <2>3 DEF OneAtATime, SomethingDue
  <2> QED
    BY <2>4, <2>5 DEF ClientInv
<1>4. CASE /\ Len(acked) >= Writes
           /\ UNCHANGED <<next_request_id, inflight, attempts, retry_timer, requests>>
  BY <1>1, <1>2, <1>4 DEF ClientInv, ClientTypeOK, OneAtATime, SomethingDue
<1> QED
  BY <1>3, <1>4 DEF ClientNext

(* It sends the request in flight again, on a redirect or a timeout.       *)
LEMMA ResendKeeps ==
  ASSUME ClientInv, ClientRedirect \/ ClientTimeout
  PROVE  ClientInv'
<1>1. ClientTypeOK /\ OneAtATime /\ SomethingDue
  BY DEF ClientInv
<1>0. target \in Server /\ redirects \in Nat
  BY <1>1 DEF ClientTypeOK
<1>a. After(target) \in Server
  BY <1>0, NextNodeType
<1>2. target' \in Server /\ redirects' \in Nat
  <2>1. target' \in {target, After(target)}
    BY DEF ClientRedirect, ClientTimeout
  <2>2. redirects' = redirects \/ (redirects > 0 /\ redirects' = redirects - 1)
    BY DEF ClientRedirect, ClientTimeout
  <2> QED
    BY <1>0, <1>a, <2>1, <2>2
<1>3. UNCHANGED <<next_request_id, inflight, acked, next_due, refusals>>
  BY DEF ClientRedirect, ClientTimeout
<1>4. CASE inflight # Nil
  <2>1. inflight \in Request
    BY <1>1, <1>4 DEF ClientTypeOK
  <2>2. SendTo(target, inflight) \/ SendTo(After(target), inflight)
    BY <1>4 DEF ClientRedirect, ClientTimeout
  <2>3. target \in Server /\ After(target) \in Server
    BY <1>0, <1>a
  <2>4. /\ attempts' \in Nat /\ requests' \subseteq ClientRequest /\ retry_timer' = TRUE
    BY <1>1, <2>1, <2>2, <2>3, SendToType
  <2> QED
    BY <1>1, <1>2, <1>3, <1>4, <2>4 DEF ClientInv, ClientTypeOK, OneAtATime, SomethingDue
<1>5. CASE inflight = Nil
  <2>1. UNCHANGED <<attempts, requests>> /\ retry_timer' \in BOOLEAN
    BY <1>1, <1>5 DEF ClientRedirect, ClientTimeout, ClientTypeOK
  <2> QED
    BY <1>1, <1>2, <1>3, <1>5, <2>1 DEF ClientInv, ClientTypeOK, OneAtATime, SomethingDue
<1> QED
  BY <1>4, <1>5

(* It takes an answer.                                                     *)
LEMMA AnswerKeeps ==
  ASSUME ClientInv, NEW m, ClientAcked(m)
  PROVE  ClientInv'
<1>1. ClientTypeOK /\ OneAtATime /\ inflight # Nil /\ inflight \in Request
  BY DEF ClientInv, ClientTypeOK, ClientAcked, Answers
<1>2. /\ acked' = Append(acked, inflight) /\ inflight' = Nil
      /\ retry_timer' = FALSE /\ next_due' = TRUE
      /\ UNCHANGED <<target, next_request_id, attempts, redirects, requests, refusals>>
  BY DEF ClientAcked
<1>3. acked' \in Seq(Request) /\ Len(acked') = Len(acked) + 1 /\ Len(acked) \in Nat
  BY <1>1, <1>2 DEF ClientTypeOK
<1>4. ClientTypeOK'
  <2>1. inflight' \in Request \cup {Nil} /\ retry_timer' \in BOOLEAN /\ next_due' \in BOOLEAN
    BY <1>2
  <2> QED
    BY <1>1, <1>2, <1>3, <2>1 DEF ClientTypeOK
<1>5. OneAtATime'
  BY <1>1, <1>2, <1>3 DEF OneAtATime
<1>6. SomethingDue'
  BY <1>2 DEF SomethingDue
<1> QED
  BY <1>4, <1>5, <1>6 DEF ClientInv

(* It is refused.                                                          *)
LEMMA RefusalKeeps ==
  ASSUME ClientInv, NEW f \in refusals, ClientRefused(f)
  PROVE  ClientInv'
<1>0. f \in Refusal /\ target \in Server
  BY DEF ClientInv, ClientTypeOK
<1>1. f.leader_hint \in Server \cup {Nil} /\ After(target) \in Server
  BY <1>0, NextNodeType DEF Refusal
<1>2. target' \in Server /\ redirects' \in Nat
  BY <1>1 DEF ClientInv, ClientTypeOK, ClientRefused
<1> QED
  BY <1>2 DEF ClientInv, ClientTypeOK, OneAtATime, SomethingDue, ClientRefused

(* A node refuses a request.                                               *)
LEMMA RefuseKeeps ==
  ASSUME ClientInv, TypeOK, NEW q \in requests, RefuseRequest(q.to, q)
  PROVE  ClientInv'
<1>1. q.to \in Server /\ q.request_id \in Request
  BY DEF ClientInv, ClientTypeOK, ClientRequest
<1>2. leader_id[q.to] \in Server \cup {Nil}
  BY <1>1 DEF TypeOK
<1>3. refusals' \subseteq Refusal
  BY <1>1, <1>2 DEF ClientInv, ClientTypeOK, RefuseRequest, Refusal
<1> QED
  BY <1>3 DEF ClientInv, ClientTypeOK, OneAtATime, SomethingDue, RefuseRequest

(* Every step keeps it.                                                    *)
LEMMA ClientInvStep == ClientInv /\ TypeOK /\ [ClusterNext]_<<vars, clientVars>> => ClientInv'
<1> SUFFICES ASSUME ClientInv, TypeOK, [ClusterNext]_<<vars, clientVars>>
             PROVE  ClientInv'
  OBVIOUS
<1>1. CASE UNCHANGED clientVars
  BY <1>1 DEF clientVars, ClientInv, ClientTypeOK, OneAtATime, SomethingDue
<1>2. CASE ClientStep
  BY <1>2, ClientNextKeeps, ResendKeeps, AnswerKeeps, RefusalKeeps DEF ClientStep
<1>3. CASE \E q \in requests : Receive(q)
  BY <1>1, <1>3, RefuseKeeps DEF Receive
<1> QED
  BY <1>1, <1>2, <1>3 DEF ClusterNext

-----------------------------------------------------------------------------
(* The receipts.                                                           *)

(* What node n owes an answer to.                                          *)
Owed(n) == {d.request_id : d \in pending_clients[n]}

(* A step of n takes on no debts but for requests in R, and answers nothing*)
(* but those and what n owed before; what was sent stays sent.             *)
OwesOnly(n, R) ==
  /\ msgs \subseteq msgs'
  /\ \A x \in Server : \A d \in pending_clients'[x] :
       d \in pending_clients[x] \/ (x = n /\ d.request_id \in R)
  /\ \A m \in msgs' : m.type = "ClientReply" =>
       m \in msgs \/ (m.from = n /\ m.request_id \in R \cup Owed(n))

(* A step that sends no answer and leaves the debts alone.                 *)
LEMMA QuietOwes ==
  ASSUME NEW n \in Server, UNCHANGED pending_clients, NEW sent, Send(sent),
         \A x \in sent : x.type # "ClientReply"
  PROVE  OwesOnly(n, {})
  BY DEF OwesOnly, Send

(* One that sends nothing, and owes no more than before.                   *)
LEMMA SilentOwes ==
  ASSUME NEW n \in Server, UNCHANGED msgs,
         \A x \in Server : pending_clients'[x] \subseteq pending_clients[x]
  PROVE  OwesOnly(n, {})
  BY DEF OwesOnly

(* Applying pays debts, and answers only those it pays.                    *)
LEMMA ApplyOwes ==
  ASSUME TypeOK, NEW n \in Server, NEW lg, NEW debts, NEW c, NEW R, NEW sent,
         \A d \in debts : d \in pending_clients[n] \/ d.request_id \in R,
         ApplyCommitted(n, lg, debts, c),
         \A x \in sent : x.type # "ClientReply",
         Send(sent \cup ReplyTo(n, Paid(n, debts, c)))
  PROVE  OwesOnly(n, R)
<1>1. pending_clients' = [pending_clients EXCEPT ![n] = debts \ Paid(n, debts, c)]
  BY DEF ApplyCommitted
<1>2. pending_clients \in [Server -> SUBSET Debt]
  BY DEF TypeOK
<1>3. ASSUME NEW x \in Server, NEW d \in pending_clients'[x]
      PROVE  d \in pending_clients[x] \/ (x = n /\ d.request_id \in R)
  <2>1. CASE x = n
    <3>1. d \in debts
      BY <1>1, <1>2, <1>3, <2>1
    <3> QED
      BY <2>1, <3>1
  <2>2. CASE x # n
    BY <1>1, <1>2, <1>3, <2>2
  <2> QED
    BY <2>1, <2>2
<1>4. ASSUME NEW m \in msgs', m.type = "ClientReply"
      PROVE  m \in msgs \/ (m.from = n /\ m.request_id \in R \cup Owed(n))
  <2>1. m \in msgs \/ m \in ReplyTo(n, Paid(n, debts, c))
    BY <1>4 DEF Send
  <2>2. CASE m \in ReplyTo(n, Paid(n, debts, c))
    <3>1. PICK d \in debts : m = ClientReply(n, d.request_id)
      BY <2>2 DEF ReplyTo, Paid
    <3>2. m.from = n /\ m.request_id = d.request_id
      BY <3>1 DEF ClientReply
    <3> QED
      BY <3>2 DEF Owed
  <2> QED
    BY <2>1, <2>2
<1>5. msgs \subseteq msgs'
  BY DEF Send
<1> QED
  BY <1>3, <1>4, <1>5 DEF OwesOnly

(* No message between servers is an answer to a client.                    *)
LEMMA ServerMessages ==
  ASSUME NEW n, NEW p, NEW t, NEW lg, NEW next, NEW c, NEW b, NEW i
  PROVE  /\ RequestVote(n, p, t, lg).type # "ClientReply"
         /\ RequestVoteReply(n, p, t, b).type # "ClientReply"
         /\ AppendEntriesReply(n, p, t, b, i).type # "ClientReply"
         /\ AppendEntries(n, p, t, lg, next, c).type # "ClientReply"
  BY DEF RequestVote, RequestVoteReply, AppendEntriesReply, AppendEntries

(* A node that becomes the leader answers nobody.                          *)
LEMMA LeaderOwes ==
  ASSUME NEW n \in Server, NEW t, BecomeLeader(n, t), UNCHANGED pending_clients
  PROVE  OwesOnly(n, {})
<1> DEFINE sent == {AppendEntries(n, p, t, log[n], LastIndex(log[n]) + 1, commit_index[n]) :
                      p \in Peers(n)}
<1>1. Send(sent)
  BY DEF BecomeLeader
<1>2. \A x \in sent : x.type # "ClientReply"
  BY ServerMessages
<1> HIDE DEF sent
<1> QED
  BY <1>1, <1>2, QuietOwes

(* A node that dies owes nothing any more, and nobody is told.             *)
LEMMA DieOwes ==
  ASSUME TypeOK, NEW n \in Server, NEW d, Die(n, d)
  PROVE  OwesOnly(n, {})
<1>1. pending_clients \in [Server -> SUBSET Debt]
  BY DEF TypeOK
<1>2. pending_clients' = [pending_clients EXCEPT ![n] = {}] /\ UNCHANGED msgs
  BY DEF Die
<1>3. \A x \in Server : pending_clients'[x] \subseteq pending_clients[x]
  BY <1>1, <1>2
<1> QED
  BY <1>2, <1>3, SilentOwes

(* A node that handles a message.                                          *)
LEMMA MessageOwes ==
  ASSUME TypeOK, NEW n \in Server, NEW m \in msgs, OnMessage(n, m)
  PROVE  OwesOnly(n, {})
<1>1. CASE OnRequestVote(n, m)
  <2> DEFINE reply == RequestVoteReply(n, m.from, TermAfter(n, m.term), Grants(n, m))
  <2>1. UNCHANGED pending_clients /\ Send({reply})
    BY <1>1 DEF OnRequestVote, commitVars
  <2>2. \A x \in {reply} : x.type # "ClientReply"
    BY ServerMessages
  <2> HIDE DEF reply
  <2> QED
    BY <2>1, <2>2, QuietOwes
<1>2. CASE CountVote(n, m) \/ VoteReplyFromNewerTerm(n, m) \/ AppendReplyFromNewerTerm(n, m)
  <2>1. UNCHANGED <<pending_clients, msgs>>
    BY <1>2 DEF CountVote, VoteReplyFromNewerTerm, AppendReplyFromNewerTerm, StepDown,
       commitVars
  <2> QED
    BY <2>1, SilentOwes
<1>3. CASE WinElection(n, m)
  <2>1. BecomeLeader(n, current_term[n]) /\ UNCHANGED pending_clients
    BY <1>3 DEF WinElection, commitVars
  <2> QED
    BY <2>1, LeaderOwes
<1>4. CASE RefuseStaleLeader(n, m)
  <2> DEFINE reply == AppendEntriesReply(n, m.from, current_term[n], FALSE, 0)
  <2>1. UNCHANGED pending_clients /\ Send({reply})
    BY <1>4 DEF RefuseStaleLeader, commitVars
  <2>2. \A x \in {reply} : x.type # "ClientReply"
    BY ServerMessages
  <2> HIDE DEF reply
  <2> QED
    BY <2>1, <2>2, QuietOwes
<1>5. CASE RefuseGap(n, m)
  <2> DEFINE reply == AppendEntriesReply(n, m.from, TermAfter(n, m.term), FALSE, 0)
  <2>1. UNCHANGED pending_clients /\ Send({reply})
    BY <1>5 DEF RefuseGap, commitVars
  <2>2. \A x \in {reply} : x.type # "ClientReply"
    BY ServerMessages
  <2> HIDE DEF reply
  <2> QED
    BY <2>1, <2>2, QuietOwes
<1>6. CASE TakeEntries(n, m)
  <2> DEFINE sent == {AppendEntriesReply(n, m.from, TermAfter(n, m.term), TRUE,
                                         m.prev_log_index + Len(m.entries))}
             c == CommitAfter(n, m)
             debts == pending_clients[n]
  <2>0. PICK lg : lg = log'[n]
    OBVIOUS
  <2>1. /\ ApplyCommitted(n, lg, debts, c)
        /\ Send(sent \cup ReplyTo(n, Paid(n, debts, c)))
    BY <1>6, <2>0 DEF TakeEntries
  <2>2. \A x \in sent : x.type # "ClientReply"
    BY ServerMessages
  <2>3. \A d \in debts : d \in pending_clients[n] \/ d.request_id \in {}
    OBVIOUS
  <2> HIDE DEF sent, c, debts
  <2> QED
    BY <2>1, <2>2, <2>3, ApplyOwes, ZenonT(60)
<1>7. CASE OnAppendSuccess(n, m)
  <2> DEFINE debts == pending_clients[n]
  <2>1. PICK c : /\ ApplyCommitted(n, log[n], debts, c)
                 /\ Send(ReplyTo(n, Paid(n, debts, c)))
    BY <1>7 DEF OnAppendSuccess
  <2>2. Send({} \cup ReplyTo(n, Paid(n, debts, c)))
    BY <2>1 DEF Send
  <2>3. /\ \A d \in debts : d \in pending_clients[n] \/ d.request_id \in {}
        /\ \A x \in {} : x.type # "ClientReply"
    OBVIOUS
  <2> HIDE DEF debts
  <2> QED
    BY <2>1, <2>2, <2>3, ApplyOwes
<1>8. CASE OnAppendFailure(n, m)
  <2> DEFINE again == AppendEntries(n, m.from, current_term[n], log[n],
                                    NextAfterFailure(n, m.from), commit_index[n])
  <2>1. UNCHANGED pending_clients /\ Send({again})
    BY <1>8 DEF OnAppendFailure, commitVars
  <2>2. \A x \in {again} : x.type # "ClientReply"
    BY ServerMessages
  <2> HIDE DEF again
  <2> QED
    BY <2>1, <2>2, QuietOwes
<1>9. CASE DiskErrorOnMessage(n, m)
  BY <1>9, DieOwes DEF DiskErrorOnMessage
<1> QED
  BY <1>1, <1>2, <1>3, <1>4, <1>5, <1>6, <1>7, <1>8, <1>9 DEF OnMessage

(* Whatever else a node does by itself.                                    *)
LEMMA StepOwes ==
  ASSUME TypeOK, NEW n \in Server, Step(n)
  PROVE  OwesOnly(n, {})
<1>1. CASE ElectionTimeout(n) /\ IsMajority({n})
  <2>1. BecomeLeader(n, current_term[n] + 1) /\ UNCHANGED pending_clients
    BY <1>1 DEF ElectionTimeout, Campaign, commitVars
  <2> QED
    BY <2>1, LeaderOwes
<1>2. CASE ElectionTimeout(n) /\ ~IsMajority({n})
  <2> DEFINE sent == {RequestVote(n, p, current_term[n] + 1, log[n]) : p \in Peers(n)}
  <2>1. UNCHANGED pending_clients /\ Send(sent)
    BY <1>2 DEF ElectionTimeout, Campaign, AskForVotes, commitVars
  <2>2. \A x \in sent : x.type # "ClientReply"
    BY ServerMessages
  <2> HIDE DEF sent
  <2> QED
    BY <2>1, <2>2, QuietOwes
<1>3. CASE FireHeartbeat(n)
  <2> DEFINE sent == {AppendEntries(n, p, current_term[n], log[n], next_index[n][p],
                                    commit_index[n]) : p \in Peers(n)}
  <2>1. UNCHANGED pending_clients /\ (Send(sent) \/ UNCHANGED msgs)
    BY <1>3 DEF FireHeartbeat, commitVars
  <2>2. \A x \in sent : x.type # "ClientReply"
    BY ServerMessages
  <2> HIDE DEF sent
  <2> QED
    BY <2>1, <2>2, QuietOwes, SilentOwes
<1>4. CASE Restart(n)
  <2>1. UNCHANGED <<pending_clients, msgs>>
    BY <1>4 DEF Restart, commitVars
  <2> QED
    BY <2>1, SilentOwes
<1>5. CASE DiskErrorOnTimeout(n) \/ Crash(n)
  BY <1>5, DieOwes DEF DiskErrorOnTimeout, Crash
<1> QED
  BY <1>1, <1>2, <1>3, <1>4, <1>5, MessageOwes DEF Step

(* A request that arrives is the one debt a node takes on.                 *)
LEMMA RequestOwes ==
  ASSUME TypeOK, NEW n \in Server, NEW r, OnRequest(n, r)
  PROVE  OwesOnly(n, {r})
<1>1. CASE DiskErrorOnRequest(n, r)
  <2>1. OwesOnly(n, {})
    BY <1>1, DieOwes DEF DiskErrorOnRequest
  <2> QED
    BY <2>1 DEF OwesOnly
<1>2. CASE OnClientRequest(n, r)
  <2> DEFINE longer == Append(log[n], [term |-> current_term[n], request_id |-> r])
             index == LastIndex(log[n]) + 1
             debts == {d \in pending_clients[n] : d.index # index}
                        \cup {[index |-> index, request_id |-> r]}
             sent == {AppendEntries(n, p, current_term[n], longer, next_index[n][p],
                                    commit_index[n]) : p \in Peers(n)}
  <2>1. PICK c : /\ ApplyCommitted(n, longer, debts, c)
                 /\ Send(sent \cup ReplyTo(n, Paid(n, debts, c)))
    BY <1>2 DEF OnClientRequest
  <2>2. \A x \in sent : x.type # "ClientReply"
    BY ServerMessages
  <2>3. \A d \in debts : d \in pending_clients[n] \/ d.request_id \in {r}
    OBVIOUS
  <2> HIDE DEF sent, debts, longer, index
  <2> QED
    BY <2>1, <2>2, <2>3, ApplyOwes
<1> QED
  BY <1>1, <1>2 DEF OnRequest

-----------------------------------------------------------------------------
(* The nodes.                                                              *)

(* What the client and the nodes do together is what nodes do, or nothing  *)
(* to them.                                                                *)
LEMMA ClusterStep == ClientInv /\ [ClusterNext]_<<vars, clientVars>> => [Next]_vars
<1> SUFFICES ASSUME ClientInv, ClusterNext PROVE Next \/ UNCHANGED vars
  OBVIOUS
<1>1. CASE ClientStep
  BY <1>1 DEF ClientStep, ClientNext, ClientRedirect, ClientTimeout, ClientAcked, ClientRefused
<1>2. ASSUME NEW q \in requests, Receive(q)
      PROVE  Next \/ UNCHANGED vars
  <2>1. q.to \in Server /\ q.request_id \in Request
    BY DEF ClientInv, ClientTypeOK, ClientRequest
  <2>2. CASE OnRequest(q.to, q.request_id)
    BY <2>1, <2>2 DEF Next
  <2>3. CASE RefuseRequest(q.to, q)
    BY <2>3 DEF RefuseRequest
  <2> QED
    BY <1>2, <2>2, <2>3 DEF Receive
<1>3. CASE \E n \in Server : Step(n)
  BY <1>3 DEF Next
<1> QED
  BY <1>1, <1>2, <1>3 DEF ClusterNext

(* Nobody owes, or has sent, an answer to a request it was not sent.       *)
DebtsRequested ==
  \A n \in Server : \A d \in pending_clients[n] :
    [to |-> n, request_id |-> d.request_id] \in requests
RepliesRequested ==
  \A m \in msgs : m.type = "ClientReply" =>
    [to |-> m.from, request_id |-> m.request_id] \in requests

AnswersInv == DebtsRequested /\ RepliesRequested /\ AckedWasAnswered

(* At the start nobody owes or has answered anything.                      *)
LEMMA AnswersInvInit == ClusterInit => AnswersInv
<1> SUFFICES ASSUME ClusterInit PROVE AnswersInv
  OBVIOUS
<1>1. /\ msgs = {} /\ acked = << >>
      /\ \A n \in Server : pending_clients[n] = {}
  BY DEF ClusterInit, Init, ClientInit
<1>2. DOMAIN acked = {}
  BY <1>1
<1> QED
  BY <1>1, <1>2 DEF AnswersInv, DebtsRequested, RepliesRequested, AckedWasAnswered

(* A node's step keeps it, if what it takes on was requested of it.        *)
LEMMA OwesKeeps ==
  ASSUME AnswersInv, NEW n \in Server, NEW R, OwesOnly(n, R), UNCHANGED clientVars,
         \A r \in R : [to |-> n, request_id |-> r] \in requests
  PROVE  AnswersInv'
<1>1. requests' = requests /\ acked' = acked
  BY DEF clientVars
<1>2. DebtsRequested /\ RepliesRequested /\ AckedWasAnswered
  BY DEF AnswersInv
<1>3. DebtsRequested'
  BY <1>1, <1>2 DEF DebtsRequested, OwesOnly
<1>4. ASSUME NEW m \in msgs', m.type = "ClientReply"
      PROVE  [to |-> m.from, request_id |-> m.request_id] \in requests
  <2>1. m \in msgs \/ (m.from = n /\ m.request_id \in R \cup Owed(n))
    BY <1>4 DEF OwesOnly
  <2>2. CASE m \in msgs
    BY <1>2, <1>4, <2>2 DEF RepliesRequested
  <2>3. CASE m.from = n /\ m.request_id \in R
    BY <2>3
  <2>4. CASE m.from = n /\ m.request_id \in Owed(n)
    <3>1. PICK d \in pending_clients[n] : m.request_id = d.request_id
      BY <2>4 DEF Owed
    <3> QED
      BY <1>2, <2>4, <3>1 DEF DebtsRequested
  <2> QED
    BY <2>1, <2>2, <2>3, <2>4
<1>5. RepliesRequested'
  BY <1>1, <1>4 DEF RepliesRequested
<1>6. AckedWasAnswered'
  <2>1. msgs \subseteq msgs'
    BY DEF OwesOnly
  <2> QED
    BY <1>1, <1>2, <2>1 DEF AckedWasAnswered
<1> QED
  BY <1>3, <1>5, <1>6 DEF AnswersInv

(* The client's step keeps it: a receipt is for an answer that was sent.   *)
LEMMA ClientKeepsAnswers ==
  ASSUME ClientInv, AnswersInv, ClientStep
  PROVE  AnswersInv'
<1>1. UNCHANGED vars
  BY DEF ClientStep, ClientNext, ClientRedirect, ClientTimeout, ClientAcked, ClientRefused
<1>2. msgs' = msgs /\ pending_clients' = pending_clients
  BY <1>1 DEF vars, commitVars
<1>3. requests \subseteq requests'
  BY DEF ClientStep, ClientNext, Issue, ClientRedirect, ClientTimeout, ClientAcked,
     ClientRefused, SendTo
<1>4. DebtsRequested /\ RepliesRequested /\ AckedWasAnswered
  BY DEF AnswersInv
<1>5. DebtsRequested' /\ RepliesRequested'
  BY <1>2, <1>3, <1>4 DEF DebtsRequested, RepliesRequested
<1>6. CASE UNCHANGED acked
  BY <1>2, <1>3, <1>4, <1>5, <1>6 DEF AnswersInv, AckedWasAnswered
<1>7. ASSUME NEW m \in msgs, ClientAcked(m)
      PROVE  AckedWasAnswered'
  <2>1. acked \in Seq(Request) /\ inflight \in Request
    BY <1>7 DEF ClientInv, ClientTypeOK, ClientAcked, Answers
  <2>2. acked' = Append(acked, inflight) /\ m.type = "ClientReply" /\ m.request_id = inflight
    BY <1>7 DEF ClientAcked, Answers
  <2>3. [to |-> m.from, request_id |-> inflight] \in requests
    BY <1>4, <2>2 DEF RepliesRequested
  <2>4. ASSUME NEW i \in DOMAIN acked'
        PROVE  \E x \in msgs : /\ x.type = "ClientReply"
                               /\ x.request_id = acked'[i]
                               /\ [to |-> x.from, request_id |-> acked'[i]] \in requests
    <3>1. (i \in DOMAIN acked /\ acked'[i] = acked[i]) \/ acked'[i] = inflight
      BY <2>1, <2>2
    <3>2. CASE i \in DOMAIN acked /\ acked'[i] = acked[i]
      BY <1>4, <3>2 DEF AckedWasAnswered
    <3>3. CASE acked'[i] = inflight
      BY <2>2, <2>3, <3>3
    <3> QED
      BY <3>1, <3>2, <3>3
  <2> QED
    BY <1>2, <1>3, <2>4 DEF AckedWasAnswered
<1>8. UNCHANGED acked \/ \E m \in msgs : ClientAcked(m)
  BY DEF ClientStep, ClientNext, ClientRedirect, ClientTimeout, ClientRefused
<1> QED
  BY <1>5, <1>6, <1>7, <1>8 DEF AnswersInv

(* Every step keeps it.                                                    *)
LEMMA AnswersInvStep ==
  ClientInv /\ TInv /\ AnswersInv /\ [ClusterNext]_<<vars, clientVars>> => AnswersInv'
<1> SUFFICES ASSUME ClientInv, TInv, AnswersInv, [ClusterNext]_<<vars, clientVars>>
             PROVE  AnswersInv'
  OBVIOUS
<1>1. TypeOK
  BY DEF TInv
<1>2. CASE ClientStep
  BY <1>2, ClientKeepsAnswers
<1>3. ASSUME NEW q \in requests, Receive(q)
      PROVE  AnswersInv'
  <2>1. q.to \in Server /\ q = [to |-> q.to, request_id |-> q.request_id]
    BY DEF ClientInv, ClientTypeOK, ClientRequest
  <2>2. CASE OnRequest(q.to, q.request_id) /\ UNCHANGED clientVars
    <3>1. OwesOnly(q.to, {q.request_id})
      BY <1>1, <2>1, <2>2, RequestOwes
    <3> QED
      BY <2>1, <2>2, <3>1, OwesKeeps
  <2>3. CASE RefuseRequest(q.to, q)
    <3>1. UNCHANGED <<requests, acked, vars>>
      BY <2>3 DEF RefuseRequest
    <3> QED
      BY <3>1 DEF vars, commitVars, AnswersInv, DebtsRequested, RepliesRequested,
         AckedWasAnswered
  <2> QED
    BY <1>3, <2>2, <2>3 DEF Receive
<1>4. ASSUME NEW n \in Server, Step(n), UNCHANGED clientVars
      PROVE  AnswersInv'
  <2>1. OwesOnly(n, {})
    BY <1>1, <1>4, StepOwes
  <2>2. \A r \in {} : [to |-> n, request_id |-> r] \in requests
    OBVIOUS
  <2> QED
    BY <1>4, <2>1, <2>2, OwesKeeps
<1>5. CASE UNCHANGED <<vars, clientVars>>
  BY <1>5 DEF vars, commitVars, clientVars, AnswersInv, DebtsRequested, RepliesRequested,
     AckedWasAnswered
<1> QED
  BY <1>2, <1>3, <1>4, <1>5 DEF ClusterNext

(* The invariants together.                                                *)
LEMMA ClientInvHolds == ClusterSpec => [](ClientInv /\ TInv)
<1>1. ClusterInit => ClientInv /\ TInv
  BY ClientInvInit, TInvInit DEF ClusterInit
<1>2. ClientInv /\ TInv /\ [ClusterNext]_<<vars, clientVars>> => (ClientInv /\ TInv)'
  BY ClientInvStep, ClusterStep, TInvStep DEF TInv
<1> QED
  BY <1>1, <1>2, PTL DEF ClusterSpec

(* The cluster implements its nodes: with a client of the code's own,      *)
(* which retries, is redirected and is late, each behaviour of the servers *)
(* is one that RaftNode allows.                                            *)
THEOREM ClusterIsRaft == ClusterSpec => Spec
<1>1. [](ClientInv /\ TInv) /\ [][ClusterNext]_<<vars, clientVars>> => [][Next]_vars
  BY ClusterStep, PTL
<1> QED
  BY <1>1, ClientInvHolds, PTL DEF ClusterSpec, ClusterInit, Spec

(* So no two servers of the cluster lead in one term.                      *)
THEOREM ClusterOneLeader == ClusterSpec => []ElectionSafety
  BY ClusterIsRaft, OneLeaderPerTerm, PTL

(* The client's variables keep their types; it never issues more requests  *)
(* than it has writes.                                                     *)
THEOREM ClientTypeCorrect == ClusterSpec => []ClientTypeOK
<1>1. ClientInv => ClientTypeOK
  BY DEF ClientInv
<1> QED
  BY <1>1, ClientInvHolds, PTL

(* A receipt is for an answer to that very request, by a server that it    *)
(* was sent to, however late, repeated or out of order answers come.       *)
THEOREM ReceiptsAnswered == ClusterSpec => []AckedWasAnswered
<1>1. AnswersInv => AckedWasAnswered
  BY DEF AnswersInv
<1>2. ClientInv /\ TInv /\ AnswersInv /\ [ClusterNext]_<<vars, clientVars>> => AnswersInv'
  BY AnswersInvStep
<1> QED
  BY <1>1, <1>2, AnswersInvInit, ClientInvHolds, PTL DEF ClusterSpec

(* Until it has all its receipts, the client has a timer that will make it *)
(* send, whatever is lost and in whatever order its callbacks fire.        *)
THEOREM ClientKeepsAsking == ClusterSpec => []ClientNeverStalls
<1>1. ClientInv => ClientNeverStalls
  <2> SUFFICES ASSUME ClientInv, Len(acked) < Writes PROVE retry_timer \/ next_due
    BY DEF ClientNeverStalls
  <2>1. ~(Len(acked) >= Writes)
    <3>1. Len(acked) \in Nat
      BY DEF ClientInv, ClientTypeOK
    <3>2. Writes \in Nat
      BY RequestFacts
    <3> HIDE DEF Writes
    <3> QED
      BY <3>1, <3>2
  <2> QED
    BY <2>1 DEF ClientInv, SomethingDue
<1> QED
  BY <1>1, ClientInvHolds, PTL

(* A hint given is a hint that HintsSpoke allows, and messages stay.       *)
LEMMA HintLedStep ==
  ClientInv /\ TInv /\ HInv /\ HintLed /\ [ClusterNext]_<<vars, clientVars>> => HintLed'
<1> SUFFICES ASSUME ClientInv, TInv, HInv, HintLed, [ClusterNext]_<<vars, clientVars>>
             PROVE  HintLed'
  OBVIOUS
<1>1. TypeOK
  BY DEF TInv
<1>2. ASSUME msgs \subseteq msgs', refusals' = refusals
      PROVE  HintLed'
  BY <1>2 DEF HintLed
<1>3. CASE ClientStep
  <2>1. UNCHANGED vars /\ refusals' = refusals
    BY <1>3 DEF ClientStep, ClientNext, ClientRedirect, ClientTimeout, ClientAcked,
       ClientRefused
  <2> QED
    BY <1>2, <2>1 DEF vars
<1>4. ASSUME NEW q \in requests, Receive(q)
      PROVE  HintLed'
  <2>1. q.to \in Server
    BY DEF ClientInv, ClientTypeOK, ClientRequest
  <2>2. CASE OnRequest(q.to, q.request_id) /\ UNCHANGED clientVars
    <3>1. OwesOnly(q.to, {q.request_id})
      BY <1>1, <2>1, <2>2, RequestOwes
    <3> QED
      BY <1>2, <2>2, <3>1 DEF OwesOnly, clientVars
  <2>3. CASE RefuseRequest(q.to, q)
    <3>1. PICK f : f = [from |-> q.to, request_id |-> q.request_id,
                        leader_hint |-> leader_id[q.to]]
      OBVIOUS
    <3>2. /\ refusals' = refusals \cup {f} /\ msgs' = msgs /\ role[q.to] # "leader"
      BY <2>3, <3>1 DEF RefuseRequest, vars
    <3>3. f.leader_hint # Nil => /\ f.leader_hint # f.from
                                 /\ \E m \in msgs : /\ m.type = "AppendEntries"
                                                    /\ m.from = f.leader_hint
      BY <2>1, <3>1, <3>2 DEF HInv, HintsSpoke, SpokeIn, IsAppend
    <3> QED
      BY <3>2, <3>3 DEF HintLed
  <2> QED
    BY <1>4, <2>2, <2>3 DEF Receive
<1>5. ASSUME NEW n \in Server, Step(n), UNCHANGED clientVars
      PROVE  HintLed'
  <2>1. OwesOnly(n, {})
    BY <1>1, <1>5, StepOwes
  <2> QED
    BY <1>2, <1>5, <2>1 DEF OwesOnly, clientVars
<1>6. CASE UNCHANGED <<vars, clientVars>>
  BY <1>2, <1>6 DEF vars, clientVars
<1> QED
  BY <1>3, <1>4, <1>5, <1>6 DEF ClusterNext

(* Whom a refusal names has spoken as a leader and is not the server that  *)
(* refuses, so nobody sends the client back to itself (on_client_request). *)
THEOREM HintsAreLeaders == ClusterSpec => []HintLed
<1>1. ClusterInit => HintLed
  BY DEF ClusterInit, ClientInit, HintLed
<1> QED
  BY <1>1, HintLedStep, ClientInvHolds, ClusterIsRaft, HInvHolds, PTL DEF ClusterSpec

(* What the cluster's stores have applied agrees and is not lost, whatever *)
(* its client does: it retries, is redirected, and hears too late.         *)
THEOREM ClusterStoresAgree ==
  ClusterSpec => [](StateMachineSafety /\ AppliedIsOnMajority /\ LeaderCompleteness)
  BY ClusterIsRaft, StateMachinesAgree, AppliedSurvives, LeadersComplete, PTL

-----------------------------------------------------------------------------
(* What is written, and where it comes from.                               *)

(* e was sent as the entry at index k.                                     *)
Shown(k, e) ==
  \E m \in msgs : /\ IsAppend(m)
                  /\ k \in m.prev_log_index + 1 .. LastNew(m)
                  /\ m.entries[k - m.prev_log_index] = e

(* The entry that leader n makes of request r.                             *)
Made(n, r) == [term |-> current_term[n], request_id |-> r]

(* Each entry of lg is on the disk of n, or was sent by a leader, or is of *)
(* a request in R that n makes an entry of, leading.                       *)
Sourced(n, R, lg) ==
  \A k \in 1 .. Len(lg) :
    \/ k <= Len(disk[n].log) /\ lg[k] = disk[n].log[k]
    \/ Shown(k, lg[k])
    \/ role[n] = "leader" /\ \E r \in R : lg[k] = Made(n, r)

(* So is each entry of its beginnings.                                     *)
LEMMA SourcedBegins ==
  ASSUME NEW n, NEW R, NEW a \in Seq(Entry), NEW b \in Seq(Entry), Begins(a, b),
         Sourced(n, R, b)
  PROVE  Sourced(n, R, a)
<1> SUFFICES ASSUME NEW k \in 1 .. Len(a)
             PROVE  \/ k <= Len(disk[n].log) /\ a[k] = disk[n].log[k]
                    \/ Shown(k, a[k])
                    \/ role[n] = "leader" /\ \E r \in R : a[k] = Made(n, r)
  BY DEF Sourced
<1>1. k \in 1 .. Len(b) /\ a[k] = b[k]
  BY DEF Begins
<1> QED
  BY <1>1 DEF Sourced

(* So is each entry of the log as it was.                                  *)
LEMMA OldSourced ==
  ASSUME NEW n, NEW R, NEW lg, lg = disk[n].log, lg \in Seq(Entry)
  PROVE  Sourced(n, R, lg)
<1>1. \A k \in 1 .. Len(lg) : k <= Len(lg)
  OBVIOUS
<1> QED
  BY <1>1 DEF Sourced

(* What a follower takes.                                                  *)
LEMMA TakenSourced ==
  ASSUME TInv, NEW n \in Server, running[n], NEW m \in msgs, IsAppend(m),
         NEW G, History(G), Consistent(n, m),
         NEW h \in 0 .. Len(m.entries), Held(n, m, h)
  PROVE  Taken(n, m, h) \in Seq(Entry) /\ Sourced(n, {}, Taken(n, m, h))
<1>1. /\ m.term \in Nat /\ m.prev_log_index \in Nat /\ m.entries \in Seq(Entry)
  BY MessageFields DEF TInv, TypeOK, IsAppend
<1>2. /\ GhostType(G) /\ LeadersOn(G) /\ On(log[n], G) /\ log[n] \in Seq(Entry)
      /\ SliceOf(m, G[m.term])
  BY DEF History, LogsOn, SlicesOn, TInv, TypeOK
<1>3. /\ Taken(n, m, h) \in Seq(Entry)
      /\ LastNew(m) <= Len(Taken(n, m, h))
      /\ \A j \in 1 .. LastNew(m) : Taken(n, m, h)[j] = G[m.term][j]
      /\ Taken(n, m, h) = log[n] \/ Len(Taken(n, m, h)) = LastNew(m)
  BY <1>1, <1>2, TakenIsLeaders
<1>4. /\ m.prev_log_index + h <= Len(log[n])
      /\ \A j \in 1 .. m.prev_log_index + h : log[n][j] = G[m.term][j]
  BY <1>1, <1>2, HeldIsLeaders
<1>5. disk[n].log = log[n]
  BY DiskAgrees DEF TInv
<1> DEFINE lg == Taken(n, m, h)
           p == m.prev_log_index
           e == m.entries
<1>6. CASE lg = log[n]
  BY <1>3, <1>5, <1>6, OldSourced
<1>7. CASE Len(lg) = LastNew(m)
  <2>1. \A k \in 1 .. Len(e) : e[k] = G[m.term][p + k]
    BY <1>2 DEF SliceOf
  <2>2. LastNew(m) = p + Len(e)
    BY DEF LastNew
  <2> HIDE DEF lg, p, e
  <2>3. p \in Nat /\ Len(e) \in Nat /\ h \in Nat /\ Len(log[n]) \in Nat
    BY <1>1, <1>2 DEF p, e
  <2>4. ASSUME NEW k \in 1 .. Len(lg)
        PROVE  \/ k <= Len(log[n]) /\ lg[k] = log[n][k]
               \/ Shown(k, lg[k])
    <3>1. k \in 1 .. LastNew(m) /\ lg[k] = G[m.term][k]
      BY <1>3, <1>7 DEF lg
    <3>2. CASE k <= p
      <4>1. k \in 1 .. p + h /\ k <= Len(log[n])
        BY <1>4, <2>2, <2>3, <3>1, <3>2 DEF p
      <4> QED
        BY <1>4, <3>1, <4>1 DEF p
    <3>3. CASE ~(k <= p)
      <4>1. k \in p + 1 .. LastNew(m) /\ k - p \in 1 .. Len(e) /\ p + (k - p) = k
        BY <2>2, <2>3, <3>1, <3>3
      <4>2. e[k - p] = lg[k]
        BY <2>1, <3>1, <4>1
      <4> QED
        BY <4>1, <4>2 DEF Shown, p, e
    <3> QED
      BY <3>2, <3>3
  <2> QED
    BY <1>3, <1>5, <2>4 DEF Sourced, lg
<1> QED
  BY <1>3, <1>6, <1>7

(* What a torn write leaves.                                               *)
LEMMA TornSourced ==
  ASSUME TInv, NEW n \in Server, running[n], NEW R,
         NEW cut \in Nat \ {0}, NEW new \in Seq(Entry), NEW t, NEW v,
         NEW d \in Torn(n, cut, new, t, v),
         Sourced(n, R, TruncateFrom(log[n], cut) \o new)
  PROVE  Sourced(n, R, d.log)
<1>1. disk[n] \in HardState /\ disk[n].log \in Seq(Entry) /\ log[n] \in Seq(Entry)
  BY DEF TInv, TypeOK, HardState
<1>2. disk[n].log = log[n]
  BY DiskAgrees DEF TInv
<1> DEFINE lg == TruncateFrom(log[n], cut) \o new
<1>3. lg \in Seq(Entry)
  <2>1. TruncateFrom(log[n], cut) \in Seq(Entry)
    BY <1>1, TruncateType
  <2> QED
    BY <2>1
<1>4. Sourced(n, R, lg)
  OBVIOUS
<1>5. d.log \in Seq(Entry) /\ (Begins(d.log, disk[n].log) \/ Begins(d.log, lg))
  BY <1>1, <1>2, TornBegins DEF Torn
<1> HIDE DEF lg
<1>6. Sourced(n, R, disk[n].log)
  BY <1>1, OldSourced
<1> QED
  BY <1>1, <1>3, <1>4, <1>5, <1>6, SourcedBegins

(* The same of a torn write of the term and the vote.                      *)
LEMMA TornStateSourced ==
  ASSUME TInv, NEW n \in Server, running[n], NEW t, NEW v,
         NEW d \in Torn(n, LastIndex(log[n]) + 1, << >>, t, v)
  PROVE  Sourced(n, {}, d.log)
<1>1. log[n] \in Seq(Entry) /\ LastIndex(log[n]) + 1 \in Nat \ {0}
      /\ << >> \in Seq(Entry)
  BY DEF TInv, TypeOK, LastIndex
<1>2. TruncateFrom(log[n], LastIndex(log[n]) + 1) \o << >> = log[n]
  BY <1>1 DEF TruncateFrom, LastIndex
<1>3. Sourced(n, {}, log[n])
  BY <1>1, DiskAgrees, OldSourced DEF TInv
<1> QED
  BY <1>1, <1>2, <1>3, TornSourced

(* What handling a message leaves on the disk.                             *)
LEMMA MessageSourced ==
  ASSUME TInv, NEW n \in Server, NEW m \in msgs, OnMessage(n, m), NEW G, History(G)
  PROVE  Sourced(n, {}, disk'[n].log)
<1>0. /\ disk[n].log \in Seq(Entry) /\ m \in Message
      /\ m.type # "ClientReply" => m.term \in Nat
  BY MessageFields DEF TInv, TypeOK, HardState
<1>1. ASSUME NEW t \in Nat, NEW v \in Server \cup {Nil}, PersistState(n, t, v), running[n]
      PROVE  Sourced(n, {}, disk'[n].log)
  <2>1. disk'[n].log = disk[n].log
    BY <1>1, StateWritten, DiskAgrees DEF TInv
  <2> QED
    BY <1>0, <2>1, OldSourced
<1>2. CASE UNCHANGED disk
  BY <1>0, <1>2, OldSourced
<1>3. CASE OnRequestVote(n, m)
  <2>1. /\ running[n] /\ m.from \in Server /\ m.term \in Nat
        /\ PersistState(n, TermAfter(n, m.term), VoteOn(n, m))
    BY <1>3, MessageFields DEF OnRequestVote, Receives, TInv, TypeOK
  <2>2. TermAfter(n, m.term) \in Nat /\ VoteOn(n, m) \in Server \cup {Nil}
    BY <2>1, AfterType DEF VoteOn, TInv
  <2> QED
    BY <1>1, <2>1, <2>2
<1>4. CASE VoteReplyFromNewerTerm(n, m) \/ AppendReplyFromNewerTerm(n, m) \/ RefuseGap(n, m)
  <2>1. /\ running[n] /\ m.term \in Nat
        /\ PersistState(n, TermAfter(n, m.term), VoteAfter(n, m.term))
    BY <1>0, <1>4 DEF VoteReplyFromNewerTerm, AppendReplyFromNewerTerm, RefuseGap, StepDown,
       HearLeader, Receives
  <2>2. TermAfter(n, m.term) \in Nat /\ VoteAfter(n, m.term) \in Server \cup {Nil}
    BY <2>1, AfterType DEF TInv
  <2> QED
    BY <1>1, <2>1, <2>2
<1>5. CASE TakeEntries(n, m)
  <2>1. /\ HearLeader(n, m) /\ Consistent(n, m)
    BY <1>5 DEF TakeEntries
  <2>2. running[n] /\ IsAppend(m) /\ m.term \in Nat
    BY <2>1, HearLeaderStep DEF IsAppend
  <2>3. TermAfter(n, m.term) \in Nat /\ VoteAfter(n, m.term) \in Server \cup {Nil}
    BY <2>2, AfterType DEF TInv
  <2>4. PICK h \in 0 .. Len(m.entries) :
          /\ Held(n, m, h)
          /\ Persist(n, CutAt(n, m, h), NewEntries(m, h),
                     TermAfter(n, m.term), VoteAfter(n, m.term))
    BY <1>5 DEF TakeEntries
  <2>5. CutAt(n, m, h) \in Nat \ {0} /\ NewEntries(m, h) \in Seq(Entry)
    BY <1>0, <2>2, CutType DEF TInv, IsAppend
  <2>6. disk'[n].log = Taken(n, m, h)
    BY <2>2, <2>3, <2>4, <2>5, LogWritten DEF Taken
  <2>7. Sourced(n, {}, Taken(n, m, h))
    BY <2>1, <2>2, <2>4, TakenSourced
  <2> QED
    BY <2>6, <2>7
<1>6. CASE DiskErrorOnMessage(n, m)
  <2>1. PICK d \in TornBy(n, m) : Die(n, d)
    BY <1>6 DEF DiskErrorOnMessage
  <2>2. disk'[n].log = d.log /\ running[n]
    BY <2>1 DEF Die, TInv, TypeOK
  <2>3. CASE m.type = "AppendEntries" /\ m.term >= current_term[n] /\ Consistent(n, m)
    <3>1. PICK h \in 0 .. Len(m.entries) :
            /\ Held(n, m, h)
            /\ d \in Torn(n, CutAt(n, m, h), NewEntries(m, h),
                          TermAfter(n, m.term), VoteAfter(n, m.term))
      BY <2>1, <2>3 DEF TornBy
    <3>2. CutAt(n, m, h) \in Nat \ {0} /\ NewEntries(m, h) \in Seq(Entry)
      BY <1>0, <2>3, CutType DEF TInv
    <3>3. Sourced(n, {}, TruncateFrom(log[n], CutAt(n, m, h)) \o NewEntries(m, h))
      BY <2>2, <2>3, <3>1, TakenSourced DEF Taken, IsAppend
    <3> QED
      BY <2>2, <3>1, <3>2, <3>3, TornSourced
  <2>4. CASE ~(m.type = "AppendEntries" /\ m.term >= current_term[n] /\ Consistent(n, m))
    <3>1. \E t, v : d \in Torn(n, LastIndex(log[n]) + 1, << >>, t, v)
      <4>1. CASE m.type = "RequestVote"
        <5>1. d \in Torn(n, LastIndex(log[n]) + 1, << >>, TermAfter(n, m.term),
                         VoteOn(n, m))
          BY <2>1, <4>1 DEF TornBy
        <5> QED
          BY <5>1
      <4>2. CASE m.type # "RequestVote"
        <5>1. d \in Torn(n, LastIndex(log[n]) + 1, << >>, TermAfter(n, m.term),
                         VoteAfter(n, m.term))
          BY <2>1, <2>4, <4>2 DEF TornBy
        <5> QED
          BY <5>1
      <4> QED
        BY <4>1, <4>2
    <3> QED
      BY <2>2, <3>1, TornStateSourced
  <2> QED
    BY <2>3, <2>4
<1>7. CASE \/ CountVote(n, m) \/ WinElection(n, m) \/ RefuseStaleLeader(n, m)
           \/ OnAppendSuccess(n, m) \/ OnAppendFailure(n, m)
  <2>1. UNCHANGED disk
    BY <1>7 DEF CountVote, WinElection, RefuseStaleLeader, OnAppendSuccess, OnAppendFailure
  <2> QED
    BY <1>2, <2>1
<1> QED
  BY <1>3, <1>4, <1>5, <1>6, <1>7 DEF OnMessage

(* What any other step of a node leaves there.                             *)
LEMMA StepSourced ==
  ASSUME TInv, NEW n \in Server, Step(n), NEW G, History(G)
  PROVE  Sourced(n, {}, disk'[n].log)
<1>0. disk[n].log \in Seq(Entry)
  BY DEF TInv, TypeOK, HardState
<1>1. CASE ElectionTimeout(n)
  <2>1. Campaign(n) /\ running[n]
    BY <1>1 DEF ElectionTimeout, Campaign
  <2>2. disk'[n].log = log[n]
    <3>1. disk'[n] = [current_term |-> current_term[n] + 1, voted_for |-> n, log |-> log[n]]
      BY <2>1, CampaignStep
    <3> QED
      BY <3>1
  <2> QED
    BY <1>0, <2>1, <2>2, DiskAgrees, OldSourced DEF TInv
<1>2. CASE FireHeartbeat(n) \/ Restart(n)
  <2>1. UNCHANGED disk
    BY <1>2 DEF FireHeartbeat, Restart
  <2> QED
    BY <1>0, <2>1, OldSourced
<1>3. CASE DiskErrorOnTimeout(n)
  <2>1. PICK d \in Torn(n, LastIndex(log[n]) + 1, << >>, current_term[n] + 1, n) : Die(n, d)
    BY <1>3 DEF DiskErrorOnTimeout
  <2>2. disk'[n].log = d.log /\ running[n]
    BY <2>1 DEF Die, TInv, TypeOK
  <2> QED
    BY <2>2, TornStateSourced
<1>4. CASE Crash(n)
  <2>1. disk'[n].log = disk[n].log
    BY <1>4 DEF Crash, Die, TInv, TypeOK
  <2> QED
    BY <1>0, <2>1, OldSourced
<1>5. CASE \E m \in msgs : OnMessage(n, m)
  BY <1>5, MessageSourced
<1> QED
  BY <1>1, <1>2, <1>3, <1>4, <1>5 DEF Step

(* What a request leaves there.                                            *)
LEMMA RequestSourced ==
  ASSUME TInv, NEW n \in Server, NEW r \in Request, OnRequest(n, r)
  PROVE  Sourced(n, {r}, disk'[n].log)
<1>1. running[n] /\ role[n] = "leader"
  BY DEF OnRequest, OnClientRequest, DiskErrorOnRequest, Die
<1>2. /\ disk[n].log = log[n] /\ log[n] \in Seq(Entry) /\ current_term[n] \in Nat
      /\ disk \in [Server -> HardState] /\ disk[n] \in HardState
  BY <1>1, DiskAgrees DEF TInv, TypeOK
<1>3. PICK e \in Entry : e = Made(n, r)
  BY <1>2 DEF Made, Entry
<1>4. Sourced(n, {r}, Append(log[n], e))
  <2>1. PICK l \in Seq(Entry) : l = log[n]
    BY <1>2
  <2>2. /\ Len(Append(l, e)) = Len(l) + 1 /\ Len(l) \in Nat
        /\ \A k \in 1 .. Len(l) : Append(l, e)[k] = l[k]
        /\ Append(l, e)[Len(l) + 1] = e
    OBVIOUS
  <2>3. \A k \in 1 .. Len(l) + 1 : k \in 1 .. Len(l) \/ k = Len(l) + 1
    BY <2>2
  <2>4. \A k \in 1 .. Len(l) : k <= Len(l)
    OBVIOUS
  <2>5. ASSUME NEW k \in 1 .. Len(Append(l, e))
        PROVE  (k <= Len(l) /\ Append(l, e)[k] = l[k]) \/ Append(l, e)[k] = e
    BY <2>2, <2>3, <2>4
  <2> QED
    BY <1>1, <1>2, <1>3, <2>1, <2>5 DEF Sourced
<1>5. CASE OnClientRequest(n, r)
  <2>1. disk' = [disk EXCEPT ![n].log = Append(@, e)]
    BY <1>3, <1>5 DEF OnClientRequest, Made
  <2>2. disk'[n].log = Append(log[n], e)
    BY <1>2, <2>1 DEF HardState
  <2> QED
    BY <1>4, <2>2
<1>6. CASE DiskErrorOnRequest(n, r)
  <2>1. PICK d \in Torn(n, LastIndex(log[n]) + 1, <<e>>, current_term[n], voted_for[n]) :
          Die(n, d)
    BY <1>3, <1>6 DEF DiskErrorOnRequest, Made
  <2>2. disk'[n].log = d.log
    BY <2>1 DEF Die, TInv, TypeOK
  <2>3. /\ LastIndex(log[n]) + 1 \in Nat \ {0} /\ <<e>> \in Seq(Entry)
        /\ TruncateFrom(log[n], LastIndex(log[n]) + 1) \o <<e>> = Append(log[n], e)
    <3>1. TruncateFrom(log[n], LastIndex(log[n]) + 1) = log[n]
      BY <1>2 DEF TruncateFrom, LastIndex
    <3>2. log[n] \o <<e>> = Append(log[n], e) /\ LastIndex(log[n]) + 1 \in Nat \ {0}
      BY <1>2 DEF LastIndex
    <3>3. <<e>> \in Seq(Entry)
      OBVIOUS
    <3> QED
      BY <3>1, <3>2, <3>3
  <2>4. Sourced(n, {r}, TruncateFrom(log[n], LastIndex(log[n]) + 1) \o <<e>>)
    BY <1>4, <2>3
  <2>5. Sourced(n, {r}, d.log)
    BY <1>1, <2>1, <2>3, <2>4, TornSourced
  <2> QED
    BY <2>2, <2>5
<1> QED
  BY <1>5, <1>6 DEF OnRequest

-----------------------------------------------------------------------------
(* The order of the client's writes.  Let G be the history of the leaders' *)
(* logs. The client issues a request when it has the receipt of the one    *)
(* before, and a server owes an answer only for what it has sent on: so    *)
(* for each request but the one in flight, some leader's log had it with   *)
(* nothing newer in front of it, and showed it so. If it is then applied   *)
(* after a newer one, that is another place.                               *)

(* A leader showed r when its log had no newer request before it.          *)
First(G, r) ==
  \E t \in Nat : \E k \in 1 .. Len(G[t]) :
    /\ G[t][k].request_id = r
    /\ Shown(k, G[t][k])
    /\ \A i \in 1 .. k : G[t][i].request_id <= r

(* Nothing is asked, and nothing written, that was not issued.             *)
Issued(G) ==
  /\ \A q \in requests : q.request_id < next_request_id
  /\ \A t \in Nat : \A k \in 1 .. Len(G[t]) : G[t][k].request_id < next_request_id

(* What only one server has, as nobody was shown it, that server wrote.    *)
ShownOrLed ==
  \A p \in Server : \A k \in 1 .. Len(disk[p].log) :
    Shown(k, disk[p].log[k]) \/ Led(p, disk[p].log[k].term)

(* Each request that is over, owed an answer or answered had its place.    *)
Firsts(G) ==
  /\ \A r \in Request : r < next_request_id /\ r # inflight => First(G, r)
  /\ \A m \in msgs : m.type = "ClientReply" => First(G, m.request_id)
  /\ \A n \in Server : \A d \in pending_clients[n] : First(G, d.request_id)

(* The request in flight is the last one issued.                           *)
InflightIsLast == inflight # Nil => next_request_id = inflight + 1

OInv(G) == InflightIsLast /\ Issued(G) /\ ShownOrLed /\ Firsts(G)

(* What was shown stays so.                                                *)
LEMMA ShownStays ==
  ASSUME msgs \subseteq msgs', NEW k, NEW e, Shown(k, e)
  PROVE  Shown(k, e)'
  BY DEF Shown

(* A first place stays one.                                                *)
LEMMA FirstStays ==
  ASSUME msgs \subseteq msgs', NEW G, NEW H, GhostType(G), GhostType(H), Extends(H, G),
         NEW r, First(G, r)
  PROVE  First(H, r)'
<1>1. PICK t \in Nat : \E k \in 1 .. Len(G[t]) :
        /\ G[t][k].request_id = r
        /\ Shown(k, G[t][k])
        /\ \A i \in 1 .. k : G[t][i].request_id <= r
  BY DEF First
<1>0. PICK k \in 1 .. Len(G[t]) :
        /\ G[t][k].request_id = r
        /\ Shown(k, G[t][k])
        /\ \A i \in 1 .. k : G[t][i].request_id <= r
  BY <1>1
<1>2. PICK a \in Seq(Entry), b \in Seq(Entry) : a = G[t] /\ b = H[t] /\ Begins(a, b)
  BY DEF GhostType, Extends
<1>3. /\ k \in 1 .. Len(b) /\ b[k] = a[k]
      /\ \A i \in 1 .. k : i \in 1 .. Len(a) /\ b[i] = a[i]
  <2>1. Len(a) \in Nat /\ Len(b) \in Nat /\ Len(a) <= Len(b) /\ k \in 1 .. Len(a)
    BY <1>2 DEF Begins
  <2>2. k \in 1 .. Len(b) /\ \A i \in 1 .. k : i \in 1 .. Len(a)
    BY <2>1
  <2> QED
    BY <1>2, <2>1, <2>2 DEF Begins
<1>4. Shown(k, b[k])'
  BY <1>0, <1>2, <1>3, ShownStays
<1> QED
  BY <1>0, <1>2, <1>3, <1>4 DEF First

(* What is shown was in a leader's log.                                    *)
LEMMA ShownIssued ==
  ASSUME TInv, NEW G, History(G), Issued(G), NEW k, NEW e, Shown(k, e)
  PROVE  e.request_id < next_request_id
<1>1. PICK m \in msgs : /\ IsAppend(m)
                        /\ k \in m.prev_log_index + 1 .. LastNew(m)
                        /\ m.entries[k - m.prev_log_index] = e
  BY DEF Shown
<1>2. /\ m.term \in Nat /\ m.prev_log_index \in Nat /\ m.entries \in Seq(Entry)
  BY <1>1, MessageFields DEF TInv, TypeOK, IsAppend
<1>3. SliceOf(m, G[m.term]) /\ G[m.term] \in Seq(Entry)
  BY <1>1, <1>2 DEF History, SlicesOn, GhostType
<1>4. /\ Len(m.entries) \in Nat /\ Len(G[m.term]) \in Nat
      /\ m.prev_log_index + Len(m.entries) <= Len(G[m.term])
      /\ k \in m.prev_log_index + 1 .. m.prev_log_index + Len(m.entries)
  BY <1>1, <1>2, <1>3 DEF LastNew, SliceOf
<1>5. /\ k - m.prev_log_index \in 1 .. Len(m.entries) /\ k \in 1 .. Len(G[m.term])
      /\ m.prev_log_index + (k - m.prev_log_index) = k
  BY ONLY <1>2, <1>4
<1>6. e = G[m.term][k]
  BY <1>1, <1>3, <1>5 DEF SliceOf
<1> QED
  BY <1>2, <1>5, <1>6 DEF Issued

(* So was what is in any other log.                                        *)
LEMMA OnIssued ==
  ASSUME NEW G, Issued(G), NEW lg \in Seq(Entry), On(lg, G), NEW k \in 1 .. Len(lg)
  PROVE  lg[k].request_id < next_request_id
<1>0. lg[k] \in Entry
  OBVIOUS
<1>1. AgreesAt(lg, G, k) /\ lg[k].term \in Nat
  BY <1>0 DEF On, Entry
<1>2. k \in 1 .. Len(G[lg[k].term]) /\ lg[k] = G[lg[k].term][k]
  BY <1>1 DEF AgreesAt
<1> QED
  BY <1>1, <1>2 DEF Issued

(* A step of n writes nothing that was not issued.                         *)
LEMMA IssuedStays ==
  ASSUME TInv, NEW n \in Server, NEW G, NEW H, History(G), Follows(n, G, H), Issued(G),
         UNCHANGED clientVars, NEW R, Sourced(n, R, disk'[n].log),
         \A r \in R : r < next_request_id
  PROVE  Issued(H)'
<1>1. requests' = requests /\ next_request_id' = next_request_id
  BY DEF clientVars
<1>2. ASSUME NEW k \in 1 .. Len(disk'[n].log)
      PROVE  disk'[n].log[k].request_id < next_request_id
  <2>1. disk[n].log \in Seq(Entry) /\ On(disk[n].log, G) /\ Len(disk[n].log) \in Nat
    BY DEF TInv, TypeOK, HardState, History, LogsOn
  <2>2. CASE k <= Len(disk[n].log) /\ disk'[n].log[k] = disk[n].log[k]
    <3>1. k \in 1 .. Len(disk[n].log)
      BY <2>1, <2>2
    <3>2. disk[n].log[k].request_id < next_request_id
      BY <2>1, <3>1, OnIssued
    <3> QED
      BY <2>2, <3>2
  <2>3. CASE Shown(k, disk'[n].log[k])
    BY <2>3, ShownIssued
  <2>4. ASSUME NEW r \in R, disk'[n].log[k] = Made(n, r)
        PROVE  disk'[n].log[k].request_id < next_request_id
    BY <2>4 DEF Made
  <2> QED
    BY <2>2, <2>3, <2>4 DEF Sourced
<1>3. \A t \in Nat : H[t] = G[t] \/ H[t] = disk'[n].log
  BY DEF Follows, Grown
<1>4. \A t \in Nat : \A k \in 1 .. Len(H[t]) : H[t][k].request_id < next_request_id
  BY <1>2, <1>3 DEF Issued
<1> QED
  BY <1>1, <1>4 DEF Issued

(* What it writes that it was not shown, it writes as a leader.            *)
LEMMA ShownOrLedStays ==
  ASSUME TInv, TInv', NEW n \in Server, NEW G, NEW H, History(G), Follows(n, G, H),
         ShownOrLed, NEW R, Sourced(n, R, disk'[n].log)
  PROVE  ShownOrLed'
<1>1. Elects(n, News) /\ OthersStay(n) /\ msgs \subseteq msgs'
  BY DEF Follows, Carries, Elects
<1>2. ASSUME NEW p \in Server, NEW k \in 1 .. Len(disk[p].log), NEW e \in Entry,
             e = disk[p].log[k]
      PROVE  Shown(k, e)' \/ Led(p, e.term)'
  <2>1. e.term \in Nat
    BY DEF Entry
  <2>2. Shown(k, e) \/ Led(p, e.term)
    BY <1>2 DEF ShownOrLed
  <2> QED
    BY <1>1, <2>1, <2>2, ShownStays, LedGoesOn
<1>3. ASSUME NEW p \in Server, NEW k \in 1 .. Len(disk'[p].log), NEW e \in Entry,
             e = disk'[p].log[k]
      PROVE  Shown(k, e)' \/ Led(p, e.term)'
  <2>1. CASE p # n
    BY <1>1, <1>2, <1>3, <2>1 DEF OthersStay
  <2>2. CASE p = n
    <3>1. CASE k <= Len(disk[n].log) /\ e = disk[n].log[k]
      <4>0. disk[n].log \in Seq(Entry) /\ disk'[n].log \in Seq(Entry)
        BY DEF TInv, TypeOK, HardState
      <4>1. Len(disk[n].log) \in Nat /\ Len(disk'[n].log) \in Nat
        BY <4>0
      <4>2. k \in 1 .. Len(disk[n].log)
        BY <1>3, <2>2, <3>1, <4>1
      <4> QED
        BY <1>2, <2>2, <3>1, <4>2
    <3>2. CASE Shown(k, e)
      BY <1>1, <3>2, ShownStays
    <3>3. CASE role[n] = "leader" /\ \E r \in R : e = Made(n, r)
      <4>1. e.term = current_term[n] /\ current_term[n] \in Nat
        BY <3>3 DEF Made, TInv, TypeOK
      <4>2. Led(n, e.term)
        BY <3>3, <4>1 DEF History, LeadersHave, LedNow
      <4>3. Led(n, e.term)'
        BY <1>1, <4>1, <4>2, LedGoesOn
      <4> QED
        BY <2>2, <4>3
    <3> QED
      BY <1>3, <2>2, <3>1, <3>2, <3>3 DEF Sourced
  <2> QED
    BY <2>1, <2>2
<1>4. \A p \in Server : disk'[p].log \in Seq(Entry)
  BY DEF TInv, TypeOK, HardState
<1>5. \A p \in Server : \A k \in 1 .. Len(disk'[p].log) : disk'[p].log[k] \in Entry
  BY <1>4
<1> QED
  BY <1>3, <1>5 DEF ShownOrLed, Shown, Led

(* Answers and debts are for what had its place.                           *)
LEMMA FirstsStay ==
  ASSUME NEW n \in Server, NEW G, NEW H, GhostType(G), Follows(n, G, H), Firsts(G),
         UNCHANGED clientVars, NEW R, OwesOnly(n, R), \A r \in R : First(H, r)'
  PROVE  Firsts(H)'
<1>1. /\ GhostType(H) /\ Extends(H, G) /\ msgs \subseteq msgs'
      /\ next_request_id' = next_request_id /\ inflight' = inflight
  BY DEF Follows, Carries, OwesOnly, clientVars
<1>2. \A r : First(G, r) => First(H, r)'
  BY <1>1, FirstStays
<1>3. \A r \in Request : r < next_request_id /\ r # inflight => First(H, r)'
  BY <1>2 DEF Firsts
<1>4. ASSUME NEW x \in Server, NEW d \in pending_clients'[x]
      PROVE  First(H, d.request_id)'
  BY <1>2 DEF OwesOnly, Firsts
<1>5. ASSUME NEW m \in msgs', m.type = "ClientReply"
      PROVE  First(H, m.request_id)'
  <2>1. m \in msgs \/ m.request_id \in R \cup Owed(n)
    BY <1>5 DEF OwesOnly
  <2>2. CASE m \in msgs
    BY <1>2, <1>5, <2>2 DEF Firsts
  <2>3. CASE m.request_id \in Owed(n)
    <3>1. PICK d \in pending_clients[n] : m.request_id = d.request_id
      BY <2>3 DEF Owed
    <3> QED
      BY <1>2, <3>1 DEF Firsts
  <2> QED
    BY <2>1, <2>2, <2>3
<1> QED
  BY <1>1, <1>3, <1>4, <1>5 DEF Firsts

(* With a peer to send to, a leader shows what it appends.                 *)
LEMMA RequestShown ==
  ASSUME TInv, NEW n \in Server, NEW r \in Request, OnClientRequest(n, r),
         NEW k \in Nat, k = LastIndex(log[n]) + 1, NEW e \in Entry, e = Made(n, r)
  PROVE  Shown(k, e)'
<1>1. PICK p : p \in Peers(n)
  <2>1. ASSUME Server = {n} PROVE FALSE
    <3>1. Cardinality({n}) = 1
      BY FS_Singleton
    <3> QED
      BY <2>1, <3>1, ServersAssumption
  <2> QED
    BY <2>1 DEF Peers
<1>2. PICK l \in Seq(Entry), t \in Nat, b \in Seq(Entry), i \in Nat :
        l = log[n] /\ t = current_term[n] /\ b = Append(l, e) /\ i = next_index[n][p]
  <2>1. log[n] \in Seq(Entry) /\ current_term[n] \in Nat /\ next_index[n][p] \in Nat
    BY <1>1 DEF TInv, TypeOK, Peers
  <2>2. Append(log[n], e) \in Seq(Entry)
    BY <2>1
  <2> QED
    BY <2>1, <2>2
<1>3. i \in 1 .. Len(l) + 1
  <2>0. role[n] = "leader" /\ NextInRange
    BY DEF OnClientRequest, TInv
  <2>1. next_index[n][p] \in 1 .. LastIndex(log[n]) + 1
    BY <1>1, <2>0 DEF NextInRange, Peers
  <2> QED
    BY <1>2, <2>1 DEF LastIndex
<1>4. Len(b) = k /\ k = Len(l) + 1 /\ Len(l) \in Nat /\ b[k] = e
  BY <1>2 DEF LastIndex
<1>5. PICK m : m = AppendEntries(n, p, t, b, i, commit_index[n])
  OBVIOUS
<1>6. m \in msgs'
  BY <1>1, <1>2, <1>5 DEF OnClientRequest, Send, Made
<1>7. /\ IsAppend(m) /\ m.prev_log_index = i - 1 /\ m.entries = SubSeq(b, i, Len(b))
  BY <1>3, <1>4, <1>5 DEF AppendEntries, IsAppend, SliceFrom, LastIndex
<1>8. /\ Len(SubSeq(b, i, Len(b))) = k - i + 1
      /\ SubSeq(b, i, Len(b))[k - i + 1] = e
  BY <1>3, <1>4
<1>9. k \in (i - 1) + 1 .. (i - 1) + (k - i + 1) /\ k - (i - 1) = k - i + 1
  BY <1>3, <1>4
<1>10. k \in m.prev_log_index + 1 .. LastNew(m) /\ m.entries[k - m.prev_log_index] = e
  BY <1>7, <1>8, <1>9 DEF LastNew
<1> QED
  BY <1>6, <1>7, <1>10 DEF Shown, IsAppend, LastNew

(* So the request in flight has its place once a leader owes an answer.    *)
LEMMA RequestFirst ==
  ASSUME TInv, TInv', NEW n \in Server, NEW r \in Request, OnClientRequest(n, r),
         NEW H, History(H)', Issued(H)', r \in Nat, next_request_id' = r + 1
  PROVE  First(H, r)'
<1>1. /\ log[n] \in Seq(Entry) /\ current_term[n] \in Nat
      /\ current_term' = current_term /\ role' = role /\ role[n] = "leader"
      /\ log' = [log EXCEPT ![n] = Append(log[n], Made(n, r))]
      /\ log \in [Server -> Seq(Entry)]
  BY DEF TInv, TypeOK, OnClientRequest, Made
<1>2. PICK t \in Nat, e \in Entry, l \in Seq(Entry), b \in Seq(Entry), k \in Nat :
        /\ t = current_term[n] /\ e = Made(n, r) /\ l = log[n] /\ b = Append(l, e)
        /\ k = LastIndex(log[n]) + 1
  <2>1. Made(n, r) \in Entry
    BY <1>1 DEF Made, Entry
  <2>2. LastIndex(log[n]) + 1 \in Nat
    BY <1>1 DEF LastIndex
  <2>3. Append(log[n], Made(n, r)) \in Seq(Entry)
    BY <1>1, <2>1
  <2> QED
    BY <1>1, <2>1, <2>2, <2>3
<1>3. Len(b) = k /\ k \in 1 .. Len(b) /\ b[k] = e
  <2>1. Len(l) \in Nat /\ k = Len(l) + 1
    BY <1>2 DEF LastIndex
  <2> QED
    BY <1>2, <2>1
<1>4. log'[n] = b /\ role'[n] = "leader" /\ current_term'[n] = t
  BY <1>1, <1>2
<1>5. H[t] = b
  <2>1. log'[n] = H[current_term'[n]]
    BY <1>4 DEF History, LeadersHave
  <2> QED
    BY <1>4, <2>1
<1>6. Shown(k, e)'
  BY <1>2, RequestShown
<1>7. \A i \in 1 .. k : b[i].request_id <= r
  <2> SUFFICES ASSUME NEW i \in 1 .. k PROVE b[i].request_id <= r
    OBVIOUS
  <2>1. i \in 1 .. Len(b)
    BY <1>3
  <2>2. b[i].request_id < r + 1
    BY <1>5, <2>1 DEF Issued
  <2>0. b[i] \in Entry
    BY <2>1
  <2>3. b[i].request_id \in Request
    BY <2>0 DEF Entry
  <2>4. b[i].request_id \in Nat
    BY <2>3, RequestFacts
  <2> QED
    BY <2>2, <2>4
<1>8. e.request_id = r
  BY <1>2 DEF Made
<1> QED
  BY <1>3, <1>5, <1>6, <1>7, <1>8 DEF First

(* A step of n keeps the invariant, if all that it writes and owes was     *)
(* issued.                                                                 *)
LEMMA OrderStays ==
  ASSUME TInv, TInv', NEW n \in Server, NEW G, NEW H, History(G), Follows(n, G, H),
         OInv(G), UNCHANGED clientVars,
         NEW R, Sourced(n, R, disk'[n].log), \A r \in R : r < next_request_id,
         NEW S, OwesOnly(n, S), Issued(H)' => \A r \in S : First(H, r)'
  PROVE  OInv(H)'
<1>1. Issued(G) /\ ShownOrLed /\ Firsts(G) /\ InflightIsLast /\ GhostType(G)
  BY DEF OInv, History
<1>2. Issued(H)'
  BY <1>1, IssuedStays
<1>3. ShownOrLed'
  BY <1>1, ShownOrLedStays
<1>4. Firsts(H)'
  BY <1>1, <1>2, FirstsStay
<1>5. InflightIsLast'
  BY <1>1 DEF InflightIsLast, clientVars
<1> QED
  BY <1>2, <1>3, <1>4, <1>5 DEF OInv

-----------------------------------------------------------------------------
(* The whole.                                                              *)
RInv == \E G \in [Nat -> Seq(Entry)] : History(G) /\ CInv(G) /\ AInv(G) /\ OInv(G)

(* What holds anyway.                                                      *)
Grounds == ClientInv /\ TInv /\ EInv

(* A request that reaches a node.                                          *)
LEMMA RequestKeepsOrder ==
  ASSUME Grounds, TInv', EInv', ElectionSafety', NEW q \in requests, UNCHANGED clientVars,
         OnRequest(q.to, q.request_id), RInv
  PROVE  RInv'
<1>1. PICK G \in [Nat -> Seq(Entry)] : History(G) /\ CInv(G) /\ AInv(G) /\ OInv(G)
  BY DEF RInv
<1>2. PICK n \in Server, r \in Request : n = q.to /\ r = q.request_id
  BY DEF Grounds, ClientInv, ClientTypeOK, ClientRequest
<1>3. OnRequest(n, r) /\ StepOf(n) /\ TInv /\ EInv /\ TypeOK
  BY <1>2 DEF StepOf, Grounds, TInv
<1>4. PICK H : Follows(n, G, H) /\ History(H)' /\ CInv(H)' /\ AInv(H)'
  BY <1>1, <1>3, StepCarriesOn
<1>5. /\ r \in Nat /\ next_request_id \in Nat /\ r < next_request_id
      /\ next_request_id' = next_request_id
  BY <1>1, <1>2, RequestFacts DEF OInv, Issued, Grounds, ClientInv, ClientTypeOK, clientVars
<1>6. PICK R : R = {r}
  OBVIOUS
<1>7. Sourced(n, R, disk'[n].log) /\ \A x \in R : x < next_request_id
  BY <1>3, <1>5, <1>6, RequestSourced
<1>8. ASSUME DiskErrorOnRequest(n, r)
      PROVE  OInv(H)'
  <2>1. PICK S : S = {}
    OBVIOUS
  <2>2. OwesOnly(n, S) /\ (Issued(H)' => \A x \in S : First(H, x)')
    BY <1>3, <1>8, <2>1, DieOwes DEF DiskErrorOnRequest
  <2> QED
    BY <1>1, <1>3, <1>4, <1>7, <2>2, OrderStays
<1>9. ASSUME OnClientRequest(n, r)
      PROVE  OInv(H)'
  <2>1. OwesOnly(n, R)
    BY <1>3, <1>6, RequestOwes
  <2>2. ASSUME Issued(H)' PROVE First(H, r)'
    <3>1. CASE r # inflight
      <4>1. First(G, r)
        BY <1>1, <1>5, <3>1 DEF OInv, Firsts
      <4>2. /\ GhostType(G) /\ GhostType(H) /\ Extends(H, G) /\ msgs \subseteq msgs'
        BY <1>1, <1>4, <2>1 DEF History, Follows, Carries, OwesOnly
      <4> QED
        BY <4>1, <4>2, FirstStays
    <3>2. CASE r = inflight
      <4>1. next_request_id' = r + 1
        BY <1>1, <1>5, <3>2, RequestFacts DEF OInv, InflightIsLast
      <4> QED
        BY <1>3, <1>4, <1>5, <1>9, <2>2, <4>1, RequestFirst
    <3> QED
      BY <3>1, <3>2
  <2>3. Issued(H)' => \A x \in R : First(H, x)'
    BY <1>6, <2>2
  <2> QED
    BY <1>1, <1>3, <1>4, <1>7, <2>1, <2>3, OrderStays
<1>10. OInv(H)'
  BY <1>3, <1>8, <1>9 DEF OnRequest
<1>11. H \in [Nat -> Seq(Entry)]
  BY <1>4 DEF Follows, Carries, GhostType
<1> QED
  BY <1>4, <1>10, <1>11 DEF RInv

(* Any other step of a node.                                               *)
LEMMA StepKeepsOrder ==
  ASSUME Grounds, TInv', EInv', ElectionSafety', NEW n \in Server, Step(n),
         UNCHANGED clientVars, RInv
  PROVE  RInv'
<1>1. PICK G \in [Nat -> Seq(Entry)] : History(G) /\ CInv(G) /\ AInv(G) /\ OInv(G)
  BY DEF RInv
<1>2. StepOf(n) /\ TInv /\ EInv /\ TypeOK
  BY DEF StepOf, Grounds, TInv
<1>3. PICK H : Follows(n, G, H) /\ History(H)' /\ CInv(H)' /\ AInv(H)'
  BY <1>1, <1>2, StepCarriesOn
<1>4. PICK R : R = {}
  OBVIOUS
<1>5. Sourced(n, R, disk'[n].log) /\ OwesOnly(n, R)
  BY <1>1, <1>2, <1>4, StepSourced, StepOwes
<1>6. /\ \A r \in R : r < next_request_id
      /\ Issued(H)' => \A r \in R : First(H, r)'
  BY <1>4
<1>7. OInv(H)'
  BY <1>1, <1>2, <1>3, <1>5, <1>6, OrderStays
<1>8. H \in [Nat -> Seq(Entry)]
  BY <1>3 DEF Follows, Carries, GhostType
<1> QED
  BY <1>3, <1>7, <1>8 DEF RInv

(* The client's own steps: it issues a request when nothing is in flight,  *)
(* and takes an answer to the one that is.                                 *)
LEMMA ClientKeepsOrder ==
  ASSUME Grounds, UNCHANGED vars, NEW G, GhostType(G), OInv(G),
         \/ ClientStep
         \/ \E q \in requests : RefuseRequest(q.to, q)
         \/ UNCHANGED clientVars
  PROVE  OInv(G)'
<1>1. /\ InflightIsLast /\ Issued(G) /\ ShownOrLed /\ Firsts(G)
      /\ next_request_id \in Nat /\ inflight \in Request \cup {Nil}
      /\ requests \subseteq ClientRequest
  BY DEF OInv, Grounds, ClientInv, ClientTypeOK
<1>2. disk' = disk /\ msgs' = msgs /\ pending_clients' = pending_clients
  BY DEF vars, commitVars
<1>3. \A k, e : Shown(k, e)' <=> Shown(k, e)
  BY <1>2 DEF Shown
<1>4. \A r : First(G, r)' <=> First(G, r)
  BY <1>3 DEF First
<1>5. ShownOrLed'
  BY <1>1, <1>2, <1>3 DEF ShownOrLed, Led
<1>6. /\ \A m \in msgs' : m.type = "ClientReply" => First(G, m.request_id)'
      /\ \A n \in Server : \A d \in pending_clients'[n] : First(G, d.request_id)'
  BY <1>1, <1>2, <1>4 DEF Firsts
<1>7. CASE /\ next_request_id' = next_request_id /\ inflight' = inflight
           /\ \A q \in requests' : q \in requests \/ (inflight # Nil /\ q.request_id = inflight)
  <2>1. inflight # Nil => inflight < next_request_id
    BY <1>1, RequestFacts DEF InflightIsLast
  <2>2. Issued(G)'
    BY <1>1, <1>7, <2>1 DEF Issued
  <2>3. Firsts(G)' /\ InflightIsLast'
    BY <1>1, <1>4, <1>6, <1>7 DEF Firsts, InflightIsLast
  <2> QED
    BY <1>5, <2>2, <2>3 DEF OInv
<1>8. CASE /\ inflight = Nil /\ next_request_id' = next_request_id + 1
           /\ inflight' = next_request_id
           /\ \A q \in requests' : q \in requests \/ q.request_id = next_request_id
  <2>1. PICK c \in Nat : c = next_request_id
    BY <1>1
  <2>2. \A q \in requests : q.request_id \in Nat /\ q.request_id < c
    BY <1>1, <2>1, RequestFacts DEF Issued, ClientRequest
  <2>3. \A q \in requests' : q.request_id < c + 1
    BY <1>8, <2>1, <2>2
  <2>4. ASSUME NEW t \in Nat, NEW k \in 1 .. Len(G[t])
        PROVE  G[t][k].request_id < c + 1
    <3>1. G[t][k].request_id < c /\ G[t] \in Seq(Entry)
      BY <1>1, <2>1 DEF Issued, GhostType
    <3>2. G[t][k] \in Entry
      BY <3>1
    <3>3. G[t][k].request_id \in Nat
      BY <3>2, RequestFacts DEF Entry
    <3> QED
      BY <3>1, <3>3
  <2>5. Issued(G)'
    BY <1>8, <2>1, <2>3, <2>4 DEF Issued
  <2>6. ASSUME NEW r \in Request, r < c + 1, r # c
        PROVE  First(G, r)'
    <3>1. r \in Nat /\ r # Nil
      BY RequestFacts
    <3>2. r < c
      BY <2>1, <2>6, <3>1
    <3> QED
      BY <1>1, <1>4, <1>8, <2>1, <3>1, <3>2 DEF Firsts
  <2>7. Firsts(G)' /\ InflightIsLast'
    BY <1>6, <1>8, <2>1, <2>6 DEF Firsts, InflightIsLast
  <2> QED
    BY <1>5, <2>5, <2>7 DEF OInv
<1>9. ASSUME NEW m \in msgs, ClientAcked(m)
      PROVE  OInv(G)'
  <2>1. /\ m.type = "ClientReply" /\ m.request_id = inflight /\ inflight' = Nil
        /\ next_request_id' = next_request_id /\ requests' = requests
    BY <1>9 DEF ClientAcked, Answers
  <2>2. First(G, inflight)
    BY <1>1, <2>1 DEF Firsts
  <2>3. Issued(G)'
    BY <1>1, <2>1 DEF Issued
  <2>4. Firsts(G)' /\ InflightIsLast'
    BY <1>1, <1>4, <1>6, <2>1, <2>2 DEF Firsts, InflightIsLast
  <2> QED
    BY <1>5, <2>3, <2>4 DEF OInv
<1>10. CASE ClientNext
  <2>1. inflight = Nil
    BY <1>10 DEF Grounds, ClientInv, SomethingDue, ClientNext
  <2>2. CASE Issue
    BY <1>8, <2>1, <2>2 DEF Issue, SendTo
  <2>3. CASE ~Issue
    <3>1. UNCHANGED <<next_request_id, inflight, requests>>
      BY <1>10, <2>3 DEF ClientNext
    <3> QED
      BY <1>7, <3>1
  <2> QED
    BY <2>2, <2>3
<1>11. CASE ClientRedirect \/ ClientTimeout
  <2>1. /\ UNCHANGED <<next_request_id, inflight>>
        /\ \/ UNCHANGED requests
           \/ inflight # Nil /\ \E n : SendTo(n, inflight)
    BY <1>11 DEF ClientRedirect, ClientTimeout
  <2> QED
    BY <1>7, <2>1 DEF SendTo
<1>12. CASE \/ \E f \in refusals : ClientRefused(f)
            \/ \E q \in requests : RefuseRequest(q.to, q)
            \/ UNCHANGED clientVars
  <2>1. UNCHANGED <<next_request_id, inflight, requests>>
    BY <1>12 DEF ClientRefused, RefuseRequest, clientVars
  <2> QED
    BY <1>7, <2>1
<1> QED
  BY <1>9, <1>10, <1>11, <1>12 DEF ClientStep

(* Every step keeps it.                                                    *)
LEMMA RInvStep ==
  /\ Grounds /\ TInv' /\ EInv' /\ ElectionSafety'
  /\ RInv /\ [ClusterNext]_<<vars, clientVars>>
  => RInv'
<1> SUFFICES ASSUME Grounds, TInv', EInv', ElectionSafety', RInv,
                    [ClusterNext]_<<vars, clientVars>>
             PROVE  RInv'
  OBVIOUS
<1>1. ASSUME UNCHANGED vars, \/ ClientStep
                             \/ \E q \in requests : RefuseRequest(q.to, q)
                             \/ UNCHANGED clientVars
      PROVE  RInv'
  <2>1. PICK G \in [Nat -> Seq(Entry)] : History(G) /\ CInv(G) /\ AInv(G) /\ OInv(G)
    BY DEF RInv
  <2>2. History(G)' /\ CInv(G)' /\ AInv(G)'
    BY <1>1, <2>1, CommitStutter, ApplyStutter
  <2>3. OInv(G)'
    BY <1>1, <2>1, ClientKeepsOrder DEF GhostType
  <2> QED
    BY <2>2, <2>3 DEF RInv
<1>2. CASE ClientStep
  <2>1. UNCHANGED vars
    BY <1>2 DEF ClientStep, ClientNext, ClientRedirect, ClientTimeout, ClientAcked,
       ClientRefused
  <2> QED
    BY <1>1, <1>2, <2>1
<1>3. ASSUME NEW q \in requests, Receive(q)
      PROVE  RInv'
  <2>1. CASE RefuseRequest(q.to, q)
    <3>1. UNCHANGED vars
      BY <2>1 DEF RefuseRequest
    <3> QED
      BY <1>1, <2>1, <3>1
  <2>2. CASE OnRequest(q.to, q.request_id) /\ UNCHANGED clientVars
    BY <2>2, RequestKeepsOrder
  <2> QED
    BY <1>3, <2>1, <2>2 DEF Receive
<1>4. CASE \E n \in Server : Step(n) /\ UNCHANGED clientVars
  BY <1>4, StepKeepsOrder
<1>5. CASE UNCHANGED <<vars, clientVars>>
  BY <1>1, <1>5
<1> QED
  BY <1>2, <1>3, <1>4, <1>5 DEF ClusterNext

(* At the start the first request is in flight, and nothing is written.    *)
LEMMA RInvInit == ClusterInit => RInv
<1> SUFFICES ASSUME ClusterInit PROVE RInv
  OBVIOUS
<1>1. PICK G \in [Nat -> Seq(Entry)] : G = Nobody /\ \A t \in Nat : G[t] = << >>
  BY NobodyLed
<1>2. History(G) /\ CInv(G)
  BY <1>1, HistoryInit, CommitInit DEF ClusterInit
<1>3. /\ msgs = {}
      /\ \A n \in Server : /\ role[n] = "follower" /\ applied[n] = << >>
                           /\ log[n] = << >> /\ disk[n].log = << >>
                           /\ pending_clients[n] = {}
  BY DEF ClusterInit, Init
<1>4. AInv(G)
  <2>1. \A n \in Server : HasApplied(n) /\ Believes(n)
    BY <1>3 DEF HasApplied, Believes, Begins
  <2>2. \A n \in Server : Settled(G, n)
    BY <1>3 DEF Settled, SettledTo
  <2> QED
    BY <1>3, <2>1, <2>2 DEF AInv
<1>5. /\ next_request_id = 1 /\ inflight = 0
      /\ requests = {[to |-> NODE_IDS[1], request_id |-> 0]}
  BY DEF ClusterInit, ClientInit
<1>6. Issued(G) /\ InflightIsLast
  BY <1>1, <1>5 DEF Issued, InflightIsLast
<1>7. ShownOrLed
  BY <1>3 DEF ShownOrLed
<1>8. Firsts(G)
  <2>1. ASSUME NEW r \in Request, r < 1, r # 0 PROVE FALSE
    <3>1. r \in Nat
      BY RequestFacts
    <3> QED
      BY <2>1, <3>1
  <2> QED
    BY <1>3, <1>5, <2>1 DEF Firsts
<1> QED
  BY <1>1, <1>2, <1>4, <1>6, <1>7, <1>8 DEF OInv, RInv

(* What is shown has a place.                                              *)
LEMMA ShownPlace ==
  ASSUME TInv, NEW k, NEW e, Shown(k, e)
  PROVE  <<k, e.term>> \in Places(e.request_id)
<1>1. PICK m \in msgs : /\ IsAppend(m)
                        /\ k \in m.prev_log_index + 1 .. LastNew(m)
                        /\ m.entries[k - m.prev_log_index] = e
  BY DEF Shown
<1>2. /\ m.prev_log_index \in Nat /\ m.entries \in Seq(Entry)
  BY <1>1, MessageFields DEF TInv, TypeOK, IsAppend
<1>3. Len(m.entries) \in Nat /\ DOMAIN m.entries = 1 .. Len(m.entries)
  BY <1>2
<1>4. PICK i : i = k - m.prev_log_index
  OBVIOUS
<1>5. i \in DOMAIN m.entries /\ m.prev_log_index + i = k
  BY <1>1, <1>2, <1>3, <1>4 DEF LastNew
<1>6. m.entries[i] = e /\ m.type = "AppendEntries"
  BY <1>1, <1>4 DEF IsAppend
<1> QED
  BY <1>1, <1>5, <1>6 DEF Places

(* IsPrefix is Begins.                                                     *)
LEMMA PrefixBegins ==
  ASSUME NEW a \in Seq(Entry), NEW b \in Seq(Entry), IsPrefix(a, b)
  PROVE  Begins(a, b)
<1>1. PICK k \in 0 .. Len(b) : k = Len(a)
  BY DEF IsPrefix
<1>2. SubSeq(a, 1, k) = SubSeq(b, 1, k) /\ Len(a) \in Nat /\ Len(b) \in Nat
  BY <1>1 DEF IsPrefix
<1>3. \A j \in 1 .. k : SubSeq(a, 1, k)[j] = a[j] /\ SubSeq(b, 1, k)[j] = b[j]
  BY <1>1, <1>2
<1> QED
  BY <1>1, <1>2, <1>3 DEF Begins

(* What is applied was shown: a majority has it, and not all of them can   *)
(* be the one that wrote it.                                               *)
LEMMA AppliedShown ==
  ASSUME TInv, EInv, PInv, ShownOrLed, NEW n \in Server, NEW j \in 1 .. Len(applied[n])
  PROVE  Shown(j, applied[n][j])
<1>1. SUFFICES ASSUME ~Shown(j, applied[n][j]) PROVE FALSE
  OBVIOUS
<1>2. PICK a \in Seq(Entry) : a = applied[n]
  BY DEF TInv, TypeOK
<1>0. a[j] \in Entry
  BY <1>2
<1>3. PICK u \in Nat : u = a[j].term
  BY <1>0 DEF Entry
<1>4. PICK Q : Q = {p \in Server : IsPrefix(applied[n], disk[p].log)}
  OBVIOUS
<1>5. IsMajority(Q) /\ IsFiniteSet(Q) /\ Q \subseteq Server
  <2>1. IsMajority(Q)
    BY <1>4, MajorityHasApplied DEF AppliedIsOnMajority
  <2>2. Q \subseteq Server
    BY <1>4
  <2> QED
    BY <2>1, <2>2, ServerAssumption, FS_Subset
<1>6. ASSUME NEW p \in Q PROVE Led(p, u)
  <2>1. PICK d \in Seq(Entry) : d = disk[p].log
    BY <1>5 DEF TInv, TypeOK, HardState
  <2>2. Begins(a, d)
    BY <1>2, <1>4, <2>1, PrefixBegins
  <2>3. j \in 1 .. Len(d) /\ d[j] = a[j]
    <3>1. Len(a) \in Nat /\ Len(d) \in Nat /\ Len(a) <= Len(d) /\ j \in 1 .. Len(a)
      BY <1>2, <2>2 DEF Begins
    <3> QED
      BY <1>2, <2>2, <3>1 DEF Begins
  <2> QED
    BY <1>1, <1>2, <1>3, <1>5, <2>1, <2>3 DEF ShownOrLed
<1>7. \A p, x \in Q : p = x
  BY <1>3, <1>5, <1>6, OneLeader, LeadersOnce DEF LedOnce
<1>8. Cardinality(Q) <= 1
  <2>1. CASE Q = {}
    BY <2>1, FS_EmptySet
  <2>2. ASSUME NEW p \in Q PROVE Cardinality(Q) <= 1
    <3>1. Q = {p}
      BY <1>7
    <3>2. Cardinality({p}) = 1
      BY FS_Singleton
    <3> QED
      BY <3>1, <3>2
  <2> QED
    BY <2>1, <2>2
<1>9. Cardinality(Server) \in Nat /\ Cardinality(Q) \in Nat
  BY <1>5, ServerAssumption, FS_CardinalityType
<1>10. \A c \in Nat : c > 1 => c \div 2 + 1 > 1
  OBVIOUS
<1>11. Cardinality(Server) \div 2 + 1 > 1 /\ Cardinality(Server) \div 2 \in Nat
  BY <1>9, <1>10, ServersAssumption
<1> QED
  BY <1>5, <1>8, <1>9, <1>11 DEF IsMajority

(* At one place, what comes before is the same in all logs.                *)
LEMMA SamePlace ==
  ASSUME NEW G, History(G), NEW lg \in Seq(Entry), On(lg, G),
         NEW j \in 1 .. Len(lg), NEW i \in 1 .. j,
         NEW t \in Nat, j \in 1 .. Len(G[t]), G[t][j].term = lg[j].term
  PROVE  G[t][i] = lg[i]
<1>1. PICK g \in Seq(Entry) : g = G[t] /\ On(g, G)
  BY DEF History, GhostType, LeadersOn
<1>2. Len(lg) \in Nat /\ Len(g) \in Nat /\ j \in 1 .. Len(lg) /\ j \in 1 .. Len(g)
  BY <1>1
<1>3. j \in Nat /\ 0 < j /\ j <= Len(lg) /\ j <= Len(g) /\ i \in 1 .. j
  BY <1>2
<1> QED
  BY <1>1, <1>3, SameTermSameLog

(* So an older request after a newer one is there for the second time.     *)
LEMMA OlderAfterNewer ==
  ASSUME Grounds, RInv, NEW n \in Server, NEW a \in Seq(Entry), a = applied[n],
         NEW i \in Nat, NEW j \in 1 .. Len(a), 0 < i, i < j,
         NEW r \in Request, r \in Nat, r = a[j].request_id,
         NEW s \in Request, s \in Nat, s = a[i].request_id, r < s
  PROVE  \E x, y \in Places(r) : x # y
<1>1. PICK G \in [Nat -> Seq(Entry)] : History(G) /\ CInv(G) /\ AInv(G) /\ OInv(G)
  BY DEF RInv
<1>2. TInv /\ EInv /\ PInv /\ ShownOrLed /\ Issued(G) /\ Firsts(G) /\ InflightIsLast
  BY <1>1 DEF Grounds, PInv, OInv
<1>3. PICK lg \in Seq(Entry) : lg = log[n] /\ Begins(a, lg) /\ On(lg, G)
  BY <1>1, <1>2 DEF TInv, TypeOK, AInv, HasApplied, History, LogsOn
<1>4. /\ i \in 1 .. Len(lg) /\ j \in 1 .. Len(lg)
      /\ lg[i] = a[i] /\ lg[j] = a[j]
  <2>1. Len(a) \in Nat /\ Len(lg) \in Nat /\ Len(a) <= Len(lg)
    BY ONLY <1>3, a \in Seq(Entry), lg \in Seq(Entry) DEF Begins
  <2>2. PICK p \in Nat, q \in Nat : p = Len(a) /\ q = Len(lg) /\ p <= q
    BY <2>1
  <2>3. j \in 1 .. p
    BY <2>2
  <2>4. p \in Nat /\ q \in Nat /\ p <= q
    BY <2>2
  <2>5. i \in 1 .. p /\ i \in 1 .. q /\ j \in 1 .. q
    BY ONLY <2>3, <2>4, i \in Nat, 0 < i, i < j
  <2>6. lg[i] = a[i] /\ lg[j] = a[j]
    BY ONLY <1>3, <2>2, <2>3, <2>5 DEF Begins
  <2> QED
    BY ONLY <2>2, <2>5, <2>6
<1>5. r # Nil
  BY RequestFacts
<1>6. s < next_request_id /\ next_request_id \in Nat
  <2>1. lg[i].request_id < next_request_id
    BY <1>2, <1>3, <1>4, OnIssued
  <2> QED
    BY <1>4, <2>1 DEF Grounds, ClientInv, ClientTypeOK
<1>7. r < next_request_id /\ r # inflight
  BY ONLY <1>2, <1>5, <1>6, r \in Nat, s \in Nat, r < s DEF InflightIsLast
<1>8. First(G, r)
  BY <1>2, <1>7 DEF Firsts
<1>9. PICK t \in Nat : \E k \in 1 .. Len(G[t]) :
        /\ G[t][k].request_id = r
        /\ Shown(k, G[t][k])
        /\ \A x \in 1 .. k : G[t][x].request_id <= r
  BY <1>8 DEF First
<1>10. PICK k \in 1 .. Len(G[t]) :
         /\ G[t][k].request_id = r
         /\ Shown(k, G[t][k])
         /\ \A x \in 1 .. k : G[t][x].request_id <= r
  BY <1>9
<1>11. <<k, G[t][k].term>> \in Places(r)
  BY <1>2, <1>10, ShownPlace
<1>12. <<j, lg[j].term>> \in Places(r)
  <2>1. Shown(j, a[j])
    BY <1>2, AppliedShown
  <2> QED
    BY <1>2, <1>4, <2>1, ShownPlace
<1>13. <<k, G[t][k].term>> # <<j, lg[j].term>>
  <2>1. lg[i].request_id = s
    BY <1>4
  <2>2. ASSUME NEW x \in 1 .. k, G[t][x] = lg[i] PROVE FALSE
    <3>1. s <= r
      BY <1>10, <2>1, <2>2
    <3> QED
      BY ONLY <3>1, r \in Nat, s \in Nat, r < s
  <2>3. i \in 1 .. j
    BY ONLY i \in Nat, j \in 1 .. Len(a), 0 < i, i < j
  <2>4. ASSUME k = j, G[t][k].term = lg[j].term PROVE FALSE
    <3>1. /\ History(G) /\ On(lg, G) /\ j \in 1 .. Len(lg) /\ j \in 1 .. Len(G[t])
          /\ G[t][j].term = lg[j].term
      BY <1>1, <1>3, <1>4, <2>4
    <3>2. G[t][i] = lg[i]
      BY ONLY <2>3, <3>1, lg \in Seq(Entry), t \in Nat, SamePlace
    <3> QED
      BY <2>2, <2>3, <2>4, <3>2
  <2> QED
    BY <2>4
<1> QED
  BY <1>11, <1>12, <1>13

(* Which is the property.                                                  *)
LEMMA ReorderedTwice ==
  ASSUME Grounds, RInv
  PROVE  ReorderedOnlyIfRepeated
<1>1. ASSUME NEW n \in Server, NEW a \in Seq(Entry), a = applied[n],
             NEW i \in DOMAIN a, NEW j \in DOMAIN a, i < j,
             a[i].request_id > a[j].request_id
      PROVE  \E x, y \in Places(a[j].request_id) : x # y
  <2>1. DOMAIN a = 1 .. Len(a) /\ Len(a) \in Nat
    OBVIOUS
  <2>2. i \in 1 .. Len(a) /\ j \in 1 .. Len(a)
    BY ONLY <2>1, i \in DOMAIN a, j \in DOMAIN a
  <2>3. i \in Nat /\ 0 < i
    BY ONLY <2>1, <2>2
  <2>4. a[i] \in Entry /\ a[j] \in Entry
    BY ONLY <2>2, a \in Seq(Entry)
  <2>5. a[i].request_id \in Request /\ a[j].request_id \in Request
    BY ONLY <2>4 DEF Entry
  <2>6. PICK r \in Nat, s \in Nat : r = a[j].request_id /\ s = a[i].request_id
    BY <2>5, RequestFacts
  <2>7. r < s /\ r \in Request /\ s \in Request
    BY <1>1, <2>5, <2>6
  <2> QED
    BY <1>1, <2>2, <2>3, <2>6, <2>7, OlderAfterNewer
<1>2. \A n \in Server : applied[n] \in Seq(Entry)
  BY DEF Grounds, TInv, TypeOK
<1> QED
  BY <1>1, <1>2 DEF ReorderedOnlyIfRepeated

(* It holds in every behaviour of the cluster.                             *)
LEMMA RInvHolds == ClusterSpec => [](Grounds /\ RInv)
<1>1. TInv /\ EInv => ElectionSafety
  BY OneLeader
<1>2. ClusterSpec => [](ClientInv /\ TInv /\ EInv)
  BY ClientInvHolds, ClusterIsRaft, EInvHolds, PTL
<1>3. Grounds <=> ClientInv /\ TInv /\ EInv
  BY DEF Grounds
<1> QED
  BY <1>1, <1>2, <1>3, RInvInit, RInvStep, PTL DEF ClusterSpec

(* The client's writes are applied in the order in which it issued them,   *)
(* and one that undoes a newer one was appended twice, for every cluster   *)
(* of more than one server and through every crash, retry and late answer. *)
THEOREM ReorderedIfRepeated == ClusterSpec => []ReorderedOnlyIfRepeated
  BY RInvHolds, ReorderedTwice, PTL
=============================================================================
