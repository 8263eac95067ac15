---------------------------- MODULE RaftCluster ----------------------------
(***************************************************************************)
(* The cluster of groundhog/raft/world.py: the nodes of RaftNode and the   *)
(* one client that writes to them, and keeps its receipts.                 *)
(*                                                                         *)
(* The client has one request in flight at a time.  Its events (client.retry,*)
(* client.redirect, client.next) are scheduled callbacks of the same       *)
(* event loop, and may outlive the request they were scheduled for.        *)
(* Requests and refusals travel through the same network as the messages   *)
(* of RaftNode, so they too are sets that only grow.                       *)
(***************************************************************************)
EXTENDS RaftSafety

CONSTANTS
  NODE_IDS,     \* the servers in the order the client goes round them
  MaxAttempts   \* bound: how many requests the client sends in all

Writes == Cardinality(Request)

ASSUME NodeIdsAssumption ==
  /\ NODE_IDS \in Seq(Server)
  /\ \A n \in Server : \E i \in DOMAIN NODE_IDS : NODE_IDS[i] = n
ASSUME RequestAssumption ==
  /\ IsFiniteSet(Request)
  /\ Request # {}
  /\ Request = 0 .. Writes - 1
  /\ Nil \notin Request
(* A leader shows what it appends to somebody: NODE_IDS = (1, 2, 3).       *)
ASSUME ServersAssumption == Cardinality(Server) > 1
ASSUME AttemptsAssumption == MaxAttempts \in Nat

VARIABLES
  target,            \* whom the client believes to be the leader
  next_request_id,
  inflight,          \* the request it is waiting for, or Nil
  acked,             \* its receipts, oldest first
  attempts,
  retry_timer,       \* is client.retry scheduled?
  next_due,          \* is client.next scheduled?
  redirects,         \* how many client.redirect are scheduled
  requests,          \* every ClientRequest sent
  refusals           \* every ClientReply with ok = False sent

clientVars == <<target, next_request_id, inflight, acked, attempts, retry_timer,
                next_due, redirects, requests, refusals>>

ClientRequest == [to : Server, request_id : Request]
Refusal == [from : Server, request_id : Request, leader_hint : Server \cup {Nil}]

(* The node after n in NODE_IDS, and the first after the last.             *)
After(n) ==
  LET i == CHOOSE k \in DOMAIN NODE_IDS : NODE_IDS[k] = n
  IN  NODE_IDS[(i % Len(NODE_IDS)) + 1]

-----------------------------------------------------------------------------
(* The client.                                                             *)

(* _send that leaves the timer to others.                                  *)
BadSendTo(n, r) ==
  /\ attempts < MaxAttempts
  /\ attempts' = attempts + 1
  /\ requests' = requests \cup {[to |-> n, request_id |-> r]}
  /\ UNCHANGED retry_timer

(* _send: to the target, again and again with the same request id, with a  *)
(* fresh retry timer.                                                      *)
SendTo(n, r) ==
  /\ attempts < MaxAttempts
  /\ attempts' = attempts + 1
  /\ requests' = requests \cup {[to |-> n, request_id |-> r]}
  /\ retry_timer' = TRUE

(* A request id that is used before it is counted.                         *)
BadIssue ==
  /\ Len(acked) < Writes
  /\ next_request_id' = next_request_id + 1
  /\ inflight' = next_request_id + 1
  /\ SendTo(target, next_request_id)

Issue ==
  /\ Len(acked) < Writes
  /\ next_request_id' = next_request_id + 1
  /\ inflight' = next_request_id
  /\ SendTo(target, next_request_id)

(* client.next fires.                                                      *)
ClientNext ==
  /\ next_due
  /\ next_due' = FALSE
  /\ \/ Issue
     \/ /\ Len(acked) >= Writes
        /\ UNCHANGED <<next_request_id, inflight, attempts, retry_timer, requests>>
  /\ UNCHANGED <<target, acked, redirects, refusals, vars>>

(* client.redirect fires: it sends whatever is in flight by then.          *)
ClientRedirect ==
  /\ redirects > 0
  /\ redirects' = redirects - 1
  /\ \/ /\ inflight # Nil
        /\ SendTo(target, inflight)
     \/ /\ inflight = Nil
        /\ UNCHANGED <<attempts, requests, retry_timer>>
  /\ UNCHANGED <<target, next_request_id, inflight, acked, next_due, refusals, vars>>

(* No answer, so on to the next request.                                   *)
BadClientTimeout ==
  /\ retry_timer
  /\ Issue
  /\ UNCHANGED <<target, acked, next_due, redirects, refusals, vars>>

(* client.retry fires: no answer, so somebody else.                        *)
ClientTimeout ==
  /\ retry_timer
  /\ \/ /\ inflight # Nil
        /\ target' = After(target)
        /\ SendTo(After(target), inflight)
     \/ /\ inflight = Nil
        /\ retry_timer' = FALSE
        /\ UNCHANGED <<target, attempts, requests>>
  /\ UNCHANGED <<next_request_id, inflight, acked, next_due, redirects, refusals, vars>>

(* Any answer will do.                                                     *)
BadAnswers(m) == inflight # Nil

(* An answer counts only if it is to the request in flight.                *)
Answers(m) == inflight # Nil /\ m.request_id = inflight

ClientAcked(m) ==
  /\ m.type = "ClientReply"
  /\ Answers(m)
  /\ acked' = Append(acked, inflight)
  /\ inflight' = Nil
  /\ retry_timer' = FALSE
  /\ next_due' = TRUE
  /\ UNCHANGED <<target, next_request_id, attempts, redirects, requests, refusals, vars>>

ClientRefused(f) ==
  /\ Answers(f)
  /\ target' = IF f.leader_hint # Nil THEN f.leader_hint ELSE After(target)
  /\ redirects < MaxAttempts
  /\ redirects' = redirects + 1
  /\ UNCHANGED <<next_request_id, inflight, acked, attempts, retry_timer, next_due,
                 requests, refusals, vars>>

-----------------------------------------------------------------------------
(* The nodes, as the client meets them.                                    *)

(* on_client_request at a node that does not lead: a refusal with a hint,  *)
(* which touches nothing of the node.                                      *)
RefuseRequest(n, q) ==
  /\ running[n]
  /\ role[n] # "leader"
  /\ refusals' = refusals \cup {[from |-> n, request_id |-> q.request_id,
                                 leader_hint |-> leader_id[n]]}
  /\ UNCHANGED <<target, next_request_id, inflight, acked, attempts, retry_timer,
                 next_due, redirects, requests, vars>>

(* A request reaches a node, perhaps for the second time.                  *)
Receive(q) ==
  \/ OnRequest(q.to, q.request_id) /\ UNCHANGED clientVars
  \/ RefuseRequest(q.to, q)

ClientStep ==
  \/ ClientNext
  \/ ClientRedirect
  \/ ClientTimeout
  \/ \E m \in msgs : ClientAcked(m)
  \/ \E f \in refusals : ClientRefused(f)

ClusterNext ==
  \/ ClientStep
  \/ \E q \in requests : Receive(q)
  \/ \E n \in Server : Step(n) /\ UNCHANGED clientVars

(* The client has sent its first request to the first of NODE_IDS.         *)
ClientInit ==
  /\ target = NODE_IDS[1]
  /\ next_request_id = 1
  /\ inflight = 0
  /\ acked = << >>
  /\ attempts = 1
  /\ retry_timer = TRUE
  /\ next_due = FALSE
  /\ redirects = 0
  /\ requests = {[to |-> NODE_IDS[1], request_id |-> 0]}
  /\ refusals = {}

ClusterInit == Init /\ ClientInit

ClusterSpec == ClusterInit /\ [][ClusterNext]_<<vars, clientVars>>

-----------------------------------------------------------------------------
(* The client's variables hold values the code can give them.              *)
ClientTypeOK ==
  /\ target \in Server
  /\ next_request_id \in Nat
  /\ inflight \in Request \cup {Nil}
  /\ acked \in Seq(Request)
  /\ attempts \in Nat
  /\ retry_timer \in BOOLEAN
  /\ next_due \in BOOLEAN
  /\ redirects \in Nat
  /\ requests \subseteq ClientRequest
  /\ refusals \subseteq Refusal

(* Every receipt is for an answer to that very request, by a server it was *)
(* sent to: a late or repeated answer to an earlier one is not taken for   *)
(* it, and no server answers for another.                                  *)
AckedWasAnswered ==
  \A i \in DOMAIN acked : \E m \in msgs :
    /\ m.type = "ClientReply"
    /\ m.request_id = acked[i]
    /\ [to |-> m.from, request_id |-> acked[i]] \in requests

(* While it has not got all its receipts, the client has something coming  *)
(* that makes it send again, whatever is lost: it never waits for a reply  *)
(* with no timer running.                                                  *)
ClientNeverStalls ==
  Len(acked) < Writes => retry_timer \/ next_due

(* A refusal's hint is a server that has spoken as a leader, and never the *)
(* server that refused: the client is not sent in a circle by one node.    *)
HintLed ==
  \A f \in refusals : f.leader_hint # Nil =>
    /\ f.leader_hint # f.from
    /\ \E m \in msgs : m.type = "AppendEntries" /\ m.from = f.leader_hint

Places(r) ==
  UNION {{<<m.prev_log_index + i, m.entries[i].term>> :
            i \in {k \in DOMAIN m.entries : m.entries[k].request_id = r}} :
         m \in {x \in msgs : x.type = "AppendEntries"}}

(* The client's writes are applied in the order in which it issued them,   *)
(* and an older one undoes a newer one only if it was appended twice: a    *)
(* repeat of a request may arrive as late as it likes, and nothing in the  *)
(* code tells it from a new one, but a first arrival is never overtaken.   *)
ReorderedOnlyIfRepeated ==
  \A n \in Server : \A i, j \in DOMAIN applied[n] :
    i < j /\ applied[n][i].request_id > applied[n][j].request_id =>
      \E x, y \in Places(applied[n][j].request_id) : x # y

(* "If you told somebody a write succeeded, that write happened, and it    *)
(* stays happened" (invariants/history.py:3-5): every receipt is for a     *)
(* write in the logs on the disks of a majority.  The code does not keep   *)
(* this.                                                                   *)
PromiseKept ==
  \A i \in DOMAIN acked :
    IsMajority({p \in Server : \E k \in DOMAIN disk[p].log :
                                 disk[p].log[k].request_id = acked[i]})
=============================================================================
