---------------------------- MODULE NaiveCluster ----------------------------
(***************************************************************************)
(* Replication done wrong on purpose (groundhog/naive/): a primary that    *)
(* says "saved" before anybody else has heard of the write, its backups,   *)
(* the client, and the verdict once the world is quiet.                    *)
(*                                                                         *)
(* The network is reduced to what SimNetwork may do to one-way messages:   *)
(* flight[b] is what is on its way to backup b, in the order it was sent.  *)
(* A partition is a loss.  A hang only delays, for the client calls the    *)
(* primary directly and a hung backup is sent nothing else.                *)
(*                                                                         *)
(* A log is a sequence of whole records: a record that a crash has torn is *)
(* thrown away before it is read (Wal shows how).                          *)
(***************************************************************************)
EXTENDS KvStore, FiniteSets

CONSTANTS
  Primary, Backup,   \* node 1, and its peers
  Profiles,          \* subset of {"perfect", "quiet", "aggressive"}
  Writes,            \* how many writes the client issues
  SYNC_EVERY,        \* writes between two sync() calls
  MaxOutages,        \* bound: crashes that the injector schedules
  MaxErrors,         \* bound: writes that fail
  MaxRepeats         \* bound: messages that the network doubles

Node == {Primary} \cup Backup

ASSUME NodeAssumption == Primary \notin Backup /\ Backup # {} /\ Nil \notin Nat
ASSUME SyncAssumption == SYNC_EVERY \in Nat \ {0}
ASSUME WritesAssumption == Writes \in Nat
ASSUME FaultAssumption == MaxOutages \in Nat /\ MaxErrors \in Nat /\ MaxRepeats \in Nat

VARIABLES
  profile,           \* the fault profile of the run
  issued, acked,     \* how many writes were issued, and which were promised
  log, durable,      \* each node's records, and how many of them are synced
  kv, running, unsynced,
  up,                \* does the network have the node as RUNNING?
  flight,
  deaths,            \* how often the primary has died
  outages, errors, repeats

diskVars == <<log, durable>>
nodeVars == <<diskVars, kv, running, unsynced, deaths>>
faultVars == <<profile, outages, errors, repeats>>
vars == <<nodeVars, faultVars, issued, acked, up, flight>>

-----------------------------------------------------------------------------
(* The node.                                                               *)

(* One write too late.                                                     *)
BadSyncDue(n) == unsynced[n] + 1 > SYNC_EVERY

SyncDue(n) == unsynced[n] + 1 >= SYNC_EVERY

(* _write: log it, apply it, and sync every so often.                      *)
Write(n, x) ==
  /\ log' = [log EXCEPT ![n] = Append(@, x)]
  /\ kv' = [kv EXCEPT ![n] = Apply(@, x)]
  /\ unsynced' = [unsynced EXCEPT ![n] = IF SyncDue(n) THEN 0 ELSE @ + 1]
  /\ durable' = [durable EXCEPT ![n] = IF SyncDue(n) THEN Len(log[n]) + 1 ELSE @]
  /\ UNCHANGED <<running, deaths, faultVars>>

(* crash: memory goes; of image, what was synced stays, and some of the    *)
(* rest.                                                                   *)
Crash(n, image) ==
  /\ running' = [running EXCEPT ![n] = FALSE]
  /\ kv' = [kv EXCEPT ![n] = Empty]
  /\ unsynced' = [unsynced EXCEPT ![n] = 0]
  /\ deaths' = IF n = Primary THEN deaths + 1 ELSE deaths
  /\ \E kept \in durable[n] .. Len(image) :
       /\ log' = [log EXCEPT ![n] = SubSeq(image, 1, kept)]
       /\ durable' = [durable EXCEPT ![n] = kept]

(* _write on a disk that fails: the record may be there or not, and the    *)
(* node dies by its own hand.  The network is not told.                    *)
WriteFails(n, x) ==
  /\ profile = "aggressive"
  /\ errors < MaxErrors
  /\ errors' = errors + 1
  /\ \E image \in {log[n], Append(log[n], x)} : Crash(n, image)
  /\ UNCHANGED <<profile, outages, repeats>>

(* restart: rebuilt from what survived.                                    *)
Restart(n) ==
  /\ running' = [running EXCEPT ![n] = TRUE]
  /\ kv' = [kv EXCEPT ![n] = Replay(log[n])]
  /\ unsynced' = [unsynced EXCEPT ![n] = 0]
  /\ UNCHANGED <<diskVars, deaths>>

-----------------------------------------------------------------------------
(* The client calls on_client_request of the primary, and believes it.     *)

Tell(x) == flight' = [b \in Backup |-> Append(flight[b], x)]

Accept ==
  /\ running[Primary]
  /\ Write(Primary, issued)
  /\ Tell(issued)
  /\ acked' = Append(acked, issued)

Refuse ==
  /\ \/ ~running[Primary] /\ UNCHANGED <<nodeVars, faultVars>>
     \/ running[Primary] /\ WriteFails(Primary, issued)
  /\ UNCHANGED <<acked, flight>>

(* client.request fires.                                                   *)
Issue ==
  /\ issued < Writes
  /\ issued' = issued + 1
  /\ Accept \/ Refuse
  /\ UNCHANGED up

-----------------------------------------------------------------------------
(* The network and the backups.                                            *)

(* Which of the messages on the way may be next: with one latency for all  *)
(* the first, with any other any.                                          *)
MayArrive(b) ==
  IF profile = "perfect" THEN DOMAIN flight[b] \cap {1} ELSE DOMAIN flight[b]

(* A backup that skips what it takes for old news.                         *)
BadHears(b, x) == running[b] /\ \A i \in DOMAIN log[b] : log[b][i] < x

Hears(b, x) == running[b]

(* on_message: a backup that runs writes what it is handed.                *)
Receive(b, x) ==
  \/ /\ up[b] /\ Hears(b, x)
     /\ Write(b, x) \/ WriteFails(b, x)
  \/ /\ ~(up[b] /\ Hears(b, x))
     /\ UNCHANGED <<nodeVars, faultVars>>

Deliver(b) ==
  \E i \in MayArrive(b) :
    /\ Receive(b, flight[b][i])
    /\ flight' = [flight EXCEPT ![b] = RemoveAt(@, i)]
    /\ UNCHANGED <<issued, acked, up>>

(* Dropped when it was sent, or stopped by a partition.                    *)
Drop(b) ==
  /\ profile = "aggressive"
  /\ \E i \in DOMAIN flight[b] : flight' = [flight EXCEPT ![b] = RemoveAt(@, i)]
  /\ UNCHANGED <<nodeVars, faultVars, issued, acked, up>>

(* Sent twice.                                                             *)
Repeat(b) ==
  /\ profile = "aggressive"
  /\ repeats < MaxRepeats
  /\ repeats' = repeats + 1
  /\ \E i \in DOMAIN flight[b] : flight' = [flight EXCEPT ![b] = InsertAt(@, i, flight[b][i])]
  /\ UNCHANGED <<nodeVars, profile, outages, errors, issued, acked, up>>

-----------------------------------------------------------------------------
(* The injector: nothing it does depends on whether the node is alive.     *)

BeginCrash(n) ==
  /\ profile = "aggressive"
  /\ up[n]
  /\ outages < MaxOutages
  /\ outages' = outages + 1
  /\ up' = [up EXCEPT ![n] = FALSE]
  /\ \/ running[n] /\ Crash(n, log[n])
     \/ ~running[n] /\ UNCHANGED nodeVars
  /\ UNCHANGED <<profile, errors, repeats, issued, acked, flight>>

(* The network is told that the node is up, and the node is not restarted. *)
BadEndCrash(n) ==
  /\ ~up[n]
  /\ up' = [up EXCEPT ![n] = TRUE]
  /\ UNCHANGED <<nodeVars, faultVars, issued, acked, flight>>

EndCrash(n) ==
  /\ ~up[n]
  /\ up' = [up EXCEPT ![n] = TRUE]
  /\ Restart(n)
  /\ UNCHANGED <<faultVars, issued, acked, flight>>

Init ==
  /\ profile \in Profiles
  /\ issued = 0
  /\ acked = << >>
  /\ log = [n \in Node |-> << >>]
  /\ durable = [n \in Node |-> 0]
  /\ kv = [n \in Node |-> Empty]
  /\ running = [n \in Node |-> TRUE]
  /\ unsynced = [n \in Node |-> 0]
  /\ up = [n \in Node |-> TRUE]
  /\ flight = [b \in Backup |-> << >>]
  /\ deaths = 0
  /\ outages = 0
  /\ errors = 0
  /\ repeats = 0

Next ==
  \/ Issue
  \/ \E b \in Backup : Deliver(b) \/ Drop(b) \/ Repeat(b)
  \/ \E n \in Node : BeginCrash(n) \/ EndCrash(n)

Spec == Init /\ [][Next]_vars

-----------------------------------------------------------------------------
(* NaiveCluster._verdict: nothing is left to happen, and the network has   *)
(* every node as running.                                                  *)
Quiescent ==
  /\ issued = Writes
  /\ \A b \in Backup : flight[b] = << >>
  /\ \A n \in Node : up[n]

(* Without crashes, failed writes and losses every node ends with the      *)
(* writes the client was promised, each of them once.  When messages only  *)
(* overtake each other, only a key that was written twice can differ or be *)
(* wrong: "overwrites are where order stops being an academic concern"     *)
(* (naive/client.py:117-118).  With one latency none can: "the three       *)
(* copies must agree" (tests/test_naive_replication.py:10).                *)
OnlyOrderDiffers ==
  profile # "aggressive" /\ Quiescent =>
    /\ \A n \in Node : Len(log[n]) = Len(acked) /\ ToSet(log[n]) = ToSet(acked)
    /\ \A k \in Divergent(kv) \cup UNION {Lost(acked, kv[n]) : n \in Node} :
         profile # "perfect" /\ Cardinality(WritesTo(k, acked)) > 1

(* The verdict asks the network who is up, which is not told when a failed *)
(* write kills a node: a world that counts as quiet lacks no more nodes    *)
(* than there were failed writes, whatever outages end on the dead, and    *)
(* the others hold what their logs say.                                    *)
QuietIsWhole ==
  Quiescent =>
    /\ Cardinality({n \in Node : ~running[n]}) <= errors
    /\ \A n \in Node : running[n] => kv[n] = Replay(log[n])

(* Of the writes it promised, a primary loses less than one batch by each  *)
(* of its deaths, whether the disk or the injector killed it: "the window  *)
(* of acknowledged-but-not-durable data" (naive/replicator.py:96).         *)
LossIsTheWindow ==
  Cardinality(ToSet(acked) \ ToSet(log[Primary])) <= (SYNC_EVERY - 1) * deaths
=============================================================================
