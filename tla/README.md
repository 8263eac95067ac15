# Groundhog in TLA+

Groundhog (`src/groundhog`) is a Raft implementation inside a deterministic
simulator: one thread, one seeded random generator, an event queue that decides
what time it is, a network that loses, doubles, delays and holds messages, a disk
that tears writes, and a fault injector that takes nodes down.  These modules
model the parts of it that decide anything, check them with TLC on small
instances, and prove some of the results for every instance with TLAPS.

All paths below are relative to `src/groundhog/`.

## The system

| Part | State | Operations | Talks to |
|---|---|---|---|
| Raft node, `raft/node.py`, `messages.py` | term, vote, log (persistent); role, leader hint, commit index, kv store, votes, `next_index`/`match_index`, `pending_clients`, two timers (volatile) | a handler for each message, two timeouts, `crash`, `restart`, `guard` around everything that may hit a failing disk | `RaftStorage`, `NodeLink`, clock |
| Replicated log, `log.py` | a list of entries | append, truncate, slice, look up | node |
| Hard state and recovery, `raft/persist.py` | none of its own | encode STATE, ENTRY and TRUNCATE records; replay them | `Storage` |
| Disk, `sim/disk.py`, `codec.py`, `storage.py` | a byte image, how much of it is durable, online, failed | append (may fail half way), sync, crash at any byte, restart | `RaftStorage` |
| Network, `sim/net.py`, `network.py` | per node: running, crashed or hung, and what is held for it; the partition | send, arrive, release, set a node's state, split, heal | event queue |
| Client, `raft/world.py` | target, request in flight, receipts, retry timer | issue, send, time out, redirect, take an answer | network |
| Fault injector and supervisor, `sim/faults.py`, `raft/world.py` | the schedule; a visit 200 ms after a node killed itself | begin and end an outage or a partition; revive | node, disk, network |
| Event queue, clock, loop: `sim/event.py`, `clock.py`, `sim/world.py` | heap, pending numbers, time | schedule, cancel, run | everybody |
| Invariant checkers, `invariants/` | what each remembers of the past | observe the cluster after an event | loop, nodes |
| Naive replicator, `naive/` | each node's log, store and count of unsynced writes; the client's receipts | write, tell the backups, sync every so often; crash, restart; the verdict of a quiet world | disk, network |
| Key-value store, `kv.py` | a dictionary | apply, replay | both replicators |
| Generator, trace, command line: `sim/rng.py`, `sim/trace.py`, `cli.py`, `sim/demo.py` | | | |

One event runs to its end before the next begins, so there are no data races; what
is hard is *which event comes next*.  A node may be down, hung or restarted
between any two; a message may come late, twice, or in the term after the next; a
disk may fail in the middle of a handler and leave part of what it wrote; timers
and retries outlive what they were set for; and two parties (the injector and the
supervisor) restart the same nodes.  `PROJECT.json` lists these hazards at their
lines, with the properties that would notice them.

What makes each part correct:

* **node**: one leader to a term, one vote to a server and term, logs that match,
  nothing applied is ever lost or replaced, no reply before the sync that backs it,
  a leader's beliefs about its followers are true; and, left alone, it repairs
  what earlier leaders left behind and answers its clients.
* **disk and recovery**: what was synced is read back, plus some beginning of the
  rest, however often the server crashed before.
* **client**: a receipt is for the request that was answered; it never stops asking;
  its writes are applied in the order it made them.
* **naive replicator**: it is wrong on purpose, and what makes it instructive is that
  it is wrong in no other way than it says: right without faults, wrong only about
  order when messages overtake each other, and short of one batch for each death.
* **network, injector, supervisor**: a node, its disk and the network's view of it
  change together; whoever is down is expected back; what is held is delivered once.
* **event loop**: the earliest live event is next, in order of scheduling within a
  tick; time does not run backwards; a run does all that was due and no more.

## The modules

| Module | Models | Code |
|---|---|---|
| `RaftLog` | the log as a sequence; the index of an entry is its position | `log.py` |
| `StableStore` | what a write does to stored hard state, and what a crash in the middle of it may leave | `raft/persist.py`, `sim/disk.py` |
| `RaftNode` | every server: one action per handler or branch of one, crash, failed write, restart | `raft/node.py` |
| `RaftSafety` | the properties of `RaftNode` | `invariants/safety.py`, `raft/figure2.md` state most of them |
| `MCRaft` | bounds, symmetry and starting states for TLC; `SpecRaft` starts in one of two | |
| `CheckedRaft`, `MCChecked` | the nodes under the six checkers, what each remembers, the stride, and the run that stops at the first report | `invariants/base.py`, `invariants/safety.py` |
| `RaftProgress` | a leader left alone, from two starts: the liveness of `RaftNode` | the quiet profile, `sim/faults.py:126-133` |
| `RaftCluster`, `MCCluster` | the nodes with the client; the two states it starts in, one with two leaders and one with a request sent twice | `raft/world.py` |
| `SimNetwork` | the network | `sim/net.py` |
| `Supervision` | the network with the injector and the supervisor, and of each node whether it and its disk are up | `sim/faults.py`, `raft/world.py` |
| `HardStateStore` | abstract: what a server is promised of its disk | `storage.py:7-12` |
| `Wal` | one server's log on the simulated disk; implements `HardStateStore` | `sim/disk.py`, `codec.py`, `raft/persist.py` |
| `Agenda` | abstract: take the earliest event | `sim/world.py:7-12` |
| `EventLoop` | event queue with lazy cancellation, clock and loop; implements `Agenda` | `sim/event.py`, `clock.py`, `sim/world.py` |
| `KvStore` | commands, the store as a function of keys, replay, and what is asked of several copies | `kv.py`, `invariants/divergence.py`, `naive/client.py` |
| `NaiveCluster`, `MCNaive` | the naive replicator with its client, the injector and the verdict, under each fault profile | `naive/` |
| `RaftNodeProofs`, `CommitProofs`, `CheckerProofs`, `ClusterProofs`, `SimulatorProofs`, `WalProofs`, `EventLoopProofs`, `NaiveProofs` | theorems | |

`RaftNode` is at the centre.  `RaftCluster` extends it with the client; `Wal`
justifies what it assumes of the disk (the same `StableStore` operators define
`HardStateStore` and the disk in `RaftNode`); `SimNetwork` shows what the network
may do, of which `RaftNode` assumes the most general form; `EventLoop` justifies
that handlers are atomic and that a cancelled timer does not fire.

### How state and actions correspond to the code

**RaftNode.**  Variables carry the names of the attributes, indexed by server.  The
exceptions: `disk[n]` is what `replay` would give of the records on the disk of
`n`; `applied[n]` is the sequence of entries given to the kv store (`applied_index`
is its length; a command is named by the id of its request); a timer is a Boolean,
since any armed timer may fire next; and `msgs` is the set of all messages ever
sent.  Handling a message does not remove it and nothing forces it to be handled,
so loss, repetition, delay and reordering are all there.  An action is a handler
from its first line to its last, the `persist` and `sync` before the reply
included; long handlers are split into one action per outcome (`RefuseGap`,
`TakeEntries`, ...), with the early returns as guards.  `ElectionTimeout` has both
ends of `on_election_timeout`; the one of a cluster of one is covered by the
theorems and fires in no run.  When the disk fails in a
handler, `guard` lets the node die: the memory is lost, none of the handler's
messages leaves, and `disk` holds a beginning of the records the handler wrote
(`DiskErrorOnMessage`, `DiskErrorOnTimeout`, `DiskErrorOnRequest`).  `Restart`
does not ask whether the node is down, as `restart()` does not.

**RaftCluster.**  The client's three timers are scheduled callbacks that may
outlive their request: `retry_timer` and `next_due` are Booleans, `redirects` a
counter, because each refusal schedules one more.  Requests and refusals are sets
that only grow, like `msgs`.

**CheckedRaft.**  A step is an event of a server, or one of the client or the
network that no server has a part in, and then the hook that looks at the cluster
(`View`, after the step).  A checker's dictionary is a set of pairs.  A run has its
checkers or not (`check`), and a `stride`; with a report it is over, so the states
beyond a report are explored by the runs without checkers.

**SimNetwork and Supervision.**  A packet is an arrival on the event queue; its
delay is left open.  What a node that wakes is sent arrives in the order in which
it was held (`released`).  Nodes are reduced to whether they run and whether their
disk is online; `SelfCrash` is a write that fails, at any time the node runs, also
while it hangs, because timers fire in a hung node.

**NaiveCluster.**  `flight[b]` is what is on its way to backup `b`; with the one
latency of the perfect profile its head is next, otherwise any of it.  A partition
is a loss; a hang is a delay, because the client calls the primary directly and
nobody answers it.  Logs are sequences of whole records, since a torn record is
thrown away before it is read (`Wal`).  A write that fails kills the node and not
the network's idea of it; the end of an outage restarts whatever is there.  `deaths`
counts those of the primary, for a property.

**Wal.**  A record takes `CELLS` cells, so that a crash can cut it; the checksum
is modelled by its purpose: a record is read only when all its cells are there.

**EventLoop.**  What an event does is to schedule and cancel other events.  Trimming
the head of the heap and popping are written as sets (what remains after the
cancelled entries in front are gone), not as a loop.

## What the runs check

Every passing run explores its whole state space.

| Run | Instance and bounds | Question |
|---|---|---|
| `raft` | 3 servers; one may crash, and its disk may fail in any handler. From the start: terms to 2, two elections, no entries. From an elected leader: one more election, logs to 2 entries, 14 messages | Can a crash between a vote and its reply, a torn vote, or a late reply make two leaders? Who can be left without an election timer, and can all who could lead? Do logs stay matched, and are the leader's beliefs and what was applied safe, with the messages of two leaders arriving in any order? |
| `figure8` | 3 servers from Figure 8(b) of the Raft paper, two more elections, 14 messages | Is the entry of an old term kept out of the commit although a majority holds it? Do the checkers, looking after each event or every second one, report anything that is none, and remember what was applied? |
| `cluster` | 3 servers, two of which believe they lead, or one leader and a request that was sent twice; a client with 2 writes and 3 attempts | Does the client confuse answers, stall, or follow a false hint? When can an earlier write come after a later one? |
| `supervision` | 2 nodes, 2 outages of either kind, a partition, a failed write, 2 messages | Do the injector and the supervisor keep node, disk and network in step, and is what is held for a hung node lost only to a crash or a partition? |
| `wal` | logs to 2 entries, 2 terms, 5 records, cells of 2 | Does the disk keep what `RaftNode` assumes, through any sequence of crashes? |
| `event_loop` | 4 events, delays to 2, runs to tick 3 | Is the lazily cleaned heap a plain agenda? |
| `progress` | 3 servers, one down, logs that diverged | Left alone, are logs repaired, clients answered, and commits passed on? |
| `naive` | 3 nodes; 3 writes to 2 keys, the third of which deletes; a sync every 2 writes; 2 crashes, a failed write, a message doubled | What does the naive replicator keep under each profile, how much does a death of the primary cost, and what may be missing from a world that counts as quiet? |

Why the bounds are enough to be interesting: two elections are needed for a vote
to be given, forgotten and asked for again; two log entries for one to be
overwritten while another is kept, and for a late short AppendEntries to arrive
after a long one; four terms for Figure 8.  In `raft` the bound of 14
messages leaves room for the second leader to replace an entry and commit its own,
and for all earlier messages to arrive afterwards.  Five records are a write of
three (a truncation, an entry, a state) after two others, and two cells are what
it takes to tear a record.  Three writes to two keys are an overwrite and a key that
is written once; a batch of two has one write that a death can cost.  Four events give two live ones behind two cancelled
ones.  Symmetry is used for the servers that neither crash nor start as leader, and
only in runs that check no liveness.  Each property was also checked against a
mistake in the code that it is there to notice: the operators named `Bad...`, each
in front of the definition it would replace.

### Fairness

Safety runs assume none.  `progress` and `unapplied` assume that every packet
arrives, one copy of it, and that the leader's heartbeats go on (weak fairness of
`Carry`, of `Arrive` for each kind of packet between the leader and the followers
that are up, and of the heartbeat).
That is what the quiet profile gives once there is a leader: nothing is dropped,
doubled or taken down, latency is at most 10 ms, and a heartbeat every 50 ms keeps
followers, whose timeout is at least 150 ms, from standing.  That *some* leader
emerges is a matter of random timeouts and is not claimed.

### Disagreements between the code and what is said of it

Four runs end in a counterexample, each for a sentence of the repository:

* `false_ack`: a deposed leader keeps `pending_clients`, keyed by index.  When the
  new leader's entry is committed at that index, the old one tells its own client
  that its write succeeded, though it is in no log
  (`raft/node.py:529-532`, against `invariants/history.py:3-5`).
* `dead_node`: a node that kills itself while it hangs is marked running by the
  end of the hang, and the supervisor, seeing it marked so, does not revive it
  (`raft/world.py:367`, against `raft/world.py:420-421`).
* `late_winner`: `LeaderCompleteness` (`invariants/safety.py:146-168`) compares a new
  leader with all that was committed, in later terms too.  The paper's property is
  about leaders of later terms: a candidate whose last vote is held up while a newer
  leader commits wins its old election, rightly lacks the entry, harms nothing, and
  is reported, though a violation is "a safety property that stopped being true"
  (`invariants/base.py:51`).  `groundhog raft --seed 1786 --faults aggressive
  --writes 10` shows it: n2 hangs as the candidate of term 8, n3 commits in term 9,
  n2 wakes and gets its vote.  `AlarmsExplained` says that, without crashes, this is
  the only report of any checker; `AlarmsAreExplained` proves it, and which reports
  crashes and a stride add.

* `unapplied`: a new leader commits entries of earlier terms only behind one of its
  own (`raft/node.py:383-388`), and appends none when it is elected (`469-485`).  If
  the old leader applied and acknowledged a write and died before the others heard
  of the commit, and nobody writes again, the entry stays in every log and in no
  store (against `invariants/history.py:3-5`, `45-46`).  It happens in the
  simulator: of 1176 settled aggressive runs with 20 writes and one key, 60 end with
  every write acknowledged and an empty store at the leader (seeds 4, 8 and 15 among
  them).

Others were met on the way and have no run of their own:

* Messages held for a hung node are sent through `_arrive` once more when it wakes
  and dropped if a partition has begun in between (`sim/net.py:190-194`,
  `209-223`), though `sim/net.py:42-43` calls them held, not lost.  `HeldNotLost`
  says that this, and the end of the node, are the only ways to lose them.
* `restart()` of a node that runs, which the end of an outage calls after the
  supervisor's visit, reloads term, vote and log and keeps role and indexes
  (`raft/node.py:185-202`).  `RaftNode` has this step, and the safety properties
  hold in spite of it.
* A hung node's timers go on firing, so it can stand, and lead.
* A leader that steps down has no election timer until it hears of a newer leader or
  grants a vote (`raft/node.py:279-285`, `481`), against `raft/figure2.md:129-130`:
  if the only other up-to-date server is down, nobody stands.
  `OnlyOldLeadersStandBy` says that it happens to nobody else, and `SomebodyCanStand`
  that the servers never all wait for each other: for each there is one, in a term no
  older, that leads, has its timer, or is down.  A server that is down counts because
  its restart arms the timer; whether the restart comes is the supervisor's affair,
  and `dead_node` shows that it may not.
* With a stride above 1 a server may crash and restart between two looks, and
  `MonotonicProgress`, which says that "a restarting node is exempt"
  (`invariants/safety.py:221`), reports that its commit index went backwards.
  `AlarmsExplained` allows this, and that `LeaderCompleteness` misses what a leader
  committed before a crash between two looks; no run combines crashes and a stride.  In the
  simulator itself, of the first 100 aggressive seeds with 10 writes, 64 end this
  way with a stride of 20 and none with a stride of 1.
* With a stride above 3 a leader may be deposed, have its log cut and be elected again
  between two looks, and `LeaderAppendOnly`, which forgets a leader's log when it
  *sees* it not to lead, reports the cut as its own (`invariants/safety.py:119-124`).
  Strides of 2 and 3 are too short for it, which is part of what
  `AlarmsAreExplained` proves; that 4 events are enough was found in its proof and is
  in no run.
* A request that was retried is applied twice, and the second time may undo a
  later write of the same key that has been acknowledged.  `ReorderedOnlyIfRepeated`
  says that nothing else puts the client's writes out of order.  In the simulator,
  of the first 1500 aggressive seeds with 20 writes and one key, 7 end with an older
  value (seed 33 among them).
* A naive node that killed itself counts as up when the world is declared quiet, for
  the network was not told; and though "nothing restarts this node"
  (`naive/replicator.py:165-166`), an outage that ends on it later does.
  `QuietIsWhole` says that a failed write is the only way for a node to be missing
  from a quiet world, one node for each.
* `FileStorage` takes the loss of a whole log, whose directory entry was never
  synced, to be harmless (`storage.py:65-69`); a server that forgets its vote is
  not.

## What is proved

For every number of servers, every bound and every choice of faulty servers, from
the `ASSUME`s of `RaftNode` alone (finite non-empty `Server`, `Nil` not in it,
`Faulty` a subset of it, natural bounds):

* `TypeCorrect`, `MemoryDurable`, `NextIndexSafe` (`RaftNodeProofs`).  Types are
  not inductive by themselves: the `prev_log_term` of an AppendEntries is a number
  only if `prev_log_index` is in the leader's log, hence the range of `next_index`
  (`NextInRange`), hence what followers acknowledge (`ReplyAnswers`: a success
  reply answers an AppendEntries of that leader; `SentInRange`: a leader's log
  covers what it sent in its term; `OwnTermsPast`: no messages of a term that a
  server is only about to lead).  `AppliedCovers` and `DownIsFollower` are needed
  for restarts.  The conjunction is `TInv`.
* `OneLeaderPerTerm`, `VotesAreUnique`, `HardStateMovesOn` (`RaftNodeProofs`).  A
  vote that left a server is on its disk, or the disk has moved to a newer term
  (`VotesOnDisk`, `StandsOnDisk`); so a server gives one vote in a term
  (`OneVote`, `VotedOrStood`); every vote counted was given (`VotesBacked`), every
  leader counted a majority (`LeaderHasMajority`), and every sender of an
  AppendEntries was once elected in that term (`SendersElected`), which is what
  remains after its crash.  Two majorities meet (`MajoritiesMeet`), and the server
  they share voted once.  `EInv` is the conjunction, inductive together with `TInv`.

* `LogsMatch` (`RaftNodeProofs`).  The invariant says that there is a history: a function
  `G` from terms to logs, where `G[t]` is the log of the leader of term `t` as far as
  it ever came.  Every log, in memory or on a disk, agrees up to each of its entries
  with `G` of that entry's term (`LogsOn`); so do the logs in `G` (`LeadersOn`); every
  AppendEntries is a slice of `G` of its term (`SlicesOn`); a leader has exactly `G` of
  its term (`LeadersHave`); and `G[t]` is empty until somebody has led `t` (`OnlyLed`).
  Two logs with an entry of the same term at one index then agree with the same
  `G[t]` up to it.  A new leader defines `G` of its term, which nobody has led, by
  `ElectionSafety`; a request extends it, and no other leader of the term is
  there to disagree.  A follower's log after `TakeEntries` is its old one or a
  beginning of the leader's (`HeldIsLeaders`, `TakenOn`), and a torn write leaves a
  beginning of the old or of the new log (`TornBegins`).  A failed write of a request
  may or may not put its entry into the history, depending on what the disk kept.

* `StateMachinesAgree`, `LeadersComplete`, `AppliedSurvives`, `AppliedStaysInLog`,
  `AcknowledgedIsDurable`, `CommitsNeverRetreat` (`CommitProofs`).  Two more
  invariants of the same history `G`:
  - `CInv`, what is acknowledged.  A server that led `t`, or sent a success reply of
    term `t`, has the beginning of `G[t]` it acknowledged on its disk, unless a later
    leader that lacks it has spoken to the server since (`AcksHeld`).  A server that
    voted for a candidate compared logs, so the candidate has what the voter had
    acknowledged of a leader's own entries, or a leader in between had already
    overruled them (`VotersKnow`).  Hence if a leader that got to work lacks an entry
    of `G[t]` of term `t`, a majority has left term `t` without acknowledging it
    (`Overrulers`, `MovedOn`), and two majorities meet.  The rest is what this needs:
    no log in `G` has entries of later terms (`TermsBelow`); candidates asked with
    the log they have (`AsksTruly`); votes and acknowledgements are of terms that were
    reached (`VotesAsked`, `AcksOnDisk`).  A torn write can put entries of term `u` on
    a disk that still says an older term (the entries precede the STATE record), and
    the server may then stand in a term below its last entry; `NoneAhead` says
    that it cannot win it, a majority being past it.  "Got to work" (`Reigned`) means
    sent an AppendEntries, has a non-empty log in `G`, or leads now: an elected leader
    that does nothing before it dies overrules nobody.
  - `AInv`, what is applied.  An entry of a leader's own term that a majority has
    acknowledged is chosen (`Chosen`), and all that is applied precedes a chosen entry
    in its leader's log (`Settled`): a leader's commit index rests on what followers
    told it (`Believes`), a follower's on what a leader said (`CommitSettled`).
    What is applied is in the log (`HasApplied`).
  A later leader has what is chosen (`ChosenHas`), so it cuts none of it away
  (`TakingKeepsApplied`), and the acknowledgers keep it on their disks
  (`ChosenOnDisk`).  `CInv` and `AInv` were model-checked, with the history as a
  variable, before they were proved.

* `OnlyOldLeadersWait` (`RaftNodeProofs`).  A server loses its election timer by
  winning or by stepping down, and whoever steps down has led.  That it has an
  older term's AppendEntries to show for it needs three facts (`HInv`): nobody sends
  to itself (`NoneToSelf`); a leader that is not alone has spoken in its term, since
  it sends heartbeats in the step in which it wins (`LeadersSpoke`); and whoever is
  named as leader has spoken as one, since names come from AppendEntries and from
  a win alone (`HintsSpoke`).  A server that is alone never hears of a newer term.
* `NeverAllStandBy` (`RaftNodeProofs`).  That somebody can stand is not inductive: the
  one in the newest term might hear of a newer one and stop.  `WInv` adds that whoever
  speaks in a term has it on its disk (`TermsReached`).  A step leaves a server waiting
  only if it waited before, in that term, or if it took up the term of a message
  (`Waits`); the sender has reached that term, so one that can stand has, by the
  invariant, and that is not the server that waits now (`WaitsKeep`).

The same, and that `Request` is the range of the client's numbers, `NODE_IDS`
lists the servers and there is more than one of them (`NODE_IDS = (1, 2, 3)`,
`raft/world.py:53`), gives for the cluster with the client (`ClusterProofs`):

* `ClusterIsRaft`: every step of the client and the nodes is a step of `RaftNode` or
  leaves it alone, so all the theorems above hold of the cluster: `ClusterOneLeader`,
  and `ClusterStoresAgree`, which says that the stores agree, that what they applied
  is on a majority of disks, and that every later leader has it.
* `HintsAreLeaders`.  A refusal's hint is a name that `HintsSpoke` speaks of, and
  messages stay.  That the hinted server still leads is not promised.
* `ClientTypeCorrect`, `ClientKeepsAsking`.  The invariant `ClientInv` adds that a
  request is counted when it is issued and one is in flight at most (`OneAtATime`),
  and that the client has its retry timer while it waits, and its next request
  scheduled, or none left, when it does not (`SomethingDue`).
* `ReceiptsAnswered`.  The invariant `AnswersInv` says that whatever a server owes an answer
  for was requested of it (`DebtsRequested`), and so was whatever was answered
  (`RepliesRequested`).
* `ReorderedIfRepeated`.  The client issues a request only with the receipt of the
  one before, so what a server takes from it for the first time is newer than all that
  is in any log, and the server shows it to the others in the step that appends it.  The
  invariant `OInv`, of the history `G` of above, says: of each request but the one in
  flight, and of each that a server owes an answer for or has answered, some leader's
  log had it with nothing newer in front of it, and an AppendEntries showed it there
  (`First`); nothing is in a log that was not issued (`Issued`); and what a disk holds
  was shown, or was written by that server as a leader (`ShownOrLed`).  Hence what is
  applied was shown where it is (`AppliedShown`): a majority of more than one server
  has it, and a term has but one leader to have written it.  If an older request
  is applied after a newer one, this place has the newer one in front of it and is not
  the first place, so there are two (`OlderAfterNewer`).  A single server shows nothing
  to anybody, and `Places`, which reads messages, would find none: hence the
  assumption.

For any set of nodes, any number of outages, splits, failed writes and messages, from
natural bounds and from `Kinds` being some of crash and hang (`SimulatorProofs`):

* `SupervisionTypeCorrect`, `NodesRunOnTheirDisks`, `CrashesAreExpected`,
  `OnlyTheHungAreHeldFor`.  Node, disk and network are set in the same steps, by
  hands that do not know of each other (the injector's begin and end, the supervisor,
  a failed write); the conjunction of the four is inductive with two facts more: each
  of the supervisor's visits is due to a failed write of its own
  (`VisitsForFailures`), which bounds them, and what is held is held for the node it
  was sent to (`HeldForItsNode`).  `SInv` is the conjunction.
* `OnePlaceForEach`.  Counting places is no invariant to work with; `OInv` says
  instead, of each two places, that they share no packet, of each buffer and the burst
  that none is in it twice, and that every packet has a number that was given out, so
  that a new one is nowhere yet.  What is needed of sequences are lemmas of their own
  (`NoRepeatConcat` and those after it), and five sets of at most one element, at
  most one of which is not empty, have at most one together.
* `HeldIsNotLost`, an action property: a packet leaves what waits for a node only by
  one of the three ways the code has, by cases over the steps, from `SInv`.

For records of any size, logs of any length and any number of crashes, failed writes
and restarts (`WalProofs`), from `CELLS` being positive, natural bounds, and `Nil` being
neither a store nor a write:

* `MemoryIsTheDisk`, and `DiskKeepsPromise`: `Wal` implements `HardStateStore`, and so
  justifies what `RaftNode` takes for granted of a disk.  What the abstract disk holds
  is what the next restart would read of what is durable now (`Survives`).  The
  invariant `WInv` says of a server at no write that its image is the encoding of
  whole records and its memory their replay (`Idle`); of a server at a write, that what
  was synced is the encoding of whole records, that the image is a beginning of those
  and the records of the write, and, until a call fails, that it lacks just what the
  calls still to come will append (`AtWrite`, `Rest`).  Then a crash leaves a
  beginning of an encoding, which decodes to a beginning of the records
  (`DecodeTorn`), and a beginning of a write's records replays to one of the stores
  that `StableStore` allows (`ReplayWrite`).
* These rest on what `Encode`, `Decode` and `Replay` compute for every input.
  Induction theorems that take an operator are of no use here, but a least element
  does the same: a non-empty set of numbers has one (`LeastOf`), so a recursive
  *function* has the values its equation says (`ReplayExists`, `ReplayOne`), and a
  statement about all lengths has no least counterexample (`ReplayEntries`).  `Replay`,
  here and in `KvStore`, is written as such a function for that reason.

For any number of events, delays and runs, from natural bounds alone
(`EventLoopProofs`): `LoopTypeCorrect`, `TimeNeverBack`, `NoOverrun`,
`RunsToTheEnd`, and `LoopKeepsAgenda`, the refinement of `Agenda`.  The invariant
`LInv` adds to the properties that nothing live is due before now (`NothingInThePast`,
which the refinement implies, and so has no run), that entries of the heap have
numbers of their own (`Numbered`) and that nothing runs outside a run (`OnlyInLoop`).
The argument for the lazy heap: trimming cancelled entries in front drops no live
event (`TrimmedKeepsLive`), so the head of the trimmed heap is live and is the
earliest live event, whose tick decides whether the run is over (`HeadIsDue`,
`RestIsOver`).

For any number of backups, writes, keys and faults (`NaiveProofs`), from a sync at least
every so many writes, at least one key, and a primary that is no backup:

* `LossIsBounded`.  At each node the writes since the last sync are as many as
  `unsynced` says, and fewer than `SYNC_EVERY` (`Counted`).  So a death of the primary
  takes at most `SYNC_EVERY - 1` promised writes that were not lost before, whatever
  of the unsynced part happens to survive (`LossByDeath`); only deaths take any.
* `OnlyOverwritesDiffer`.  Without crashes and losses the primary's log is the
  list of promises, and a backup's log with what is on its way there has the same
  writes, as many of them, and with one latency in the same order (`Clean`).  A node
  that runs has the replay of its log for a store (`Built`), and what a replay leaves
  at a key that one command at most wrote does not depend on the order of the log
  (`ReplayAt`); with one latency each log is the list of promises (`PerfectIsRight`).
  That a node known to be dead does not run (`DeadIsDown`) is needed for its restart.
  `NInv` is the conjunction, with the types.
* `QuietWorldIsWhole`.  The nodes that the network has as up and that do not run
  (`Fallen`) are no more than the failed writes (`FInv`): only a failed write adds one,
  and the beginning or the end of an outage may take one away.

For every cluster, every stride and every choice of faulty servers, from the same
assumptions, a stride of at least 1, and no checker being named `Nil` (`CheckerProofs`):

* `AlarmsAreExplained`, `CheckersRemember`.  The checkers read logs at one moment and
  compare them with what they read at others, so the invariant `QInv` is about what
  they remember, as a function of how many events ago the last look was (`Memory`).
  With `G` the history of above: whom they saw lead, led (`LeadersKnown`); all that
  they hold for committed or applied is settled, `Sure`, and at an index one entry is
  settled (`SettledOnce`), so their memory never conflicts; every index that anybody
  is told to commit is covered by an entry that was seen, or can be, and that its
  leader chose in its own term (`Backing`), so a leader that lacks what was committed is
  the late winner of an older term (`IncompleteIsLate`); a commit index falls only by a
  crash (`Below`); and a leader that was seen is still the leader, or has lost, has
  yet to gather votes, or has had three events to do both (`SeenAt`).  `Backing` and `Below` are lost by a
  crash between two looks, `SeenAt` by four events, and these are the exceptions of
  `AlarmsExplained`.  That a server's store is as long as its commit index
  (`AppliedExactly`) and that what it applied is in its log make a look find all that was
  applied; with a look after every event this is what `RemembersApplied` says.

`MatchIndexIsDurable` was first stated with "while the follower's disk is in the leader's
term" for its exception.  That holds of three servers and not of five: a follower
acknowledges in term `t`, a leader of a later term that lacks the entry speaks to
it, and the write that cuts its log is torn before the STATE record, so the disk is back
in term `t` without the entry.  The exception is now the later leader's message, and
the theorem holds for every cluster.

Only model-checked: liveness, which is `LogsRepaired`, `RequestsAnswered` and
`CommitReachesAll` of the run `progress`, as the prover has no rules for fairness or for
`ENABLED`.  Every other property of a passing run is stated by a theorem.

## What is not modelled

* The bytes of a command (`encode_command`, `decode_command`).  In `RaftNode` a
  command is the number of its request and the store the sequence of what was
  applied; keys are in `KvStore` alone.
* `ClientHistory`, which no checker reads; what it is for is stated as `PromiseKept`
  of `RaftCluster` and `ReceiptsStand` of `RaftProgress`.
* The digest of a naive run (`NaiveResult`).
* Of the checkers: `stop_on_violation=False`, which only tests use, and what
  `LeaderCompleteness` keeps when two servers commit different entries between two
  looks (the code keeps one, `CheckedRaft` both).
* The drawing of fault schedules, delays and timeouts: random in the code, left
  open in the model, which allows every order.  Cost of a sync: it delays nothing
  but replies, which the model delays at will.
* `FileStorage` (no caller but tests) and `SimStorage.truncate_from` (no caller).
* The `--mutate` switch, verdicts and results of a run, trace output, the command
  line, the demonstration of the simulator.

## Plan

Done, in the order in which it was built: the node and its safety; the theorems of
elections; progress; the client; network and supervision; the log on disk; the
event loop and its refinement; the checkers; the naive replicator and the store; the
refinement of the nodes by the cluster, and the theorems about the client; log
matching, all that is promised of what is applied, the theorems of network and
supervision, the refinement of the abstract disk, and what the naive replicator keeps.
Next, the most important first:

1. **Disk and node together**: that the disk of each server of `RaftNode` is a
   `HardStateStore`, and so that a `Wal` may be put in its place.
2. **Checkers that see**: every fault of the nodes that breaks a property is
   reported, and in time; the checkers over `RaftCluster` with its client.
3. **Client history over keys**: receipts against the store of `KvStore`, with the
   duplicates that retries cause, over `RaftCluster`.
