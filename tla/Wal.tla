-------------------------------- MODULE Wal --------------------------------
(***************************************************************************)
(* One server's write-ahead log: the framing of groundhog/codec.py, the    *)
(* failing disk of sim/disk.py, the records and the recovery of            *)
(* raft/persist.py, and the handler of raft/node.py that writes to it.     *)
(*                                                                         *)
(* The disk is a sequence of cells, and a record takes CELLS of them, so a *)
(* crash or a failed write can cut a record.  The checksum is modelled by  *)
(* what it is for: a record is read only if all its cells are there, in    *)
(* order and of that record.                                               *)
(***************************************************************************)
EXTENDS StableStore, SequencesExt

CONSTANTS
  Voter, Request, Nil,
  MaxTerm,      \* bound on terms
  MaxLog,       \* bound on the entries of a log
  MaxRecords,   \* bound on the records ever written
  CELLS         \* how many cells a record takes

Entry == [term : 1 .. MaxTerm, request_id : Request]

Fresh == [current_term |-> 0, voted_for |-> Nil, log |-> << >>]

(* What a server can have stored, and what a handler can write.            *)
Store == [current_term : Nat, voted_for : Voter \cup {Nil}, log : Seq(Entry)]
Write ==
  [cut : Nat, new : Seq(Entry), term : Nat, vote : Voter \cup {Nil}, state : BOOLEAN]

ASSUME CellsAssumption == CELLS \in Nat \ {0}
ASSUME BoundsAssumption == MaxTerm \in Nat /\ MaxLog \in Nat
ASSUME NilAssumption == Nil \notin Store /\ Nil \notin Write

VARIABLES
  bytes,      \* what the server believes it has written, cell by cell
  durable,    \* how many leading cells have reached the platter
  online,     \* SimStorage._online
  failed,     \* SimStorage._failed: a write went wrong, and a crash must follow
  memory,     \* current_term, voted_for and log of the server, or Nil when down
  writing,    \* the write that a handler is at, or Nil
  todo        \* the append() calls that are left of it

vars == <<bytes, durable, online, failed, memory, writing, todo>>

-----------------------------------------------------------------------------
(* The framing.                                                            *)

Encode(records) ==
  [i \in 1 .. Len(records) * CELLS |->
     [rec |-> records[((i - 1) \div CELLS) + 1], part |-> ((i - 1) % CELLS) + 1]]

(* The j-th record of the image checks out.                                *)
Whole(image, j) ==
  /\ j * CELLS <= Len(image)
  /\ \A k \in 1 .. CELLS :
       image[(j - 1) * CELLS + k] = [rec |-> image[j * CELLS].rec, part |-> k]

(* decode_records: records until one does not check out.                   *)
Valid(image) ==
  CHOOSE n \in 0 .. Len(image) :
    (\A j \in 1 .. n : Whole(image, j)) /\ ~Whole(image, n + 1)

Decode(image) == [j \in 1 .. Valid(image) |-> image[j * CELLS].rec]

-----------------------------------------------------------------------------
(* The records of raft/persist.py.                                         *)

StateRecord(w) == [kind |-> "STATE", current_term |-> w.term, voted_for |-> w.vote]
EntryRecord(e) == [kind |-> "ENTRY", entry |-> e]
TruncateRecord(index) == [kind |-> "TRUNCATE", index |-> index]

(* Recovery keeps an entry that a record says was deleted.                 *)
BadReplayed(store, r) ==
  CASE r.kind = "STATE" ->
         [store EXCEPT !.current_term = r.current_term, !.voted_for = r.voted_for]
    [] r.kind = "ENTRY" -> [store EXCEPT !.log = Append(@, r.entry)]
    [] r.kind = "TRUNCATE" -> [store EXCEPT !.log = SubSeq(@, 1, r.index)]

(* replay, one record.                                                     *)
Replayed(store, r) ==
  CASE r.kind = "STATE" ->
         [store EXCEPT !.current_term = r.current_term, !.voted_for = r.voted_for]
    [] r.kind = "ENTRY" -> [store EXCEPT !.log = Append(@, r.entry)]
    [] r.kind = "TRUNCATE" -> [store EXCEPT !.log = SubSeq(@, 1, r.index - 1)]

(* replay, one record after the other.                                     *)
Replay(records) ==
  LET after[i \in 0 .. Len(records)] ==
        IF i = 0 THEN Fresh ELSE Replayed(after[i - 1], records[i])
  IN  after[Len(records)]

-----------------------------------------------------------------------------
(* The handler.                                                            *)

(* What a handler may write when its memory is m: a cut in the log, new    *)
(* entries there, and a term and a vote; a client's request is one entry   *)
(* and no STATE record.                                                    *)
Logs(k) == UNION {[1 .. l -> Entry] : l \in 0 .. k}
WritesIn(m) ==
  {w \in [cut : 1 .. Len(m.log) + 1, new : Logs(MaxLog), term : m.current_term .. MaxTerm,
          vote : Voter \cup {Nil}, state : BOOLEAN] :
     /\ w.cut - 1 + Len(w.new) <= MaxLog
     /\ ~w.state => /\ w.cut = Len(m.log) + 1
                    /\ Len(w.new) = 1
                    /\ w.term = m.current_term /\ w.vote = m.voted_for
     /\ w.cut <= Len(m.log) => w.new # << >>}

(* The append() calls of write w: persist_truncation, persist_entries and  *)
(* persist.                                                                *)
CallsOf(m, w) ==
  (IF w.cut <= Len(m.log) THEN <<<<TruncateRecord(w.cut)>>>> ELSE << >>)
    \o (IF w.new # << >> THEN <<[i \in DOMAIN w.new |-> EntryRecord(w.new[i])]>> ELSE << >>)
    \o (IF w.state THEN <<<<StateRecord(w)>>>> ELSE << >>)

Handle(w) ==
  /\ memory # Nil
  /\ writing = Nil
  /\ w \in WritesIn(memory)
  /\ Len(bytes) + CELLS * Len(FlattenSeq(CallsOf(memory, w))) <= CELLS * MaxRecords
  /\ writing' = w
  /\ todo' = CallsOf(memory, w)
  /\ memory' = AfterWrite(memory, w.cut, w.new, w.term, w.vote)
  /\ UNCHANGED <<bytes, durable, online, failed>>

-----------------------------------------------------------------------------
(* The disk.                                                               *)

AppendRecords ==
  /\ online /\ ~failed
  /\ todo # << >>
  /\ bytes' = bytes \o Encode(Head(todo))
  /\ todo' = Tail(todo)
  /\ UNCHANGED <<durable, online, failed, memory, writing>>

(* append() fails with part of the data written.                           *)
AppendFails ==
  /\ online /\ ~failed
  /\ todo # << >>
  /\ \E landed \in 0 .. Len(Encode(Head(todo))) :
       bytes' = bytes \o SubSeq(Encode(Head(todo)), 1, landed)
  /\ failed' = TRUE
  /\ UNCHANGED <<durable, online, memory, writing, todo>>

(* sync() ends the handler's writes: what follows is its reply.            *)
Sync ==
  /\ online /\ ~failed
  /\ writing # Nil
  /\ todo = << >>
  /\ durable' = Len(bytes)
  /\ writing' = Nil
  /\ UNCHANGED <<bytes, online, failed, memory, todo>>

(* A crash is ordered between two events of the server, or follows its     *)
(* failed write: what was synced stays, and part of the rest.              *)
Crash ==
  /\ online
  /\ failed \/ writing = Nil
  /\ \E kept \in 0 .. Len(bytes) - durable :
       /\ bytes' = SubSeq(bytes, 1, durable + kept)
       /\ durable' = durable + kept
  /\ online' = FALSE
  /\ failed' = FALSE
  /\ memory' = Nil
  /\ writing' = Nil
  /\ todo' = << >>

(* The torn tail stays where it is.                                        *)
BadRecovered(image) == image
Recovered(image) == SubSeq(image, 1, Valid(image) * CELLS)

(* SimNode.restart: the torn tail is thrown away, and the rest replayed.   *)
(* The code does not ask whether the server is down.                       *)
Restart ==
  /\ writing = Nil /\ ~failed
  /\ bytes' = Recovered(bytes)
  /\ durable' = Len(Recovered(bytes))
  /\ online' = TRUE
  /\ memory' = Replay(Decode(Recovered(bytes)))
  /\ UNCHANGED <<failed, writing, todo>>

Init ==
  /\ bytes = << >>
  /\ durable = 0
  /\ online = TRUE
  /\ failed = FALSE
  /\ memory = Fresh
  /\ writing = Nil
  /\ todo = << >>

Next ==
  \/ memory # Nil /\ \E w \in WritesIn(memory) : Handle(w)
  \/ AppendRecords
  \/ AppendFails
  \/ Sync
  \/ Crash
  \/ Restart

Spec == Init /\ [][Next]_vars

-----------------------------------------------------------------------------
(* What a crash now would leave at least: what the next restart reads.     *)
Survives == Replay(Decode(SubSeq(bytes, 1, durable)))

(* The promise of storage.py, for the hard state: a write is there once    *)
(* sync returned, and a crash before that leaves a beginning of it and     *)
(* nothing else, whatever was torn in earlier crashes.                     *)
Promise == INSTANCE HardStateStore WITH
  store <- Survives, up <- memory # Nil, Writes <- Write

KeepsPromise == Promise!Spec

(* A server that is at no write has in memory what it would read back.     *)
MemoryIsRecovered == memory # Nil /\ writing = Nil => memory = Survives
=============================================================================
