---------------------------- MODULE StableStore ----------------------------
(***************************************************************************)
(* What a Raft server's writes leave on its disk.  A store is              *)
(*   [current_term, voted_for, log]                                        *)
(* which is what RaftStorage.recover (raft/persist.py) reads back.  A      *)
(* handler's writes come in one order: the log is truncated at cut, new    *)
(* entries are appended, and the term and the vote are written last.       *)
(***************************************************************************)
EXTENDS RaftLog

(* All of them reached the disk.                                           *)
AfterWrite(store, cut, new, term, vote) ==
  [current_term |-> term, voted_for |-> vote,
   log |-> TruncateFrom(store.log, cut) \o new]

(* A crash or a failed write kept some of them: a prefix of the records.   *)
AfterTear(store, cut, new, term, vote) ==
  {store, AfterWrite(store, cut, new, term, vote)}
    \cup {[store EXCEPT !.log = TruncateFrom(@, cut) \o SubSeq(new, 1, k)] :
            k \in 0 .. Len(new)}
=============================================================================
