--------------------------- MODULE HardStateStore ---------------------------
(***************************************************************************)
(* What a Raft server is promised of its disk, in the words of             *)
(* storage.py:7-12: all that was written when sync returned is there after *)
(* a crash; of what was written since, some beginning may be.  One write   *)
(* is asked for at a time, and it either reaches the disk whole, when sync *)
(* returns, or the server crashes and part of it may have.                 *)
(***************************************************************************)
EXTENDS StableStore

CONSTANTS Writes,   \* the writes that a handler may ask for in a store
          Nil,
          Fresh     \* the store of a server that never wrote

VARIABLES store,    \* what a crash now would leave
          writing,  \* the write that a handler is at, or Nil
          up        \* whether the server runs

Begin ==
  /\ up /\ writing = Nil
  /\ writing' \in Writes
  /\ UNCHANGED <<store, up>>

(* sync returned, and the server goes on.                                  *)
Complete ==
  /\ writing # Nil
  /\ store' = AfterWrite(store, writing.cut, writing.new, writing.term, writing.vote)
  /\ writing' = Nil
  /\ UNCHANGED up

Tear ==
  /\ writing # Nil
  /\ store' \in AfterTear(store, writing.cut, writing.new, writing.term, writing.vote)
  /\ writing' = Nil
  /\ up' = FALSE

(* A crash between two writes, or a restart, changes nothing.              *)
UpOrDown ==
  /\ writing = Nil
  /\ up' \in BOOLEAN
  /\ UNCHANGED <<store, writing>>

Spec ==
  /\ store = Fresh /\ writing = Nil /\ up = TRUE
  /\ [][Begin \/ Complete \/ Tear \/ UpOrDown]_<<store, writing, up>>
=============================================================================
