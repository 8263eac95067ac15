------------------------------- MODULE RaftLog -------------------------------
(***************************************************************************)
(* The replicated log of groundhog/log.py, as operators on sequences.      *)
(*                                                                         *)
(* The log is 1-based and index 0 is a sentinel that every log holds with  *)
(* term 0.  RaftLog refuses an entry whose index does not continue the log *)
(* (log.py:100-106, 125-130), so the index of an entry is its position and *)
(* an entry here is only [term, request_id]: a command is named by the     *)
(* client request that carried it.                                         *)
(***************************************************************************)
EXTENDS Integers, Sequences

SENTINEL_INDEX == 0
SENTINEL_TERM == 0

LastIndex(lg) == Len(lg)

LastTerm(lg) == IF lg = << >> THEN SENTINEL_TERM ELSE lg[Len(lg)].term

HasEntry(lg, index) == index \in SENTINEL_INDEX .. LastIndex(lg)

(* Only ever applied where HasEntry(lg, index): past the end the code      *)
(* raises IndexError, and so does TLC.                                     *)
TermAt(lg, index) ==
  IF index = SENTINEL_INDEX THEN SENTINEL_TERM ELSE lg[index].term

SliceFrom(lg, index) == SubSeq(lg, index, LastIndex(lg))

(* truncate_from(index) keeps the entries before index; past the end of    *)
(* the log it does nothing.                                                *)
TruncateFrom(lg, index) ==
  IF index <= LastIndex(lg) THEN SubSeq(lg, 1, index - 1) ELSE lg

Larger(a, b) == IF a >= b THEN a ELSE b
Smaller(a, b) == IF a <= b THEN a ELSE b
=============================================================================
