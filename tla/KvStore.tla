------------------------------ MODULE KvStore ------------------------------
(***************************************************************************)
(* The state machine of groundhog/kv.py, and what is asked of several      *)
(* copies of it: do they agree (invariants/divergence.py), and do they     *)
(* hold what a client was promised (naive/client.py)?                      *)
(*                                                                         *)
(* A command is known by the number under which the client issued it; its  *)
(* value is that number.  A key that is absent is bound to Nil.            *)
(***************************************************************************)
EXTENDS Integers, SequencesExt

CONSTANTS
  Nil,            \* Python's None
  Keys,           \* how many keys the client goes round
  DELETE_EVERY    \* one command in so many deletes its key

ASSUME KeysAssumption == Keys \in Nat \ {0}
ASSUME DeleteAssumption == DELETE_EVERY \in Nat \ {0}

Key == 0 .. Keys - 1

(* The command that the client issues as number.                           *)
CommandOf(number) ==
  [op |-> IF number % DELETE_EVERY = DELETE_EVERY - 1 THEN "delete" ELSE "put",
   key |-> number % Keys,
   value |-> number]

Empty == [k \in Key |-> Nil]

(* apply: never fails; deleting a missing key is fine.                     *)
Apply(store, number) ==
  LET c == CommandOf(number)
  IN  [store EXCEPT ![c.key] = IF c.op = "put" THEN c.value ELSE Nil]

(* replay: what a log gives; and expected_state of a client's receipts.    *)
Replay(numbers) ==
  LET after[i \in 0 .. Len(numbers)] ==
        IF i = 0 THEN Empty ELSE Apply(after[i - 1], numbers[i])
  IN  after[Len(numbers)]

WritesTo(k, numbers) == {x \in ToSet(numbers) : CommandOf(x).key = k}

(* DivergenceChecker.check: the keys on which two copies differ.           *)
Divergent(stores) ==
  {k \in Key : \E n, p \in DOMAIN stores : stores[n][k] # stores[p][k]}

(* lost_writes: the keys whose last acknowledged write copy n lacks.       *)
Lost(acked, store) ==
  {k \in Key : WritesTo(k, acked) # {} /\ store[k] # Replay(acked)[k]}
=============================================================================
