-------------------------- MODULE SimulatorProofs --------------------------
(***************************************************************************)
(* Proofs about Supervision and the SimNetwork it extends, for any nodes,  *)
(* outages, failures and messages: node, disk and network agree on who is  *)
(* up, every packet is in one place, and what is held for a hung node is   *)
(* lost to a crash or a partition and to nothing else.                     *)
(***************************************************************************)
EXTENDS Supervision, SequenceTheorems, FiniteSetTheorems, TLAPS

-----------------------------------------------------------------------------
(* The inductive invariants.                                               *)

(* A supervisor's visit is scheduled for a failed write, each for one.     *)
VisitsForFailures == \A n \in Node : revive[n] <= failures

(* What is held is held for the node it was sent to.                       *)
HeldForItsNode == \A n \in Node : \A p \in Range(held[n]) : p.to = n

SInv ==
  /\ TypeOK
  /\ VisitsForFailures
  /\ RunsOnItsDisk
  /\ CrashedIsExpected
  /\ HeldOnlyWhileHung
  /\ HeldForItsNode

(* No two of S are copies of one; none of S is a copy of one of T; no two  *)
(* places of s hold copies of one.  Copies of one have the same Key.       *)
Distinct(S) == \A p, q \in S : Key(p) = Key(q) => p = q
Apart(S, T) == \A p \in S, q \in T : Key(p) # Key(q)
NoRepeat(s) == \A i, j \in DOMAIN s : Key(s[i]) = Key(s[j]) => i = j

(* The places a packet can be in, two by two.                              *)
OInv ==
  /\ \A p \in flight \cup delivered \cup dropped \cup Waiting : p.id <= sends
  /\ Distinct(flight) /\ Distinct(delivered) /\ Distinct(dropped)
  /\ Apart(flight, delivered) /\ Apart(flight, dropped) /\ Apart(delivered, dropped)
  /\ Apart(Waiting, flight) /\ Apart(Waiting, delivered) /\ Apart(Waiting, dropped)
  /\ NoRepeat(released)
  /\ \A n \in Node : NoRepeat(held[n]) /\ Apart(Range(held[n]), Range(released))
  /\ \A m, n \in Node : m # n => Apart(Range(held[m]), Range(held[n]))

-----------------------------------------------------------------------------
(* What setting a node's state does.                                       *)

(* Nothing is held for a node once its state was set: what was, died with  *)
(* it or was added to what arrives at once.                                *)
LEMMA SetStateMoves ==
  ASSUME NetTypeOK, HeldOnlyWhileHung, NEW n \in Node, NEW s \in NodeState, SetState(n, s)
  PROVE  /\ state' = [state EXCEPT ![n] = s]
         /\ held' = [held EXCEPT ![n] = << >>]
         /\ \/ released' = released /\ (held[n] = << >> \/ s = "crashed")
            \/ released' = released \o held[n]
<1>1. state' = [state EXCEPT ![n] = s]
  BY DEF SetState
<1>2. CASE s = "crashed"
  BY <1>1, <1>2 DEF SetState
<1>3. CASE s # "crashed" /\ state[n] = "hung"
  BY <1>1, <1>3 DEF SetState, Release
<1>4. CASE s # "crashed" /\ state[n] # "hung"
  <2>1. held[n] = << >>
    BY <1>4 DEF HeldOnlyWhileHung
  <2>2. held' = held /\ released' = released
    BY <1>4 DEF SetState
  <2>3. held = [held EXCEPT ![n] = << >>]
    BY <2>1 DEF NetTypeOK
  <2> QED BY <1>1, <2>1, <2>2, <2>3
<1> QED BY <1>2, <1>3, <1>4

(* Setting a state keeps the types, and who holds what for whom.           *)
LEMMA SetStateKeeps ==
  ASSUME NetTypeOK, HeldOnlyWhileHung, HeldForItsNode,
         NEW n \in Node, NEW s \in NodeState, SetState(n, s),
         UNCHANGED <<sends, flight, partition, delivered, dropped>>
  PROVE  NetTypeOK' /\ HeldOnlyWhileHung' /\ HeldForItsNode'
<1>1. /\ state' = [state EXCEPT ![n] = s]
      /\ held' = [held EXCEPT ![n] = << >>]
      /\ released' = released \/ released' = released \o held[n]
  BY SetStateMoves
<1>2. held \in [Node -> Seq(Packet)] /\ released \in Seq(Packet) /\ held[n] \in Seq(Packet)
  BY DEF NetTypeOK
<1>3. released' \in Seq(Packet)
  <2>1. released \o held[n] \in Seq(Packet)
    BY <1>2, ConcatProperties
  <2> QED BY <1>1, <1>2, <2>1
<1>4. held' \in [Node -> Seq(Packet)]
  BY <1>1, <1>2
<1>5. state' \in [Node -> NodeState]
  BY <1>1 DEF NetTypeOK
<1>6. NetTypeOK'
  BY <1>3, <1>4, <1>5 DEF NetTypeOK
<1>7. \A m \in Node : held'[m] = << >> \/ (held'[m] = held[m] /\ state'[m] = state[m])
  BY <1>1, <1>2 DEF NetTypeOK
<1>8. HeldOnlyWhileHung'
  BY <1>7 DEF HeldOnlyWhileHung
<1>9. Range(<< >>) = {}
  BY DEF Range
<1>10. HeldForItsNode'
  BY <1>7, <1>9 DEF HeldForItsNode
<1> QED BY <1>6, <1>8, <1>10

(* A packet that is sent is lost or on its way, once or twice.             *)
LEMMA SendAdds ==
  ASSUME NetTypeOK, NEW n \in Node, NEW to \in Node, NetSend(n, to)
  PROVE  \E new \in SUBSET Packet :
           /\ \A p \in new : p.id = sends'
           /\ \A p, q \in new : Key(p) = Key(q) => p = q
           /\ \/ dropped' = dropped \cup new /\ flight' = flight
              \/ flight' = flight \cup new /\ dropped' = dropped
           /\ sends' = sends + 1 /\ sends' \in 0 .. MaxSends
           /\ UNCHANGED <<released, held, state, partition, delivered>>
<1> DEFINE packet(dup) == [id |-> sends + 1, frm |-> n, to |-> to, dup |-> dup]
<1>1. sends' = sends + 1 /\ sends' \in 0 .. MaxSends /\ sends + 1 \in 1 .. MaxSends
  BY SendsAssumption DEF NetSend, NetTypeOK
<1>2. packet(FALSE) \in Packet /\ packet(TRUE) \in Packet
  BY <1>1 DEF Packet
<1>3. /\ packet(FALSE).id = sends + 1 /\ packet(TRUE).id = sends + 1
      /\ packet(FALSE).dup = FALSE /\ packet(TRUE).dup = TRUE
  OBVIOUS
<1>4. Key(packet(FALSE)) # Key(packet(TRUE))
  BY <1>3 DEF Key
<1>5. UNCHANGED <<released, held, state, partition, delivered>>
  BY DEF NetSend
<1>6. \/ dropped' = dropped \cup {packet(FALSE)} /\ flight' = flight
      \/ flight' = flight \cup {packet(FALSE)} /\ dropped' = dropped
      \/ flight' = flight \cup {packet(FALSE), packet(TRUE)} /\ dropped' = dropped
  BY DEF NetSend
<1> HIDE DEF packet
<1>7. CASE \/ dropped' = dropped \cup {packet(FALSE)} /\ flight' = flight
           \/ flight' = flight \cup {packet(FALSE)} /\ dropped' = dropped
  <2>1. {packet(FALSE)} \in SUBSET Packet
    BY <1>2
  <2> WITNESS {packet(FALSE)} \in SUBSET Packet
  <2> QED BY <1>1, <1>2, <1>3, <1>5, <1>7 DEF packet
<1>8. CASE flight' = flight \cup {packet(FALSE), packet(TRUE)} /\ dropped' = dropped
  <2>3. {packet(FALSE), packet(TRUE)} \in SUBSET Packet
    BY <1>2
  <2> WITNESS {packet(FALSE), packet(TRUE)} \in SUBSET Packet
  <2>1. \A p \in {packet(FALSE), packet(TRUE)} : p.id = sends'
    BY <1>1, <1>3 DEF packet
  <2>2. \A p, q \in {packet(FALSE), packet(TRUE)} : Key(p) = Key(q) => p = q
    BY <1>4
  <2> QED BY <1>1, <1>5, <1>8, <2>1, <2>2
<1> QED BY <1>6, <1>7, <1>8

(* The range of a sequence that grew, or lost its head.                    *)
LEMMA RangeOfAppend ==
  ASSUME NEW S, NEW s \in Seq(S), NEW x \in S
  PROVE  Append(s, x) \in Seq(S) /\ Range(Append(s, x)) = Range(s) \cup {x}
<1>1. /\ Append(s, x) \in Seq(S)
      /\ Len(Append(s, x)) = Len(s) + 1
      /\ \A i \in 1 .. Len(s) : Append(s, x)[i] = s[i]
      /\ Append(s, x)[Len(s) + 1] = x
  BY AppendProperties
<1>2. Range(s) = {s[i] : i \in 1 .. Len(s)}
  BY RangeEquality
<1>3. Range(Append(s, x)) = {Append(s, x)[i] : i \in 1 .. Len(s) + 1}
  BY <1>1, RangeEquality
<1>4. Len(s) \in Nat
  OBVIOUS
<1>5. 1 .. Len(s) + 1 = (1 .. Len(s)) \cup {Len(s) + 1}
  BY <1>4
<1> QED BY ONLY <1>1, <1>2, <1>3, <1>5

LEMMA RangeOfTail ==
  ASSUME NEW S, NEW s \in Seq(S), s # << >>
  PROVE  /\ Head(s) \in Range(s) /\ Head(s) \in S
         /\ Tail(s) \in Seq(S)
         /\ Range(s) = Range(Tail(s)) \cup {Head(s)}
<1>1. /\ Head(s) \in S /\ Tail(s) \in Seq(S)
      /\ Len(Tail(s)) = Len(s) - 1
      /\ \A i \in 1 .. Len(Tail(s)) : Tail(s)[i] = s[i + 1]
  BY HeadTailProperties
<1>2. Len(s) \in Nat /\ Len(s) > 0 /\ Head(s) = s[1]
  OBVIOUS
<1>3. Range(s) = {s[i] : i \in 1 .. Len(s)}
  BY RangeEquality
<1>4. Range(Tail(s)) = {Tail(s)[i] : i \in 1 .. Len(s) - 1}
  BY <1>1, RangeEquality
<1>5. \A i \in 1 .. Len(s) : i = 1 \/ (i - 1 \in 1 .. Len(s) - 1 /\ (i - 1) + 1 = i)
  BY <1>2
<1>6. \A i \in 1 .. Len(s) - 1 : i + 1 \in 1 .. Len(s)
  BY <1>2
<1>7. \A x \in Range(s) : x \in Range(Tail(s)) \cup {Head(s)}
  <2> SUFFICES ASSUME NEW i \in 1 .. Len(s) PROVE s[i] \in Range(Tail(s)) \cup {Head(s)}
    BY <1>3
  <2>1. CASE i = 1
    BY <1>2, <2>1
  <2>2. CASE i - 1 \in 1 .. Len(s) - 1 /\ (i - 1) + 1 = i
    <3>1. Tail(s)[i - 1] = s[i]
      BY <1>1, <2>2
    <3> QED BY <1>4, <2>2, <3>1
  <2> QED BY <1>5, <2>1, <2>2
<1>8. \A x \in Range(Tail(s)) \cup {Head(s)} : x \in Range(s)
  BY <1>1, <1>2, <1>3, <1>4, <1>6
<1>9. 1 \in 1 .. Len(s)
  BY <1>2
<1>10. Head(s) \in Range(s)
  BY <1>2, <1>3, <1>9
<1> QED BY <1>1, <1>7, <1>8, <1>10

(* A packet that arrives is dropped, held or delivered, and nothing else   *)
(* moves.                                                                  *)
LEMMA ArriveMoves ==
  ASSUME NEW p \in Packet, Arrive(p)
  PROVE  \/ /\ dropped' = dropped \cup {p} /\ held' = held /\ delivered' = delivered
            /\ Blocked(p.frm, p.to) \/ state[p.to] = "crashed"
         \/ /\ held' = [held EXCEPT ![p.to] = Append(@, p)]
            /\ dropped' = dropped /\ delivered' = delivered
            /\ state[p.to] = "hung"
         \/ delivered' = delivered \cup {p} /\ held' = held /\ dropped' = dropped
<1>1. CASE Drop(p)
  BY <1>1 DEF Drop
<1>2. CASE Hold(p)
  BY <1>2 DEF Hold
<1>3. CASE Deliver(p)
  BY <1>3 DEF Deliver
<1> QED BY <1>1, <1>2, <1>3 DEF Arrive

(* An arrival keeps the types, and who holds what for whom.                *)
LEMMA ArriveKeeps ==
  ASSUME NetTypeOK, HeldOnlyWhileHung, HeldForItsNode, NEW p \in Packet, Arrive(p),
         flight' \in SUBSET flight, released' \in Seq(Packet), UNCHANGED <<sends, state, partition>>
  PROVE  NetTypeOK' /\ HeldOnlyWhileHung' /\ HeldForItsNode'
<1>1. /\ \/ held' = held
         \/ held' = [held EXCEPT ![p.to] = Append(@, p)] /\ state[p.to] = "hung"
      /\ dropped' \subseteq dropped \cup {p}
      /\ delivered' \subseteq delivered \cup {p}
  BY ArriveMoves
<1>2. p.to \in Node
  BY DEF Packet
<1>3. held \in [Node -> Seq(Packet)]
  BY DEF NetTypeOK
<1>4. /\ Append(held[p.to], p) \in Seq(Packet)
      /\ Range(Append(held[p.to], p)) = Range(held[p.to]) \cup {p}
  BY <1>2, <1>3, RangeOfAppend
<1>5. held' \in [Node -> Seq(Packet)]
  BY <1>1, <1>2, <1>3, <1>4
<1>6. NetTypeOK'
  BY <1>1, <1>5 DEF NetTypeOK
<1>7. \A n \in Node : \/ held'[n] = held[n]
                      \/ n = p.to /\ held'[n] = Append(held[n], p) /\ state[n] = "hung"
  BY <1>1, <1>2, <1>3
<1>8. HeldOnlyWhileHung'
  BY <1>7 DEF HeldOnlyWhileHung
<1>9. HeldForItsNode'
  BY <1>4, <1>7 DEF HeldForItsNode
<1> QED BY <1>6, <1>8, <1>9

(* Packets travel, and a partition comes or goes.                          *)
LEMMA TravelKeeps ==
  ASSUME NetTypeOK, HeldOnlyWhileHung, HeldForItsNode,
         (\E p \in flight : ArriveFromFlight(p)) \/ ArriveReleased
  PROVE  NetTypeOK' /\ HeldOnlyWhileHung' /\ HeldForItsNode'
<1>1. CASE \E p \in flight : ArriveFromFlight(p)
  <2>1. PICK p \in flight : ArriveFromFlight(p)
    BY <1>1
  <2>2. p \in Packet /\ released' \in Seq(Packet)
    BY <2>1 DEF NetTypeOK, ArriveFromFlight
  <2>3. Arrive(p) /\ flight' \in SUBSET flight /\ UNCHANGED <<sends, state, partition>>
    BY <2>1 DEF ArriveFromFlight
  <2> QED BY <2>2, <2>3, ArriveKeeps
<1>2. CASE ArriveReleased
  <2>1. released \in Seq(Packet) /\ released # << >>
    BY <1>2 DEF NetTypeOK, ArriveReleased
  <2>2. Head(released) \in Packet /\ Tail(released) \in Seq(Packet)
    BY <2>1, RangeOfTail
  <2>3. /\ Arrive(Head(released)) /\ released' = Tail(released)
        /\ flight' \in SUBSET flight /\ UNCHANGED <<sends, state, partition>>
    BY <1>2 DEF ArriveReleased
  <2> QED BY <2>2, <2>3, ArriveKeeps
<1> QED BY <1>1, <1>2

LEMMA PartitionKeeps ==
  ASSUME NetTypeOK, HeldOnlyWhileHung, HeldForItsNode,
         (\E p \in Partition : Split(p)) \/ Heal
  PROVE  NetTypeOK' /\ HeldOnlyWhileHung' /\ HeldForItsNode'
<1>1. /\ partition' \in Partition \cup {Nil}
      /\ UNCHANGED <<sends, flight, released, held, state, delivered, dropped>>
  BY DEF Split, Heal
<1>2. NetTypeOK'
  BY <1>1 DEF NetTypeOK
<1> QED BY <1>1, <1>2 DEF HeldOnlyWhileHung, HeldForItsNode

LEMMA SendKeeps ==
  ASSUME NetTypeOK, HeldOnlyWhileHung, HeldForItsNode,
         NEW n \in Node, NEW to \in Node, NetSend(n, to)
  PROVE  NetTypeOK' /\ HeldOnlyWhileHung' /\ HeldForItsNode'
<1>1. PICK new \in SUBSET Packet :
           /\ \/ dropped' = dropped \cup new /\ flight' = flight
              \/ flight' = flight \cup new /\ dropped' = dropped
           /\ sends' \in 0 .. MaxSends
           /\ UNCHANGED <<released, held, state, partition, delivered>>
  BY SendAdds
<1>2. NetTypeOK'
  BY <1>1 DEF NetTypeOK
<1> QED BY <1>1, <1>2 DEF HeldOnlyWhileHung, HeldForItsNode

-----------------------------------------------------------------------------
(* Who is up: one lemma per action of the injector and of the supervisor.  *)

LEMMA BeginKeeps ==
  ASSUME SInv, NEW n \in Node, NEW kind \in Kinds, Begin(n, kind)
  PROVE  SInv'
<1>1. NetTypeOK /\ HeldOnlyWhileHung /\ HeldForItsNode /\ kind \in {"crash", "hang"}
  BY KindsAssumption DEF SInv, TypeOK
<1>2. PICK s \in NodeState :
        /\ SetState(n, s)
        /\ s = "crashed" => kind = "crash"
        /\ kind = "crash" => SimNodeCrash(n)
        /\ kind # "crash" => UNCHANGED <<running, online>>
  BY DEF Begin, NodeState
<1>3. /\ episode' = [episode EXCEPT ![n] = kind] /\ outages < MaxOutages
      /\ outages' = outages + 1
      /\ UNCHANGED <<revive, splits, failures, sends, flight, partition, delivered, dropped>>
  BY DEF Begin, MayBegin
<1>4. NetTypeOK' /\ HeldOnlyWhileHung' /\ HeldForItsNode'
  BY <1>1, <1>2, <1>3, SetStateKeeps
<1>5. outages' \in 0 .. MaxOutages
  BY <1>3, FaultBounds DEF SInv, TypeOK
<1>6. /\ running' \in [Node -> BOOLEAN] /\ online' \in [Node -> BOOLEAN]
      /\ RunsOnItsDisk'
  BY <1>2 DEF SInv, TypeOK, SimNodeCrash, RunsOnItsDisk
<1>7. TypeOK' /\ VisitsForFailures'
  BY <1>3, <1>4, <1>5, <1>6 DEF SInv, TypeOK, VisitsForFailures
<1>8. state' = [state EXCEPT ![n] = s] /\ state \in [Node -> NodeState]
  BY <1>1, <1>2, SetStateMoves DEF NetTypeOK
<1>9. CrashedIsExpected'
  BY <1>2, <1>3, <1>8 DEF SInv, TypeOK, CrashedIsExpected
<1> QED BY <1>4, <1>6, <1>7, <1>9 DEF SInv

LEMMA EndKeeps ==
  ASSUME SInv, NEW n \in Node, End(n)
  PROVE  SInv'
<1>1. NetTypeOK /\ HeldOnlyWhileHung /\ HeldForItsNode /\ "running" \in NodeState
  BY DEF SInv, TypeOK, NodeState
<1>2. /\ SetState(n, "running") /\ episode' = [episode EXCEPT ![n] = Nil]
      /\ SimNodeRestart(n) \/ UNCHANGED <<running, online>>
      /\ UNCHANGED <<revive, outages, splits, failures, sends, flight, partition,
                     delivered, dropped>>
  BY DEF End
<1>3. NetTypeOK' /\ HeldOnlyWhileHung' /\ HeldForItsNode'
  BY <1>1, <1>2, SetStateKeeps
<1>4. /\ running' \in [Node -> BOOLEAN] /\ online' \in [Node -> BOOLEAN]
      /\ RunsOnItsDisk'
  BY <1>2 DEF SInv, TypeOK, SimNodeRestart, RunsOnItsDisk
<1>5. TypeOK' /\ VisitsForFailures'
  BY <1>2, <1>3, <1>4 DEF SInv, TypeOK, VisitsForFailures
<1>6. state' = [state EXCEPT ![n] = "running"] /\ state \in [Node -> NodeState]
  BY <1>1, <1>2, SetStateMoves DEF NetTypeOK
<1>7. CrashedIsExpected'
  BY <1>2, <1>6 DEF SInv, TypeOK, CrashedIsExpected
<1> QED BY <1>3, <1>4, <1>5, <1>7 DEF SInv

LEMMA SelfCrashKeeps ==
  ASSUME SInv, NEW n \in Node, SelfCrash(n)
  PROVE  SInv'
<1>1. NetTypeOK /\ HeldOnlyWhileHung /\ HeldForItsNode /\ "crashed" \in NodeState
  BY DEF SInv, TypeOK, NodeState
<1>2. /\ SetState(n, "crashed") /\ SimNodeCrash(n)
      /\ failures < MaxFailures /\ failures' = failures + 1
      /\ revive' = [revive EXCEPT ![n] = @ + 1]
      /\ UNCHANGED <<episode, outages, splits, sends, flight, partition, delivered, dropped>>
  BY DEF SelfCrash
<1>3. NetTypeOK' /\ HeldOnlyWhileHung' /\ HeldForItsNode'
  BY <1>1, <1>2, SetStateKeeps
<1>4. /\ running' \in [Node -> BOOLEAN] /\ online' \in [Node -> BOOLEAN]
      /\ RunsOnItsDisk'
  BY <1>2 DEF SInv, TypeOK, SimNodeCrash, RunsOnItsDisk
<1>5. /\ revive \in [Node -> 0 .. MaxFailures] /\ failures \in 0 .. MaxFailures
      /\ \A m \in Node : revive[m] <= failures
  BY DEF SInv, TypeOK, VisitsForFailures
<1>6. failures' \in 0 .. MaxFailures
  BY <1>2, <1>5, FaultBounds
<1>7. \A m \in Node : /\ revive'[m] \in 0 .. MaxFailures /\ revive'[m] <= failures'
                      /\ revive'[m] = IF m = n THEN revive[m] + 1 ELSE revive[m]
  BY <1>2, <1>5, FaultBounds
<1>8. revive' \in [Node -> 0 .. MaxFailures]
  BY <1>2, <1>5, <1>7
<1>9. TypeOK' /\ VisitsForFailures'
  BY <1>2, <1>3, <1>4, <1>6, <1>7, <1>8 DEF SInv, TypeOK, VisitsForFailures
<1>10. state' = [state EXCEPT ![n] = "crashed"] /\ state \in [Node -> NodeState]
  BY <1>1, <1>2, SetStateMoves DEF NetTypeOK
<1>11. \A m \in Node : revive'[m] > 0 \/ (m # n /\ revive'[m] = revive[m])
  BY <1>5, <1>7
<1>12. CrashedIsExpected'
  BY <1>2, <1>10, <1>11 DEF SInv, CrashedIsExpected
<1> QED BY <1>3, <1>4, <1>9, <1>12 DEF SInv

LEMMA ReviveKeeps ==
  ASSUME SInv, NEW n \in Node, Revive(n)
  PROVE  SInv'
<1>1. NetTypeOK /\ HeldOnlyWhileHung /\ HeldForItsNode /\ "running" \in NodeState
  BY DEF SInv, TypeOK, NodeState
<1>2. /\ revive[n] > 0 /\ revive' = [revive EXCEPT ![n] = @ - 1]
      /\ \/ state[n] = "crashed" /\ SimNodeRestart(n) /\ SetState(n, "running")
         \/ state[n] # "crashed" /\ UNCHANGED <<running, online, state, held, released>>
      /\ UNCHANGED <<episode, outages, splits, failures, sends, flight, partition,
                     delivered, dropped>>
  BY DEF Revive
<1>3. NetTypeOK' /\ HeldOnlyWhileHung' /\ HeldForItsNode'
  <2>1. CASE state[n] = "crashed"
    BY <1>1, <1>2, <2>1, SetStateKeeps
  <2>2. CASE state[n] # "crashed"
    BY <1>1, <1>2, <2>2 DEF NetTypeOK, HeldOnlyWhileHung, HeldForItsNode
  <2> QED BY <2>1, <2>2
<1>4. /\ running' \in [Node -> BOOLEAN] /\ online' \in [Node -> BOOLEAN]
      /\ RunsOnItsDisk'
  BY <1>2 DEF SInv, TypeOK, SimNodeRestart, RunsOnItsDisk
<1>5. /\ revive \in [Node -> 0 .. MaxFailures] /\ failures \in 0 .. MaxFailures
      /\ \A m \in Node : revive[m] <= failures
  BY DEF SInv, TypeOK, VisitsForFailures
<1>6. \A m \in Node : /\ revive'[m] \in 0 .. MaxFailures /\ revive'[m] <= failures
                      /\ m # n => revive'[m] = revive[m]
  BY <1>2, <1>5, FaultBounds
<1>7. revive' \in [Node -> 0 .. MaxFailures]
  BY <1>2, <1>5, <1>6
<1>8. TypeOK' /\ VisitsForFailures'
  BY <1>2, <1>3, <1>4, <1>6, <1>7 DEF SInv, TypeOK, VisitsForFailures
<1>9. state'[n] # "crashed" /\ \A m \in Node : m # n => state'[m] = state[m]
  <2>1. CASE state[n] = "crashed"
    BY <1>1, <1>2, <2>1, SetStateMoves DEF NetTypeOK
  <2>2. CASE state[n] # "crashed"
    BY <1>2, <2>2
  <2> QED BY <2>1, <2>2
<1>10. CrashedIsExpected'
  BY <1>2, <1>6, <1>9 DEF SInv, CrashedIsExpected
<1> QED BY <1>3, <1>4, <1>8, <1>10 DEF SInv

(* Every step keeps the first invariant.                                   *)
LEMMA SInvKept ==
  ASSUME SInv, [Next]_vars
  PROVE  SInv'
<1> USE DEF SInv
<1>1. NetTypeOK /\ HeldOnlyWhileHung /\ HeldForItsNode
  BY DEF TypeOK
<1>2. ASSUME NetTypeOK', HeldOnlyWhileHung', HeldForItsNode',
             UNCHANGED <<running, online, episode, revive, outages, failures, state>>,
             splits' \in 0 .. MaxSplits
      PROVE  SInv'
  BY <1>2 DEF TypeOK, VisitsForFailures, RunsOnItsDisk, CrashedIsExpected
<1>3. CASE StartPartition
  <2>1. /\ UNCHANGED <<running, online, episode, revive, outages, failures, state>>
        /\ splits' \in 0 .. MaxSplits
    BY <1>3, FaultBounds DEF StartPartition, MaySplit, Split, TypeOK
  <2>2. \E p \in Partition : Split(p)
    <3>1. Drawn \subseteq Partition
      BY DEF Drawn, Partition
    <3> QED BY <1>3, <3>1 DEF StartPartition
  <2> QED BY <1>1, <1>2, <2>1, <2>2, PartitionKeeps
<1>4. CASE EndPartition
  <2>1. /\ UNCHANGED <<running, online, episode, revive, outages, failures, state>>
        /\ splits' \in 0 .. MaxSplits
    BY <1>4 DEF EndPartition, Heal, lifeVars, TypeOK
  <2>2. Heal
    BY <1>4 DEF EndPartition
  <2> QED BY <1>1, <1>2, <2>1, <2>2, PartitionKeeps
<1>5. CASE Travel
  <2>1. /\ UNCHANGED <<running, online, episode, revive, outages, failures, state>>
        /\ splits' \in 0 .. MaxSplits
    BY <1>5 DEF Travel, ArriveFromFlight, ArriveReleased, lifeVars, TypeOK
  <2>2. (\E p \in flight : ArriveFromFlight(p)) \/ ArriveReleased
    BY <1>5 DEF Travel
  <2> QED BY <1>1, <1>2, <2>1, <2>2, TravelKeeps
<1>6. ASSUME NEW n \in Node, NEW to \in Node, Sends(n, to) PROVE SInv'
  <2>1. /\ UNCHANGED <<running, online, episode, revive, outages, failures, state>>
        /\ splits' \in 0 .. MaxSplits
    BY <1>6 DEF Sends, NetSend, lifeVars, TypeOK
  <2>2. NetSend(n, to)
    BY <1>6 DEF Sends
  <2> QED BY <1>1, <1>2, <2>1, <2>2, SendKeeps
<1>7. CASE UNCHANGED vars
  BY <1>1, <1>2, <1>7
     DEF vars, netVars, lifeVars, TypeOK, NetTypeOK, HeldOnlyWhileHung, HeldForItsNode
<1> QED BY <1>3, <1>4, <1>5, <1>6, <1>7, BeginKeeps, EndKeeps, SelfCrashKeeps, ReviveKeeps DEF Next

LEMMA SInvInit == Init => SInv
<1> SUFFICES ASSUME Init PROVE SInv
  OBVIOUS
<1>1. << >> \in Seq(Packet) /\ Range(<< >>) = {}
  BY DEF Range
<1>2. NetTypeOK
  BY <1>1, SendsAssumption DEF Init, NetInit, NetTypeOK, NodeState
<1>3. TypeOK /\ VisitsForFailures
  BY <1>2, FaultBounds DEF Init, TypeOK, VisitsForFailures
<1>4. RunsOnItsDisk /\ CrashedIsExpected /\ HeldOnlyWhileHung
  BY DEF Init, NetInit, RunsOnItsDisk, CrashedIsExpected, HeldOnlyWhileHung
<1>5. HeldForItsNode
  BY <1>1 DEF Init, NetInit, HeldForItsNode
<1> QED BY <1>3, <1>4, <1>5 DEF SInv

LEMMA SInvHolds == Spec => []SInv
BY SInvInit, SInvKept, PTL DEF Spec

(* Supervision keeps its types: in particular no more visits of the        *)
(* supervisor are ever due than writes have failed.                        *)
THEOREM SupervisionTypeCorrect == Spec => []TypeOK
<1>1. SInv => TypeOK
  BY DEF SInv
<1> QED BY <1>1, SInvHolds, PTL

(* A node runs exactly while its disk is online, however the visits of the *)
(* fault injector and of the supervisor fall (sim/faults.py, world.py).    *)
THEOREM NodesRunOnTheirDisks == Spec => []RunsOnItsDisk
<1>1. SInv => RunsOnItsDisk
  BY DEF SInv
<1> QED BY <1>1, SInvHolds, PTL

(* Whoever the network has as crashed will be visited: its outage has an   *)
(* end to come, or the supervisor is due.                                  *)
THEOREM CrashesAreExpected == Spec => []CrashedIsExpected
<1>1. SInv => CrashedIsExpected
  BY DEF SInv
<1> QED BY <1>1, SInvHolds, PTL

(* Only a hung node has packets waiting: the buffer of a node that crashed *)
(* while it was hung, or woke, is empty (net.py, set_state).               *)
THEOREM OnlyTheHungAreHeldFor == Spec => []HeldOnlyWhileHung
<1>1. SInv => HeldOnlyWhileHung
  BY DEF SInv
<1> QED BY <1>1, SInvHolds, PTL

-----------------------------------------------------------------------------
(* Where packets are.                                                      *)

LEMMA InUnionOfRanges ==
  ASSUME NEW h, NEW r, NEW p
  PROVE  p \in (UNION {Range(h[n]) : n \in Node}) \cup Range(r)
           <=> p \in Range(r) \/ \E n \in Node : p \in Range(h[n])
<1> DEFINE all == {Range(h[n]) : n \in Node}
<1>1. \A n \in Node : Range(h[n]) \in all
  OBVIOUS
<1>2. \A s \in all : \E n \in Node : s = Range(h[n])
  OBVIOUS
<1> HIDE DEF all
<1>3. p \in UNION all <=> \E s \in all : p \in s
  OBVIOUS
<1>4. ASSUME NEW n \in Node, p \in Range(h[n]) PROVE p \in UNION all
  BY <1>1, <1>3, <1>4
<1>5. ASSUME p \in UNION all PROVE \E n \in Node : p \in Range(h[n])
  BY <1>2, <1>3, <1>5
<1>6. p \in UNION all <=> \E n \in Node : p \in Range(h[n])
  BY <1>4, <1>5
<1>7. p \in (UNION all) \cup Range(r) <=> p \in Range(r) \/ \E n \in Node : p \in Range(h[n])
  BY <1>6
<1> QED BY <1>7 DEF all

LEMMA WaitingIs ==
  ASSUME NEW p
  PROVE  /\ p \in Waiting <=> p \in Range(released) \/ \E n \in Node : p \in Range(held[n])
         /\ p \in Waiting' <=> p \in Range(released') \/ \E n \in Node : p \in Range(held'[n])
<1>1. p \in Waiting <=> p \in Range(released) \/ \E n \in Node : p \in Range(held[n])
  BY ONLY InUnionOfRanges DEF Waiting
<1>2. p \in Waiting' <=> p \in Range(released') \/ \E n \in Node : p \in Range(held'[n])
  BY ONLY InUnionOfRanges DEF Waiting
<1> QED BY <1>1, <1>2

(* Sequences without a repeat, put together and taken apart.               *)
LEMMA NoRepeatConcat ==
  ASSUME NEW S, NEW s \in Seq(S), NEW t \in Seq(S),
         NoRepeat(s), NoRepeat(t), Apart(Range(s), Range(t))
  PROVE  NoRepeat(s \o t)
<1> DEFINE c == s \o t
<1>1. /\ c \in Seq(S) /\ Len(c) = Len(s) + Len(t)
      /\ \A i \in 1 .. Len(s) + Len(t) : c[i] = IF i <= Len(s) THEN s[i] ELSE t[i - Len(s)]
  BY ConcatProperties
<1>2. Len(s) \in Nat /\ Len(t) \in Nat
  OBVIOUS
<1>3. DOMAIN c = 1 .. Len(s) + Len(t) /\ DOMAIN s = 1 .. Len(s) /\ DOMAIN t = 1 .. Len(t)
  BY <1>1
<1> HIDE DEF c
<1>4. Range(s) = {s[i] : i \in 1 .. Len(s)} /\ Range(t) = {t[i] : i \in 1 .. Len(t)}
  BY RangeEquality
<1>5. ASSUME NEW i \in DOMAIN c, NEW j \in DOMAIN c, Key(c[i]) = Key(c[j])
      PROVE  i = j
  <2>1. CASE i <= Len(s) /\ j <= Len(s)
    <3>1. i \in DOMAIN s /\ j \in DOMAIN s /\ c[i] = s[i] /\ c[j] = s[j]
      BY <1>1, <1>2, <1>3, <2>1
    <3> QED BY <1>5, <3>1 DEF NoRepeat
  <2>2. CASE i > Len(s) /\ j > Len(s)
    <3>1. /\ i - Len(s) \in DOMAIN t /\ j - Len(s) \in DOMAIN t
          /\ c[i] = t[i - Len(s)] /\ c[j] = t[j - Len(s)]
      BY <1>1, <1>2, <1>3, <2>2
    <3>2. i - Len(s) = j - Len(s)
      BY <1>5, <3>1 DEF NoRepeat
    <3> QED BY <1>2, <1>3, <3>2
  <2>3. CASE i <= Len(s) /\ j > Len(s)
    <3>1. i \in 1 .. Len(s) /\ j - Len(s) \in 1 .. Len(t) /\ c[i] = s[i] /\ c[j] = t[j - Len(s)]
      BY <1>1, <1>2, <1>3, <2>3
    <3>2. c[i] \in Range(s) /\ c[j] \in Range(t)
      BY <1>4, <3>1
    <3> QED BY <1>5, <3>2 DEF Apart
  <2>4. CASE i > Len(s) /\ j <= Len(s)
    <3>1. j \in 1 .. Len(s) /\ i - Len(s) \in 1 .. Len(t) /\ c[j] = s[j] /\ c[i] = t[i - Len(s)]
      BY <1>1, <1>2, <1>3, <2>4
    <3>2. c[j] \in Range(s) /\ c[i] \in Range(t)
      BY <1>4, <3>1
    <3> QED BY <1>5, <3>2 DEF Apart
  <2> QED BY <1>2, <1>3, <2>1, <2>2, <2>3, <2>4
<1>6. NoRepeat(c)
  BY <1>5 DEF NoRepeat
<1> QED BY <1>6 DEF c

LEMMA NoRepeatAppend ==
  ASSUME NEW S, NEW s \in Seq(S), NEW x \in S, NoRepeat(s), Apart({x}, Range(s))
  PROVE  NoRepeat(Append(s, x))
<1>1. <<x>> \in Seq(S) /\ Append(s, x) = s \o <<x>>
  OBVIOUS
<1>2. DOMAIN <<x>> = {1} /\ Range(<<x>>) = {x}
  BY DEF Range
<1>3. NoRepeat(<<x>>)
  BY <1>2 DEF NoRepeat
<1>4. Apart(Range(s), Range(<<x>>))
  BY <1>2 DEF Apart
<1> QED BY <1>1, <1>3, <1>4, NoRepeatConcat

LEMMA NoRepeatTail ==
  ASSUME NEW S, NEW s \in Seq(S), s # << >>, NoRepeat(s)
  PROVE  NoRepeat(Tail(s)) /\ Apart({Head(s)}, Range(Tail(s)))
<1>1. /\ Tail(s) \in Seq(S) /\ Len(Tail(s)) = Len(s) - 1
      /\ \A i \in 1 .. Len(Tail(s)) : Tail(s)[i] = s[i + 1]
  BY HeadTailProperties
<1>2. Len(s) \in Nat /\ Len(s) > 0 /\ Head(s) = s[1] /\ DOMAIN s = 1 .. Len(s)
  OBVIOUS
<1>3. DOMAIN Tail(s) = 1 .. Len(s) - 1
  BY <1>1
<1>4. \A i \in DOMAIN Tail(s) : i + 1 \in DOMAIN s /\ Tail(s)[i] = s[i + 1] /\ i + 1 # 1
  BY <1>1, <1>2, <1>3
<1>5. 1 \in DOMAIN s
  BY <1>2
<1>6. NoRepeat(Tail(s))
  <2> SUFFICES ASSUME NEW i \in DOMAIN Tail(s), NEW j \in DOMAIN Tail(s),
                      Key(Tail(s)[i]) = Key(Tail(s)[j])
               PROVE  i = j
    BY DEF NoRepeat
  <2>1. i + 1 = j + 1
    BY <1>4 DEF NoRepeat
  <2> QED BY <1>3, <2>1
<1>7. \A p \in Range(Tail(s)) : \E i \in DOMAIN Tail(s) : p = Tail(s)[i]
  BY DEF Range
<1>8. ASSUME NEW p \in Range(Tail(s)), Key(Head(s)) = Key(p)
      PROVE  FALSE
  <2>1. PICK i \in DOMAIN Tail(s) : p = Tail(s)[i]
    BY <1>7
  <2>2. i + 1 \in DOMAIN s /\ p = s[i + 1] /\ i + 1 # 1
    BY <1>4, <2>1
  <2>3. Key(s[1]) = Key(s[i + 1])
    BY <1>2, <1>8, <2>2
  <2> QED BY <1>5, <2>2, <2>3 DEF NoRepeat
<1>9. Apart({Head(s)}, Range(Tail(s)))
  BY <1>8 DEF Apart
<1> QED BY <1>6, <1>9

(* To set a state moves what was held to the burst, or throws it away.     *)
LEMMA SetStatePlaces ==
  ASSUME NetTypeOK, HeldOnlyWhileHung, OInv,
         NEW n \in Node, NEW s \in NodeState, SetState(n, s),
         UNCHANGED <<sends, flight, partition, delivered, dropped>>
  PROVE  OInv'
<1>1. /\ held' = [held EXCEPT ![n] = << >>]
      /\ released' = released \/ released' = released \o held[n]
  BY SetStateMoves
<1>2. held \in [Node -> Seq(Packet)] /\ released \in Seq(Packet) /\ held[n] \in Seq(Packet)
  BY DEF NetTypeOK
<1>3. NoRepeat(released \o held[n])
  <2>1. Apart(Range(released), Range(held[n]))
    BY DEF OInv, Apart
  <2>2. NoRepeat(released) /\ NoRepeat(held[n])
    BY DEF OInv
  <2> QED BY <1>2, <2>1, <2>2, NoRepeatConcat
<1>4. Range(released \o held[n]) = Range(released) \cup Range(held[n])
  BY <1>2, RangeConcatenation
<1>5. NoRepeat(released') /\ Range(released') \subseteq Range(released) \cup Range(held[n])
  <2>1. NoRepeat(released)
    BY DEF OInv
  <2> QED BY <1>1, <1>3, <1>4, <2>1
<1>6. Range(<< >>) = {} /\ NoRepeat(<< >>)
  BY DEF Range, NoRepeat
<1>7. \A m \in Node : \/ m = n /\ held'[m] = << >>
                      \/ m # n /\ held'[m] = held[m]
  BY <1>1, <1>2
<1>8. \A m \in Node : NoRepeat(held'[m]) /\ Range(held'[m]) \subseteq Range(held[m])
  BY <1>6, <1>7 DEF OInv
<1>9. \A m \in Node : Apart(Range(held'[m]), Range(released'))
  <2> SUFFICES ASSUME NEW m \in Node, NEW p \in Range(held'[m]), NEW q \in Range(released')
               PROVE  Key(p) # Key(q)
    BY DEF Apart
  <2>1. m # n /\ p \in Range(held[m])
    BY <1>6, <1>7
  <2>2. q \in Range(released) \/ q \in Range(held[n])
    BY <1>5
  <2> QED BY <2>1, <2>2 DEF OInv, Apart
<1>10. \A k, m \in Node : k # m => Apart(Range(held'[k]), Range(held'[m]))
  BY <1>8 DEF OInv, Apart
<1>11. \A p \in Waiting' : p \in Waiting
  <2> SUFFICES ASSUME NEW p, p \in Waiting' PROVE p \in Waiting
    OBVIOUS
  <2>1. p \in Range(released') \/ \E m \in Node : p \in Range(held'[m])
    BY WaitingIs
  <2>2. p \in Range(released) \/ \E m \in Node : p \in Range(held[m])
    BY <1>5, <1>8, <2>1
  <2> QED BY <2>2, WaitingIs
<1>12. /\ Apart(Waiting', flight) /\ Apart(Waiting', delivered) /\ Apart(Waiting', dropped)
       /\ \A p \in flight \cup delivered \cup dropped \cup Waiting' : p.id <= sends
  BY <1>11 DEF OInv, Apart
<1> QED BY <1>5, <1>8, <1>9, <1>10, <1>12 DEF OInv

(* What is sent now bears a number of its own.                             *)
LEMMA SendPlaces ==
  ASSUME NetTypeOK, OInv, NEW n \in Node, NEW to \in Node, NetSend(n, to)
  PROVE  OInv'
<1>1. PICK new \in SUBSET Packet :
           /\ \A p \in new : p.id = sends'
           /\ \A p, q \in new : Key(p) = Key(q) => p = q
           /\ \/ dropped' = dropped \cup new /\ flight' = flight
              \/ flight' = flight \cup new /\ dropped' = dropped
           /\ sends' = sends + 1
           /\ UNCHANGED <<released, held, state, partition, delivered>>
  BY SendAdds
<1> DEFINE old == flight \cup delivered \cup dropped \cup Waiting
<1>2. \A p \in old : p \in Packet /\ p.id <= sends
  <2>1. \A p \in old : p.id <= sends
    BY DEF OInv
  <2>2. \A p \in Waiting : p \in Packet
    <3> SUFFICES ASSUME NEW p \in Waiting PROVE p \in Packet
      OBVIOUS
    <3>1. p \in Range(released) \/ \E m \in Node : p \in Range(held[m])
      BY WaitingIs
    <3>2. Range(released) \subseteq Packet /\ \A m \in Node : Range(held[m]) \subseteq Packet
      BY RangeOfSeq DEF NetTypeOK
    <3> QED BY <3>1, <3>2
  <2> QED BY <2>1, <2>2 DEF NetTypeOK
<1>3. sends \in Nat
  BY DEF NetTypeOK
<1>4. \A p \in old, q \in new : Key(p) # Key(q)
  <2> SUFFICES ASSUME NEW p \in old, NEW q \in new, Key(p) = Key(q) PROVE FALSE
    OBVIOUS
  <2>1. p.id = q.id
    BY DEF Key
  <2>2. p.id \in Nat /\ p.id <= sends /\ q.id = sends + 1
    BY <1>1, <1>2 DEF Packet
  <2> QED BY <1>3, <2>1, <2>2
<1>5. Waiting' = Waiting
  BY <1>1 DEF Waiting
<1>6. \A p \in old \cup new : p.id <= sends'
  <2>1. \A p \in old : p.id <= sends + 1
    BY <1>2, <1>3 DEF Packet
  <2> QED BY <1>1, <1>3, <2>1
<1>7. \A p \in flight' \cup delivered' \cup dropped' \cup Waiting' : p.id <= sends'
  BY <1>1, <1>5, <1>6
<1>8. /\ \A p \in flight \cup delivered \cup dropped \cup Waiting, q \in new :
           Key(p) # Key(q) /\ Key(q) # Key(p)
  BY <1>4
<1>9. Distinct(flight') /\ Distinct(delivered') /\ Distinct(dropped')
  BY <1>1, <1>8 DEF OInv, Distinct
<1>10. Apart(flight', delivered') /\ Apart(flight', dropped') /\ Apart(delivered', dropped')
  BY <1>1, <1>8 DEF OInv, Apart
<1>11. Apart(Waiting', flight') /\ Apart(Waiting', delivered') /\ Apart(Waiting', dropped')
  BY <1>1, <1>5, <1>8 DEF OInv, Apart
<1> QED BY <1>1, <1>7, <1>9, <1>10, <1>11 DEF OInv

(* A packet taken from its place, and put where it belongs.                *)
LEMMA ArrivePlaces ==
  ASSUME NetTypeOK, OInv, NEW p \in Packet, Arrive(p), p.id <= sends,
         flight' \in SUBSET flight, released' \in Seq(Packet), NoRepeat(released'),
         Range(released') \subseteq Range(released), UNCHANGED sends,
         Apart({p}, flight'), Apart({p}, delivered), Apart({p}, dropped),
         Apart({p}, Range(released')), \A n \in Node : Apart({p}, Range(held[n]))
  PROVE  OInv'
<1>1. \/ /\ dropped' = dropped \cup {p} /\ held' = held /\ delivered' = delivered
      \/ /\ held' = [held EXCEPT ![p.to] = Append(@, p)]
         /\ dropped' = dropped /\ delivered' = delivered
      \/ delivered' = delivered \cup {p} /\ held' = held /\ dropped' = dropped
  BY ArriveMoves
<1>2. p.to \in Node /\ held \in [Node -> Seq(Packet)]
  BY DEF Packet, NetTypeOK
<1>3. /\ \A q \in Waiting : q.id <= sends
      /\ Apart(Waiting, flight) /\ Apart(Waiting, delivered) /\ Apart(Waiting, dropped)
      /\ \A q \in flight \cup delivered \cup dropped : q.id <= sends
  BY DEF OInv
<1>4. CASE held' = held
  <2>1. \A q : q \in Waiting' => q \in Waiting /\ Key(p) # Key(q)
    <3> SUFFICES ASSUME NEW q, q \in Waiting' PROVE q \in Waiting /\ Key(p) # Key(q)
      OBVIOUS
    <3>1. q \in Range(released') \/ \E n \in Node : q \in Range(held[n])
      BY <1>4, WaitingIs
    <3>2. q \in Range(released) \/ \E n \in Node : q \in Range(held[n])
      BY <3>1
    <3>3. q \in Waiting
      BY <3>2, WaitingIs
    <3>4. Key(p) # Key(q)
      BY <3>1 DEF Apart
    <3> QED BY <3>3, <3>4
  <2>2. \A n \in Node : /\ NoRepeat(held'[n])
                        /\ Apart(Range(held'[n]), Range(released'))
    BY <1>4 DEF OInv, Apart
  <2>3. \A m, n \in Node : m # n => Apart(Range(held'[m]), Range(held'[n]))
    BY <1>4 DEF OInv
  <2>4. \/ dropped' = dropped \cup {p} /\ delivered' = delivered
        \/ delivered' = delivered \cup {p} /\ dropped' = dropped
        \/ delivered' = delivered /\ dropped' = dropped
    BY <1>1
  <2>5. Distinct(flight') /\ Distinct(delivered') /\ Distinct(dropped')
    BY <2>4 DEF OInv, Distinct, Apart
  <2>6. Apart(flight', delivered') /\ Apart(flight', dropped') /\ Apart(delivered', dropped')
    BY <2>4 DEF OInv, Apart
  <2>7. Apart(Waiting', flight') /\ Apart(Waiting', delivered') /\ Apart(Waiting', dropped')
    BY <1>3, <2>1, <2>4 DEF Apart
  <2>8. \A q \in flight' \cup delivered' \cup dropped' \cup Waiting' : q.id <= sends'
    BY <1>3, <2>1, <2>4
  <2> QED BY <2>2, <2>3, <2>5, <2>6, <2>7, <2>8 DEF OInv
<1>5. CASE /\ held' = [held EXCEPT ![p.to] = Append(@, p)]
           /\ dropped' = dropped /\ delivered' = delivered
  <2>1. /\ Append(held[p.to], p) \in Seq(Packet)
        /\ Range(Append(held[p.to], p)) = Range(held[p.to]) \cup {p}
    BY <1>2, RangeOfAppend
  <2>2. NoRepeat(Append(held[p.to], p))
    BY <1>2, NoRepeatAppend DEF OInv
  <2>3. \A n \in Node : \/ n # p.to /\ held'[n] = held[n]
                        \/ n = p.to /\ held'[n] = Append(held[n], p)
    BY <1>2, <1>5
  <2>4. \A n \in Node : \/ n # p.to /\ Range(held'[n]) = Range(held[n])
                        \/ n = p.to /\ Range(held'[n]) = Range(held[n]) \cup {p}
    BY <2>1, <2>3
  <2>5. \A n \in Node : NoRepeat(held'[n])
    BY <2>2, <2>3 DEF OInv
  <2>6. \A n \in Node : Apart(Range(held'[n]), Range(released'))
    BY <2>4 DEF OInv, Apart
  <2>7. \A m, n \in Node : m # n => Apart(Range(held'[m]), Range(held'[n]))
    <3> SUFFICES ASSUME NEW m \in Node, NEW n \in Node, m # n,
                        NEW q \in Range(held'[m]), NEW r \in Range(held'[n])
                 PROVE  Key(q) # Key(r)
      BY DEF Apart
    <3>1. q \in Range(held[m]) \/ (m = p.to /\ q = p)
      BY <2>4
    <3>2. r \in Range(held[n]) \/ (n = p.to /\ r = p)
      BY <2>4
    <3> QED BY <3>1, <3>2 DEF OInv, Apart
  <2>8. \A q : q \in Waiting' => q \in Waiting \/ q = p
    <3> SUFFICES ASSUME NEW q, q \in Waiting' PROVE q \in Waiting \/ q = p
      OBVIOUS
    <3>1. q \in Range(released') \/ \E n \in Node : q \in Range(held'[n])
      BY WaitingIs
    <3>2. q = p \/ q \in Range(released) \/ \E n \in Node : q \in Range(held[n])
      BY <2>4, <3>1
    <3> QED BY <3>2, WaitingIs
  <2>9. Distinct(flight') /\ Apart(flight', delivered) /\ Apart(flight', dropped)
    BY DEF OInv, Distinct, Apart
  <2>10. Apart(Waiting', flight') /\ Apart(Waiting', delivered) /\ Apart(Waiting', dropped)
    BY <1>3, <2>8 DEF Apart
  <2>11. \A q \in flight' \cup delivered \cup dropped \cup Waiting' : q.id <= sends'
    BY <1>3, <2>8
  <2> QED BY <1>5, <2>5, <2>6, <2>7, <2>9, <2>10, <2>11 DEF OInv
<1> QED BY <1>1, <1>4, <1>5

LEMMA TravelPlaces ==
  ASSUME NetTypeOK, OInv, (\E p \in flight : ArriveFromFlight(p)) \/ ArriveReleased
  PROVE  OInv'
<1>1. \A n \in Node : \A q \in Range(held[n]) : q \in Waiting
  BY WaitingIs
<1>2. \A q \in Range(released) : q \in Waiting
  BY WaitingIs
<1>3. CASE \E p \in flight : ArriveFromFlight(p)
  <2>1. PICK p \in flight : ArriveFromFlight(p)
    BY <1>3
  <2>2. /\ flight' = flight \ {p} /\ Arrive(p)
        /\ sends' = sends /\ released' = released
    BY <2>1 DEF ArriveFromFlight
  <2>3. p \in Packet /\ released \in Seq(Packet)
    BY DEF NetTypeOK
  <2>4. p.id <= sends /\ NoRepeat(released)
    BY DEF OInv
  <2>5. Apart({p}, flight') /\ Apart({p}, delivered) /\ Apart({p}, dropped)
    BY <2>2 DEF OInv, Apart, Distinct
  <2>6. \A q \in Waiting : Key(p) # Key(q)
    BY DEF OInv, Apart
  <2>7. Apart({p}, Range(released)) /\ \A n \in Node : Apart({p}, Range(held[n]))
    BY <1>1, <1>2, <2>6 DEF Apart
  <2> QED BY <2>2, <2>3, <2>4, <2>5, <2>7, ArrivePlaces
<1>4. CASE ArriveReleased
  <2>1. PICK p : p = Head(released)
    OBVIOUS
  <2>2. /\ released # << >> /\ released' = Tail(released) /\ Arrive(p)
        /\ flight' = flight /\ sends' = sends
    BY <1>4, <2>1 DEF ArriveReleased
  <2>3. released \in Seq(Packet) /\ NoRepeat(released)
    BY DEF OInv, NetTypeOK
  <2>4. /\ p \in Range(released) /\ p \in Packet
        /\ Tail(released) \in Seq(Packet)
        /\ Range(released) = Range(Tail(released)) \cup {p}
    BY <2>1, <2>2, <2>3, RangeOfTail
  <2>5. NoRepeat(Tail(released)) /\ Apart({p}, Range(Tail(released)))
    BY <2>1, <2>2, <2>3, NoRepeatTail
  <2>6. p \in Waiting
    BY <1>2, <2>4
  <2>7. /\ p.id <= sends
        /\ Apart({p}, flight) /\ Apart({p}, delivered) /\ Apart({p}, dropped)
    BY <2>6 DEF OInv, Apart
  <2>8. \A n \in Node : Apart({p}, Range(held[n]))
    BY <2>4 DEF OInv, Apart
  <2> QED BY <2>2, <2>4, <2>5, <2>7, <2>8, ArrivePlaces
<1> QED BY <1>3, <1>4

LEMMA OInvKept ==
  ASSUME SInv, OInv, [Next]_vars
  PROVE  OInv'
<1>1. NetTypeOK /\ HeldOnlyWhileHung
  BY DEF SInv, TypeOK
<1>2. ASSUME UNCHANGED <<sends, flight, released, held, delivered, dropped>> PROVE OInv'
  <2>1. Waiting' = Waiting
    BY <1>2 DEF Waiting
  <2> QED BY <1>2, <2>1 DEF OInv
<1>3. ASSUME NEW n \in Node, NEW s \in NodeState, SetState(n, s),
             UNCHANGED <<sends, flight, partition, delivered, dropped>>
      PROVE  OInv'
  BY <1>1, <1>3, SetStatePlaces
<1>4. CASE StartPartition \/ EndPartition
  BY <1>2, <1>4 DEF StartPartition, EndPartition, Split, Heal
<1>5. CASE Travel
  BY <1>1, <1>5, TravelPlaces DEF Travel
<1>6. ASSUME NEW n \in Node, NEW kind \in Kinds, Begin(n, kind) PROVE OInv'
  <2>1. UNCHANGED <<sends, flight, partition, delivered, dropped>>
    BY <1>6 DEF Begin
  <2>2. \E s \in NodeState : SetState(n, s)
    BY <1>6 DEF Begin, NodeState
  <2> QED BY <1>3, <2>1, <2>2
<1>7. ASSUME NEW n \in Node, End(n) \/ SelfCrash(n) PROVE OInv'
  <2>1. UNCHANGED <<sends, flight, partition, delivered, dropped>>
    BY <1>7 DEF End, SelfCrash
  <2>2. \E s \in NodeState : SetState(n, s)
    BY <1>7 DEF End, SelfCrash, NodeState
  <2> QED BY <1>3, <2>1, <2>2
<1>8. ASSUME NEW n \in Node, Revive(n) PROVE OInv'
  <2>1. CASE state[n] = "crashed"
    <3>1. /\ SetState(n, "running") /\ "running" \in NodeState
          /\ UNCHANGED <<sends, flight, partition, delivered, dropped>>
      BY <1>8, <2>1 DEF Revive, NodeState
    <3> QED BY <1>3, <3>1
  <2>2. CASE state[n] # "crashed"
    BY <1>2, <1>8, <2>2 DEF Revive
  <2> QED BY <2>1, <2>2
<1>9. ASSUME NEW n \in Node, NEW to \in Node, Sends(n, to) PROVE OInv'
  BY <1>1, <1>9, SendPlaces DEF Sends
<1>10. CASE UNCHANGED vars
  BY <1>2, <1>10 DEF vars, netVars
<1> QED BY <1>4, <1>5, <1>6, <1>7, <1>8, <1>9, <1>10 DEF Next

LEMMA OInvInit == Init => OInv
<1> SUFFICES ASSUME Init PROVE OInv
  OBVIOUS
<1>1. Range(<< >>) = {} /\ NoRepeat(<< >>)
  BY DEF Range, NoRepeat
<1>2. /\ flight = {} /\ delivered = {} /\ dropped = {} /\ released = << >>
      /\ \A n \in Node : held[n] = << >>
  BY DEF Init, NetInit
<1>3. \A p : p \notin Waiting
  BY <1>1, <1>2, WaitingIs
<1>4. \A n \in Node : Range(held[n]) = {} /\ NoRepeat(held[n])
  BY <1>1, <1>2
<1>5. /\ \A p \in flight \cup delivered \cup dropped \cup Waiting : p.id <= sends
      /\ Apart(Waiting, flight) /\ Apart(Waiting, delivered) /\ Apart(Waiting, dropped)
  BY <1>2, <1>3 DEF Apart
<1> QED BY <1>1, <1>2, <1>4, <1>5 DEF OInv, Distinct, Apart

LEMMA OInvHolds == Spec => []OInv
BY SInvHolds, OInvInit, OInvKept, PTL DEF Spec

-----------------------------------------------------------------------------
(* A set whose members are all the same has one at most.                   *)
LEMMA AtMostOne ==
  ASSUME NEW S, \A a, b \in S : a = b
  PROVE  \/ S = {} /\ Cardinality(S) = 0
         \/ S # {} /\ Cardinality(S) = 1
<1>1. CASE S = {}
  BY <1>1, FS_EmptySet
<1>2. CASE S # {}
  <2>1. PICK a : a \in S
    BY <1>2
  <2>2. S = {a}
    BY <2>1
  <2>3. Cardinality({a}) = 1
    BY FS_Singleton
  <2> QED BY <1>2, <2>2, <2>3
<1> QED BY <1>1, <1>2

(* Every copy of a message is in one place at most: on its way, in one     *)
(* buffer, in one burst, delivered or dropped, so however often a node     *)
(* hangs and wakes it gets no message more often than the network sent it. *)
THEOREM OnePlaceForEach == Spec => []OnePlaceEach
<1>1. ASSUME OInv, NEW k \in (1 .. sends) \X BOOLEAN PROVE Places(k) <= 1
  <2> DEFINE A == {p \in flight : Key(p) = k}
             B == {i \in DOMAIN released : Key(released[i]) = k}
             C == {x \in Node \X (1 .. MaxSends * 2) :
                     x[2] \in DOMAIN held[x[1]] /\ Key(held[x[1]][x[2]]) = k}
             D == {p \in delivered : Key(p) = k}
             E == {p \in dropped : Key(p) = k}
  <2>1. Places(k) = Cardinality(A) + Cardinality(B) + Cardinality(C)
                      + Cardinality(D) + Cardinality(E)
    BY DEF Places
  <2>2. \A i \in B : released[i] \in Range(released) /\ Key(released[i]) = k
    BY DEF Range
  <2>3. \A x \in C : /\ x[1] \in Node /\ held[x[1]][x[2]] \in Range(held[x[1]])
                     /\ Key(held[x[1]][x[2]]) = k
    BY DEF Range
  <2>4. \A p, q \in A : p = q
    BY <1>1 DEF OInv, Distinct
  <2>5. \A i, j \in B : i = j
    BY <1>1 DEF OInv, NoRepeat
  <2>6. ASSUME NEW x \in C, NEW y \in C PROVE x = y
    <3>1. x[1] = y[1]
      BY <1>1, <2>3 DEF OInv, Apart
    <3>2. NoRepeat(held[x[1]])
      BY <1>1, <2>3 DEF OInv
    <3>3. x[2] = y[2]
      BY <3>1, <3>2 DEF NoRepeat
    <3>4. x = <<x[1], x[2]>> /\ y = <<y[1], y[2]>>
      OBVIOUS
    <3> QED BY <3>1, <3>3, <3>4
  <2>7. \A p, q \in D : p = q
    BY <1>1 DEF OInv, Distinct
  <2>8. \A p, q \in E : p = q
    BY <1>1 DEF OInv, Distinct
  <2>9. \A i \in B : released[i] \in Waiting
    BY <2>2, WaitingIs
  <2>10. \A x \in C : held[x[1]][x[2]] \in Waiting
    BY <2>3, WaitingIs
  <2>11. (A = {} \/ D = {}) /\ (A = {} \/ E = {}) /\ (D = {} \/ E = {})
    BY <1>1 DEF OInv, Apart
  <2>12. B # {} => A = {} /\ C = {} /\ D = {} /\ E = {}
    <3> SUFFICES ASSUME NEW i \in B PROVE A = {} /\ C = {} /\ D = {} /\ E = {}
      OBVIOUS
    <3>1. A = {} /\ D = {} /\ E = {}
      BY <1>1, <2>2, <2>9 DEF OInv, Apart
    <3>2. C = {}
      BY <1>1, <2>2, <2>3 DEF OInv, Apart
    <3> QED BY <3>1, <3>2
  <2>13. C # {} => A = {} /\ D = {} /\ E = {}
    <3> SUFFICES ASSUME NEW x \in C PROVE A = {} /\ D = {} /\ E = {}
      OBVIOUS
    <3> QED BY <1>1, <2>3, <2>10 DEF OInv, Apart
  <2> HIDE DEF A, B, C, D, E
  <2>14. (A = {} /\ Cardinality(A) = 0) \/ (A # {} /\ Cardinality(A) = 1)
    BY ONLY <2>4, AtMostOne
  <2>15. (B = {} /\ Cardinality(B) = 0) \/ (B # {} /\ Cardinality(B) = 1)
    BY ONLY <2>5, AtMostOne
  <2>16. (C = {} /\ Cardinality(C) = 0) \/ (C # {} /\ Cardinality(C) = 1)
    BY ONLY <2>6, AtMostOne
  <2>17. (D = {} /\ Cardinality(D) = 0) \/ (D # {} /\ Cardinality(D) = 1)
    BY ONLY <2>7, AtMostOne
  <2>18. (E = {} /\ Cardinality(E) = 0) \/ (E # {} /\ Cardinality(E) = 1)
    BY ONLY <2>8, AtMostOne
  <2> QED BY <2>1, <2>11, <2>12, <2>13, <2>14, <2>15, <2>16, <2>17, <2>18
<1>2. OInv => OnePlaceEach
  BY <1>1 DEF OnePlaceEach
<1> QED BY <1>2, OInvHolds, PTL

(* "Messages are held, not lost, and arrive in a burst" (net.py:42-43):    *)
(* what waits for a node, or is on its way to it since it woke, is         *)
(* delivered, or goes to a partition in force or to a crash of the node.   *)
THEOREM HeldIsNotLost == Spec => HeldNotLost
<1> DEFINE Fate(p) ==
      \/ p \in delivered'
      \/ p \in dropped' /\ (Blocked(p.frm, p.to) \/ state[p.to] = "crashed")
      \/ state[p.to] # "crashed" /\ state'[p.to] = "crashed"
<1>1. ASSUME SInv, NEW n \in Node, NEW s \in NodeState, SetState(n, s),
             NEW p \in Waiting, p \notin Waiting'
      PROVE  Fate(p)
  <2>1. /\ NetTypeOK /\ HeldOnlyWhileHung /\ HeldForItsNode
        /\ held \in [Node -> Seq(Packet)] /\ released \in Seq(Packet) /\ held[n] \in Seq(Packet)
        /\ state \in [Node -> NodeState]
    BY <1>1 DEF SInv, TypeOK, NetTypeOK
  <2>2. /\ state' = [state EXCEPT ![n] = s]
        /\ held' = [held EXCEPT ![n] = << >>]
        /\ \/ released' = released /\ (held[n] = << >> \/ s = "crashed")
           \/ released' = released \o held[n]
    BY <1>1, <2>1, SetStateMoves
  <2>3. Range(released \o held[n]) = Range(released) \cup Range(held[n])
    BY <2>1, RangeConcatenation
  <2>4. p \notin Range(released') /\ \A m \in Node : p \notin Range(held'[m])
    BY <1>1, WaitingIs
  <2>5. p \in Range(released) \/ \E m \in Node : p \in Range(held[m])
    BY <1>1, WaitingIs
  <2>6. \A m \in Node : m # n => held'[m] = held[m]
    BY <2>1, <2>2
  <2>7. p \in Range(held[n])
    BY <2>2, <2>3, <2>4, <2>5, <2>6
  <2>8. Range(<< >>) = {}
    BY DEF Range
  <2>9. s = "crashed" /\ held[n] # << >>
    BY <2>2, <2>3, <2>4, <2>7, <2>8
  <2>10. p.to = n /\ state[n] = "hung" /\ state'[n] = "crashed"
    BY <2>1, <2>2, <2>7, <2>9 DEF HeldForItsNode, HeldOnlyWhileHung
  <2> QED BY <2>10
<1>2. ASSUME SInv, NEW q \in Packet, Arrive(q), NEW p \in Waiting, p \notin Waiting',
             p \in Range(released') \/ p = q \/ \E n \in Node : p \in Range(held[n])
      PROVE  Fate(p)
  <2>1. \/ /\ dropped' = dropped \cup {q} /\ held' = held
           /\ Blocked(q.frm, q.to) \/ state[q.to] = "crashed"
        \/ held' = [held EXCEPT ![q.to] = Append(@, q)]
        \/ delivered' = delivered \cup {q} /\ held' = held
    BY <1>2, ArriveMoves
  <2>2. p \notin Range(released') /\ \A n \in Node : p \notin Range(held'[n])
    BY <1>2, WaitingIs
  <2>3. q.to \in Node /\ held \in [Node -> Seq(Packet)]
    BY <1>2 DEF SInv, TypeOK, NetTypeOK, Packet
  <2>4. CASE held' = held
    <3>1. p = q
      BY <1>2, <2>2, <2>4
    <3>2. \/ q \in dropped' /\ (Blocked(q.frm, q.to) \/ state[q.to] = "crashed")
          \/ held' = [held EXCEPT ![q.to] = Append(@, q)]
          \/ q \in delivered'
      BY <2>1
    <3>3. CASE held' = [held EXCEPT ![q.to] = Append(@, q)]
      <4>1. held'[q.to] = Append(held[q.to], q)
        BY <2>3, <3>3
      <4>2. Range(Append(held[q.to], q)) = Range(held[q.to]) \cup {q}
        BY <1>2, <2>3, RangeOfAppend
      <4> QED BY <2>2, <2>3, <3>1, <4>1, <4>2
    <3> QED BY <3>1, <3>2, <3>3
  <2>5. CASE held' = [held EXCEPT ![q.to] = Append(@, q)]
    <3>1. Range(Append(held[q.to], q)) = Range(held[q.to]) \cup {q}
      BY <1>2, <2>3, RangeOfAppend
    <3>2. \A n \in Node : \/ n # q.to /\ held'[n] = held[n]
                          \/ n = q.to /\ held'[n] = Append(held[n], q)
      BY <2>3, <2>5
    <3>3. p # q
      BY <2>2, <2>3, <3>1, <3>2
    <3>4. \A n \in Node : p \notin Range(held[n])
      BY <2>2, <3>1, <3>2
    <3> QED BY <1>2, <2>2, <3>3, <3>4
  <2> QED BY <2>1, <2>4, <2>5
<1>3. ASSUME SInv, Travel, NEW p \in Waiting, p \notin Waiting' PROVE Fate(p)
  <2>1. p \in Range(released) \/ \E n \in Node : p \in Range(held[n])
    BY <1>3, WaitingIs
  <2>2. CASE \E q \in flight : ArriveFromFlight(q)
    <3>1. PICK q \in flight : ArriveFromFlight(q)
      BY <2>2
    <3>2. q \in Packet /\ Arrive(q) /\ released' = released
      BY <1>3, <3>1 DEF ArriveFromFlight, SInv, TypeOK, NetTypeOK
    <3> HIDE DEF Fate
    <3> QED BY <1>2, <1>3, <2>1, <3>2
  <2>3. CASE ArriveReleased
    <3>1. /\ released # << >> /\ released' = Tail(released)
          /\ Arrive(Head(released)) /\ released \in Seq(Packet)
      BY <1>3, <2>3 DEF ArriveReleased, SInv, TypeOK, NetTypeOK
    <3>2. /\ Head(released) \in Packet
          /\ Range(released) = Range(Tail(released)) \cup {Head(released)}
      BY <3>1, RangeOfTail
    <3> HIDE DEF Fate
    <3> QED BY <1>2, <1>3, <2>1, <3>1, <3>2
  <2> QED BY <1>3, <2>2, <2>3 DEF Travel
<1>4. ASSUME UNCHANGED <<held, released>> PROVE Waiting' = Waiting
  BY <1>4 DEF Waiting
<1>5. ASSUME SInv, [Next]_vars, NEW p \in Waiting, p \notin Waiting' PROVE Fate(p)
  <2> HIDE DEF Fate
  <2>1. CASE Travel
    BY <1>3, <1>5, <2>1
  <2>2. ASSUME NEW n \in Node, \/ \E kind \in Kinds : Begin(n, kind)
                               \/ End(n) \/ SelfCrash(n)
        PROVE  Fate(p)
    <3>1. \E s \in NodeState : SetState(n, s)
      BY <2>2 DEF Begin, End, SelfCrash, NodeState
    <3> QED BY <1>1, <1>5, <3>1
  <2>3. ASSUME NEW n \in Node, Revive(n) PROVE Fate(p)
    <3>1. (\E s \in NodeState : SetState(n, s)) \/ UNCHANGED <<held, released>>
      BY <2>3 DEF Revive, NodeState
    <3> QED BY <1>1, <1>4, <1>5, <3>1
  <2>4. CASE \/ StartPartition \/ EndPartition \/ UNCHANGED vars
             \/ \E n, to \in Node : Sends(n, to)
    <3>1. UNCHANGED <<held, released>>
      BY <2>4 DEF StartPartition, EndPartition, Split, Heal, Sends, NetSend, vars, netVars
    <3> QED BY <1>4, <1>5, <3>1
  <2> QED BY <1>5, <2>1, <2>2, <2>3, <2>4 DEF Next
<1>6. SInv /\ [Next]_vars => [\A p \in Waiting \ Waiting' : Fate(p)]_netVars
  BY <1>5
<1> QED BY <1>6, SInvHolds, PTL DEF Spec, HeldNotLost

=============================================================================
