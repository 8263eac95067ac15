----------------------------- MODULE SimNetwork -----------------------------
(***************************************************************************)
(* The simulated network of groundhog/sim/net.py: it drops and duplicates  *)
(* packets when they are sent, delays and so reorders them, and looks at   *)
(* partitions and at the state of the receiver when they arrive.           *)
(*                                                                         *)
(* A packet is an arrival scheduled on the event queue.  Its delay is not  *)
(* modelled: any packet in flight may be the next to arrive.  The packets  *)
(* released to a node that wakes are scheduled with no delay, one after    *)
(* the other, so they arrive in that order (released).                     *)
(***************************************************************************)
EXTENDS Integers, Sequences, FiniteSets, Functions

CONSTANTS
  Node,      \* the ids registered with the network
  Nil,       \* Python's None
  MaxSends   \* bound: how many messages are sent in all

ASSUME SendsAssumption == MaxSends \in Nat

VARIABLES
  sends,      \* how many messages have been sent
  flight,     \* packets scheduled to arrive (net.deliver, net.deliver_dup)
  released,   \* packets scheduled to arrive at once (net.deliver_held)
  held,       \* held[n]: what waits for n, which is hung, to wake
  state,      \* NodeState of each node
  partition,  \* the partition in force, or Nil
  delivered, dropped

netVars == <<sends, flight, released, held, state, partition, delivered, dropped>>

NodeState == {"running", "crashed", "hung"}

(* A message is known by the number it was sent under; the copy that the   *)
(* network makes of it is another packet.                                  *)
Packet ==
  [id : 1 .. MaxSends, frm : Node, to : Node, dup : BOOLEAN]

Partition ==
  {p \in [side_a : SUBSET Node, side_b : SUBSET Node, one_way : BOOLEAN] :
     /\ p.side_a # {}
     /\ p.side_b = Node \ p.side_a
     /\ p.side_b # {}}

Blocks(p, frm, to) ==
  \/ frm \in p.side_a /\ to \in p.side_b
  \/ ~p.one_way /\ frm \in p.side_b /\ to \in p.side_a

Blocked(frm, to) == partition # Nil /\ Blocks(partition, frm, to)

(* Waking copies the buffer and forgets to empty it.                       *)
BadRelease(n) ==
  /\ released' = released \o held[n]
  /\ UNCHANGED held

(* A second burst takes the place of one that is still arriving.           *)
BadReleaseAgain(n) ==
  /\ released' = held[n]
  /\ held' = [held EXCEPT ![n] = << >>]

(* _release: all that n has missed is scheduled, in the order it came.     *)
Release(n) ==
  /\ released' = released \o held[n]
  /\ held' = [held EXCEPT ![n] = << >>]

(* A crash does not empty the buffer.                                      *)
BadSetState(n, s) ==
  /\ state' = [state EXCEPT ![n] = s]
  /\ IF s # "crashed" /\ state[n] = "hung"
     THEN Release(n)
     ELSE UNCHANGED <<held, released>>

(* set_state: what is held for a node dies with it, and is released when   *)
(* it is set to anything else.                                             *)
SetState(n, s) ==
  /\ state' = [state EXCEPT ![n] = s]
  /\ CASE s = "crashed" ->
            held' = [held EXCEPT ![n] = << >>] /\ UNCHANGED released
       [] s # "crashed" /\ state[n] = "hung" -> Release(n)
       [] OTHER -> UNCHANGED <<held, released>>

-----------------------------------------------------------------------------
(* send: lost, scheduled, or scheduled twice.                              *)
NetSend(frm, to) ==
  /\ sends < MaxSends
  /\ sends' = sends + 1
  /\ LET packet(dup) == [id |-> sends + 1, frm |-> frm, to |-> to, dup |-> dup]
     IN \/ /\ dropped' = dropped \cup {packet(FALSE)}
           /\ UNCHANGED flight
        \/ /\ flight' \in {flight \cup {packet(FALSE)}, flight \cup {packet(FALSE), packet(TRUE)}}
           /\ UNCHANGED dropped
  /\ UNCHANGED <<released, held, state, partition, delivered>>

(* _arrive, once packet p is off the queue.                                *)
Drop(p) ==
  /\ Blocked(p.frm, p.to) \/ state[p.to] = "crashed"
  /\ dropped' = dropped \cup {p}
  /\ UNCHANGED <<held, delivered>>

Hold(p) ==
  /\ ~Blocked(p.frm, p.to)
  /\ state[p.to] = "hung"
  /\ held' = [held EXCEPT ![p.to] = Append(@, p)]
  /\ UNCHANGED <<delivered, dropped>>

Deliver(p) ==
  /\ ~Blocked(p.frm, p.to)
  /\ state[p.to] = "running"
  /\ delivered' = delivered \cup {p}
  /\ UNCHANGED <<held, dropped>>

Arrive(p) == Drop(p) \/ Hold(p) \/ Deliver(p)

ArriveFromFlight(p) ==
  /\ flight' = flight \ {p}
  /\ Arrive(p)
  /\ UNCHANGED <<sends, released, state, partition>>

ArriveReleased ==
  /\ released # << >>
  /\ released' = Tail(released)
  /\ Arrive(Head(released))
  /\ UNCHANGED <<sends, flight, state, partition>>

(* split replaces a partition that is in force; heal ends it.              *)
Split(p) ==
  /\ partition' = p
  /\ UNCHANGED <<sends, flight, released, held, state, delivered, dropped>>

Heal ==
  /\ partition' = Nil
  /\ UNCHANGED <<sends, flight, released, held, state, delivered, dropped>>

NetInit ==
  /\ sends = 0
  /\ flight = {}
  /\ released = << >>
  /\ held = [n \in Node |-> << >>]
  /\ state = [n \in Node |-> "running"]
  /\ partition = Nil
  /\ delivered = {}
  /\ dropped = {}

-----------------------------------------------------------------------------
(* The network's variables hold what net.py can put there: packets of      *)
(* messages that were sent, and partitions with two sides.                 *)
NetTypeOK ==
  /\ sends \in 0 .. MaxSends
  /\ flight \subseteq Packet
  /\ released \in Seq(Packet)
  /\ held \in [Node -> Seq(Packet)]
  /\ state \in [Node -> NodeState]
  /\ partition \in Partition \cup {Nil}
  /\ delivered \subseteq Packet
  /\ dropped \subseteq Packet

(* Only a hung node has packets waiting for it: what was held for a node   *)
(* that crashed never reaches its successor (net.py:145-148).              *)
HeldOnlyWhileHung == \A n \in Node : held[n] # << >> => state[n] = "hung"

(* A copy of a message is in one place: still on its way, held, about to   *)
(* be delivered again, delivered or dropped.  So the receiver sees a       *)
(* message twice at most, however often it hangs and wakes.                *)
Key(p) == <<p.id, p.dup>>
Places(k) ==
  Cardinality({p \in flight : Key(p) = k})
    + Cardinality({i \in DOMAIN released : Key(released[i]) = k})
    + Cardinality({x \in Node \X (1 .. MaxSends * 2) :
                     x[2] \in DOMAIN held[x[1]] /\ Key(held[x[1]][x[2]]) = k})
    + Cardinality({p \in delivered : Key(p) = k})
    + Cardinality({p \in dropped : Key(p) = k})

OnePlaceEach == \A k \in (1 .. sends) \X BOOLEAN : Places(k) <= 1

(* What is held for a node that hangs, or on its way to it since it woke.  *)
Waiting == (UNION {Range(held[n]) : n \in Node}) \cup Range(released)

(* "Messages are held, not lost, and arrive in a burst" (net.py:42-43),    *)
(* however hangs and bursts follow on each other, but for two losses that  *)
(* the code has: its crash takes what is held for a node, and a burst      *)
(* meets the partition that is in force, and the crash, as any packet does.*)
HeldNotLost ==
  [][\A p \in Waiting \ Waiting' :
       \/ p \in delivered'
       \/ p \in dropped' /\ (Blocked(p.frm, p.to) \/ state[p.to] = "crashed")
       \/ state[p.to] # "crashed" /\ state'[p.to] = "crashed"]_netVars
=============================================================================
