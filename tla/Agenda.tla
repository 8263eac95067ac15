------------------------------- MODULE Agenda -------------------------------
(***************************************************************************)
(* What the simulator's loop promises to those who schedule on it (the     *)
(* docstring of groundhog/sim/world.py): "take the earliest event, move    *)
(* time to it, run it".  Events of one tick run in the order in which they *)
(* were scheduled, an event that was cancelled does not run, and nothing   *)
(* can be scheduled for a time that has passed.                            *)
(***************************************************************************)
EXTENDS Naturals

VARIABLES
  live,      \* the events that are still to come, as [tick, seq]
  now,
  count,     \* how many have ever been scheduled
  current    \* the event that is being run, or no event at all

Before(e, f) == e.tick < f.tick \/ (e.tick = f.tick /\ e.seq < f.seq)

Add ==
  /\ \E e \in live' : /\ e.tick >= now
                       /\ e.seq = count
                       /\ live' = live \cup {e}
  /\ count' = count + 1
  /\ UNCHANGED <<now, current>>

Remove ==
  /\ \E e \in live : live' = live \ {e}
  /\ UNCHANGED <<now, count, current>>

Take ==
  /\ current = {}
  /\ \E e \in live :
       /\ \A f \in live : f = e \/ Before(e, f)
       /\ live' = live \ {e}
       /\ now' = e.tick
       /\ current' = {e}
  /\ UNCHANGED count

Finish ==
  /\ current' = {}
  /\ UNCHANGED <<live, now, count>>

Init == live = {} /\ now = 0 /\ count = 0 /\ current = {}

Spec == Init /\ [][Add \/ Remove \/ Take \/ Finish]_<<live, now, count, current>>
=============================================================================
