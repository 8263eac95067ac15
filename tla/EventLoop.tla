----------------------------- MODULE EventLoop -----------------------------
(***************************************************************************)
(* The single thread that everything runs on: the event queue of           *)
(* groundhog/sim/event.py with its lazy cancellation, the clock of         *)
(* groundhog/clock.py and the loop of groundhog/sim/world.py.              *)
(*                                                                         *)
(* What an event does when it runs is to schedule and to cancel other      *)
(* events, any number of them and in any order; its holder may cancel it   *)
(* long after it ran.                                                      *)
(***************************************************************************)
EXTENDS Integers

CONSTANTS
  MaxEvents,   \* bound: events scheduled in all
  MaxDelay,    \* bound: how far ahead an event is scheduled
  MaxRun       \* bound: the last tick a run is asked for

ASSUME LoopBounds == MaxEvents \in Nat /\ MaxDelay \in Nat /\ MaxRun \in Nat

VARIABLES
  heap,         \* EventQueue._heap: the events not yet popped, cancelled or not
  pending,      \* EventQueue._pending: the seq of those that are live
  next_seq,
  now,          \* SimClock._now
  max_ticks,    \* of the run() that is in progress, or was last
  current,      \* the event whose action is running, as a set of at most one
  mode          \* "outside" of run(), in its "loop", or left by an exception

vars == <<heap, pending, next_seq, now, max_ticks, current, mode>>

Event == [tick : Nat, seq : Nat]

(* Events of one tick come out the last scheduled first.                   *)
BadBefore(e, f) == e.tick < f.tick \/ (e.tick = f.tick /\ e.seq > f.seq)

Before(e, f) == e.tick < f.tick \/ (e.tick = f.tick /\ e.seq < f.seq)

IsHead(e, h) == e \in h /\ \A f \in h : f = e \/ Before(e, f)

Live == {e \in heap : e.seq \in pending}

-----------------------------------------------------------------------------
(* Code that schedules runs in an event, or before and after run().        *)
CodeRuns == mode = "outside" \/ current # {}

Deadline(delay) == now + delay

(* SimClock.after and EventQueue.schedule.                                 *)
Schedule(delay) ==
  /\ CodeRuns
  /\ next_seq < MaxEvents
  /\ heap' = heap \cup {[tick |-> Deadline(delay), seq |-> next_seq]}
  /\ pending' = pending \cup {next_seq}
  /\ next_seq' = next_seq + 1
  /\ UNCHANGED <<now, max_ticks, current, mode>>

(* SimTimer.cancel, of any event ever scheduled: the heap keeps it.        *)
Cancel(seq) ==
  /\ CodeRuns
  /\ pending' = pending \ {seq}
  /\ UNCHANGED <<heap, next_seq, now, max_ticks, current, mode>>

-----------------------------------------------------------------------------
(* peek_tick looks at the head of the heap as it is.                       *)
BadTrimmed == heap

(* _drop_cancelled_head: what is left once no cancelled event is first.    *)
Trimmed == {x \in heap : \E e \in Live : e = x \/ Before(e, x)}

(* An event at the last tick of the run is left out.                       *)
BadIsOver(tick) == tick >= max_ticks

IsOver(tick) == tick > max_ticks

Run(ticks) ==
  /\ mode = "outside"
  /\ mode' = "loop"
  /\ max_ticks' = ticks
  /\ UNCHANGED <<heap, pending, next_seq, now, current>>

(* The event stays among the pending ones.                                 *)
BadPopped(e) == pending

Popped(e) == pending \ {e.seq}

(* One turn of the loop: peek, pop, advance_to, and the action begins.     *)
Turn ==
  /\ mode = "loop" /\ current = {}
  /\ \E h \in Trimmed : IsHead(h, Trimmed) /\ ~IsOver(h.tick)
  /\ \E e \in Live :
       /\ IsHead(e, Live)
       /\ heap' = {x \in Trimmed : Before(e, x)}
       /\ pending' = Popped(e)
       /\ now' = e.tick
       /\ current' = {e}
  /\ UNCHANGED <<next_seq, max_ticks, mode>>

(* The action and the hooks after it return.                               *)
Return ==
  /\ current # {}
  /\ current' = {}
  /\ UNCHANGED <<heap, pending, next_seq, now, max_ticks, mode>>

(* Or one of them raises, which ends the run: a checker found a violation. *)
Raise ==
  /\ current # {}
  /\ current' = {}
  /\ mode' = "outside"
  /\ UNCHANGED <<heap, pending, next_seq, now, max_ticks>>

StopIdle ==
  /\ mode = "loop" /\ current = {}
  /\ Trimmed = {}
  /\ heap' = {}
  /\ mode' = "outside"
  /\ UNCHANGED <<pending, next_seq, now, max_ticks, current>>

StopAtMaxTicks ==
  /\ mode = "loop" /\ current = {}
  /\ \E h \in Trimmed : IsHead(h, Trimmed) /\ IsOver(h.tick)
  /\ heap' = Trimmed
  /\ mode' = "outside"
  /\ UNCHANGED <<pending, next_seq, now, max_ticks, current>>

Init ==
  /\ heap = {}
  /\ pending = {}
  /\ next_seq = 0
  /\ now = 0
  /\ max_ticks = 0
  /\ current = {}
  /\ mode = "outside"

Next ==
  \/ \E delay \in 0 .. MaxDelay : Schedule(delay)
  \/ \E seq \in 0 .. next_seq - 1 : Cancel(seq)
  \/ \E ticks \in 0 .. MaxRun : Run(ticks)
  \/ Turn
  \/ Return
  \/ Raise
  \/ StopIdle
  \/ StopAtMaxTicks

Spec == Init /\ [][Next]_vars

-----------------------------------------------------------------------------
(* Every variable holds what the code can put there; the pending events    *)
(* are in the heap, each under a number of its own.                        *)
TypeOK ==
  /\ heap \subseteq Event
  /\ pending \subseteq {e.seq : e \in heap}
  /\ next_seq \in Nat
  /\ now \in Nat
  /\ max_ticks \in Nat
  /\ current \subseteq Event
  /\ mode \in {"outside", "loop"}

(* No event that is still to run is due before now: advance_to never finds *)
(* time moving backwards, however events schedule and cancel each other,   *)
(* and however often run() is left and entered again.                      *)
NothingInThePast == \A e \in Live : e.tick >= now

(* No event runs after the last tick of its run, also when the events      *)
(* ahead of it in the heap were all cancelled.                             *)
NoneAfterTheEnd == mode = "loop" => \A e \in current : e.tick <= max_ticks

(* A run that ends by itself has run all that was due: what is left, if    *)
(* anything, comes after its last tick.                                    *)
NoneLeftBehind ==
  [][mode = "loop" /\ mode' = "outside" /\ current = {} =>
       \A e \in Live : e.tick > max_ticks]_vars

(* The heap with its cancelled entries behaves as a plain set of events    *)
(* from which the earliest is taken.                                       *)
Promise == INSTANCE Agenda WITH live <- Live, count <- next_seq

KeepsAgenda == Promise!Spec
=============================================================================
