-------------------------- MODULE EventLoopProofs --------------------------
(***************************************************************************)
(* Proofs about EventLoop, for any number of events, delays and runs: time *)
(* does not move backwards, no run overruns, and the lazily cleaned heap   *)
(* implements Agenda.                                                      *)
(***************************************************************************)
EXTENDS EventLoop, TLAPS

(* The entries of the heap are numbered apart, below next_seq.             *)
Numbered ==
  /\ \A e \in heap : e.seq < next_seq
  /\ \A e, f \in heap : e.seq = f.seq => e = f

OnlyInLoop == mode = "outside" => current = {}

(* The inductive invariant.                                                *)
LInv == TypeOK /\ Numbered /\ OnlyInLoop /\ NothingInThePast /\ NoneAfterTheEnd

-----------------------------------------------------------------------------
(* Trimming the heap drops no live event.                                  *)
LEMMA TrimmedKeepsLive == Live \subseteq Trimmed /\ Trimmed \subseteq heap
BY DEF Live, Trimmed

(* Scheduling adds one event, due now or later, to what is live.           *)
LEMMA ScheduleAdds ==
  ASSUME LInv, NEW delay \in 0 .. MaxDelay, Schedule(delay)
  PROVE  LET e == [tick |-> now + delay, seq |-> next_seq]
         IN e \in Event /\ e \notin Live /\ e.tick >= now /\ Live' = Live \cup {e}
<1> DEFINE e == [tick |-> now + delay, seq |-> next_seq]
<1>1. e \in Event /\ e.tick >= now /\ e.seq = next_seq
  BY LoopBounds DEF LInv, TypeOK, Event
<1>2. next_seq \notin pending
  BY DEF LInv, TypeOK, Numbered, Event
<1>3. heap' = heap \cup {e} /\ pending' = pending \cup {next_seq}
  BY DEF Schedule, Deadline
<1>4. \A x \in heap : x.seq # next_seq
  BY DEF LInv, TypeOK, Numbered, Event
<1> HIDE DEF e
<1>5. e \notin Live
  BY <1>1, <1>4 DEF Live
<1>6. Live' = Live \cup {e}
  BY <1>1, <1>3, <1>4 DEF Live
<1> QED BY <1>1, <1>5, <1>6 DEF e

(* Cancelling takes at most the one event from what is live.               *)
LEMMA CancelRemoves ==
  ASSUME LInv, NEW seq \in Nat, Cancel(seq)
  PROVE  Live' = Live \/ \E e \in Live : Live' = Live \ {e}
<1>1. heap' = heap /\ pending' = pending \ {seq}
  BY DEF Cancel
<1>2. CASE seq \in pending
  <2>1. PICK e \in heap : e.seq = seq
    BY <1>2 DEF LInv, TypeOK
  <2>2. e \in Live
    BY <1>2, <2>1 DEF Live
  <2>3. Live' = Live \ {e}
    BY <1>1, <2>1 DEF Live, LInv, Numbered
  <2> QED BY <2>2, <2>3
<1>3. CASE seq \notin pending
  BY <1>1, <1>3 DEF Live
<1> QED BY <1>2, <1>3

(* A turn of the loop takes the earliest live event, and no other.         *)
LEMMA TurnTakes ==
  ASSUME LInv, NEW e \in Live, IsHead(e, Live),
         heap' = {x \in Trimmed : Before(e, x)}, pending' = Popped(e)
  PROVE  Live' = Live \ {e}
<1>1. \A x \in heap' : x \in heap /\ x # e
  <2> SUFFICES ASSUME NEW x \in heap' PROVE x \in heap /\ x # e
    OBVIOUS
  <2>1. x \in heap /\ Before(e, x)
    BY TrimmedKeepsLive
  <2>2. e \in Event
    BY DEF LInv, TypeOK, Live
  <2>3. ~Before(e, e)
    BY <2>2 DEF Before, Event
  <2> QED BY <2>1, <2>3
<1>2. Live' \subseteq Live \ {e}
  BY <1>1 DEF Live, Popped
<1>3. Live \ {e} \subseteq Live'
  <2> SUFFICES ASSUME NEW x \in Live, x # e PROVE x \in Live'
    OBVIOUS
  <2>1. x \in heap'
    BY TrimmedKeepsLive DEF IsHead
  <2>2. x.seq # e.seq
    BY DEF LInv, Numbered, Live
  <2> QED BY <2>1, <2>2 DEF Live, Popped
<1> QED BY <1>2, <1>3

(* When a run ends, what is live stays live.                               *)
LEMMA StopKeepsLive ==
  ASSUME LInv, StopIdle \/ StopAtMaxTicks
  PROVE  Live' = Live
<1>1. CASE StopIdle
  <2>1. heap' = {} /\ Live = {}
    BY <1>1, TrimmedKeepsLive DEF StopIdle
  <2> QED BY <2>1 DEF Live
<1>2. CASE StopAtMaxTicks
  <2>1. heap' = Trimmed /\ pending' = pending
    BY <1>2 DEF StopAtMaxTicks
  <2> QED BY <2>1, TrimmedKeepsLive DEF Live
<1> QED BY <1>1, <1>2
-----------------------------------------------------------------------------
(* One tick and number come before another, or after, never both.          *)
LEMMA BeforeIsOrder ==
  /\ \A e, f \in Event : Before(e, f) => e.tick <= f.tick
  /\ \A e \in Event : ~Before(e, e)
BY DEF Before, Event

(* The earliest live event is due within the run once the head of the      *)
(* trimmed heap is.                                                        *)
LEMMA HeadIsDue ==
  ASSUME LInv, NEW e \in Live, IsHead(e, Live),
         NEW h \in Trimmed, IsHead(h, Trimmed), ~IsOver(h.tick)
  PROVE  e.tick <= max_ticks
<1>1. PICK l \in Live : l = h \/ Before(l, h)
  BY DEF Trimmed
<1>2. l \in Event /\ h \in Event /\ e \in Event
  BY TrimmedKeepsLive DEF LInv, TypeOK
<1>3. l.tick <= h.tick
  BY <1>1, <1>2, BeforeIsOrder DEF Event
<1>4. e.tick <= l.tick
  BY <1>2, BeforeIsOrder DEF IsHead, Event
<1>5. h.tick <= max_ticks
  BY <1>2 DEF IsOver, Event, LInv, TypeOK
<1> QED BY <1>2, <1>3, <1>4, <1>5 DEF Event, LInv, TypeOK

(* When the head of the trimmed heap is past the end, all of it is.        *)
LEMMA RestIsOver ==
  ASSUME LInv, NEW h \in Trimmed, IsHead(h, Trimmed), IsOver(h.tick)
  PROVE  \A e \in Live : e.tick > max_ticks
<1> SUFFICES ASSUME NEW e \in Live PROVE e.tick > max_ticks
  OBVIOUS
<1>1. e \in Trimmed /\ e \in Event /\ h \in Event
  BY TrimmedKeepsLive DEF LInv, TypeOK
<1>2. h.tick <= e.tick
  BY <1>1, BeforeIsOrder DEF IsHead, Event
<1> QED BY <1>1, <1>2 DEF IsOver, Event, LInv, TypeOK

(* The loop starts in the invariant.                                       *)
LEMMA LoopStarts == Init => LInv
BY DEF Init, LInv, TypeOK, Numbered, OnlyInLoop, NothingInThePast,
       NoneAfterTheEnd, Live

LEMMA SchedulePreserves ==
  ASSUME LInv, NEW delay \in 0 .. MaxDelay, Schedule(delay)
  PROVE  LInv'
<1> DEFINE e == [tick |-> now + delay, seq |-> next_seq]
<1>1. /\ e \in Event /\ e.tick >= now
      /\ Live' = Live \cup {e}
  BY ScheduleAdds
<1>2. e.seq = next_seq
  OBVIOUS
<1>3. /\ heap' = heap \cup {e} /\ pending' = pending \cup {next_seq}
      /\ next_seq' = next_seq + 1
      /\ UNCHANGED <<now, max_ticks, current, mode>>
  BY DEF Schedule, Deadline
<1> HIDE DEF e
<1>4. TypeOK'
  <2>1. heap' \subseteq Event
    BY <1>1, <1>3 DEF LInv, TypeOK
  <2>2. pending' \subseteq {x.seq : x \in heap'}
    BY <1>2, <1>3 DEF LInv, TypeOK
  <2>3. next_seq' \in Nat
    BY <1>3 DEF LInv, TypeOK
  <2> QED BY <1>3, <2>1, <2>2, <2>3 DEF LInv, TypeOK
<1>5. Numbered'
  <2>1. \A x \in heap : x.seq \in Nat /\ x.seq < next_seq
    BY DEF LInv, TypeOK, Numbered, Event
  <2>2. next_seq \in Nat
    BY DEF LInv, TypeOK
  <2>3. \A x \in heap' : x.seq < next_seq'
    BY <1>2, <1>3, <2>1, <2>2
  <2>4. \A x, y \in heap' : x.seq = y.seq => x = y
    BY <1>2, <1>3, <2>1, <2>2 DEF LInv, Numbered
  <2> QED BY <2>3, <2>4 DEF Numbered
<1>6. NothingInThePast'
  BY <1>1, <1>3 DEF LInv, NothingInThePast
<1> QED BY <1>3, <1>4, <1>5, <1>6 DEF LInv, OnlyInLoop, NoneAfterTheEnd

LEMMA CancelPreserves ==
  ASSUME LInv, NEW seq \in Nat, Cancel(seq)
  PROVE  LInv'
<1>1. pending' \subseteq pending /\ UNCHANGED <<heap, next_seq, now, max_ticks, current, mode>>
  BY DEF Cancel
<1>2. TypeOK'
  BY <1>1 DEF LInv, TypeOK
<1>3. Live' \subseteq Live
  BY <1>1 DEF Live
<1>4. NothingInThePast'
  BY <1>1, <1>3 DEF LInv, NothingInThePast
<1> QED BY <1>1, <1>2, <1>4 DEF LInv, Numbered, OnlyInLoop, NoneAfterTheEnd

LEMMA TurnPreserves ==
  ASSUME LInv, Turn
  PROVE  LInv'
<1>1. PICK h \in Trimmed : IsHead(h, Trimmed) /\ ~IsOver(h.tick)
  BY DEF Turn
<1>2. PICK e \in Live : /\ IsHead(e, Live)
                         /\ heap' = {x \in Trimmed : Before(e, x)}
                         /\ pending' = Popped(e)
                         /\ now' = e.tick
                         /\ current' = {e}
  BY DEF Turn
<1>3. Live' = Live \ {e}
  BY <1>2, TurnTakes
<1>4. UNCHANGED <<next_seq, max_ticks, mode>> /\ mode = "loop"
  BY DEF Turn
<1>5. e \in Event /\ e \in heap
  BY DEF Live, LInv, TypeOK
<1>6. heap' \subseteq heap
  BY <1>2, TrimmedKeepsLive
<1>7. TypeOK'
  <2>1. pending' \subseteq {x.seq : x \in heap'}
    <3> SUFFICES ASSUME NEW s \in pending' PROVE \E x \in heap' : x.seq = s
      OBVIOUS
    <3>1. s \in pending /\ s # e.seq
      BY <1>2 DEF Popped
    <3>2. PICK x \in heap : x.seq = s
      BY <3>1 DEF LInv, TypeOK
    <3>3. x \in Live /\ x # e
      BY <3>1, <3>2 DEF Live
    <3>4. x \in heap'
      BY <1>2, <3>3, TrimmedKeepsLive DEF IsHead
    <3> QED BY <3>2, <3>4
  <2>2. now' \in Nat /\ current' \subseteq Event
    BY <1>2, <1>5 DEF Event
  <2> QED BY <1>4, <1>6, <2>1, <2>2 DEF LInv, TypeOK
<1>8. Numbered'
  BY <1>4, <1>6 DEF LInv, Numbered
<1>9. NothingInThePast'
  <2> SUFFICES ASSUME NEW f \in Live' PROVE f.tick >= now'
    BY DEF NothingInThePast
  <2>1. f \in Live /\ f # e
    BY <1>3
  <2>2. Before(e, f) /\ f \in Event
    BY <1>2, <2>1 DEF IsHead, Live, LInv, TypeOK
  <2>3. e.tick <= f.tick
    BY <1>5, <2>2, BeforeIsOrder
  <2> QED BY <1>2, <1>5, <2>2, <2>3 DEF Event
<1>10. NoneAfterTheEnd'
  <2>1. e.tick <= max_ticks
    BY <1>1, <1>2, HeadIsDue
  <2> QED BY <1>2, <1>4, <2>1 DEF NoneAfterTheEnd
<1> QED BY <1>4, <1>7, <1>8, <1>9, <1>10 DEF LInv, OnlyInLoop

LEMMA StopPreserves ==
  ASSUME LInv, StopIdle \/ StopAtMaxTicks
  PROVE  LInv'
<1>1. Live' = Live
  BY StopKeepsLive
<1>2. /\ UNCHANGED <<pending, next_seq, now, max_ticks, current>>
      /\ mode' = "outside" /\ current = {}
  BY DEF StopIdle, StopAtMaxTicks
<1>3. heap' \subseteq heap
  BY TrimmedKeepsLive DEF StopIdle, StopAtMaxTicks
<1>4. TypeOK'
  <2>1. pending' \subseteq {x.seq : x \in heap'}
    <3> SUFFICES ASSUME NEW s \in pending' PROVE \E x \in heap' : x.seq = s
      OBVIOUS
    <3>1. PICK x \in heap : x.seq = s
      BY <1>2 DEF LInv, TypeOK
    <3>2. x \in Live
      BY <1>2, <3>1 DEF Live
    <3>3. x \in heap'
      BY <1>1, <3>2 DEF Live
    <3> QED BY <3>1, <3>3
  <2> QED BY <1>2, <1>3, <2>1 DEF LInv, TypeOK
<1>5. Numbered'
  BY <1>2, <1>3 DEF LInv, Numbered
<1>6. NothingInThePast'
  BY <1>1, <1>2 DEF LInv, NothingInThePast
<1> QED BY <1>2, <1>4, <1>5, <1>6 DEF LInv, OnlyInLoop, NoneAfterTheEnd

(* Every step of the loop, and of the code it runs, keeps the invariant.   *)
LEMMA LoopPreserves == LInv /\ [Next]_vars => LInv'
<1> SUFFICES ASSUME LInv, [Next]_vars PROVE LInv'
  OBVIOUS
<1>1. ASSUME NEW delay \in 0 .. MaxDelay, Schedule(delay) PROVE LInv'
  BY <1>1, SchedulePreserves
<1>2. ASSUME NEW seq \in 0 .. next_seq - 1, Cancel(seq) PROVE LInv'
  <2>1. seq \in Nat
    BY DEF LInv, TypeOK
  <2> QED BY <1>2, <2>1, CancelPreserves
<1>3. ASSUME NEW ticks \in 0 .. MaxRun, Run(ticks) PROVE LInv'
  <2>1. /\ mode = "outside" /\ mode' = "loop" /\ max_ticks' = ticks
        /\ UNCHANGED <<heap, pending, next_seq, now, current>>
    BY <1>3 DEF Run
  <2>2. current = {}
    BY <2>1 DEF LInv, OnlyInLoop
  <2>3. ticks \in Nat
    BY LoopBounds
  <2> QED BY <2>1, <2>2, <2>3 DEF LInv, TypeOK, Numbered, OnlyInLoop,
             NothingInThePast, NoneAfterTheEnd, Live
<1>4. CASE Turn
  BY <1>4, TurnPreserves
<1>5. CASE Return
  BY <1>5 DEF Return, LInv, TypeOK, Numbered, OnlyInLoop, NothingInThePast,
              NoneAfterTheEnd, Live
<1>6. CASE Raise
  BY <1>6 DEF Raise, LInv, TypeOK, Numbered, OnlyInLoop, NothingInThePast,
              NoneAfterTheEnd, Live
<1>7. CASE StopIdle \/ StopAtMaxTicks
  BY <1>7, StopPreserves
<1>8. CASE UNCHANGED vars
  BY <1>8 DEF vars, LInv, TypeOK, Numbered, OnlyInLoop, NothingInThePast,
              NoneAfterTheEnd, Live
<1> QED BY <1>1, <1>2, <1>3, <1>4, <1>5, <1>6, <1>7, <1>8 DEF Next

(* The inductive invariant holds throughout.                               *)
LEMMA LoopInvariant == Spec => []LInv
BY LoopStarts, LoopPreserves, PTL DEF Spec

-----------------------------------------------------------------------------
(* The variables of the loop, and which events are pending in the heap,    *)
(* stay well formed.                                                       *)
THEOREM LoopTypeCorrect == Spec => []TypeOK
<1>1. LInv => TypeOK
  BY DEF LInv
<1> QED BY <1>1, LoopInvariant, PTL

(* Whatever events schedule and cancel, the loop never has to move time    *)
(* back.                                                                   *)
THEOREM TimeNeverBack == Spec => []NothingInThePast
<1>1. LInv => NothingInThePast
  BY DEF LInv
<1> QED BY <1>1, LoopInvariant, PTL

(* No run executes an event later than its last tick.                      *)
THEOREM NoOverrun == Spec => []NoneAfterTheEnd
<1>1. LInv => NoneAfterTheEnd
  BY DEF LInv
<1> QED BY <1>1, LoopInvariant, PTL

(* A run that stops by itself leaves nothing undone that was due in it.    *)
THEOREM RunsToTheEnd == Spec => NoneLeftBehind
<1>1. LInv /\ [Next]_vars =>
        [mode = "loop" /\ mode' = "outside" /\ current = {} =>
           \A e \in Live : e.tick > max_ticks]_vars
  <2> SUFFICES ASSUME LInv, Next, mode = "loop", mode' = "outside", current = {}
               PROVE  \A e \in Live : e.tick > max_ticks
    OBVIOUS
  <2>1. StopIdle \/ StopAtMaxTicks
    BY DEF Next, Schedule, Cancel, Run, Turn, Return, Raise
  <2>2. CASE StopIdle
    BY <2>2, TrimmedKeepsLive DEF StopIdle
  <2>3. CASE StopAtMaxTicks
    BY <2>3, RestIsOver DEF StopAtMaxTicks
  <2> QED BY <2>1, <2>2, <2>3
<1> QED BY <1>1, LoopInvariant, PTL DEF Spec, NoneLeftBehind

(* The event queue, clock and loop implement the abstract agenda.          *)
THEOREM LoopKeepsAgenda == Spec => KeepsAgenda
<1>1. Init => Promise!Init
  BY DEF Init, Promise!Init, Live
<1>2. LInv /\ [Next]_vars =>
        [Promise!Add \/ Promise!Remove \/ Promise!Take \/ Promise!Finish]_<<Live, now, next_seq, current>>
  <2> SUFFICES ASSUME LInv, [Next]_vars
               PROVE  \/ Promise!Add \/ Promise!Remove \/ Promise!Take \/ Promise!Finish
                      \/ UNCHANGED <<Live, now, next_seq, current>>
    OBVIOUS
  <2>1. ASSUME NEW delay \in 0 .. MaxDelay, Schedule(delay) PROVE Promise!Add
    <3> DEFINE e == [tick |-> now + delay, seq |-> next_seq]
    <3>1. e.tick >= now /\ e.seq = next_seq /\ Live' = Live \cup {e}
      BY <2>1, ScheduleAdds
    <3>2. next_seq' = next_seq + 1 /\ UNCHANGED <<now, current>>
      BY <2>1 DEF Schedule
    <3> HIDE DEF e
    <3>3. e \in Live'
      BY <3>1
    <3> QED BY <3>1, <3>2, <3>3 DEF Promise!Add
  <2>2. ASSUME NEW seq \in 0 .. next_seq - 1, Cancel(seq)
        PROVE  Promise!Remove \/ UNCHANGED <<Live, now, next_seq, current>>
    <3>1. UNCHANGED <<now, next_seq, current>>
      BY <2>2 DEF Cancel
    <3>2. seq \in Nat
      BY DEF LInv, TypeOK
    <3>3. Live' = Live \/ \E e \in Live : Live' = Live \ {e}
      BY <2>2, <3>2, CancelRemoves
    <3> QED BY <3>1, <3>3 DEF Promise!Remove
  <2>3. CASE Turn
    <3>1. current = {} /\ next_seq' = next_seq
      BY <2>3 DEF Turn
    <3>2. PICK e \in Live : /\ IsHead(e, Live)
                             /\ heap' = {x \in Trimmed : Before(e, x)}
                             /\ pending' = Popped(e)
                             /\ now' = e.tick
                             /\ current' = {e}
      BY <2>3 DEF Turn
    <3>3. Live' = Live \ {e}
      BY <3>2, TurnTakes
    <3>4. \A f \in Live : f = e \/ Promise!Before(e, f)
      BY <3>2 DEF IsHead, Before, Promise!Before
    <3>5. Promise!Take
      BY <3>1, <3>2, <3>3, <3>4 DEF Promise!Take
    <3> QED BY <3>5
  <2>4. CASE Return \/ Raise
    BY <2>4 DEF Return, Raise, Promise!Finish, Live
  <2>5. CASE StopIdle \/ StopAtMaxTicks
    <3>1. Live' = Live
      BY <2>5, StopKeepsLive
    <3> QED BY <2>5, <3>1 DEF StopIdle, StopAtMaxTicks
  <2>6. ASSUME NEW ticks \in 0 .. MaxRun, Run(ticks)
        PROVE  UNCHANGED <<Live, now, next_seq, current>>
    BY <2>6 DEF Run, Live
  <2>7. CASE UNCHANGED vars
    BY <2>7 DEF vars, Live
  <2> QED BY <2>1, <2>2, <2>3, <2>4, <2>5, <2>6, <2>7 DEF Next
<1> QED BY <1>1, <1>2, LoopInvariant, PTL DEF Spec, KeepsAgenda, Promise!Spec
=============================================================================
