----------------------------- MODULE CheckedRaft -----------------------------
(***************************************************************************)
(* The nodes of RaftNode under the checkers of groundhog/invariants: the   *)
(* registry (base.py) that looks at the cluster after an event, the six    *)
(* checkers (safety.py) with what each remembers of earlier looks, and the *)
(* run that stops at the first of them to report (raft/world.py).          *)
(*                                                                         *)
(* A checker's dictionary is the set of its <<key, value>> pairs, so two   *)
(* values for one key are a pair too many and not an overwritten one; in   *)
(* every case but `committed` that is when the checker reports, and there  *)
(* it takes two servers that apply different entries at once.              *)
(***************************************************************************)
EXTENDS RaftSafety

CONSTANT Strides   \* the strides a run may be given

ASSUME StridesAssumption == Strides \subseteq Nat \ {0}

VARIABLES
  check,          \* does this run have its checkers?
  stride,         \* a look at every stride-th event
  observations,   \* events since the last look
  violation,      \* the checker that stopped the run
  leaders, seen, committed, checked_terms, first_applied, high_water

memoryVars == <<leaders, seen, committed, checked_terms, first_applied, high_water>>
checkVars == <<check, stride, observations, violation, memoryVars>>

(* all_checkers(), causes before consequences.                             *)
AllCheckers == <<"election_safety", "leader_append_only", "log_matching",
                 "leader_completeness", "state_machine_safety", "monotonic_progress">>

(* None is not the name of a checker.                                      *)
ASSUME NamesAssumption == \A i \in DOMAIN AllCheckers : AllCheckers[i] # Nil

-----------------------------------------------------------------------------
(* What a checker may look at.                                             *)
View ==
  [running |-> running, role |-> role, current_term |-> current_term, log |-> log,
   commit_index |-> commit_index, last_applied |-> [n \in Server |-> Len(applied[n])]]

LeadersIn(view) == {n \in Server : view.running[n] /\ view.role[n] = "leader"}

Claims(view) == {<<view.current_term[n], n>> : n \in LeadersIn(view)}

(* Does a set of pairs give one key two values?                            *)
Conflicts(pairs) == \E a, b \in pairs : a[1] = b[1] /\ a # b

-----------------------------------------------------------------------------
(* ElectionSafety: one leader per term, of all that were ever seen.        *)

(* The term is forgotten: any second leader is a report.                   *)
BadTwoLeaders(view) == \E a, b \in leaders \cup Claims(view) : a[2] # b[2]

TwoLeaders(view) == Conflicts(leaders \cup Claims(view))

(* LeaderAppendOnly: while a server is seen to lead, its log only grows.   *)
LeaderChangedLog(view) ==
  \E n \in LeadersIn(view) : seen[n] # Nil /\ ~IsPrefix(seen[n], view.log[n])

SeenAfter(view) == [n \in Server |-> IF n \in LeadersIn(view) THEN view.log[n] ELSE Nil]

(* LogMatching, from the first index where two logs differ.                *)
LogsDoNotMatch(view) ==
  \E n, p \in Server :
    \E i \in 1 .. Smaller(LastIndex(view.log[n]), LastIndex(view.log[p])) :
      /\ TermAt(view.log[n], i) = TermAt(view.log[p], i)
      /\ SubSeq(view.log[n], 1, i) # SubSeq(view.log[p], 1, i)

(* LeaderCompleteness: a leader not seen before holds all that was seen    *)
(* committed, by whomever and in whatever term.                            *)
CommittedAfter(view) ==
  committed \cup
    UNION {{<<i, view.log[n][i]>> :
              i \in {j \in 1 .. view.commit_index[n] :
                       HasEntry(view.log[n], j) /\ \A c \in committed : c[1] # j}} :
             n \in Server}

LeaderIncomplete(view) ==
  \E n \in LeadersIn(view) :
    /\ <<view.current_term[n], n>> \notin checked_terms
    /\ \E c \in CommittedAfter(view) :
         ~(HasEntry(view.log[n], c[1]) /\ view.log[n][c[1]] = c[2])

(* StateMachineSafety.  It takes what was applied from the log, as it is   *)
(* at the time of the look.                                                *)
BadAppliedAfter(view) ==
  first_applied \cup
    UNION {{<<i, view.log[n][i]>> :
              i \in 1 .. Smaller(view.last_applied[n] - 1, LastIndex(view.log[n]))} :
             n \in Server}

AppliedAfter(view) ==
  first_applied \cup
    UNION {{<<i, view.log[n][i]>> :
              i \in 1 .. Smaller(view.last_applied[n], LastIndex(view.log[n]))} :
             n \in Server}

AppliedTwice(view) ==
  \/ \E n \in Server : view.last_applied[n] > LastIndex(view.log[n])
  \/ Conflicts(AppliedAfter(view))

(* MonotonicProgress: a server seen to be down starts over.                *)
WentBack(view) ==
  \E n \in Server :
    /\ view.running[n]
    /\ \/ view.last_applied[n] > view.commit_index[n]
       \/ high_water[n] # Nil /\ view.commit_index[n] < high_water[n]

HighWaterAfter(view) ==
  [n \in Server |-> IF view.running[n] THEN view.commit_index[n] ELSE Nil]

-----------------------------------------------------------------------------
(* The registry.                                                           *)

Reports(checker, view) ==
  CASE checker = "election_safety" -> TwoLeaders(view)
    [] checker = "leader_append_only" -> LeaderChangedLog(view)
    [] checker = "log_matching" -> LogsDoNotMatch(view)
    [] checker = "leader_completeness" -> LeaderIncomplete(view)
    [] checker = "state_machine_safety" -> AppliedTwice(view)
    [] checker = "monotonic_progress" -> WentBack(view)

(* The first checker to report raises, and the run is over: what the       *)
(* checkers remember no longer matters.                                    *)
Report(view) ==
  \E i \in DOMAIN AllCheckers :
    /\ Reports(AllCheckers[i], view)
    /\ \A j \in 1 .. i - 1 : ~Reports(AllCheckers[j], view)
    /\ violation' = AllCheckers[i]
    /\ UNCHANGED memoryVars

Remember(view) ==
  /\ \A i \in DOMAIN AllCheckers : ~Reports(AllCheckers[i], view)
  /\ leaders' = leaders \cup Claims(view)
  /\ seen' = SeenAfter(view)
  /\ committed' = CommittedAfter(view)
  /\ checked_terms' = checked_terms \cup Claims(view)
  /\ first_applied' = AppliedAfter(view)
  /\ high_water' = HighWaterAfter(view)
  /\ UNCHANGED violation

Observe(view) ==
  /\ UNCHANGED <<check, stride>>
  /\ observations' = (observations + 1) % stride
  /\ \/ check /\ observations' = 0 /\ (Report(view) \/ Remember(view))
     \/ ~(check /\ observations' = 0) /\ UNCHANGED <<violation, memoryVars>>

-----------------------------------------------------------------------------
(* An event of a server or of a request, and an event of the client, the   *)
(* network or a timer that no server has a part in; then the hook.         *)
ServerEvent ==
  /\ violation = Nil
  /\ Next
  /\ Observe(View')

OtherEvent ==
  /\ violation = Nil
  /\ UNCHANGED vars
  /\ Observe(View')

CheckInit ==
  /\ check \in BOOLEAN
  /\ stride \in Strides
  /\ observations = 0
  /\ violation = Nil
  /\ leaders = {}
  /\ seen = [n \in Server |-> Nil]
  /\ committed = {}
  /\ checked_terms = {}
  /\ first_applied = {}
  /\ high_water = [n \in Server |-> Nil]

CheckedNext == ServerEvent \/ OtherEvent

CheckedSpec == Init /\ CheckInit /\ [][CheckedNext]_<<vars, checkVars>>

-----------------------------------------------------------------------------
(* Is there a leader of a term older than one that has committed since?    *)
LateLeader ==
  \E n \in LeadersIn(View) : \E c \in CommittedAfter(View) : c[2].term > current_term[n]

(* Is there a leader of a term older than one that another has led since?  *)
Superseded ==
  \E n \in LeadersIn(View) :
    \E m \in msgs : m.type = "AppendEntries" /\ m.term > current_term[n]

(* With a stride, a server may crash and restart between two looks.        *)
CrashUnseen == stride > 1 /\ Faulty # {}

(* A checker that reports has found a fault of the nodes, "a checker that  *)
(* cries wolf gets weakened until it is useless" (safety.py), but for      *)
(* three cases.  LeaderCompleteness calls the winner of an old term's      *)
(* election a future leader, when its last vote arrives after a newer      *)
(* leader has committed; the entry that leader committed has been seen,    *)
(* unless the leader crashed before the next look.  MonotonicProgress does *)
(* not see a crash between two looks, which exempts a server.  And         *)
(* LeaderAppendOnly does not see that a leader was deposed, its log cut,   *)
(* and elected again: but that takes four events.                          *)
AlarmsExplained ==
  violation # Nil =>
    \/ violation = "leader_completeness" /\ LateLeader
    \/ violation = "leader_completeness" /\ CrashUnseen /\ Superseded
    \/ violation = "monotonic_progress" /\ CrashUnseen
    \/ violation = "leader_append_only" /\ stride > 3

(* A violation is "a safety property that stopped being true" (base.py):   *)
(* when the LeaderCompleteness checker reports, a leader lacks an entry    *)
(* that was committed in a term before its own.  The code does not keep    *)
(* this.                                                                   *)
CompletenessAlarmIsReal == violation = "leader_completeness" => ~LeaderCompleteness

(* A checked run that goes on remembers, for every index, the entry that   *)
(* each server applied there, though it looks for it in a log that may     *)
(* have changed since (AppliedEntry, history.py).                          *)
RemembersApplied ==
  check /\ stride = 1 /\ violation = Nil =>
    \A n \in Server : \A i \in DOMAIN applied[n] :
      {c \in first_applied : c[1] = i} = {<<i, applied[n][i]>>}
=============================================================================
