--------------------------- MODULE CheckerProofs ---------------------------
(***************************************************************************)
(* What holds of CheckedRaft for every cluster, every stride and every     *)
(* bound, through every crash, torn write and restart: when a checker      *)
(* stops a run, it found a fault of the nodes or made one of three known   *)
(* mistakes, and a run that goes on remembers what was applied.            *)
(*                                                                         *)
(* The argument: by CommitProofs all that servers apply is settled, and at *)
(* an index there is one settled entry.  So what the checkers gather of    *)
(* committed and applied entries stays free of conflicts, though it was    *)
(* read from logs at different times, and a leader lacks one of them only  *)
(* when its term is older than the one that settled it.                    *)
(***************************************************************************)
EXTENDS CheckedRaft, CommitProofs

-----------------------------------------------------------------------------
(* What is settled at an index.                                            *)

(* e is at index i before an entry that a leader's majority chose.         *)
SettledAt(G, i, e) == \E t, j \in Nat : Chosen(G, t, j) /\ i \in 1 .. j /\ G[t][i] = e

(* Pairs of an index and what is settled there.                            *)
Sure(G, pairs) ==
  \A c \in pairs : \E i \in Nat, e \in Entry : c = <<i, e>> /\ SettledAt(G, i, e)

(* What servers have applied, and at which index.                          *)
AppliedPairs ==
  {c \in Nat \X Entry :
     \E n \in Server : c[1] \in 1 .. Len(applied[n]) /\ c[2] = applied[n][c[1]]}

(* What two leaders' majorities chose, the later leader has in common with *)
(* the earlier one.                                                        *)
LEMMA ChosenAgree ==
  ASSUME NEW G, History(G), CInv(G), NEW t \in Nat, NEW j \in Nat, Chosen(G, t, j),
         NEW w \in Nat, NEW k \in Nat, Chosen(G, w, k), t <= w, NEW i \in 1 .. j
  PROVE  G[t][i] = G[w][i]
<1>1. Reigned(G, w)
  <2>1. G[w] \in Seq(Entry) /\ k \in 1 .. Len(G[w])
    BY DEF Chosen, Own, History, GhostType
  <2>2. G[w] # << >>
    BY <2>1
  <2> QED
    BY <2>2 DEF Reigned, Showed
<1>2. Has(G[w], G[t], j)
  BY <1>1, ChosenHas
<1> QED
  BY <1>2 DEF Has

(* So one entry is settled at an index.                                    *)
LEMMA SettledOnce ==
  ASSUME NEW G, History(G), CInv(G), NEW i, NEW d, NEW e,
         SettledAt(G, i, d), SettledAt(G, i, e)
  PROVE  d = e
<1>1. PICK t \in Nat, j \in Nat : Chosen(G, t, j) /\ i \in 1 .. j /\ G[t][i] = d
  BY DEF SettledAt
<1>2. PICK w \in Nat, k \in Nat : Chosen(G, w, k) /\ i \in 1 .. k /\ G[w][i] = e
  BY DEF SettledAt
<1>3. CASE t <= w
  BY <1>1, <1>2, <1>3, ChosenAgree
<1>4. CASE w <= t
  BY <1>1, <1>2, <1>4, ChosenAgree
<1> QED
  BY <1>3, <1>4

(* Settled pairs do not conflict.                                          *)
LEMMA SureAgree ==
  ASSUME NEW G, History(G), CInv(G), NEW pairs, Sure(G, pairs)
  PROVE  ~Conflicts(pairs)
<1> SUFFICES ASSUME NEW a \in pairs, NEW b \in pairs, a[1] = b[1]
             PROVE  a = b
  BY DEF Conflicts
<1>1. PICK i \in Nat, d \in Entry : a = <<i, d>> /\ SettledAt(G, i, d)
  BY DEF Sure
<1>2. PICK j \in Nat, e \in Entry : b = <<j, e>> /\ SettledAt(G, j, e)
  BY DEF Sure
<1>3. i = j
  BY <1>1, <1>2
<1>4. d = e
  BY <1>1, <1>2, <1>3, SettledOnce
<1> QED
  BY <1>1, <1>2, <1>3, <1>4

(* A leader has what was settled by a term up to its own.                  *)
LEMMA LeaderHas ==
  ASSUME TInv, NEW G, History(G), CInv(G), NEW n \in Server, role[n] = "leader",
         NEW t \in Nat, NEW j \in Nat, Chosen(G, t, j), t <= current_term[n],
         NEW i \in 1 .. j
  PROVE  i \in 1 .. Len(log[n]) /\ log[n][i] = G[t][i]
<1>1. PICK w \in Nat, l \in Seq(Entry) : w = current_term[n] /\ l = log[n]
  BY DEF TInv, TypeOK
<1>2. G[w] = l /\ Reigned(G, w)
  BY <1>1 DEF History, LeadersHave, Reigned
<1>3. Has(l, G[t], j)
  BY <1>1, <1>2, ChosenHas
<1>4. i <= Len(l) /\ l[i] = G[t][i]
  <2>1. j <= Len(l) /\ Len(l) \in Nat
    BY <1>3 DEF Has
  <2> QED
    BY <1>3, <2>1 DEF Has
<1> QED
  BY <1>1, <1>4

(* All that is applied is settled, and it is in the log.                   *)
LEMMA AppliedIsSure ==
  ASSUME TInv, NEW G, History(G), CInv(G), AInv(G)
  PROVE  /\ Sure(G, AppliedPairs)
         /\ \A n \in Server :
              /\ Len(applied[n]) <= Len(log[n])
              /\ \A i \in 1 .. Len(applied[n]) :
                   log[n][i] = applied[n][i] /\ <<i, applied[n][i]>> \in AppliedPairs
<1>1. ASSUME NEW n \in Server, NEW i \in 1 .. Len(applied[n])
      PROVE  SettledAt(G, i, applied[n][i])
  <2>1. PICK a \in Seq(Entry) : a = applied[n]
    BY DEF TInv, TypeOK
  <2>2. SettledTo(G, a, Len(a), current_term[n]) /\ Len(a) \in Nat /\ Len(a) # 0
    BY <2>1 DEF AInv, Settled
  <2>3. PICK t \in Nat, j \in Nat : Chosen(G, t, j) /\ Len(a) <= j /\ Has(a, G[t], Len(a))
    BY <2>2 DEF SettledTo
  <2>4. i \in 1 .. j
    BY <2>1, <2>2, <2>3
  <2>5. G[t][i] = a[i]
    BY <2>1, <2>3 DEF Has
  <2> QED
    BY <2>1, <2>3, <2>4, <2>5 DEF SettledAt
<1>2. ASSUME NEW c \in AppliedPairs
      PROVE  \E i \in Nat, e \in Entry : c = <<i, e>> /\ SettledAt(G, i, e)
  <2>1. c \in Nat \X Entry
    BY DEF AppliedPairs
  <2>2. PICK n \in Server : c[1] \in 1 .. Len(applied[n]) /\ c[2] = applied[n][c[1]]
    BY DEF AppliedPairs
  <2>3. SettledAt(G, c[1], c[2])
    BY <1>1, <2>2
  <2> QED
    BY <2>1, <2>3
<1>3. ASSUME NEW n \in Server
      PROVE  /\ Len(applied[n]) <= Len(log[n])
             /\ \A i \in 1 .. Len(applied[n]) :
                  log[n][i] = applied[n][i] /\ <<i, applied[n][i]>> \in AppliedPairs
  <2>1. Begins(applied[n], log[n])
    BY DEF AInv, HasApplied
  <2>2. applied[n] \in Seq(Entry)
    BY DEF TInv, TypeOK
  <2>3. ASSUME NEW i \in 1 .. Len(applied[n]) PROVE <<i, applied[n][i]>> \in AppliedPairs
    <3>1. i \in Nat /\ applied[n][i] \in Entry
      BY <2>2
    <3> QED
      BY <3>1 DEF AppliedPairs
  <2> QED
    BY <2>1, <2>3 DEF Begins
<1> QED
  BY <1>2, <1>3 DEF Sure

-----------------------------------------------------------------------------
(* What a look adds to what is remembered.                                 *)

(* What a server has applied is what it has committed.                     *)
AppliedExactly == \A n \in Server : Len(applied[n]) = commit_index[n]

(* Nobody goes down that may not.                                          *)
AllUp == Faulty = {} => \A n \in Server : running[n]

(* CommittedAfter and AppliedAfter, of given memories C and F.             *)
CommittedSeen(C) ==
  C \cup UNION {{<<i, log[n][i]>> :
                   i \in {j \in 1 .. commit_index[n] :
                            HasEntry(log[n], j) /\ \A c \in C : c[1] # j}} : n \in Server}
AppliedSeen(F) ==
  F \cup UNION {{<<i, log[n][i]>> :
                   i \in 1 .. Smaller(Len(applied[n]), LastIndex(log[n]))} : n \in Server}

(* Both add what is applied.                                               *)
LEMMA LookAdds ==
  ASSUME TInv, NEW G, History(G), CInv(G), AInv(G), AppliedExactly,
         NEW C, Sure(G, C), NEW F
  PROVE  CommittedSeen(C) = C \cup AppliedPairs /\ AppliedSeen(F) = F \cup AppliedPairs
<1>1. /\ Sure(G, AppliedPairs)
      /\ \A n \in Server :
           /\ Len(applied[n]) <= Len(log[n])
           /\ \A i \in 1 .. Len(applied[n]) :
                log[n][i] = applied[n][i] /\ <<i, applied[n][i]>> \in AppliedPairs
  BY AppliedIsSure
<1>2. \A n \in Server : /\ Len(applied[n]) \in Nat /\ Len(log[n]) \in Nat
                        /\ commit_index[n] = Len(applied[n])
  <2>1. \A n \in Server : applied[n] \in Seq(Entry) /\ log[n] \in Seq(Entry)
    BY DEF TInv, TypeOK
  <2> QED
    BY <2>1 DEF AppliedExactly
<1>3. ASSUME NEW n \in Server, NEW i
      PROVE  /\ i \in 1 .. commit_index[n] <=> i \in 1 .. Len(applied[n])
             /\ i \in 1 .. Len(applied[n]) => HasEntry(log[n], i)
             /\ i \in 1 .. Smaller(Len(applied[n]), LastIndex(log[n]))
                  <=> i \in 1 .. Len(applied[n])
  BY <1>1, <1>2 DEF HasEntry, LastIndex, Smaller, SENTINEL_INDEX
<1>4. ASSUME NEW c \in AppliedPairs
      PROVE  \E n \in Server : \E i \in 1 .. Len(applied[n]) : c = <<i, log[n][i]>>
  <2>1. c \in Nat \X Entry
    BY DEF AppliedPairs
  <2>2. PICK n \in Server : c[1] \in 1 .. Len(applied[n]) /\ c[2] = applied[n][c[1]]
    BY DEF AppliedPairs
  <2>3. c = <<c[1], log[n][c[1]]>>
    BY <1>1, <2>1, <2>2
  <2> QED
    BY <2>2, <2>3
<1>5. AppliedSeen(F) = F \cup AppliedPairs
  <2>1. ASSUME NEW c \in AppliedSeen(F) PROVE c \in F \cup AppliedPairs
    <3>1. CASE c \notin F
      <4>1. PICK n \in Server :
              c \in {<<i, log[n][i]>> : i \in 1 .. Smaller(Len(applied[n]), LastIndex(log[n]))}
        BY <3>1 DEF AppliedSeen
      <4>2. PICK i \in 1 .. Smaller(Len(applied[n]), LastIndex(log[n])) : c = <<i, log[n][i]>>
        BY <4>1
      <4>3. i \in 1 .. Len(applied[n])
        BY <1>3, <4>2
      <4>4. c \in AppliedPairs
        BY <1>1, <4>2, <4>3
      <4> QED
        BY <4>4
    <3> QED
      BY <3>1
  <2>2. ASSUME NEW c \in AppliedPairs PROVE c \in AppliedSeen(F)
    <3>0. PICK n \in Server : \E i \in 1 .. Len(applied[n]) : c = <<i, log[n][i]>>
      BY <1>4
    <3>1. PICK i \in 1 .. Len(applied[n]) : c = <<i, log[n][i]>>
      BY <3>0
    <3>2. i \in 1 .. Smaller(Len(applied[n]), LastIndex(log[n]))
      BY <1>3, <3>1
    <3>3. c \in {<<x, log[n][x]>> : x \in 1 .. Smaller(Len(applied[n]), LastIndex(log[n]))}
      BY <3>1, <3>2
    <3> QED
      BY <3>3 DEF AppliedSeen
  <2>3. F \subseteq AppliedSeen(F)
    BY DEF AppliedSeen
  <2> QED
    BY <2>1, <2>2, <2>3
<1>6. CommittedSeen(C) = C \cup AppliedPairs
  <2> DEFINE New(n) == {j \in 1 .. commit_index[n] :
                          HasEntry(log[n], j) /\ \A c \in C : c[1] # j}
  <2>1. ASSUME NEW c \in CommittedSeen(C) PROVE c \in C \cup AppliedPairs
    <3>1. CASE c \notin C
      <4>1. PICK n \in Server : c \in {<<i, log[n][i]>> : i \in New(n)}
        BY <3>1 DEF CommittedSeen
      <4>2. PICK i \in New(n) : c = <<i, log[n][i]>>
        BY <4>1
      <4>3. i \in 1 .. commit_index[n]
        BY <4>2
      <4>4. i \in 1 .. Len(applied[n])
        BY <1>3, <4>3
      <4>5. c \in AppliedPairs
        BY <1>1, <4>2, <4>4
      <4> QED
        BY <4>5
    <3> QED
      BY <3>1
  <2>2. ASSUME NEW c \in AppliedPairs PROVE c \in CommittedSeen(C)
    <3>0. PICK n \in Server : \E i \in 1 .. Len(applied[n]) : c = <<i, log[n][i]>>
      BY <1>4
    <3>1. PICK i \in 1 .. Len(applied[n]) : c = <<i, log[n][i]>>
      BY <3>0
    <3>2. CASE \E d \in C : d[1] = i
      <4>1. PICK d \in C : d[1] = i
        BY <3>2
      <4>2. PICK j \in Nat, e \in Entry : d = <<j, e>> /\ SettledAt(G, j, e)
        BY DEF Sure
      <4>3. PICK k \in Nat, f \in Entry : c = <<k, f>> /\ SettledAt(G, k, f)
        BY <1>1 DEF Sure
      <4>4. j = i /\ k = i
        BY <3>1, <4>1, <4>2, <4>3
      <4>5. e = f
        BY <4>2, <4>3, <4>4, SettledOnce
      <4>6. c = d
        BY <4>2, <4>3, <4>4, <4>5
      <4> QED
        BY <4>6 DEF CommittedSeen
    <3>3. CASE \A d \in C : d[1] # i
      <4>1. i \in New(n)
        BY <1>3, <3>3
      <4>2. c \in {<<x, log[n][x]>> : x \in New(n)}
        BY <3>1, <4>1
      <4> QED
        BY <4>2 DEF CommittedSeen
    <3> QED
      BY <3>2, <3>3
  <2>3. C \subseteq CommittedSeen(C)
    BY DEF CommittedSeen
  <2> QED
    BY <2>1, <2>2, <2>3
<1> QED
  BY <1>5, <1>6

-----------------------------------------------------------------------------
(* What the checkers remember, o events after the last look.               *)

(* Whom they saw lead, led.                                                *)
LeadersKnown(L) == \A a \in L : \E t \in Nat, n \in Server : a = <<t, n>> /\ Led(n, t)

(* An index k that servers are told to commit is covered by an entry that  *)
(* was seen committed, or can be seen, and that its leader chose.          *)
Backs(G, C, k) ==
  \/ k = 0
  \/ \E i \in Nat, e \in Entry :
       <<i, e>> \in C \cup AppliedPairs /\ k <= i /\ Chosen(G, e.term, i)
Backing(G, C) ==
  /\ \A c \in C : Backs(G, C, c[1])
  /\ \A n \in Server : Backs(G, C, commit_index[n])
  /\ \A m \in msgs : IsAppend(m) => Backs(G, C, m.leader_commit)

(* No commit index is below the one remembered.                            *)
Below(W) ==
  \A n \in Server : W[n] # Nil /\ running[n] => W[n] \in Nat /\ W[n] <= commit_index[n]

(* n stands in a term in which nobody has voted for it yet.                *)
Unvoted(n) ==
  /\ role[n] = "candidate"
  /\ \A m \in msgs : IsVote(m) /\ m.to = n => m.term # current_term[n]

(* n was seen to lead with the log s, o events ago.  If it is deposed, it  *)
(* takes an event to stand again and two more to win.                      *)
SeenAt(n, s, o) ==
  /\ s \in Seq(Entry)
  /\ IsMajority({n}) => Begins(s, disk[n].log)
  /\ \/ IsMajority({n})
     \/ role[n] # "follower" /\ Begins(s, log[n])
     \/ o >= 1 /\ role[n] = "follower"
     \/ o >= 2 /\ Unvoted(n)
     \/ o >= 3 /\ role[n] # "leader"

(* Every commit is seen, unless a crash comes before the look.             *)
Memory(G, L, C, F, W, S, k, o) ==
  /\ LeadersKnown(L)
  /\ Sure(G, C)
  /\ Sure(G, F)
  /\ k = 1 \/ Faulty = {} => Below(W) /\ Backing(G, C)
  /\ k <= 3 => \A n \in Server : S[n] # Nil => SeenAt(n, S[n], o)

(* The memory of a look at this very state.                                *)
Looked(C, F, W) ==
  /\ AppliedPairs \subseteq C
  /\ AppliedPairs \subseteq F
  /\ \A n \in Server : W[n] # Nil => running[n]

-----------------------------------------------------------------------------
(* What the checkers find.                                                 *)

(* Whoever claims to lead, leads.                                          *)
LEMMA ClaimsKnown ==
  ASSUME TInv, NEW G, History(G)
  PROVE  LeadersKnown(Claims(View))
<1> SUFFICES ASSUME NEW n \in Server, role[n] = "leader"
             PROVE  \E t \in Nat, p \in Server : <<current_term[n], n>> = <<t, p>> /\ Led(p, t)
  BY DEF LeadersKnown, Claims, LeadersIn, View
<1>1. current_term[n] \in Nat /\ Led(n, current_term[n])
  BY DEF TInv, TypeOK, History, LeadersHave, LedNow
<1> QED
  BY <1>1

(* ElectionSafety finds nothing.                                           *)
LEMMA OneLeaderSeen ==
  ASSUME TInv, EInv, NEW G, History(G), NEW L, LeadersKnown(L)
  PROVE  LeadersKnown(L \cup Claims(View)) /\ ~Conflicts(L \cup Claims(View))
<1>1. LeadersKnown(L \cup Claims(View))
  BY ClaimsKnown DEF LeadersKnown
<1>2. LedOnce
  BY OneLeader, LeadersOnce
<1>3. ASSUME NEW a \in L \cup Claims(View), NEW b \in L \cup Claims(View), a[1] = b[1]
      PROVE  a = b
  <2>1. PICK t \in Nat, n \in Server : a = <<t, n>> /\ Led(n, t)
    BY <1>1 DEF LeadersKnown
  <2>2. PICK u \in Nat, p \in Server : b = <<u, p>> /\ Led(p, u)
    BY <1>1 DEF LeadersKnown
  <2>3. t = u
    BY <1>3, <2>1, <2>2
  <2>4. n = p
    BY <1>2, <2>1, <2>2, <2>3 DEF LedOnce
  <2> QED
    BY <2>1, <2>2, <2>3, <2>4
<1> QED
  BY <1>1, <1>3 DEF Conflicts

(* LeaderAppendOnly finds nothing within three events.                     *)
LEMMA LeaderLogSeen ==
  ASSUME TInv, NEW n \in LeadersIn(View), NEW s, NEW o \in 0 .. 3, SeenAt(n, s, o)
  PROVE  IsPrefix(s, log[n])
<1>1. n \in Server /\ running[n] /\ role[n] = "leader"
  BY DEF LeadersIn, View
<1>2. log[n] \in Seq(Entry) /\ s \in Seq(Entry) /\ disk[n].log = log[n]
  BY <1>1 DEF TInv, TypeOK, MemoryIsDurable, SeenAt
<1>3. Begins(s, log[n])
  BY <1>1, <1>2 DEF SeenAt, Unvoted
<1> QED
  BY <1>2, <1>3, BeginsIsPrefix

(* LogMatching finds nothing.                                              *)
LEMMA LogsSeenMatch ==
  ASSUME TInv, NEW G, History(G)
  PROVE  ~LogsDoNotMatch(View)
<1>1. LogMatching
  BY HistoryMatches DEF TInv
<1> SUFFICES ASSUME NEW n \in Server, NEW p \in Server,
                    NEW i \in 1 .. Smaller(LastIndex(log[n]), LastIndex(log[p])),
                    TermAt(log[n], i) = TermAt(log[p], i)
             PROVE  SubSeq(log[n], 1, i) = SubSeq(log[p], 1, i)
  BY DEF LogsDoNotMatch, View
<1>2. i # 0
  <2>1. Len(log[n]) \in Nat /\ Len(log[p]) \in Nat
    <3>1. log[n] \in Seq(Entry) /\ log[p] \in Seq(Entry)
      BY DEF TInv, TypeOK
    <3> QED
      BY <3>1
  <2> QED
    BY <2>1 DEF Smaller, LastIndex
<1>3. log[n][i].term = log[p][i].term
  BY <1>2 DEF TermAt, SENTINEL_INDEX
<1>4. log[n] \in Logs /\ log[p] \in Logs
  BY DEF Logs
<1>5. i \in 1 .. Smaller(Len(log[n]), Len(log[p]))
  BY DEF LastIndex
<1> QED
  BY <1>1, <1>3, <1>4, <1>5 DEF LogMatching

(* What covers an index covers a smaller one.                              *)
LEMMA BacksLess ==
  ASSUME TInv, NEW G, History(G), NEW C, NEW k \in Nat, Backs(G, C, k), NEW i \in Nat, i <= k
  PROVE  Backs(G, C, i)
<1>1. CASE k = 0
  BY <1>1 DEF Backs
<1>2. CASE k # 0
  <2>1. PICK j \in Nat, e \in Entry :
          <<j, e>> \in C \cup AppliedPairs /\ k <= j /\ Chosen(G, e.term, j)
    BY <1>2 DEF Backs
  <2>2. i <= j
    BY <2>1
  <2> QED
    BY <2>1, <2>2 DEF Backs
<1> QED
  BY <1>1, <1>2

(* Committed entries are covered, once they are seen.                      *)
LEMMA SeenBacked ==
  ASSUME TInv, NEW G, History(G), AppliedExactly, NEW C, Backing(G, C)
  PROVE  \A c \in C \cup AppliedPairs : Backs(G, C, c[1])
<1> SUFFICES ASSUME NEW c \in AppliedPairs PROVE Backs(G, C, c[1])
  BY DEF Backing
<1>1. PICK n \in Server : c[1] \in 1 .. Len(applied[n])
  BY DEF AppliedPairs
<1>2. commit_index[n] \in Nat /\ c[1] \in Nat /\ c[1] <= commit_index[n]
  BY <1>1 DEF AppliedExactly, TInv, TypeOK
<1>3. Backs(G, C, commit_index[n])
  BY DEF Backing
<1> QED
  BY <1>2, <1>3, BacksLess

(* When LeaderCompleteness reports, the leader's term is over; and if      *)
(* every commit is seen, a later one was.                                  *)
LEMMA IncompleteIsLate ==
  ASSUME TInv, NEW G, History(G), CInv(G), AInv(G), AppliedExactly, NEW C, Sure(G, C),
         NEW n \in LeadersIn(View), NEW c \in C \cup AppliedPairs,
         ~(HasEntry(log[n], c[1]) /\ log[n][c[1]] = c[2])
  PROVE  /\ \E m \in msgs : m.type = "AppendEntries" /\ m.term > current_term[n]
         /\ Backing(G, C) => \E d \in C \cup AppliedPairs : d[2].term > current_term[n]
<1>1. n \in Server /\ running[n] /\ role[n] = "leader"
  BY DEF LeadersIn, View
<1>2. PICK w \in Nat, l \in Seq(Entry) : w = current_term[n] /\ l = log[n]
  BY <1>1 DEF TInv, TypeOK
<1>3. Sure(G, C \cup AppliedPairs)
  BY AppliedIsSure DEF Sure
<1>4. PICK i \in Nat, e \in Entry : c = <<i, e>> /\ SettledAt(G, i, e)
  BY <1>3 DEF Sure
<1>5. ~(i \in 1 .. Len(l) /\ l[i] = e)
  <2>1. i \in 1 .. Len(l) => HasEntry(l, i)
    BY DEF HasEntry, LastIndex, SENTINEL_INDEX
  <2> QED
    BY <1>2, <1>4, <2>1
<1>6. ASSUME NEW t \in Nat, NEW j \in Nat, Chosen(G, t, j), i \in 1 .. j, G[t][i] = e
      PROVE  t > w
  <2> SUFFICES ASSUME t <= w PROVE FALSE
    OBVIOUS
  <2>1. i \in 1 .. Len(l) /\ l[i] = G[t][i]
    BY <1>1, <1>2, <1>6, LeaderHas
  <2> QED
    BY <1>5, <1>6, <2>1
<1>7. \E m \in msgs : m.type = "AppendEntries" /\ m.term > current_term[n]
  <2>1. PICK t \in Nat, j \in Nat : Chosen(G, t, j) /\ i \in 1 .. j /\ G[t][i] = e
    BY <1>4 DEF SettledAt
  <2>2. t > w
    BY <1>6, <2>1
  <2>3. Reigned(G, t)
    <3>1. G[t] \in Seq(Entry) /\ j \in 1 .. Len(G[t])
      BY <2>1 DEF Chosen, Own, History, GhostType
    <3>2. G[t] # << >>
      BY <3>1
    <3> QED
      BY <3>2 DEF Reigned, Showed
  <2>4. PICK p \in Server : Led(p, t)
    BY <2>3, ReignedLed
  <2>5. CASE \E m \in msgs : IsAppend(m) /\ m.from = p /\ m.term = t
    BY <1>2, <2>2, <2>5 DEF IsAppend
  <2>6. CASE Server = {p} /\ disk[p].current_term >= t
    <3>1. p = n /\ disk[n].current_term = w
      BY <1>1, <1>2, <2>6 DEF TInv, MemoryIsDurable
    <3> QED
      BY <2>2, <2>6, <3>1
  <2> QED
    BY <2>4, <2>5, <2>6 DEF Led
<1>8. ASSUME Backing(G, C)
      PROVE  \E d \in C \cup AppliedPairs : d[2].term > current_term[n]
  <2>1. Backs(G, C, i) /\ i # 0
    BY <1>4, <1>8, SeenBacked DEF SettledAt
  <2>2. PICK j \in Nat, f \in Entry :
          <<j, f>> \in C \cup AppliedPairs /\ i <= j /\ Chosen(G, f.term, j)
    BY <2>1 DEF Backs
  <2>3. PICK t \in Nat : t = f.term
    BY DEF Entry
  <2>4. G[t][i] = e
    <3>1. i \in 1 .. j
      BY <2>1, <2>2
    <3>2. SettledAt(G, i, G[t][i])
      BY <2>2, <2>3, <3>1 DEF SettledAt
    <3> QED
      BY <1>4, <3>2, SettledOnce
  <2>5. t > w
    BY <1>6, <2>1, <2>2, <2>3, <2>4
  <2>6. <<j, f>>[2].term > current_term[n]
    BY <1>2, <2>3, <2>5
  <2> QED
    BY <2>2, <2>6
<1> QED
  BY <1>7, <1>8

(* What a look at a state remembers of it.                                 *)
LEMMA LookRemembers ==
  ASSUME TInv, EInv, NEW G, History(G), CInv(G), AInv(G), AppliedExactly,
         NEW L, NEW C, NEW F, NEW W, NEW S, NEW k, NEW o, Memory(G, L, C, F, W, S, k, o)
  PROVE  /\ Memory(G, L \cup Claims(View), CommittedSeen(C), AppliedSeen(F),
                   HighWaterAfter(View), SeenAfter(View), k, 0)
         /\ Looked(CommittedSeen(C), AppliedSeen(F), HighWaterAfter(View))
<1>1. LeadersKnown(L) /\ Sure(G, C) /\ Sure(G, F)
  BY DEF Memory
<1>2. CommittedSeen(C) = C \cup AppliedPairs /\ AppliedSeen(F) = F \cup AppliedPairs
  BY <1>1, LookAdds
<1>3. LeadersKnown(L \cup Claims(View))
  BY <1>1, OneLeaderSeen
<1>4. Sure(G, C \cup AppliedPairs) /\ Sure(G, F \cup AppliedPairs)
  BY <1>1, AppliedIsSure DEF Sure
<1>5. ASSUME NEW n \in Server
      PROVE  HighWaterAfter(View)[n] = IF running[n] THEN commit_index[n] ELSE Nil
  BY DEF HighWaterAfter, View
<1>6. ASSUME NEW n \in Server
      PROVE  SeenAfter(View)[n] = IF n \in LeadersIn(View) THEN log[n] ELSE Nil
  BY DEF SeenAfter, View
<1>7. Below(HighWaterAfter(View))
  <2>1. \A n \in Server : commit_index[n] \in Nat
    BY DEF TInv, TypeOK
  <2> QED
    BY <1>5, <2>1 DEF Below
<1>8. k = 1 \/ Faulty = {} => Backing(G, C \cup AppliedPairs)
  <2> SUFFICES ASSUME Backing(G, C) PROVE Backing(G, C \cup AppliedPairs)
    BY DEF Memory
  <2>1. \A i : Backs(G, C, i) => Backs(G, C \cup AppliedPairs, i)
    BY DEF Backs
  <2>2. \A c \in C \cup AppliedPairs : Backs(G, C, c[1])
    BY SeenBacked
  <2> QED
    BY <2>1, <2>2 DEF Backing
<1>9. ASSUME NEW n \in Server, SeenAfter(View)[n] # Nil
      PROVE  SeenAt(n, SeenAfter(View)[n], 0)
  <2>1. n \in LeadersIn(View) /\ SeenAfter(View)[n] = log[n]
    BY <1>6, <1>9
  <2>2. running[n] /\ role[n] = "leader"
    BY <2>1 DEF LeadersIn, View
  <2>3. log[n] \in Seq(Entry) /\ disk[n].log = log[n]
    BY <2>2 DEF TInv, TypeOK, MemoryIsDurable
  <2>4. Begins(log[n], log[n])
    BY <2>3, BeginsSelf
  <2> QED
    BY <2>1, <2>2, <2>3, <2>4 DEF SeenAt
<1>10. Looked(C \cup AppliedPairs, F \cup AppliedPairs, HighWaterAfter(View))
  BY <1>5 DEF Looked
<1> QED
  BY <1>2, <1>3, <1>4, <1>7, <1>8, <1>9, <1>10 DEF Memory

-----------------------------------------------------------------------------
(* What a step of n does to what is committed: n commits what it was told, *)
(* or what its own majority chose; while it is up, all that it applied     *)
(* stays; and what it sends names the commit index it had.                 *)
Raises(n, H) ==
  \/ commit_index'[n] \in {0, commit_index[n]}
  \/ \E m \in msgs : IsAppend(m) /\ commit_index'[n] = m.leader_commit
  \/ \E t, c \in Nat : /\ c = commit_index'[n] /\ Chosen(H, t, c)'
                       /\ c \in 1 .. Len(applied'[n]) /\ applied'[n][c] = H[t][c]
Commits(n, H) ==
  /\ \A p \in Server : p # n => commit_index'[p] = commit_index[p]
  /\ Len(applied'[n]) = commit_index'[n]
  /\ running'[n] => Begins(applied[n], applied'[n])
  /\ n \notin Faulty => running'[n] = running[n]
  /\ Raises(n, H)
  /\ \A x \in News : IsAppend(x) => x.leader_commit = commit_index[n]

(* A beginning of a beginning is one.                                      *)
LEMMA BeginsThrough ==
  ASSUME NEW a \in Seq(Entry), NEW b \in Seq(Entry), NEW c \in Seq(Entry),
         Begins(a, b), Begins(b, c)
  PROVE  Begins(a, c)
<1>1. Len(a) \in Nat /\ Len(b) \in Nat /\ Len(c) \in Nat
  OBVIOUS
<1> QED
  BY <1>1 DEF Begins

(* Two beginnings of one log begin one another.                            *)
LEMMA BeginningsOrdered ==
  ASSUME NEW a \in Seq(Entry), NEW b \in Seq(Entry), NEW c \in Seq(Entry),
         Begins(a, c), Begins(b, c), Len(a) <= Len(b)
  PROVE  Begins(a, b)
<1>1. Len(a) \in Nat /\ Len(b) \in Nat /\ Len(c) \in Nat
  OBVIOUS
<1> QED
  BY <1>1 DEF Begins

(* Steps that commit nothing.                                              *)
LEMMA IdleCommits ==
  ASSUME TInv, AppliedExactly, NEW n \in Server, NEW H,
         UNCHANGED <<commit_index, applied>>, n \in Faulty \/ running'[n] = running[n],
         \A x \in News : IsAppend(x) => x.leader_commit = commit_index[n]
  PROVE  Commits(n, H)
<1>1. applied[n] \in Seq(Entry) /\ applied'[n] = applied[n]
  BY DEF TInv, TypeOK
<1>2. Begins(applied[n], applied'[n])
  BY <1>1, BeginsSelf
<1> QED
  BY <1>1, <1>2 DEF Commits, Raises, AppliedExactly

(* A server that dies.                                                     *)
LEMMA DieCommits ==
  ASSUME TInv, NEW n \in Server, NEW H, NEW d, Die(n, d)
  PROVE  Commits(n, H)
<1>1. /\ n \in Faulty /\ ~running'[n] /\ commit_index'[n] = 0 /\ applied'[n] = << >>
      /\ \A p \in Server : p # n => commit_index'[p] = commit_index[p]
      /\ msgs' = msgs
  BY DEF Die, TInv, TypeOK, SENTINEL_INDEX
<1> QED
  BY <1>1 DEF Commits, Raises, News

(* Committing more of a log.                                               *)
LEMMA ApplyCommits ==
  ASSUME TInv, AppliedExactly, NEW n \in Server, NEW lg \in Seq(Entry), NEW debts,
         NEW c \in Nat, commit_index[n] <= c, c <= Len(lg), Begins(applied[n], lg),
         ApplyCommitted(n, lg, debts, c)
  PROVE  /\ \A p \in Server : p # n => commit_index'[p] = commit_index[p]
         /\ commit_index'[n] = c /\ Len(applied'[n]) = c
         /\ Begins(applied[n], applied'[n]) /\ Begins(applied'[n], lg)
<1>1. PICK a \in Seq(Entry) : a = applied[n]
  BY DEF TInv, TypeOK
<1>2. /\ applied'[n] \in Seq(Entry) /\ Begins(applied'[n], lg)
      /\ c <= Len(a) => applied'[n] = a
      /\ c > Len(a) => Len(applied'[n]) = c
      /\ commit_index'[n] = c
      /\ \A p \in Server : p # n => commit_index'[p] = commit_index[p]
  BY <1>1, AppliedByCommit
<1>3. PICK b \in Seq(Entry) : b = applied'[n]
  BY <1>2
<1>4. Len(a) = commit_index[n] /\ Len(a) \in Nat
  BY <1>1 DEF AppliedExactly
<1>5. Len(b) = c
  <2>1. CASE c <= Len(a)
    <3>1. c = Len(a)
      BY <1>4, <2>1
    <3> QED
      BY <1>2, <1>3, <2>1, <3>1
  <2>2. CASE c > Len(a)
    BY <1>2, <1>3, <2>2
  <2> QED
    BY <1>4, <2>1, <2>2
<1>6. Begins(a, b)
  <2>1. Len(a) <= Len(b)
    BY <1>4, <1>5
  <2> QED
    BY <1>1, <1>2, <1>3, <2>1, BeginningsOrdered
<1> QED
  BY <1>1, <1>2, <1>3, <1>5, <1>6

(* A leader that commits.                                                  *)
LEMMA LeaderCommits ==
  ASSUME TInv, TInv', AppliedExactly, NEW n \in Server, NEW G, NEW H, History(G), AInv(G),
         Follows(n, G, H), role[n] = "leader", role'[n] = "leader",
         current_term'[n] = current_term[n], Begins(log[n], log'[n]),
         running'[n] = running[n],
         NEW match \in [Server -> Nat], \A p \in Peers(n) : Told(n, p, match[p]),
         NEW debts, NEW c \in Reach(n, log'[n], match),
         ApplyCommitted(n, log'[n], debts, c),
         \A x \in News : IsAppend(x) => x.leader_commit = commit_index[n]
  PROVE  Commits(n, H)
<1>0. PICK lg \in Seq(Entry), t \in Nat : lg = log'[n] /\ t = current_term[n]
  BY DEF TInv, TypeOK
<1>a. ASSUME c \in Committable(n, lg, match)
      PROVE  c \in 1 .. Len(lg) /\ H[t] = lg /\ Chosen(H, t, c)'
  BY <1>0, <1>a, CommittedChosen
<1>1. PICK a \in Seq(Entry), l \in Seq(Entry) : a = applied[n] /\ l = log[n]
  BY DEF TInv, TypeOK
<1>2. Begins(a, lg) /\ Len(a) \in Nat /\ Len(lg) \in Nat /\ Len(a) <= Len(lg)
  <2>1. Begins(a, l)
    BY <1>1 DEF AInv, HasApplied
  <2>2. Begins(a, lg)
    BY <1>0, <1>1, <2>1, BeginsThrough
  <2> QED
    BY <2>2 DEF Begins
<1>3. commit_index[n] = Len(a) /\ commit_index[n] \in Nat
  BY <1>1, <1>2 DEF AppliedExactly
<1>4. c = commit_index[n] \/ c \in Committable(n, lg, match)
  BY <1>0 DEF Reach
<1>5. ASSUME c \in Committable(n, lg, match)
      PROVE  c \in 1 .. Len(lg) /\ H[t] = lg /\ Chosen(H, t, c)' /\ c > commit_index[n]
  <2>1. c \in 1 .. Len(lg) /\ H[t] = lg /\ Chosen(H, t, c)'
    BY <1>a, <1>5
  <2>2. c \in commit_index[n] + 1 .. LastIndex(lg)
    BY <1>5 DEF Committable
  <2> QED
    BY <1>3, <2>1, <2>2
<1>6. c \in Nat /\ commit_index[n] <= c /\ c <= Len(lg)
  BY <1>2, <1>3, <1>4, <1>5
<1>7. /\ \A p \in Server : p # n => commit_index'[p] = commit_index[p]
      /\ commit_index'[n] = c /\ Len(applied'[n]) = c
      /\ Begins(applied[n], applied'[n]) /\ Begins(applied'[n], lg)
  BY <1>0, <1>1, <1>2, <1>6, ApplyCommits
<1>8. Raises(n, H)
  <2>1. CASE c = commit_index[n]
    BY <1>7, <2>1 DEF Raises
  <2>2. CASE c \in Committable(n, lg, match)
    <3>1. c \in 1 .. Len(lg) /\ H[t] = lg /\ Chosen(H, t, c)'
      BY <1>5, <2>2
    <3>2. c \in 1 .. Len(applied'[n])
      BY <1>6, <1>7, <3>1
    <3>3. applied'[n][c] = H[t][c]
      BY <1>7, <3>1, <3>2 DEF Begins
    <3> QED
      BY <1>6, <1>7, <3>1, <3>2, <3>3 DEF Raises
  <2> QED
    BY <1>4, <2>1, <2>2
<1> QED
  BY <1>7, <1>8 DEF Commits

(* A follower's success.                                                   *)
LEMMA OnAppendSuccessCommits ==
  ASSUME TInv, TInv', AppliedExactly, NEW n \in Server, NEW G, NEW H, History(G), AInv(G),
         Follows(n, G, H), NEW m \in msgs, OnAppendSuccess(n, m)
  PROVE  Commits(n, H)
<1>1. PICK match \in [Server -> Nat] : match = MatchAfter(n, m)
  BY SuccessTold
<1>2. /\ UNCHANGED <<running, role, log, current_term>>
      /\ role[n] = "leader"
      /\ \A p \in Peers(n) : Told(n, p, match[p])
      /\ \E c \in Reach(n, log[n], match) :
           /\ ApplyCommitted(n, log[n], pending_clients[n], c)
           /\ msgs' = msgs \cup ReplyTo(n, Paid(n, pending_clients[n], c))
  BY <1>1, SuccessTold
<1>3. PICK c \in Reach(n, log[n], match) :
        /\ ApplyCommitted(n, log[n], pending_clients[n], c)
        /\ msgs' = msgs \cup ReplyTo(n, Paid(n, pending_clients[n], c))
  BY <1>2
<1>4. /\ log'[n] = log[n] /\ role'[n] = "leader" /\ running'[n] = running[n]
      /\ current_term'[n] = current_term[n] /\ log[n] \in Seq(Entry)
  BY <1>2 DEF TInv, TypeOK
<1>5. Begins(log[n], log'[n])
  BY <1>4, BeginsSelf
<1>6. \A x \in News : IsAppend(x) => x.leader_commit = commit_index[n]
  BY <1>3 DEF News, ReplyTo, ClientReply, IsAppend
<1> QED
  BY <1>2, <1>3, <1>4, <1>5, <1>6, LeaderCommits

(* A request at the leader.                                                *)
LEMMA OnClientRequestCommits ==
  ASSUME TInv, TInv', AppliedExactly, NEW n \in Server, NEW G, NEW H, History(G), AInv(G),
         Follows(n, G, H), NEW r \in Request, OnClientRequest(n, r)
  PROVE  Commits(n, H)
<1> DEFINE longer == Longer(n, r)
           sent == {AppendEntries(n, p, current_term[n], longer, next_index[n][p],
                                  commit_index[n]) : p \in Peers(n)}
           index == LastIndex(log[n]) + 1
           debts == {d \in pending_clients[n] : d.index # index}
                      \cup {[index |-> index, request_id |-> r]}
<1>1. PICK c \in Reach(n, longer, match_index[n]) :
        /\ ApplyCommitted(n, longer, debts, c)
        /\ msgs' = msgs \cup (sent \cup ReplyTo(n, Paid(n, debts, c)))
  BY DEF OnClientRequest, Send, Longer
<1>2. \A x \in sent : x.leader_commit = commit_index[n]
  BY DEF AppendEntries
<1> HIDE DEF debts, sent
<1>3. \A x \in ReplyTo(n, Paid(n, debts, c)) : ~IsAppend(x)
  BY DEF ReplyTo, ClientReply, IsAppend
<1>4. /\ running[n] /\ role[n] = "leader"
      /\ log' = [log EXCEPT ![n] = longer]
      /\ UNCHANGED <<current_term, role, running, match_index>>
  BY DEF OnClientRequest, Longer, leaderVars
<1>5. /\ match_index[n] \in [Server -> Nat] /\ log[n] \in Seq(Entry)
      /\ log'[n] = longer /\ role'[n] = "leader" /\ running'[n] = running[n]
      /\ current_term'[n] = current_term[n] /\ current_term[n] \in Nat
  BY <1>4 DEF TInv, TypeOK
<1>6. Begins(log[n], longer)
  <2>1. [term |-> current_term[n], request_id |-> r] \in Entry
    BY <1>5 DEF Entry
  <2> QED
    BY <1>5, <2>1 DEF Longer, Begins
<1> HIDE DEF longer
<1>7. \A p \in Peers(n) : Told(n, p, match_index[n][p])
  BY <1>4 DEF AInv, Believes
<1>8. \A x \in News : IsAppend(x) => x.leader_commit = commit_index[n]
  BY <1>1, <1>2, <1>3 DEF News
<1> QED
  BY <1>1, <1>4, <1>5, <1>6, <1>7, <1>8, LeaderCommits

(* Taking the entries of a leader: what it says is committed, comes with   *)
(* them.                                                                   *)
LEMMA TakeEntriesCommits ==
  ASSUME TInv, TInv', AppliedExactly, NEW n \in Server, NEW G, NEW H, History(G), CInv(G),
         AInv(G), NEW m \in msgs, TakeEntries(n, m)
  PROVE  Commits(n, H)
<1> DEFINE c == CommitAfter(n, m)
           ack == AppendEntriesReply(n, m.from, m.term, TRUE, LastNew(m))
           paid == ReplyTo(n, Paid(n, pending_clients[n], c))
<1>1. /\ HearLeader(n, m) /\ Consistent(n, m) /\ running[n] /\ m \in Message
      /\ m.type = "AppendEntries" /\ IsAppend(m)
      /\ m.term \in Nat /\ m.term >= current_term[n] /\ TermAfter(n, m.term) = m.term
  <2>1. HearLeader(n, m) /\ Consistent(n, m)
    BY DEF TakeEntries
  <2> QED
    BY <2>1, HearLeaderStep DEF IsAppend
<1>2. PICK h \in 0 .. Len(m.entries) :
        /\ Held(n, m, h)
        /\ log' = [log EXCEPT ![n] = Taken(n, m, h)]
  BY DEF TakeEntries, Taken
<1>3. /\ ApplyCommitted(n, log'[n], pending_clients[n], c)
      /\ msgs' = msgs \cup ({ack} \cup paid)
      /\ UNCHANGED <<running, match_index>>
  BY <1>1 DEF TakeEntries, Send, LastNew, leaderVars
<1>4. /\ m.prev_log_index \in Nat /\ m.entries \in Seq(Entry) /\ m.leader_commit \in Nat
  BY <1>1, MessageFields
<1>5. /\ log'[n] = Taken(n, m, h) /\ log'[n] \in Seq(Entry)
      /\ applied[n] \in Seq(Entry) /\ commit_index[n] \in Nat
  BY <1>2 DEF TInv, TypeOK
<1>6. /\ GhostType(G) /\ LeadersOn(G) /\ On(log[n], G) /\ log[n] \in Seq(Entry)
      /\ SliceOf(m, G[m.term]) /\ G[m.term] \in Seq(Entry)
  BY <1>1 DEF History, LogsOn, SlicesOn, GhostType, TInv, TypeOK
<1>7. PICK lg \in Seq(Entry) : lg = log'[n]
  BY <1>5
<1>8. Begins(applied[n], lg)
  BY <1>1, <1>2, <1>5, <1>7, TakingKeepsApplied
<1>9. LastNew(m) <= Len(lg)
  BY <1>1, <1>2, <1>4, <1>5, <1>6, <1>7, TakenIsLeaders
<1>10. LastNew(m) \in Nat
  BY <1>4 DEF LastNew
<1>11. m.leader_commit <= LastNew(m)
  BY <1>1 DEF AInv, CommitSettled
<1>12. commit_index[n] <= Len(lg) /\ Len(lg) \in Nat
  BY <1>5, <1>7, <1>8 DEF AppliedExactly, Begins
<1>13. /\ c \in Nat /\ commit_index[n] <= c /\ c <= Len(lg)
       /\ c = commit_index[n] \/ c = m.leader_commit
  BY <1>4, <1>5, <1>9, <1>10, <1>11, <1>12 DEF CommitAfter, Smaller, LastNew
<1> HIDE DEF c
<1>14. /\ \A p \in Server : p # n => commit_index'[p] = commit_index[p]
       /\ commit_index'[n] = c /\ Len(applied'[n]) = c
       /\ Begins(applied[n], applied'[n])
  BY <1>3, <1>7, <1>8, <1>13, ApplyCommits
<1>15. \A x \in News : ~IsAppend(x)
  <2>1. ~IsAppend(ack) /\ \A x \in paid : ~IsAppend(x)
    BY DEF AppendEntriesReply, ReplyTo, ClientReply, IsAppend
  <2> HIDE DEF ack, paid
  <2> QED
    BY <1>3, <2>1 DEF News
<1>16. Raises(n, H)
  BY <1>1, <1>13, <1>14 DEF Raises
<1>17. running'[n] = running[n]
  BY <1>3
<1> QED
  BY <1>14, <1>15, <1>16, <1>17 DEF Commits

(* A server sends its own commit index, or none.                           *)
SendsCommit(n) == \A x \in News : IsAppend(x) => x.leader_commit = commit_index[n]

(* Steps that neither commit nor apply.                                    *)
LEMMA QuietCommits ==
  ASSUME TInv, AppliedExactly, NEW n \in Server, NEW H,
         \/ \E m \in msgs : \/ OnRequestVote(n, m) \/ CountVote(n, m) \/ WinElection(n, m)
                            \/ VoteReplyFromNewerTerm(n, m) \/ AppendReplyFromNewerTerm(n, m)
                            \/ RefuseStaleLeader(n, m) \/ RefuseGap(n, m)
                            \/ OnAppendFailure(n, m)
         \/ ElectionTimeout(n) \/ FireHeartbeat(n) \/ Restart(n)
  PROVE  Commits(n, H)
<1>1. UNCHANGED <<commit_index, applied>> /\ (n \in Faulty \/ running' = running)
  BY DEF OnRequestVote, CountVote, WinElection, VoteReplyFromNewerTerm,
     AppendReplyFromNewerTerm, StepDown, RefuseStaleLeader, RefuseGap, OnAppendFailure,
     ElectionTimeout, Campaign, FireHeartbeat, Restart, commitVars
<1>2. n \in Faulty \/ running'[n] = running[n]
  BY <1>1
<1>3. ASSUME NEW t, BecomeLeader(n, t) PROVE SendsCommit(n)
  <2> DEFINE new == {AppendEntries(n, p, t, log[n], LastIndex(log[n]) + 1, commit_index[n]) :
                       p \in Peers(n)}
  <2>1. msgs' = msgs \cup new
    BY <1>3 DEF BecomeLeader, Send
  <2>2. \A x \in new : x.leader_commit = commit_index[n]
    BY DEF AppendEntries
  <2> HIDE DEF new
  <2> QED
    BY <2>1, <2>2 DEF SendsCommit, News
<1>4. ASSUME msgs' = msgs PROVE SendsCommit(n)
  BY <1>4 DEF SendsCommit, News
<1>5. ASSUME NEW x, msgs' = msgs \cup {x}, ~IsAppend(x) \/ x.leader_commit = commit_index[n]
      PROVE  SendsCommit(n)
  BY <1>5 DEF SendsCommit, News
<1>6. ASSUME NEW m \in msgs, OnRequestVote(n, m) PROVE SendsCommit(n)
  <2> DEFINE x == RequestVoteReply(n, m.from, TermAfter(n, m.term), Grants(n, m))
  <2>1. msgs' = msgs \cup {x}
    BY <1>6 DEF OnRequestVote, Send
  <2>2. ~IsAppend(x)
    BY DEF RequestVoteReply, IsAppend
  <2> HIDE DEF x
  <2> QED
    BY <1>5, <2>1, <2>2
<1>7. ASSUME NEW m \in msgs, RefuseStaleLeader(n, m) \/ RefuseGap(n, m)
      PROVE  SendsCommit(n)
  <2>1. PICK t : msgs' = msgs \cup {AppendEntriesReply(n, m.from, t, FALSE, 0)}
    BY <1>7 DEF RefuseStaleLeader, RefuseGap, Send
  <2> DEFINE x == AppendEntriesReply(n, m.from, t, FALSE, 0)
  <2>2. ~IsAppend(x)
    BY DEF AppendEntriesReply, IsAppend
  <2>3. msgs' = msgs \cup {x}
    BY <2>1
  <2> HIDE DEF x
  <2> QED
    BY <1>5, <2>2, <2>3
<1>8. ASSUME NEW m \in msgs, OnAppendFailure(n, m) PROVE SendsCommit(n)
  <2> DEFINE x == AppendEntries(n, m.from, current_term[n], log[n],
                                NextAfterFailure(n, m.from), commit_index[n])
  <2>1. msgs' = msgs \cup {x}
    BY <1>8 DEF OnAppendFailure, Send
  <2>2. x.leader_commit = commit_index[n]
    BY DEF AppendEntries
  <2> HIDE DEF x
  <2> QED
    BY <1>5, <2>1, <2>2
<1>9. ASSUME ElectionTimeout(n) PROVE SendsCommit(n)
  <2>1. CASE IsMajority({n})
    BY <1>3, <1>9, <2>1 DEF ElectionTimeout
  <2>2. CASE ~IsMajority({n})
    <3> DEFINE new == {RequestVote(n, p, current_term[n] + 1, log[n]) : p \in Peers(n)}
    <3>1. msgs' = msgs \cup new
      BY <1>9, <2>2 DEF ElectionTimeout, AskForVotes, Send
    <3>2. \A x \in new : ~IsAppend(x)
      BY DEF RequestVote, IsAppend
    <3> HIDE DEF new
    <3> QED
      BY <3>1, <3>2 DEF SendsCommit, News
  <2> QED
    BY <2>1, <2>2
<1>10. ASSUME FireHeartbeat(n) PROVE SendsCommit(n)
  <2>1. CASE role[n] = "leader"
    <3> DEFINE new == {AppendEntries(n, p, current_term[n], log[n], next_index[n][p],
                                     commit_index[n]) : p \in Peers(n)}
    <3>1. msgs' = msgs \cup new
      BY <1>10, <2>1 DEF FireHeartbeat, Send
    <3>2. \A x \in new : x.leader_commit = commit_index[n]
      BY DEF AppendEntries
    <3> HIDE DEF new
    <3> QED
      BY <3>1, <3>2 DEF SendsCommit, News
  <2>2. CASE role[n] # "leader"
    BY <1>4, <1>10, <2>2 DEF FireHeartbeat
  <2> QED
    BY <2>1, <2>2
<1>11. ASSUME NEW m \in msgs,
              \/ CountVote(n, m) \/ VoteReplyFromNewerTerm(n, m)
              \/ AppendReplyFromNewerTerm(n, m) \/ Restart(n)
       PROVE  SendsCommit(n)
  BY <1>4, <1>11 DEF CountVote, VoteReplyFromNewerTerm, AppendReplyFromNewerTerm,
     StepDown, Restart
<1>12. ASSUME NEW m \in msgs, WinElection(n, m) PROVE SendsCommit(n)
  BY <1>3, <1>12 DEF WinElection
<1>13. Restart(n) => SendsCommit(n)
  BY <1>4 DEF Restart
<1>14. SendsCommit(n)
  BY <1>6, <1>7, <1>8, <1>9, <1>10, <1>11, <1>12, <1>13
<1> QED
  BY <1>1, <1>2, <1>14, IdleCommits DEF SendsCommit

(* Whatever the step is.                                                   *)
LEMMA NextCommits ==
  ASSUME TInv, TInv', AppliedExactly, NEW n \in Server, StepOf(n), NEW G, NEW H,
         History(G), CInv(G), AInv(G), Follows(n, G, H)
  PROVE  Commits(n, H)
<1>0. \/ \E m \in msgs : OnMessage(n, m)
      \/ \E r \in Request : OnClientRequest(n, r) \/ DiskErrorOnRequest(n, r)
      \/ ElectionTimeout(n)
      \/ FireHeartbeat(n)
      \/ DiskErrorOnTimeout(n)
      \/ Crash(n)
      \/ Restart(n)
  BY DEF StepOf, Step, OnRequest
<1>1. ASSUME NEW m \in msgs, OnMessage(n, m)
      PROVE  Commits(n, H)
  <2>1. CASE \/ OnRequestVote(n, m) \/ CountVote(n, m) \/ WinElection(n, m)
             \/ VoteReplyFromNewerTerm(n, m) \/ AppendReplyFromNewerTerm(n, m)
             \/ RefuseStaleLeader(n, m) \/ RefuseGap(n, m) \/ OnAppendFailure(n, m)
    BY <2>1, QuietCommits
  <2>2. CASE TakeEntries(n, m)
    BY <2>2, TakeEntriesCommits
  <2>3. CASE OnAppendSuccess(n, m)
    BY <2>3, OnAppendSuccessCommits
  <2>4. CASE DiskErrorOnMessage(n, m)
    BY <2>4, DieCommits DEF DiskErrorOnMessage
  <2> QED
    BY <1>1, <2>1, <2>2, <2>3, <2>4 DEF OnMessage
<1>2. ASSUME NEW r \in Request, OnClientRequest(n, r) PROVE Commits(n, H)
  BY <1>2, OnClientRequestCommits
<1>3. ASSUME NEW r \in Request, DiskErrorOnRequest(n, r) PROVE Commits(n, H)
  BY <1>3, DieCommits DEF DiskErrorOnRequest
<1>4. CASE ElectionTimeout(n) \/ FireHeartbeat(n) \/ Restart(n)
  BY <1>4, QuietCommits
<1>5. CASE DiskErrorOnTimeout(n) \/ Crash(n)
  BY <1>5, DieCommits DEF DiskErrorOnTimeout, Crash
<1> QED
  BY <1>0, <1>1, <1>2, <1>3, <1>4, <1>5

-----------------------------------------------------------------------------
(* What is remembered stays true until the next look.                      *)

(* A majority of one is alone.                                             *)
LEMMA AloneIsAll ==
  ASSUME NEW n \in Server, IsMajority({n})
  PROVE  Server = {n}
<1> SUFFICES ASSUME NEW p \in Server, p # n PROVE FALSE
  OBVIOUS
<1>1. Cardinality({n}) = 1 /\ Cardinality({p}) = 1
  BY FS_Singleton
<1>2. IsMajority({p})
  BY <1>1 DEF IsMajority
<1>3. \E v \in Server : v \in {n} /\ v \in {p}
  BY <1>2, MajoritiesMeet
<1> QED
  BY <1>3

(* A server alone has nobody to cut its log.                               *)
LEMMA AloneGrows ==
  ASSUME TInv, TInv', HInv, NEW n \in Server, IsMajority({n}), NEW G, NEW H, History(G),
         Follows(n, G, H)
  PROVE  Begins(disk[n].log, disk'[n].log)
<1>1. Server = {n}
  BY AloneIsAll
<1>2. PICK d \in Seq(Entry), e \in Seq(Entry) : d = disk[n].log /\ e = disk'[n].log
  BY DEF TInv, TypeOK, HardState
<1>3. \A m \in msgs : ~IsAppend(m)
  <2> SUFFICES ASSUME NEW m \in msgs, IsAppend(m) PROVE FALSE
    OBVIOUS
  <2>1. m.from = n /\ m.to = n
    BY <1>1, MessageFields DEF TInv, TypeOK, IsAppend
  <2> QED
    BY <2>1 DEF HInv, NoneToSelf, IsAppend
<1>4. CASE Len(d) = 0
  BY <1>2, <1>4 DEF Begins
<1>5. CASE Len(d) # 0
  <2>1. PICK i \in 1 .. Len(d) : i = Len(d)
    BY <1>5
  <2>2. PICK t \in Nat : t = d[i].term
    <3>1. d[i] \in Entry
      OBVIOUS
    <3> QED
      BY <3>1 DEF Entry
  <2>3. On(d, G) /\ G[t] \in Seq(Entry)
    BY <1>2 DEF History, LogsOn, GhostType
  <2>4. i <= Len(G[t]) /\ \A j \in 1 .. i : d[j] = G[t][j]
    BY <2>2, <2>3 DEF On, AgreesAt
  <2>5. i \in 1 .. Len(G[t]) /\ Has(d, G[t], i)
    BY <2>1, <2>3, <2>4 DEF Has
  <2>6. t <= disk[n].current_term
    <3>1. G[t] # << >>
      BY <2>3, <2>5
    <3>2. \E c \in Server : Led(c, t)
      BY <3>1 DEF History, OnlyLed
    <3> QED
      BY <1>1, <1>3, <3>2 DEF Led
  <2>7. Has(e, G[t], i)
    <3>1. ~Lost(G, n, t, i)
      BY <1>3 DEF Lost
    <3> QED
      BY <1>2, <2>5, <2>6, <3>1 DEF Follows, Keeps
  <2>8. Has(d, e, i)
    BY <2>5, <2>7, HasBoth, HasThrough
  <2>9. Begins(d, e)
    BY <2>1, <2>8 DEF Has, Begins
  <2> QED
    BY <1>2, <2>9
<1> QED
  BY <1>4, <1>5

(* A server that was seen to lead has its log until it is deposed, and     *)
(* once deposed it does not lead again within three events.                *)
LEMMA SeenStays ==
  ASSUME TInv, TInv', EInv, HInv, NEW p \in Server, NEW G, NEW H, History(G), CInv(G),
         Follows(p, G, H), NEW n \in Server, NEW s, NEW o \in 0 .. 2, SeenAt(n, s, o)
  PROVE  SeenAt(n, s, o + 1)'
<1>0. s \in Seq(Entry) /\ o + 1 >= 1 /\ (o >= 1 => o + 1 >= 2) /\ (o >= 2 => o + 1 >= 3)
      /\ ~(o >= 3)
  BY DEF SeenAt
<1>1. p # n => /\ log'[n] = log[n] /\ disk'[n].log = disk[n].log
               /\ role'[n] = role[n] /\ current_term'[n] = current_term[n]
  BY DEF Follows, Carries, OthersStay
<1>2. /\ log[n] \in Seq(Entry) /\ log'[n] \in Seq(Entry)
      /\ disk[n].log \in Seq(Entry) /\ disk'[n].log \in Seq(Entry)
      /\ role[n] \in Role /\ role'[n] \in Role
      /\ current_term[n] \in Nat /\ current_term'[n] \in Nat
  BY DEF TInv, TypeOK, HardState
<1>3. CASE IsMajority({n})
  <2>1. Begins(disk[n].log, disk'[n].log)
    <3>1. p = n
      BY <1>3, AloneIsAll
    <3> QED
      BY <1>3, <3>1, AloneGrows
  <2>2. Begins(s, disk'[n].log)
    BY <1>0, <1>2, <1>3, <2>1, BeginsThrough DEF SeenAt
  <2> QED
    BY <1>0, <1>3, <2>2 DEF SeenAt, IsMajority
<1>4. CASE ~IsMajority({n})
  <2>1. ASSUME p = n, role[n] # "leader", role'[n] = "leader"
        PROVE  role[n] = "candidate" /\ log'[n] = log[n] /\ ~Unvoted(n)
    <3>1. Crowned(n, H, current_term'[n])
      BY <2>1 DEF Follows, LeadsOn
    <3>2. H[current_term'[n]] = log[n]
      BY <3>1 DEF Crowned
    <3>3. log'[n] = log[n]
      BY <2>1, <3>2 DEF Follows, Carries
    <3>4. PICK Q \in SUBSET Server :
            /\ IsMajority(Q)
            /\ \A v \in Q : v = n \/ /\ role[n] = "candidate"
                                     /\ current_term[n] = current_term'[n]
                                     /\ Voted(v, n, current_term'[n])
      BY <3>1 DEF Crowned
    <3>5. PICK v \in Q : v # n
      <4> SUFFICES ASSUME \A v \in Q : v = n PROVE FALSE
        OBVIOUS
      <4>1. Q = {n} \/ Q = {}
        OBVIOUS
      <4>2. PICK v \in Server : v \in Q
        BY <3>4, MajoritiesMeet
      <4>3. Q = {n}
        BY <4>1, <4>2
      <4> QED
        BY <1>4, <3>4, <4>3
    <3> QED
      BY <3>3, <3>4, <3>5 DEF Unvoted, Voted
  <2>2. CASE role[n] # "follower" /\ Begins(s, log[n])
    <3>1. CASE role'[n] = "follower"
      BY <1>0, <1>4, <3>1 DEF SeenAt, IsMajority
    <3>2. CASE p # n
      BY <1>0, <1>1, <1>4, <2>2, <3>2 DEF SeenAt, IsMajority
    <3>3. CASE p = n /\ role'[n] = "candidate"
      <4>1. log'[n] = log[n]
        BY <3>3 DEF Follows, StandsOn
      <4> QED
        BY <1>0, <1>4, <2>2, <3>3, <4>1 DEF SeenAt, IsMajority
    <3>4. CASE p = n /\ role'[n] = "leader"
      <4>1. CASE role[n] # "leader"
        BY <1>0, <1>4, <2>1, <2>2, <3>4, <4>1 DEF SeenAt, IsMajority
      <4>2. CASE role[n] = "leader"
        <5>1. Begins(log[n], log'[n])
          <6>1. CASE current_term'[n] = current_term[n]
            <7>1. log[n] = G[current_term[n]] /\ log'[n] = H[current_term[n]]
              BY <3>4, <4>2, <6>1 DEF History, LeadersHave, Follows, Carries
            <7> QED
              BY <1>2, <7>1 DEF Follows, Carries, Extends
          <6>2. CASE current_term'[n] # current_term[n]
            <7>1. Crowned(n, H, current_term'[n])
              BY <3>4, <6>2 DEF Follows, LeadsOn
            <7>2. log'[n] = log[n]
              BY <3>4, <7>1 DEF Crowned, Follows, Carries
            <7> QED
              BY <1>2, <7>2, BeginsSelf
          <6> QED
            BY <6>1, <6>2
        <5>2. Begins(s, log'[n])
          BY <1>0, <1>2, <2>2, <5>1, BeginsThrough
        <5> QED
          BY <1>0, <1>4, <3>4, <5>2 DEF SeenAt, IsMajority
      <4> QED
        BY <4>1, <4>2
    <3> QED
      BY <1>2, <3>1, <3>2, <3>3, <3>4 DEF Role
  <2>3. CASE o >= 1 /\ role[n] = "follower"
    <3>1. CASE role'[n] = "follower"
      BY <1>0, <1>4, <3>1 DEF SeenAt, IsMajority
    <3>2. CASE role'[n] = "leader"
      BY <1>1, <2>1, <2>3, <3>2
    <3>3. CASE role'[n] = "candidate"
      <4>1. p = n
        BY <1>1, <2>3, <3>3
      <4>2. current_term'[n] = disk[n].current_term + 1 /\ disk[n].current_term \in Nat
        BY <2>3, <3>3, <4>1 DEF Follows, StandsOn, TInv, TypeOK, HardState
      <4>3. ASSUME NEW m \in msgs', IsVote(m), m.to = n PROVE m.term # current_term'[n]
        <5>1. m \in msgs
          BY <4>1, <4>3, NewsFromRight DEF Follows, News
        <5>2. m.term <= disk[n].current_term /\ m.term \in Nat
          <6>1. m \in Message /\ m.type = "RequestVoteReply"
            BY <4>3, <5>1 DEF TInv, TypeOK, IsVote
          <6>2. m.term \in Nat
            BY <6>1, MessageFields
          <6> QED
            BY <4>3, <5>1, <6>2 DEF CInv, VotesAsked
        <5> QED
          BY <4>2, <5>2
      <4>4. Unvoted(n)'
        BY <3>3, <4>3 DEF Unvoted, IsVote
      <4> QED
        BY <1>0, <1>4, <2>3, <4>4 DEF SeenAt, IsMajority
    <3> QED
      BY <1>2, <3>1, <3>2, <3>3 DEF Role
  <2>4. CASE o >= 2 /\ Unvoted(n)
    <3>1. role'[n] # "leader"
      BY <1>1, <2>1, <2>4 DEF Unvoted
    <3> QED
      BY <1>0, <1>4, <2>4, <3>1 DEF SeenAt, IsMajority
  <2> QED
    BY <1>0, <1>4, <2>2, <2>3, <2>4 DEF SeenAt
<1> QED
  BY <1>3, <1>4

(* What was seen is not lost: neither who led, nor what was settled,       *)
LEMMA KnownStays ==
  ASSUME TInv, NEW p \in Server, NEW G, NEW H, History(G), Follows(p, G, H),
         NEW L, LeadersKnown(L), NEW pairs, Sure(G, pairs)
  PROVE  LeadersKnown(L)' /\ Sure(H, pairs)'
<1>1. LeadersKnown(L)'
  <2> SUFFICES ASSUME NEW a \in L
               PROVE  \E t \in Nat, n \in Server : a = <<t, n>> /\ Led(n, t)'
    BY DEF LeadersKnown
  <2>1. PICK t \in Nat, n \in Server : a = <<t, n>> /\ Led(n, t)
    BY DEF LeadersKnown
  <2>2. Led(n, t)'
    BY <2>1, LedGoesOn DEF Follows
  <2> QED
    BY <2>1, <2>2
<1>2. Sure(H, pairs)'
  <2> SUFFICES ASSUME NEW c \in pairs
               PROVE  \E i \in Nat, e \in Entry : c = <<i, e>> /\ SettledAt(H, i, e)'
    BY DEF Sure
  <2>1. PICK i \in Nat, e \in Entry : c = <<i, e>> /\ SettledAt(G, i, e)
    BY DEF Sure
  <2>2. PICK t \in Nat, j \in Nat : Chosen(G, t, j) /\ i \in 1 .. j /\ G[t][i] = e
    BY <2>1 DEF SettledAt
  <2>3. Chosen(H, t, j)'
    BY <2>2, ChosenStays
  <2>4. H[t][i] = e
    <3>1. Begins(G[t], H[t]) /\ G[t] \in Seq(Entry) /\ j \in 1 .. Len(G[t])
      BY <2>2 DEF Follows, Carries, Extends, History, GhostType, Chosen, Own
    <3>2. i \in 1 .. Len(G[t])
      BY <2>2, <3>1
    <3> QED
      BY <2>2, <3>1, <3>2 DEF Begins
  <2> QED
    BY <2>1, <2>2, <2>3, <2>4 DEF SettledAt
<1> QED
  BY <1>1, <1>2

(* nor what covers a commit index, while what is applied is remembered or  *)
(* stays,                                                                  *)
LEMMA BacksStays ==
  ASSUME TInv, NEW p \in Server, NEW G, NEW H, History(G), Follows(p, G, H),
         NEW C, C \cup AppliedPairs \subseteq C \cup AppliedPairs',
         NEW k, Backs(G, C, k)
  PROVE  Backs(H, C, k)'
<1>1. CASE k = 0
  BY <1>1 DEF Backs
<1>2. CASE k # 0
  <2>1. PICK i \in Nat, e \in Entry :
          <<i, e>> \in C \cup AppliedPairs /\ k <= i /\ Chosen(G, e.term, i)
    BY <1>2 DEF Backs
  <2>2. PICK t \in Nat : t = e.term
    BY DEF Entry
  <2>3. Chosen(H, t, i)'
    BY <2>1, <2>2, ChosenStays
  <2> QED
    BY <2>1, <2>2, <2>3 DEF Backs
<1> QED
  BY <1>1, <1>2

LEMMA AppliedPairsStay ==
  ASSUME TInv, TInv', NEW p \in Server, NEW H, Applies(p, H), Commits(p, H), running'[p]
  PROVE  AppliedPairs \subseteq AppliedPairs'
<1> SUFFICES ASSUME NEW c \in AppliedPairs PROVE c \in AppliedPairs'
  OBVIOUS
<1>1. c \in Nat \X Entry
  BY DEF AppliedPairs
<1>2. PICK n \in Server : c[1] \in 1 .. Len(applied[n]) /\ c[2] = applied[n][c[1]]
  BY DEF AppliedPairs
<1>3. Begins(applied[n], applied'[n])
  <2>1. applied[n] \in Seq(Entry)
    BY DEF TInv, TypeOK
  <2>2. CASE n = p
    BY <2>2 DEF Commits
  <2>3. CASE n # p
    BY <2>1, <2>3, BeginsSelf DEF Applies, OthersIdle
  <2> QED
    BY <2>2, <2>3
<1>4. c[1] \in 1 .. Len(applied'[n]) /\ c[2] = applied'[n][c[1]]
  <2>1. PICK a \in Seq(Entry), b \in Seq(Entry) : a = applied[n] /\ b = applied'[n]
    BY DEF TInv, TypeOK
  <2>2. Len(a) \in Nat /\ Len(b) \in Nat
    BY <2>1
  <2> QED
    BY <1>1, <1>2, <1>3, <2>1, <2>2 DEF Begins
<1> QED
  BY <1>1, <1>4 DEF AppliedPairs

(* Every commit index stays covered.                                       *)
LEMMA BackingStays ==
  ASSUME TInv, TInv', AppliedExactly, NEW p \in Server, NEW G, NEW H, History(G),
         Follows(p, G, H), Applies(p, H), Commits(p, H),
         NEW C, C \cup AppliedPairs \subseteq C \cup AppliedPairs', Backing(G, C)
  PROVE  Backing(H, C)'
<1>1. \A k : Backs(G, C, k) => Backs(H, C, k)'
  BY BacksStays
<1>2. \A c \in C : Backs(H, C, c[1])'
  BY <1>1 DEF Backing
<1>3. ASSUME NEW n \in Server PROVE \E k : k = commit_index'[n] /\ Backs(H, C, k)'
  <2>1. CASE n # p
    <3>1. commit_index'[n] = commit_index[n]
      BY <2>1 DEF Commits
    <3> QED
      BY <1>1, <3>1 DEF Backing
  <2>2. CASE n = p
    <3>1. CASE commit_index'[n] = 0
      BY <3>1 DEF Backs
    <3>2. CASE commit_index'[n] = commit_index[n]
      BY <1>1, <3>2 DEF Backing
    <3>3. ASSUME NEW m \in msgs, IsAppend(m), commit_index'[n] = m.leader_commit
          PROVE  Backs(H, C, m.leader_commit)'
      BY <1>1, <3>3 DEF Backing
    <3>4. ASSUME NEW t \in Nat, NEW c \in Nat, c = commit_index'[n], Chosen(H, t, c)',
                 c \in 1 .. Len(applied'[n]), applied'[n][c] = H[t][c]
          PROVE  Backs(H, C, c)'
      <4>1. PICK e \in Entry : e = applied'[n][c]
        <5>1. applied'[n] \in Seq(Entry)
          BY DEF TInv, TypeOK
        <5> QED
          BY <3>4, <5>1
      <4>2. e.term = t
        BY <3>4, <4>1 DEF Chosen, Own
      <4>3. <<c, e>> \in AppliedPairs'
        BY <3>4, <4>1 DEF AppliedPairs
      <4>4. <<c, e>> \in C \cup AppliedPairs' /\ c <= c /\ Chosen(H, e.term, c)'
        BY <3>4, <4>2, <4>3
      <4>5. \E i \in Nat, f \in Entry :
              <<i, f>> \in C \cup AppliedPairs' /\ c <= i /\ Chosen(H, f.term, i)'
        BY <4>4
      <4> QED
        BY <4>5 DEF Backs
    <3> QED
      BY <2>2, <3>1, <3>2, <3>3, <3>4 DEF Commits, Raises
  <2> QED
    BY <2>1, <2>2
<1>4. ASSUME NEW m \in msgs', IsAppend(m) PROVE Backs(H, C, m.leader_commit)'
  <2>1. CASE m \in msgs
    BY <1>1, <1>4, <2>1 DEF Backing
  <2>2. CASE m \in News
    <3>1. m.leader_commit = commit_index[p]
      BY <1>4, <2>2 DEF Commits
    <3> QED
      BY <1>1, <3>1 DEF Backing
  <2> QED
    BY <2>1, <2>2 DEF News
<1> QED
  BY <1>2, <1>3, <1>4 DEF Backing, IsAppend
-----------------------------------------------------------------------------
(* An event: the memory is one event older.                                *)

(* No commit index falls below what is remembered of a server that was up. *)
LEMMA BelowStays ==
  ASSUME TInv, TInv', CommitsMoveOn, NEW W, Below(W),
         \A n \in Server : W[n] # Nil => running[n]
  PROVE  Below(W)'
<1> SUFFICES ASSUME NEW n \in Server, W[n] # Nil, running'[n]
             PROVE  W[n] \in Nat /\ W[n] <= commit_index'[n]
  BY DEF Below
<1>1. W[n] \in Nat /\ W[n] <= commit_index[n]
  BY DEF Below
<1>2. commit_index[n] <= commit_index'[n]
  BY DEF CommitsMoveOn
<1>3. commit_index[n] \in Nat /\ commit_index'[n] \in Nat
  BY DEF TInv, TypeOK
<1> QED
  BY <1>1, <1>2, <1>3

(* A step of a server: what the checkers hold stays true of the cluster.   *)
LEMMA StepKeepsMemory ==
  ASSUME TInv, TInv', EInv, HInv, AppliedExactly, AllUp',
         NEW p \in Server, StepOf(p), NEW G, NEW H, History(G), CInv(G), AInv(G),
         Follows(p, G, H), Applies(p, H), Commits(p, H),
         NEW L, NEW C, NEW F, NEW W, NEW S, NEW k \in Nat, NEW o \in Nat, o < k,
         Memory(G, L, C, F, W, S, k, o), AllUp, k = 1 => Looked(C, F, W)
  PROVE  Memory(H, L, C, F, W, S, k, o + 1)'
<1>1. LeadersKnown(L)' /\ Sure(H, C)' /\ Sure(H, F)'
  BY KnownStays DEF Memory
<1>2. ASSUME k = 1 \/ Faulty = {} PROVE Below(W)'
  <2>1. CommitsMoveOn
    BY CommitStep
  <2>2. \A n \in Server : W[n] # Nil => running[n]
    BY <1>2 DEF AllUp, Looked
  <2>3. Below(W)
    BY <1>2 DEF Memory
  <2> QED
    BY <2>1, <2>2, <2>3, BelowStays
<1>3. ASSUME k = 1 \/ Faulty = {} PROVE Backing(H, C)'
  <2>1. C \cup AppliedPairs \subseteq C \cup AppliedPairs'
    <3>1. CASE k = 1
      BY <3>1 DEF Looked
    <3>2. CASE Faulty = {}
      <4>1. running'[p]
        BY <3>2 DEF AllUp
      <4> QED
        BY <4>1, AppliedPairsStay
    <3> QED
      BY <1>3, <3>1, <3>2
  <2>2. Backing(G, C)
    BY <1>3 DEF Memory
  <2> QED
    BY <2>1, <2>2, BackingStays
<1>4. ASSUME k <= 3, NEW n \in Server, S[n] # Nil PROVE SeenAt(n, S[n], o + 1)'
  <2>1. o \in 0 .. 2
    BY <1>4
  <2>2. SeenAt(n, S[n], o)
    BY <1>4 DEF Memory
  <2> QED
    BY <2>1, <2>2, SeenStays
<1> QED
  BY <1>1, <1>2, <1>3, <1>4 DEF Memory

(* Events that no server has a part in.                                    *)
LEMMA IdleKeepsMemory ==
  ASSUME UNCHANGED vars, NEW G, NEW L, NEW C, NEW F, NEW W, NEW S, NEW k,
         NEW o \in Nat, NEW q \in Nat, o <= q, Memory(G, L, C, F, W, S, k, o)
  PROVE  Memory(G, L, C, F, W, S, k, q)'
<1>1. UNCHANGED <<current_term, log, disk, running, role, applied, commit_index, msgs>>
  BY DEF vars
<1>2. \A t, i : Chosen(G, t, i)' <=> Chosen(G, t, i)
  <2>1. \A x, t, i : Acked(x, t, i)' <=> Acked(x, t, i)
    BY <1>1 DEF Acked, Led
  <2> QED
    BY <2>1 DEF Chosen, Own, IsMajority
<1>3. LeadersKnown(L)'
  <2>1. \A n, t : Led(n, t)' <=> Led(n, t)
    BY <1>1 DEF Led
  <2> QED
    BY <2>1 DEF Memory, LeadersKnown
<1>4. \A pairs : Sure(G, pairs) => Sure(G, pairs)'
  BY <1>2 DEF Sure, SettledAt
<1>5. AppliedPairs' = AppliedPairs
  BY <1>1 DEF AppliedPairs
<1>6. \A i : Backs(G, C, i) => Backs(G, C, i)'
  BY <1>2, <1>5 DEF Backs
<1>7. Backing(G, C) => Backing(G, C)'
  BY <1>1, <1>6 DEF Backing, IsAppend
<1>8. Below(W) => Below(W)'
  BY <1>1 DEF Below
<1>9. ASSUME NEW n, NEW s, SeenAt(n, s, o) PROVE SeenAt(n, s, q)'
  <2>1. (o >= 1 => q >= 1) /\ (o >= 2 => q >= 2) /\ (o >= 3 => q >= 3)
    OBVIOUS
  <2>2. Unvoted(n) => Unvoted(n)'
    BY <1>1 DEF Unvoted, IsVote
  <2> QED
    BY <1>1, <1>9, <2>1, <2>2 DEF SeenAt, IsMajority
<1> QED
  BY <1>3, <1>4, <1>7, <1>8, <1>9 DEF Memory

(* What holds of the nodes, G being what their leaders wrote.              *)
Nodes(G) == History(G) /\ CInv(G) /\ AInv(G)
Sound == TInv /\ EInv /\ HInv /\ AppliedExactly /\ AllUp

(* There is one leader per term after a step, too.                         *)
LEMMA OneLeaderNext == (TInv /\ EInv => ElectionSafety)'
<1>1. TInv /\ EInv => ElectionSafety
  BY OneLeader
<1> QED
  BY <1>1, PTL

(* Every event leaves the nodes sound, and the memory one event older.     *)
LEMMA EventKeeps ==
  ASSUME Sound, [Next]_vars, NEW G, Nodes(G),
         NEW L, NEW C, NEW F, NEW W, NEW S, NEW k \in Nat, NEW o \in Nat, o < k
  PROVE  /\ Sound'
         /\ \E H : /\ Nodes(H)'
                   /\ /\ Memory(G, L, C, F, W, S, k, o)
                      /\ k = 1 => Looked(C, F, W)
                      => Memory(H, L, C, F, W, S, k, o + 1)'
<1>1. TInv' /\ EInv' /\ HInv'
  BY TInvStep, EInvStep, HInvStep DEF Sound
<1>2. ElectionSafety'
  BY <1>1, OneLeaderNext
<1>3. CASE Next
  <2>1. PICK n \in Server : StepOf(n)
    BY <1>3 DEF Next, StepOf
  <2>2. PICK H : /\ Follows(n, G, H) /\ Applies(n, H)
                 /\ History(H)' /\ CInv(H)' /\ AInv(H)'
    BY <1>1, <1>2, <2>1, StepCarriesOn DEF Sound, Nodes
  <2>3. Applies(n, H)
    BY <2>2
  <2>4. Commits(n, H)
    BY <1>1, <2>1, <2>2, NextCommits DEF Sound, Nodes
  <2>5. Nodes(H)'
    BY <2>2 DEF Nodes
  <2>6. AppliedExactly'
    <3> SUFFICES ASSUME NEW p \in Server PROVE Len(applied'[p]) = commit_index'[p]
      BY DEF AppliedExactly
    <3>1. CASE p = n
      BY <2>4, <3>1 DEF Commits
    <3>2. CASE p # n
      BY <2>3, <2>4, <3>2 DEF Commits, Applies, OthersIdle, Sound, AppliedExactly
    <3> QED
      BY <3>1, <3>2
  <2>7. AllUp'
    BY <2>3, <2>4 DEF Commits, Applies, OthersIdle, Sound, AllUp
  <2>8. ASSUME Memory(G, L, C, F, W, S, k, o), k = 1 => Looked(C, F, W)
        PROVE  Memory(H, L, C, F, W, S, k, o + 1)'
    BY <1>1, <2>1, <2>2, <2>3, <2>4, <2>7, <2>8, StepKeepsMemory DEF Sound, Nodes
  <2> QED
    BY <1>1, <2>5, <2>6, <2>7, <2>8 DEF Sound
<1>4. CASE UNCHANGED vars
  <2>1. Nodes(G)'
    BY <1>4, CommitStutter, ApplyStutter DEF Nodes
  <2>2. AppliedExactly' /\ AllUp'
    BY <1>4 DEF Sound, AppliedExactly, AllUp, vars
  <2>3. Memory(G, L, C, F, W, S, k, o) => Memory(G, L, C, F, W, S, k, o + 1)'
    <3>1. o <= o + 1 /\ o + 1 \in Nat
      OBVIOUS
    <3> QED
      BY <1>4, <3>1, IdleKeepsMemory
  <2> QED
    BY <1>1, <2>1, <2>2, <2>3 DEF Sound
<1> QED
  BY <1>3, <1>4
-----------------------------------------------------------------------------
(* A look after an event.                                                  *)

(* A leader's term is over, and all that is committed was seen: or there   *)
(* was a later leader.                                                     *)
OverAndSeen(n, C) == \E d \in C \cup AppliedPairs : d[2].term > current_term[n]
OverAndUnseen(n, k) ==
  /\ ~(k = 1 \/ Faulty = {})
  /\ \E m \in msgs : m.type = "AppendEntries" /\ m.term > current_term[n]

(* What the six checkers can find with the memory of stride k, and that a  *)
(* look renews the memory.                                                 *)
Finds(L, C, F, W, S, k) ==
  /\ ~Conflicts(L \cup Claims(View))
  /\ k <= 3 => \A n \in LeadersIn(View) : S[n] # Nil => IsPrefix(S[n], log[n])
  /\ ~LogsDoNotMatch(View)
  /\ CommittedSeen(C) = C \cup AppliedPairs
  /\ \A n \in LeadersIn(View) : \A c \in CommittedSeen(C) :
       \/ HasEntry(log[n], c[1]) /\ log[n][c[1]] = c[2]
       \/ OverAndSeen(n, C)
       \/ OverAndUnseen(n, k)
  /\ \A n \in Server : ~(Len(applied[n]) > LastIndex(log[n]))
  /\ ~Conflicts(AppliedSeen(F))
  /\ \A n \in Server : ~(Len(applied[n]) > commit_index[n])
  /\ k = 1 \/ Faulty = {} =>
       \A n \in Server : running[n] /\ W[n] # Nil => ~(commit_index[n] < W[n])
Renews(G, L, C, F, W, S, k) ==
  /\ Memory(G, L \cup Claims(View), CommittedSeen(C), AppliedSeen(F),
            HighWaterAfter(View), SeenAfter(View), k, 0)
  /\ Looked(CommittedSeen(C), AppliedSeen(F), HighWaterAfter(View))
Looks ==
  \A G, L, C, F, W, S, k :
    Sound /\ Nodes(G) /\ k \in Nat \ {0} /\ Memory(G, L, C, F, W, S, k, k) =>
      Finds(L, C, F, W, S, k) /\ Renews(G, L, C, F, W, S, k)

(* At every sound state they find no more,                               *)
LEMMA LooksHolds == Looks
<1> SUFFICES ASSUME Sound, NEW G, NEW L, NEW C, NEW F, NEW W, NEW S, NEW k,
                    Nodes(G), k \in Nat \ {0}, Memory(G, L, C, F, W, S, k, k)
             PROVE  Finds(L, C, F, W, S, k) /\ Renews(G, L, C, F, W, S, k)
  BY DEF Looks
<1>1. /\ TInv /\ EInv /\ AppliedExactly
      /\ History(G) /\ CInv(G) /\ AInv(G)
      /\ LeadersKnown(L) /\ Sure(G, C) /\ Sure(G, F)
  BY DEF Sound, Nodes, Memory
<1>2. Renews(G, L, C, F, W, S, k)
  BY <1>1, LookRemembers DEF Renews
<1>3. ~Conflicts(L \cup Claims(View)) /\ ~LogsDoNotMatch(View)
  BY <1>1, OneLeaderSeen, LogsSeenMatch
<1>4. ASSUME k <= 3, NEW n \in LeadersIn(View), S[n] # Nil PROVE IsPrefix(S[n], log[n])
  <2>1. k \in 0 .. 3 /\ n \in Server
    BY <1>4 DEF LeadersIn
  <2>2. SeenAt(n, S[n], k)
    BY <1>4, <2>1 DEF Memory
  <2> QED
    BY <1>1, <1>4, <2>1, <2>2, LeaderLogSeen
<1>5. CommittedSeen(C) = C \cup AppliedPairs /\ AppliedSeen(F) = F \cup AppliedPairs
  BY <1>1, LookAdds
<1>6. ASSUME NEW n \in LeadersIn(View), NEW c \in CommittedSeen(C),
             ~(HasEntry(log[n], c[1]) /\ log[n][c[1]] = c[2])
      PROVE  OverAndSeen(n, C) \/ OverAndUnseen(n, k)
  <2>1. /\ \E m \in msgs : m.type = "AppendEntries" /\ m.term > current_term[n]
        /\ Backing(G, C) => \E d \in C \cup AppliedPairs : d[2].term > current_term[n]
    BY <1>1, <1>5, <1>6, IncompleteIsLate
  <2>2. k = 1 \/ Faulty = {} => Backing(G, C)
    BY DEF Memory
  <2> QED
    BY <2>1, <2>2 DEF OverAndSeen, OverAndUnseen
<1>7. ASSUME NEW n \in Server PROVE ~(Len(applied[n]) > LastIndex(log[n]))
  <2>1. PICK a \in Seq(Entry), l \in Seq(Entry) : a = applied[n] /\ l = log[n]
    BY <1>1 DEF TInv, TypeOK
  <2>2. Len(a) <= Len(l)
    BY <1>1, <2>1, AppliedIsSure
  <2>3. Len(a) \in Nat /\ Len(l) \in Nat
    BY <2>1
  <2> QED
    BY <2>1, <2>2, <2>3 DEF LastIndex
<1>8. ~Conflicts(AppliedSeen(F))
  <2>1. Sure(G, F \cup AppliedPairs)
    BY <1>1, AppliedIsSure DEF Sure
  <2> QED
    BY <1>1, <1>5, <2>1, SureAgree
<1>9. \A n \in Server : commit_index[n] \in Nat
  BY <1>1 DEF TInv, TypeOK
<1>10. \A n \in Server : ~(Len(applied[n]) > commit_index[n])
  BY <1>1, <1>9 DEF AppliedExactly
<1>11. ASSUME k = 1 \/ Faulty = {}, NEW n \in Server, running[n], W[n] # Nil
       PROVE  ~(commit_index[n] < W[n])
  <2>1. W[n] \in Nat /\ W[n] <= commit_index[n]
    BY <1>11 DEF Memory, Below
  <2> QED
    BY <1>9, <2>1
<1> QED
  BY <1>2, <1>3, <1>4, <1>5, <1>6, <1>7, <1>8, <1>10, <1>11 DEF Finds

(* and so after a step.                                                  *)
LEMMA LooksNext == Looks'
  BY LooksHolds, PTL

(* The look of the checkers, in these words.                               *)
LEMMA LookIs ==
  /\ Claims(View') = Claims(View)'
  /\ LeadersIn(View') = LeadersIn(View)'
  /\ SeenAfter(View') = SeenAfter(View)'
  /\ HighWaterAfter(View') = HighWaterAfter(View)'
  /\ LogsDoNotMatch(View') <=> LogsDoNotMatch(View)'
  /\ \A C : C = committed => CommittedAfter(View') = CommittedSeen(C)'
  /\ \A F : F = first_applied => AppliedAfter(View') = AppliedSeen(F)'
<1>1. Claims(View') = Claims(View)'
  BY DEF Claims, LeadersIn, View
<1>2. LeadersIn(View') = LeadersIn(View)'
  BY DEF LeadersIn, View
<1>3. SeenAfter(View') = SeenAfter(View)'
  BY DEF SeenAfter, LeadersIn, View
<1>4. HighWaterAfter(View') = HighWaterAfter(View)'
  BY DEF HighWaterAfter, View
<1>5. LogsDoNotMatch(View') <=> LogsDoNotMatch(View)'
  BY DEF LogsDoNotMatch, View
<1>6. ASSUME NEW C, C = committed PROVE CommittedAfter(View') = CommittedSeen(C)'
  BY <1>6 DEF CommittedAfter, CommittedSeen, View
<1>7. ASSUME NEW F, F = first_applied PROVE AppliedAfter(View') = AppliedSeen(F)'
  BY <1>7 DEF AppliedAfter, AppliedSeen, View
<1> QED
  BY <1>1, <1>2, <1>3, <1>4, <1>5, <1>6, <1>7
(* A report is explained.                                                  *)
LEMMA ReportExplained ==
  ASSUME NEW L, NEW C, NEW F, NEW W, NEW S, NEW k \in Nat \ {0},
         L = leaders, C = committed, F = first_applied, W = high_water, S = seen,
         k = stride, UNCHANGED stride, Finds(L, C, F, W, S, k)', Report(View')
  PROVE  AlarmsExplained'
<1>1. PICK i \in DOMAIN AllCheckers :
        Reports(AllCheckers[i], View') /\ violation' = AllCheckers[i] /\ UNCHANGED memoryVars
  BY DEF Report
<1>2. i \in 1 .. 6
  BY DEF AllCheckers
<1>3. CommittedAfter(View)' = (C \cup AppliedPairs)'
  BY <1>1 DEF Finds, CommittedAfter, CommittedSeen, View, memoryVars
<1>4. i # 1
  <2> SUFFICES ASSUME i = 1 PROVE FALSE
    OBVIOUS
  <2>1. TwoLeaders(View')
    BY <1>1 DEF Reports, AllCheckers
  <2> QED
    BY <2>1, LookIs DEF TwoLeaders, Finds
<1>5. ASSUME i = 2 PROVE violation' = "leader_append_only" /\ stride' > 3
  <2>1. violation' = "leader_append_only" /\ LeaderChangedLog(View')
    BY <1>1, <1>5 DEF Reports, AllCheckers
  <2>2. PICK n \in LeadersIn(View') : S[n] # Nil /\ ~IsPrefix(S[n], View'.log[n])
    BY <2>1 DEF LeaderChangedLog
  <2>3. n \in LeadersIn(View)' /\ ~IsPrefix(S[n], log'[n])
    BY <2>2, LookIs DEF View
  <2>4. ~(k <= 3)
    BY <2>2, <2>3 DEF Finds
  <2> QED
    BY <2>1, <2>4
<1>6. i # 3
  <2> SUFFICES ASSUME i = 3 PROVE FALSE
    OBVIOUS
  <2>1. LogsDoNotMatch(View')
    BY <1>1 DEF Reports, AllCheckers
  <2> QED
    BY <2>1, LookIs DEF Finds
<1>7. ASSUME i = 4
      PROVE  violation' = "leader_completeness" /\ (LateLeader' \/ (CrashUnseen' /\ Superseded'))
  <2>1. violation' = "leader_completeness" /\ LeaderIncomplete(View')
    BY <1>1, <1>7 DEF Reports, AllCheckers
  <2>2. PICK n \in LeadersIn(View'), c \in CommittedAfter(View') :
          ~(HasEntry(View'.log[n], c[1]) /\ View'.log[n][c[1]] = c[2])
    BY <2>1 DEF LeaderIncomplete
  <2>3. /\ n \in LeadersIn(View)' /\ c \in CommittedSeen(C)'
        /\ ~(HasEntry(log'[n], c[1]) /\ log'[n][c[1]] = c[2])
    BY <2>2, LookIs DEF View
  <2>4. OverAndSeen(n, C)' \/ OverAndUnseen(n, k)'
    BY <2>3 DEF Finds
  <2>5. CASE OverAndSeen(n, C)'
    <3>1. PICK d \in C \cup AppliedPairs' : d[2].term > current_term'[n]
      BY <2>5 DEF OverAndSeen
    <3>2. d \in CommittedAfter(View)'
      BY <1>3, <3>1
    <3>3. LateLeader'
      BY <2>3, <3>1, <3>2 DEF LateLeader
    <3> QED
      BY <2>1, <3>3
  <2>6. CASE OverAndUnseen(n, k)'
    <3>1. Superseded'
      BY <2>3, <2>6 DEF Superseded, OverAndUnseen
    <3>2. CrashUnseen'
      BY <2>6 DEF CrashUnseen, OverAndUnseen
    <3> QED
      BY <2>1, <3>1, <3>2
  <2> QED
    BY <2>4, <2>5, <2>6
<1>8. i # 5
  <2> SUFFICES ASSUME i = 5 PROVE FALSE
    OBVIOUS
  <2>1. AppliedTwice(View')
    BY <1>1 DEF Reports, AllCheckers
  <2>2. CASE \E n \in Server : View'.last_applied[n] > LastIndex(View'.log[n])
    BY <2>2 DEF View, Finds
  <2>3. CASE Conflicts(AppliedAfter(View'))
    BY <2>3, LookIs DEF Finds
  <2> QED
    BY <2>1, <2>2, <2>3 DEF AppliedTwice
<1>9. ASSUME i = 6 PROVE violation' = "monotonic_progress" /\ CrashUnseen'
  <2>1. violation' = "monotonic_progress" /\ WentBack(View')
    BY <1>1, <1>9 DEF Reports, AllCheckers
  <2>2. PICK n \in Server :
          /\ running'[n]
          /\ \/ Len(applied'[n]) > commit_index'[n]
             \/ W[n] # Nil /\ commit_index'[n] < W[n]
    BY <2>1 DEF WentBack, View
  <2>3. ~(k = 1 \/ Faulty = {})
    BY <2>2 DEF Finds
  <2> QED
    BY <2>1, <2>3 DEF CrashUnseen
<1> QED
  BY <1>2, <1>4, <1>5, <1>6, <1>7, <1>8, <1>9 DEF AlarmsExplained

-----------------------------------------------------------------------------
(* The invariant of a checked run.                                         *)
Recalls(G) ==
  /\ Memory(G, leaders, committed, first_applied, high_water, seen, stride, observations)
  /\ stride = 1 => Looked(committed, first_applied, high_water)
QInv ==
  /\ check \in BOOLEAN /\ stride \in Nat \ {0} /\ observations \in 0 .. stride - 1
  /\ AlarmsExplained
  /\ Sound
  /\ \E G : Nodes(G) /\ (check /\ violation = Nil => Recalls(G))

(* An event, and the look after it if one is due.                        *)
LEMMA ObserveKeeps ==
  ASSUME QInv, violation = Nil, [Next]_vars, Observe(View')
  PROVE  QInv'
<1>1. PICK G : Nodes(G) /\ (check => Recalls(G))
  BY DEF QInv
<1>2. PICK L, C, F, W, S, k, o :
        /\ L = leaders /\ C = committed /\ F = first_applied /\ W = high_water /\ S = seen
        /\ k = stride /\ o = observations
  OBVIOUS
<1>3. Sound /\ k \in Nat \ {0} /\ o \in 0 .. k - 1 /\ check \in BOOLEAN
  BY <1>2 DEF QInv
<1>4. Sound' /\ \E H : /\ Nodes(H)'
                       /\ check => Memory(H, L, C, F, W, S, k, o + 1)'
  <2>1. k \in Nat /\ o \in Nat /\ o < k
    BY <1>3
  <2>2. check => Memory(G, L, C, F, W, S, k, o) /\ (k = 1 => Looked(C, F, W))
    BY <1>1, <1>2 DEF Recalls
  <2> QED
    BY <1>1, <1>3, <2>1, <2>2, EventKeeps
<1>5. PICK H : Nodes(H)' /\ (check => Memory(H, L, C, F, W, S, k, o + 1)')
  BY <1>4
<1>6. /\ check' = check /\ stride' = k /\ observations' = (o + 1) % k
      /\ observations' \in 0 .. k - 1
      /\ observations' = 0 => o + 1 = k
      /\ observations' # 0 => observations' = o + 1 /\ k # 1
  <2>1. check' = check /\ stride' = k /\ observations' = (o + 1) % k
    BY <1>2 DEF Observe
  <2>2. CASE o + 1 = k
    <3>1. (o + 1) % k = 0
      BY <1>3, <2>2
    <3> QED
      BY <1>3, <2>1, <2>2, <3>1
  <2>3. CASE o + 1 < k
    <3>1. (o + 1) % k = o + 1
      BY <1>3, <2>3
    <3> QED
      BY <1>3, <2>1, <2>3, <3>1
  <2> QED
    BY <1>3, <2>2, <2>3
<1>7. CASE ~(check /\ observations' = 0)
  <2>1. UNCHANGED <<violation, leaders, seen, committed, first_applied, high_water>>
    BY <1>7 DEF Observe, memoryVars
  <2>2. AlarmsExplained'
    BY <2>1 DEF AlarmsExplained
  <2>3. ASSUME check PROVE Recalls(H)'
    BY <1>2, <1>5, <1>6, <1>7, <2>1, <2>3 DEF Recalls
  <2> QED
    BY <1>3, <1>4, <1>5, <1>6, <2>1, <2>2, <2>3 DEF QInv
<1>8. CASE check /\ observations' = 0
  <2>1. Finds(L, C, F, W, S, k)' /\ Renews(H, L, C, F, W, S, k)'
    BY <1>3, <1>4, <1>5, <1>6, <1>8, LooksNext DEF Looks
  <2>2. CASE Report(View')
    <3>1. AlarmsExplained'
      BY <1>2, <1>3, <1>6, <2>1, <2>2, ReportExplained
    <3>2. violation' # Nil
      BY <2>2, NamesAssumption DEF Report
    <3> QED
      BY <1>3, <1>4, <1>5, <1>6, <3>1, <3>2 DEF QInv
  <2>3. CASE Remember(View')
    <3>1. AlarmsExplained'
      BY <2>3 DEF AlarmsExplained, Remember
    <3>2. /\ leaders' = (L \cup Claims(View))' /\ seen' = SeenAfter(View)'
          /\ committed' = CommittedSeen(C)' /\ first_applied' = AppliedSeen(F)'
          /\ high_water' = HighWaterAfter(View)'
      BY <1>2, <2>3, LookIs DEF Remember
    <3>3. Recalls(H)'
      BY <1>6, <1>8, <2>1, <3>2 DEF Recalls, Renews
    <3> QED
      BY <1>3, <1>4, <1>5, <1>6, <3>1, <3>3 DEF QInv
  <2> QED
    BY <1>8, <2>2, <2>3 DEF Observe
<1> QED
  BY <1>3, <1>7, <1>8
(* It holds at the start,                                                *)
LEMMA QInvInit == Init /\ CheckInit => QInv
<1> SUFFICES ASSUME Init, CheckInit PROVE QInv
  OBVIOUS
<1>1. /\ msgs = {}
      /\ \A n \in Server : running[n] /\ applied[n] = << >> /\ commit_index[n] = 0
  BY DEF Init, SENTINEL_INDEX
<1>2. Sound
  <2>1. TInv /\ EInv /\ HInv
    BY TInvInit, EInvInit, HInvInit
  <2> QED
    BY <1>1, <2>1 DEF Sound, AppliedExactly, AllUp
<1>3. PICK G : Nodes(G)
  BY PInvInit DEF PInv, Nodes
<1>4. AppliedPairs = {}
  BY <1>1 DEF AppliedPairs
<1>5. Recalls(G)
  <2>1. LeadersKnown({}) /\ Sure(G, {})
    BY DEF LeadersKnown, Sure
  <2>2. Backing(G, {})
    BY <1>1 DEF Backing, Backs
  <2>3. Below([n \in Server |-> Nil])
    BY DEF Below
  <2> QED
    BY <1>4, <2>1, <2>2, <2>3 DEF CheckInit, Recalls, Memory, Looked
<1>6. check \in BOOLEAN /\ stride \in Nat \ {0} /\ observations \in 0 .. stride - 1
  BY StridesAssumption DEF CheckInit
<1> QED
  BY <1>2, <1>3, <1>5, <1>6 DEF QInv, AlarmsExplained, CheckInit

(* every event keeps it,                                                 *)
LEMMA QInvStep == QInv /\ [CheckedNext]_<<vars, checkVars>> => QInv'
<1> SUFFICES ASSUME QInv, [CheckedNext]_<<vars, checkVars>> PROVE QInv'
  OBVIOUS
<1>1. CASE ServerEvent \/ OtherEvent
  BY <1>1, ObserveKeeps DEF ServerEvent, OtherEvent
<1>2. CASE UNCHANGED <<vars, checkVars>>
  <2>1. /\ UNCHANGED vars
        /\ UNCHANGED <<check, stride, observations, violation, leaders, seen, committed,
                       first_applied, high_water>>
    BY <1>2 DEF checkVars, memoryVars
  <2>2. UNCHANGED <<running, role, current_term, log, commit_index, applied, msgs>>
    BY <2>1 DEF vars
  <2>3. PICK G : Nodes(G) /\ (check /\ violation = Nil => Recalls(G))
    BY DEF QInv
  <2>4. PICK L, C, F, W, S, k, o :
          /\ L = leaders /\ C = committed /\ F = first_applied /\ W = high_water /\ S = seen
          /\ k = stride /\ o = observations
    OBVIOUS
  <2>5. Sound /\ k \in Nat \ {0} /\ o \in 0 .. k - 1
    BY <2>4 DEF QInv
  <2>6. Sound'
    <3>1. k \in Nat /\ o \in Nat /\ o < k
      BY <2>5
    <3> QED
      BY <2>1, <2>3, <2>5, <3>1, EventKeeps
  <2>7. Nodes(G)'
    BY <2>1, <2>3, CommitStutter, ApplyStutter DEF Nodes
  <2>8. ASSUME check /\ violation = Nil PROVE Recalls(G)'
    <3>1. Memory(G, L, C, F, W, S, k, o) /\ (k = 1 => Looked(C, F, W))
      BY <2>3, <2>4, <2>8 DEF Recalls
    <3>2. Memory(G, L, C, F, W, S, k, o)'
      <4>1. o \in Nat /\ o <= o
        BY <2>5
      <4> QED
        BY <2>1, <3>1, <4>1, IdleKeepsMemory
    <3>3. k = 1 => Looked(C, F, W)'
      <4>1. AppliedPairs' = AppliedPairs
        BY <2>2 DEF AppliedPairs
      <4> QED
        BY <2>2, <3>1, <4>1 DEF Looked
    <3> QED
      BY <2>1, <2>4, <3>2, <3>3 DEF Recalls
  <2>9. AlarmsExplained'
    <3>1. LeadersIn(View)' = LeadersIn(View)
      BY <2>2 DEF LeadersIn, View
    <3>2. CommittedAfter(View)' = CommittedAfter(View)
      BY <2>1, <2>2 DEF CommittedAfter, View
    <3>3. LateLeader' <=> LateLeader
      BY <2>2, <3>1, <3>2 DEF LateLeader
    <3>4. Superseded' <=> Superseded
      BY <2>2, <3>1 DEF Superseded
    <3> QED
      BY <2>1, <3>3, <3>4 DEF QInv, AlarmsExplained, CrashUnseen
  <2> QED
    BY <2>1, <2>3, <2>6, <2>7, <2>8, <2>9 DEF QInv
<1> QED
  BY <1>1, <1>2 DEF CheckedNext, QInv, ServerEvent, OtherEvent

(* and so it holds throughout.                                           *)
LEMMA QInvHolds == CheckedSpec => []QInv
  BY QInvInit, QInvStep, PTL DEF CheckedSpec

-----------------------------------------------------------------------------
(* A checker that stops a run has found a fault of the nodes, but for the  *)
(* three mistakes that AlarmsExplained names: whatever the stride, however *)
(* many servers crash, and however the messages travel.                    *)
THEOREM AlarmsAreExplained == CheckedSpec => []AlarmsExplained
<1>1. QInv => AlarmsExplained
  BY DEF QInv
<1> QED
  BY <1>1, QInvHolds, PTL

(* A run that is looked at after every event remembers, for every index,   *)
(* the one entry that each server applied there.                           *)
THEOREM CheckersRemember == CheckedSpec => []RemembersApplied
<1>1. ASSUME QInv PROVE RemembersApplied
  <2> SUFFICES ASSUME check, stride = 1, violation = Nil,
                      NEW n \in Server, NEW i \in DOMAIN applied[n]
               PROVE  {c \in first_applied : c[1] = i} = {<<i, applied[n][i]>>}
    BY DEF RemembersApplied
  <2>1. PICK G : Nodes(G) /\ Recalls(G)
    BY <1>1 DEF QInv
  <2>2. i \in 1 .. Len(applied[n])
    BY <1>1 DEF QInv, Sound, TInv, TypeOK
  <2>3. AppliedPairs \subseteq first_applied /\ Sure(G, first_applied)
    BY <2>1 DEF Recalls, Looked, Memory
  <2>4. <<i, applied[n][i]>> \in first_applied
    BY <1>1, <2>1, <2>2, <2>3, AppliedIsSure DEF QInv, Sound, Nodes
  <2>5. ~Conflicts(first_applied)
    BY <2>1, <2>3, SureAgree DEF Nodes
  <2>6. ASSUME NEW c \in first_applied, c[1] = i PROVE c = <<i, applied[n][i]>>
    BY <2>4, <2>5, <2>6 DEF Conflicts
  <2> QED
    BY <2>4, <2>6
<1> QED
  BY <1>1, QInvHolds, PTL
=============================================================================
