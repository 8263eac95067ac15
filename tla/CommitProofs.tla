---------------------------- MODULE CommitProofs ----------------------------
(***************************************************************************)
(* What a majority holds of a leader's own entries, every later leader has *)
(* too, and what servers apply rests on that, for every cluster and        *)
(* through every crash, torn write and restart.                            *)
(*                                                                         *)
(* The argument: let G be the history of the leaders' logs of              *)
(* RaftNodeProofs. A success reply of term t says that the sender's disk   *)
(* holds a beginning of G[t]; the disk still holds it unless a later       *)
(* leader, whose log lacks it, has spoken to the sender. A voter           *)
(* compares its log with that of the candidate, so a candidate it votes    *)
(* for has what the voter had acknowledged, or a leader in between had     *)
(* already won without it. Hence a leader that lacks an entry of G[t]      *)
(* won by a majority, now past term t, none of which had acknowledged it   *)
(* or ever will; and a majority that did acknowledge it rules that out.    *)
(***************************************************************************)
EXTENDS RaftNodeProofs

(* a and b have their first i entries in common.                           *)
Has(a, b, i) == i <= Len(a) /\ i <= Len(b) /\ \A j \in 1 .. i : a[j] = b[j]

IsAsk(m) == m.type = "RequestVote"
IsAck(m) == m.type = "AppendEntriesReply" /\ m.success

(* x has held the first i entries of the log of term t's leader: it led    *)
(* the term, or it told the leader so.                                     *)
Acked(x, t, i) ==
  \/ Led(x, t)
  \/ \E m \in msgs : IsAck(m) /\ m.from = x /\ m.term = t /\ i <= m.match_index

Spoke(w) == \E m \in msgs : IsAppend(m) /\ m.term = w

(* A leader of term w got to work: it spoke, or wrote, or it still leads.  *)
Showed(G, w) == Spoke(w) \/ G[w] # << >>
Reigned(G, w) ==
  Showed(G, w) \/ \E c \in Server : role[c] = "leader" /\ current_term[c] = w

(* x heard a later leader that lacks the first i entries of G[t].          *)
Lost(G, x, t, i) ==
  \E m \in msgs : IsAppend(m) /\ m.to = x /\ m.term > t /\ ~Has(G[m.term], G[t], i)

(* Some later leader that did something lacks them.                        *)
Overruled(G, t, i) ==
  \E w \in Nat : w > t /\ Showed(G, w) /\ ~Has(G[w], G[t], i)

(* Entry i of the log of term t is of that term.                           *)
Own(G, t, i) == i \in 1 .. Len(G[t]) /\ G[t][i].term = t

-----------------------------------------------------------------------------
(* The invariant.                                                          *)

(* What was acknowledged is on the disk, until a later leader overrules.   *)
AcksHeld(G) ==
  \A x \in Server : \A t \in Nat : \A i \in 1 .. Len(G[t]) :
    Acked(x, t, i) => Has(disk[x].log, G[t], i) \/ Lost(G, x, t, i)

(* A leader's log has no entry of a later term.                            *)
TermsBelow(G) == \A t \in Nat : \A i \in 1 .. Len(G[t]) : G[t][i].term <= t

(* While a candidate stands, what it asked with is its log.                *)
AsksTruly ==
  \A m \in msgs :
    IsAsk(m) /\ role[m.from] = "candidate" /\ current_term[m.from] = m.term =>
      /\ m.last_log_index = LastIndex(log[m.from])
      /\ m.last_log_term = LastTerm(log[m.from])

(* Nobody votes for, or acknowledges in, a term not yet reached.           *)
VotesAsked == \A m \in msgs : IsVote(m) => m.term <= disk[m.to].current_term
AcksOnDisk == \A m \in msgs : IsAck(m) => m.term <= disk[m.from].current_term

(* A torn write may leave entries of a term that the server has not        *)
(* reached; if it then stands in an older term, a majority is past that    *)
(* term and has not voted for it.                                          *)
Outrun(c, u) ==
  \E S \in SUBSET Server :
    IsMajority(S) /\ \A z \in S : disk[z].current_term > u /\ ~Voted(z, c, u)
NoneAhead ==
  \A c \in Server, u \in Nat : role[c] = "candidate" /\ current_term[c] = u =>
    \A j \in 1 .. Len(log[c]) : log[c][j].term > u => Outrun(c, u)

(* A candidate has what its voters acknowledged of a leader's own entries, *)
(* or a leader in between has overruled it.                                *)
VotersKnow(G) ==
  \A c, y \in Server : \A u \in Nat :
    role[c] = "candidate" /\ current_term[c] = u /\ Voted(y, c, u) =>
      \A t, i \in Nat : t < u /\ Own(G, t, i) /\ Acked(y, t, i) =>
        Has(log[c], G[t], i) \/ Overruled(G, t, i)

(* No majority can have acknowledged what a later leader lacks: another    *)
(* majority has moved on without acknowledging it.                         *)
MovedOn(t, i) ==
  \E Q \in SUBSET Server :
    IsMajority(Q) /\ \A y \in Q : disk[y].current_term > t /\ ~Acked(y, t, i)
Overrulers(G) ==
  \A t, i, w \in Nat :
    Own(G, t, i) /\ w > t /\ Reigned(G, w) /\ ~Has(G[w], G[t], i) => MovedOn(t, i)

CInv(G) ==
  /\ AcksHeld(G)
  /\ TermsBelow(G)
  /\ AsksTruly
  /\ VotesAsked
  /\ AcksOnDisk
  /\ NoneAhead
  /\ VotersKnow(G)
  /\ Overrulers(G)

-----------------------------------------------------------------------------
(* Common beginnings.                                                      *)

(* What is common up to i is common up to any j before it.                 *)
LEMMA HasLess ==
  ASSUME NEW a \in Seq(Entry), NEW b \in Seq(Entry), NEW i \in Nat, NEW j \in Nat,
         j <= i, Has(a, b, i)
  PROVE  Has(a, b, j)
<1>1. Len(a) \in Nat /\ Len(b) \in Nat /\ i <= Len(a) /\ i <= Len(b)
  BY DEF Has
<1>2. j <= Len(a) /\ j <= Len(b) /\ \A k \in 1 .. j : k \in 1 .. i
  BY <1>1
<1> QED
  BY <1>2 DEF Has

(* Having in common is transitive,                                         *)
LEMMA HasThrough ==
  ASSUME NEW a, NEW b, NEW c, NEW i, Has(a, b, i), Has(b, c, i)
  PROVE  Has(a, c, i)
  BY DEF Has

(* symmetric,                                                              *)
LEMMA HasBoth ==
  ASSUME NEW a, NEW b, NEW i, Has(a, b, i)
  PROVE  Has(b, a, i)
  BY DEF Has

(* A beginning has all of itself in common with what it begins.            *)
LEMMA BeginsHas ==
  ASSUME NEW a \in Seq(Entry), NEW b \in Seq(Entry), Begins(a, b),
         NEW i \in Nat, i <= Len(a)
  PROVE  Has(a, b, i)
<1>1. Len(a) \in Nat /\ Len(b) \in Nat /\ Len(a) <= Len(b)
      /\ \A j \in 1 .. Len(a) : a[j] = b[j]
  BY DEF Begins
<1>2. i <= Len(b) /\ \A j \in 1 .. i : j \in 1 .. Len(a)
  BY <1>1
<1> QED
  BY <1>1, <1>2 DEF Has

(* Longer logs have in common what the shorter ones had.                   *)
LEMMA HasGrows ==
  ASSUME NEW a \in Seq(Entry), NEW b \in Seq(Entry), NEW c \in Seq(Entry),
         NEW d \in Seq(Entry), Begins(a, c), Begins(b, d), NEW i \in Nat, Has(a, b, i)
  PROVE  Has(c, d, i)
<1>1. i <= Len(a) /\ i <= Len(b)
  BY DEF Has
<1>2. Has(a, c, i) /\ Has(b, d, i)
  BY <1>1, BeginsHas
<1>3. Has(c, a, i)
  BY <1>2, HasBoth
<1> QED
  BY <1>2, <1>3, HasThrough

(* and reflexive.                                                          *)
LEMMA BeginsSelf ==
  ASSUME NEW a \in Seq(Entry)
  PROVE  Begins(a, a)
  BY DEF Begins

-----------------------------------------------------------------------------
(* Leaders.                                                                *)

LedOnce == \A c, d \in Server : \A t \in Nat : Led(c, t) /\ Led(d, t) => c = d

(* Nobody leads a term that another server leads.                          *)
LEMMA LeadersOnce == ElectionSafety => LedOnce
<1> SUFFICES ASSUME ElectionSafety, NEW c \in Server, NEW d \in Server, NEW t \in Nat,
                    Led(c, t), Led(d, t)
             PROVE  c = d
  BY DEF LedOnce
<1> QED
  BY DEF Led, ElectionSafety, Leads, IsAppend

(* Whoever led a term has it on its disk.                                  *)
LEMMA LedOnDisk ==
  ASSUME TInv, NEW c \in Server, NEW t \in Nat, Led(c, t)
  PROVE  t <= disk[c].current_term
<1>1. CASE \E m \in msgs : IsAppend(m) /\ m.from = c /\ m.term = t
  BY <1>1 DEF TInv, OwnTermsPast
<1>2. CASE Server = {c} /\ disk[c].current_term >= t
  <2>1. disk[c].current_term \in Nat
    BY DEF TInv, TypeOK, HardState
  <2> QED
    BY <1>2, <2>1
<1> QED
  BY <1>1, <1>2 DEF Led

(* A leader that got to work led.                                          *)
LEMMA ReignedLed ==
  ASSUME TInv, NEW G, History(G), NEW w \in Nat, Reigned(G, w)
  PROVE  \E c \in Server : Led(c, w)
<1>1. CASE Spoke(w)
  <2>1. PICK m \in msgs : IsAppend(m) /\ m.term = w
    BY <1>1 DEF Spoke
  <2>2. m.from \in Server
    BY MessageFields DEF TInv, TypeOK
  <2>3. Led(m.from, w)
    BY <2>1 DEF Led
  <2> QED
    BY <2>2, <2>3
<1>2. CASE G[w] # << >>
  BY <1>2 DEF History, OnlyLed
<1>3. CASE \E c \in Server : role[c] = "leader" /\ current_term[c] = w
  BY <1>3 DEF History, LeadersHave, LedNow
<1> QED
  BY <1>1, <1>2, <1>3 DEF Reigned, Showed

(* It was elected by a majority, which is in its term or past it.          *)
Backed(w) ==
  \E Q \in SUBSET Server : IsMajority(Q) /\ \A y \in Q : disk[y].current_term >= w

(* The voters of an elected server are in its term or past it.             *)
LEMMA ElectedBacked ==
  ASSUME TInv, EInv, NEW c \in Server, NEW w \in Nat, Elected(c, w),
         disk[c].current_term >= w
  PROVE  Backed(w)
<1>1. PICK Q \in SUBSET Server : IsMajority(Q) /\ \A v \in Q : v = c \/ Voted(v, c, w)
  BY DEF Elected
<1>2. ASSUME NEW v \in Q PROVE disk[v].current_term >= w
  <2>1. CASE v = c
    BY <2>1
  <2>2. CASE Voted(v, c, w)
    <3>1. Kept(v, w, c)
      BY <2>2 DEF Voted, EInv, VotesOnDisk
    <3>2. v \in Server
      OBVIOUS
    <3>3. disk[v].current_term \in Nat
      BY <3>2 DEF TInv, TypeOK, HardState
    <3> QED
      BY <3>1, <3>3 DEF Kept
  <2> QED
    BY <1>1, <2>1, <2>2
<1> QED
  BY <1>1, <1>2 DEF Backed

(* So every leader that got to work had a majority with it.                *)
LEMMA ReignedBacked ==
  ASSUME TInv, EInv, NEW G, History(G), NEW w \in Nat, Reigned(G, w)
  PROVE  Backed(w)
<1>1. CASE Spoke(w)
  <2>1. PICK m \in msgs : IsAppend(m) /\ m.term = w
    BY <1>1 DEF Spoke
  <2>2. m.from \in Server
    BY MessageFields DEF TInv, TypeOK
  <2>3. Elected(m.from, w)
    BY <2>1 DEF EInv, SendersElected
  <2>4. w <= disk[m.from].current_term /\ disk[m.from].current_term \in Nat
    BY <2>1, <2>2 DEF TInv, OwnTermsPast, TypeOK, HardState
  <2>5. disk[m.from].current_term >= w
    BY <2>4
  <2> QED
    BY <2>2, <2>3, <2>5, ElectedBacked
<1>2. CASE \E c \in Server : role[c] = "leader" /\ current_term[c] = w
  <2>1. PICK c \in Server : role[c] = "leader" /\ current_term[c] = w
    BY <1>2
  <2>2. running[c] /\ disk[c].current_term = w
    BY <2>1, DiskAgrees DEF TInv, DownIsFollower
  <2>3. Elected(c, w)
    BY <2>1, <2>2, LeadersElected DEF Leads
  <2> QED
    BY <2>2, <2>3, ElectedBacked
<1>3. CASE ~Spoke(w) /\ G[w] # << >>
  <2>1. PICK c \in Server : Led(c, w)
    BY <1>3 DEF History, OnlyLed
  <2>2. Server = {c} /\ disk[c].current_term >= w
    BY <1>3, <2>1 DEF Led, Spoke
  <2>3. Cardinality({c}) = 1
    BY FS_Singleton
  <2>4. IsMajority({c})
    BY <2>2, <2>3 DEF IsMajority
  <2> QED
    BY <2>2, <2>4 DEF Backed
<1> QED
  BY <1>1, <1>2, <1>3 DEF Reigned, Showed

(* An acknowledgement is within the log of its term's leader.              *)
LEMMA AckWithin ==
  ASSUME TInv, NEW G, History(G), NEW m \in msgs, IsAck(m)
  PROVE  /\ m.from \in Server /\ m.term \in Nat /\ m.match_index \in Nat
         /\ m.match_index <= Len(G[m.term])
<1>1. m \in Message /\ m.type = "AppendEntriesReply"
  BY DEF TInv, TypeOK, IsAck
<1>2. m.from \in Server /\ m.term \in Nat /\ m.match_index \in Nat
  BY <1>1, MessageFields
<1>3. PICK x \in msgs : IsAppend(x) /\ x.term = m.term /\ LastNew(x) = m.match_index
  BY DEF TInv, ReplyAnswers, IsAck
<1>4. LastNew(x) <= Len(G[x.term])
  BY <1>3 DEF History, SlicesOn, SliceOf
<1> QED
  BY <1>2, <1>3, <1>4

(* The same of the next state.                                             *)
AcksWithin(G) ==
  \A m \in msgs : IsAck(m) =>
    /\ m.from \in Server /\ m.term \in Nat /\ m.match_index \in Nat
    /\ m.match_index <= Len(G[m.term])
Derived ==
  \A G : TInv /\ EInv /\ History(G) =>
    /\ LedOnce
    /\ AcksWithin(G)
    /\ \A w \in Nat : Reigned(G, w) => Backed(w)
    /\ \A c \in Server, t \in Nat : Led(c, t) => t <= disk[c].current_term

(* They do hold, by the invariants,                                        *)
LEMMA DerivedHolds == Derived
<1> SUFFICES ASSUME NEW G, TInv, EInv, History(G)
             PROVE  /\ LedOnce
                    /\ AcksWithin(G)
                    /\ \A w \in Nat : Reigned(G, w) => Backed(w)
                    /\ \A c \in Server, t \in Nat : Led(c, t) => t <= disk[c].current_term
  BY DEF Derived
<1>1. LedOnce
  BY OneLeader, LeadersOnce
<1>2. AcksWithin(G)
  BY AckWithin DEF AcksWithin
<1>3. \A w \in Nat : Reigned(G, w) => Backed(w)
  BY ReignedBacked
<1>4. \A c \in Server, t \in Nat : Led(c, t) => t <= disk[c].current_term
  BY LedOnDisk
<1> QED
  BY <1>1, <1>2, <1>3, <1>4

(* and after the step.                                                     *)
LEMMA DerivedNext == Derived'
  BY DerivedHolds, PTL

-----------------------------------------------------------------------------
(* A step of n that makes the history H of G.                              *)

(* n takes the lead in term w with the log it has, on the votes of a       *)
(* majority.                                                               *)
Crowned(n, H, w) ==
  /\ role'[n] = "leader"
  /\ current_term'[n] = w
  /\ disk'[n].current_term = w
  /\ w <= disk[n].current_term + 1
  /\ disk[n].log = log[n]
  /\ H[w] = log[n]
  /\ \E Q \in SUBSET Server :
       /\ IsMajority(Q)
       /\ \A v \in Q : v = n \/ /\ role[n] = "candidate"
                                /\ current_term[n] = w
                                /\ Voted(v, n, w)

(* The log of the leader of term t is new, or an entry longer.             *)
Begun(n, H, t) ==
  /\ \A c \in Server : ~Led(c, t)
  /\ Crowned(n, H, t)
  /\ \A i \in 1 .. Len(H[t]) : H[t][i].term <= t
Continued(n, G, H, t) ==
  /\ role[n] = "leader"
  /\ current_term[n] = t
  /\ \E e \in Entry : e.term = t /\ H[t] = Append(G[t], e)
Grown(n, G, H, t) ==
  /\ Led(n, t)'
  /\ disk'[n].current_term = t
  /\ disk'[n].log = H[t]
  /\ Begun(n, H, t) \/ Continued(n, G, H, t)

(* Of what is acknowledged, the disk keeps what no later leader lacks.     *)
Keeps(n, G) ==
  \A t \in Nat : \A i \in 1 .. Len(G[t]) :
    t <= disk[n].current_term /\ Has(disk[n].log, G[t], i) =>
      Has(disk'[n].log, G[t], i) \/ Lost(G, n, t, i)

News == msgs' \ msgs

AcksRightly(n, H) ==
  \A x \in News : IsAck(x) =>
    /\ x.from = n
    /\ x.term = disk'[n].current_term
    /\ Has(disk'[n].log, H[x.term], x.match_index)

VotesRightly(n, G, H) ==
  \A x \in News : IsVote(x) =>
    /\ H = G
    /\ disk[n].log = log[n]
    /\ \E m \in msgs : IsAsk(m) /\ m.from = x.to /\ m.term = x.term /\ UpToDate(n, m)

AsksRightly(n) ==
  \A x \in News : IsAsk(x) =>
    x.last_log_index = LastIndex(log'[n]) /\ x.last_log_term = LastTerm(log'[n])

(* It stands as before, or anew in the next term.                          *)
StandsOn(n) ==
  role'[n] = "candidate" =>
    /\ log'[n] = log[n]
    /\ \/ role[n] = "candidate" /\ current_term'[n] = current_term[n]
       \/ current_term'[n] = disk[n].current_term + 1

(* It leads as before, or anew.                                            *)
LeadsOn(n, H) ==
  role'[n] = "leader" =>
    \/ role[n] = "leader" /\ current_term'[n] = current_term[n]
    \/ Crowned(n, H, current_term'[n])

Follows(n, G, H) ==
  /\ Elects(n, News)
  /\ Carries(n, G, H)
  /\ \A t \in Nat : H[t] = G[t] \/ Grown(n, G, H, t)
  /\ Keeps(n, G)
  /\ AcksRightly(n, H)
  /\ VotesRightly(n, G, H)
  /\ AsksRightly(n)
  /\ StandsOn(n)
  /\ LeadsOn(n, H)

-----------------------------------------------------------------------------
(* What such a step leaves as it is.                                       *)

(* The terms on the disks only grow.                                       *)
LEMMA TermsGrow ==
  ASSUME TInv, NEW n \in Server, NEW new, Elects(n, new), NEW p \in Server
  PROVE  /\ disk[p].current_term \in Nat /\ disk'[p].current_term \in Nat
         /\ disk[p].current_term <= disk'[p].current_term
         /\ p # n => disk'[p] = disk[p]
<1>1. disk[p].current_term \in Nat
  BY DEF TInv, TypeOK, HardState
<1>2. CASE p = n
  BY <1>1, <1>2 DEF Elects, MovesOn
<1>3. CASE p # n
  BY <1>1, <1>3 DEF Elects, OthersVote
<1> QED
  BY <1>2, <1>3

(* Who acknowledges anew is n, in the term it has reached.                 *)
LEMMA AckedBefore ==
  ASSUME TInv, NEW n \in Server, NEW G, NEW H, Follows(n, G, H),
         NEW x \in Server, NEW t \in Nat, NEW i \in Nat,
         t # disk'[n].current_term \/ x # n, Acked(x, t, i)',
         t <= disk[x].current_term \/ \A c \in Server : Server # {c}
  PROVE  Acked(x, t, i)
<1>1. \A m \in msgs' : m \in msgs \/ m \in News
  BY DEF News
<1>2. CASE \E m \in msgs' : IsAck(m) /\ m.from = x /\ m.term = t /\ i <= m.match_index
  <2>1. PICK m \in msgs' : IsAck(m) /\ m.from = x /\ m.term = t /\ i <= m.match_index
    BY <1>2
  <2>2. m \notin News
    BY <2>1 DEF Follows, AcksRightly
  <2> QED
    BY <1>1, <2>1, <2>2 DEF Acked
<1>3. CASE \E m \in msgs' : IsAppend(m) /\ m.from = x /\ m.term = t
  <2>1. PICK m \in msgs' : IsAppend(m) /\ m.from = x /\ m.term = t
    BY <1>3
  <2>2. m \notin News
    <3>1. SUFFICES ASSUME m \in News PROVE FALSE
      OBVIOUS
    <3>2. SendsRightly(n, m) /\ StandsRightly(n)
      BY <3>1 DEF Follows, Elects
    <3>3. m.from = n /\ m.term = current_term'[n] /\ role'[n] # "follower"
      BY <2>1, <3>2 DEF SendsRightly, IsStand, IsAppend
    <3>4. disk'[n].current_term = current_term'[n]
      BY <3>2, <3>3 DEF StandsRightly
    <3> QED
      BY <2>1, <3>3, <3>4
  <2> QED
    BY <1>1, <2>1, <2>2 DEF Acked, Led
<1>4. CASE Server = {x}
  <2>1. t <= disk[x].current_term
    BY <1>4
  <2>2. disk[x].current_term >= t
    BY <2>1, TermsGrow DEF Follows
  <2> QED
    BY <1>4, <2>2 DEF Acked, Led
<1> QED
  BY <1>2, <1>3, <1>4 DEF Acked, Led

(* What has been acknowledged stays so.                                    *)
LEMMA AckedStays ==
  ASSUME TInv, NEW n \in Server, NEW new, Elects(n, new),
         NEW x \in Server, NEW t \in Nat, NEW i, Acked(x, t, i)
  PROVE  Acked(x, t, i)'
<1>1. msgs \subseteq msgs'
  BY DEF Elects
<1>2. disk[x].current_term >= t => disk'[x].current_term >= t
  BY TermsGrow
<1> QED
  BY <1>1, <1>2 DEF Acked, Led

(* A leader that did something has always done so.                         *)
LEMMA ShowedStays ==
  ASSUME NEW n \in Server, NEW G, NEW H, GhostType(G), Follows(n, G, H),
         NEW w \in Nat, Showed(G, w)
  PROVE  Showed(H, w)'
<1>1. msgs \subseteq msgs'
  BY DEF Follows, Elects
<1>2. CASE Spoke(w)
  BY <1>1, <1>2 DEF Spoke, Showed
<1>3. CASE G[w] # << >>
  <2>1. Begins(G[w], H[w]) /\ G[w] \in Seq(Entry) /\ H[w] \in Seq(Entry)
    BY DEF Follows, Carries, Extends, GhostType
  <2>2. H[w] # << >>
    BY <1>3, <2>1 DEF Begins
  <2> QED
    BY <2>2 DEF Showed
<1> QED
  BY <1>2, <1>3 DEF Showed

(* What a later leader lacks, it lacks for ever: to its log it appends     *)
(* entries of its own term only.                                           *)
LEMMA LacksStays ==
  ASSUME TInv, NEW n \in Server, NEW G, NEW H, History(G), TermsBelow(G), Follows(n, G, H),
         NEW t \in Nat, NEW w \in Nat, w > t, Reigned(G, w),
         NEW i \in 1 .. Len(G[t]), ~Has(G[w], G[t], i)
  PROVE  ~Has(H[w], H[t], i)
<1>1. /\ G[t] \in Seq(Entry) /\ H[t] \in Seq(Entry) /\ Begins(G[t], H[t])
      /\ G[w] \in Seq(Entry) /\ H[w] \in Seq(Entry) /\ Begins(G[w], H[w])
  BY DEF Follows, Carries, Extends, GhostType, History
<1>2. i \in Nat /\ i <= Len(G[t]) /\ Len(G[t]) \in Nat /\ Len(G[w]) \in Nat
  BY <1>1
<1>3. SUFFICES ASSUME Has(H[w], H[t], i) PROVE FALSE
  OBVIOUS
<1>4. Has(H[w], G[t], i)
  <2>1. Has(G[t], H[t], i)
    BY <1>1, <1>2, BeginsHas
  <2> QED
    BY <1>3, <2>1, HasBoth, HasThrough
<1>5. CASE i <= Len(G[w])
  <2>1. Has(G[w], H[w], i)
    BY <1>1, <1>2, <1>5, BeginsHas
  <2> QED
    BY <1>4, <2>1, HasThrough
<1>6. CASE ~(i <= Len(G[w]))
  <2>1. i <= Len(H[w]) /\ H[w][i] = G[t][i]
    BY <1>2, <1>4 DEF Has
  <2>2. H[w] # G[w]
    BY <1>6, <2>1
  <2>3. Grown(n, G, H, w)
    BY <2>2 DEF Follows
  <2>4. \E c \in Server : Led(c, w)
    BY ReignedLed
  <2>5. PICK e \in Entry : e.term = w /\ H[w] = Append(G[w], e)
    BY <2>3, <2>4 DEF Grown, Begun, Continued
  <2>6. Len(H[w]) = Len(G[w]) + 1 /\ H[w][Len(G[w]) + 1] = e
    BY <1>1, <2>5
  <2>7. i = Len(G[w]) + 1
    BY ONLY <1>2, <1>6, <2>1, <2>6
  <2>8. G[t][i].term = w
    BY <2>1, <2>5, <2>6, <2>7
  <2>9. G[t][i].term <= t
    BY DEF TermsBelow
  <2> QED
    BY ONLY <2>8, <2>9, w > t, t \in Nat, w \in Nat
<1> QED
  BY <1>5, <1>6

(* What is lost stays lost,                                                *)
LEMMA LostStays ==
  ASSUME TInv, NEW n \in Server, NEW G, NEW H, History(G), TermsBelow(G), Follows(n, G, H),
         NEW x \in Server, NEW t \in Nat, NEW i \in 1 .. Len(G[t]), Lost(G, x, t, i)
  PROVE  Lost(H, x, t, i)'
<1>1. PICK m \in msgs : IsAppend(m) /\ m.to = x /\ m.term > t /\ ~Has(G[m.term], G[t], i)
  BY DEF Lost
<1>2. m.term \in Nat
  <2>1. m \in Message /\ m.type # "ClientReply"
    BY <1>1 DEF TInv, TypeOK, IsAppend
  <2> QED
    BY <2>1, MessageFields
<1>3. Reigned(G, m.term)
  BY <1>1 DEF Reigned, Showed, Spoke
<1>4. ~Has(H[m.term], H[t], i)
  BY <1>1, <1>2, <1>3, LacksStays
<1>5. m \in msgs'
  BY DEF Follows, Elects
<1> QED
  BY <1>1, <1>4, <1>5 DEF Lost

(* and what is overruled stays overruled.                                  *)
LEMMA OverruledStays ==
  ASSUME TInv, NEW n \in Server, NEW G, NEW H, History(G), TermsBelow(G), Follows(n, G, H),
         NEW t \in Nat, NEW i \in 1 .. Len(G[t]), Overruled(G, t, i)
  PROVE  Overruled(H, t, i)'
<1>1. PICK w \in Nat : w > t /\ Showed(G, w) /\ ~Has(G[w], G[t], i)
  BY DEF Overruled
<1>2. ~Has(H[w], H[t], i)
  BY <1>1, LacksStays DEF Reigned
<1>3. Showed(H, w)'
  BY <1>1, ShowedStays DEF History
<1> QED
  BY <1>1, <1>2, <1>3 DEF Overruled

(* Who was told of a leader that lacks entries knows one that does.        *)
LEMMA LostOverruled ==
  ASSUME TInv, NEW G, NEW x, NEW t, NEW i, Lost(G, x, t, i)
  PROVE  Overruled(G, t, i)
<1>1. PICK m \in msgs : IsAppend(m) /\ m.term > t /\ ~Has(G[m.term], G[t], i)
  BY DEF Lost
<1>2. m.term \in Nat
  <2>1. m \in Message /\ m.type # "ClientReply"
    BY <1>1 DEF TInv, TypeOK, IsAppend
  <2> QED
    BY <2>1, MessageFields
<1> QED
  BY <1>1, <1>2 DEF Overruled, Showed, Spoke

(* Who led has always led.                                                 *)
LEMMA LedGoesOn ==
  ASSUME TInv, NEW n \in Server, NEW new, Elects(n, new),
         NEW x \in Server, NEW t \in Nat, Led(x, t)
  PROVE  Led(x, t)'
<1>1. msgs \subseteq msgs'
  BY DEF Elects
<1>2. disk[x].current_term >= t => disk'[x].current_term >= t
  BY TermsGrow
<1> QED
  BY <1>1, <1>2 DEF Led

(* No other server acknowledges more of a term than its leader had.        *)
LEMMA OthersAcked ==
  ASSUME TInv, TInv', EInv, EInv', NEW n \in Server, NEW G, NEW H,
         History(G), History(H)', Follows(n, G, H),
         NEW x \in Server, x # n, NEW t \in Nat, NEW i \in 1 .. Len(H[t]), Acked(x, t, i)'
  PROVE  i \in 1 .. Len(G[t]) /\ Acked(x, t, i)
<1>0. G[t] \in Seq(Entry) /\ H[t] \in Seq(Entry)
  BY DEF Follows, Carries, GhostType, History
<1>1. i \in Nat /\ 1 <= i /\ Len(G[t]) \in Nat
  BY <1>0
<1>2. Acked(x, t, i)
  BY <1>1, AckedBefore
<1>3. CASE H[t] = G[t]
  BY <1>2, <1>3
<1>4. CASE H[t] # G[t]
  <2>1. Led(n, t)'
    BY <1>4 DEF Follows, Grown
  <2>2. ~Led(x, t)
    <3>1. SUFFICES ASSUME Led(x, t) PROVE FALSE
      OBVIOUS
    <3>2. Led(x, t)'
      BY <3>1, LedGoesOn DEF Follows
    <3>3. LedOnce'
      BY DerivedNext DEF Derived
    <3> QED
      BY <2>1, <3>2, <3>3 DEF LedOnce
  <2>3. PICK m \in msgs : IsAck(m) /\ m.from = x /\ m.term = t /\ i <= m.match_index
    BY <1>2, <2>2 DEF Acked
  <2>4. m.match_index \in Nat /\ m.match_index <= Len(G[t])
    BY <2>3, AckWithin
  <2>5. i <= Len(G[t])
    BY ONLY <1>1, <2>3, <2>4
  <2> QED
    BY <1>1, <1>2, <2>5
<1> QED
  BY <1>3, <1>4

(* Acknowledgements are about what the disk holds.                         *)
LEMMA AcksHeldStays ==
  ASSUME TInv, TInv', EInv, EInv', NEW n \in Server, NEW G, NEW H,
         History(G), History(H)', CInv(G), Follows(n, G, H)
  PROVE  AcksHeld(H)'
<1> SUFFICES ASSUME NEW x \in Server, NEW t \in Nat, NEW i \in 1 .. Len(H[t]),
                    Acked(x, t, i)'
             PROVE  Has(disk'[x].log, H[t], i) \/ Lost(H, x, t, i)'
  BY DEF AcksHeld
<1>0. /\ G[t] \in Seq(Entry) /\ H[t] \in Seq(Entry) /\ Begins(G[t], H[t])
      /\ disk[x].log \in Seq(Entry) /\ disk'[x].log \in Seq(Entry)
  <2>1. G[t] \in Seq(Entry) /\ H[t] \in Seq(Entry) /\ Begins(G[t], H[t])
    BY DEF Follows, Carries, Extends, GhostType, History
  <2>2. disk[x] \in HardState /\ disk'[x] \in HardState
    BY DEF TInv, TypeOK
  <2> QED
    BY <2>1, <2>2 DEF HardState
<1>a. i \in Nat /\ i <= Len(H[t])
  BY <1>0
<1>b. TermsBelow(G) /\ AcksHeld(G)
  BY DEF CInv
<1>1. ASSUME i \in 1 .. Len(G[t]), Has(disk'[x].log, G[t], i)
      PROVE  Has(disk'[x].log, H[t], i)
  BY <1>0, <1>1, <1>a, BeginsSelf, HasGrows
<1>2. ASSUME i \in 1 .. Len(G[t]), Lost(G, x, t, i)
      PROVE  Lost(H, x, t, i)'
  BY <1>2, <1>b, LostStays
<1>3. CASE x # n
  <2>1. i \in 1 .. Len(G[t]) /\ Acked(x, t, i)
    BY <1>3, OthersAcked
  <2>2. Has(disk[x].log, G[t], i) \/ Lost(G, x, t, i)
    BY <1>b, <2>1 DEF AcksHeld
  <2>3. disk'[x] = disk[x]
    BY <1>3, TermsGrow DEF Follows
  <2> QED
    BY <1>1, <1>2, <2>1, <2>2, <2>3
<1>4. CASE x = n /\ H[t] # G[t]
  <2>1. disk'[n].log = H[t]
    BY <1>4 DEF Follows, Grown
  <2> QED
    BY <1>0, <1>4, <1>a, <2>1, BeginsSelf, BeginsHas
<1>5. CASE x = n /\ H[t] = G[t]
  <2>1. ASSUME Acked(n, t, i)
        PROVE  Has(disk'[x].log, H[t], i) \/ Lost(H, x, t, i)'
    <3>1. i \in 1 .. Len(G[t])
      BY <1>5
    <3>2. Has(disk[n].log, G[t], i) \/ Lost(G, n, t, i)
      BY <1>b, <2>1, <3>1 DEF AcksHeld
    <3>3. t <= disk[n].current_term
      <4>1. CASE Led(n, t)
        BY <4>1, LedOnDisk
      <4>2. CASE \E m \in msgs : IsAck(m) /\ m.from = n /\ m.term = t
        BY <4>2 DEF CInv, AcksOnDisk
      <4> QED
        BY <2>1, <4>1, <4>2 DEF Acked
    <3>4. Has(disk'[n].log, G[t], i) \/ Lost(G, n, t, i)
      BY <3>1, <3>2, <3>3 DEF Follows, Keeps
    <3> QED
      BY <1>1, <1>2, <1>5, <3>1, <3>4
  <2>2. ASSUME NEW m \in News, IsAck(m), m.term = t, i <= m.match_index
        PROVE  Has(disk'[x].log, H[t], i)
    <3>1. Has(disk'[n].log, H[t], m.match_index)
      BY <2>2 DEF Follows, AcksRightly
    <3>2. m.match_index \in Nat
      <4>1. AcksWithin(H)'
        BY DerivedNext DEF Derived
      <4>2. m \in msgs'
        BY DEF News
      <4> QED
        BY <2>2, <4>1, <4>2 DEF AcksWithin
    <3> QED
      BY <1>0, <1>5, <1>a, <2>2, <3>1, <3>2, HasLess
  <2>3. ASSUME Led(n, t)'
        PROVE  Led(n, t)
    <3>1. G[t] # << >>
      BY <1>0, <1>5
    <3>2. PICK c \in Server : Led(c, t)
      BY <3>1 DEF History, OnlyLed
    <3>3. Led(c, t)'
      BY <3>2, LedGoesOn DEF Follows
    <3>4. LedOnce'
      BY DerivedNext DEF Derived
    <3>5. c = n
      BY <2>3, <3>3, <3>4 DEF LedOnce
    <3> QED
      BY <3>2, <3>5
  <2>4. \A m \in msgs' : m \in msgs \/ m \in News
    BY DEF News
  <2>5. \/ Led(n, t)'
        \/ \E m \in msgs' : IsAck(m) /\ m.from = n /\ m.term = t /\ i <= m.match_index
    BY <1>5 DEF Acked
  <2> QED
    BY <2>1, <2>2, <2>3, <2>4, <2>5 DEF Acked
<1> QED
  BY <1>3, <1>4, <1>5

(* A leader starts with no later entry, and appends its own.               *)
LEMMA TermsBelowStays ==
  ASSUME TInv, NEW n \in Server, NEW G, NEW H, History(G), TermsBelow(G), Follows(n, G, H)
  PROVE  TermsBelow(H)
<1> SUFFICES ASSUME NEW t \in Nat, NEW i \in 1 .. Len(H[t]) PROVE H[t][i].term <= t
  BY DEF TermsBelow
<1>1. CASE H[t] = G[t]
  BY <1>1 DEF TermsBelow
<1>2. CASE Begun(n, H, t)
  BY <1>2 DEF Begun
<1>3. CASE Continued(n, G, H, t)
  <2>1. PICK e \in Entry : e.term = t /\ H[t] = Append(G[t], e)
    BY <1>3 DEF Continued
  <2>2. G[t] \in Seq(Entry)
    BY DEF History, GhostType
  <2>3. Len(G[t]) \in Nat /\ i \in 1 .. Len(G[t]) + 1
    BY <2>1, <2>2
  <2>4. CASE i = Len(G[t]) + 1
    BY <2>1, <2>2, <2>4
  <2>5. CASE i # Len(G[t]) + 1
    <3>1. i \in 1 .. Len(G[t])
      BY <2>3, <2>5
    <3>2. H[t][i] = G[t][i]
      BY <2>1, <2>2, <3>1
    <3> QED
      BY <3>1, <3>2 DEF TermsBelow
  <2> QED
    BY <2>4, <2>5
<1> QED
  BY <1>1, <1>2, <1>3 DEF Follows, Grown

(* What a step of n sends, and who stands in which term.                   *)
LEMMA NewsFromRight ==
  ASSUME TInv', NEW n \in Server, Elects(n, News), NEW x \in News
  PROVE  /\ x \in msgs' /\ x \in Message
         /\ IsVote(x) => x.from = n /\ x.term = disk'[n].current_term /\ x.to # n
         /\ IsAsk(x) \/ IsAppend(x) =>
              x.from = n /\ x.term = current_term'[n] /\ role'[n] # "follower"
         /\ IsAppend(x) => role'[n] = "leader"
<1>1. x \in msgs' /\ SendsRightly(n, x)
  BY DEF Elects, News
<1>2. x \in Message
  BY <1>1 DEF TInv, TypeOK
<1>3. IsVote(x) => x.from = n /\ x.term = disk'[n].current_term /\ x.to # n
  BY <1>1 DEF SendsRightly, IsVote
<1>4. IsAsk(x) \/ IsAppend(x) =>
        x.from = n /\ x.term = current_term'[n] /\ role'[n] # "follower"
  BY <1>1 DEF SendsRightly, IsStand, IsAsk, IsAppend
<1>5. IsAppend(x) => role'[n] = "leader"
  BY <1>1 DEF SendsRightly
<1> QED
  BY <1>1, <1>2, <1>3, <1>4, <1>5

(* A server that stands anew is in a term that its disk had not reached.   *)
LEMMA StandsAnew ==
  ASSUME TInv, TInv', NEW n \in Server, Elects(n, News), role'[n] # "follower"
  PROVE  disk'[n].current_term = current_term'[n] /\ current_term'[n] \in Nat
  BY DEF Elects, StandsRightly, TInv, TypeOK

(* Candidates still have the log they asked with.                          *)
LEMMA AsksTrulyStays ==
  ASSUME TInv, TInv', EInv, NEW n \in Server, NEW G, NEW H, AsksTruly, Follows(n, G, H)
  PROVE  AsksTruly'
<1> SUFFICES ASSUME NEW m \in msgs', IsAsk(m), role'[m.from] = "candidate",
                    current_term'[m.from] = m.term
             PROVE  /\ m.last_log_index = LastIndex(log'[m.from])
                    /\ m.last_log_term = LastTerm(log'[m.from])
  BY DEF AsksTruly
<1>0. m \in Message /\ m.from \in Server /\ m.term \in Nat
  <2>1. m \in Message /\ m.type # "ClientReply"
    BY DEF TInv, TypeOK, IsAsk
  <2> QED
    BY <2>1, MessageFields
<1>1. CASE m \in News
  <2>1. m.from = n
    BY <1>1, NewsFromRight DEF Follows
  <2> QED
    BY <1>1, <2>1 DEF Follows, AsksRightly
<1>2. CASE m \in msgs /\ m.from # n
  <2>1. /\ role'[m.from] = role[m.from] /\ current_term'[m.from] = current_term[m.from]
        /\ log'[m.from] = log[m.from]
    BY <1>0, <1>2 DEF Follows, Elects, OthersVote, Carries, OthersStay
  <2> QED
    BY <1>2, <2>1 DEF AsksTruly
<1>3. CASE m \in msgs /\ m.from = n
  <2>1. log'[n] = log[n]
    BY <1>3 DEF Follows, StandsOn
  <2>2. CASE role[n] = "candidate" /\ current_term'[n] = current_term[n]
    BY <1>3, <2>1, <2>2 DEF AsksTruly
  <2>3. CASE current_term'[n] = disk[n].current_term + 1
    <3>1. Kept(n, m.term, n)
      BY <1>3 DEF EInv, StandsOnDisk, IsStand, IsAsk
    <3>2. disk[n].current_term >= m.term /\ disk[n].current_term \in Nat
      BY <1>0, <3>1 DEF Kept, TInv, TypeOK, HardState
    <3> QED
      BY <1>3, <2>3, <3>2
  <2> QED
    BY <1>3, <2>2, <2>3 DEF Follows, StandsOn
<1>4. m \in msgs \/ m \in News
  BY DEF News
<1> QED
  BY <1>1, <1>2, <1>3, <1>4

(* Votes are still for terms that were reached.                            *)
LEMMA VotesAskedStays ==
  ASSUME TInv, TInv', EInv, NEW n \in Server, NEW G, NEW H, VotesAsked, Follows(n, G, H)
  PROVE  VotesAsked'
<1> SUFFICES ASSUME NEW m \in msgs', IsVote(m)
             PROVE  m.term <= disk'[m.to].current_term
  BY DEF VotesAsked
<1>0. m.from \in Server /\ m.to \in Server /\ m.term \in Nat
  <2>1. m \in Message /\ m.type # "ClientReply"
    BY DEF TInv, TypeOK, IsVote
  <2> QED
    BY <2>1, MessageFields
<1>1. /\ disk[m.to].current_term <= disk'[m.to].current_term
      /\ disk[m.to].current_term \in Nat /\ disk'[m.to].current_term \in Nat
  BY <1>0, TermsGrow DEF Follows
<1>2. m.term <= disk[m.to].current_term
  <2>1. CASE m \in msgs
    BY <2>1 DEF VotesAsked
  <2>2. CASE m \in News
    <3>1. PICK a \in msgs : IsAsk(a) /\ a.from = m.to /\ a.term = m.term
      BY <2>2 DEF Follows, VotesRightly
    <3>2. Kept(m.to, m.term, m.to)
      BY <3>1 DEF EInv, StandsOnDisk, IsStand, IsAsk
    <3> QED
      BY <1>0, <1>1, <3>2 DEF Kept
  <2> QED
    BY <2>1, <2>2 DEF News
<1> QED
  BY <1>0, <1>1, <1>2

(* So are acknowledgements.                                                *)
LEMMA AcksOnDiskStays ==
  ASSUME TInv, TInv', EInv, NEW n \in Server, NEW G, NEW H, AcksOnDisk, Follows(n, G, H)
  PROVE  AcksOnDisk'
<1> SUFFICES ASSUME NEW m \in msgs', IsAck(m)
             PROVE  m.term <= disk'[m.from].current_term
  BY DEF AcksOnDisk
<1>0. m.from \in Server /\ m.term \in Nat
  <2>1. m \in Message /\ m.type # "ClientReply"
    BY DEF TInv, TypeOK, IsAck
  <2> QED
    BY <2>1, MessageFields
<1>1. /\ disk[m.from].current_term <= disk'[m.from].current_term
      /\ disk[m.from].current_term \in Nat /\ disk'[m.from].current_term \in Nat
  BY <1>0, TermsGrow DEF Follows
<1>2. CASE m \in msgs
  <2>1. m.term <= disk[m.from].current_term
    BY <1>2 DEF AcksOnDisk
  <2> QED
    BY <1>0, <1>1, <2>1
<1>3. CASE m \in News
  <2>1. m.term = disk'[m.from].current_term
    BY <1>3 DEF Follows, AcksRightly
  <2> QED
    BY <1>0, <2>1
<1> QED
  BY <1>2, <1>3 DEF News

(* A majority that has outrun a candidate stays ahead of it.               *)
LEMMA OutrunStays ==
  ASSUME TInv, TInv', NEW n \in Server, Elects(n, News), NEW c \in Server, NEW u \in Nat,
         Outrun(c, u)
  PROVE  Outrun(c, u)'
<1>1. PICK S \in SUBSET Server :
        IsMajority(S) /\ \A z \in S : disk[z].current_term > u /\ ~Voted(z, c, u)
  BY DEF Outrun
<1>2. ASSUME NEW z \in S
      PROVE  disk'[z].current_term > u /\ ~Voted(z, c, u)'
  <2>1. z \in Server /\ disk[z].current_term > u /\ ~Voted(z, c, u)
    BY <1>1, <1>2
  <2>2. disk'[z].current_term > u
    <3>1. /\ disk[z].current_term \in Nat /\ disk'[z].current_term \in Nat
          /\ disk[z].current_term <= disk'[z].current_term
      BY <2>1, TermsGrow
    <3> QED
      BY <2>1, <3>1
  <2>3. ASSUME NEW m \in msgs', IsVote(m), m.from = z, m.to = c, m.term = u
        PROVE  FALSE
    <3>1. m \in News
      BY <2>1, <2>3 DEF Voted, News
    <3>2. m.term = disk'[z].current_term
      BY <2>3, <3>1, NewsFromRight
    <3>3. disk'[z].current_term = u
      BY <2>3, <3>2
    <3> QED
      BY <2>2, <3>3
  <2> QED
    BY <2>2, <2>3 DEF Voted
<1> QED
  BY <1>1, <1>2 DEF Outrun, IsMajority

(* A candidate with entries of a later term is still outrun in it.         *)
LEMMA NoneAheadStays ==
  ASSUME TInv, TInv', EInv, EInv', NEW n \in Server, NEW G, NEW H,
         History(G), CInv(G), Follows(n, G, H)
  PROVE  NoneAhead'
<1> SUFFICES ASSUME NEW c \in Server, NEW u \in Nat, role'[c] = "candidate",
                    current_term'[c] = u,
                    NEW j \in 1 .. Len(log'[c]), log'[c][j].term > u
             PROVE  Outrun(c, u)'
  BY DEF NoneAhead
<1>e. Elects(n, News)
  BY DEF Follows
<1>1. ASSUME role[c] = "candidate", current_term'[c] = current_term[c], log'[c] = log[c]
      PROVE  Outrun(c, u)'
  <2>1. Outrun(c, u)
    BY <1>1 DEF CInv, NoneAhead
  <2> QED
    BY <1>e, <2>1, OutrunStays
<1>2. CASE c # n
  <2>1. role'[c] = role[c] /\ current_term'[c] = current_term[c] /\ log'[c] = log[c]
    BY <1>2 DEF Follows, Elects, OthersVote, Carries, OthersStay
  <2> QED
    BY <1>1, <2>1
<1>3. CASE c = n /\ role[n] = "candidate" /\ current_term'[n] = current_term[n]
  <2>1. log'[n] = log[n]
    BY <1>3 DEF Follows, StandsOn
  <2> QED
    BY <1>1, <1>3, <2>1
<1>4. CASE c = n /\ current_term'[n] = disk[n].current_term + 1
  <2>1. log'[n] = log[n] /\ disk[n].current_term \in Nat /\ u = disk[n].current_term + 1
    BY <1>4 DEF Follows, StandsOn, TInv, TypeOK, HardState
  <2>2. PICK w \in Nat : w = log[n][j].term
    <3>1. log[n][j] \in Entry
      BY <1>4, <2>1 DEF TInv, TypeOK
    <3> QED
      BY <3>1 DEF Entry
  <2>3. w > u
    BY <1>4, <2>1, <2>2
  <2>4. G[w] # << >>
    <3>1. AgreesAt(log[n], G, j)
      BY <1>4, <2>1 DEF History, LogsOn, On
    <3>2. j <= Len(G[w]) /\ j \in 1 .. Len(log[n])
      BY <1>4, <2>1, <2>2, <3>1 DEF AgreesAt
    <3>3. log[n] \in Seq(Entry) /\ G[w] \in Seq(Entry)
      BY DEF TInv, TypeOK, History, GhostType
    <3> QED
      BY <3>2, <3>3
  <2>5. Backed(w)
    BY <2>4, ReignedBacked DEF Reigned, Showed
  <2>6. PICK S \in SUBSET Server : IsMajority(S) /\ \A y \in S : disk[y].current_term >= w
    BY <2>5 DEF Backed
  <2>7. ASSUME NEW z \in S
        PROVE  disk[z].current_term > u /\ ~Voted(z, n, u)
    <3>1. disk[z].current_term >= w /\ disk[z].current_term \in Nat
      BY <2>6, <2>7 DEF TInv, TypeOK, HardState
    <3>2. ASSUME NEW m \in msgs, IsVote(m), m.to = n, m.term = u
          PROVE  FALSE
      <4>1. m.term <= disk[n].current_term
        BY <3>2 DEF CInv, VotesAsked
      <4> QED
        BY <2>1, <3>2, <4>1
    <3>3. disk[z].current_term > u
      BY <2>1, <2>3, <3>1
    <3> QED
      BY <3>2, <3>3 DEF Voted
  <2>8. Outrun(n, u)
    BY <2>6, <2>7 DEF Outrun
  <2> QED
    BY <1>4, <1>e, <2>8, OutrunStays
<1>5. c = n => \/ role[n] = "candidate" /\ current_term'[n] = current_term[n]
               \/ current_term'[n] = disk[n].current_term + 1
  BY DEF Follows, StandsOn
<1> QED
  BY <1>2, <1>3, <1>4, <1>5

-----------------------------------------------------------------------------
(* The election restriction.                                               *)

(* A log that is up to date with one that has a leader's own entry has it, *)
(* or ends with an entry of a leader that overruled it.                    *)
LEMMA UpToDateHas ==
  ASSUME NEW G, GhostType(G), TermsBelow(G),
         NEW a \in Seq(Entry), NEW b \in Seq(Entry), On(a, G), On(b, G),
         \/ LastTerm(b) > LastTerm(a)
         \/ LastTerm(b) = LastTerm(a) /\ Len(b) >= Len(a),
         NEW t \in Nat, NEW i \in Nat, Own(G, t, i), Has(a, G[t], i)
  PROVE  Has(b, G[t], i) \/ Overruled(G, t, i)
<1>0. \/ LastTerm(b) > LastTerm(a)
      \/ LastTerm(b) = LastTerm(a) /\ Len(b) >= Len(a)
  OBVIOUS
<1> DEFINE ka == Len(a)
           kb == Len(b)
<1>1. /\ ka \in Nat /\ kb \in Nat /\ i \in 1 .. ka
      /\ \A j \in 1 .. i : a[j] = G[t][j]
      /\ i \in 1 .. Len(G[t]) /\ G[t][i].term = t
  BY DEF Own, Has
<1>2. PICK T \in Nat : T = a[ka].term
  <2>1. ka \in 1 .. Len(a)
    BY <1>1
  <2>2. a[ka] \in Entry
    BY <2>1
  <2> QED
    BY <2>2 DEF Entry
<1>3. ka <= Len(G[T]) /\ \A j \in 1 .. ka : a[j] = G[T][j]
  <2>1. AgreesAt(a, G, ka)
    BY <1>1 DEF On
  <2> QED
    BY <1>2, <2>1 DEF AgreesAt
<1>4. LastTerm(a) = T
  BY <1>1, <1>2 DEF LastTerm
<1>g. \A s \in Nat : G[s] \in Seq(Entry) /\ Len(G[s]) \in Nat
  <2>1. \A s \in Nat : G[s] \in Seq(Entry)
    BY DEF GhostType
  <2> QED
    BY <2>1
<1>5. t <= T
  <2>1. a[i] = G[t][i] /\ a[i] = G[T][i]
    BY <1>1, <1>3
  <2>2. i \in 1 .. Len(G[T])
    BY <1>1, <1>3, <1>g
  <2> QED
    BY <1>1, <2>1, <2>2 DEF TermsBelow
<1>6. b # << >>
  <2>1. SUFFICES ASSUME b = << >> PROVE FALSE
    OBVIOUS
  <2>2. LastTerm(b) = 0 /\ kb = 0
    BY <2>1 DEF LastTerm, SENTINEL_TERM
  <2> QED
    BY <1>1, <1>2, <1>4, <2>2
<1>7. kb \in 1 .. kb
  BY <1>1, <1>6
<1>8. PICK U \in Nat : U = b[kb].term
  <2>1. b[kb] \in Entry
    BY <1>7
  <2> QED
    BY <2>1 DEF Entry
<1>9. kb <= Len(G[U]) /\ \A j \in 1 .. kb : b[j] = G[U][j]
  <2>1. AgreesAt(b, G, kb)
    BY <1>7 DEF On
  <2> QED
    BY <1>8, <2>1 DEF AgreesAt
<1>10. LastTerm(b) = U
  BY <1>6, <1>8 DEF LastTerm
<1>11. U > T \/ (U = T /\ kb >= ka)
  BY ONLY <1>0, <1>4, <1>10
<1> HIDE DEF ka, kb
<1>12. CASE U = T /\ kb >= ka
  <2>1. i <= kb /\ \A j \in 1 .. i : j \in 1 .. ka /\ j \in 1 .. kb
    BY <1>1, <1>12
  <2>2. \A j \in 1 .. i : b[j] = G[t][j]
    BY <1>1, <1>3, <1>9, <1>12, <2>1
  <2>3. i <= Len(b) /\ i <= Len(G[t])
    BY <1>1, <2>1 DEF kb
  <2> QED
    BY <2>2, <2>3 DEF Has
<1>13. CASE U > T
  <2>1. U > t
    BY <1>2, <1>5, <1>8, <1>13
  <2>2. G[U] # << >>
    <3>1. Len(G[U]) # 0
      BY <1>1, <1>7, <1>9, <1>g
    <3> QED
      BY <3>1
  <2>3. CASE ~Has(G[U], G[t], i)
    BY <2>1, <2>2, <2>3 DEF Overruled, Showed
  <2>4. CASE Has(G[U], G[t], i)
    <3>1. i <= kb
      <4>1. SUFFICES ASSUME kb < i PROVE FALSE
        BY <1>1
      <4>2. kb \in 1 .. i /\ kb \in 1 .. Len(G[t])
        BY <1>1, <1>7, <1>g, <4>1
      <4>3. G[U][kb] = G[t][kb]
        BY <2>4, <4>2 DEF Has
      <4>4. G[t][kb].term = U
        BY <1>7, <1>8, <1>9, <4>3
      <4>5. G[t][kb].term <= t
        BY <4>2 DEF TermsBelow
      <4> QED
        BY <2>1, <4>4, <4>5
    <3>2. Has(b, G[U], i)
      <4>1. i <= Len(b) /\ i <= Len(G[U]) /\ \A j \in 1 .. i : j \in 1 .. kb
        BY <1>1, <1>9, <1>g, <3>1 DEF kb
      <4> QED
        BY <1>9, <4>1 DEF Has
    <3> QED
      BY <2>4, <3>2, HasThrough
  <2> QED
    BY <2>3, <2>4
<1> QED
  BY <1>11, <1>12, <1>13

(* Two servers make no cluster of one.                                     *)
LEMMA NotAlone ==
  ASSUME NEW x \in Server, NEW y \in Server, x # y
  PROVE  \A c \in Server : Server # {c}
  OBVIOUS

(* Nothing of a term is acknowledged anew by a server past it.             *)
LEMMA NoneAckedAnew ==
  ASSUME TInv, TInv', EInv, EInv', NEW n \in Server, NEW G, NEW H,
         History(G), History(H)', Follows(n, G, H),
         NEW y \in Server, NEW t \in Nat, NEW i \in 1 .. Len(H[t]), Acked(y, t, i)',
         t < disk'[y].current_term,
         t <= disk[y].current_term \/ \A c \in Server : Server # {c}
  PROVE  i \in 1 .. Len(G[t]) /\ Acked(y, t, i)
<1>1. CASE y # n
  BY <1>1, OthersAcked
<1>2. CASE y = n
  <2>1. t # disk'[n].current_term /\ i \in Nat
    <3>1. disk'[n].current_term \in Nat
      BY TermsGrow DEF Follows
    <3>2. H[t] \in Seq(Entry)
      BY DEF Follows, Carries, GhostType
    <3> QED
      BY <1>2, <3>1, <3>2
  <2>2. Acked(y, t, i)
    BY <2>1, AckedBefore
  <2>3. H[t] = G[t]
    BY <2>1 DEF Follows, Grown
  <2> QED
    BY <2>2, <2>3
<1> QED
  BY <1>1, <1>2

(* Own entries stay own entries.                                           *)
LEMMA OwnBefore ==
  ASSUME NEW n \in Server, NEW G, NEW H, GhostType(G), Follows(n, G, H),
         NEW t \in Nat, NEW i \in 1 .. Len(G[t]), Own(H, t, i)
  PROVE  Own(G, t, i)
<1>1. Begins(G[t], H[t])
  BY DEF Follows, Carries, Extends
<1>2. G[t][i] = H[t][i]
  BY <1>1 DEF Begins
<1> QED
  BY <1>2 DEF Own

(* What a voter acknowledged, its candidate has.                           *)
LEMMA VotersKnowStays ==
  ASSUME TInv, TInv', EInv, EInv', NEW n \in Server, NEW G, NEW H,
         History(G), History(H)', CInv(G), Follows(n, G, H)
  PROVE  VotersKnow(H)'
<1> SUFFICES ASSUME NEW c \in Server, NEW y \in Server, NEW u \in Nat,
                    role'[c] = "candidate", current_term'[c] = u, Voted(y, c, u)',
                    NEW t \in Nat, NEW i \in Nat, t < u, Own(H, t, i), Acked(y, t, i)'
             PROVE  Has(log'[c], H[t], i) \/ Overruled(H, t, i)'
  BY DEF VotersKnow
<1>1. PICK m \in msgs' : IsVote(m) /\ m.from = y /\ m.to = c /\ m.term = u
  BY DEF Voted
<1>2. y # c /\ disk'[y].current_term >= u
  <2>1. c # y /\ Kept(y, u, c)'
    BY <1>1 DEF EInv, NotToSelf, VotesOnDisk, IsVote, Kept
  <2>2. disk'[y].current_term \in Nat
    BY TermsGrow DEF Follows
  <2> QED
    BY <2>1, <2>2 DEF Kept
<1>3. i \in 1 .. Len(H[t]) /\ \A d \in Server : Server # {d}
  BY <1>2, NotAlone DEF Own
<1>4. i \in 1 .. Len(G[t]) /\ Acked(y, t, i)
  <2>1. t < disk'[y].current_term
    <3>1. disk'[y].current_term \in Nat
      BY TermsGrow DEF Follows
    <3> QED
      BY <1>2, <3>1
  <2> QED
    BY <1>3, <2>1, NoneAckedAnew
<1>5. Own(G, t, i)
  BY <1>4, OwnBefore DEF History
<1>6. TermsBelow(G) /\ AcksHeld(G)
  BY DEF CInv
<1>7. ASSUME Overruled(G, t, i)
      PROVE  Overruled(H, t, i)'
  BY <1>4, <1>6, <1>7, OverruledStays
<1>8. /\ log[c] \in Seq(Entry) /\ G[t] \in Seq(Entry) /\ H[t] \in Seq(Entry)
      /\ Begins(G[t], H[t])
  BY DEF TInv, TypeOK, Follows, Carries, Extends, GhostType, History
<1>9. ASSUME Has(log[c], G[t], i)
      PROVE  Has(log[c], H[t], i)
  BY <1>8, <1>9, BeginsSelf, HasGrows
<1>10. CASE m \in msgs
  <2>1. Voted(y, c, u)
    BY <1>1, <1>10 DEF Voted
  <2>2. role[c] = "candidate" /\ current_term[c] = u /\ log'[c] = log[c]
    <3>1. CASE c # n
      BY <3>1 DEF Follows, Elects, OthersVote, Carries, OthersStay
    <3>2. CASE c = n
      <4>1. u # disk[n].current_term + 1
        <5>1. u <= disk[n].current_term
          BY <1>1, <1>10, <3>2 DEF CInv, VotesAsked
        <5>2. disk[n].current_term \in Nat
          BY TermsGrow DEF Follows
        <5> QED
          BY <5>1, <5>2
      <4> QED
        BY <3>2, <4>1 DEF Follows, StandsOn
    <3> QED
      BY <3>1, <3>2
  <2>3. Has(log[c], G[t], i) \/ Overruled(G, t, i)
    BY <1>4, <1>5, <2>1, <2>2 DEF CInv, VotersKnow
  <2> QED
    BY <1>7, <1>9, <2>2, <2>3
<1>11. CASE m \in News
  <2>1. /\ H = G /\ disk[n].log = log[n]
        /\ \E a \in msgs : IsAsk(a) /\ a.from = c /\ a.term = u /\ UpToDate(n, a)
    BY <1>1, <1>11 DEF Follows, VotesRightly
  <2>2. y = n
    BY <1>1, <1>11, NewsFromRight DEF Follows
  <2>3. /\ role[c] = "candidate" /\ current_term[c] = u /\ log'[c] = log[c]
    BY <1>2, <2>2 DEF Follows, Elects, OthersVote, Carries, OthersStay
  <2>4. PICK a \in msgs : IsAsk(a) /\ a.from = c /\ a.term = u /\ UpToDate(n, a)
    BY <2>1
  <2>5. a.last_log_index = LastIndex(log[c]) /\ a.last_log_term = LastTerm(log[c])
    BY <2>3, <2>4 DEF CInv, AsksTruly
  <2>6. \/ LastTerm(log[c]) > LastTerm(log[n])
        \/ LastTerm(log[c]) = LastTerm(log[n]) /\ Len(log[c]) >= Len(log[n])
    BY <2>4, <2>5 DEF UpToDate, LastIndex
  <2>7. Has(disk[n].log, G[t], i) \/ Lost(G, n, t, i)
    BY <1>4, <1>6, <2>2 DEF AcksHeld
  <2>8. CASE Lost(G, n, t, i)
    BY <1>7, <2>8, LostOverruled
  <2>9. CASE Has(disk[n].log, G[t], i)
    <3>1. /\ GhostType(G) /\ log[n] \in Seq(Entry) /\ On(log[n], G) /\ On(log[c], G)
      BY DEF History, LogsOn, TInv, TypeOK
    <3>2. Has(log[n], G[t], i)
      BY <2>1, <2>9
    <3>3. Has(log[c], G[t], i) \/ Overruled(G, t, i)
      BY <1>5, <1>6, <1>8, <2>6, <3>1, <3>2, UpToDateHas
    <3> QED
      BY <1>7, <1>9, <2>3, <3>3
  <2> QED
    BY <2>7, <2>8, <2>9
<1> QED
  BY <1>10, <1>11 DEF News

-----------------------------------------------------------------------------
(* Later leaders.                                                          *)

(* A majority that has moved on has done so for ever.                      *)
LEMMA MovedOnStays ==
  ASSUME TInv, TInv', EInv, EInv', NEW n \in Server, NEW G, NEW H,
         History(G), History(H)', Follows(n, G, H),
         NEW t \in Nat, NEW i \in 1 .. Len(H[t]), MovedOn(t, i)
  PROVE  MovedOn(t, i)'
<1>1. PICK Q \in SUBSET Server :
        IsMajority(Q) /\ \A y \in Q : disk[y].current_term > t /\ ~Acked(y, t, i)
  BY DEF MovedOn
<1>2. ASSUME NEW y \in Q
      PROVE  disk'[y].current_term > t /\ ~Acked(y, t, i)'
  <2>1. y \in Server /\ disk[y].current_term > t /\ ~Acked(y, t, i)
    BY <1>1, <1>2
  <2>2. /\ disk[y].current_term \in Nat /\ disk'[y].current_term \in Nat
        /\ disk[y].current_term <= disk'[y].current_term
    BY <2>1, TermsGrow DEF Follows
  <2>3. disk'[y].current_term > t /\ t <= disk[y].current_term
    BY <2>1, <2>2
  <2>4. t < disk'[y].current_term
    BY <2>2, <2>3
  <2>5. Acked(y, t, i)' => Acked(y, t, i)
    BY <2>1, <2>3, <2>4, NoneAckedAnew
  <2> QED
    BY <2>1, <2>3, <2>5
<1> QED
  BY <1>1, <1>2 DEF MovedOn, IsMajority

(* A leader that shows up is a new one.                                    *)
LEMMA NewlyReigned ==
  ASSUME TInv, TInv', NEW n \in Server, NEW G, NEW H, Follows(n, G, H),
         NEW w \in Nat, Reigned(H, w)', ~Reigned(G, w)
  PROVE  Crowned(n, H, w)
<1>1. ~(role[n] = "leader" /\ current_term[n] = w)
  BY DEF Reigned
<1>2. ASSUME role'[n] = "leader", current_term'[n] = w
      PROVE  Crowned(n, H, w)
  BY <1>1, <1>2 DEF Follows, LeadsOn
<1>3. CASE Spoke(w)'
  <2>1. PICK m \in msgs' : IsAppend(m) /\ m.term = w
    BY <1>3 DEF Spoke
  <2>2. m \in News
    BY <2>1 DEF News, Reigned, Showed, Spoke
  <2>3. m.term = current_term'[n] /\ role'[n] = "leader"
    BY <2>1, <2>2, NewsFromRight DEF Follows
  <2> QED
    BY <1>2, <2>1, <2>3
<1>4. CASE H[w] # << >>
  <2>1. H[w] # G[w]
    BY <1>4 DEF Reigned, Showed
  <2>2. Grown(n, G, H, w)
    BY <2>1 DEF Follows
  <2> QED
    BY <1>1, <2>2 DEF Grown, Begun, Continued
<1>5. CASE \E c \in Server : role'[c] = "leader" /\ current_term'[c] = w
  <2>1. PICK c \in Server : role'[c] = "leader" /\ current_term'[c] = w
    BY <1>5
  <2>2. CASE c = n
    BY <1>2, <2>1, <2>2
  <2>3. CASE c # n
    <3>1. role[c] = "leader" /\ current_term[c] = w
      BY <2>1, <2>3 DEF Follows, Elects, OthersVote
    <3> QED
      BY <3>1 DEF Reigned
  <2> QED
    BY <2>2, <2>3
<1> QED
  BY <1>3, <1>4, <1>5 DEF Reigned, Showed

(* A new leader that lacks an entry was elected by voters of whom none had *)
(* acknowledged it, or somebody else has overruled it.                     *)
LEMMA NewLeaderLacks ==
  ASSUME TInv, TInv', EInv, EInv', NEW n \in Server, NEW G, NEW H,
         History(G), History(H)', CInv(G), Follows(n, G, H),
         NEW t \in Nat, NEW i \in 1 .. Len(G[t]), NEW w \in Nat, w > t,
         Own(G, t, i), Crowned(n, H, w), ~Has(H[w], H[t], i), ~Overruled(G, t, i)
  PROVE  MovedOn(t, i)'
<1>1. PICK Q \in SUBSET Server :
        /\ IsMajority(Q)
        /\ \A v \in Q : v = n \/ /\ role[n] = "candidate"
                                 /\ current_term[n] = w
                                 /\ Voted(v, n, w)
  BY DEF Crowned
<1>2. /\ disk'[n].current_term = w /\ w <= disk[n].current_term + 1
      /\ disk[n].log = log[n] /\ H[w] = log[n]
  BY DEF Crowned
<1>3. H[t] = G[t]
  <2>1. disk'[n].current_term # t
    BY <1>2
  <2> QED
    BY <2>1 DEF Follows, Grown
<1>4. ~Has(log[n], G[t], i) /\ ~Has(disk[n].log, G[t], i)
  BY <1>2, <1>3
<1>5. i \in Nat
  BY DEF Own, History, GhostType
<1>6. ASSUME NEW v \in Q
      PROVE  disk'[v].current_term > t /\ ~Acked(v, t, i)'
  <2>0. v \in Server
    OBVIOUS
  <2>1. /\ disk[v].current_term \in Nat /\ disk'[v].current_term \in Nat
        /\ disk[v].current_term <= disk'[v].current_term
        /\ disk[n].current_term \in Nat
    BY <2>0, TermsGrow DEF Follows
  <2>2. t <= disk[v].current_term /\ t < disk'[v].current_term
    <3>1. CASE v = n
      BY <1>2, <2>1, <3>1
    <3>2. CASE Voted(v, n, w)
      <4>1. Kept(v, w, n)
        BY <3>2 DEF Voted, EInv, VotesOnDisk
      <4>2. disk[v].current_term >= w
        BY <2>1, <4>1 DEF Kept
      <4> QED
        BY <2>1, <4>2
    <3> QED
      BY <1>1, <3>1, <3>2
  <2>3. ASSUME Acked(v, t, i)'
        PROVE  FALSE
    <3>1. Acked(v, t, i)
      <4>1. i \in 1 .. Len(H[t])
        BY <1>3
      <4> QED
        BY <2>0, <2>2, <2>3, <4>1, NoneAckedAnew
    <3>2. CASE v = n
      <4>1. Lost(G, n, t, i)
        BY <1>4, <3>1, <3>2 DEF CInv, AcksHeld
      <4> QED
        BY <4>1, LostOverruled
    <3>3. CASE role[n] = "candidate" /\ current_term[n] = w /\ Voted(v, n, w)
      <4>1. Has(log[n], G[t], i) \/ Overruled(G, t, i)
        BY <1>5, <2>0, <3>1, <3>3 DEF CInv, VotersKnow
      <4> QED
        BY <1>4, <4>1
    <3> QED
      BY <1>1, <3>2, <3>3
  <2>4. disk'[v].current_term > t
    BY <2>1, <2>2
  <2> QED
    BY <2>3, <2>4
<1> QED
  BY <1>1, <1>6 DEF MovedOn, IsMajority

(* Later leaders still overrule only what no majority can acknowledge.     *)
LEMMA OverrulersStay ==
  ASSUME TInv, TInv', EInv, EInv', NEW n \in Server, NEW G, NEW H,
         History(G), History(H)', CInv(G), Follows(n, G, H)
  PROVE  Overrulers(H)'
<1> SUFFICES ASSUME NEW t \in Nat, NEW i \in Nat, NEW w \in Nat, Own(H, t, i), w > t,
                    Reigned(H, w)', ~Has(H[w], H[t], i)
             PROVE  MovedOn(t, i)'
  BY DEF Overrulers
<1>1. i \in 1 .. Len(H[t])
  BY DEF Own
<1>2. CASE i \notin 1 .. Len(G[t])
  <2>1. disk'[n].current_term = t
    BY <1>1, <1>2 DEF Follows, Grown
  <2>2. Backed(w)'
    BY DerivedNext DEF Derived
  <2>3. PICK Q \in SUBSET Server : IsMajority(Q) /\ \A y \in Q : disk'[y].current_term >= w
    BY <2>2 DEF Backed, IsMajority
  <2>4. ASSUME NEW y \in Q
        PROVE  disk'[y].current_term > t /\ ~Acked(y, t, i)'
    <3>1. disk'[y].current_term \in Nat /\ y \in Server
      BY TermsGrow DEF Follows
    <3>2. disk'[y].current_term >= w
      BY <2>3, <2>4
    <3>3. disk'[y].current_term > t
      BY <3>1, <3>2
    <3>4. y # n
      BY <2>1, <3>3
    <3> QED
      BY <1>1, <1>2, <3>1, <3>3, <3>4, OthersAcked
  <2> QED
    BY <2>3, <2>4 DEF MovedOn, IsMajority
<1>3. CASE i \in 1 .. Len(G[t])
  <2>1. Own(G, t, i)
    BY <1>3, OwnBefore DEF History
  <2>2. ASSUME NEW x \in Nat, x > t, Reigned(G, x), ~Has(G[x], G[t], i)
        PROVE  MovedOn(t, i)'
    <3>1. MovedOn(t, i)
      BY <2>1, <2>2 DEF CInv, Overrulers
    <3> QED
      BY <1>1, <3>1, MovedOnStays
  <2>3. CASE Reigned(G, w)
    <3>1. ~Has(G[w], G[t], i)
      <4>1. /\ G[t] \in Seq(Entry) /\ H[t] \in Seq(Entry) /\ Begins(G[t], H[t])
            /\ G[w] \in Seq(Entry) /\ H[w] \in Seq(Entry) /\ Begins(G[w], H[w])
        BY DEF Follows, Carries, Extends, GhostType, History
      <4> QED
        BY <4>1, HasGrows
    <3> QED
      BY <2>2, <2>3, <3>1
  <2>4. CASE ~Reigned(G, w)
    <3>1. Crowned(n, H, w)
      BY <2>4, NewlyReigned
    <3>2. CASE Overruled(G, t, i)
      <4>1. PICK x \in Nat : x > t /\ Showed(G, x) /\ ~Has(G[x], G[t], i)
        BY <3>2 DEF Overruled
      <4> QED
        BY <2>2, <4>1 DEF Reigned
    <3>3. CASE ~Overruled(G, t, i)
      BY <1>3, <2>1, <3>1, <3>3, NewLeaderLacks
    <3> QED
      BY <3>2, <3>3
  <2> QED
    BY <2>3, <2>4
<1> QED
  BY <1>2, <1>3

(* A step of this form keeps the invariant.                                *)
LEMMA FollowsKeeps ==
  ASSUME TInv, TInv', EInv, EInv', NEW n \in Server, NEW G, NEW H,
         History(G), History(H)', CInv(G), Follows(n, G, H)
  PROVE  CInv(H)'
<1>1. AcksHeld(H)'
  BY AcksHeldStays
<1>2. TermsBelow(H)'
  <2>1. TermsBelow(H)
    BY TermsBelowStays DEF CInv
  <2> QED
    BY <2>1 DEF TermsBelow
<1>3. AsksTruly' /\ VotesAsked' /\ AcksOnDisk'
  BY AsksTrulyStays, VotesAskedStays, AcksOnDiskStays DEF CInv
<1>4. NoneAhead'
  BY NoneAheadStays
<1>5. VotersKnow(H)'
  BY VotersKnowStays
<1>6. Overrulers(H)'
  BY OverrulersStay
<1> QED
  BY <1>1, <1>2, <1>3, <1>4, <1>5, <1>6 DEF CInv

-----------------------------------------------------------------------------
(* The steps follow.                                                       *)

(* What a step sends, and what of it is new.                               *)
LEMMA ElectsNews ==
  ASSUME NEW n \in Server, NEW new, Elects(n, new)
  PROVE  Elects(n, News)
<1>1. msgs' = msgs \cup new
  BY DEF Elects
<1>2. msgs' = msgs \cup News /\ \A x \in News : x \in new
  BY <1>1 DEF News
<1> QED
  BY <1>2 DEF Elects

(* Steps that write nothing to the log's disk, acknowledge nothing, and    *)
(* neither vote nor ask for votes.                                         *)
PlainNews == \A x \in News : ~IsAck(x) /\ ~IsVote(x) /\ ~IsAsk(x)

(* Steps that neither write nor stand for election.                        *)
LEMMA QuietFollows ==
  ASSUME NEW n \in Server, NEW G, History(G), NEW new, Elects(n, new), Carries(n, G, G),
         disk'[n].log = disk[n].log,
         PlainNews,
         role'[n] # "follower" =>
           /\ role'[n] = role[n]
           /\ current_term'[n] = current_term[n]
           /\ log'[n] = log[n]
  PROVE  Follows(n, G, G)
<1>1. Elects(n, News)
  BY ElectsNews
<1>3. Keeps(n, G)
  BY DEF Keeps
<1>4. AcksRightly(n, G) /\ VotesRightly(n, G, G) /\ AsksRightly(n)
  BY DEF PlainNews, AcksRightly, VotesRightly, AsksRightly
<1>5. StandsOn(n) /\ LeadsOn(n, G)
  BY DEF StandsOn, LeadsOn
<1> QED
  BY <1>1, <1>3, <1>4, <1>5 DEF Follows

(* These are counting a vote, refusing, and hearing of a follower.         *)
LEMMA QuietStepsFollow ==
  ASSUME TInv, EInv, NEW n \in Server, NEW m \in msgs,
         \/ CountVote(n, m)
         \/ RefuseStaleLeader(n, m)
         \/ OnAppendSuccess(n, m)
         \/ OnAppendFailure(n, m),
         NEW G, History(G)
  PROVE  Follows(n, G, G)
<1>1. UNCHANGED <<log, disk, role, current_term>>
  BY DEF CountVote, RefuseStaleLeader, OnAppendSuccess, OnAppendFailure, hardVars
<1>2. Carries(n, G, G)
  BY QuietStepsCarry
<1>3. PICK new : Elects(n, new)
  <2>1. CASE CountVote(n, m)
    BY <2>1, CountVoteElects
  <2>2. CASE RefuseStaleLeader(n, m) \/ OnAppendSuccess(n, m) \/ OnAppendFailure(n, m)
    BY <2>2, QuietSteps
  <2> QED
    BY <2>1, <2>2
<1>4. PlainNews
  <2>1. CASE CountVote(n, m)
    <3>1. msgs' = msgs
      BY <2>1 DEF CountVote
    <3> QED
      BY <3>1 DEF PlainNews, News
  <2>2. CASE RefuseStaleLeader(n, m)
    <3> DEFINE x == AppendEntriesReply(n, m.from, current_term[n], FALSE, 0)
    <3>1. msgs' = msgs \cup {x}
      BY <2>2 DEF RefuseStaleLeader, Send
    <3>2. ~IsAck(x) /\ ~IsVote(x) /\ ~IsAsk(x)
      BY DEF AppendEntriesReply, IsAck, IsVote, IsAsk
    <3> HIDE DEF x
    <3> QED
      BY <3>1, <3>2 DEF PlainNews, News
  <2>3. CASE OnAppendSuccess(n, m)
    <3>1. PICK c : msgs' = msgs \cup ReplyTo(n, Paid(n, pending_clients[n], c))
      BY <2>3 DEF OnAppendSuccess, Send
    <3>2. \A x \in ReplyTo(n, Paid(n, pending_clients[n], c)) :
            ~IsAck(x) /\ ~IsVote(x) /\ ~IsAsk(x)
      BY DEF ReplyTo, ClientReply, IsAck, IsVote, IsAsk
    <3> QED
      BY <3>1, <3>2 DEF PlainNews, News
  <2>4. CASE OnAppendFailure(n, m)
    <3> DEFINE x == AppendEntries(n, m.from, current_term[n], log[n],
                                  NextAfterFailure(n, m.from), commit_index[n])
    <3>1. msgs' = msgs \cup {x}
      BY <2>4 DEF OnAppendFailure, Send
    <3>2. ~IsAck(x) /\ ~IsVote(x) /\ ~IsAsk(x)
      BY DEF AppendEntries, IsAck, IsVote, IsAsk
    <3> HIDE DEF x
    <3> QED
      BY <3>1, <3>2 DEF PlainNews, News
  <2> QED
    BY <2>1, <2>2, <2>3, <2>4
<1> QED
  BY <1>1, <1>2, <1>3, <1>4, QuietFollows

(* A heartbeat.                                                            *)
LEMMA FireHeartbeatFollows ==
  ASSUME TInv, EInv, NEW n \in Server, FireHeartbeat(n), NEW G, History(G)
  PROVE  Follows(n, G, G)
<1>1. UNCHANGED <<log, disk, role, current_term>>
  BY DEF FireHeartbeat, hardVars
<1>2. Carries(n, G, G)
  BY FireHeartbeatCarries
<1>0. PICK new : Elects(n, new)
  BY QuietSteps
<1>3. PlainNews
  <2>1. CASE role[n] = "leader"
    <3> DEFINE sent == {AppendEntries(n, p, current_term[n], log[n], next_index[n][p],
                                      commit_index[n]) : p \in Peers(n)}
    <3>1. msgs' = msgs \cup sent
      BY <2>1 DEF FireHeartbeat, Send
    <3>2. \A x \in sent : ~IsAck(x) /\ ~IsVote(x) /\ ~IsAsk(x)
      BY DEF AppendEntries, IsAck, IsVote, IsAsk
    <3> HIDE DEF sent
    <3> QED
      BY <3>1, <3>2 DEF PlainNews, News
  <2>2. CASE role[n] # "leader"
    <3>1. msgs' = msgs
      BY <2>2 DEF FireHeartbeat
    <3> QED
      BY <3>1 DEF PlainNews, News
  <2> QED
    BY <2>1, <2>2
<1> QED
  BY <1>0, <1>1, <1>2, <1>3, QuietFollows

(* Stepping down.                                                          *)
LEMMA StepDownFollows ==
  ASSUME TInv, NEW n \in Server, running[n], NEW t \in Nat, StepDown(n, t),
         NEW G, History(G)
  PROVE  Follows(n, G, G)
<1>1. disk'[n].log = disk[n].log
  <2>1. PersistState(n, TermAfter(n, t), VoteAfter(n, t))
    BY DEF StepDown
  <2>2. TermAfter(n, t) \in Nat /\ VoteAfter(n, t) \in Server \cup {Nil}
    BY AfterType DEF TInv
  <2>3. disk'[n].log = log[n]
    BY <2>1, <2>2, StateWritten
  <2> QED
    BY <2>3, DiskAgrees DEF TInv
<1>2. msgs' = msgs /\ role'[n] = "follower"
  BY DEF StepDown, BecomeFollower, TInv, TypeOK
<1>3. Carries(n, G, G)
  BY StepDownCarries
<1>4. PICK new : Elects(n, new)
  BY StepDownElects
<1>5. PlainNews
  BY <1>2 DEF PlainNews, News
<1> QED
  BY <1>1, <1>2, <1>3, <1>4, <1>5, QuietFollows

(* Refusing a gap.                                                         *)
LEMMA RefuseGapFollows ==
  ASSUME TInv, NEW n \in Server, NEW m \in msgs, RefuseGap(n, m), NEW G, History(G)
  PROVE  Follows(n, G, G)
<1> DEFINE x == AppendEntriesReply(n, m.from, TermAfter(n, m.term), FALSE, 0)
<1>1. disk'[n].log = disk[n].log
  <2>1. /\ PersistState(n, TermAfter(n, m.term), VoteAfter(n, m.term))
        /\ HearLeader(n, m)
    BY DEF RefuseGap
  <2>2. running[n] /\ m.term \in Nat
    BY <2>1, HearLeaderStep
  <2>3. TermAfter(n, m.term) \in Nat /\ VoteAfter(n, m.term) \in Server \cup {Nil}
    BY <2>2, AfterType DEF TInv
  <2>4. disk'[n].log = log[n]
    BY <2>1, <2>2, <2>3, StateWritten
  <2> QED
    BY <2>2, <2>4, DiskAgrees DEF TInv
<1>2. msgs' = msgs \cup {x} /\ role'[n] = "follower"
  BY DEF RefuseGap, HearLeader, BecomeFollower, Send, TInv, TypeOK
<1>3. Carries(n, G, G)
  BY RefuseGapCarries
<1>4. PICK new : Elects(n, new)
  BY RefuseGapElects
<1>5. ~IsAck(x) /\ ~IsVote(x) /\ ~IsAsk(x)
  BY DEF AppendEntriesReply, IsAck, IsVote, IsAsk
<1> HIDE DEF x
<1>6. PlainNews
  BY <1>2, <1>5 DEF PlainNews, News
<1> QED
  BY <1>1, <1>2, <1>3, <1>4, <1>6, QuietFollows

(* A restart.                                                              *)
LEMMA RestartFollows ==
  ASSUME TInv, EInv, NEW n \in Server, Restart(n), NEW G, History(G)
  PROVE  Follows(n, G, G)
<1>1. /\ disk' = disk /\ msgs' = msgs /\ role' = role
      /\ current_term'[n] = disk[n].current_term /\ log'[n] = disk[n].log
  BY DEF Restart, TInv, TypeOK
<1>2. role'[n] # "follower" => running[n]
  BY <1>1 DEF TInv, DownIsFollower
<1>3. role'[n] # "follower" =>
        current_term'[n] = current_term[n] /\ log'[n] = log[n]
  BY <1>1, <1>2, DiskAgrees DEF TInv
<1>4. Carries(n, G, G)
  BY RestartCarries
<1>5. PICK new : Elects(n, new)
  BY RestartElects
<1>6. PlainNews
  BY <1>1 DEF PlainNews, News
<1> QED
  BY <1>1, <1>3, <1>4, <1>5, <1>6, QuietFollows

(* A vote goes to who asked for it, with a log that is up to date.         *)
LEMMA OnRequestVoteFollows ==
  ASSUME TInv, EInv, NEW n \in Server, NEW m \in msgs, OnRequestVote(n, m),
         NEW G, History(G)
  PROVE  Follows(n, G, G)
<1> DEFINE t == TermAfter(n, m.term)
           v == VoteOn(n, m)
           reply == RequestVoteReply(n, m.from, t, Grants(n, m))
<1>1. /\ running[n] /\ m.type = "RequestVote" /\ m.from \in Server /\ m.term \in Nat
      /\ current_term[n] \in Nat
  BY MessageFields DEF OnRequestVote, Receives, TInv, TypeOK
<1>2. t \in Nat /\ v \in Server \cup {Nil}
  BY <1>1, AfterType DEF VoteOn, TInv
<1>3. disk'[n].log = log[n] /\ disk[n].log = log[n]
  <2>1. PersistState(n, t, v)
    BY DEF OnRequestVote
  <2>2. disk'[n].log = log[n]
    BY <1>1, <1>2, <2>1, StateWritten
  <2> QED
    BY <1>1, <2>2, DiskAgrees DEF TInv
<1>4. /\ log' = log /\ msgs' = msgs \cup {reply}
      /\ current_term' = [current_term EXCEPT ![n] = t]
  BY DEF OnRequestVote, Send
<1>5. \/ role' = [role EXCEPT ![n] = "follower"]
      \/ role' = role /\ t = current_term[n]
  BY <1>1 DEF OnRequestVote, BecomeFollower, TermAfter, Larger
<1>6. ~IsAck(reply) /\ ~IsAsk(reply)
  BY DEF RequestVoteReply, IsAck, IsAsk
<1>7. IsVote(reply) =>
        IsAsk(m) /\ m.from = reply.to /\ m.term = reply.term /\ UpToDate(n, m)
  <2>1. SUFFICES ASSUME IsVote(reply)
                 PROVE  IsAsk(m) /\ m.from = reply.to /\ m.term = reply.term /\ UpToDate(n, m)
    OBVIOUS
  <2>2. Grants(n, m) /\ reply.to = m.from /\ reply.term = t
    BY <2>1 DEF RequestVoteReply, IsVote
  <2>3. m.term >= current_term[n] /\ UpToDate(n, m)
    BY <2>2 DEF Grants
  <2>4. t = m.term
    BY <1>1, <2>3 DEF TermAfter, Larger
  <2> QED
    BY <1>1, <2>2, <2>3, <2>4 DEF IsAsk
<1> HIDE DEF t, v, reply
<1>8. \A x \in News : x = reply
  BY <1>4 DEF News
<1>9. Elects(n, News)
  <2>1. PICK new : Elects(n, new)
    BY OnRequestVoteElects
  <2> QED
    BY <2>1, ElectsNews
<1>10. role'[n] # "follower" =>
         role'[n] = role[n] /\ current_term'[n] = current_term[n] /\ log'[n] = log[n]
  BY <1>4, <1>5 DEF TInv, TypeOK
<1>11. Keeps(n, G)
  BY <1>3 DEF Keeps
<1>12. AcksRightly(n, G) /\ AsksRightly(n)
  BY <1>6, <1>8 DEF AcksRightly, AsksRightly
<1>13. VotesRightly(n, G, G)
  BY <1>3, <1>7, <1>8 DEF VotesRightly
<1>14. StandsOn(n) /\ LeadsOn(n, G)
  BY <1>10 DEF StandsOn, LeadsOn
<1>15. Carries(n, G, G)
  BY OnRequestVoteCarries
<1> QED
  BY <1>9, <1>11, <1>12, <1>13, <1>14, <1>15 DEF Follows

(* A candidate asks with the log it has.                                   *)
LEMMA AskForVotesFollows ==
  ASSUME TInv, EInv, NEW n \in Server, Campaign(n), AskForVotes(n), NEW G, History(G)
  PROVE  Follows(n, G, G)
<1> DEFINE t == current_term[n] + 1
           new == {RequestVote(n, p, t, log[n]) : p \in Peers(n)}
<1>1. /\ msgs' = msgs \cup new
      /\ role' = [role EXCEPT ![n] = "candidate"]
      /\ current_term' = [current_term EXCEPT ![n] = @ + 1]
      /\ running[n]
      /\ UNCHANGED log
  BY DEF Campaign, AskForVotes, Send
<1>2. disk'[n].log = log[n] /\ disk[n].current_term = current_term[n]
  <2>1. /\ disk'[n] = [current_term |-> current_term[n] + 1, voted_for |-> n,
                       log |-> log[n]]
        /\ disk[n].current_term = current_term[n]
    BY CampaignStep
  <2> QED
    BY <2>1
<1>3. disk[n].log = log[n]
  BY <1>1, DiskAgrees DEF TInv
<1>4. \A x \in new : /\ ~IsAck(x) /\ ~IsVote(x)
                     /\ x.last_log_index = LastIndex(log[n])
                     /\ x.last_log_term = LastTerm(log[n])
  BY DEF RequestVote, IsAck, IsVote
<1>5. \A x \in News : x \in new
  BY <1>1 DEF News
<1> HIDE DEF new
<1>6. role'[n] = "candidate" /\ current_term'[n] = disk[n].current_term + 1
      /\ log'[n] = log[n]
  BY <1>1, <1>2 DEF TInv, TypeOK
<1>7. Elects(n, News)
  <2>1. PICK sent : Elects(n, sent)
    BY AskForVotesElects
  <2> QED
    BY <2>1, ElectsNews
<1>8. Keeps(n, G)
  BY <1>2, <1>3 DEF Keeps
<1>9. AcksRightly(n, G) /\ VotesRightly(n, G, G)
  BY <1>4, <1>5 DEF AcksRightly, VotesRightly
<1>10. AsksRightly(n)
  BY <1>4, <1>5, <1>6 DEF AsksRightly
<1>11. StandsOn(n) /\ LeadsOn(n, G)
  BY <1>6 DEF StandsOn, LeadsOn
<1>12. Carries(n, G, G)
  BY AskForVotesCarries
<1> QED
  BY <1>7, <1>8, <1>9, <1>10, <1>11, <1>12 DEF Follows

(* A new leader's log begins the history of its term.                      *)
LEMMA LeadFollows ==
  ASSUME TInv, NEW n \in Server, NEW G, History(G), NEW w \in Nat,
         NEW new, Elects(n, new), NEW H, H = With(G, w, log[n]), Carries(n, G, H),
         Crowned(n, H, w), disk'[n].log = log[n],
         \A c \in Server : ~Led(c, w),
         \A i \in 1 .. Len(log[n]) : log[n][i].term <= w,
         PlainNews
  PROVE  Follows(n, G, H)
<1>1. /\ role'[n] = "leader" /\ current_term'[n] = w /\ disk'[n].current_term = w
      /\ disk[n].log = log[n] /\ H[w] = log[n]
  BY DEF Crowned
<1>2. Led(n, w)'
  <2>1. LedNow(n)'
    BY <1>1 DEF Carries
  <2> QED
    BY <1>1, <2>1 DEF Led, LedNow
<1>3. \A t \in Nat : t # w => H[t] = G[t]
  <2>1. GhostType(G) /\ log[n] \in Seq(Entry)
    BY DEF History, TInv, TypeOK
  <2>2. G[w] = << >>
    BY DEF History, OnlyLed
  <2>3. Begins(G[w], log[n])
    BY <2>1, <2>2 DEF Begins
  <2> QED
    BY <2>1, <2>3, WithExtends
<1>4. Grown(n, G, H, w)
  <2>1. Begun(n, H, w)
    BY <1>1 DEF Begun
  <2> QED
    BY <1>1, <1>2, <2>1 DEF Grown
<1>5. \A t \in Nat : H[t] = G[t] \/ Grown(n, G, H, t)
  BY <1>3, <1>4
<1>6. Elects(n, News)
  BY ElectsNews
<1>7. Keeps(n, G)
  BY <1>1 DEF Keeps
<1>8. AcksRightly(n, H) /\ VotesRightly(n, G, H) /\ AsksRightly(n)
  BY DEF PlainNews, AcksRightly, VotesRightly, AsksRightly
<1>9. StandsOn(n) /\ LeadsOn(n, H)
  BY <1>1 DEF StandsOn, LeadsOn
<1> QED
  BY <1>5, <1>6, <1>7, <1>8, <1>9 DEF Follows

(* Winning by a vote.                                                      *)
LEMMA WinElectionFollows ==
  ASSUME TInv, EInv, ElectionSafety', NEW n \in Server, NEW m \in msgs, WinElection(n, m),
         NEW G, History(G), CInv(G)
  PROVE  Follows(n, G, With(G, current_term[n], log[n]))
<1> DEFINE new == {AppendEntries(n, p, current_term[n], log[n], LastIndex(log[n]) + 1,
                                 commit_index[n]) : p \in Peers(n)}
<1>1. /\ CountsVote(n, m) /\ IsMajority(VotesWith(n, m)) /\ msgs' = msgs \cup new
      /\ role' = [role EXCEPT ![n] = "leader"]
      /\ UNCHANGED <<log, disk, current_term, running>>
  BY DEF WinElection, BecomeLeader, Send, hardVars
<1>2. PlainNews
  <2>1. \A x \in new : ~IsAck(x) /\ ~IsVote(x) /\ ~IsAsk(x)
    BY DEF AppendEntries, IsAck, IsVote, IsAsk
  <2> HIDE DEF new
  <2> QED
    BY <1>1, <2>1 DEF PlainNews, News
<1> HIDE DEF new
<1>3. PICK w \in Nat : w = current_term[n]
  BY DEF TInv, TypeOK
<1>4. /\ m.type = "RequestVoteReply" /\ m.to = n /\ running[n] /\ role[n] = "candidate"
      /\ m \in Message
  BY <1>1 DEF CountsVote, Receives, TInv, TypeOK
<1>5. /\ disk[n].log = log[n] /\ disk[n].current_term = w
      /\ \A v \in VotesWith(n, m) : v = n \/ Voted(v, n, w)
  BY <1>1, <1>3, <1>4, CountedVotes, DiskAgrees DEF TInv
<1>6. VotesWith(n, m) \in SUBSET Server
  <2>1. m.from \in Server /\ votes_granted[n] \in SUBSET Server
    BY <1>4, MessageFields DEF TInv, TypeOK
  <2> QED
    BY <2>1 DEF VotesWith
<1>7. role'[n] = "leader" /\ current_term'[n] = w /\ disk'[n] = disk[n]
  BY <1>1, <1>3 DEF TInv, TypeOK
<1>8. \A c \in Server : ~Led(c, w)
  <2>1. Peers(n) # {}
    <3>1. m.from \in Server /\ m.from # n
      BY <1>4, MessageFields DEF EInv, NotToSelf
    <3> QED
      BY <3>1 DEF Peers
  <2>2. running'[n] /\ msgs \subseteq msgs'
    BY <1>1, <1>4
  <2> QED
    BY <1>3, <1>4, <1>7, <2>1, <2>2, NewLeaderFresh
<1>9. ASSUME NEW i \in 1 .. Len(log[n]) PROVE log[n][i].term <= w
  <2>1. log[n][i].term \in Nat
    <3>1. log[n] \in Seq(Entry)
      BY DEF TInv, TypeOK
    <3>2. log[n][i] \in Entry
      BY <3>1
    <3> QED
      BY <3>2 DEF Entry
  <2>2. SUFFICES ASSUME log[n][i].term > w PROVE FALSE
    BY <2>1
  <2>3. Outrun(n, w)
    BY <1>3, <1>4, <2>2 DEF CInv, NoneAhead
  <2>4. PICK S \in SUBSET Server :
          IsMajority(S) /\ \A z \in S : disk[z].current_term > w /\ ~Voted(z, n, w)
    BY <2>3 DEF Outrun
  <2>5. PICK z \in Server : z \in S /\ z \in VotesWith(n, m)
    BY <1>1, <1>6, <2>4, MajoritiesMeet
  <2>6. z = n
    BY <1>5, <2>4, <2>5
  <2> QED
    BY <1>5, <2>4, <2>5, <2>6
<1> DEFINE H == With(G, w, log[n])
<1>10. H[w] = log[n]
  BY DEF With, History, GhostType
<1>11. Crowned(n, H, w)
  <2> HIDE DEF H
  <2>1. w <= disk[n].current_term + 1
    BY <1>5
  <2>2. \A v \in VotesWith(n, m) :
          v = n \/ /\ role[n] = "candidate" /\ current_term[n] = w /\ Voted(v, n, w)
    BY <1>3, <1>4, <1>5
  <2> QED
    BY <1>1, <1>5, <1>6, <1>7, <1>10, <2>1, <2>2 DEF Crowned
<1>12. Carries(n, G, H)
  BY <1>3, WinElectionCarries
<1>13. PICK sent : Elects(n, sent)
  BY WinElectionElects
<1>14. Follows(n, G, H)
  <2>1. disk'[n].log = log[n]
    BY <1>5, <1>7
  <2> QED
    BY <1>2, <1>8, <1>9, <1>11, <1>12, <1>13, <2>1, LeadFollows
<1> QED
  BY <1>3, <1>14

(* Winning alone.                                                          *)
LEMMA ElectOneselfFollows ==
  ASSUME TInv, EInv, ElectionSafety', NEW n \in Server, Campaign(n), IsMajority({n}),
         BecomeLeader(n, current_term[n] + 1), NEW G, History(G)
  PROVE  Follows(n, G, With(G, current_term[n] + 1, log[n]))
<1> DEFINE new == {AppendEntries(n, p, current_term[n] + 1, log[n], LastIndex(log[n]) + 1,
                                 commit_index[n]) : p \in Peers(n)}
<1>1. /\ msgs' = msgs \cup new
      /\ role' = [role EXCEPT ![n] = "leader"]
      /\ current_term' = [current_term EXCEPT ![n] = @ + 1]
      /\ running[n]
      /\ UNCHANGED <<log, running>>
  BY DEF Campaign, BecomeLeader, Send
<1>2. PlainNews
  <2>1. \A x \in new : ~IsAck(x) /\ ~IsVote(x) /\ ~IsAsk(x)
    BY DEF AppendEntries, IsAck, IsVote, IsAsk
  <2> HIDE DEF new
  <2> QED
    BY <1>1, <2>1 DEF PlainNews, News
<1>3. msgs \subseteq msgs'
  BY <1>1
<1> HIDE DEF new
<1>4. /\ disk'[n].log = log[n] /\ disk'[n].current_term = current_term[n] + 1
      /\ disk[n].current_term = current_term[n] /\ current_term[n] \in Nat
  <2>1. /\ disk'[n] = [current_term |-> current_term[n] + 1, voted_for |-> n,
                       log |-> log[n]]
        /\ disk[n].current_term = current_term[n] /\ current_term[n] \in Nat
    BY CampaignStep
  <2> QED
    BY <2>1
<1>5. PICK w \in Nat : w = current_term[n] + 1
  BY <1>4
<1>6. disk[n].log = log[n]
  BY <1>1, DiskAgrees DEF TInv
<1>7. role'[n] = "leader" /\ current_term'[n] = w /\ running'[n]
  BY <1>1, <1>5 DEF TInv, TypeOK
<1>8. \A c \in Server : ~Led(c, w)
  <2>1. w > disk[n].current_term
    BY <1>4, <1>5
  <2> QED
    BY <1>3, <1>7, <2>1, NewLeaderFresh
<1>9. ASSUME NEW i \in 1 .. Len(log[n]) PROVE log[n][i].term <= w
  <2>1. PICK s \in Nat : s = log[n][i].term
    <3>1. log[n] \in Seq(Entry)
      BY DEF TInv, TypeOK
    <3>2. log[n][i] \in Entry
      BY <3>1
    <3> QED
      BY <3>2 DEF Entry
  <2>2. i <= Len(G[s])
    BY <2>1 DEF History, LogsOn, On, AgreesAt
  <2>3. G[s] # << >>
    BY <2>2
  <2>4. Backed(s)
    BY <2>3, ReignedBacked DEF Reigned, Showed
  <2>5. PICK Q \in SUBSET Server : IsMajority(Q) /\ \A y \in Q : disk[y].current_term >= s
    BY <2>4 DEF Backed
  <2>6. n \in Q
    BY <2>5, MajoritiesMeet
  <2>7. disk[n].current_term >= s
    BY <2>5, <2>6
  <2> QED
    BY <1>4, <1>5, <2>1, <2>7
<1> DEFINE H == With(G, w, log[n])
<1>10. H[w] = log[n]
  BY DEF With, History, GhostType
<1>11. Crowned(n, H, w)
  <2> HIDE DEF H
  <2>1. w <= disk[n].current_term + 1 /\ disk'[n].current_term = w
    BY <1>4, <1>5
  <2>2. \E Q \in SUBSET Server :
       /\ IsMajority(Q)
       /\ \A v \in Q : v = n \/ /\ role[n] = "candidate"
                                /\ current_term[n] = w
                                /\ Voted(v, n, w)
    <3>1. {n} \in SUBSET Server /\ \A v \in {n} : v = n
      OBVIOUS
    <3> QED
      BY <3>1
  <2> QED
    BY <1>6, <1>7, <1>10, <2>1, <2>2 DEF Crowned
<1>12. Carries(n, G, H)
  BY <1>5, ElectOneselfCarries
<1>13. PICK sent : Elects(n, sent)
  BY ElectOneselfElects
<1>14. Follows(n, G, H)
  BY <1>2, <1>4, <1>8, <1>9, <1>11, <1>12, <1>13, LeadFollows
<1> QED
  BY <1>5, <1>14

-----------------------------------------------------------------------------
(* Taking entries, and a disk that fails meanwhile.                        *)

(* What an AppendEntries cuts away, its leader lacks.                      *)
LEMMA CutKeeps ==
  ASSUME NEW G, GhostType(G), LeadersOn(G), NEW n \in Server,
         log[n] \in Seq(Entry), On(log[n], G),
         NEW m, m.term \in Nat, m.prev_log_index \in Nat, m.entries \in Seq(Entry),
         SliceOf(m, G[m.term]), Consistent(n, m),
         NEW h \in 0 .. Len(m.entries), Held(n, m, h),
         NEW b \in Seq(Entry), NEW i \in Nat, Has(log[n], b, i), Has(G[m.term], b, i)
  PROVE  Has(TruncateFrom(log[n], CutAt(n, m, h)), b, i)
<1> DEFINE l == log[n]
           g == G[m.term]
           p == m.prev_log_index
           e == m.entries
           T == TruncateFrom(l, CutAt(n, m, h))
<1>1. /\ l \in Seq(Entry) /\ g \in Seq(Entry) /\ e \in Seq(Entry)
      /\ Has(l, b, i) /\ Has(g, b, i)
  BY DEF GhostType
<1>2. /\ p \in Nat /\ h \in Nat /\ h <= Len(e) /\ p + Len(e) <= Len(g)
      /\ Len(l) \in Nat /\ Len(g) \in Nat /\ Len(e) \in Nat
  BY <1>1 DEF SliceOf, LastNew
<1>3. CASE T = l
  BY <1>1, <1>3
<1>4. CASE T # l
  <2>1. CutAt(n, m, h) <= Len(l)
    BY <1>4 DEF TruncateFrom, LastIndex
  <2>2. h # Len(e) /\ CutAt(n, m, h) = p + h + 1
    <3>1. CutAt(n, m, h) # Len(l) + 1
      BY <1>2, <2>1
    <3> QED
      BY <3>1 DEF CutAt, LastIndex
  <2>3. p + h + 1 <= Len(l) /\ h + 1 \in 1 .. Len(e)
    <3> HIDE DEF l, g, p, e
    <3> QED
      BY <1>2, <2>1, <2>2
  <2>4. ~Holds(n, m, h + 1)
    <3>1. h < Len(e)
      BY <1>2, <2>2
    <3> QED
      BY <3>1 DEF Held
  <2>5. l[p + h + 1].term # e[h + 1].term
    <3>1. p + (h + 1) = p + h + 1
      <4> HIDE DEF l, g, p, e, T
      <4> QED
        BY <1>2
    <3>2. HasEntry(l, p + h + 1) /\ TermAt(l, p + h + 1) = l[p + h + 1].term
      <4> HIDE DEF l, p
      <4> QED
        BY <1>2, <2>3 DEF HasEntry, TermAt, SENTINEL_INDEX, LastIndex
    <3> QED
      BY <2>4, <3>1, <3>2 DEF Holds
  <2>6. e[h + 1] = g[p + h + 1]
    <3>1. e[h + 1] = g[p + (h + 1)]
      BY <2>3 DEF SliceOf
    <3>2. p + (h + 1) = p + h + 1
      <4> HIDE DEF l, g, p, e, T
      <4> QED
        BY <1>2
    <3> QED
      BY <3>1, <3>2
  <2>7. i <= p + h
    <3>1. SUFFICES ASSUME ~(i <= p + h) PROVE FALSE
      OBVIOUS
    <3> HIDE DEF l, g, p, e
    <3>2. p + h + 1 \in 1 .. i
      BY <1>2, <3>1
    <3>3. l[p + h + 1] = b[p + h + 1] /\ g[p + h + 1] = b[p + h + 1]
      BY <1>1, <3>2 DEF Has
    <3> QED
      BY <2>5, <2>6, <3>3
  <2>8. T = SubSeq(l, 1, p + h)
    <3>1. T = SubSeq(l, 1, CutAt(n, m, h) - 1)
      BY <2>1 DEF TruncateFrom, LastIndex
    <3>2. CutAt(n, m, h) - 1 = p + h
      <4> HIDE DEF p
      <4> QED
        BY <1>2, <2>2
    <3> HIDE DEF T, l, p
    <3> QED
      BY <3>1, <3>2
  <2>9. /\ Len(T) = p + h
        /\ \A j \in 1 .. p + h : T[j] = l[j]
    <3> DEFINE q == p + h
    <3>1. q \in 0 .. Len(l)
      <4> HIDE DEF l, p
      <4> QED
        BY <1>2, <2>3
    <3> HIDE DEF q
    <3>2. /\ Len(SubSeq(l, 1, q)) = q
          /\ \A j \in 1 .. q : SubSeq(l, 1, q)[j] = l[j]
      BY <1>1, <3>1
    <3>3. T = SubSeq(l, 1, q)
      BY <2>8 DEF q
    <3> HIDE DEF T
    <3> QED
      BY <3>2, <3>3 DEF q
  <2> HIDE DEF T, l, g, p, e
  <2>10. \A j \in 1 .. i : j \in 1 .. p + h
    BY <1>2, <2>7
  <2>11. i <= Len(b) /\ \A j \in 1 .. i : l[j] = b[j]
    BY <1>1 DEF Has
  <2>12. Has(T, b, i)
    BY <2>7, <2>9, <2>10, <2>11 DEF Has
  <2> QED
    BY <2>12 DEF T, l
<1> QED
  BY <1>3, <1>4

(* Appending to a log keeps its beginning.                                 *)
LEMMA ConcatHas ==
  ASSUME NEW a \in Seq(Entry), NEW c \in Seq(Entry), NEW b \in Seq(Entry), NEW i \in Nat,
         Has(a, b, i)
  PROVE  Has(a \o c, b, i)
<1>1. /\ Len(a) \in Nat /\ Len(c) \in Nat
      /\ Len(a \o c) = Len(a) + Len(c)
      /\ \A j \in 1 .. Len(a) : (a \o c)[j] = a[j]
  OBVIOUS
<1>2. i <= Len(a) /\ i <= Len(b) /\ \A j \in 1 .. i : a[j] = b[j]
  BY DEF Has
<1>3. i <= Len(a \o c)
  BY <1>1, <1>2
<1>4. ASSUME NEW j \in 1 .. i PROVE (a \o c)[j] = b[j]
  <2>1. j \in 1 .. Len(a)
    BY <1>1, <1>2
  <2> QED
    BY <1>1, <1>2, <2>1
<1> QED
  BY <1>2, <1>3, <1>4 DEF Has

(* So does a torn write of what was not cut.                               *)
LEMMA TornKeeps ==
  ASSUME NEW d \in HardState, NEW cut \in Nat \ {0}, NEW new \in Seq(Entry), NEW t, NEW v,
         NEW x \in AfterTear(d, cut, new, t, v),
         NEW b \in Seq(Entry), NEW i \in Nat,
         Has(d.log, b, i), Has(TruncateFrom(d.log, cut), b, i)
  PROVE  Has(x.log, b, i)
<1> DEFINE T == TruncateFrom(d.log, cut)
<1>1. T \in Seq(Entry)
  BY TruncateType DEF HardState
<1> HIDE DEF T
<1>2. CASE x = d
  BY <1>2
<1>3. CASE x = AfterWrite(d, cut, new, t, v)
  <2>1. x.log = T \o new
    BY <1>3 DEF AfterWrite, T
  <2> QED
    BY <1>1, <2>1, ConcatHas DEF T
<1>4. ASSUME NEW k \in 0 .. Len(new), x = [d EXCEPT !.log = T \o SubSeq(new, 1, k)]
      PROVE  Has(x.log, b, i)
  <2>1. x.log = T \o SubSeq(new, 1, k)
    BY <1>4 DEF HardState
  <2>2. SubSeq(new, 1, k) \in Seq(Entry)
    BY <1>4
  <2> QED
    BY <1>1, <2>1, <2>2, ConcatHas DEF T
<1> QED
  BY <1>2, <1>3, <1>4 DEF AfterTear, T

(* What the follower of a later leader cuts away is lost to that leader.   *)
LEMMA CutLost ==
  ASSUME TInv, NEW G, History(G), NEW n \in Server, running[n],
         NEW m \in msgs, m.type = "AppendEntries", m.to = n, m.term >= current_term[n],
         Consistent(n, m), NEW h \in 0 .. Len(m.entries), Held(n, m, h),
         NEW t \in Nat, t <= disk[n].current_term,
         NEW i \in 1 .. Len(G[t]), Has(disk[n].log, G[t], i), ~Lost(G, n, t, i)
  PROVE  Has(TruncateFrom(log[n], CutAt(n, m, h)), G[t], i)
<1>1. /\ m.term \in Nat /\ m.prev_log_index \in Nat /\ m.entries \in Seq(Entry)
      /\ IsAppend(m)
  BY MessageFields DEF TInv, TypeOK, IsAppend
<1>2. disk[n].current_term = current_term[n] /\ disk[n].log = log[n]
      /\ current_term[n] \in Nat
  BY DiskAgrees DEF TInv, TypeOK
<1>3. /\ GhostType(G) /\ LeadersOn(G) /\ On(log[n], G) /\ log[n] \in Seq(Entry)
      /\ SliceOf(m, G[m.term]) /\ G[t] \in Seq(Entry)
  BY <1>1 DEF History, LogsOn, SlicesOn, GhostType, TInv, TypeOK
<1>4. i \in Nat /\ i <= Len(G[t])
  BY <1>3
<1>5. Has(G[m.term], G[t], i)
  <2>1. CASE m.term > t
    BY <1>1, <2>1 DEF Lost
  <2>2. CASE ~(m.term > t)
    <3>1. m.term = t
      BY ONLY <1>1, <1>2, <2>2, m.term >= current_term[n], t <= disk[n].current_term,
              t \in Nat
    <3> QED
      BY <1>3, <1>4, <3>1, BeginsSelf, BeginsHas
  <2> QED
    BY <2>1, <2>2
<1>6. Has(log[n], G[t], i)
  BY <1>2
<1> QED
  BY <1>1, <1>3, <1>4, <1>5, <1>6, CutKeeps

(* Taking the entries of a leader.                                         *)
LEMMA TakeEntriesFollows ==
  ASSUME TInv, NEW n \in Server, NEW m \in msgs, TakeEntries(n, m), NEW G, History(G)
  PROVE  Follows(n, G, G)
<1>1. /\ HearLeader(n, m) /\ Consistent(n, m)
      /\ running[n] /\ m \in Message /\ m.type = "AppendEntries" /\ m.to = n
      /\ m.term \in Nat /\ m.term >= current_term[n] /\ TermAfter(n, m.term) = m.term
      /\ VoteAfter(n, m.term) \in Server \cup {Nil}
  <2>1. HearLeader(n, m) /\ Consistent(n, m)
    BY DEF TakeEntries
  <2>2. m.to = n
    BY <2>1 DEF HearLeader, Receives
  <2> QED
    BY <2>1, <2>2, HearLeaderStep
<1>2. PICK h \in 0 .. Len(m.entries) :
        /\ Held(n, m, h)
        /\ Persist(n, CutAt(n, m, h), NewEntries(m, h), m.term, VoteAfter(n, m.term))
  BY <1>1 DEF TakeEntries
<1>3. CutAt(n, m, h) \in Nat \ {0} /\ NewEntries(m, h) \in Seq(Entry)
  BY <1>1, CutType DEF TInv
<1>4. disk'[n].log = Taken(n, m, h) /\ disk'[n].current_term = m.term
  <2>1. PICK t \in Nat, v \in Server \cup {Nil} : t = m.term /\ v = VoteAfter(n, m.term)
    BY <1>1
  <2>2. Persist(n, CutAt(n, m, h), NewEntries(m, h), t, v)
    BY <1>2, <2>1
  <2>3. /\ disk'[n].log = TruncateFrom(log[n], CutAt(n, m, h)) \o NewEntries(m, h)
        /\ disk'[n].current_term = t
    <3>1. PICK cut \in Nat \ {0}, new \in Seq(Entry) :
            cut = CutAt(n, m, h) /\ new = NewEntries(m, h)
      BY <1>3
    <3>2. Persist(n, cut, new, t, v)
      BY <2>2, <3>1
    <3>3. running[n] /\ TInv
      BY <1>1
    <3>4. disk'[n].log = TruncateFrom(log[n], cut) \o new /\ disk'[n].current_term = t
      BY ONLY <3>2, <3>3, n \in Server, cut \in Nat \ {0}, new \in Seq(Entry), t \in Nat,
              v \in Server \cup {Nil}, LogWritten
    <3> QED
      BY <3>1, <3>4
  <2> QED
    BY <2>1, <2>3 DEF Taken
<1>6. /\ GhostType(G) /\ LeadersOn(G) /\ On(log[n], G) /\ log[n] \in Seq(Entry)
      /\ SliceOf(m, G[m.term])
  BY <1>1 DEF History, LogsOn, SlicesOn, IsAppend, TInv, TypeOK
<1>7. m.prev_log_index \in Nat /\ m.entries \in Seq(Entry)
  BY <1>1, MessageFields
<1>8. Keeps(n, G)
  <2> SUFFICES ASSUME NEW t \in Nat, NEW i \in 1 .. Len(G[t]),
                      t <= disk[n].current_term, Has(disk[n].log, G[t], i),
                      ~Lost(G, n, t, i)
               PROVE  Has(disk'[n].log, G[t], i)
    BY DEF Keeps
  <2> DEFINE T == TruncateFrom(log[n], CutAt(n, m, h))
  <2>1. Has(T, G[t], i)
    BY <1>1, <1>2, CutLost
  <2>2. T \in Seq(Entry)
    BY <1>3, <1>6, TruncateType
  <2>3. Taken(n, m, h) = T \o NewEntries(m, h)
    BY DEF Taken
  <2>4. G[t] \in Seq(Entry) /\ i \in Nat
    BY <1>6 DEF GhostType
  <2> HIDE DEF T
  <2> QED
    BY <1>3, <1>4, <2>1, <2>2, <2>3, <2>4, ConcatHas
<1> DEFINE ack == AppendEntriesReply(n, m.from, m.term, TRUE, LastNew(m))
           paid == ReplyTo(n, Paid(n, pending_clients[n], CommitAfter(n, m)))
<1>9. msgs' = msgs \cup ({ack} \cup paid)
  BY <1>1 DEF TakeEntries, Send, LastNew
<1>10. \A x \in paid : ~IsAck(x) /\ ~IsVote(x) /\ ~IsAsk(x)
  BY DEF ReplyTo, ClientReply, IsAck, IsVote, IsAsk
<1>11. /\ ~IsVote(ack) /\ ~IsAsk(ack)
       /\ ack.from = n /\ ack.term = m.term /\ ack.match_index = LastNew(m)
  BY DEF AppendEntriesReply, IsVote, IsAsk
<1>12. Has(disk'[n].log, G[m.term], LastNew(m))
  <2>1. /\ LastNew(m) <= Len(Taken(n, m, h))
        /\ \A j \in 1 .. LastNew(m) : Taken(n, m, h)[j] = G[m.term][j]
    BY <1>1, <1>2, <1>6, <1>7, TakenIsLeaders
  <2>2. LastNew(m) <= Len(G[m.term])
    BY <1>6 DEF SliceOf
  <2> QED
    BY <1>4, <2>1, <2>2 DEF Has
<1> HIDE DEF ack, paid
<1>13. \A x \in News : x = ack \/ x \in paid
  BY <1>9 DEF News
<1>14. AcksRightly(n, G)
  BY <1>4, <1>10, <1>11, <1>12, <1>13 DEF AcksRightly
<1>15. VotesRightly(n, G, G) /\ AsksRightly(n)
  BY <1>10, <1>11, <1>13 DEF VotesRightly, AsksRightly
<1>16. role'[n] = "follower"
  BY <1>1 DEF HearLeader, BecomeFollower, TInv, TypeOK
<1>17. StandsOn(n) /\ LeadsOn(n, G)
  BY <1>16 DEF StandsOn, LeadsOn
<1>18. Elects(n, News)
  <2>1. PICK new : Elects(n, new)
    BY TakeEntriesElects
  <2> QED
    BY <2>1, ElectsNews
<1>19. Carries(n, G, G)
  BY TakeEntriesCarries
<1> QED
  BY <1>8, <1>14, <1>15, <1>17, <1>18, <1>19 DEF Follows

(* Dying with a disk that has what must be kept.                           *)
LEMMA DieFollows ==
  ASSUME TInv, NEW n \in Server, NEW d, Die(n, d), NEW G, NEW H,
         NEW new, Elects(n, new), Carries(n, G, H),
         \A t \in Nat : H[t] = G[t] \/ Grown(n, G, H, t),
         \A t \in Nat : \A i \in 1 .. Len(G[t]) :
           /\ t <= disk[n].current_term
           /\ Has(disk[n].log, G[t], i)
           /\ ~Lost(G, n, t, i)
           => Has(d.log, G[t], i)
  PROVE  Follows(n, G, H)
<1>1. disk'[n] = d /\ role'[n] = "follower" /\ msgs' = msgs
  BY DEF Die, TInv, TypeOK
<1>2. Keeps(n, G)
  BY <1>1 DEF Keeps
<1>3. AcksRightly(n, H) /\ VotesRightly(n, G, H) /\ AsksRightly(n)
  BY <1>1 DEF AcksRightly, VotesRightly, AsksRightly, News
<1>4. StandsOn(n) /\ LeadsOn(n, H)
  BY <1>1 DEF StandsOn, LeadsOn
<1>5. Elects(n, News)
  BY ElectsNews
<1> QED
  BY <1>2, <1>3, <1>4, <1>5 DEF Follows

(* Dying with what a torn write left.                                      *)
LEMMA TornFollows ==
  ASSUME TInv, NEW n \in Server, NEW cut \in Nat \ {0}, NEW add \in Seq(Entry), NEW s, NEW v,
         NEW d \in Torn(n, cut, add, s, v), Die(n, d),
         NEW G, History(G), NEW new, Elects(n, new), Carries(n, G, G),
         \A t \in Nat : \A i \in 1 .. Len(G[t]) :
           /\ t <= disk[n].current_term
           /\ Has(disk[n].log, G[t], i)
           /\ ~Lost(G, n, t, i)
           => Has(TruncateFrom(log[n], cut), G[t], i)
  PROVE  Follows(n, G, G)
<1>1. disk[n].log = log[n] /\ disk[n] \in HardState
  BY DiskAgrees DEF Die, TInv, TypeOK
<1>2. d \in AfterTear(disk[n], cut, add, s, v)
  BY DEF Torn
<1>3. ASSUME NEW t \in Nat, NEW i \in 1 .. Len(G[t]),
             t <= disk[n].current_term, Has(disk[n].log, G[t], i), ~Lost(G, n, t, i)
      PROVE  Has(d.log, G[t], i)
  <2>1. G[t] \in Seq(Entry) /\ i \in Nat
    BY DEF History, GhostType
  <2>2. Has(TruncateFrom(disk[n].log, cut), G[t], i)
    BY <1>1, <1>3
  <2> QED
    BY <1>1, <1>2, <1>3, <2>1, <2>2, TornKeeps
<1> QED
  BY <1>3, DieFollows

(* A torn write of the term and the vote.                                  *)
LEMMA TornStateFollows ==
  ASSUME TInv, NEW n \in Server, NEW s, NEW v,
         NEW d \in Torn(n, LastIndex(log[n]) + 1, << >>, s, v), Die(n, d),
         NEW G, History(G), NEW new, Elects(n, new)
  PROVE  Follows(n, G, G)
<1> DEFINE cut == LastIndex(log[n]) + 1
<1>1. log[n] \in Seq(Entry) /\ cut \in Nat \ {0} /\ << >> \in Seq(Entry)
  BY DEF TInv, TypeOK, LastIndex
<1>2. TruncateFrom(log[n], cut) = log[n]
  BY <1>1 DEF TruncateFrom, LastIndex
<1>3. disk[n].log = log[n]
  BY DiskAgrees DEF Die, TInv
<1>4. Carries(n, G, G)
  BY TornStateCarries
<1>5. d \in Torn(n, cut, << >>, s, v)
  OBVIOUS
<1> HIDE DEF cut
<1> QED
  BY <1>1, <1>2, <1>3, <1>4, <1>5, TornFollows

(* A disk that fails under a message.                                      *)
LEMMA DiskErrorOnMessageFollows ==
  ASSUME TInv, NEW n \in Server, NEW m \in msgs, DiskErrorOnMessage(n, m),
         NEW G, History(G)
  PROVE  Follows(n, G, G)
<1>1. PICK d \in TornBy(n, m) : Die(n, d)
  BY DEF DiskErrorOnMessage
<1>2. m \in Message /\ TypeOK /\ running[n] /\ m.to = n
  BY <1>1 DEF TInv, TypeOK, DiskErrorOnMessage, Die
<1>3. PICK new : Elects(n, new)
  BY DiskErrorOnMessageElects
<1>4. CASE m.type = "AppendEntries" /\ m.term >= current_term[n] /\ Consistent(n, m)
  <2>1. PICK h \in 0 .. Len(m.entries) :
          /\ Held(n, m, h)
          /\ d \in Torn(n, CutAt(n, m, h), NewEntries(m, h),
                        TermAfter(n, m.term), VoteAfter(n, m.term))
    BY <1>1, <1>4 DEF TornBy
  <2>2. CutAt(n, m, h) \in Nat \ {0} /\ NewEntries(m, h) \in Seq(Entry)
    BY <1>2, <1>4, CutType
  <2>3. ASSUME NEW t \in Nat, NEW i \in 1 .. Len(G[t]),
               t <= disk[n].current_term, Has(disk[n].log, G[t], i), ~Lost(G, n, t, i)
        PROVE  Has(TruncateFrom(log[n], CutAt(n, m, h)), G[t], i)
    BY <1>2, <1>4, <2>1, <2>3, CutLost
  <2>4. Carries(n, G, G)
    BY DiskErrorOnMessageCarries
  <2> QED
    BY <1>1, <1>3, <2>1, <2>2, <2>3, <2>4, TornFollows
<1>5. CASE ~(m.type = "AppendEntries" /\ m.term >= current_term[n] /\ Consistent(n, m))
  <2>1. \E t, v : d \in Torn(n, LastIndex(log[n]) + 1, << >>, t, v)
    <3>1. CASE m.type = "RequestVote"
      <4>1. d \in Torn(n, LastIndex(log[n]) + 1, << >>, TermAfter(n, m.term), VoteOn(n, m))
        BY <1>1, <3>1 DEF TornBy
      <4> QED
        BY <4>1
    <3>2. CASE m.type # "RequestVote"
      <4>1. d \in Torn(n, LastIndex(log[n]) + 1, << >>, TermAfter(n, m.term),
                       VoteAfter(n, m.term))
        BY <1>1, <1>5, <3>2 DEF TornBy
      <4> QED
        BY <4>1
    <3> QED
      BY <3>1, <3>2
  <2> QED
    BY <1>1, <1>3, <2>1, TornStateFollows
<1> QED
  BY <1>4, <1>5

(* A crash, and a disk that fails under a candidate.                       *)
LEMMA CrashFollows ==
  ASSUME TInv, NEW n \in Server, DiskErrorOnTimeout(n) \/ Crash(n), NEW G, History(G)
  PROVE  Follows(n, G, G)
<1>1. PICK new : Elects(n, new)
  BY CrashElects
<1>2. CASE DiskErrorOnTimeout(n)
  BY <1>1, <1>2, TornStateFollows DEF DiskErrorOnTimeout
<1>3. CASE Crash(n)
  <2>1. Die(n, disk[n])
    BY <1>3 DEF Crash
  <2>2. Carries(n, G, G)
    BY CrashCarries
  <2> QED
    BY <1>1, <2>1, <2>2, DieFollows
<1> QED
  BY <1>2, <1>3

-----------------------------------------------------------------------------
(* Requests.                                                               *)

(* A leader that appends continues the history of its term.                *)
LEMMA RequestGrows ==
  ASSUME TInv, EInv, NEW n \in Server, role[n] = "leader", NEW r \in Request,
         NEW G, History(G), NEW t \in Nat, t = current_term[n],
         NEW H, H = With(G, t, Longer(n, r))
  PROVE  /\ Continued(n, G, H, t)
         /\ \A s \in Nat : s # t => H[s] = G[s]
         /\ log[n] \in Seq(Entry) /\ Longer(n, r) \in Seq(Entry)
         /\ Begins(log[n], Longer(n, r))
<1> DEFINE e == [term |-> t, request_id |-> r]
<1>1. e \in Entry /\ e.term = t
  BY DEF Entry
<1>2. log[n] \in Seq(Entry) /\ log[n] = G[t] /\ GhostType(G)
  BY DEF TInv, TypeOK, History, LeadersHave
<1>3. Longer(n, r) = Append(log[n], e)
  BY DEF Longer
<1> HIDE DEF e
<1>4. Longer(n, r) \in Seq(Entry) /\ Begins(log[n], Longer(n, r))
  BY <1>1, <1>2, <1>3 DEF Begins
<1>5. H[t] = Longer(n, r) /\ \A s \in Nat : s # t => H[s] = G[s]
  BY <1>2, <1>4, WithExtends
<1>6. Continued(n, G, H, t)
  BY <1>1, <1>2, <1>3, <1>5 DEF Continued
<1> QED
  BY <1>2, <1>4, <1>5, <1>6

(* A request at the leader.                                                *)
LEMMA OnClientRequestFollows ==
  ASSUME TInv, EInv, NEW n \in Server, NEW r \in Request, OnClientRequest(n, r),
         NEW G, History(G)
  PROVE  Follows(n, G, With(G, current_term[n], Longer(n, r)))
<1> DEFINE sent == {AppendEntries(n, p, current_term[n], Longer(n, r), next_index[n][p],
                                  commit_index[n]) : p \in Peers(n)}
<1>1. PlainNews
  <2>1. PICK debts, c : msgs' = msgs \cup (sent \cup ReplyTo(n, Paid(n, debts, c)))
    BY DEF OnClientRequest, Send, Longer
  <2>2. \A x \in ReplyTo(n, Paid(n, debts, c)) : ~IsAck(x) /\ ~IsVote(x) /\ ~IsAsk(x)
    BY DEF ReplyTo, ClientReply, IsAck, IsVote, IsAsk
  <2>3. \A x \in sent : ~IsAck(x) /\ ~IsVote(x) /\ ~IsAsk(x)
    BY DEF AppendEntries, IsAck, IsVote, IsAsk
  <2> HIDE DEF sent
  <2> QED
    BY <2>1, <2>2, <2>3 DEF PlainNews, News
<1> HIDE DEF sent
<1>2. PICK t \in Nat : t = current_term[n]
  BY DEF TInv, TypeOK
<1> DEFINE H == With(G, t, Longer(n, r))
<1>3. /\ running[n] /\ role[n] = "leader"
      /\ disk' = [disk EXCEPT ![n].log =
                    Append(@, [term |-> current_term[n], request_id |-> r])]
      /\ UNCHANGED <<current_term, role>>
  BY DEF OnClientRequest
<1>4. /\ Continued(n, G, H, t)
      /\ \A s \in Nat : s # t => H[s] = G[s]
      /\ log[n] \in Seq(Entry) /\ Longer(n, r) \in Seq(Entry)
      /\ Begins(log[n], Longer(n, r))
  BY <1>2, <1>3, RequestGrows
<1>5. /\ disk[n].log = log[n] /\ disk[n].current_term = t /\ disk \in [Server -> HardState]
  BY <1>2, <1>3, DiskAgrees DEF TInv, TypeOK
<1>6. disk'[n].log = Longer(n, r) /\ disk'[n].current_term = t
  BY <1>2, <1>3, <1>5 DEF HardState, Longer
<1>7. H[t] = Longer(n, r) /\ Led(n, t)
  BY <1>2, <1>3, RequestHistory
<1>8. Carries(n, G, H)
  BY <1>2, OnClientRequestCarries
<1>9. PICK new : Elects(n, new)
  BY QuietSteps
<1> HIDE DEF H
<1>10. Led(n, t)'
  BY <1>5, <1>6, <1>7, <1>9 DEF Led, Elects
<1>11. \A s \in Nat : H[s] = G[s] \/ Grown(n, G, H, s)
  BY <1>4, <1>6, <1>7, <1>10 DEF Grown
<1>12. Keeps(n, G)
  <2> SUFFICES ASSUME NEW s \in Nat, NEW i \in 1 .. Len(G[s]), Has(disk[n].log, G[s], i)
               PROVE  Has(disk'[n].log, G[s], i)
    BY DEF Keeps
  <2>1. G[s] \in Seq(Entry) /\ i \in Nat
    BY DEF History, GhostType
  <2>2. Begins(G[s], G[s])
    BY <2>1, BeginsSelf
  <2> QED
    BY <1>4, <1>5, <1>6, <2>1, <2>2, HasGrows
<1>13. AcksRightly(n, H) /\ VotesRightly(n, G, H) /\ AsksRightly(n)
  BY <1>1 DEF PlainNews, AcksRightly, VotesRightly, AsksRightly
<1>14. StandsOn(n) /\ LeadsOn(n, H)
  BY <1>3 DEF StandsOn, LeadsOn
<1>15. Elects(n, News)
  BY <1>9, ElectsNews
<1>16. Follows(n, G, H)
  BY <1>8, <1>11, <1>12, <1>13, <1>14, <1>15 DEF Follows
<1> QED
  BY <1>2, <1>16 DEF H

(* What a request's torn write leaves: the log with the entry or without.  *)
LEMMA RequestTorn ==
  ASSUME TInv, NEW n \in Server, running[n], NEW r \in Request,
         NEW d \in Torn(n, LastIndex(log[n]) + 1,
                        <<[term |-> current_term[n], request_id |-> r]>>,
                        current_term[n], voted_for[n])
  PROVE  d.log \in {log[n], Longer(n, r)} /\ d.current_term = current_term[n]
<1> DEFINE e == [term |-> current_term[n], request_id |-> r]
           cut == LastIndex(log[n]) + 1
           T == TruncateFrom(log[n], cut)
<1>1. /\ disk[n].log = log[n] /\ disk[n].current_term = current_term[n]
      /\ disk[n] \in HardState /\ log[n] \in Seq(Entry) /\ current_term[n] \in Nat
  BY DiskAgrees DEF TInv, TypeOK
<1>2. e \in Entry
  BY <1>1 DEF Entry
<1>3. T = log[n]
  BY <1>1 DEF TruncateFrom, LastIndex
<1>4. Longer(n, r) = Append(log[n], e)
  BY DEF Longer
<1>5. d \in AfterTear(disk[n], cut, <<e>>, current_term[n], voted_for[n])
  BY DEF Torn
<1> HIDE DEF e, cut
<1>e. log[n] \o <<e>> = Append(log[n], e) /\ log[n] \o << >> = log[n]
  BY <1>1, <1>2
<1>6. T \o <<e>> = Longer(n, r) /\ T \o << >> = log[n]
  <2>1. Longer(n, r) = log[n] \o <<e>> /\ log[n] = log[n] \o << >>
    BY <1>4, <1>e DEF e
  <2> QED
    BY ONLY <1>3, <2>1
<1>7. SubSeq(<<e>>, 1, 1) = <<e>> /\ SubSeq(<<e>>, 1, 0) = << >>
  <2>0. <<e>> \in Seq(Entry)
    BY <1>2
  <2>1. PICK s \in Seq(Entry) : s = <<e>>
    BY <2>0, Zenon
  <2>2. Len(s) = 1
    BY <2>1
  <2>3. s = [i \in 1 .. Len(s) |-> s[i]] /\ SubSeq(s, 1, Len(s)) = [i \in 1 .. Len(s) |-> s[i]]
    BY <2>2
  <2>4. SubSeq(s, 1, 0) = << >>
    BY SubSeqEmpty
  <2> QED
    BY <2>1, <2>2, <2>3, <2>4
<1>t. TruncateFrom(disk[n].log, cut) = T
  BY <1>1
<1> HIDE DEF T
<1>8. CASE d = disk[n]
  BY <1>1, <1>8
<1>9. CASE d = AfterWrite(disk[n], cut, <<e>>, current_term[n], voted_for[n])
  <2>1. d.log = TruncateFrom(disk[n].log, cut) \o <<e>> /\ d.current_term = current_term[n]
    BY <1>9 DEF AfterWrite
  <2> QED
    BY <1>6, <1>t, <2>1
<1>10. ASSUME NEW k \in 0 .. Len(<<e>>),
              d = [disk[n] EXCEPT !.log = TruncateFrom(@, cut) \o SubSeq(<<e>>, 1, k)]
       PROVE  d.log \in {log[n], Longer(n, r)} /\ d.current_term = current_term[n]
  <2>1. d.log = TruncateFrom(disk[n].log, cut) \o SubSeq(<<e>>, 1, k)
        /\ d.current_term = disk[n].current_term
    BY <1>1, <1>10 DEF HardState
  <2>2. d.log = T \o SubSeq(<<e>>, 1, k)
    BY <1>t, <2>1
  <2>3. k = 0 \/ k = 1
    BY <1>10
  <2> QED
    BY <1>1, <1>6, <1>7, <2>1, <2>2, <2>3
<1> QED
  BY <1>5, <1>8, <1>9, <1>10 DEF AfterTear

(* A leader that dies on a request leaves the entry in the history, if it  *)
(* is on the disk.                                                         *)
LEMMA DiskErrorOnRequestFollows ==
  ASSUME TInv, EInv, NEW n \in Server, NEW r \in Request, DiskErrorOnRequest(n, r),
         NEW G, History(G)
  PROVE  \E H : Follows(n, G, H)
<1>1. PICK d \in Torn(n, LastIndex(log[n]) + 1,
                      <<[term |-> current_term[n], request_id |-> r]>>,
                      current_term[n], voted_for[n]) : Die(n, d)
  BY DEF DiskErrorOnRequest
<1>2. PICK t \in Nat : t = current_term[n]
  BY DEF TInv, TypeOK
<1> DEFINE H == With(G, t, Longer(n, r))
<1>3. role[n] = "leader" /\ running[n]
  BY <1>1 DEF DiskErrorOnRequest, Die
<1>4. d.log \in {log[n], Longer(n, r)} /\ d.current_term = t
  BY <1>1, <1>2, <1>3, RequestTorn
<1>5. /\ disk[n].log = log[n] /\ disk[n].current_term = t
  BY <1>2, <1>3, DiskAgrees DEF TInv
<1>6. /\ Continued(n, G, H, t)
      /\ \A s \in Nat : s # t => H[s] = G[s]
      /\ log[n] \in Seq(Entry) /\ Longer(n, r) \in Seq(Entry)
      /\ Begins(log[n], Longer(n, r))
  BY <1>2, <1>3, RequestGrows
<1>7. /\ H[t] = Longer(n, r) /\ Led(n, t) /\ On(Longer(n, r), H)
      /\ GhostType(H) /\ Extends(H, G) /\ LeadersOn(H)
      /\ \A p \in Server : p # n /\ role[p] = "leader" =>
           H[current_term[p]] = G[current_term[p]]
      /\ \A s \in Nat : H[s] = G[s] \/ \E c \in Server : Led(c, s) \/ Led(c, s)'
  BY <1>2, <1>3, RequestHistory
<1> HIDE DEF H
<1>8. PICK new : Elects(n, new)
  BY CrashElects
<1>9. /\ disk' = [disk EXCEPT ![n] = d]
      /\ current_term' = [current_term EXCEPT ![n] = 0]
      /\ log' = [log EXCEPT ![n] = << >>]
      /\ role' = [role EXCEPT ![n] = "follower"]
      /\ msgs' = msgs
  BY <1>1 DEF Die
<1>10. OthersStay(n) /\ disk'[n] = d /\ log'[n] = << >> /\ role'[n] = "follower"
  BY <1>9 DEF OthersStay, TInv, TypeOK
<1>11. CASE d.log = Longer(n, r)
  <2>1. On(log'[n], H)
    BY <1>10 DEF On
  <2>2. On(disk'[n].log, H)
    BY <1>7, <1>10, <1>11
  <2>3. Carries(n, G, H)
    BY <1>7, <1>9, <1>10, <2>1, <2>2 DEF Carries
  <2>4. Led(n, t)'
    BY <1>4, <1>5, <1>7, <1>9, <1>10 DEF Led
  <2>5. \A s \in Nat : H[s] = G[s] \/ Grown(n, G, H, s)
    BY <1>4, <1>6, <1>7, <1>10, <1>11, <2>4 DEF Grown
  <2>6. ASSUME NEW s \in Nat, NEW i \in 1 .. Len(G[s]), Has(disk[n].log, G[s], i)
        PROVE  Has(d.log, G[s], i)
    <3>1. G[s] \in Seq(Entry) /\ i \in Nat
      BY DEF History, GhostType
    <3>2. Begins(G[s], G[s])
      BY <3>1, BeginsSelf
    <3> QED
      BY <1>5, <1>6, <1>11, <2>6, <3>1, <3>2, HasGrows
  <2>7. Follows(n, G, H)
    BY <1>1, <1>8, <2>3, <2>5, <2>6, DieFollows
  <2> QED
    BY <2>7
<1>12. CASE d.log = log[n]
  <2>1. On(log[n], G)
    BY DEF History, LogsOn
  <2>2. Carries(n, G, G)
    <3>1. d.log \in Seq(Entry) /\ On(d.log, G)
      BY <1>6, <1>12, <2>1
    <3> QED
      BY <1>1, <3>1, DieCarries
  <2>3. Follows(n, G, G)
    BY <1>1, <1>5, <1>8, <1>12, <2>2, DieFollows
  <2> QED
    BY <2>3
<1> QED
  BY <1>4, <1>11, <1>12

-----------------------------------------------------------------------------
(* Every step follows.                                                     *)
StepOf(n) == Step(n) \/ \E r \in Request : OnRequest(n, r)

(* Whatever the step is.                                                   *)
LEMMA NextFollows ==
  ASSUME TInv, EInv, ElectionSafety', NEW n \in Server, StepOf(n),
         NEW G, History(G), CInv(G)
  PROVE  \E H : Follows(n, G, H)
<1>1. \/ \E m \in msgs : OnMessage(n, m)
      \/ \E r \in Request : OnClientRequest(n, r) \/ DiskErrorOnRequest(n, r)
      \/ ElectionTimeout(n)
      \/ FireHeartbeat(n)
      \/ DiskErrorOnTimeout(n)
      \/ Crash(n)
      \/ Restart(n)
  BY DEF StepOf, Step, OnRequest
<1>2. ASSUME NEW m \in msgs, OnMessage(n, m)
      PROVE  \E H : Follows(n, G, H)
  <2>1. m.type # "ClientReply" => m.term \in Nat
    BY MessageFields DEF TInv, TypeOK
  <2>2. CASE OnRequestVote(n, m)
    BY <2>2, OnRequestVoteFollows
  <2>3. CASE \/ CountVote(n, m)
             \/ RefuseStaleLeader(n, m)
             \/ OnAppendSuccess(n, m)
             \/ OnAppendFailure(n, m)
    BY <2>3, QuietStepsFollow
  <2>4. CASE WinElection(n, m)
    BY <2>4, WinElectionFollows
  <2>5. CASE VoteReplyFromNewerTerm(n, m) \/ AppendReplyFromNewerTerm(n, m)
    <3>1. running[n] /\ StepDown(n, m.term) /\ m.type # "ClientReply"
      BY <2>5 DEF VoteReplyFromNewerTerm, AppendReplyFromNewerTerm, Receives
    <3> QED
      BY <2>1, <3>1, StepDownFollows
  <2>6. CASE RefuseGap(n, m)
    BY <2>6, RefuseGapFollows
  <2>7. CASE TakeEntries(n, m)
    BY <2>7, TakeEntriesFollows
  <2>8. CASE DiskErrorOnMessage(n, m)
    BY <2>8, DiskErrorOnMessageFollows
  <2> QED
    BY <1>2, <2>2, <2>3, <2>4, <2>5, <2>6, <2>7, <2>8 DEF OnMessage
<1>3. ASSUME NEW r \in Request, OnClientRequest(n, r) \/ DiskErrorOnRequest(n, r)
      PROVE  \E H : Follows(n, G, H)
  <2>1. CASE OnClientRequest(n, r)
    BY <2>1, OnClientRequestFollows
  <2>2. CASE DiskErrorOnRequest(n, r)
    BY <2>2, DiskErrorOnRequestFollows
  <2> QED
    BY <1>3, <2>1, <2>2
<1>4. CASE ElectionTimeout(n) /\ ~IsMajority({n})
  BY <1>4, AskForVotesFollows DEF ElectionTimeout
<1>5. CASE ElectionTimeout(n) /\ IsMajority({n})
  BY <1>5, ElectOneselfFollows DEF ElectionTimeout
<1>6. CASE FireHeartbeat(n)
  BY <1>6, FireHeartbeatFollows
<1>7. CASE DiskErrorOnTimeout(n) \/ Crash(n)
  BY <1>7, CrashFollows
<1>8. CASE Restart(n)
  BY <1>8, RestartFollows
<1> QED
  BY <1>1, <1>2, <1>3, <1>4, <1>5, <1>6, <1>7, <1>8

-----------------------------------------------------------------------------
(* The start, and no step at all.                                          *)
LEMMA CommitInit == Init => CInv(Nobody)
<1> SUFFICES ASSUME Init PROVE CInv(Nobody)
  OBVIOUS
<1> DEFINE G == Nobody
<1>1. \A t \in Nat : G[t] = << >>
  BY NobodyLed
<1> HIDE DEF G
<1>2. msgs = {} /\ \A n \in Server : role[n] = "follower"
  BY DEF Init
<1>3. \A t \in Nat : Len(G[t]) = 0
  BY <1>1
<1>4. AsksTruly /\ VotesAsked /\ AcksOnDisk /\ NoneAhead /\ VotersKnow(G)
  BY <1>2 DEF AsksTruly, VotesAsked, AcksOnDisk, NoneAhead, VotersKnow
<1>5. \A t \in Nat : \A i : ~(i \in 1 .. Len(G[t]))
  BY <1>3
<1>6. AcksHeld(G) /\ TermsBelow(G) /\ Overrulers(G)
  BY <1>5 DEF AcksHeld, TermsBelow, Overrulers, Own
<1>7. CInv(G)
  BY <1>4, <1>6 DEF CInv
<1> QED
  BY <1>7 DEF G

(* Nothing changes when nothing does.                                      *)
LEMMA CommitStutter ==
  ASSUME UNCHANGED vars, NEW G, History(G), CInv(G)
  PROVE  History(G)' /\ CInv(G)'
<1>1. UNCHANGED <<current_term, log, disk, role, msgs>>
  BY DEF vars, hardVars, leaderVars, commitVars, timerVars
<1>2. History(G)'
  BY <1>1 DEF History, GhostType, LeadersOn, LogsOn, SlicesOn, LeadersHave, OnlyLed, Led,
     LedNow
<1>3. /\ \A x, t, i : Acked(x, t, i)' <=> Acked(x, t, i)
      /\ \A x, t, i : Lost(G, x, t, i)' <=> Lost(G, x, t, i)
      /\ \A w : Showed(G, w)' <=> Showed(G, w)
      /\ \A w : Reigned(G, w)' <=> Reigned(G, w)
      /\ \A y, c, u : Voted(y, c, u)' <=> Voted(y, c, u)
  BY <1>1 DEF Acked, Lost, Reigned, Showed, Spoke, Led, Voted
<1>4. CInv(G)'
  BY <1>1, <1>3 DEF CInv, AcksHeld, TermsBelow, AsksTruly, VotesAsked, AcksOnDisk,
     NoneAhead, VotersKnow, Overrulers, Outrun, MovedOn, Overruled, Own
<1> QED
  BY <1>2, <1>4

-----------------------------------------------------------------------------
(* What servers apply: no two of them apply different entries at an index, *)
(* leaders have all that was applied before them, and a majority of the    *)
(* disks holds it.                                                         *)
(*                                                                         *)
(* The argument: an entry of a leader's own term that a majority has       *)
(* acknowledged is chosen.  No later leader lacks a chosen entry, or what  *)
(* precedes it.  All that is applied precedes a chosen entry in the log of *)
(* the leader that chose it: so it does when a leader advances its commit  *)
(* index, and a follower applies what a leader said.                       *)

(* Entry i of the log of term t is its leader's, and a majority has it.    *)
Chosen(G, t, i) ==
  /\ Own(G, t, i)
  /\ \E A \in SUBSET Server : IsMajority(A) /\ \A x \in A : Acked(x, t, i)

(* The first k entries of lg were chosen by term u.                        *)
SettledTo(G, lg, k, u) ==
  \/ k = 0
  \/ \E t, i \in Nat : t <= u /\ Chosen(G, t, i) /\ k <= i /\ Has(lg, G[t], k)

(* All that n has applied is settled, and is in its log.                   *)
Settled(G, n) == SettledTo(G, applied[n], Len(applied[n]), current_term[n])
HasApplied(n) == Begins(applied[n], log[n]) /\ (~running[n] => applied[n] = << >>)

(* What m tells its follower to commit is settled, and comes with it.      *)
CommitSettled(G, m) ==
  IsAppend(m) =>
    /\ m.leader_commit <= LastNew(m)
    /\ SettledTo(G, G[m.term], m.leader_commit, m.term)

(* What the leader n believes of a follower, the follower has told it.     *)
Told(n, p, k) ==
  k = 0 \/ \E m \in msgs : /\ IsAck(m)
                           /\ m.from = p
                           /\ m.term = current_term[n]
                           /\ k <= m.match_index
Believes(n) == role[n] = "leader" => \A p \in Peers(n) : Told(n, p, match_index[n][p])

AInv(G) ==
  /\ \A n \in Server : Settled(G, n) /\ HasApplied(n) /\ Believes(n)
  /\ \A m \in msgs : CommitSettled(G, m)

-----------------------------------------------------------------------------
(* What is chosen.                                                         *)

(* Every later leader that got to work has what was chosen.                *)
LEMMA ChosenHas ==
  ASSUME NEW G, History(G), CInv(G), NEW t \in Nat, NEW i \in Nat, Chosen(G, t, i),
         NEW w \in Nat, w >= t, Reigned(G, w)
  PROVE  Has(G[w], G[t], i)
<1>1. Own(G, t, i) /\ G[t] \in Seq(Entry)
  BY DEF Chosen, History, GhostType
<1>2. CASE w = t
  <2>1. i <= Len(G[t])
    BY <1>1 DEF Own
  <2> QED
    BY <1>1, <1>2, <2>1, BeginsSelf, BeginsHas
<1>3. CASE w > t
  <2>1. SUFFICES ASSUME ~Has(G[w], G[t], i) PROVE FALSE
    OBVIOUS
  <2>2. MovedOn(t, i)
    BY <1>1, <1>3, <2>1 DEF CInv, Overrulers
  <2>3. PICK Q \in SUBSET Server : IsMajority(Q) /\ \A y \in Q : ~Acked(y, t, i)
    BY <2>2 DEF MovedOn
  <2>4. PICK A \in SUBSET Server : IsMajority(A) /\ \A x \in A : Acked(x, t, i)
    BY DEF Chosen
  <2>5. \E v \in Server : v \in Q /\ v \in A
    BY <2>3, <2>4, MajoritiesMeet
  <2> QED
    BY <2>3, <2>4, <2>5
<1> QED
  BY <1>2, <1>3

(* Whoever acknowledged it has it on its disk.                             *)
LEMMA ChosenOnDisk ==
  ASSUME TInv, NEW G, History(G), CInv(G), NEW t \in Nat, NEW i \in Nat, Chosen(G, t, i),
         NEW x \in Server, Acked(x, t, i)
  PROVE  Has(disk[x].log, G[t], i)
<1>1. i \in 1 .. Len(G[t])
  BY DEF Chosen, Own
<1>2. Has(disk[x].log, G[t], i) \/ Lost(G, x, t, i)
  BY <1>1 DEF CInv, AcksHeld
<1>3. ASSUME Lost(G, x, t, i) PROVE FALSE
  <2>1. PICK m \in msgs : IsAppend(m) /\ m.term > t /\ ~Has(G[m.term], G[t], i)
    BY <1>3 DEF Lost
  <2>2. m.term \in Nat
    BY <2>1, MessageFields DEF TInv, TypeOK, IsAppend
  <2>3. Reigned(G, m.term) /\ m.term >= t
    BY <2>1, <2>2 DEF Reigned, Showed, Spoke
  <2> QED
    BY <2>1, <2>2, <2>3, ChosenHas
<1> QED
  BY <1>2, <1>3

(* So leaders have what was settled before them.                           *)
LEMMA SettledHas ==
  ASSUME NEW G, History(G), CInv(G), NEW lg \in Seq(Entry), NEW k \in Nat, NEW u \in Nat,
         SettledTo(G, lg, k, u), k <= Len(lg), NEW w \in Nat, u <= w, Reigned(G, w)
  PROVE  Has(lg, G[w], k)
<1>0. G[w] \in Seq(Entry)
  BY DEF History, GhostType
<1>1. G[w] \in Seq(Entry) /\ Len(G[w]) \in Nat /\ Len(lg) \in Nat
  BY <1>0
<1>2. CASE k = 0
  <2>1. Has(lg, G[w], 0)
    BY ONLY <1>1 DEF Has
  <2> QED
    BY <1>2, <2>1
<1>3. CASE k # 0
  <2>1. PICK t \in Nat, i \in Nat : t <= u /\ Chosen(G, t, i) /\ k <= i /\ Has(lg, G[t], k)
    BY <1>3 DEF SettledTo
  <2>2. G[t] \in Seq(Entry) /\ w >= t
    BY <2>1 DEF History, GhostType
  <2>3. Has(G[w], G[t], i)
    BY <2>1, <2>2, ChosenHas
  <2>4. Has(G[w], G[t], k)
    BY <1>1, <2>1, <2>2, <2>3, HasLess
  <2> QED
    BY <2>1, <2>4, HasBoth, HasThrough
<1> QED
  BY <1>2, <1>3

(* What is chosen stays chosen, and what is settled stays settled, also of *)
(* a longer log.                                                           *)
LEMMA ChosenStays ==
  ASSUME TInv, NEW n \in Server, NEW G, NEW H, History(G), Follows(n, G, H),
         NEW t \in Nat, NEW i \in Nat, Chosen(G, t, i)
  PROVE  Chosen(H, t, i)'
<1>1. /\ G[t] \in Seq(Entry) /\ H[t] \in Seq(Entry) /\ Begins(G[t], H[t])
  BY DEF History, GhostType, Follows, Carries, Extends
<1>2. Own(H, t, i)
  BY <1>1 DEF Chosen, Own, Begins
<1>3. PICK A \in SUBSET Server : IsMajority(A) /\ \A x \in A : Acked(x, t, i)
  BY DEF Chosen
<1>4. \A x \in A : Acked(x, t, i)'
  BY <1>3, AckedStays DEF Follows
<1> QED
  BY <1>2, <1>3, <1>4 DEF Chosen, Own, IsMajority

(* What is settled stays settled, less of it too, and of a longer log.     *)
LEMMA SettledStays ==
  ASSUME TInv, NEW n \in Server, NEW G, NEW H, History(G), Follows(n, G, H),
         NEW a \in Seq(Entry), NEW b \in Seq(Entry), Begins(a, b),
         NEW k \in Nat, NEW j \in Nat, j <= k, NEW u \in Nat, NEW v \in Nat, u <= v,
         SettledTo(G, a, k, u)
  PROVE  SettledTo(H, b, j, v)'
<1>1. CASE j = 0
  BY <1>1 DEF SettledTo
<1>2. CASE j # 0
  <2>1. PICK t \in Nat, i \in Nat : t <= u /\ Chosen(G, t, i) /\ k <= i /\ Has(a, G[t], k)
    BY <1>2 DEF SettledTo
  <2>2. G[t] \in Seq(Entry) /\ H[t] \in Seq(Entry) /\ Begins(G[t], H[t])
    BY DEF History, GhostType, Follows, Carries, Extends
  <2>3. Has(b, H[t], k)
    BY <2>1, <2>2, HasGrows
  <2>4. Has(b, H[t], j)
    BY <2>2, <2>3, HasLess
  <2>5. Chosen(H, t, i)'
    BY <2>1, ChosenStays
  <2>6. t <= v /\ j <= i
    BY <2>1
  <2> QED
    BY <2>4, <2>5, <2>6 DEF SettledTo, Has
<1> QED
  BY <1>1, <1>2

-----------------------------------------------------------------------------
(* What a step of n does to what servers apply.                            *)

OthersIdle(n) ==
  \A p \in Server : p # n =>
    /\ applied'[p] = applied[p]
    /\ running'[p] = running[p]
    /\ match_index'[p] = match_index[p]

Applies(n, H) ==
  /\ OthersIdle(n)
  /\ Settled(H, n)' /\ HasApplied(n)' /\ Believes(n)'
  /\ \A m \in News : CommitSettled(H, m)'

(* Such a step keeps the invariant.                                        *)
LEMMA AppliesKeeps ==
  ASSUME TInv, TInv', NEW n \in Server, NEW G, NEW H, History(G), AInv(G),
         Follows(n, G, H), Applies(n, H)
  PROVE  AInv(H)'
<1>1. OthersStay(n) /\ msgs \subseteq msgs' /\ Extends(H, G) /\ GhostType(G) /\ GhostType(H)
  BY DEF Follows, Elects, Carries, History
<1>2. ASSUME NEW p \in Server
      PROVE  Settled(H, p)' /\ HasApplied(p)' /\ Believes(p)'
  <2>1. CASE p = n
    BY <2>1 DEF Applies
  <2>2. CASE p # n
    <3>1. /\ applied'[p] = applied[p] /\ running'[p] = running[p]
          /\ match_index'[p] = match_index[p]
          /\ log'[p] = log[p] /\ role'[p] = role[p] /\ current_term'[p] = current_term[p]
      BY <1>1, <2>2 DEF Applies, OthersIdle, OthersStay
    <3>2. Settled(G, p) /\ HasApplied(p) /\ Believes(p)
      BY DEF AInv
    <3>3. HasApplied(p)'
      BY <3>1, <3>2 DEF HasApplied
    <3>4. Believes(p)'
      BY <1>1, <3>1, <3>2 DEF Believes, Told
    <3>5. Settled(H, p)'
      <4>1. applied[p] \in Seq(Entry) /\ current_term[p] \in Nat
        BY DEF TInv, TypeOK
      <4>2. PICK a \in Seq(Entry), u \in Nat : a = applied[p] /\ u = current_term[p]
        BY <4>1
      <4>3. SettledTo(G, a, Len(a), u) /\ Begins(a, a) /\ Len(a) \in Nat
        BY <3>2, <4>2, BeginsSelf DEF Settled
      <4>4. SettledTo(H, a, Len(a), u)'
        BY <4>3, SettledStays
      <4> QED
        BY <3>1, <4>2, <4>4 DEF Settled, SettledTo
    <3> QED
      BY <3>3, <3>4, <3>5
  <2> QED
    BY <2>1, <2>2
<1>3. ASSUME NEW m \in msgs' PROVE CommitSettled(H, m)'
  <2>1. CASE m \in News
    BY <2>1 DEF Applies
  <2>2. CASE m \in msgs /\ IsAppend(m)
    <3>1. /\ m.term \in Nat /\ m.leader_commit \in Nat
      BY <2>2, MessageFields DEF TInv, TypeOK, IsAppend
    <3>2. /\ m.leader_commit <= LastNew(m)
          /\ SettledTo(G, G[m.term], m.leader_commit, m.term)
      BY <2>2 DEF AInv, CommitSettled
    <3>3. /\ G[m.term] \in Seq(Entry) /\ H[m.term] \in Seq(Entry)
          /\ Begins(G[m.term], H[m.term])
      BY <1>1, <3>1 DEF GhostType, Extends
    <3>4. SettledTo(H, H[m.term], m.leader_commit, m.term)'
      BY <3>1, <3>2, <3>3, SettledStays
    <3> QED
      BY <3>2, <3>4 DEF CommitSettled, LastNew
  <2>3. CASE ~IsAppend(m)
    BY <2>3 DEF CommitSettled, IsAppend
  <2> QED
    BY <2>1, <2>2, <2>3 DEF News
<1> QED
  BY <1>2, <1>3 DEF AInv

(* What a leader sends of its log says what it has committed.              *)
SendsLog(n) ==
  \A m \in News : IsAppend(m) =>
    /\ role'[n] = "leader"
    /\ m.term = current_term'[n]
    /\ LastNew(m) >= Len(log'[n])
    /\ m.leader_commit = commit_index[n]

(* So what a leader sends is settled, and comes with the log.              *)
LEMMA SendsSettle ==
  ASSUME TInv, TInv', NEW n \in Server, NEW G, NEW H, History(G), AInv(G),
         Follows(n, G, H), SendsLog(n), current_term[n] <= current_term'[n],
         Begins(log[n], log'[n])
  PROVE  \A m \in News : CommitSettled(H, m)'
<1> SUFFICES ASSUME NEW m \in News, IsAppend(m) PROVE CommitSettled(H, m)'
  BY DEF CommitSettled, IsAppend
<1>1. /\ role'[n] = "leader" /\ m.term = current_term'[n]
      /\ LastNew(m) >= Len(log'[n]) /\ m.leader_commit = commit_index[n]
  BY DEF SendsLog
<1>2. /\ applied[n] \in Seq(Entry) /\ log[n] \in Seq(Entry) /\ log'[n] \in Seq(Entry)
      /\ current_term[n] \in Nat /\ current_term'[n] \in Nat /\ commit_index[n] \in Nat
      /\ m \in Message
  BY DEF TInv, TypeOK, News
<1>3. PICK a \in Seq(Entry), l \in Seq(Entry), w \in Nat :
        a = applied[n] /\ l = log'[n] /\ w = current_term'[n]
  BY <1>2
<1>4. H[w] = l
  BY <1>1, <1>3 DEF Follows, Carries
<1>5. commit_index[n] <= Len(a)
  BY <1>3 DEF TInv, AppliedCovers
<1>6. Begins(a, l)
  <2>1. Begins(applied[n], log[n])
    BY DEF AInv, HasApplied
  <2> QED
    BY <1>2, <1>3, <2>1 DEF Begins
<1>7. SettledTo(G, a, Len(a), current_term[n]) /\ Len(a) \in Nat
  BY <1>3 DEF AInv, Settled
<1>8. PICK c \in Nat, u \in Nat : c = commit_index[n] /\ u = current_term[n]
  BY <1>2
<1>9. SettledTo(H, l, c, w)'
  <2>1. c <= Len(a) /\ u <= w /\ SettledTo(G, a, Len(a), u)
    BY <1>3, <1>5, <1>7, <1>8
  <2> QED
    BY <1>6, <1>7, <2>1, SettledStays
<1>10. m.leader_commit <= LastNew(m)
  <2>1. LastNew(m) \in Nat
    BY <1>2, MessageFields DEF LastNew, IsAppend
  <2>2. Len(a) <= Len(l) /\ Len(a) \in Nat /\ Len(l) \in Nat
    BY <1>6 DEF Begins
  <2> QED
    BY <1>1, <1>2, <1>3, <1>5, <2>1, <2>2
<1>11. SettledTo(H, H[m.term], m.leader_commit, m.term)'
  BY <1>1, <1>3, <1>4, <1>8, <1>9
<1> QED
  BY <1>10, <1>11 DEF CommitSettled, LastNew

(* Steps that apply nothing.                                               *)
LEMMA IdleApplies ==
  ASSUME TInv, TInv', NEW n \in Server, NEW G, NEW H, History(G), AInv(G),
         Follows(n, G, H), OthersIdle(n), SendsLog(n),
         applied'[n] = applied[n], log'[n] = log[n], running'[n] = running[n],
         current_term[n] <= current_term'[n],
         role'[n] = "leader" =>
           \/ /\ role[n] = "leader"
              /\ match_index'[n] = match_index[n]
              /\ current_term'[n] = current_term[n]
           \/ \A p \in Peers(n) : match_index'[n][p] = 0
  PROVE  Applies(n, H)
<1>1. /\ applied[n] \in Seq(Entry) /\ log[n] \in Seq(Entry)
      /\ current_term[n] \in Nat /\ current_term'[n] \in Nat
  BY DEF TInv, TypeOK
<1>2. Settled(G, n) /\ HasApplied(n) /\ Believes(n)
  BY DEF AInv
<1>3. Settled(H, n)'
  <2>1. PICK a \in Seq(Entry), u \in Nat, w \in Nat :
          a = applied[n] /\ u = current_term[n] /\ w = current_term'[n]
    BY <1>1
  <2>2. SettledTo(G, a, Len(a), u) /\ Begins(a, a) /\ Len(a) \in Nat /\ u <= w
    BY <1>2, <2>1, BeginsSelf DEF Settled
  <2>3. SettledTo(H, a, Len(a), w)'
    BY <2>2, SettledStays
  <2> QED
    BY <2>1, <2>3 DEF Settled, SettledTo
<1>4. HasApplied(n)'
  BY <1>2 DEF HasApplied
<1>5. Believes(n)'
  <2>1. ASSUME role'[n] = "leader", NEW p \in Peers(n)
        PROVE  Told(n, p, match_index[n][p])' \/ match_index'[n][p] = 0
    <3>1. CASE /\ role[n] = "leader"
               /\ match_index'[n] = match_index[n]
               /\ current_term'[n] = current_term[n]
      <4>1. Told(n, p, match_index[n][p])
        BY <1>2, <3>1 DEF Believes
      <4>2. msgs \subseteq msgs'
        BY DEF Follows, Elects
      <4> QED
        BY <3>1, <4>1, <4>2 DEF Told
    <3>2. CASE match_index'[n][p] = 0
      BY <3>2
    <3> QED
      BY <2>1, <3>1, <3>2
  <2> QED
    BY <2>1 DEF Believes, Told
<1>6. \A m \in News : CommitSettled(H, m)'
  <2>1. Begins(log[n], log'[n])
    BY <1>1, BeginsSelf
  <2> QED
    BY <2>1, SendsSettle
<1> QED
  BY <1>3, <1>4, <1>5, <1>6 DEF Applies

(* Dying.                                                                  *)
LEMMA DieApplies ==
  ASSUME TInv, NEW n \in Server, NEW d, Die(n, d), NEW H
  PROVE  Applies(n, H)
<1>1. /\ applied' = [applied EXCEPT ![n] = << >>]
      /\ running' = [running EXCEPT ![n] = FALSE]
      /\ match_index' = [match_index EXCEPT ![n] = [p \in Server |-> SENTINEL_INDEX]]
      /\ role' = [role EXCEPT ![n] = "follower"]
      /\ log' = [log EXCEPT ![n] = << >>]
      /\ msgs' = msgs
  BY DEF Die
<1>2. /\ applied'[n] = << >> /\ role'[n] = "follower" /\ log'[n] = << >>
      /\ OthersIdle(n)
  BY <1>1 DEF OthersIdle, TInv, TypeOK
<1>3. Settled(H, n)'
  BY <1>2 DEF Settled, SettledTo
<1>4. HasApplied(n)' /\ Believes(n)'
  BY <1>2 DEF HasApplied, Believes, Begins
<1> QED
  BY <1>1, <1>2, <1>3, <1>4 DEF Applies, News

(* Restarting, which a node that is up survives.                           *)
LEMMA RestartApplies ==
  ASSUME TInv, TInv', NEW n \in Server, NEW G, NEW H, History(G), AInv(G),
         Follows(n, G, H), Restart(n)
  PROVE  Applies(n, H)
<1>1. /\ UNCHANGED <<disk, role, match_index, applied, msgs>>
      /\ log' = [log EXCEPT ![n] = disk[n].log]
      /\ current_term' = [current_term EXCEPT ![n] = disk[n].current_term]
      /\ running' = [running EXCEPT ![n] = TRUE]
  BY DEF Restart, commitVars, leaderVars
<1>2. /\ OthersIdle(n) /\ running'[n] /\ log'[n] = disk[n].log
      /\ current_term'[n] = disk[n].current_term
      /\ News = {}
  BY <1>1 DEF OthersIdle, News, TInv, TypeOK
<1>3. CASE running[n]
  <2>1. disk[n].log = log[n] /\ disk[n].current_term = current_term[n]
    BY <1>3, DiskAgrees DEF TInv
  <2>2. /\ current_term[n] \in Nat /\ running'[n] = running[n]
    BY <1>2, <1>3 DEF TInv, TypeOK
  <2>3. SendsLog(n)
    BY <1>2 DEF SendsLog
  <2>4. /\ applied'[n] = applied[n] /\ log'[n] = log[n] /\ role'[n] = role[n]
        /\ match_index'[n] = match_index[n] /\ current_term'[n] = current_term[n]
    BY <1>1, <1>2, <2>1
  <2>5. current_term[n] <= current_term'[n]
    BY <2>2, <2>4
  <2> QED
    BY <1>2, <2>2, <2>3, <2>4, <2>5, IdleApplies
<1>4. CASE ~running[n]
  <2>1. applied'[n] = << >> /\ role'[n] = "follower"
    BY <1>1, <1>4 DEF AInv, HasApplied, TInv, DownIsFollower
  <2>2. log'[n] \in Seq(Entry)
    BY DEF TInv, TypeOK
  <2>3. Settled(H, n)'
    BY <2>1 DEF Settled, SettledTo
  <2>4. HasApplied(n)' /\ Believes(n)'
    BY <1>2, <2>1, <2>2 DEF HasApplied, Believes, Begins
  <2> QED
    BY <1>2, <2>3, <2>4 DEF Applies
<1> QED
  BY <1>3, <1>4

(* Steps that neither apply nor write the log, and lead only as before.    *)
LEMMA QuietApplies ==
  ASSUME TInv, TInv', NEW n \in Server, NEW G, NEW H, History(G), AInv(G),
         Follows(n, G, H), SendsLog(n),
         UNCHANGED <<applied, running, match_index, log>>,
         current_term[n] <= current_term'[n],
         role'[n] = "leader" => role[n] = "leader" /\ current_term'[n] = current_term[n]
  PROVE  Applies(n, H)
<1>1. /\ OthersIdle(n) /\ applied'[n] = applied[n] /\ log'[n] = log[n]
      /\ running'[n] = running[n] /\ match_index'[n] = match_index[n]
  BY DEF OthersIdle
<1> QED
  BY <1>1, IdleApplies

(* A step down, and a vote, send no AppendEntries.                         *)
LEMMA StepDownApplies ==
  ASSUME TInv, TInv', NEW n \in Server, NEW G, NEW H, History(G), AInv(G),
         Follows(n, G, H), NEW t \in Nat, StepDown(n, t)
  PROVE  Applies(n, H)
<1>1. /\ UNCHANGED <<applied, running, match_index, log, msgs>>
      /\ current_term' = [current_term EXCEPT ![n] = Larger(current_term[n], t)]
      /\ role' = [role EXCEPT ![n] = "follower"]
  BY DEF StepDown, BecomeFollower, TermAfter, commitVars, leaderVars
<1>2. role'[n] = "follower" /\ current_term[n] <= current_term'[n]
  <2>1. current_term[n] \in Nat /\ current_term'[n] = Larger(current_term[n], t)
        /\ role'[n] = "follower"
    BY <1>1 DEF TInv, TypeOK
  <2> QED
    BY <2>1 DEF Larger
<1>3. SendsLog(n)
  BY <1>1 DEF SendsLog, News
<1> QED
  BY <1>1, <1>2, <1>3, QuietApplies

(* An answer to a candidate.                                               *)
LEMMA OnRequestVoteApplies ==
  ASSUME TInv, TInv', NEW n \in Server, NEW G, NEW H, History(G), AInv(G),
         Follows(n, G, H), NEW m \in msgs, OnRequestVote(n, m)
  PROVE  Applies(n, H)
<1> DEFINE x == RequestVoteReply(n, m.from, TermAfter(n, m.term), Grants(n, m))
<1>1. /\ UNCHANGED <<applied, running, match_index, log>>
      /\ current_term' = [current_term EXCEPT ![n] = Larger(current_term[n], m.term)]
      /\ msgs' = msgs \cup {x}
      /\ IF m.term > current_term[n]
         THEN role' = [role EXCEPT ![n] = "follower"] ELSE role' = role
      /\ m \in Message /\ m.type = "RequestVote"
  BY DEF OnRequestVote, BecomeFollower, TermAfter, commitVars, leaderVars, Send, Receives,
     TInv, TypeOK
<1>2. ~IsAppend(x)
  BY DEF RequestVoteReply, IsAppend
<1> HIDE DEF x
<1>3. SendsLog(n)
  BY <1>1, <1>2 DEF SendsLog, News
<1>4. /\ current_term[n] \in Nat /\ m.term \in Nat
      /\ current_term'[n] = Larger(current_term[n], m.term)
  BY <1>1, MessageFields DEF TInv, TypeOK
<1>5. current_term[n] <= current_term'[n]
  BY <1>4 DEF Larger
<1>6. role'[n] = "leader" => role[n] = "leader" /\ current_term'[n] = current_term[n]
  <2>1. CASE m.term > current_term[n]
    BY <1>1, <2>1 DEF TInv, TypeOK
  <2>2. CASE ~(m.term > current_term[n])
    BY <1>1, <1>4, <2>2 DEF Larger
  <2> QED
    BY <2>1, <2>2
<1> QED
  BY <1>1, <1>3, <1>5, <1>6, QuietApplies

(* Answers that change nothing of the kind.                                *)
LEMMA AnswerApplies ==
  ASSUME TInv, TInv', NEW n \in Server, NEW G, NEW H, History(G), AInv(G),
         Follows(n, G, H), NEW m \in msgs,
         CountVote(n, m) \/ RefuseStaleLeader(n, m) \/ OnAppendFailure(n, m)
  PROVE  Applies(n, H)
<1>1. UNCHANGED <<applied, running, match_index, log, role, current_term>>
  BY DEF CountVote, RefuseStaleLeader, OnAppendFailure, hardVars, commitVars, leaderVars
<1>2. current_term[n] <= current_term'[n]
  BY <1>1 DEF TInv, TypeOK
<1>3. SendsLog(n)
  <2>1. CASE CountVote(n, m)
    <3>1. News = {}
      BY <2>1 DEF CountVote, News
    <3> QED
      BY <3>1 DEF SendsLog
  <2>2. CASE RefuseStaleLeader(n, m)
    <3> DEFINE x == AppendEntriesReply(n, m.from, current_term[n], FALSE, 0)
    <3>1. msgs' = msgs \cup {x} /\ ~IsAppend(x)
      BY <2>2 DEF RefuseStaleLeader, Send, AppendEntriesReply, IsAppend
    <3> HIDE DEF x
    <3> QED
      BY <3>1 DEF SendsLog, News
  <2>3. CASE OnAppendFailure(n, m)
    <3> DEFINE next == NextAfterFailure(n, m.from)
               x == AppendEntries(n, m.from, current_term[n], log[n], next,
                                  commit_index[n])
    <3>1. msgs' = msgs \cup {x} /\ role[n] = "leader" /\ m \in Message
      BY <2>3 DEF OnAppendFailure, HearFollower, Send, TInv, TypeOK
    <3>2. /\ m.from \in Server /\ log[n] \in Seq(Entry) /\ current_term[n] \in Nat
          /\ commit_index[n] \in Nat
      BY <3>1, MessageFields DEF TInv, TypeOK
    <3>3. next \in 1 .. Len(log[n]) + 1
      <4>1. next_index[n][m.from] \in 1 .. Len(log[n]) + 1
        BY <3>1, <3>2 DEF TInv, NextInRange, LastIndex
      <4>2. Len(log[n]) \in Nat
        BY <3>2
      <4> QED
        BY <4>1, <4>2 DEF NextAfterFailure, Larger
    <3> HIDE DEF next
    <3>4. x.prev_log_index + Len(x.entries) = Len(log[n])
      <4>1. PICK l \in Seq(Entry), p \in Server, t \in Nat, c \in Nat :
              l = log[n] /\ p = m.from /\ t = current_term[n] /\ c = commit_index[n]
        BY <3>2
      <4>a. PICK k \in 1 .. Len(l) + 1 : k = next
        BY <3>3, <4>1
      <4>2. x = AppendEntries(n, p, t, l, k, c)
        BY <4>1, <4>a
      <4> HIDE DEF x
      <4>3. x.prev_log_index + Len(x.entries) = Len(l)
        BY ONLY <4>2, n \in Server, p \in Server, t \in Nat, l \in Seq(Entry),
                k \in 1 .. Len(l) + 1, c \in Nat, AppendEntriesType
      <4> QED
        BY <4>1, <4>3
    <3>5. x.term = current_term[n] /\ x.leader_commit = commit_index[n]
      BY DEF AppendEntries
    <3>6. LastNew(x) >= Len(log[n])
      BY <3>2, <3>4 DEF LastNew
    <3> HIDE DEF x
    <3> QED
      BY <1>1, <3>1, <3>5, <3>6 DEF SendsLog, News
  <2> QED
    BY <2>1, <2>2, <2>3
<1> QED
  BY <1>1, <1>2, <1>3, QuietApplies

(* A refusal.                                                              *)
LEMMA RefuseGapApplies ==
  ASSUME TInv, TInv', NEW n \in Server, NEW G, NEW H, History(G), AInv(G),
         Follows(n, G, H), NEW m \in msgs, RefuseGap(n, m)
  PROVE  Applies(n, H)
<1> DEFINE x == AppendEntriesReply(n, m.from, TermAfter(n, m.term), FALSE, 0)
<1>1. /\ UNCHANGED <<applied, running, match_index, log>>
      /\ msgs' = msgs \cup {x} /\ HearLeader(n, m)
  BY DEF RefuseGap, commitVars, leaderVars, Send
<1>2. ~IsAppend(x)
  BY DEF AppendEntriesReply, IsAppend
<1> HIDE DEF x
<1>3. SendsLog(n)
  BY <1>1, <1>2 DEF SendsLog, News
<1>4. /\ current_term' = [current_term EXCEPT ![n] = m.term]
      /\ role' = [role EXCEPT ![n] = "follower"]
      /\ m.term \in Nat /\ m.term >= current_term[n]
  BY <1>1, HearLeaderStep
<1>5. /\ current_term'[n] = m.term /\ role'[n] = "follower" /\ current_term[n] \in Nat
  BY <1>4 DEF TInv, TypeOK
<1>6. current_term[n] <= current_term'[n]
  BY <1>4, <1>5
<1> QED
  BY <1>1, <1>3, <1>5, <1>6, QuietApplies

(* A new leader believes nothing yet.                                      *)
LEMMA NewLeaderApplies ==
  ASSUME TInv, TInv', NEW n \in Server, NEW G, NEW H, History(G), AInv(G),
         Follows(n, G, H), NEW t \in Nat, current_term[n] <= t, current_term'[n] = t,
         BecomeLeader(n, t), UNCHANGED <<applied, running, log>>
  PROVE  Applies(n, H)
<1> DEFINE new == {AppendEntries(n, p, t, log[n], LastIndex(log[n]) + 1, commit_index[n]) :
                     p \in Peers(n)}
<1>1. /\ msgs' = msgs \cup new
      /\ match_index' = [match_index EXCEPT ![n] = [p \in Server |-> SENTINEL_INDEX]]
      /\ role' = [role EXCEPT ![n] = "leader"]
  BY DEF BecomeLeader, Send
<1>2. \A x \in new : x.term = t /\ LastNew(x) = LastIndex(log[n])
  BY NewLeaderSends DEF TInv
<1>3. \A x \in new : x.leader_commit = commit_index[n]
  BY DEF AppendEntries
<1> HIDE DEF new
<1>4. /\ role'[n] = "leader" /\ \A p \in Peers(n) : match_index'[n][p] = 0
      /\ OthersIdle(n)
  BY <1>1 DEF OthersIdle, TInv, TypeOK, Peers, SENTINEL_INDEX
<1>5. log'[n] = log[n] /\ applied'[n] = applied[n] /\ running'[n] = running[n]
      /\ Len(log[n]) \in Nat
  BY DEF TInv, TypeOK
<1>6. SendsLog(n)
  BY <1>1, <1>2, <1>3, <1>4, <1>5 DEF SendsLog, News, LastIndex
<1> QED
  BY <1>4, <1>5, <1>6, IdleApplies

(* Winning by a vote.                                                      *)
LEMMA WinElectionApplies ==
  ASSUME TInv, TInv', NEW n \in Server, NEW G, NEW H, History(G), AInv(G),
         Follows(n, G, H), NEW m \in msgs, WinElection(n, m)
  PROVE  Applies(n, H)
<1>1. /\ BecomeLeader(n, current_term[n])
      /\ UNCHANGED <<applied, running, log, current_term>>
  BY DEF WinElection, hardVars, commitVars
<1>2. current_term[n] \in Nat /\ current_term'[n] = current_term[n]
  BY <1>1 DEF TInv, TypeOK
<1> QED
  BY <1>1, <1>2, NewLeaderApplies

(* Standing for election, or winning alone.                                *)
LEMMA ElectionTimeoutApplies ==
  ASSUME TInv, TInv', NEW n \in Server, NEW G, NEW H, History(G), AInv(G),
         Follows(n, G, H), ElectionTimeout(n)
  PROVE  Applies(n, H)
<1>1. /\ current_term' = [current_term EXCEPT ![n] = @ + 1]
      /\ UNCHANGED <<applied, running, log>>
      /\ Campaign(n)
  BY DEF ElectionTimeout, Campaign, commitVars
<1>2. PICK t \in Nat : t = current_term[n] + 1
  BY DEF TInv, TypeOK
<1>3. current_term'[n] = t /\ current_term[n] <= t /\ current_term[n] <= current_term'[n]
  BY <1>1, <1>2 DEF TInv, TypeOK
<1>4. CASE IsMajority({n})
  <2>1. BecomeLeader(n, t)
    BY <1>2, <1>4 DEF ElectionTimeout
  <2> QED
    BY <1>1, <1>3, <2>1, NewLeaderApplies
<1>5. CASE ~IsMajority({n})
  <2> DEFINE new == {RequestVote(n, p, current_term[n] + 1, log[n]) : p \in Peers(n)}
  <2>1. /\ msgs' = msgs \cup new /\ UNCHANGED match_index
        /\ role' = [role EXCEPT ![n] = "candidate"]
    BY <1>5 DEF ElectionTimeout, AskForVotes, Send, leaderVars
  <2>2. \A x \in new : ~IsAppend(x)
    BY DEF RequestVote, IsAppend
  <2> HIDE DEF new
  <2>3. SendsLog(n)
    BY <2>1, <2>2 DEF SendsLog, News
  <2>4. role'[n] = "candidate"
    BY <2>1 DEF TInv, TypeOK
  <2> QED
    BY <1>1, <1>3, <2>1, <2>3, <2>4, QuietApplies
<1> QED
  BY <1>4, <1>5

(* A heartbeat.                                                            *)
LEMMA FireHeartbeatApplies ==
  ASSUME TInv, TInv', NEW n \in Server, NEW G, NEW H, History(G), AInv(G),
         Follows(n, G, H), FireHeartbeat(n)
  PROVE  Applies(n, H)
<1> DEFINE sent == {AppendEntries(n, p, current_term[n], log[n], next_index[n][p],
                                  commit_index[n]) : p \in Peers(n)}
<1>1. /\ UNCHANGED <<applied, running, match_index, log, role, current_term>>
      /\ IF role[n] = "leader" THEN msgs' = msgs \cup sent ELSE msgs' = msgs
  BY DEF FireHeartbeat, hardVars, commitVars, leaderVars, Send
<1>2. current_term[n] <= current_term'[n] /\ log[n] \in Seq(Entry)
  BY <1>1 DEF TInv, TypeOK
<1>3. SendsLog(n)
  <2>1. CASE role[n] = "leader"
    <3>1. Len(log[n]) >= LastIndex(log[n]) /\ Len(log[n]) \in Nat
      BY <1>2 DEF LastIndex
    <3>2. \A x \in sent : x.term = current_term[n] /\ LastNew(x) = Len(log[n])
      BY <1>2, <2>1, <3>1, LeaderSends
    <3>3. \A x \in sent : x.leader_commit = commit_index[n]
      BY DEF AppendEntries
    <3> HIDE DEF sent
    <3> QED
      BY <1>1, <2>1, <3>1, <3>2, <3>3 DEF SendsLog, News
  <2>2. CASE role[n] # "leader"
    BY <1>1, <2>2 DEF SendsLog, News
  <2> QED
    BY <2>1, <2>2
<1> QED
  BY <1>1, <1>2, <1>3, QuietApplies

-----------------------------------------------------------------------------
(* Applying.                                                               *)

(* Applying entries of a log to a beginning of it gives another.           *)
Applying(a, lg, c) == a \o SubSeq(lg, Len(a) + 1, c)

(* So it is a beginning, of the length of the commit index if it grew.     *)
LEMMA ApplyGrows ==
  ASSUME NEW a \in Seq(Entry), NEW lg \in Seq(Entry), Begins(a, lg),
         NEW c \in Nat, c <= Len(lg)
  PROVE  /\ Applying(a, lg, c) \in Seq(Entry) /\ Begins(Applying(a, lg, c), lg)
         /\ c <= Len(a) => Applying(a, lg, c) = a
         /\ c > Len(a) => Len(Applying(a, lg, c)) = c
<1>0. PICK b : b = Applying(a, lg, c)
  OBVIOUS
<1>1. Len(a) \in Nat /\ Len(lg) \in Nat /\ Len(a) <= Len(lg)
      /\ \A j \in 1 .. Len(a) : a[j] = lg[j]
  BY DEF Begins
<1>2. CASE c <= Len(a)
  <2>1. SubSeq(lg, Len(a) + 1, c) = << >>
    BY <1>1, <1>2, SubSeqEmpty
  <2>2. a \o << >> = a
    OBVIOUS
  <2>3. b = a
    BY <1>0, <2>1, <2>2 DEF Applying
  <2>4. b \in Seq(Entry) /\ Begins(b, lg)
    BY <2>3
  <2>5. ~(c > Len(a))
    BY <1>1, <1>2
  <2> QED
    BY <1>0, <2>3, <2>4, <2>5
<1>3. CASE c > Len(a)
  <2> DEFINE s == SubSeq(lg, Len(a) + 1, c)
  <2>1. /\ s \in Seq(Entry) /\ Len(s) = c - Len(a)
        /\ \A j \in 1 .. c - Len(a) : s[j] = lg[Len(a) + j]
    <3>1. Len(a) + 1 \in 1 .. Len(lg) /\ c \in Len(a) + 1 .. Len(lg)
      BY <1>1, <1>3
    <3>2. PICK q \in 1 .. Len(lg) : q = Len(a) + 1
      BY <3>1
    <3>3. /\ SubSeq(lg, q, c) \in Seq(Entry) /\ Len(SubSeq(lg, q, c)) = c - q + 1
          /\ \A j \in 1 .. c - q + 1 : SubSeq(lg, q, c)[j] = lg[q + j - 1]
      BY <3>1, <3>2
    <3>4. c - q + 1 = c - Len(a) /\ \A j \in 1 .. c - Len(a) : q + j - 1 = Len(a) + j
      BY <1>1, <3>1, <3>2
    <3> QED
      BY <3>2, <3>3, <3>4
  <2> HIDE DEF s
  <2>2. b = a \o s
    BY <1>0 DEF s, Applying
  <2>3. /\ b \in Seq(Entry) /\ Len(b) = Len(a) + Len(s)
        /\ \A j \in 1 .. Len(a) + Len(s) :
             b[j] = IF j <= Len(a) THEN a[j] ELSE s[j - Len(a)]
    BY ONLY <2>1, <2>2, a \in Seq(Entry), ConcatProperties
  <2>4. Len(b) = c
    BY <1>1, <2>1, <2>3
  <2>5. ASSUME NEW j \in 1 .. c PROVE b[j] = lg[j]
    <3>1. CASE j <= Len(a)
      BY <1>1, <2>3, <2>4, <3>1
    <3>2. CASE ~(j <= Len(a))
      <4>1. j - Len(a) \in 1 .. c - Len(a) /\ Len(a) + (j - Len(a)) = j
            /\ j \in 1 .. Len(a) + Len(s)
        BY <1>1, <2>3, <2>4, <3>2
      <4>2. b[j] = s[j - Len(a)]
        BY <2>3, <3>2, <4>1
      <4>3. s[j - Len(a)] = lg[Len(a) + (j - Len(a))]
        BY <2>1, <4>1
      <4> QED
        BY <4>1, <4>2, <4>3
    <3> QED
      BY <3>1, <3>2
  <2>6. b \in Seq(Entry) /\ Begins(b, lg)
    BY <2>3, <2>4, <2>5 DEF Begins
  <2>7. ~(c <= Len(a))
    BY <1>1, <1>3
  <2> QED
    BY <1>0, <2>4, <2>6, <2>7
<1> QED
  BY <1>2, <1>3

(* What a server has applied after ApplyCommitted.                         *)
LEMMA AppliedByCommit ==
  ASSUME TInv, NEW n \in Server, NEW lg \in Seq(Entry), NEW debts, NEW c \in Nat,
         c <= Len(lg), Begins(applied[n], lg), ApplyCommitted(n, lg, debts, c)
  PROVE  /\ applied'[n] \in Seq(Entry) /\ Begins(applied'[n], lg)
         /\ c <= Len(applied[n]) => applied'[n] = applied[n]
         /\ c > Len(applied[n]) => Len(applied'[n]) = c
         /\ commit_index'[n] = c
         /\ \A p \in Server : p # n => /\ applied'[p] = applied[p]
                                       /\ commit_index'[p] = commit_index[p]
<1>1. /\ applied' = [applied EXCEPT ![n] = applied[n] \o SubSeq(lg, Len(applied[n]) + 1, c)]
      /\ commit_index' = [commit_index EXCEPT ![n] = c]
  BY DEF ApplyCommitted
<1>2. applied[n] \in Seq(Entry)
  BY DEF TInv, TypeOK
<1>a. applied \in [Server -> Seq(Entry)] /\ commit_index \in [Server -> Nat]
  BY DEF TInv, TypeOK
<1>b. PICK b : b = Applying(applied[n], lg, c)
  OBVIOUS
<1>c. /\ applied' = [applied EXCEPT ![n] = b]
      /\ commit_index' = [commit_index EXCEPT ![n] = c]
  BY <1>1, <1>b DEF Applying
<1>d. /\ applied'[n] = b
      /\ commit_index'[n] = c
      /\ \A p \in Server : p # n => /\ applied'[p] = applied[p]
                                    /\ commit_index'[p] = commit_index[p]
  BY ONLY <1>a, <1>c
<1>4. /\ applied'[n] \in Seq(Entry) /\ Begins(applied'[n], lg)
      /\ c <= Len(applied[n]) => applied'[n] = applied[n]
      /\ c > Len(applied[n]) => Len(applied'[n]) = c
  <2>1. PICK a \in Seq(Entry) : a = applied[n]
    BY <1>2
  <2>2. Begins(a, lg) /\ b = Applying(a, lg, c)
    BY <1>b, <2>1
  <2>3. /\ b \in Seq(Entry) /\ Begins(b, lg)
        /\ c <= Len(a) => b = a
        /\ c > Len(a) => Len(b) = c
    BY ONLY <2>2, a \in Seq(Entry), lg \in Seq(Entry), c \in Nat, c <= Len(lg), ApplyGrows
  <2> QED
    BY <1>d, <2>1, <2>3
<1> QED
  BY <1>d, <1>4

(* What a leader commits is chosen.                                        *)
LEMMA CommittedChosen ==
  ASSUME TInv, TInv', NEW n \in Server, NEW G, NEW H, History(G), Follows(n, G, H),
         role[n] = "leader", role'[n] = "leader",
         NEW t \in Nat, t = current_term[n], t = current_term'[n],
         NEW lg \in Seq(Entry), lg = log'[n], NEW match \in [Server -> Nat],
         \A p \in Peers(n) : Told(n, p, match[p]),
         NEW c \in Committable(n, lg, match)
  PROVE  c \in 1 .. Len(lg) /\ H[t] = lg /\ Chosen(H, t, c)'
<1>1. /\ c \in commit_index[n] + 1 .. LastIndex(lg)
      /\ TermAt(lg, c) = t
      /\ IsMajority({n} \cup {p \in Peers(n) : match[p] >= c})
  BY DEF Committable
<1>2. c \in Nat /\ 0 < c /\ c <= Len(lg)
  <2>1. commit_index[n] \in Nat /\ Len(lg) \in Nat
    BY DEF TInv, TypeOK
  <2> QED
    BY <1>1, <2>1 DEF LastIndex
<1>3. H[t] = lg
  BY DEF Follows, Carries
<1>4. Own(H, t, c)
  BY <1>1, <1>2, <1>3 DEF Own, TermAt, SENTINEL_INDEX
<1> DEFINE A == {n} \cup {p \in Peers(n) : match[p] >= c}
<1>5. A \in SUBSET Server /\ IsMajority(A)
  BY <1>1 DEF Peers
<1>6. Led(n, t)
  BY DEF History, LeadersHave, LedNow
<1>7. ASSUME NEW x \in A PROVE Acked(x, t, c)'
  <2>1. CASE x = n
    <3>1. Acked(n, t, c)
      BY <1>6 DEF Acked
    <3> QED
      BY <1>2, <2>1, <3>1, AckedStays DEF Follows
  <2>2. CASE x # n
    <3>1. x \in Peers(n) /\ match[x] >= c /\ match[x] \in Nat /\ x \in Server
      BY <2>2 DEF Peers
    <3>2. PICK m \in msgs : /\ IsAck(m) /\ m.from = x /\ m.term = t
                            /\ match[x] <= m.match_index
      BY <1>2, <3>1 DEF Told
    <3>3. m.match_index \in Nat
      BY <3>2, MessageFields DEF IsAck, TInv, TypeOK
    <3>4. c <= m.match_index
      BY <1>2, <3>1, <3>2, <3>3
    <3>5. Acked(x, t, c)
      BY <3>2, <3>4 DEF Acked
    <3> QED
      BY <1>2, <3>1, <3>5, AckedStays DEF Follows
  <2> QED
    BY <2>1, <2>2
<1> HIDE DEF A
<1>8. Chosen(H, t, c)'
  BY <1>4, <1>5, <1>7 DEF Chosen, Own, IsMajority
<1> QED
  BY <1>2, <1>3, <1>8

(* So what it applies is settled.                                          *)
LEMMA LeaderSettles ==
  ASSUME TInv, TInv', NEW n \in Server, NEW G, NEW H, History(G), AInv(G),
         Follows(n, G, H), role[n] = "leader", role'[n] = "leader",
         current_term'[n] = current_term[n], Begins(log[n], log'[n]),
         NEW match \in [Server -> Nat], \A p \in Peers(n) : Told(n, p, match[p]),
         NEW debts, NEW c \in Reach(n, log'[n], match),
         ApplyCommitted(n, log'[n], debts, c)
  PROVE  /\ Settled(H, n)' /\ HasApplied(n)'
         /\ \A p \in Server : p # n => applied'[p] = applied[p]
<1>1. /\ applied[n] \in Seq(Entry) /\ log[n] \in Seq(Entry) /\ log'[n] \in Seq(Entry)
      /\ current_term[n] \in Nat /\ commit_index[n] \in Nat
  BY DEF TInv, TypeOK
<1>2. PICK a \in Seq(Entry), lg \in Seq(Entry), t \in Nat :
        a = applied[n] /\ lg = log'[n] /\ t = current_term[n]
  BY <1>1
<1>3. Begins(a, lg) /\ Len(a) \in Nat /\ Len(lg) \in Nat /\ Len(a) <= Len(lg)
  <2>1. Begins(applied[n], log[n])
    BY DEF AInv, HasApplied
  <2> QED
    BY <1>1, <1>2, <2>1 DEF Begins
<1>4. commit_index[n] <= Len(a)
  BY <1>2 DEF TInv, AppliedCovers
<1>5. c = commit_index[n] \/ c \in Committable(n, lg, match)
  BY <1>2 DEF Reach
<1>6. ASSUME c \in Committable(n, lg, match)
      PROVE  c \in 1 .. Len(lg) /\ H[t] = lg /\ Chosen(H, t, c)'
  BY <1>2, <1>6, CommittedChosen
<1>7. c \in Nat /\ c <= Len(lg)
  BY <1>1, <1>3, <1>4, <1>5, <1>6
<1>8. /\ applied'[n] \in Seq(Entry) /\ Begins(applied'[n], lg)
      /\ c <= Len(a) => applied'[n] = a
      /\ c > Len(a) => Len(applied'[n]) = c
      /\ \A p \in Server : p # n => applied'[p] = applied[p]
  BY <1>2, <1>3, <1>7, AppliedByCommit
<1>9. HasApplied(n)'
  <2>1. running'[n]
    BY DEF TInv, TypeOK, DownIsFollower
  <2> QED
    BY <1>2, <1>8, <2>1 DEF HasApplied
<1>10. Settled(H, n)'
  <2>1. CASE c <= Len(a)
    <3>1. SettledTo(G, a, Len(a), t) /\ Begins(a, a)
      BY <1>2, BeginsSelf DEF AInv, Settled
    <3>2. SettledTo(H, a, Len(a), t)'
      BY <1>3, <3>1, SettledStays
    <3> QED
      BY <1>2, <1>8, <2>1, <3>2 DEF Settled, SettledTo
  <2>2. CASE c > Len(a)
    <3>1. c \in Committable(n, lg, match)
      BY <1>1, <1>3, <1>4, <1>5, <2>2
    <3>2. H[t] = lg /\ Chosen(H, t, c)'
      BY <1>6, <3>1
    <3>3. PICK b \in Seq(Entry) : b = applied'[n]
      BY <1>8
    <3>4. Len(b) = c /\ Begins(b, lg)
      BY <1>8, <2>2, <3>3
    <3>5. Has(b, H[t], c)
      BY <1>7, <3>2, <3>4, BeginsHas
    <3>6. SettledTo(H, b, c, t)'
      BY <1>7, <3>2, <3>5 DEF SettledTo, Has
    <3> QED
      BY <1>2, <3>3, <3>4, <3>6 DEF Settled, SettledTo
  <2> QED
    BY <1>3, <1>7, <2>1, <2>2
<1> QED
  BY <1>8, <1>9, <1>10

(* A follower's success: all that the leader then believes, it was told.   *)
LEMMA SuccessTold ==
  ASSUME TInv, NEW G, AInv(G), NEW n \in Server, NEW m \in msgs, OnAppendSuccess(n, m)
  PROVE  /\ UNCHANGED <<running, role, log, current_term>>
         /\ role[n] = "leader" /\ MatchAfter(n, m) \in [Server -> Nat]
         /\ match_index' = [match_index EXCEPT ![n] = MatchAfter(n, m)]
         /\ \A p \in Peers(n) : Told(n, p, MatchAfter(n, m)[p])
         /\ \E c \in Reach(n, log[n], MatchAfter(n, m)) :
              /\ ApplyCommitted(n, log[n], pending_clients[n], c)
              /\ msgs' = msgs \cup ReplyTo(n, Paid(n, pending_clients[n], c))
<1> DEFINE match == MatchAfter(n, m)
<1>1. /\ UNCHANGED <<running, role, log, current_term>>
      /\ match_index' = [match_index EXCEPT ![n] = match]
      /\ role[n] = "leader" /\ m.term = current_term[n] /\ m.success
      /\ m.type = "AppendEntriesReply" /\ m \in Message
  BY DEF OnAppendSuccess, HearFollower, Receives, hardVars, TInv, TypeOK
<1>2. \E c \in Reach(n, log[n], match) :
        /\ ApplyCommitted(n, log[n], pending_clients[n], c)
        /\ msgs' = msgs \cup ReplyTo(n, Paid(n, pending_clients[n], c))
  BY DEF OnAppendSuccess, Send
<1>3. match_index[n] \in [Server -> Nat] /\ m.match_index \in Nat /\ m.from \in Server
  BY <1>1, MessageFields DEF TInv, TypeOK
<1>4. /\ match \in [Server -> Nat]
      /\ \A p \in Server :
           \/ match[p] = match_index[n][p]
           \/ p = m.from /\ match[p] = m.match_index
  <2>1. PICK k \in Nat : k = Larger(match_index[n][m.from], m.match_index)
    BY <1>3 DEF Larger
  <2>2. k = match_index[n][m.from] \/ k = m.match_index
    BY <2>1 DEF Larger
  <2>3. match = [match_index[n] EXCEPT ![m.from] = k]
    BY <2>1 DEF MatchAfter
  <2> HIDE DEF match
  <2>4. PICK f \in [Server -> Nat], q \in Server : f = match_index[n] /\ q = m.from
    BY <1>3
  <2>5. match = [f EXCEPT ![q] = k]
    BY <2>3, <2>4
  <2>6. match \in [Server -> Nat] /\ match[q] = k
    BY <2>4, <2>5
  <2>7. \A p \in Server : p # q => match[p] = f[p]
    BY <2>4, <2>5
  <2> QED
    BY <2>2, <2>4, <2>6, <2>7
<1> HIDE DEF match
<1>5. ASSUME NEW p \in Peers(n) PROVE Told(n, p, match[p])
  <2>1. p \in Server
    BY DEF Peers
  <2>2. CASE match[p] = match_index[n][p]
    <3>1. Told(n, p, match_index[n][p])
      BY <1>1 DEF AInv, Believes
    <3> QED
      BY <2>2, <3>1
  <2>3. CASE p = m.from /\ match[p] = m.match_index
    <3>1. IsAck(m) /\ m.from = p /\ m.term = current_term[n] /\ match[p] <= m.match_index
      BY <1>1, <1>3, <2>3 DEF IsAck
    <3> QED
      BY <3>1 DEF Told
  <2> QED
    BY <1>4, <2>1, <2>2, <2>3
<1>6. match = MatchAfter(n, m)
  BY DEF match
<1> QED
  BY <1>1, <1>2, <1>4, <1>5, <1>6

(* So it commits what is settled.                                          *)
LEMMA OnAppendSuccessApplies ==
  ASSUME TInv, TInv', NEW n \in Server, NEW G, NEW H, History(G), AInv(G),
         Follows(n, G, H), NEW m \in msgs, OnAppendSuccess(n, m)
  PROVE  Applies(n, H)
<1>1. PICK match \in [Server -> Nat] : match = MatchAfter(n, m)
  BY SuccessTold
<1>2. /\ UNCHANGED <<running, role, log, current_term>>
      /\ role[n] = "leader"
      /\ match_index' = [match_index EXCEPT ![n] = match]
      /\ \A p \in Peers(n) : Told(n, p, match[p])
      /\ \E c \in Reach(n, log[n], match) :
           /\ ApplyCommitted(n, log[n], pending_clients[n], c)
           /\ msgs' = msgs \cup ReplyTo(n, Paid(n, pending_clients[n], c))
  BY <1>1, SuccessTold
<1>3. PICK c \in Reach(n, log[n], match) :
        /\ ApplyCommitted(n, log[n], pending_clients[n], c)
        /\ msgs' = msgs \cup ReplyTo(n, Paid(n, pending_clients[n], c))
  BY <1>2
<1>4. /\ log[n] \in Seq(Entry) /\ log'[n] = log[n] /\ role'[n] = "leader"
      /\ current_term'[n] = current_term[n] /\ current_term[n] \in Nat
  BY <1>2 DEF TInv, TypeOK
<1>5. match_index'[n] = match /\ \A p \in Server : p # n => match_index'[p] = match_index[p]
  BY <1>2 DEF TInv, TypeOK
<1>7. Begins(log[n], log'[n])
  BY <1>4, BeginsSelf
<1>8. /\ Settled(H, n)' /\ HasApplied(n)'
      /\ \A p \in Server : p # n => applied'[p] = applied[p]
  BY <1>2, <1>3, <1>4, <1>7, LeaderSettles
<1>9. Believes(n)'
  <2>1. msgs \subseteq msgs'
    BY <1>3
  <2> QED
    BY <1>2, <1>4, <1>5, <2>1 DEF Believes, Told
<1>10. \A x \in News : CommitSettled(H, x)'
  <2>1. \A x \in ReplyTo(n, Paid(n, pending_clients[n], c)) : ~IsAppend(x)
    BY DEF ReplyTo, ClientReply, IsAppend
  <2>2. \A x \in News : ~IsAppend(x)
    BY <1>3, <2>1 DEF News
  <2> QED
    BY <2>2 DEF CommitSettled, IsAppend
<1>11. OthersIdle(n)
  BY <1>2, <1>5, <1>8 DEF OthersIdle
<1> QED
  BY <1>8, <1>9, <1>10, <1>11 DEF Applies

(* A request at the leader.                                                *)
LEMMA OnClientRequestApplies ==
  ASSUME TInv, TInv', NEW n \in Server, NEW G, NEW H, History(G), AInv(G),
         Follows(n, G, H), NEW r \in Request, OnClientRequest(n, r)
  PROVE  Applies(n, H)
<1> DEFINE longer == Longer(n, r)
           sent == {AppendEntries(n, p, current_term[n], longer, next_index[n][p],
                                  commit_index[n]) : p \in Peers(n)}
<1> DEFINE index == LastIndex(log[n]) + 1
           debts == {d \in pending_clients[n] : d.index # index}
                      \cup {[index |-> index, request_id |-> r]}
<1>1. PICK c \in Reach(n, longer, match_index[n]) :
        /\ ApplyCommitted(n, longer, debts, c)
        /\ msgs' = msgs \cup (sent \cup ReplyTo(n, Paid(n, debts, c)))
  BY DEF OnClientRequest, Send, Longer
<1> HIDE DEF debts
<1>2. /\ running[n] /\ role[n] = "leader"
      /\ log' = [log EXCEPT ![n] = longer]
      /\ UNCHANGED <<current_term, role, running, match_index>>
  BY DEF OnClientRequest, Longer, leaderVars
<1>3. /\ match_index[n] \in [Server -> Nat] /\ log[n] \in Seq(Entry)
      /\ log'[n] = longer /\ role'[n] = "leader"
      /\ current_term'[n] = current_term[n] /\ current_term[n] \in Nat
  BY <1>2 DEF TInv, TypeOK
<1>4. Begins(log[n], longer) /\ longer \in Seq(Entry) /\ Len(longer) \in Nat
      /\ Len(longer) >= LastIndex(log[n])
  <2>1. [term |-> current_term[n], request_id |-> r] \in Entry
    BY <1>3 DEF Entry
  <2> QED
    BY <1>3, <2>1 DEF Longer, Begins, LastIndex
<1> HIDE DEF longer
<1>5. \A p \in Peers(n) : Told(n, p, match_index[n][p])
  BY <1>2 DEF AInv, Believes
<1>6. /\ Settled(H, n)' /\ HasApplied(n)'
      /\ \A p \in Server : p # n => applied'[p] = applied[p]
  BY <1>1, <1>2, <1>3, <1>4, <1>5, LeaderSettles
<1>7. Believes(n)'
  <2>1. msgs \subseteq msgs'
    BY <1>1
  <2> QED
    BY <1>2, <1>5, <2>1 DEF Believes, Told
<1>8. \A x \in sent : /\ x.term = current_term[n] /\ LastNew(x) = Len(longer)
                      /\ x.leader_commit = commit_index[n]
  <2>1. \A x \in sent : x.term = current_term[n] /\ LastNew(x) = Len(longer)
    BY <1>2, <1>4, LeaderSends
  <2>2. \A x \in sent : x.leader_commit = commit_index[n]
    BY DEF AppendEntries
  <2> HIDE DEF sent
  <2> QED
    BY <2>1, <2>2
<1> HIDE DEF sent
<1>9. \A x \in ReplyTo(n, Paid(n, debts, c)) : ~IsAppend(x)
  BY DEF ReplyTo, ClientReply, IsAppend
<1>10. SendsLog(n)
  BY <1>1, <1>3, <1>4, <1>8, <1>9 DEF SendsLog, News
<1>11. \A x \in News : CommitSettled(H, x)'
  <2>1. current_term[n] <= current_term'[n] /\ Begins(log[n], log'[n])
    BY <1>3, <1>4
  <2> QED
    BY <1>10, <2>1, SendsSettle
<1>12. OthersIdle(n)
  BY <1>2, <1>6 DEF OthersIdle
<1> QED
  BY <1>6, <1>7, <1>11, <1>12 DEF Applies

(* What a follower has applied, no leader it hears cuts away.              *)
LEMMA TakingKeepsApplied ==
  ASSUME TInv, NEW G, History(G), CInv(G), AInv(G), NEW n \in Server, running[n],
         NEW m \in msgs, m.type = "AppendEntries", m.term >= current_term[n],
         Consistent(n, m), NEW h \in 0 .. Len(m.entries), Held(n, m, h)
  PROVE  Begins(applied[n], Taken(n, m, h))
<1>1. /\ m.term \in Nat /\ m.prev_log_index \in Nat /\ m.entries \in Seq(Entry)
      /\ IsAppend(m) /\ m \in Message
  BY MessageFields DEF TInv, TypeOK, IsAppend
<1>2. /\ GhostType(G) /\ LeadersOn(G) /\ On(log[n], G) /\ log[n] \in Seq(Entry)
      /\ SliceOf(m, G[m.term]) /\ G[m.term] \in Seq(Entry)
      /\ applied[n] \in Seq(Entry) /\ current_term[n] \in Nat
  BY <1>1 DEF History, LogsOn, SlicesOn, GhostType, TInv, TypeOK
<1>3. PICK a \in Seq(Entry), k \in Nat, w \in Nat, u \in Nat :
        a = applied[n] /\ k = Len(a) /\ w = m.term /\ u = current_term[n]
  BY <1>1, <1>2
<1>4. SettledTo(G, a, k, u) /\ Begins(a, log[n])
  BY <1>3 DEF AInv, Settled, HasApplied
<1>5. Reigned(G, w)
  BY <1>1, <1>3 DEF Reigned, Showed, Spoke
<1>6. Has(a, G[w], k)
  <2>1. u <= w /\ k <= Len(a)
    BY <1>3
  <2> QED
    BY <1>4, <1>5, <2>1, SettledHas
<1>7. Has(a, log[n], k)
  <2>1. k <= Len(a)
    BY <1>3
  <2> QED
    BY <1>2, <1>4, <2>1, BeginsHas
<1>8. Has(G[m.term], a, k) /\ Has(log[n], a, k)
  BY <1>3, <1>6, <1>7, HasBoth
<1> DEFINE T == TruncateFrom(log[n], CutAt(n, m, h))
<1>9. Has(T, a, k)
  BY <1>1, <1>2, <1>8, CutKeeps
<1>10. T \in Seq(Entry) /\ NewEntries(m, h) \in Seq(Entry)
  <2>1. CutAt(n, m, h) \in Nat \ {0} /\ NewEntries(m, h) \in Seq(Entry)
    BY <1>1, CutType DEF TInv
  <2> QED
    BY <1>2, <2>1, TruncateType
<1>11. Taken(n, m, h) = T \o NewEntries(m, h)
  BY DEF Taken
<1> HIDE DEF T
<1>12. Has(Taken(n, m, h), a, k)
  BY <1>9, <1>10, <1>11, ConcatHas
<1>13. Begins(a, Taken(n, m, h))
  BY <1>3, <1>12 DEF Has, Begins
<1> QED
  BY <1>3, <1>13

(* Taking the entries of a leader, and applying what it has committed.     *)
LEMMA TakeEntriesApplies ==
  ASSUME TInv, TInv', NEW n \in Server, NEW G, NEW H, History(G), CInv(G), AInv(G),
         Follows(n, G, H), NEW m \in msgs, TakeEntries(n, m)
  PROVE  Applies(n, H)
<1> DEFINE c == CommitAfter(n, m)
           ack == AppendEntriesReply(n, m.from, m.term, TRUE, LastNew(m))
           paid == ReplyTo(n, Paid(n, pending_clients[n], c))
<1>1. /\ HearLeader(n, m) /\ Consistent(n, m) /\ running[n] /\ m \in Message
      /\ m.type = "AppendEntries" /\ IsAppend(m)
      /\ m.term \in Nat /\ m.term >= current_term[n] /\ TermAfter(n, m.term) = m.term
      /\ current_term' = [current_term EXCEPT ![n] = m.term]
      /\ role' = [role EXCEPT ![n] = "follower"]
  <2>1. HearLeader(n, m) /\ Consistent(n, m)
    BY DEF TakeEntries
  <2> QED
    BY <2>1, HearLeaderStep DEF IsAppend
<1>2. PICK h \in 0 .. Len(m.entries) :
        /\ Held(n, m, h)
        /\ log' = [log EXCEPT ![n] = Taken(n, m, h)]
  BY DEF TakeEntries, Taken
<1>3. /\ ApplyCommitted(n, log'[n], pending_clients[n], c)
      /\ msgs' = msgs \cup ({ack} \cup paid)
      /\ UNCHANGED <<running, match_index>>
  BY <1>1 DEF TakeEntries, Send, LastNew, leaderVars
<1>4. /\ m.prev_log_index \in Nat /\ m.entries \in Seq(Entry) /\ m.leader_commit \in Nat
  BY <1>1, MessageFields
<1>5. /\ log[n] \in Seq(Entry) /\ log'[n] = Taken(n, m, h) /\ log'[n] \in Seq(Entry)
      /\ role'[n] = "follower" /\ current_term'[n] = m.term
      /\ current_term[n] \in Nat /\ applied[n] \in Seq(Entry) /\ commit_index[n] \in Nat
  BY <1>1, <1>2 DEF TInv, TypeOK
<1>6. /\ GhostType(G) /\ LeadersOn(G) /\ On(log[n], G)
      /\ SliceOf(m, G[m.term]) /\ G[m.term] \in Seq(Entry)
  BY <1>1 DEF History, LogsOn, SlicesOn, GhostType
<1>7. PICK lg \in Seq(Entry), a \in Seq(Entry), w \in Nat, u \in Nat, k \in Nat :
        /\ lg = log'[n] /\ a = applied[n] /\ w = m.term /\ u = current_term[n]
        /\ k = m.leader_commit
  BY <1>1, <1>4, <1>5
<1>8. Begins(a, lg)
  BY <1>1, <1>2, <1>5, <1>7, TakingKeepsApplied
<1>9. LastNew(m) <= Len(lg) /\ \A j \in 1 .. LastNew(m) : lg[j] = G[w][j]
  BY <1>1, <1>2, <1>4, <1>5, <1>6, <1>7, TakenIsLeaders
<1>10. LastNew(m) \in Nat /\ LastNew(m) <= Len(G[w])
  BY <1>4, <1>6, <1>7 DEF LastNew, SliceOf
<1>11. k <= LastNew(m) /\ SettledTo(G, G[w], k, w)
  BY <1>1, <1>7 DEF AInv, CommitSettled
<1>12. commit_index[n] <= Len(a) /\ Len(a) \in Nat /\ Len(lg) \in Nat /\ Len(a) <= Len(lg)
  BY <1>7, <1>8 DEF TInv, AppliedCovers, Begins
<1>13. c = commit_index[n] \/ c = k
  <2>1. Smaller(k, LastNew(m)) = k
    BY <1>10, <1>11 DEF Smaller
  <2> QED
    BY <1>7, <2>1 DEF CommitAfter, LastNew
<1> HIDE DEF c
<1>14. c \in Nat /\ c <= Len(lg)
  BY <1>5, <1>7, <1>9, <1>10, <1>11, <1>12, <1>13
<1>15. /\ applied'[n] \in Seq(Entry) /\ Begins(applied'[n], lg)
       /\ c <= Len(a) => applied'[n] = a
       /\ c > Len(a) => Len(applied'[n]) = c
       /\ \A p \in Server : p # n => applied'[p] = applied[p]
  BY <1>3, <1>7, <1>8, <1>14, AppliedByCommit
<1>16. HasApplied(n)'
  BY <1>1, <1>3, <1>7, <1>15 DEF HasApplied
<1>17. Settled(H, n)'
  <2>1. CASE c <= Len(a)
    <3>1. SettledTo(G, a, Len(a), u) /\ Begins(a, a)
      BY <1>7, BeginsSelf DEF AInv, Settled
    <3>2. u <= w
      BY <1>1, <1>7
    <3>3. SettledTo(H, a, Len(a), w)'
      BY <1>12, <3>1, <3>2, SettledStays
    <3> QED
      BY <1>5, <1>7, <1>15, <2>1, <3>3 DEF Settled, SettledTo
  <2>2. CASE c > Len(a)
    <3>1. c = k /\ c # 0
      BY <1>12, <1>13, <1>14, <2>2
    <3>2. PICK b \in Seq(Entry) : b = applied'[n]
      BY <1>15
    <3>3. Len(b) = c /\ Begins(b, lg)
      BY <1>15, <2>2, <3>2
    <3>4. PICK g \in Seq(Entry) : g = G[w]
      BY <1>6, <1>7
    <3>5. Has(lg, g, c)
      <4>1. c <= LastNew(m)
        BY <1>11, <3>1
      <4>2. \A j \in 1 .. c : j \in 1 .. LastNew(m)
        BY <1>10, <1>14, <4>1
      <4>3. c <= Len(g)
        BY <1>10, <1>14, <3>4, <4>1
      <4> QED
        BY <1>9, <1>14, <3>4, <4>2, <4>3 DEF Has
    <3>6. Has(b, g, c)
      <4>1. c <= Len(b)
        BY <1>14, <3>3
      <4>2. Has(b, lg, c)
        BY <1>14, <3>3, <4>1, BeginsHas
      <4> QED
        BY <3>5, <4>2, HasThrough
    <3>7. SettledTo(G, b, c, w)
      <4>1. PICK t \in Nat, i \in Nat : t <= w /\ Chosen(G, t, i) /\ c <= i /\ Has(g, G[t], c)
        BY <1>11, <3>1, <3>4 DEF SettledTo
      <4>2. Has(b, G[t], c)
        BY <3>6, <4>1, HasThrough
      <4> QED
        BY <4>1, <4>2 DEF SettledTo
    <3>8. SettledTo(H, b, k, w)'
      <4>1. Begins(b, b) /\ k <= k /\ w <= w /\ SettledTo(G, b, k, w)
        BY <3>1, <3>7, BeginsSelf
      <4> QED
        BY <4>1, SettledStays
    <3> QED
      BY <1>5, <1>7, <3>1, <3>2, <3>3, <3>8 DEF Settled, SettledTo
  <2> QED
    BY <1>12, <1>14, <2>1, <2>2
<1>18. Believes(n)'
  BY <1>5 DEF Believes
<1>19. \A x \in News : CommitSettled(H, x)'
  <2>1. ~IsAppend(ack) /\ \A x \in paid : ~IsAppend(x)
    BY DEF AppendEntriesReply, ReplyTo, ClientReply, IsAppend
  <2> HIDE DEF ack, paid
  <2>2. \A x \in News : ~IsAppend(x)
    BY <1>3, <2>1 DEF News
  <2> QED
    BY <2>2 DEF CommitSettled, IsAppend
<1>20. OthersIdle(n)
  BY <1>3, <1>15 DEF OthersIdle
<1> QED
  BY <1>16, <1>17, <1>18, <1>19, <1>20 DEF Applies

-----------------------------------------------------------------------------
(* Every step applies what is settled.                                     *)
LEMMA NextApplies ==
  ASSUME TInv, TInv', NEW n \in Server, StepOf(n), NEW G, NEW H, History(G), CInv(G),
         AInv(G), Follows(n, G, H)
  PROVE  Applies(n, H)
<1>0. \/ \E m \in msgs : OnMessage(n, m)
      \/ \E r \in Request : OnClientRequest(n, r) \/ DiskErrorOnRequest(n, r)
      \/ ElectionTimeout(n)
      \/ FireHeartbeat(n)
      \/ DiskErrorOnTimeout(n)
      \/ Crash(n)
      \/ Restart(n)
  BY DEF StepOf, Step, OnRequest
<1>1. ASSUME NEW m \in msgs, OnMessage(n, m)
      PROVE  Applies(n, H)
  <2>1. m.type # "ClientReply" => m.term \in Nat
    BY MessageFields DEF TInv, TypeOK
  <2>2. CASE OnRequestVote(n, m)
    BY <2>2, OnRequestVoteApplies
  <2>3. CASE CountVote(n, m) \/ RefuseStaleLeader(n, m) \/ OnAppendFailure(n, m)
    BY <2>3, AnswerApplies
  <2>4. CASE WinElection(n, m)
    BY <2>4, WinElectionApplies
  <2>5. CASE VoteReplyFromNewerTerm(n, m) \/ AppendReplyFromNewerTerm(n, m)
    <3>1. StepDown(n, m.term) /\ m.type # "ClientReply"
      BY <2>5 DEF VoteReplyFromNewerTerm, AppendReplyFromNewerTerm, Receives
    <3> QED
      BY <2>1, <3>1, StepDownApplies
  <2>6. CASE RefuseGap(n, m)
    BY <2>6, RefuseGapApplies
  <2>7. CASE TakeEntries(n, m)
    BY <2>7, TakeEntriesApplies
  <2>8. CASE OnAppendSuccess(n, m)
    BY <2>8, OnAppendSuccessApplies
  <2>9. CASE DiskErrorOnMessage(n, m)
    BY <2>9, DieApplies DEF DiskErrorOnMessage
  <2> QED
    BY <1>1, <2>2, <2>3, <2>4, <2>5, <2>6, <2>7, <2>8, <2>9 DEF OnMessage
<1>2. ASSUME NEW r \in Request, OnClientRequest(n, r) PROVE Applies(n, H)
  BY <1>2, OnClientRequestApplies
<1>3. ASSUME NEW r \in Request, DiskErrorOnRequest(n, r) PROVE Applies(n, H)
  BY <1>3, DieApplies DEF DiskErrorOnRequest
<1>4. CASE ElectionTimeout(n)
  BY <1>4, ElectionTimeoutApplies
<1>5. CASE FireHeartbeat(n)
  BY <1>5, FireHeartbeatApplies
<1>6. CASE DiskErrorOnTimeout(n) \/ Crash(n)
  BY <1>6, DieApplies DEF DiskErrorOnTimeout, Crash
<1>7. CASE Restart(n)
  BY <1>7, RestartApplies
<1> QED
  BY <1>0, <1>1, <1>2, <1>3, <1>4, <1>5, <1>6, <1>7

(* All of it together: a history of the leaders' logs for which what is    *)
(* acknowledged is kept, and what is applied is settled.                   *)
PInv == \E G \in [Nat -> Seq(Entry)] : History(G) /\ CInv(G) /\ AInv(G)

(* At the start nothing is applied and nobody has led.                     *)
LEMMA PInvInit == Init => PInv
<1> SUFFICES ASSUME Init PROVE PInv
  OBVIOUS
<1>1. /\ msgs = {}
      /\ \A n \in Server : role[n] = "follower" /\ applied[n] = << >> /\ log[n] = << >>
  BY DEF Init
<1>2. \A n \in Server : HasApplied(n) /\ Believes(n)
  BY <1>1 DEF HasApplied, Believes, Begins
<1>3. Nobody \in [Nat -> Seq(Entry)] /\ History(Nobody) /\ CInv(Nobody)
  BY NobodyLed, HistoryInit, CommitInit
<1>4. \A n \in Server : Settled(Nobody, n)
  BY <1>1 DEF Settled, SettledTo
<1>5. AInv(Nobody)
  BY <1>1, <1>2, <1>4 DEF AInv
<1> QED
  BY <1>3, <1>5 DEF PInv

(* Nothing changes when nothing does.                                      *)
LEMMA ApplyStutter ==
  ASSUME UNCHANGED vars, NEW G, AInv(G)
  PROVE  AInv(G)'
<1>1. UNCHANGED <<current_term, log, disk, running, role, applied, match_index, msgs>>
  BY DEF vars
<1>2. \A t, i : Chosen(G, t, i)' <=> Chosen(G, t, i)
  <2>1. \A x, t, i : Acked(x, t, i)' <=> Acked(x, t, i)
    BY <1>1 DEF Acked, Led
  <2> QED
    BY <2>1 DEF Chosen, Own, IsMajority
<1>3. \A lg, k, u : SettledTo(G, lg, k, u)' <=> SettledTo(G, lg, k, u)
  BY <1>2 DEF SettledTo, Has
<1>4. \A n \in Server : Settled(G, n)'
  BY <1>1, <1>3 DEF AInv, Settled
<1>5. \A m \in msgs : CommitSettled(G, m)'
  BY <1>1, <1>3 DEF AInv, CommitSettled, LastNew, IsAppend
<1>6. \A n \in Server : HasApplied(n)' /\ Believes(n)'
  BY <1>1 DEF AInv, HasApplied, Believes, Told
<1> QED
  BY <1>1, <1>4, <1>5, <1>6 DEF AInv

(* A step of n carries it on with the history that the step makes.         *)
LEMMA StepCarriesOn ==
  ASSUME TInv, EInv, TInv', EInv', ElectionSafety', NEW n \in Server, StepOf(n),
         NEW G, History(G), CInv(G), AInv(G)
  PROVE  \E H : /\ Follows(n, G, H) /\ Applies(n, H)
               /\ History(H)' /\ CInv(H)' /\ AInv(H)'
<1>1. PICK H : Follows(n, G, H)
  BY NextFollows
<1>2. Carries(n, G, H) /\ Next
  BY <1>1 DEF Follows, StepOf, Next
<1>3. History(H)'
  BY <1>2, CarriesKeeps
<1>4. CInv(H)'
  BY <1>1, <1>3, FollowsKeeps
<1>5. Applies(n, H)
  BY <1>1, NextApplies
<1>6. AInv(H)'
  BY <1>1, <1>5, AppliesKeeps
<1> QED
  BY <1>1, <1>3, <1>4, <1>5, <1>6

(* Every step keeps the whole.                                             *)
LEMMA PInvStep ==
  TInv /\ EInv /\ TInv' /\ EInv' /\ ElectionSafety' /\ PInv /\ [Next]_vars => PInv'
<1> SUFFICES ASSUME TInv, EInv, TInv', EInv', ElectionSafety', [Next]_vars,
                    NEW G \in [Nat -> Seq(Entry)], History(G), CInv(G), AInv(G)
             PROVE  PInv'
  BY DEF PInv
<1>1. CASE Next
  <2>1. PICK n \in Server : StepOf(n)
    BY <1>1 DEF Next, StepOf
  <2>2. PICK H : Follows(n, G, H) /\ History(H)' /\ CInv(H)' /\ AInv(H)'
    BY <2>1, StepCarriesOn
  <2>3. H \in [Nat -> Seq(Entry)]
    BY <2>2 DEF Follows, Carries, GhostType
  <2> QED
    BY <2>2, <2>3 DEF PInv
<1>2. CASE UNCHANGED vars
  BY <1>2, CommitStutter, ApplyStutter DEF PInv
<1> QED
  BY <1>1, <1>2

(* It holds in every behaviour.                                            *)
LEMMA PInvHolds == Spec => [](TInv /\ EInv /\ PInv)
<1>1. TInv /\ EInv => ElectionSafety
  BY OneLeader
<1> QED
  BY <1>1, EInvHolds, PInvInit, PInvStep, PTL DEF Spec

-----------------------------------------------------------------------------
(* What this says of the servers.                                          *)

(* The sense of the community modules.                                     *)
LEMMA BeginsIsPrefix ==
  ASSUME NEW a \in Seq(Entry), NEW b \in Seq(Entry), Begins(a, b)
  PROVE  IsPrefix(a, b)
<1>1. /\ Len(a) \in Nat /\ Len(b) \in Nat /\ Len(a) <= Len(b)
      /\ \A j \in 1 .. Len(a) : a[j] = b[j]
  BY DEF Begins
<1>2. PICK k \in 0 .. Len(b) : k = Len(a)
  BY <1>1
<1>3. /\ SubSeq(a, 1, k) \in Seq(Entry) /\ SubSeq(b, 1, k) \in Seq(Entry)
      /\ Len(SubSeq(a, 1, k)) = k /\ Len(SubSeq(b, 1, k)) = k
      /\ \A j \in 1 .. k : SubSeq(a, 1, k)[j] = a[j] /\ SubSeq(b, 1, k)[j] = b[j]
  BY <1>1, <1>2
<1>4. SubSeq(a, 1, k) = SubSeq(b, 1, k)
  BY ONLY <1>1, <1>2, <1>3, SeqEqual
<1> QED
  BY <1>1, <1>2, <1>4 DEF IsPrefix

(* Two logs of which all is settled are one log, or one begins the other.  *)
LEMMA SettledMeet ==
  ASSUME NEW G, History(G), CInv(G), NEW a \in Seq(Entry), NEW b \in Seq(Entry),
         NEW t \in Nat, NEW i \in Nat, Chosen(G, t, i), Len(a) <= i, Has(a, G[t], Len(a)),
         NEW w \in Nat, NEW j \in Nat, Chosen(G, w, j), Len(b) <= j, Has(b, G[w], Len(b)),
         t <= w
  PROVE  Begins(a, b) \/ Begins(b, a)
<1>0. G[t] \in Seq(Entry) /\ G[w] \in Seq(Entry)
  BY DEF History, GhostType
<1>1. Len(a) \in Nat /\ Len(b) \in Nat /\ Len(G[w]) \in Nat
  BY <1>0
<1>2. Reigned(G, w)
  BY <1>1 DEF Chosen, Own, Reigned, Showed
<1>3. Has(G[w], G[t], i)
  BY <1>2, ChosenHas
<1>4. Has(G[w], G[t], Len(a))
  BY <1>0, <1>1, <1>3, HasLess
<1>5. \A x \in 1 .. Len(a) : a[x] = G[w][x]
  BY <1>4 DEF Has
<1>6. \A x \in 1 .. Len(b) : b[x] = G[w][x]
  BY DEF Has
<1>7. CASE Len(a) <= Len(b)
  <2>1. \A x \in 1 .. Len(a) : x \in 1 .. Len(b)
    BY <1>1, <1>7
  <2> QED
    BY <1>5, <1>6, <1>7, <2>1 DEF Begins
<1>8. CASE Len(b) <= Len(a)
  <2>1. \A x \in 1 .. Len(b) : x \in 1 .. Len(a)
    BY <1>1, <1>8
  <2> QED
    BY <1>5, <1>6, <1>8, <2>1 DEF Begins
<1> QED
  BY <1>1, <1>7, <1>8

(* Hence no two servers have applied different entries.                    *)
LEMMA SafeApplied ==
  ASSUME TInv, PInv
  PROVE  StateMachineSafety
<1>1. PICK G \in [Nat -> Seq(Entry)] : History(G) /\ CInv(G) /\ AInv(G)
  BY DEF PInv
<1> SUFFICES ASSUME NEW n \in Server, NEW p \in Server
             PROVE  IsPrefix(applied[n], applied[p]) \/ IsPrefix(applied[p], applied[n])
  BY DEF StateMachineSafety
<1>2. PICK a \in Seq(Entry), b \in Seq(Entry), u \in Nat, v \in Nat :
        /\ a = applied[n] /\ u = current_term[n]
        /\ b = applied[p] /\ v = current_term[p]
  BY DEF TInv, TypeOK
<1>3. SettledTo(G, a, Len(a), u) /\ SettledTo(G, b, Len(b), v)
  BY <1>1, <1>2 DEF AInv, Settled
<1>4. Begins(a, b) \/ Begins(b, a)
  <2>0. Len(a) \in Nat /\ Len(b) \in Nat
    OBVIOUS
  <2>1. CASE Len(a) = 0
    BY <2>0, <2>1 DEF Begins
  <2>3. CASE Len(b) = 0
    BY <2>0, <2>3 DEF Begins
  <2>2. CASE Len(a) # 0 /\ Len(b) # 0
    <3>1. PICK t \in Nat, i \in Nat :
            Chosen(G, t, i) /\ Len(a) <= i /\ Has(a, G[t], Len(a))
      BY <1>3, <2>2 DEF SettledTo
    <3>2. PICK w \in Nat, j \in Nat :
            Chosen(G, w, j) /\ Len(b) <= j /\ Has(b, G[w], Len(b))
      BY <1>3, <2>2 DEF SettledTo
    <3>3. CASE t <= w
      BY <1>1, <3>1, <3>2, <3>3, SettledMeet
    <3>4. CASE w <= t
      BY <1>1, <3>1, <3>2, <3>4, SettledMeet
    <3> QED
      BY <3>3, <3>4
  <2> QED
    BY <2>1, <2>2, <2>3
<1> QED
  BY <1>2, <1>4, BeginsIsPrefix

(* A leader has what was applied up to its term.                           *)
LEMMA LeadersHaveApplied ==
  ASSUME TInv, PInv
  PROVE  LeaderCompleteness
<1>1. PICK G \in [Nat -> Seq(Entry)] : History(G) /\ CInv(G) /\ AInv(G)
  BY DEF PInv
<1> SUFFICES ASSUME NEW n \in Server, NEW p \in Server, role[p] = "leader",
                    current_term[n] <= current_term[p]
             PROVE  IsPrefix(applied[n], log[p])
  BY DEF LeaderCompleteness
<1>2. PICK a \in Seq(Entry), l \in Seq(Entry), u \in Nat, w \in Nat :
        a = applied[n] /\ l = log[p] /\ u = current_term[n] /\ w = current_term[p]
  BY DEF TInv, TypeOK
<1>3. SettledTo(G, a, Len(a), u)
  BY <1>1, <1>2 DEF AInv, Settled
<1>4. Reigned(G, w) /\ G[w] = l
  BY <1>1, <1>2 DEF Reigned, History, LeadersHave, LedNow
<1>5. Has(a, l, Len(a))
  <2>1. u <= w
    BY <1>2
  <2>2. PICK k \in Nat : k = Len(a)
    OBVIOUS
  <2>3. SettledTo(G, a, k, u) /\ k <= Len(a)
    BY <1>3, <2>2
  <2>4. Has(a, G[w], k)
    BY <1>1, <1>4, <2>1, <2>3, SettledHas
  <2> QED
    BY <1>4, <2>2, <2>4
<1>6. Begins(a, l)
  BY <1>5 DEF Has, Begins
<1> QED
  BY <1>2, <1>6, BeginsIsPrefix

(* What was applied, those have that acknowledged it.                      *)
LEMMA MajorityHasApplied ==
  ASSUME TInv, PInv
  PROVE  AppliedIsOnMajority
<1>1. PICK G \in [Nat -> Seq(Entry)] : History(G) /\ CInv(G) /\ AInv(G)
  BY DEF PInv
<1> SUFFICES ASSUME NEW n \in Server
             PROVE  IsMajority({p \in Server : IsPrefix(applied[n], disk[p].log)})
  BY DEF AppliedIsOnMajority
<1>2. PICK a \in Seq(Entry), u \in Nat : a = applied[n] /\ u = current_term[n]
  BY DEF TInv, TypeOK
<1>3. SettledTo(G, a, Len(a), u) /\ Len(a) \in Nat
  BY <1>1, <1>2 DEF AInv, Settled
<1>4. \A p \in Server : disk[p].log \in Seq(Entry)
  BY DEF TInv, TypeOK, HardState
<1>5. PICK A \in SUBSET Server : IsMajority(A) /\ \A p \in A : Begins(a, disk[p].log)
  <2>1. CASE Len(a) = 0
    <3>1. IsMajority(Server)
      <4>1. Cardinality(Server) \in Nat /\ Cardinality(Server) # 0
        BY ServerAssumption, FS_CardinalityType, FS_EmptySet
      <4>2. \A c \in Nat : c # 0 => c >= c \div 2 + 1
        OBVIOUS
      <4> QED
        BY <4>1, <4>2 DEF IsMajority
    <3>2. ASSUME NEW p \in Server PROVE Begins(a, disk[p].log)
      <4>1. PICK d \in Seq(Entry) : d = disk[p].log
        BY <1>4
      <4>2. Len(d) \in Nat
        OBVIOUS
      <4> QED
        BY <2>1, <4>1, <4>2 DEF Begins
    <3> QED
      BY <3>1, <3>2
  <2>2. CASE Len(a) # 0
    <3>1. PICK t \in Nat, i \in Nat :
            Chosen(G, t, i) /\ Len(a) <= i /\ Has(a, G[t], Len(a))
      BY <1>3, <2>2 DEF SettledTo
    <3>2. PICK A \in SUBSET Server : IsMajority(A) /\ \A x \in A : Acked(x, t, i)
      BY <3>1 DEF Chosen
    <3>3. ASSUME NEW p \in A PROVE Begins(a, disk[p].log)
      <4>1. p \in Server /\ Acked(p, t, i) /\ G[t] \in Seq(Entry)
        BY <1>1, <3>2
      <4>2. Has(disk[p].log, G[t], i)
        BY <1>1, <3>1, <4>1, ChosenOnDisk
      <4>3. Has(disk[p].log, G[t], Len(a))
        BY <1>3, <1>4, <3>1, <4>1, <4>2, HasLess
      <4>4. Has(a, disk[p].log, Len(a))
        BY <3>1, <4>3, HasBoth, HasThrough
      <4> QED
        BY <4>4 DEF Has, Begins
    <3> QED
      BY <3>2, <3>3
  <2> QED
    BY <2>1, <2>2
<1> DEFINE B == {p \in Server : IsPrefix(applied[n], disk[p].log)}
<1>6. A \subseteq B
  BY <1>2, <1>4, <1>5, BeginsIsPrefix
<1>7. IsMajority(B)
  <2>1. IsFiniteSet(B) /\ IsFiniteSet(Server)
    BY ServerAssumption, FS_Subset
  <2>2. Cardinality(A) <= Cardinality(B) /\ IsFiniteSet(A)
    BY <1>6, <2>1, FS_Subset
  <2>3. Cardinality(A) \in Nat /\ Cardinality(B) \in Nat /\ Cardinality(Server) \in Nat
    BY <2>1, <2>2, FS_CardinalityType
  <2> HIDE DEF B
  <2> QED
    BY <1>5, <2>2, <2>3 DEF IsMajority
<1> QED
  BY <1>7

(* What a leader believes was acknowledged, so it is on the disk.          *)
LEMMA BelievedIsDurable ==
  ASSUME TInv, PInv
  PROVE  MatchIndexIsDurable
<1>1. PICK G \in [Nat -> Seq(Entry)] : History(G) /\ CInv(G) /\ AInv(G)
  BY DEF PInv
<1> SUFFICES ASSUME NEW n \in Server, role[n] = "leader", NEW p \in Peers(n),
                    \A m \in msgs : ~(IsAppend(m) /\ m.to = p /\ m.term > current_term[n])
             PROVE  IsPrefix(SubSeq(log[n], 1, match_index[n][p]), disk[p].log)
  BY DEF MatchIndexIsDurable, IsAppend
<1>2. p \in Server
  BY DEF Peers
<1>a. /\ log[n] \in Seq(Entry) /\ disk[p].log \in Seq(Entry) /\ current_term[n] \in Nat
      /\ match_index[n] \in [Server -> Nat]
  BY <1>2 DEF TInv, TypeOK, HardState
<1>b. match_index[n][p] \in Nat
  BY <1>2, <1>a
<1>3. PICK l \in Seq(Entry), d \in Seq(Entry), t \in Nat, k \in Nat :
        /\ l = log[n] /\ t = current_term[n] /\ d = disk[p].log
        /\ k = match_index[n][p]
  BY <1>a, <1>b
<1>4. k <= Len(l) /\ Len(l) \in Nat
  <2>1. match_index[n][p] <= LastIndex(log[n])
    BY <1>2 DEF TInv, NextInRange
  <2> QED
    BY <1>3, <2>1 DEF LastIndex
<1>5. G[t] = l /\ Told(n, p, k)
  BY <1>1, <1>3 DEF AInv, Believes, History, LeadersHave, LedNow
<1>6. Has(d, l, k)
  <2>1. CASE k = 0
    BY <1>4, <2>1 DEF Has
  <2>2. CASE k # 0
    <3>0. k \in 1 .. Len(l)
      BY <1>4, <2>2
    <3>1. Acked(p, t, k)
      BY <1>3, <1>5, <2>2 DEF Told, Acked
    <3>2. Has(d, l, k) \/ Lost(G, p, t, k)
      BY <1>1, <1>2, <1>3, <1>5, <3>0, <3>1 DEF CInv, AcksHeld
    <3> QED
      BY <1>3, <3>2 DEF Lost
  <2> QED
    BY <2>1, <2>2
<1>7. PICK b \in Seq(Entry) :
        b = SubSeq(l, 1, k) /\ Len(b) = k /\ \A j \in 1 .. k : b[j] = l[j]
  <2>1. k \in 0 .. Len(l)
    BY <1>4
  <2>2. /\ Len(SubSeq(l, 1, k)) = k
        /\ \A j \in 1 .. k : SubSeq(l, 1, k)[j] = l[j]
    BY ONLY l \in Seq(Entry), <2>1
  <2>3. SubSeq(l, 1, k) \in Seq(Entry)
    BY ONLY l \in Seq(Entry), <2>1
  <2> QED
    BY <2>2, <2>3
<1>8. Begins(b, d)
  BY <1>6, <1>7 DEF Has, Begins
<1>9. IsPrefix(b, d)
  BY <1>8, BeginsIsPrefix
<1> QED
  BY <1>3, <1>7, <1>9

(* A server that stays up never takes back a commit.                       *)
CommitsMoveOn == \A n \in Server : running'[n] => commit_index[n] <= commit_index'[n]

(* A commit index is raised to a greater one, or the server dies.          *)
LEMMA CommitStep ==
  ASSUME TInv, NEW n \in Server, StepOf(n), NEW G, History(G), AInv(G)
  PROVE  CommitsMoveOn
<1>0. \A p \in Server : commit_index[p] \in Nat
  BY DEF TInv, TypeOK
<1>1. CASE UNCHANGED commit_index
  BY <1>0, <1>1 DEF CommitsMoveOn
<1>2. ASSUME NEW d, Die(n, d) PROVE CommitsMoveOn
  <2>1. /\ ~running'[n]
        /\ \A p \in Server : p # n => commit_index'[p] = commit_index[p]
    BY <1>2 DEF Die, TInv, TypeOK
  <2> QED
    BY <1>0, <2>1 DEF CommitsMoveOn
<1>3. ASSUME NEW lg, NEW debts, NEW c \in Nat, c >= commit_index[n],
             ApplyCommitted(n, lg, debts, c)
      PROVE  CommitsMoveOn
  <2>1. /\ commit_index'[n] = c
        /\ \A p \in Server : p # n => commit_index'[p] = commit_index[p]
    BY <1>3 DEF ApplyCommitted, TInv, TypeOK
  <2> QED
    BY <1>0, <1>3, <2>1 DEF CommitsMoveOn
<1>4. ASSUME NEW lg, NEW debts, NEW match, NEW c \in Reach(n, lg, match),
             LastIndex(lg) \in Nat, ApplyCommitted(n, lg, debts, c)
      PROVE  CommitsMoveOn
  <2>1. c \in Nat /\ c >= commit_index[n]
    BY <1>0, <1>4 DEF Reach, Committable
  <2> QED
    BY <1>3, <1>4, <2>1
<1>5. ASSUME NEW m \in msgs, TakeEntries(n, m) PROVE CommitsMoveOn
  <2>1. ApplyCommitted(n, log'[n], pending_clients[n], CommitAfter(n, m)) /\ IsAppend(m)
    BY <1>5 DEF TakeEntries, HearLeader, Receives, IsAppend
  <2>2. /\ m.prev_log_index \in Nat /\ m.entries \in Seq(Entry) /\ m.leader_commit \in Nat
        /\ m.leader_commit <= m.prev_log_index + Len(m.entries)
    BY <2>1, MessageFields DEF AInv, CommitSettled, LastNew, IsAppend, TInv, TypeOK
  <2>3. CommitAfter(n, m) \in Nat /\ CommitAfter(n, m) >= commit_index[n]
    BY <1>0, <2>2 DEF CommitAfter, Smaller
  <2> QED
    BY <1>3, <2>1, <2>3
<1>6. ASSUME NEW m \in msgs, OnAppendSuccess(n, m) PROVE CommitsMoveOn
  <2>1. log[n] \in Seq(Entry)
    BY DEF TInv, TypeOK
  <2>2. LastIndex(log[n]) \in Nat
    BY <2>1 DEF LastIndex
  <2> QED
    BY <1>4, <1>6, <2>2 DEF OnAppendSuccess
<1>7. ASSUME NEW r \in Request, OnClientRequest(n, r) PROVE CommitsMoveOn
  <2>1. Longer(n, r) \in Seq(Entry)
    <3>1. log[n] \in Seq(Entry) /\ [term |-> current_term[n], request_id |-> r] \in Entry
      BY DEF TInv, TypeOK, Entry
    <3> QED
      BY <3>1 DEF Longer
  <2>2. LastIndex(Longer(n, r)) \in Nat
    BY <2>1 DEF LastIndex
  <2>3. \E debts : \E c \in Reach(n, Longer(n, r), match_index[n]) :
          ApplyCommitted(n, Longer(n, r), debts, c)
    BY <1>7 DEF OnClientRequest, Longer
  <2> QED
    BY <1>4, <2>2, <2>3
<1>8. ASSUME NEW m \in msgs, OnMessage(n, m) PROVE CommitsMoveOn
  <2>1. CASE \/ OnRequestVote(n, m) \/ CountVote(n, m) \/ WinElection(n, m)
             \/ VoteReplyFromNewerTerm(n, m) \/ AppendReplyFromNewerTerm(n, m)
             \/ RefuseStaleLeader(n, m) \/ RefuseGap(n, m) \/ OnAppendFailure(n, m)
    <3>1. UNCHANGED commit_index
      BY <2>1 DEF OnRequestVote, CountVote, WinElection, VoteReplyFromNewerTerm,
         AppendReplyFromNewerTerm, StepDown, RefuseStaleLeader, RefuseGap, OnAppendFailure,
         commitVars
    <3> QED
      BY <1>1, <3>1
  <2>2. CASE DiskErrorOnMessage(n, m)
    BY <1>2, <2>2 DEF DiskErrorOnMessage
  <2> QED
    BY <1>5, <1>6, <1>8, <2>1, <2>2 DEF OnMessage
<1>9. CASE ElectionTimeout(n) \/ FireHeartbeat(n) \/ Restart(n)
  <2>1. UNCHANGED commit_index
    BY <1>9 DEF ElectionTimeout, Campaign, FireHeartbeat, Restart, commitVars
  <2> QED
    BY <1>1, <2>1
<1>10. CASE DiskErrorOnTimeout(n) \/ Crash(n)
  BY <1>2, <1>10 DEF DiskErrorOnTimeout, Crash
<1>11. ASSUME NEW r \in Request, DiskErrorOnRequest(n, r) PROVE CommitsMoveOn
  BY <1>2, <1>11 DEF DiskErrorOnRequest
<1> QED
  BY <1>7, <1>8, <1>9, <1>10, <1>11 DEF StepOf, Step, OnRequest

-----------------------------------------------------------------------------
(* No two servers ever apply different entries at one index, however many  *)
(* crash, lose a write or come back, and whatever the network does.        *)
THEOREM StateMachinesAgree == Spec => []StateMachineSafety
<1>1. TInv /\ PInv => StateMachineSafety
  BY SafeApplied
<1> QED
  BY <1>1, PInvHolds, PTL

(* A leader's log has every entry that was applied before its term or in   *)
(* it.                                                                     *)
THEOREM LeadersComplete == Spec => []LeaderCompleteness
<1>1. TInv /\ PInv => LeaderCompleteness
  BY LeadersHaveApplied
<1> QED
  BY <1>1, PInvHolds, PTL

(* What a server has applied is at every moment on the disks of a          *)
(* majority: no crash and no torn write loses it.                          *)
THEOREM AppliedSurvives == Spec => []AppliedIsOnMajority
<1>1. TInv /\ PInv => AppliedIsOnMajority
  BY MajorityHasApplied
<1> QED
  BY <1>1, PInvHolds, PTL

(* No AppendEntries, however late, cuts an applied entry from a log.       *)
THEOREM AppliedStaysInLog == Spec => []AppliedInLog
<1>1. ASSUME TInv, PInv PROVE AppliedInLog
  <2>1. \A n \in Server : Begins(applied[n], log[n])
    BY <1>1 DEF PInv, AInv, HasApplied
  <2>2. \A n \in Server : applied[n] \in Seq(Entry) /\ log[n] \in Seq(Entry)
    BY <1>1 DEF TInv, TypeOK
  <2> QED
    BY <2>1, <2>2, BeginsIsPrefix DEF AppliedInLog
<1> QED
  BY <1>1, PInvHolds, PTL

(* What a leader believes of a follower is on the follower's disk, until a *)
(* later leader has spoken to it.                                          *)
THEOREM AcknowledgedIsDurable == Spec => []MatchIndexIsDurable
<1>1. TInv /\ PInv => MatchIndexIsDurable
  BY BelievedIsDurable
<1> QED
  BY <1>1, PInvHolds, PTL

(* A server that stays up never takes back a commit.                       *)
THEOREM CommitsNeverRetreat == Spec => CommitMonotonic
<1>1. ASSUME TInv, EInv, TInv', EInv', PInv, [Next]_vars
      PROVE  [CommitsMoveOn]_vars
  <2>1. PICK G \in [Nat -> Seq(Entry)] : History(G) /\ CInv(G) /\ AInv(G)
    BY <1>1 DEF PInv
  <2>2. CASE Next
    <3>1. PICK n \in Server : StepOf(n)
      BY <2>2 DEF Next, StepOf
    <3> QED
      BY <1>1, <2>1, <3>1, CommitStep
  <2> QED
    BY <1>1, <2>2
<1>2. TInv /\ EInv /\ PInv /\ TInv' /\ EInv' /\ [Next]_vars => [CommitsMoveOn]_vars
  BY <1>1
<1>3. [](TInv /\ EInv /\ PInv) /\ [][Next]_vars => [][CommitsMoveOn]_vars
  BY <1>2, PTL
<1>4. [][CommitsMoveOn]_vars => CommitMonotonic
  BY PTL DEF CommitMonotonic, CommitsMoveOn
<1> QED
  BY <1>3, <1>4, PInvHolds, PTL DEF Spec
=============================================================================
