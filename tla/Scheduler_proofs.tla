-------------------------- MODULE Scheduler_proofs --------------------------
(***************************************************************************)
(* Safety of the schedule runner for every number of schedules, workers and *)
(* manual runs.  The inductive invariant says that one thread at a time is  *)
(* in the claim window, and that what is due has not been claimed: neither   *)
(* the schedules that is_due would find due, nor the one for which a worker *)
(* has just found it.                                                      *)
(***************************************************************************)
EXTENDS Scheduler, Induct_proofs, SequenceTheorems

Distinct(q) == \A a, b \in 1..Len(q) : q[a] = q[b] => a = b

(* The tables. *)
Tables ==
  /\ row \in [Sched -> Row]
  /\ late \in Seq(Sched) /\ Distinct(late)
  /\ \A i \in 1..Len(late) : Live(late[i])
  /\ feed \subseteq Sched /\ deleting \subseteq Sched /\ claimed \subseteq Sched

(* The process.  A thread that runs a schedule has one. *)
Process ==
  /\ session \in 0..MaxSession /\ unlocks \in 0..MaxSession
  /\ tick \in Tick /\ Len(tick.queue) <= MaxPerTick
  /\ job \in [Thread -> Job]
  /\ \A j \in Thread : job[j].at # "idle" => job[j].sched \in Sched

Breaker ==
  /\ fails \in 0..TripAfter /\ open \in BOOLEAN /\ (open => fails = TripAfter)

TypeInv == Tables /\ Process /\ Breaker

InWindow(j) == job[j].at \in Window

(* _RUN_LOCK. *)
Exclusive == \A j, k \in Thread : InWindow(j) /\ InWindow(k) => j = k

(* A due schedule has not been claimed since it became due; nor has the one *)
(* a worker is about to claim.                                             *)
DueUnclaimed == \A s \in Sched : IsDue(s) => s \notin claimed
FoundUnclaimed == \A w \in Worker : job[w].at = "marking" => job[w].sched \notin claimed

ClaimInv == Exclusive /\ DueUnclaimed /\ FoundUnclaimed

-----------------------------------------------------------------------------
(* The next_run order. *)

(* The elements of a sequence are those at its positions. *)
LEMMA ToSetFacts ==
  ASSUME NEW S, NEW q \in Seq(S)
  PROVE  /\ \A i \in 1..Len(q) : q[i] \in ToSet(q) /\ q[i] \in S
         /\ \A x : x \in ToSet(q) <=> \E i \in 1..Len(q) : q[i] = x
         /\ IsInjective(q) <=> Distinct(q)
<1>1. DOMAIN q = 1..Len(q) /\ \A i \in 1..Len(q) : q[i] \in S
  OBVIOUS
<1>2. QED
  BY <1>1 DEF ToSet, IsInjective, Distinct

(* Taking out what is at a position. *)
LEMMA RemoveAtFacts ==
  ASSUME NEW S, NEW q \in Seq(S), NEW m \in 1..Len(q)
  PROVE  /\ RemoveAt(q, m) \in Seq(S) /\ Len(RemoveAt(q, m)) = Len(q) - 1
         /\ \A i \in 1..Len(RemoveAt(q, m)) :
              RemoveAt(q, m)[i] = IF i < m THEN q[i] ELSE q[i + 1]
<1> DEFINE front == SubSeq(q, 1, m - 1)
           back == SubSeq(q, m + 1, Len(q))
           r == front \o back
<1>1. Len(q) \in Nat /\ m \in 1..Len(q) /\ \A i \in 1..Len(q) : q[i] \in S
  OBVIOUS
<1>2. /\ front \in Seq(S) /\ Len(front) = m - 1
      /\ \A i \in 1..m - 1 : front[i] = q[i]
  <2>1. \A i \in 1..m - 1 : q[i] \in S
    BY <1>1
  <2>2. front = [i \in 1..m - 1 |-> q[i]]
    BY <1>1, <2>1, SubSeqProperties
  <2>3. QED
    BY <1>1, <2>1, <2>2, IsASeq
<1>3. /\ back \in Seq(S) /\ Len(back) = Len(q) - m
      /\ \A i \in 1..Len(q) - m : back[i] = q[m + i]
  <2>1. \A i \in 1..Len(q) - m : m + i \in 1..Len(q) /\ q[m + i] \in S
    BY <1>1
  <2>2. back = [i \in 1..Len(q) - m |-> q[m + i]]
    BY <1>1, <2>1, SubSeqProperties
  <2>3. QED
    BY <1>1, <2>1, <2>2, IsASeq
<1>4. RemoveAt(q, m) = r
  BY DEF RemoveAt
<1> HIDE DEF front, back
<1>5. /\ r \in Seq(S) /\ Len(r) = Len(q) - 1
      /\ \A i \in 1..Len(q) - 1 : r[i] = IF i <= m - 1 THEN front[i] ELSE back[i - (m - 1)]
  <2>1. /\ r \in Seq(S) /\ Len(r) = Len(front) + Len(back)
        /\ \A i \in 1..Len(front) + Len(back) :
             r[i] = IF i <= Len(front) THEN front[i] ELSE back[i - Len(front)]
    <3>1. front \in Seq(S) /\ back \in Seq(S)
      BY <1>2, <1>3
    <3>2. QED
      BY <3>1, ConcatProperties
  <2>2. Len(front) + Len(back) = Len(q) - 1
    BY <1>1, <1>2, <1>3
  <2>3. QED
    BY <1>2, <2>1, <2>2
<1>6. \A i \in 1..Len(q) - 1 : /\ i <= m - 1 => i \in 1..m - 1
                              /\ i <= m - 1 <=> i < m
                              /\ ~(i <= m - 1) => /\ i - (m - 1) \in 1..Len(q) - m
                                                  /\ m + (i - (m - 1)) = i + 1
  BY <1>1
<1> HIDE DEF r
<1>7. \A i \in 1..Len(q) - 1 : r[i] = IF i < m THEN q[i] ELSE q[i + 1]
  <2>1. TAKE i \in 1..Len(q) - 1
  <2>2. CASE i < m
    BY <1>2, <1>5, <1>6, <2>2
  <2>3. CASE ~(i < m)
    <3>1. r[i] = back[i - (m - 1)]
      BY <1>5, <1>6, <2>3
    <3>2. back[i - (m - 1)] = q[m + (i - (m - 1))]
      BY <1>3, <1>6, <2>3
    <3>3. QED
      BY <1>6, <2>3, <3>1, <3>2
  <2>4. QED
    BY <2>2, <2>3
<1>8. QED
  BY <1>4, <1>5, <1>7

(* Taking an element out of a sequence without repetitions. *)
LEMMA RemoveFacts ==
  ASSUME NEW S, NEW q \in Seq(S), Distinct(q), NEW e
  PROVE  /\ RemoveFirst(q, e) \in Seq(S)
         /\ Distinct(RemoveFirst(q, e))
         /\ \A x : x \in ToSet(RemoveFirst(q, e)) <=> x \in ToSet(q) /\ x # e
<1>1. CASE \E i \in 1..Len(q) : q[i] = e
  <2> DEFINE I == {i \in 1..Len(q) : q[i] = e}
             m == Min(I)
             r == SubSeq(q, 1, m - 1) \o SubSeq(q, m + 1, Len(q))
  <2>1. PICK m0 \in I : \A k \in I : m0 <= k
    <3>1. I \subseteq Nat /\ I # {}
      BY <1>1
    <3>2. QED
      BY <3>1, LeastNumber
  <2>2. m \in I
    BY <2>1 DEF Min
  <2>3. RemoveFirst(q, e) = r
    BY <1>1 DEF RemoveFirst, RemoveAt, SelectInSeq
  <2> HIDE DEF m
  <2>4. m \in 1..Len(q) /\ q[m] = e
    BY <2>2
  <2>5. /\ r \in Seq(S) /\ Len(r) = Len(q) - 1
        /\ \A i \in 1..Len(r) : r[i] = IF i < m THEN q[i] ELSE q[i + 1]
    BY <2>4, RemoveAtFacts DEF RemoveAt
  <2> HIDE DEF r
  <2>6. Distinct(r)
    <3>1. SUFFICES ASSUME NEW a \in 1..Len(r), NEW b \in 1..Len(r), r[a] = r[b] PROVE a = b
      BY DEF Distinct
    <3> DEFINE up(i) == IF i < m THEN i ELSE i + 1
    <3>2. \A i \in 1..Len(r) : up(i) \in 1..Len(q) /\ r[i] = q[up(i)]
      BY <2>4, <2>5
    <3>3. up(a) = up(b)
      <4> HIDE DEF up
      <4>1. QED
        BY <3>1, <3>2 DEF Distinct
    <3>4. QED
      BY <2>4, <2>5, <3>3
  <2>7. \A x : x \in ToSet(r) <=> x \in ToSet(q) /\ x # e
    <3>1. ASSUME NEW i \in 1..Len(r) PROVE r[i] \in ToSet(q) /\ r[i] # e
      <4>1. CASE i < m
        <5>1. i \in 1..Len(q) /\ i # m /\ r[i] = q[i]
          BY <2>4, <2>5, <4>1
        <5>2. QED
          BY <2>4, <5>1, ToSetFacts DEF Distinct
      <4>2. CASE ~(i < m)
        <5>1. i + 1 \in 1..Len(q) /\ i + 1 # m /\ r[i] = q[i + 1]
          BY <2>4, <2>5, <4>2
        <5>2. QED
          BY <2>4, <5>1, ToSetFacts DEF Distinct
      <4>3. QED
        BY <4>1, <4>2
    <3>2. ASSUME NEW i \in 1..Len(q), q[i] # e PROVE \E k \in 1..Len(r) : r[k] = q[i]
      <4>1. CASE i < m
        <5>1. i \in 1..Len(r) /\ r[i] = q[i]
          BY <2>4, <2>5, <4>1
        <5>2. QED
          BY <5>1
      <4>2. CASE ~(i < m)
        <5>1. i - 1 \in 1..Len(r) /\ ~(i - 1 < m) /\ i - 1 + 1 = i
          BY <2>4, <2>5, <3>2, <4>2
        <5>2. r[i - 1] = q[i]
          BY <2>5, <5>1
        <5>3. QED
          BY <5>1, <5>2
      <4>3. QED
        BY <4>1, <4>2
    <3>3. \A x : x \in ToSet(r) <=> \E i \in 1..Len(r) : r[i] = x
      BY <2>5, ToSetFacts
    <3>4. \A x : x \in ToSet(q) <=> \E i \in 1..Len(q) : q[i] = x
      BY ToSetFacts
    <3>5. QED
      BY <3>1, <3>2, <3>3, <3>4
  <2>8. QED
    BY <2>3, <2>5, <2>6, <2>7
<1>2. CASE ~ \E i \in 1..Len(q) : q[i] = e
  <2>1. RemoveFirst(q, e) = q
    BY <1>2 DEF RemoveFirst
  <2>2. e \notin ToSet(q)
    BY <1>2, ToSetFacts
  <2>3. QED
    BY <2>1, <2>2
<1>3. QED
  BY <1>1, <1>2

(* Appending a new one. *)
LEMMA AppendFacts ==
  ASSUME NEW S, NEW q \in Seq(S), Distinct(q), NEW e \in S, e \notin ToSet(q)
  PROVE  /\ Append(q, e) \in Seq(S)
         /\ Distinct(Append(q, e))
         /\ \A x : x \in ToSet(Append(q, e)) <=> x \in ToSet(q) \/ x = e
<1> DEFINE r == Append(q, e)
<1>1. /\ r \in Seq(S) /\ Len(r) = Len(q) + 1 /\ r[Len(q) + 1] = e
      /\ \A i \in 1..Len(q) : r[i] = q[i]
  OBVIOUS
<1>2. \A i \in 1..Len(q) : q[i] # e
  BY ToSetFacts
<1> HIDE DEF r
<1>3. Distinct(r)
  BY <1>1, <1>2 DEF Distinct
<1>4. \A x : x \in ToSet(r) <=> x \in ToSet(q) \/ x = e
  <2>1. \A x : x \in ToSet(r) <=> \E i \in 1..Len(r) : r[i] = x
    BY <1>1, ToSetFacts
  <2>2. \A x : x \in ToSet(q) <=> \E i \in 1..Len(q) : q[i] = x
    BY ToSetFacts
  <2>3. \A i \in 1..Len(r) : i \in 1..Len(q) \/ i = Len(q) + 1
    BY <1>1
  <2>4. Len(q) + 1 \in 1..Len(r) /\ \A i \in 1..Len(q) : i \in 1..Len(r)
    BY <1>1
  <2>5. QED
    BY <1>1, <2>1, <2>2, <2>3, <2>4
<1>5. QED
  BY <1>1, <1>3, <1>4 DEF r

(* What due_schedules returns: schedules, _MAX_PER_TICK at most. *)
LEMMA DueType ==
  ASSUME late \in Seq(Sched)
  PROVE  DueSchedules \in Seq(Sched) /\ Len(DueSchedules) <= MaxPerTick
<1> DEFINE n == Len(late)
           step == [p \in (1..n) \X Seq(Sched) |->
                      IF row[late[p[1]]].enabled THEN Append(p[2], late[p[1]]) ELSE p[2]]
           Own(f) == [i \in 0..n |->
                        IF i = 0 THEN <<>>
                        ELSE IF row[late[i]].enabled THEN Append(f[i - 1], late[i])
                        ELSE f[i - 1]]
<1>1. n \in Nat /\ <<>> \in Seq(Sched)
  OBVIOUS
<1>2. step \in [(1..n) \X Seq(Sched) -> Seq(Sched)]
  <2>1. ASSUME NEW p \in (1..n) \X Seq(Sched) PROVE step[p] \in Seq(Sched)
    <3>1. late[p[1]] \in Sched /\ p[2] \in Seq(Sched)
      BY <2>1
    <3>2. Append(p[2], late[p[1]]) \in Seq(Sched)
      BY <3>1
    <3>3. QED
      BY <3>1, <3>2
  <2>2. QED
    BY <2>1
<1>3. PICK f \in [0..n -> Seq(Sched)] : Recursion(f, n, <<>>, step)
  <2> HIDE DEF step, n
  <2>1. QED
    BY <1>1, <1>2, RecursionExists
<1>4. ASSUME NEW g, \A i \in 0..n : g[i] \in Seq(Sched)
      PROVE  \A i \in 0..n : i # 0 =>
               step[<<i, g[i - 1]>>] = IF row[late[i]].enabled THEN Append(g[i - 1], late[i])
                                       ELSE g[i - 1]
  <2>1. TAKE i \in 0..n
  <2>2. HAVE i # 0
  <2>3. i \in 1..n /\ i - 1 \in 0..n
    BY <1>1, <2>2
  <2>4. g[i - 1] \in Seq(Sched)
    BY <1>4, <2>3
  <2>5. QED
    BY <2>3, <2>4
<1>5. f = Own(f)
  <2>1. \A i \in 0..n : f[i] = IF i = 0 THEN <<>> ELSE step[<<i, f[i - 1]>>]
    BY <1>3 DEF Recursion
  <2>2. \A i \in 0..n : f[i] \in Seq(Sched)
    OBVIOUS
  <2>3. \A i \in 0..n : f[i] = Own(f)[i]
    <3> HIDE DEF step
    <3>1. QED
      BY <1>4, <2>1, <2>2
  <2>4. QED
    BY <2>3
<1>6. EnabledOfFirst = Own(EnabledOfFirst)
  BY <1>5 DEF EnabledOfFirst
<1> DEFINE T == {i \in 0..n : EnabledOfFirst[i] \notin Seq(Sched)}
<1>7. T = {}
  <2>1. SUFFICES ASSUME T # {} PROVE FALSE
    OBVIOUS
  <2>2. T \subseteq Nat
    BY <1>1
  <2>3. PICK m \in T : \A k \in T : m <= k
    BY <2>1, <2>2, LeastNumber
  <2>4. m # 0 /\ m \in 0..n
    BY <1>1, <1>6, <2>3
  <2>5. m - 1 \in 0..n /\ m - 1 \notin T /\ m \in 1..n
    BY <1>1, <2>3, <2>4
  <2>6. EnabledOfFirst[m - 1] \in Seq(Sched) /\ late[m] \in Sched
    BY <2>5
  <2>7. EnabledOfFirst[m] = IF row[late[m]].enabled THEN Append(EnabledOfFirst[m - 1], late[m])
                            ELSE EnabledOfFirst[m - 1]
    BY <1>6, <2>4
  <2>8. Append(EnabledOfFirst[m - 1], late[m]) \in Seq(Sched)
    BY <2>6
  <2>9. QED
    BY <2>3, <2>6, <2>7, <2>8
<1>8. EnabledOfFirst[n] \in Seq(Sched)
  BY <1>1, <1>7
<1> DEFINE due == EnabledOfFirst[n]
           u == IF Len(due) < MaxPerTick THEN Len(due) ELSE MaxPerTick
<1>9. DueSchedules = SubSeq(due, 1, u)
  BY DEF DueSchedules, FirstOf
<1> HIDE DEF due
<1>10. due \in Seq(Sched) /\ u \in 0..Len(due) /\ u <= MaxPerTick
  BY <1>8, SchedulerAssumption DEF due
<1>11. SubSeq(due, 1, u) \in Seq(Sched) /\ Len(SubSeq(due, 1, u)) = u
  <2> HIDE DEF u
  <2>1. QED
    BY <1>10
<1>12. QED
  BY <1>9, <1>10, <1>11

-----------------------------------------------------------------------------
(* What becomes of the call of a thread. *)

JobsInv ==
  /\ job \in [Thread -> Job]
  /\ \A j \in Thread : job[j].at # "idle" => job[j].sched \in Sched

Others(j) == \A k \in Thread : k # j => job'[k] = job[k]

LEMMA IdleJobType == IdleJob \in Job /\ IdleJob.at = "idle"
  BY SchedulerAssumption DEF IdleJob, Job

LEMMA JobFacts ==
  ASSUME JobsInv, NEW j \in Thread, NEW new \in Job, new.at # "idle" => new.sched \in Sched,
         job' = [job EXCEPT ![j] = new]
  PROVE  JobsInv' /\ job'[j] = new /\ Others(j)
<1>1. job' \in [Thread -> Job] /\ job'[j] = new /\ Others(j)
  BY DEF JobsInv, Others
<1>2. \A k \in Thread : job'[k].at # "idle" => job'[k].sched \in Sched
  BY <1>1 DEF JobsInv, Others
<1>3. QED
  BY <1>1, <1>2 DEF JobsInv

LEMMA DropFacts ==
  ASSUME JobsInv, NEW j \in Thread, Drop(j)
  PROVE  JobsInv' /\ job'[j].at = "idle" /\ Others(j)
BY IdleJobType, JobFacts DEF Drop

LEMMA GotoFacts ==
  ASSUME JobsInv, NEW j \in Thread, job[j].at # "idle", Goto(j, "reading") \/ Goto(j, "marking")
           \/ Goto(j, "claimed") \/ Goto(j, "turn") \/ Goto(j, "recording")
  PROVE  /\ JobsInv' /\ Others(j)
         /\ job'[j].sched = job[j].sched
         /\ \A p \in {"reading", "marking", "claimed", "turn", "recording"} :
              Goto(j, p) => job'[j].at = p
<1>1. ASSUME NEW p \in {"reading", "marking", "claimed", "turn", "recording"}, Goto(j, p)
      PROVE  JobsInv' /\ Others(j) /\ job'[j].sched = job[j].sched /\ job'[j].at = p
  <2> DEFINE new == [job[j] EXCEPT !.at = p]
  <2>1. job[j] \in Job /\ job[j].sched \in Sched
    BY DEF JobsInv
  <2>2. new \in Job /\ new.at = p /\ new.sched = job[j].sched
    BY <2>1 DEF Job
  <2>3. job' = [job EXCEPT ![j] = new]
    BY <1>1 DEF Goto
  <2> HIDE DEF new
  <2>4. QED
    BY <2>1, <2>2, <2>3, JobFacts
<1>2. QED
  BY <1>1

LEMMA TakeFacts ==
  ASSUME TypeInv, NEW w \in Worker, TakeJob(w)
  PROVE  /\ JobsInv' /\ Others(w) /\ job'[w].at = "entering"
         /\ tick' \in Tick /\ Len(tick'.queue) <= MaxPerTick
<1> DEFINE new == [IdleJob EXCEPT !.at = "entering", !.sess = tick.sess,
                                  !.sched = Head(tick.queue)]
<1>1. tick \in Tick /\ tick.queue # <<>> /\ w \in Thread /\ JobsInv
  BY DEF TypeInv, Process, TakeJob, Thread, JobsInv
<1>2. /\ tick.queue \in Seq(Sched) /\ Head(tick.queue) \in Sched
      /\ Tail(tick.queue) \in Seq(Sched) /\ Len(Tail(tick.queue)) = Len(tick.queue) - 1
      /\ Len(tick.queue) \in Nat
  <2>1. tick.queue \in Seq(Sched)
    BY <1>1 DEF Tick
  <2>2. QED
    BY <1>1, <2>1
<1>3. new \in Job /\ new.at = "entering" /\ new.sched \in Sched
  BY <1>1, <1>2 DEF IdleJob, Job, Tick
<1>4. job' = [job EXCEPT ![w] = new]
  BY DEF TakeJob
<1>5. tick' = [tick EXCEPT !.queue = Tail(tick.queue)]
  BY DEF TakeJob
<1>6. tick' \in Tick /\ tick'.queue = Tail(tick.queue)
  BY <1>1, <1>2, <1>5 DEF Tick
<1>7. Len(tick'.queue) <= MaxPerTick
  <2>1. Len(tick.queue) <= MaxPerTick /\ MaxPerTick \in Nat
    BY SchedulerAssumption DEF TypeInv, Process
  <2>2. QED
    BY <1>2, <1>6, <2>1
<1> HIDE DEF new
<1>8. QED
  BY <1>1, <1>3, <1>4, <1>6, <1>7, JobFacts

LEMMA RunNowFacts ==
  ASSUME JobsInv, NEW q \in Caller, NEW s \in Sched, RunNow(q, s)
  PROVE  JobsInv' /\ Others(q) /\ job'[q].at = "opened"
<1> DEFINE new == [IdleJob EXCEPT !.at = "opened", !.sched = s]
<1>1. new \in Job /\ new.at = "opened" /\ new.sched \in Sched
  <2>1. IdleJob \in Job
    BY IdleJobType
  <2>2. QED
    BY <2>1 DEF Job
<1>2. job' = [job EXCEPT ![q] = new] /\ q \in Thread
  BY DEF RunNow, Thread
<1> HIDE DEF new
<1>3. QED
  BY <1>1, <1>2, JobFacts

LEMMA GetStoresFacts ==
  ASSUME JobsInv, session \in 0..MaxSession, NEW q \in Caller, GetStores(q)
  PROVE  JobsInv' /\ Others(q) /\ job'[q].at = "entering"
<1> DEFINE new == [job[q] EXCEPT !.at = "entering", !.sess = session]
<1>1. q \in Thread /\ job[q] \in Job /\ job[q].sched \in Sched
  BY DEF JobsInv, GetStores, Thread
<1>2. new \in Job /\ new.at = "entering" /\ new.sched \in Sched
  BY <1>1 DEF Job
<1>3. job' = [job EXCEPT ![q] = new]
  BY DEF GetStores
<1> HIDE DEF new
<1>4. QED
  BY <1>1, <1>2, <1>3, JobFacts

LEMMA ReadFreshFacts ==
  ASSUME JobsInv, row \in [Sched -> Row], NEW j \in Thread, ReadFresh(j)
  PROVE  /\ JobsInv' /\ Others(j)
         /\ job'[j].at \in {"idle", "checking", "marking"}
         /\ j \in Worker => job'[j].at # "marking"
<1>1. job[j] \in Job /\ job[j].sched \in Sched
  BY DEF JobsInv, ReadFresh
<1>2. CASE Live(job[j].sched)
  <2> DEFINE p == IF j \in Worker THEN "checking" ELSE "marking"
             new == [job[j] EXCEPT !.every = row[job[j].sched].every, !.at = p]
  <2>1. row[job[j].sched].every \in BOOLEAN
    BY <1>1 DEF Row
  <2>2. p \in {"checking", "marking"} /\ (j \in Worker => p # "marking")
    OBVIOUS
  <2>3. job' = [job EXCEPT ![j] = new]
    BY <1>2 DEF ReadFresh
  <2>4. new \in Job /\ new.at = p /\ new.sched = job[j].sched
    BY <1>1, <2>1, <2>2 DEF Job
  <2> HIDE DEF new, p
  <2>5. QED
    BY <1>1, <2>2, <2>3, <2>4, JobFacts
<1>3. CASE ~Live(job[j].sched)
  BY <1>3, DropFacts DEF ReadFresh
<1>4. QED
  BY <1>2, <1>3

-----------------------------------------------------------------------------
(* Types. *)

(* However a turn or a pass ends. *)
LEMMA RecordBreaker ==
  ASSUME Breaker, NEW ok \in BOOLEAN, BreakerRecord(ok)
  PROVE  Breaker'
<1>1. 0 \in 0..TripAfter /\ TripAfter \in Nat
  BY SchedulerAssumption
<1>2. CASE ok
  <2>1. fails' = 0 /\ open' = FALSE
    BY <1>2 DEF BreakerRecord
  <2>2. QED
    BY <1>1, <2>1, Zenon DEF Breaker
<1>3. CASE ~ok
  <2>1. /\ fails' = IF fails = TripAfter THEN fails ELSE fails + 1
        /\ open' = (open \/ fails' = TripAfter)
    BY <1>3 DEF BreakerRecord
  <2>2. fails \in 0..TripAfter /\ open \in BOOLEAN /\ (open => fails = TripAfter)
    BY DEF Breaker
  <2>3. fails' \in 0..TripAfter /\ (fails = TripAfter => fails' = TripAfter)
    BY <1>1, <2>1, <2>2
  <2>4. open' \in BOOLEAN /\ (open' => fails' = TripAfter)
    BY <2>1, <2>2, <2>3, Zenon
  <2>5. QED
    BY <2>3, <2>4 DEF Breaker
<1>4. QED
  BY <1>2, <1>3

(* The claim moves next_run on or disables a one-shot. *)
LEMMA MarkTables ==
  ASSUME Tables, JobsInv, NEW j \in Thread, MarkRan(j)
  PROVE  /\ Tables'
         /\ job[j].sched \in Sched /\ claimed' = claimed \cup {job[j].sched}
         /\ \A s \in Sched : IsDue(s)' => IsDue(s) /\ s # job[j].sched
<1> DEFINE c == job[j].sched
<1>1. c \in Sched /\ job[j].every \in BOOLEAN
  BY DEF JobsInv, MarkRan, Job
<1>2. claimed' = claimed \cup {c} /\ feed' = feed /\ deleting' = deleting
  BY DEF MarkRan
<1>3. CASE job[j].every
  <2>1. late' = RemoveFirst(late, c) /\ row' = row
    BY <1>3 DEF MarkRan
  <2>2. /\ late' \in Seq(Sched) /\ Distinct(late')
        /\ \A x : x \in ToSet(late') <=> x \in ToSet(late) /\ x # c
    BY <2>1, RemoveFacts DEF Tables
  <2>3. \A i \in 1..Len(late') : row'[late'[i]].state = "live"
    <3>1. TAKE i \in 1..Len(late')
    <3>2. late'[i] \in ToSet(late)
      BY <2>2, ToSetFacts
    <3>3. PICK k \in 1..Len(late) : late[k] = late'[i]
      BY <3>2, ToSetFacts DEF Tables
    <3>4. QED
      BY <2>1, <3>3 DEF Tables, Live
  <2>4. \A s \in Sched : IsDue(s)' => IsDue(s) /\ s # c
    BY <2>1, <2>2 DEF IsDue, Live
  <2>5. QED
    BY <1>1, <1>2, <2>1, <2>2, <2>3, <2>4 DEF Tables, Live, Distinct
<1>4. CASE ~job[j].every
  <2>1. late' = late /\ row' = [row EXCEPT ![c].enabled = FALSE]
    BY <1>4 DEF MarkRan
  <2>2. row' \in [Sched -> Row]
    BY <1>1, <2>1 DEF Tables, Row
  <2>3. /\ \A s \in Sched : row'[s].state = row[s].state
        /\ \A s \in Sched : s # c => row'[s] = row[s]
        /\ row'[c].enabled = FALSE
    BY <1>1, <2>1 DEF Tables, Row
  <2>4. \A i \in 1..Len(late') : row'[late'[i]].state = "live"
    <3>1. TAKE i \in 1..Len(late')
    <3>2. late[i] \in Sched /\ late'[i] = late[i] /\ Live(late[i])
      BY <2>1, ToSetFacts DEF Tables
    <3>3. QED
      BY <2>3, <3>2 DEF Live
  <2>5. \A s \in Sched : IsDue(s)' => IsDue(s) /\ s # c
    BY <2>1, <2>3 DEF IsDue, Live
  <2>6. QED
    BY <1>1, <1>2, <2>1, <2>2, <2>4, <2>5 DEF Tables, Live, Distinct
<1>5. QED
  BY <1>1, <1>2, <1>3, <1>4

LEMMA BecomesDueTables ==
  ASSUME Tables, NEW s \in Sched, BecomesDue(s)
  PROVE  /\ Tables'
         /\ \A x \in Sched : IsDue(x)' => IsDue(x) \/ x = s
<1>1. late' = Append(late, s) /\ s \notin ToSet(late) /\ Live(s)
  BY DEF BecomesDue
<1>2. UNCHANGED <<row, feed, deleting>> /\ claimed' = claimed \ {s}
  BY DEF BecomesDue
<1>3. /\ late' \in Seq(Sched) /\ Distinct(late')
      /\ \A x : x \in ToSet(late') <=> x \in ToSet(late) \/ x = s
  BY <1>1, AppendFacts DEF Tables
<1>4. \A i \in 1..Len(late') : row'[late'[i]].state = "live"
  <2>1. TAKE i \in 1..Len(late')
  <2>2. late'[i] \in ToSet(late) \/ late'[i] = s
    BY <1>3, ToSetFacts
  <2>3. CASE late'[i] \in ToSet(late)
    <3>1. PICK k \in 1..Len(late) : late[k] = late'[i]
      BY <2>3, ToSetFacts DEF Tables
    <3>2. QED
      BY <1>2, <3>1 DEF Tables, Live
  <2>4. CASE late'[i] = s
    BY <1>1, <1>2, <2>4 DEF Live
  <2>5. QED
    BY <2>2, <2>3, <2>4
<1>5. \A x \in Sched : IsDue(x)' => IsDue(x) \/ x = s
  BY <1>2, <1>3 DEF IsDue, Live
<1>6. QED
  BY <1>2, <1>3, <1>4, <1>5 DEF Tables, Live, Distinct

(* The routes that write one row. *)
LEMMA EditTables ==
  ASSUME Tables, NEW s \in Sched, NEW new \in Row, new.state = "live",
         row[s].state = "live" \/ row[s].state = "new",
         Edit(s, new), claimed' = claimed \/ claimed' = claimed \ {s}
  PROVE  /\ Tables' /\ row'[s] = new
         /\ \A x \in Sched : x # s => row'[x] = row[x]
<1>1. row' = [row EXCEPT ![s] = new] /\ UNCHANGED <<late, feed, deleting>>
  BY DEF Edit
<1>2. /\ row' \in [Sched -> Row] /\ row'[s] = new
      /\ \A x \in Sched : x # s => row'[x] = row[x]
  BY <1>1 DEF Tables
<1>3. \A i \in 1..Len(late') : row'[late'[i]].state = "live"
  <2>1. TAKE i \in 1..Len(late')
  <2>2. late'[i] = late[i] /\ late[i] \in Sched /\ Live(late[i])
    BY <1>1, ToSetFacts DEF Tables
  <2>3. QED
    BY <1>2, <2>2 DEF Live
<1>4. QED
  BY <1>1, <1>2, <1>3 DEF Tables, Live, Distinct

LEMMA DeleteTables ==
  ASSUME Tables, NEW s \in Sched, DeleteRow(s)
  PROVE  /\ Tables'
         /\ \A x \in Sched : IsDue(x)' => IsDue(x)
<1> DEFINE gone == [state |-> "deleted", enabled |-> FALSE, every |-> FALSE]
<1>1. /\ row' = [row EXCEPT ![s] = gone] /\ late' = RemoveFirst(late, s)
      /\ deleting' = deleting \ {s} /\ UNCHANGED <<feed, claimed>>
  BY DEF DeleteRow
<1>2. gone \in Row /\ gone.state # "live"
  BY DEF Row
<1> HIDE DEF gone
<1>3. /\ row' \in [Sched -> Row] /\ row'[s] = gone
      /\ \A x \in Sched : x # s => row'[x] = row[x]
  BY <1>1, <1>2 DEF Tables, Live, Distinct
<1>4. /\ late' \in Seq(Sched) /\ Distinct(late')
      /\ \A x : x \in ToSet(late') <=> x \in ToSet(late) /\ x # s
  BY <1>1, RemoveFacts DEF Tables
<1>5. \A i \in 1..Len(late') : row'[late'[i]].state = "live"
  <2>1. TAKE i \in 1..Len(late')
  <2>2. late'[i] \in ToSet(late) /\ late'[i] # s
    BY <1>4, ToSetFacts
  <2>3. PICK k \in 1..Len(late) : late[k] = late'[i]
    BY <2>2, ToSetFacts DEF Tables
  <2>4. late'[i] \in Sched /\ Live(late'[i])
    BY <2>3, ToSetFacts DEF Tables
  <2>5. QED
    BY <1>3, <2>2, <2>4 DEF Live
<1>6. \A x \in Sched : IsDue(x)' => IsDue(x)
  BY <1>2, <1>3, <1>4 DEF IsDue, Live
<1>7. QED
  BY <1>1, <1>3, <1>4, <1>5, <1>6 DEF Tables, Live, Distinct

Calm == UNCHANGED <<dbVars, deleting, claimed>>

LEMMA CalmTables == Tables /\ Calm => Tables'
BY DEF Tables, Calm, dbVars, Live, Distinct

(* A step of a thread's call that is not the claim, the breaker's or the   *)
(* feed's: it leaves the tables alone.                                     *)
Quietly(j) ==
  \/ Enter(j) \/ ReadFresh(j) \/ CheckDue(j) \/ NoModel(j) \/ StartTurn(j)

LEMMA QuietlyFacts ==
  ASSUME TypeInv, NEW j \in Thread, Quietly(j)
  PROVE  /\ JobsInv' /\ Others(j)
         /\ Calm /\ UNCHANGED <<appVars, tick, brkVars>>
<1>1. JobsInv /\ row \in [Sched -> Row]
  BY DEF TypeInv, Process, JobsInv, Tables
<1>2. Calm /\ UNCHANGED <<appVars, tick, brkVars>>
  BY DEF Quietly, Enter, ReadFresh, CheckDue, NoModel, StartTurn, Calm
<1>3. CASE ReadFresh(j)
  BY <1>1, <1>2, <1>3, ReadFreshFacts
<1>4. CASE \/ Drop(j)
           \/ /\ job[j].at # "idle"
              /\ Goto(j, "reading") \/ Goto(j, "marking") \/ Goto(j, "turn")
  BY <1>1, <1>2, <1>4, DropFacts, GotoFacts
<1>5. QED
  BY <1>3, <1>4 DEF Quietly, Enter, CheckDue, NoModel, StartTurn

LEMMA TypeInductive ==
  /\ Init => TypeInv
  /\ TypeInv /\ [Next]_vars => TypeInv'
<1>1. ASSUME Init PROVE TypeInv
  <2>1. Tables
    <3>1. \A s \in Sched : row[s] \in Row
      BY <1>1 DEF Init, Row
    <3>2. row \in [Sched -> Row]
      BY <1>1, <3>1 DEF Init
    <3>3. late = <<>> /\ feed = {} /\ deleting = {} /\ claimed = {}
      BY <1>1 DEF Init
    <3>4. late \in Seq(Sched) /\ Len(late) = 0
      BY <3>3
    <3>5. QED
      BY <3>2, <3>3, <3>4 DEF Tables, Distinct
  <2>2. Process
    <3>1. tick \in Tick /\ Len(tick.queue) <= MaxPerTick
      <4>1. <<>> \in Seq(Sched) /\ Len(<<>>) = 0 /\ 0 \in 0..MaxSession /\ 0 <= MaxPerTick
        BY SchedulerAssumption
      <4>2. QED
        BY <1>1, <4>1 DEF Init, IdleTick, Tick
    <3>2. \A j \in Thread : job[j] = IdleJob
      BY <1>1 DEF Init
    <3>3. job \in [Thread -> Job]
      BY <1>1, IdleJobType DEF Init
    <3>4. QED
      BY <1>1, <3>1, <3>2, <3>3, IdleJobType, SchedulerAssumption DEF Init, Process
  <2>3. Breaker
    <3>1. 0 \in 0..TripAfter
      BY SchedulerAssumption
    <3>2. fails = 0 /\ open = FALSE
      BY <1>1 DEF Init
    <3>3. QED
      BY <3>1, <3>2, Zenon DEF Breaker
  <2>4. QED
    BY <2>1, <2>2, <2>3 DEF TypeInv
<1>2. ASSUME TypeInv, [Next]_vars PROVE TypeInv'
  <2> DEFINE App == UNCHANGED <<appVars, tick, job>>
  <2>1. Tables /\ Process /\ Breaker /\ JobsInv
    BY <1>2 DEF TypeInv, Process, JobsInv
  <2>2. JobsInv' /\ UNCHANGED <<appVars, tick>> => Process'
    BY <2>1 DEF JobsInv, Process, appVars
  <2>3. App => Process'
    BY <2>1 DEF Process, appVars
  <2>4. UNCHANGED brkVars => Breaker'
    BY <2>1 DEF Breaker, brkVars
  <2>5. Calm => Tables'
    BY <2>1, CalmTables
  <2>6. CASE Unlock
    <3>1. Process'
      BY <2>1, <2>6, SchedulerAssumption DEF Unlock, Process
    <3>2. Calm /\ UNCHANGED brkVars
      BY <2>6 DEF Unlock, Calm
    <3>3. QED
      BY <2>4, <2>5, <3>1, <3>2 DEF TypeInv
  <2>7. CASE Lock
    <3>1. Process'
      BY <2>1, <2>7, SchedulerAssumption DEF Lock, Process
    <3>2. Calm /\ UNCHANGED brkVars
      BY <2>7 DEF Lock, Calm
    <3>3. QED
      BY <2>4, <2>5, <3>1, <3>2 DEF TypeInv
  <2>8. CASE Restart
    <3>1. Tables'
      BY <2>1, <2>8 DEF Restart, Tables, dbVars, Live, Distinct
    <3>2. Breaker'
      <4>1. 0 \in 0..TripAfter
        BY SchedulerAssumption
      <4>2. fails' = 0 /\ open' = FALSE
        BY <2>8 DEF Restart
      <4>3. QED
        BY <4>1, <4>2, Zenon DEF Breaker
    <3>3. Process'
      <4>1. tick' \in Tick /\ Len(tick'.queue) <= MaxPerTick
        <5>1. <<>> \in Seq(Sched) /\ Len(<<>>) = 0 /\ 0 \in 0..MaxSession /\ 0 <= MaxPerTick
          BY SchedulerAssumption
        <5>2. QED
          BY <2>8, <5>1 DEF Restart, IdleTick, Tick
      <4>2. \A j \in Thread : job'[j] = IdleJob
        BY <2>8 DEF Restart
      <4>3. job' \in [Thread -> Job]
        BY <2>8, IdleJobType DEF Restart
      <4>4. session' = 0 /\ unlocks' = unlocks
        BY <2>8 DEF Restart
      <4>5. QED
        BY <2>1, <4>1, <4>2, <4>3, <4>4, IdleJobType, SchedulerAssumption DEF Process
    <3>4. QED
      BY <3>1, <3>2, <3>3 DEF TypeInv
  <2>9. CASE BreakerCools
    <3>1. Breaker'
      BY <2>1, <2>9 DEF BreakerCools, Breaker
    <3>2. Calm /\ App
      BY <2>9 DEF BreakerCools, Calm
    <3>3. QED
      BY <2>3, <2>5, <3>1, <3>2 DEF TypeInv
  <2>10. ASSUME NEW s \in Sched, BecomesDue(s) PROVE TypeInv'
    <3>1. App /\ UNCHANGED brkVars
      BY <2>10 DEF BecomesDue
    <3>2. QED
      BY <2>1, <2>3, <2>4, <2>10, <3>1, BecomesDueTables DEF TypeInv
  <2>11. ASSUME NEW s \in Sched, NEW new \in Row, Edit(s, new), new.state = "live",
                row[s].state = "live" \/ row[s].state = "new",
                claimed' = claimed \/ claimed' = claimed \ {s}
         PROVE  TypeInv'
    <3>1. App /\ UNCHANGED brkVars
      BY <2>11 DEF Edit
    <3>2. Tables'
      BY <2>1, <2>11, EditTables
    <3>3. QED
      BY <2>3, <2>4, <3>1, <3>2 DEF TypeInv
  <2>12. ASSUME NEW s \in Sched, NEW every \in BOOLEAN, AddSchedule(s, every) PROVE TypeInv'
    <3>1. [state |-> "live", enabled |-> TRUE, every |-> every] \in Row
      BY DEF Row
    <3>2. QED
      BY <2>11, <2>12, <3>1 DEF AddSchedule
  <2>13. ASSUME NEW s \in Sched, UpdateSchedule(s) PROVE TypeInv'
    <3>1. row[s] \in Row /\ row[s].state = "live"
      BY <2>1, <2>13 DEF Tables, UpdateSchedule, Live
    <3>2. /\ [row[s] EXCEPT !.every = ~@] \in Row
          /\ [row[s] EXCEPT !.every = ~@].state = "live"
      BY <3>1 DEF Row
    <3>3. QED
      BY <2>11, <2>13, <3>1, <3>2 DEF UpdateSchedule
  <2>14. ASSUME NEW s \in Sched, SetEnabled(s) PROVE TypeInv'
    <3>1. row[s] \in Row /\ row[s].state = "live"
      BY <2>1, <2>14 DEF Tables, SetEnabled, Live
    <3>2. /\ [row[s] EXCEPT !.enabled = ~@] \in Row
          /\ [row[s] EXCEPT !.enabled = ~@].state = "live"
      BY <3>1 DEF Row
    <3>3. Edit(s, [row[s] EXCEPT !.enabled = ~@])
      BY <2>14 DEF SetEnabled
    <3>4. claimed' = claimed \/ claimed' = claimed \ {s}
      BY <2>14 DEF SetEnabled
    <3>5. QED
      BY <2>11, <3>1, <3>2, <3>3, <3>4
  <2>15. ASSUME NEW s \in Sched, DeleteRuns(s) PROVE TypeInv'
    <3>1. App /\ UNCHANGED brkVars
      BY <2>15 DEF DeleteRuns
    <3>2. Tables'
      BY <2>1, <2>15 DEF DeleteRuns, Tables, Live, Distinct
    <3>3. QED
      BY <2>3, <2>4, <3>1, <3>2 DEF TypeInv
  <2>16. ASSUME NEW s \in Sched, DeleteRow(s) PROVE TypeInv'
    <3>1. App /\ UNCHANGED brkVars
      BY <2>16 DEF DeleteRow
    <3>2. QED
      BY <2>1, <2>3, <2>4, <2>16, <3>1, DeleteTables DEF TypeInv
  <2>17. ASSUME NEW q \in Caller, NEW s \in Sched, RunNow(q, s) PROVE TypeInv'
    <3>1. Calm /\ UNCHANGED <<appVars, tick>> /\ UNCHANGED brkVars
      BY <2>17 DEF RunNow, Calm
    <3>2. QED
      BY <2>1, <2>2, <2>4, <2>5, <2>17, <3>1, RunNowFacts DEF TypeInv
  <2>18. ASSUME NEW q \in Caller, GetStores(q) PROVE TypeInv'
    <3>1. Calm /\ UNCHANGED <<appVars, tick>> /\ UNCHANGED brkVars
      BY <2>18 DEF GetStores, Calm
    <3>2. session \in 0..MaxSession
      BY <2>1 DEF Process
    <3>3. QED
      BY <2>1, <2>2, <2>4, <2>5, <2>18, <3>1, <3>2, GetStoresFacts DEF TypeInv
  <2>19. CASE TickStep
    <3>1. Calm /\ UNCHANGED <<appVars, job>>
      BY <2>19 DEF TickStep, AutoReindex, ReindexEnds, AutoSummarize, SummarizeEnds, PassLooks,
         PassEnds, TickStart, TickFire, TickEnd, Calm
    <3>2. tick \in Tick /\ session \in 0..MaxSession /\ <<>> \in Seq(Sched)
          /\ Len(<<>>) <= MaxPerTick /\ 0 \in 0..MaxSession
      BY <2>1, SchedulerAssumption DEF Process
    <3>3. IdleTick \in Tick /\ Len(IdleTick.queue) <= MaxPerTick
      BY <3>2 DEF IdleTick, Tick
    <3>4. tick' \in Tick /\ Len(tick'.queue) <= MaxPerTick
      <4>1. CASE TickStart
        BY <3>2, <4>1 DEF TickStart, Tick
      <4>2. CASE tick' = IdleTick
        BY <3>3, <4>2
      <4>3. CASE tick' = [tick EXCEPT !.at = "firing", !.queue = DueSchedules]
        <5>1. DueSchedules \in Seq(Sched) /\ Len(DueSchedules) <= MaxPerTick
          BY <2>1, DueType DEF Tables
        <5>2. QED
          BY <3>2, <4>3, <5>1 DEF Tick
      <4>4. ASSUME NEW at \in {"embedding", "summarize", "summarizing", "maintained"},
                   tick' = [tick EXCEPT !.at = at]
            PROVE  tick' \in Tick /\ Len(tick'.queue) <= MaxPerTick
        <5>1. Len(tick.queue) <= MaxPerTick
          BY <2>1 DEF Process
        <5>2. QED
          BY <3>2, <4>4, <5>1 DEF Tick
      <4>5. QED
        BY <2>19, <4>1, <4>2, <4>3, <4>4
           DEF TickStep, AutoReindex, ReindexEnds, AutoSummarize, SummarizeEnds, PassLooks,
               PassEnds, TickFire, TickEnd
    <3>5. Process'
      BY <2>1, <3>1, <3>4 DEF Process, appVars
    <3>6. Breaker'
      <4>1. CASE UNCHANGED brkVars
        BY <2>4, <4>1
      <4>2. CASE \E ok \in BOOLEAN : BreakerRecord(ok)
        BY <2>1, <4>2, RecordBreaker
      <4>3. QED
        BY <2>19, <4>1, <4>2
           DEF TickStep, AutoReindex, ReindexEnds, AutoSummarize, SummarizeEnds, PassLooks,
               PassEnds, TickStart, TickFire, TickEnd
    <3>7. QED
      BY <2>5, <3>1, <3>5, <3>6 DEF TypeInv
  <2>20. ASSUME NEW w \in Worker, TakeJob(w) PROVE TypeInv'
    <3>1. Calm /\ UNCHANGED appVars /\ UNCHANGED brkVars
      BY <2>20 DEF TakeJob, Calm
    <3>2. JobsInv' /\ tick' \in Tick /\ Len(tick'.queue) <= MaxPerTick
      BY <1>2, <2>20, TakeFacts
    <3>3. Process'
      BY <2>1, <3>1, <3>2 DEF Process, JobsInv, appVars
    <3>4. QED
      BY <2>4, <2>5, <3>1, <3>3 DEF TypeInv
  <2>21. ASSUME NEW j \in Thread, Quietly(j) PROVE TypeInv'
    <3>1. JobsInv' /\ Calm /\ UNCHANGED <<appVars, tick>> /\ UNCHANGED brkVars
      BY <1>2, <2>21, QuietlyFacts
    <3>2. QED
      BY <2>2, <2>4, <2>5, <3>1 DEF TypeInv
  <2>22. ASSUME NEW j \in Thread, MarkRan(j) PROVE TypeInv'
    <3>1. Tables'
      BY <2>1, <2>22, MarkTables
    <3>2. JobsInv'
      BY <2>1, <2>22, GotoFacts DEF MarkRan
    <3>3. UNCHANGED <<appVars, tick>> /\ UNCHANGED brkVars
      BY <2>22 DEF MarkRan
    <3>4. QED
      BY <2>2, <2>4, <3>1, <3>2, <3>3 DEF TypeInv
  <2>23. ASSUME NEW j \in Thread, TurnEnds(j) PROVE TypeInv'
    <3>1. Calm /\ UNCHANGED <<appVars, tick>>
      BY <2>23 DEF TurnEnds, Calm
    <3>2. JobsInv'
      BY <2>1, <2>23, GotoFacts DEF TurnEnds
    <3>3. Breaker'
      BY <2>1, <2>23, RecordBreaker DEF TurnEnds
    <3>4. QED
      BY <2>2, <2>5, <3>1, <3>2, <3>3 DEF TypeInv
  <2>24. ASSUME NEW j \in Thread, RecordRun(j) PROVE TypeInv'
    <3>1. feed' = feed \cup {job[j].sched} /\ job[j].sched \in Sched
      BY <2>1, <2>24 DEF RecordRun, JobsInv
    <3>2. UNCHANGED <<row, late, deleting, claimed>>
      BY <2>24 DEF RecordRun
    <3>3. Tables'
      BY <2>1, <3>1, <3>2 DEF Tables, Live, Distinct
    <3>4. JobsInv' /\ UNCHANGED <<appVars, tick>> /\ UNCHANGED brkVars
      BY <2>1, <2>24, DropFacts DEF RecordRun
    <3>5. QED
      BY <2>2, <2>4, <3>3, <3>4 DEF TypeInv
  <2>25. CASE UNCHANGED vars
    <3>1. Calm /\ App /\ UNCHANGED brkVars
      BY <2>25 DEF vars, Calm, dbVars, appVars, brkVars
    <3>2. QED
      BY <2>3, <2>4, <2>5, <3>1 DEF TypeInv
  <2>26. QED
    BY <1>2, <2>6, <2>7, <2>8, <2>9, <2>10, <2>12, <2>13, <2>14, <2>15, <2>16, <2>17, <2>18,
       <2>19, <2>20, <2>21, <2>22, <2>23, <2>24, <2>25 DEF Next, JobStep, Quietly
<1>3. QED
  BY <1>1, <1>2

(* Types of every reachable state: next_run orders live schedules, each     *)
(* once; a tick hands out _MAX_PER_TICK schedules at most; and the breaker  *)
(* is open only after _BREAKER_TRIP_AFTER failures without a success.      *)
THEOREM Typing == Spec => []TypeOK
<1>1. TypeInv => TypeOK
  <2> SUFFICES ASSUME TypeInv PROVE TypeOK
    OBVIOUS
  <2>1. IsInjective(late) /\ \A s \in ToSet(late) : Live(s)
    BY ToSetFacts DEF TypeInv, Tables
  <2>2. QED
    BY <2>1 DEF TypeInv, Tables, Process, Breaker, TypeOK
<1>2. QED
  BY <1>1, TypeInductive, PTL DEF Spec

-----------------------------------------------------------------------------
(* The claim. *)

(* A step that writes the call of one thread, and enters the claim window   *)
(* only if nobody is in it.                                                *)
LEMMA ExclusiveStep ==
  ASSUME Exclusive, NEW j \in Thread, Others(j),
         InWindow(j)' => InWindow(j) \/ RunLockFree
  PROVE  Exclusive'
<1>1. \A k \in Thread : k # j => (InWindow(k)' <=> InWindow(k))
  BY DEF Others, InWindow
<1>2. RunLockFree => \A k \in Thread : ~InWindow(k)
  BY DEF RunLockFree, InWindow
<1>3. QED
  BY <1>1, <1>2 DEF Exclusive

LEMMA CalmDue == Calm => \A s \in Sched : (IsDue(s)' <=> IsDue(s)) /\ claimed' = claimed
BY DEF Calm, dbVars, IsDue, Live

LEMMA ClaimInductive ==
  /\ Init => ClaimInv
  /\ TypeInv /\ TypeInv' /\ ClaimInv /\ [Next]_vars => ClaimInv'
<1>1. ASSUME Init PROVE ClaimInv
  <2>1. \A j \in Thread : job[j].at = "idle"
    BY <1>1, IdleJobType DEF Init
  <2>2. claimed = {}
    BY <1>1 DEF Init
  <2>3. QED
    BY <2>1, <2>2, SchedulerAssumption
    DEF ClaimInv, Exclusive, DueUnclaimed, FoundUnclaimed, InWindow, Window, Thread
<1>2. ASSUME TypeInv, TypeInv', ClaimInv, [Next]_vars PROVE ClaimInv'
  <2>1. Tables /\ JobsInv /\ Exclusive /\ DueUnclaimed /\ FoundUnclaimed
    BY <1>2 DEF TypeInv, Process, JobsInv, ClaimInv
  <2>2. job' = job => Exclusive'
    BY <2>1 DEF Exclusive, InWindow
  <2>3. Calm => DueUnclaimed'
    BY <2>1, CalmDue DEF DueUnclaimed
  <2>4. job' = job /\ claimed' \subseteq claimed => FoundUnclaimed'
    BY <2>1 DEF FoundUnclaimed
  <2>5. Worker \subseteq Thread
    BY DEF Thread
  <2>6. CASE job' = job /\ Calm
    <3>1. claimed' \subseteq claimed
      BY <2>6 DEF Calm
    <3>2. QED
      BY <2>2, <2>3, <2>4, <2>6, <3>1 DEF ClaimInv
  <2>7. CASE Restart
    <3>1. \A j \in Thread : job'[j].at = "idle"
      BY <2>7, IdleJobType DEF Restart
    <3>2. Exclusive' /\ FoundUnclaimed'
      BY <2>5, <3>1 DEF Exclusive, FoundUnclaimed, InWindow, Window
    <3>3. DueUnclaimed'
      BY <2>1, <2>7 DEF Restart, dbVars, DueUnclaimed, IsDue, Live
    <3>4. QED
      BY <3>2, <3>3 DEF ClaimInv
  <2>8. ASSUME NEW s \in Sched, BecomesDue(s) PROVE ClaimInv'
    <3>1. job' = job /\ claimed' = claimed \ {s}
      BY <2>8 DEF BecomesDue
    <3>2. DueUnclaimed'
      BY <2>1, <2>8, <3>1, BecomesDueTables DEF DueUnclaimed
    <3>3. QED
      BY <2>2, <2>4, <3>1, <3>2 DEF ClaimInv
  <2>9. ASSUME NEW s \in Sched, DeleteRow(s) PROVE ClaimInv'
    <3>1. job' = job /\ claimed' = claimed
      BY <2>9 DEF DeleteRow
    <3>2. DueUnclaimed'
      BY <2>1, <2>9, <3>1, DeleteTables DEF DueUnclaimed
    <3>3. QED
      BY <2>2, <2>4, <3>1, <3>2 DEF ClaimInv
  <2>10. ASSUME NEW s \in Sched, NEW every \in BOOLEAN, AddSchedule(s, every) PROVE ClaimInv'
    <3>1. job' = job /\ claimed' = claimed /\ late' = late /\ row[s].state = "new"
      BY <2>10 DEF AddSchedule, Edit
    <3>2. s \notin ToSet(late)
      <4>1. \A i \in 1..Len(late) : late[i] # s
        BY <2>1, <3>1 DEF Tables, Live
      <4>2. QED
        BY <2>1, <4>1, ToSetFacts DEF Tables
    <3>3. \A x \in Sched : x # s => row'[x] = row[x]
      BY <2>1, <2>10 DEF AddSchedule, Edit, Tables
    <3>4. DueUnclaimed'
      BY <2>1, <3>1, <3>2, <3>3 DEF DueUnclaimed, IsDue, Live
    <3>5. QED
      BY <2>2, <2>4, <3>1, <3>4 DEF ClaimInv
  <2>11. ASSUME NEW s \in Sched, UpdateSchedule(s) PROVE ClaimInv'
    <3>1. job' = job /\ claimed' = claimed /\ late' = late
      BY <2>11 DEF UpdateSchedule, Edit
    <3>2. row[s] \in Row /\ row' = [row EXCEPT ![s] = [row[s] EXCEPT !.every = ~@]]
      BY <2>1, <2>11 DEF UpdateSchedule, Edit, Tables
    <3>3. \A x \in Sched : row'[x].state = row[x].state /\ row'[x].enabled = row[x].enabled
      BY <2>1, <3>2 DEF Tables, Row
    <3>4. DueUnclaimed'
      BY <2>1, <3>1, <3>3 DEF DueUnclaimed, IsDue, Live
    <3>5. QED
      BY <2>2, <2>4, <3>1, <3>4 DEF ClaimInv
  <2>12. ASSUME NEW s \in Sched, SetEnabled(s) PROVE ClaimInv'
    <3>1. job' = job /\ late' = late
      BY <2>12 DEF SetEnabled, Edit
    <3>2. claimed' = IF row[s].enabled THEN claimed ELSE claimed \ {s}
      BY <2>12 DEF SetEnabled
    <3>3. row[s] \in Row /\ row' = [row EXCEPT ![s] = [row[s] EXCEPT !.enabled = ~@]]
      BY <2>1, <2>12 DEF SetEnabled, Edit, Tables
    <3>4. /\ \A x \in Sched : x # s => row'[x] = row[x]
          /\ row'[s].enabled = ~row[s].enabled
      BY <2>1, <3>3 DEF Tables, Row
    <3>5. DueUnclaimed'
      <4>1. CASE row[s].enabled
        BY <2>1, <3>1, <3>2, <3>4, <4>1 DEF DueUnclaimed, IsDue, Live
      <4>2. CASE ~row[s].enabled
        BY <2>1, <3>1, <3>2, <3>4, <4>2 DEF DueUnclaimed, IsDue, Live
      <4>3. QED
        BY <4>1, <4>2
    <3>6. claimed' \subseteq claimed
      BY <3>2
    <3>7. QED
      BY <2>2, <2>4, <3>1, <3>5, <3>6 DEF ClaimInv
  <2>13. ASSUME NEW s \in Sched, DeleteRuns(s) PROVE ClaimInv'
    <3>1. job' = job /\ claimed' = claimed /\ late' = late /\ row' = row
      BY <2>13 DEF DeleteRuns
    <3>2. DueUnclaimed'
      BY <2>1, <3>1 DEF DueUnclaimed, IsDue, Live
    <3>3. QED
      BY <2>2, <2>4, <3>1, <3>2 DEF ClaimInv
  <2>14. ASSUME NEW j \in Thread, Others(j), Calm,
                InWindow(j)' => InWindow(j) \/ RunLockFree,
                j \in Worker /\ job'[j].at = "marking" => job'[j].sched \notin claimed
         PROVE  ClaimInv'
    <3>1. Exclusive'
      BY <2>1, <2>14, ExclusiveStep
    <3>2. FoundUnclaimed'
      <4>1. claimed' = claimed
        BY <2>14 DEF Calm
      <4>2. QED
        BY <2>1, <2>5, <2>14, <4>1 DEF FoundUnclaimed, Others
    <3>3. QED
      BY <2>3, <2>14, <3>1, <3>2 DEF ClaimInv
  <2>15. ASSUME NEW q \in Caller, NEW s \in Sched, RunNow(q, s) PROVE ClaimInv'
    <3>1. Calm
      BY <2>15 DEF RunNow, Calm
    <3>2. q \in Thread /\ Others(q) /\ job'[q].at = "opened"
      BY <2>1, <2>15, RunNowFacts DEF Thread
    <3>3. ~InWindow(q)'
      BY <3>2 DEF InWindow, Window
    <3>4. QED
      BY <2>14, <3>1, <3>2, <3>3
  <2>16. ASSUME NEW q \in Caller, GetStores(q) PROVE ClaimInv'
    <3>1. Calm
      BY <2>16 DEF GetStores, Calm
    <3>2. session \in 0..MaxSession
      BY <1>2 DEF TypeInv, Process
    <3>3. q \in Thread /\ Others(q) /\ job'[q].at = "entering"
      BY <2>1, <2>16, <3>2, GetStoresFacts DEF Thread
    <3>4. ~InWindow(q)'
      BY <3>3 DEF InWindow, Window
    <3>5. QED
      BY <2>14, <3>1, <3>3, <3>4
  <2>17. ASSUME NEW w \in Worker, TakeJob(w) PROVE ClaimInv'
    <3>1. Calm
      BY <2>17 DEF TakeJob, Calm
    <3>2. w \in Thread /\ Others(w) /\ job'[w].at = "entering"
      BY <1>2, <2>5, <2>17, TakeFacts
    <3>3. ~InWindow(w)'
      BY <3>2 DEF InWindow, Window
    <3>4. QED
      BY <2>14, <3>1, <3>2, <3>3
  <2>18. ASSUME NEW j \in Thread, Quietly(j) PROVE ClaimInv'
    <3>1. Others(j) /\ Calm
      BY <1>2, <2>18, QuietlyFacts
    <3>2. CASE Enter(j)
      <4>1. RunLockFree
        BY <3>2 DEF Enter
      <4>2. job'[j].at # "marking"
        BY <2>1, <3>2, DropFacts, GotoFacts DEF Enter
      <4>3. QED
        BY <2>14, <3>1, <4>1, <4>2
    <3>3. CASE ReadFresh(j)
      <4>1. InWindow(j)
        BY <3>3 DEF ReadFresh, InWindow, Window
      <4>2. j \in Worker => job'[j].at # "marking"
        BY <2>1, <3>3, ReadFreshFacts DEF Tables
      <4>3. QED
        BY <2>14, <3>1, <4>1, <4>2
    <3>4. CASE CheckDue(j)
      <4>1. InWindow(j) /\ job[j].sched \in Sched
        BY <2>1, <3>4 DEF CheckDue, InWindow, Window, JobsInv
      <4>2. CASE IsDue(job[j].sched) /\ Goto(j, "marking")
        <5>1. job'[j].sched = job[j].sched
          BY <2>1, <3>4, <4>2, GotoFacts DEF CheckDue
        <5>2. job[j].sched \notin claimed
          BY <2>1, <4>1, <4>2 DEF DueUnclaimed
        <5>3. QED
          BY <2>14, <3>1, <4>1, <5>1, <5>2
      <4>3. CASE Drop(j)
        <5>1. job'[j].at = "idle"
          BY <2>1, <4>3, DropFacts
        <5>2. QED
          BY <2>14, <3>1, <4>1, <5>1
      <4>4. QED
        BY <3>4, <4>2, <4>3 DEF CheckDue
    <3>5. CASE NoModel(j) \/ StartTurn(j)
      <4>1. job'[j].at \in {"idle", "turn"}
        BY <2>1, <3>5, DropFacts, GotoFacts DEF NoModel, StartTurn
      <4>2. ~InWindow(j)'
        BY <4>1 DEF InWindow, Window
      <4>3. QED
        BY <2>14, <3>1, <4>1, <4>2
    <3>6. QED
      BY <2>18, <3>2, <3>3, <3>4, <3>5 DEF Quietly
  <2>19. ASSUME NEW j \in Thread, MarkRan(j) PROVE ClaimInv'
    <3>1. Others(j) /\ job'[j].at = "claimed" /\ job[j].at = "marking"
      BY <2>1, <2>19, GotoFacts DEF MarkRan
    <3>2. /\ claimed' = claimed \cup {job[j].sched}
          /\ \A s \in Sched : IsDue(s)' => IsDue(s) /\ s # job[j].sched
      BY <2>1, <2>19, MarkTables
    <3>3. Exclusive'
      <4>1. ~InWindow(j)'
        BY <3>1 DEF InWindow, Window
      <4>2. QED
        BY <2>1, <3>1, <4>1, ExclusiveStep
    <3>4. DueUnclaimed'
      BY <2>1, <3>2 DEF DueUnclaimed
    <3>5. \A w \in Worker : job'[w].at # "marking"
      <4>1. TAKE w \in Worker
      <4>2. InWindow(j)
        BY <3>1 DEF InWindow, Window
      <4>3. CASE w = j
        BY <3>1, <4>3
      <4>4. CASE w # j
        <5>1. ~InWindow(w) /\ job'[w] = job[w]
          BY <2>1, <2>5, <3>1, <4>2, <4>4 DEF Exclusive, Others
        <5>2. QED
          BY <5>1 DEF InWindow, Window
      <4>5. QED
        BY <4>3, <4>4
    <3>6. FoundUnclaimed'
      BY <3>5 DEF FoundUnclaimed
    <3>7. QED
      BY <3>3, <3>4, <3>6 DEF ClaimInv
  <2>20. ASSUME NEW j \in Thread, TurnEnds(j) PROVE ClaimInv'
    <3>1. Calm
      BY <2>20 DEF TurnEnds, Calm
    <3>2. Others(j) /\ job'[j].at = "recording"
      BY <2>1, <2>20, GotoFacts DEF TurnEnds
    <3>3. ~InWindow(j)'
      BY <3>2 DEF InWindow, Window
    <3>4. QED
      BY <2>14, <3>1, <3>2, <3>3
  <2>21. ASSUME NEW j \in Thread, RecordRun(j) PROVE ClaimInv'
    <3>1. Others(j) /\ job'[j].at = "idle"
      BY <2>1, <2>21, DropFacts DEF RecordRun
    <3>2. claimed' = claimed /\ row' = row /\ late' = late
      BY <2>21 DEF RecordRun
    <3>3. Exclusive'
      <4>1. ~InWindow(j)'
        BY <3>1 DEF InWindow, Window
      <4>2. QED
        BY <2>1, <3>1, <4>1, ExclusiveStep
    <3>4. DueUnclaimed'
      BY <2>1, <3>2 DEF DueUnclaimed, IsDue, Live
    <3>5. FoundUnclaimed'
      BY <2>1, <2>5, <3>1, <3>2 DEF FoundUnclaimed, Others
    <3>6. QED
      BY <3>3, <3>4, <3>5 DEF ClaimInv
  <2>22. Unlock \/ Lock \/ BreakerCools \/ TickStep \/ UNCHANGED vars => job' = job /\ Calm
    BY DEF Unlock, Lock, BreakerCools, TickStep, TickStart, AutoReindex, ReindexEnds,
       AutoSummarize, SummarizeEnds, PassLooks, PassEnds, TickFire, TickEnd, vars, Calm, dbVars
  <2>23. QED
    BY <1>2, <2>6, <2>7, <2>8, <2>9, <2>10, <2>11, <2>12, <2>13, <2>15, <2>16, <2>17, <2>18,
       <2>19, <2>20, <2>21, <2>22 DEF Next, JobStep, Quietly
<1>3. QED
  BY <1>1, <1>2

(* The tick runs an occurrence of a schedule that nobody has run: between   *)
(* is_due and mark_ran, which run under _RUN_LOCK, no other worker and no    *)
(* manual run claims, and every claim before that, the ones of the process  *)
(* before a crash included, made the schedule no longer due.               *)
THEOREM ClaimOnce == Spec => TickClaimsUnclaimed
<1> DEFINE Claim == \A w \in Worker :
                      job[w].at = "marking" /\ job'[w].at = "claimed"
                        => job[w].sched \notin claimed
<1>1. TypeInv /\ ClaimInv => [Claim]_vars
  BY DEF ClaimInv, FoundUnclaimed
<1>2. QED
  BY <1>1, TypeInductive, ClaimInductive, PTL DEF Spec, TickClaimsUnclaimed
=============================================================================
