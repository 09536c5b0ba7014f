------------------------------- MODULE NiFlow -------------------------------
(***************************************************************************)
(* Building a Neural Interface card (ni_flow.py).  A card's flow slot holds *)
(* one record that says how far its build is; a worker thread advances it  *)
(* stage by stage, each stage a read of the record followed by a write     *)
(* under the flow lock.  The user's taps (new card, Retry, Fix, No, an     *)
(* answer, Cancel) rewrite the same record from request threads and start  *)
(* a worker, at most one per card and MaxConcurrent in all; a cancelled    *)
(* worker cannot be killed, its writes are refused instead; the scheduler  *)
(* fails what a dead worker left behind.  Records live in the database and *)
(* survive a restart, workers do not.                                      *)
(***************************************************************************)
EXTENDS Naturals, FiniteSets

CONSTANTS
  Item,           \* cards
  Tap,            \* request threads that act on cards
  MaxConcurrent,  \* _MAX_CONCURRENT: workers in the process
  Rows,           \* the most Library rows one build has to try (_AUTO_ROWS)
  MaxTaps,        \* bound on the taps that start builds
  MaxCrashes      \* bound on the restarts of the process

ASSUME NiFlowAssumption ==
  MaxConcurrent \in Nat \ {0} /\ Rows \in Nat /\ MaxTaps \in Nat /\ MaxCrashes \in Nat

VARIABLES
  rec,      \* [Item -> the record in the card's flow slot, or NoRec]
  card,     \* [Item -> "none", "shell" or "card", with the build its spec is from]
  inflight, \* _INFLIGHT: the cards a worker holds
  worker,   \* [Item -> the worker of the card]
  tap,      \* [Tap -> what the request is doing, what it read, which tap it was (id)]
  sweep,    \* what the scheduler's sweep is doing
  taps, crashes,
  (* History. *)
  stopped   \* builds cancelled while their worker was out, by the tap that started them

vars == <<rec, card, inflight, worker, tap, sweep, taps, crashes, stopped>>

Terminal == {"failed", "unsupported", "declined"}
Awaiting == {"awaiting_access", "awaiting_credential", "awaiting_params"}
Busy == {"intent", "source", "sampling", "mapping", "assembling"}
Record == [state : {"none", "ready"} \cup Terminal \cup Awaiting \cup Busy,
           mark : {"none", "pick", "ask"}, \* waits for a pick; asks a question
           cancel : BOOLEAN, remap : BOOLEAN, auto : BOOLEAN, rows : 0..Rows,
           old : BOOLEAN]                  \* last written over an hour ago

Fresh(s, m) == [state |-> s, mark |-> m, cancel |-> FALSE, remap |-> FALSE,
                auto |-> FALSE, rows |-> 0, old |-> FALSE]
NoRec == Fresh("none", "none")

Paused_AnySource(r) == r.state \in Awaiting \/ r.state = "source"
Paused(r) == r.state \in Awaiting \/ (r.state = "source" /\ r.mark = "pick")
Building(r) == r.state \in Busy /\ ~(r.state = "source" /\ r.mark = "pick")

(* _transition's merge: the record read, with a new state and marker; the  *)
(* sealed extras ride along.                                               *)
To(r, s, m) == [r EXCEPT !.state = s, !.mark = m]

(* _flow_write: a stored stop is never overwritten by a record without one.*)
Stored_Blindly(old, new, revive) == new
Stored(old, new, revive) ==
  IF old.cancel /\ ~new.cancel /\ ~revive THEN old ELSE new
FlowWrite(i, new, revive) == rec' = [rec EXCEPT ![i] = Stored(@, new, revive)]

(* The record a thread reads: what it writes back is new again.            *)
Read(i) == [rec[i] EXCEPT !.old = FALSE]

-----------------------------------------------------------------------------
(* The worker: what a stage may write, and where the build goes after it.  *)
(* Any stage may fail (an exception in the thread does, too).              *)
NoWorker == [at |-> "none", build |-> 0, put |-> NoRec, next |-> "none"]
Then(r, next) == [put |-> r, next |-> next]
Ends(r) == {Then(To(r, "failed", "none"), "done"), Then(To(r, "declined", "none"), "done")}
Asks(r) == {Then(To(r, "unsupported", "ask"), "done")}
Waits(r) == {Then(To(r, "awaiting_access", "none"), "done")}

(* _repick_without: the row being tried is dropped; _move_on: the auto-pick *)
(* goes on with the next, any other row was the one source the user named. *)
Dropped(r) == [To(r, "source", "pick") EXCEPT !.rows = @ - 1]
MovesOn_Unmatched(r) == IF r.remap THEN {} ELSE {Then(Dropped(r), "pick")}
MovesOn(r) ==
  IF r.remap \/ r.rows = 0 THEN {}
  ELSE {Then(Dropped(r), IF r.auto THEN "pick" ELSE "end")}

Entering(r) ==
  IF r.remap THEN {Then(To(r, "sampling", "none"), "fetch")}
  ELSE Asks(r) \cup {Then(To(r, "source", "pick"), "done"),
                     Then(To(r, "intent", "none"), "intent"),
                     Then(To(r, "source", "none"), "locate")}
Locating(r) ==
  Asks(r) \cup {Then(To(r, "sampling", "none"), "fetch")} \cup
  {Then([To(r, "source", "none") EXCEPT !.rows = n, !.auto = TRUE], "pick") : n \in 1..Rows}
Picking(r) == Waits(r) \cup {Then(To(r, "source", "none"), "sample")}
Fetching(r) ==
  MovesOn(r) \cup (IF r.remap THEN {} ELSE Waits(r)) \cup
  {Then(To(r, "assembling", "none"), "finalize"), Then(To(r, "mapping", "none"), "map")}
Mapping(r) == MovesOn(r) \cup {Then(To(r, "assembling", "none"), "finalize")}
Landing(r) ==
  {Then(To(r, s, "none"), "done") : s \in {"ready", "awaiting_credential", "awaiting_params"}}

StageWrites(at, r) == Ends(r) \cup
  CASE at = "enter"  -> Entering(r)
    [] at = "intent" -> {Then(To(r, "source", "none"), "locate")}
    [] at = "locate" -> Locating(r)
    [] at = "pick"   -> Picking(r)
    [] at = "sample" -> {Then(To(r, "sampling", "none"), "fetch")}
    [] at = "fetch"  -> Fetching(r)
    [] at = "map"    -> Mapping(r)
    [] at = "land"   -> Landing(r)
    [] OTHER -> {}

(* The steps that write nothing: a computed or a researched card goes      *)
(* straight to _finalize, a resumed auto-pick to its rows, and _finalize   *)
(* past its checks.                                                        *)
StageGoes(at, r) ==
  CASE at = "locate" -> {"finalize"} \cup (IF r.auto THEN {"pick"} ELSE {})
    [] at = "stop" -> {"finalize"}
    [] at = "finalize" -> IF r.cancel THEN {"done"} ELSE {"store"}
    [] OTHER -> {}

Goto(i, s) == worker' = [worker EXCEPT ![i].at = s, ![i].put = NoRec, ![i].next = "none"]
Puts(i, r, next) == worker' = [worker EXCEPT ![i].at = "write", ![i].put = r, ![i].next = next]
NotWorkers == UNCHANGED <<inflight, tap, sweep, taps, crashes, stopped>>

(* The rows ran out: the loop ended with a "source" record that has none.  *)
Exhausted(r) == r.state = "source" /\ ~r.cancel /\ r.rows = 0
TriesLeft(i) == ~rec[i].cancel /\ rec[i].rows > 0 /\ rec[i].state = "source"
Staged(i) ==
  /\ worker[i].at \notin {"none", "write", "store", "done"}
  /\ worker[i].at = "pick" => TriesLeft(i)
  /\ worker[i].at = "stop" => Exhausted(worker[i].put)

(* _transition, first half: the record is read.  One that carries a stop   *)
(* is left alone, and the stage goes on without having written.            *)
StageRead(i) ==
  /\ Staged(i)
  /\ \E o \in StageWrites(worker[i].at, Read(i)) :
       IF ~rec[i].cancel THEN Puts(i, o.put, o.next)
       ELSE Goto(i, IF worker[i].at \in {"fetch", "map"} /\ o.next = "pick" THEN "done" ELSE o.next)
  /\ UNCHANGED <<rec, card>> /\ NotWorkers

StageGo(i) ==
  /\ Staged(i)
  /\ \E s \in StageGoes(worker[i].at, rec[i]) : Goto(i, s)
  /\ UNCHANGED <<rec, card>> /\ NotWorkers

(* _auto_continue's loop ends: what it read is kept ...                    *)
LoopEnds(i) ==
  /\ worker[i].at = "pick" /\ ~TriesLeft(i)
  /\ worker' = [worker EXCEPT ![i].at = "stop", ![i].put = Read(i)]
  /\ UNCHANGED <<rec, card>> /\ NotWorkers

(* ... and written back, past _transition, when the rows did not run out.  *)
WriteBack(i) ==
  /\ worker[i].at = "stop" /\ ~Exhausted(worker[i].put)
  /\ Puts(i, [worker[i].put EXCEPT !.auto = FALSE], "done")
  /\ UNCHANGED <<rec, card>> /\ NotWorkers

(* _transition, second half, under the flow lock. *)
StageWrite(i) ==
  /\ worker[i].at = "write"
  /\ FlowWrite(i, worker[i].put, FALSE)
  /\ Goto(i, worker[i].next)
  /\ UNCHANGED card /\ NotWorkers

(* _finalize under the flow lock: the stop is looked for once more, and    *)
(* the shell's spec is replaced.                                           *)
SealAllowed_CheckedBefore(r) == TRUE
SealAllowed(r) == ~r.cancel
Store(i) ==
  /\ worker[i].at = "store"
  /\ IF SealAllowed(rec[i])
       THEN /\ card' = [card EXCEPT ![i] = [kind |-> "card", by |-> worker[i].build]]
            /\ Goto(i, "land")
       ELSE Goto(i, "done") /\ UNCHANGED card
  /\ UNCHANGED rec /\ NotWorkers

Release(i) ==
  /\ worker[i].at = "done"
  /\ inflight' = inflight \ {i}
  /\ worker' = [worker EXCEPT ![i] = NoWorker]
  /\ UNCHANGED <<rec, card, tap, sweep, taps, crashes, stopped>>

WorkerStep(i) ==
  \/ StageRead(i) \/ StageGo(i) \/ LoopEnds(i) \/ WriteBack(i)
  \/ StageWrite(i) \/ Store(i) \/ Release(i)

-----------------------------------------------------------------------------
(* The taps.  Each reads the record, writes it, and (but for a reopened    *)
(* pick and a cleared slot) starts a worker.  Left out: the re-seeds of a  *)
(* declined card by a standing order and by "use my key".                  *)
NoTap == [at |-> "idle"]
Revives == {"new", "retry", "fix", "no"}  \* the re-seeds that may undo a stop
Starts == Revives \cup {"resume"}

(* clear_flow_slot and the board's poll: not while a stopped worker is out.*)
ClearAllowed_Always(i) == TRUE
ClearAllowed(i) == ~(rec[i].cancel /\ i \in inflight)

Offered(k, i) ==
  LET r == rec[i] IN
  CASE k = "new"    -> card[i].kind = "none"
    [] k = "retry"  -> card[i].kind = "shell" /\ r.state \in Terminal /\ i \notin inflight
    [] k = "fix"    -> card[i].kind = "card" /\ r.state \in Terminal \cup {"ready", "none"}
    [] k = "no"     -> card[i].kind = "card"
    [] k = "resume" -> r.state = "awaiting_access" \/ r.mark \in {"pick", "ask"}
    [] k = "reopen" -> card[i].kind = "shell" /\ r.state \in {"failed", "declined"} /\ ~r.cancel
    [] k = "clear"  -> /\ card[i].kind = "card"
                       /\ r.state \in Terminal \cup (Awaiting \ {"awaiting_access"}) \cup {"ready"}
                       /\ ClearAllowed(i)

(* What a tap writes: a fresh record, or, resuming, the record it read with*)
(* the answer sealed (Skip this source drops the row and waits no more).   *)
Seeds(k, r) ==
  CASE k \in {"new", "retry", "no"} -> {Fresh("intent", "none")}
    [] k = "fix" -> {[Fresh("sampling", "none") EXCEPT !.remap = TRUE], Fresh("intent", "none")}
    [] k = "resume" ->
         IF r.mark = "ask" THEN {To(r, "intent", "none")}
         ELSE {r} \cup IF r.state = "awaiting_access" /\ r.auto /\ r.rows > 0
                       THEN {Dropped(r)} ELSE {}
    [] k = "reopen" -> {Fresh("source", "pick")}
    [] k = "clear" -> {NoRec}

Begin(q, i, k) ==
  /\ tap[q] = NoTap /\ Offered(k, i) /\ taps < MaxTaps
  /\ \A p \in Tap : tap[p] # NoTap => ~(k = "new" /\ tap[p].item = i)
  /\ tap' = [tap EXCEPT ![q] = [at |-> "rewrite", kind |-> k, item |-> i, held |-> Read(i),
                                id |-> taps + 1, out |-> i \in inflight]]
  /\ taps' = taps + 1
  /\ UNCHANGED <<rec, card, inflight, worker, sweep, crashes, stopped>>

Rewrite(q) ==
  /\ tap[q].at = "rewrite"
  /\ LET i == tap[q].item
         k == tap[q].kind IN
     /\ IF k = "clear" THEN rec' = [rec EXCEPT ![i] = NoRec]
        ELSE \E r \in Seeds(k, tap[q].held) : FlowWrite(i, r, k \in Revives)
     /\ card' = IF k = "new" THEN [card EXCEPT ![i].kind = "shell"] ELSE card
     /\ tap' = [tap EXCEPT ![q] = IF k \in Starts THEN [@ EXCEPT !.at = "start", !.held = NoRec] ELSE NoTap]
  /\ UNCHANGED <<inflight, worker, sweep, taps, crashes, stopped>>

(* _claim: one worker per card, and a free slot. *)
Free(i) == i \notin inflight /\ Cardinality(inflight) < MaxConcurrent

Start(q) ==
  /\ tap[q].at = "start" /\ Free(tap[q].item)
  /\ inflight' = inflight \cup {tap[q].item}
  /\ worker' = [worker EXCEPT ![tap[q].item] = [NoWorker EXCEPT !.at = "enter", !.build = tap[q].id]]
  /\ tap' = [tap EXCEPT ![q] = NoTap]
  /\ UNCHANGED <<rec, card, sweep, taps, crashes, stopped>>

(* Refused, by the claim or by the system: the record is failed, whoever   *)
(* is building the card (_fail reads it, ...                               *)
Refused(q) ==
  /\ tap[q].at = "start"
  /\ tap' = [tap EXCEPT ![q] = IF rec[tap[q].item].cancel THEN NoTap
                               ELSE [@ EXCEPT !.at = "fail", !.out = FALSE, !.held = Read(tap[q].item)]]
  /\ UNCHANGED <<rec, card, inflight, worker, sweep, taps, crashes, stopped>>

(* ... and writes it). *)
Fail(q) ==
  /\ tap[q].at = "fail"
  /\ FlowWrite(tap[q].item, To(tap[q].held, "failed", "none"), FALSE)
  /\ tap' = [tap EXCEPT ![q] = NoTap]
  /\ UNCHANGED <<card, inflight, worker, sweep, taps, crashes, stopped>>

TapStep(q) == Rewrite(q) \/ Start(q) \/ Refused(q) \/ Fail(q)

(* cancel_flow: one step, under the flow lock. *)
Cancel(i) ==
  /\ rec[i].state \notin Terminal \cup {"none", "ready"}
  /\ rec' = [rec EXCEPT ![i] = [To(@, "failed", "none") EXCEPT !.cancel = TRUE, !.old = FALSE]]
  /\ stopped' = stopped \cup {worker[j].build : j \in inflight \cap {i}}
  /\ UNCHANGED <<card, inflight, worker, tap, sweep, taps, crashes>>

-----------------------------------------------------------------------------
(* sweep_stranded_flows: reads a record that is neither over nor waiting   *)
(* for the user, looks whether a worker holds the card, and fails the      *)
(* record if what it read was over an hour old.                            *)
NoSweep == [at |-> "idle"]
Swept(r) == r.state \notin Terminal \cup {"none", "ready"} /\ ~Paused(r) /\ r.old

SweepReads(i) ==
  /\ sweep = NoSweep /\ Swept(rec[i])
  /\ sweep' = [at |-> "check", item |-> i]
  /\ UNCHANGED <<rec, card, inflight, worker, tap, taps, crashes, stopped>>

SweepChecks ==
  /\ sweep.at = "check"
  /\ sweep' = IF sweep.item \in inflight \/ rec[sweep.item].cancel THEN NoSweep
              ELSE [at |-> "fail", item |-> sweep.item, held |-> Read(sweep.item)]
  /\ UNCHANGED <<rec, card, inflight, worker, tap, taps, crashes, stopped>>

SweepFails ==
  /\ sweep.at = "fail"
  /\ FlowWrite(sweep.item, To(sweep.held, "failed", "none"), FALSE)
  /\ sweep' = NoSweep
  /\ UNCHANGED <<card, inflight, worker, tap, taps, crashes, stopped>>

SweepStep == SweepChecks \/ SweepFails

(* An hour passes without a write. *)
Age(i) ==
  /\ Building(rec[i]) /\ ~rec[i].old
  /\ rec' = [rec EXCEPT ![i].old = TRUE]
  /\ UNCHANGED <<card, inflight, worker, tap, sweep, taps, crashes, stopped>>

(* The process ends and starts again: the threads and _INFLIGHT are gone.  *)
Restart ==
  /\ crashes < MaxCrashes
  /\ crashes' = crashes + 1
  /\ inflight' = {} /\ worker' = [i \in Item |-> NoWorker]
  /\ tap' = [q \in Tap |-> NoTap] /\ sweep' = NoSweep
  /\ UNCHANGED <<rec, card, taps, stopped>>

Init ==
  /\ rec = [i \in Item |-> NoRec]
  /\ card \in [Item -> {[kind |-> "none", by |-> 0], [kind |-> "card", by |-> 0]}]
  /\ inflight = {} /\ worker = [i \in Item |-> NoWorker]
  /\ tap = [q \in Tap |-> NoTap] /\ sweep = NoSweep
  /\ taps = 0 /\ crashes = 0 /\ stopped = {}

Kinds == Starts \cup {"reopen", "clear"}
Next ==
  \/ \E i \in Item : WorkerStep(i) \/ Cancel(i) \/ SweepReads(i) \/ Age(i)
  \/ \E q \in Tap : TapStep(q) \/ \E i \in Item, k \in Kinds : Begin(q, i, k)
  \/ SweepStep \/ Restart

Spec == Init /\ [][Next]_vars

(* Threads run to their end (every fetch and model call has a deadline),   *)
(* the scheduler keeps sweeping and time goes by; no tap, cancel or        *)
(* restart need happen.                                                    *)
Fairness ==
  /\ \A i \in Item : WF_vars(WorkerStep(i)) /\ SF_vars(SweepReads(i)) /\ WF_vars(Age(i))
  /\ \A q \in Tap : WF_vars(TapStep(q))
  /\ WF_vars(SweepStep)
FairSpec == Spec /\ Fairness

-----------------------------------------------------------------------------
TypeOK ==
  /\ rec \in [Item -> Record]
  /\ card \in [Item -> [kind : {"none", "shell", "card"}, by : 0..MaxTaps]]
  /\ inflight = {i \in Item : worker[i].at # "none"}
  /\ Cardinality(inflight) <= MaxConcurrent
  /\ \A i \in Item : worker[i].put \in Record /\ worker[i].build \in 0..MaxTaps
  /\ \A q \in Tap : tap[q] = NoTap \/ (tap[q].item \in Item /\ tap[q].held \in Record)
  /\ sweep = NoSweep \/ sweep.item \in Item
  /\ taps \in 0..MaxTaps /\ crashes \in 0..MaxCrashes /\ stopped \subseteq 1..MaxTaps

(* A stop is kept: no write of a worker, of a refused start or of the sweep*)
(* takes it off the record, however long ago what it writes was read.      *)
(* Only a tap that starts the card anew does, or a slot cleared by a       *)
(* request that looked before the user stopped the build.                  *)
StopIsKept ==
  [][\A i \in Item : rec[i].cancel /\ ~rec'[i].cancel =>
       \E q \in Tap : /\ tap[q].at = "rewrite" /\ tap[q].item = i
                      /\ \/ tap[q].kind \in Revives
                         \/ tap[q].kind = "clear" /\ ~(tap[q].held.cancel /\ tap[q].out)]_vars

(* "_finalize seals nothing": while the record carries a stop, the card    *)
(* keeps its spec, even when the stop came after _finalize's first look.   *)
StoppedCardKeepsItsSpec == [][\A i \in Item : rec[i].cancel => card'[i] = card[i]]_vars

(* No card says "preparing" for ever: every build ends, pauses for the     *)
(* user, or is failed by the sweep.                                        *)
BuildsSettle == \A i \in Item : Building(rec[i]) ~> ~Building(rec[i])

(* What cancel_flow's docstring says of the worker ("the worker's later    *)
(* stage writes are ignored ... and _finalize seals nothing"): a build the *)
(* user stopped never replaces a card's spec.                              *)
StoppedBuildNeverSeals ==
  [][\A i \in Item : card'[i].by # card[i].by => card'[i].by \notin stopped]_vars
=============================================================================
