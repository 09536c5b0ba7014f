------------------------------ MODULE Scheduler ------------------------------
(***************************************************************************)
(* The schedule runner: the schedules and schedule_runs tables, the        *)
(* background tick that fires due schedules on a bounded pool of workers    *)
(* after its own embedding and summary passes,                             *)
(* the manual "run now" route, the routes that edit and delete a schedule,  *)
(* the lock that serializes claims, and the gateway circuit breaker.        *)
(* What happens inside an agent turn is the subject of AgentTurns.          *)
(***************************************************************************)
EXTENDS Naturals, Sequences, FiniteSets, SequencesExt

CONSTANTS
  Sched,       \* ids of the schedules a behaviour may create
  Worker,      \* the tick's pool threads, _SCHEDULE_WORKERS of them
  Caller,      \* request threads that may be in POST .../run at a time
  MaxPerTick,  \* _MAX_PER_TICK
  TripAfter,   \* _BREAKER_TRIP_AFTER
  MaxSession   \* bound on the unlocks of a behaviour

ASSUME SchedulerAssumption ==
  /\ MaxPerTick \in Nat \ {0} /\ TripAfter \in Nat \ {0} /\ MaxSession \in Nat
  /\ Worker \cap Caller = {}

Thread == Worker \cup Caller

VARIABLES
  (* The database. *)
  row,       \* [Sched -> Row] the schedules table
  late,      \* schedules whose next_run has passed, oldest next_run first
  feed,      \* schedules that have rows in schedule_runs
  (* The process. *)
  session,   \* the unlock session, 0 when locked
  unlocks,   \* unlocks so far; each mints a fresh session id
  tick,      \* the scheduler loop's tick
  job,       \* [Thread -> Job] the run_schedule call of a thread
  deleting,  \* schedules a delete route is between its two statements on
  fails,     \* _Breaker.fails, saturating at TripAfter
  open,      \* _breaker_open(): monotonic time is before _Breaker.until
  (* History. *)
  claimed    \* schedules claimed since they last became due

dbVars   == <<row, late, feed>>
appVars  == <<session, unlocks>>
brkVars  == <<fails, open>>
vars     == <<dbVars, appVars, tick, job, deleting, brkVars, claimed>>

NoSched == "none"
Row  == [state : {"new", "live", "deleted"}, enabled : BOOLEAN, every : BOOLEAN]
Tick == [at : {"idle", "reindex", "embedding", "summarize", "summarizing", "maintained", "firing"},
         sess : 0..MaxSession, queue : Seq(Sched)]
Job  == [at : {"idle", "opened", "entering", "reading", "checking", "marking",
               "claimed", "turn", "recording"},
         sched : Sched \cup {NoSched}, sess : 0..MaxSession, every : BOOLEAN]

IdleTick == [at |-> "idle", sess |-> 0, queue |-> <<>>]
IdleJob  == [at |-> "idle", sched |-> NoSched, sess |-> 0, every |-> FALSE]

-----------------------------------------------------------------------------
Live(s)  == row[s].state = "live"
IsDue(s) == Live(s) /\ row[s].enabled /\ s \in ToSet(late)

(* due_schedules: enabled and late, ORDER BY next_run LIMIT _MAX_PER_TICK. *)
EnabledOfFirst[i \in 0..Len(late)] ==
  IF i = 0 THEN <<>>
  ELSE IF row[late[i]].enabled THEN Append(EnabledOfFirst[i - 1], late[i])
  ELSE EnabledOfFirst[i - 1]
FirstOf(due) == SubSeq(due, 1, IF Len(due) < MaxPerTick THEN Len(due) ELSE MaxPerTick)
DueSchedules == FirstOf(EnabledOfFirst[Len(late)])

(* Who is inside the claim window, that is, holds _RUN_LOCK. *)
Window == {"reading", "checking", "marking"}
RunLockFree == \A j \in Thread : job[j].at \notin Window

Goto(j, p) == job' = [job EXCEPT ![j].at = p]
Drop(j) == job' = [job EXCEPT ![j] = IdleJob]

-----------------------------------------------------------------------------
Init ==
  /\ row = [s \in Sched |-> [state |-> "new", enabled |-> FALSE, every |-> FALSE]]
  /\ late = <<>> /\ feed = {}
  /\ session = 0 /\ unlocks = 0
  /\ tick = IdleTick
  /\ job = [j \in Thread |-> IdleJob]
  /\ deleting = {}
  /\ fails = 0 /\ open = FALSE
  /\ claimed = {}

-----------------------------------------------------------------------------
(* The application around the runner. *)

Unlock ==
  /\ session = 0 /\ unlocks < MaxSession
  /\ unlocks' = unlocks + 1 /\ session' = unlocks + 1
  /\ UNCHANGED <<dbVars, tick, job, deleting, brkVars, claimed>>

Lock ==
  /\ session # 0
  /\ session' = 0
  /\ UNCHANGED <<dbVars, unlocks, tick, job, deleting, brkVars, claimed>>

(* The tables survive a restart; threads, key and breaker do not. *)
Restart ==
  /\ session' = 0
  /\ tick' = IdleTick
  /\ job' = [j \in Thread |-> IdleJob]
  /\ deleting' = {}
  /\ fails' = 0 /\ open' = FALSE
  /\ UNCHANGED <<dbVars, unlocks, claimed>>

(* The clock passes a schedule's next_run. *)
BecomesDue(s) ==
  /\ Live(s) /\ s \notin ToSet(late)
  /\ late' = Append(late, s)
  /\ claimed' = claimed \ {s}
  /\ UNCHANGED <<row, feed, appVars, tick, job, deleting, brkVars>>

(* The cooldown ends; the failure count stays, so one more failure trips.   *)
BreakerCools ==
  /\ open
  /\ open' = FALSE
  /\ UNCHANGED <<dbVars, appVars, tick, job, deleting, fails, claimed>>

-----------------------------------------------------------------------------
(* The routes and tools that edit schedules; none takes _RUN_LOCK. *)

Edit(s, new) ==
  /\ session # 0
  /\ row' = [row EXCEPT ![s] = new]
  /\ UNCHANGED <<late, feed, appVars, tick, job, deleting, brkVars>>

AddSchedule(s, every) ==
  /\ row[s].state = "new"
  /\ Edit(s, [state |-> "live", enabled |-> TRUE, every |-> every])
  /\ UNCHANGED claimed

UpdateSchedule(s) ==
  /\ Live(s)
  /\ Edit(s, [row[s] EXCEPT !.every = ~@])
  /\ UNCHANGED claimed

(* Enabling a schedule whose next_run has passed makes it due once more. *)
SetEnabled(s) ==
  /\ Live(s)
  /\ Edit(s, [row[s] EXCEPT !.enabled = ~@])
  /\ claimed' = IF row[s].enabled THEN claimed ELSE claimed \ {s}

(* delete_schedule: the runs first, then the schedule, two statements; an   *)
(* id that is gone already is no error.                                    *)
DeleteRuns(s) ==
  /\ session # 0 /\ row[s].state # "new" /\ s \notin deleting
  /\ feed' = feed \ {s}
  /\ deleting' = deleting \cup {s}
  /\ UNCHANGED <<row, late, appVars, tick, job, brkVars, claimed>>

DeleteRow(s) ==
  /\ s \in deleting
  /\ row' = [row EXCEPT ![s] = [state |-> "deleted", enabled |-> FALSE, every |-> FALSE]]
  /\ late' = RemoveFirst(late, s)
  /\ deleting' = deleting \ {s}
  /\ UNCHANGED <<feed, appVars, tick, job, brkVars, claimed>>

-----------------------------------------------------------------------------
(* The breaker, which scheduled turns and the two background passes share.  *)

(* _breaker_open, and a faulty variant that forgets the cooldown.           *)
BreakerOpen_ByCount == fails = TripAfter
BreakerOpen == open

(* _breaker_record, under _BREAKER_LOCK. *)
BreakerRecord_KeepsCooldown(ok) ==
  /\ fails' = IF ok THEN 0 ELSE IF fails = TripAfter THEN fails ELSE fails + 1
  /\ open' = (open \/ fails' = TripAfter)
BreakerRecord(ok) ==
  IF ok
  THEN fails' = 0 /\ open' = FALSE
  ELSE /\ fails' = IF fails = TripAfter THEN fails ELSE fails + 1
       /\ open' = (open \/ fails' = TripAfter)

-----------------------------------------------------------------------------
(* The tick: one at a time; it snapshots the key and the session, embeds    *)
(* and summarizes, does the rest of its maintenance, which leaves all of    *)
(* this alone, and hands the due schedules to the pool.                    *)

TickStart ==
  /\ tick.at = "idle" /\ session # 0
  /\ tick' = [at |-> "reindex", sess |-> session, queue |-> <<>>]
  /\ UNCHANGED <<dbVars, appVars, job, deleting, brkVars, claimed>>

(* A background pass stands aside while the breaker is open, and may for    *)
(* reasons of its own: the local model is busy, the user is not idle, no    *)
(* model is routed.  It records how it ended.                              *)
PassLooks(at, next) ==
  /\ tick' = [tick EXCEPT !.at = at]
  /\ at # next => ~BreakerOpen
  /\ UNCHANGED <<dbVars, appVars, job, deleting, brkVars, claimed>>

PassEnds(next) ==
  /\ \E ok \in BOOLEAN : BreakerRecord(ok)
  /\ tick' = [tick EXCEPT !.at = next]
  /\ UNCHANGED <<dbVars, appVars, job, deleting, claimed>>

AutoReindex == tick.at = "reindex" /\ \E at \in {"embedding", "summarize"} : PassLooks(at, "summarize")
ReindexEnds == tick.at = "embedding" /\ PassEnds("summarize")
AutoSummarize ==
  tick.at = "summarize" /\ \E at \in {"summarizing", "maintained"} : PassLooks(at, "maintained")
SummarizeEnds == tick.at = "summarizing" /\ PassEnds("maintained")

TickFire ==
  /\ tick.at = "maintained"
  /\ tick' = IF BreakerOpen \/ DueSchedules = <<>> THEN IdleTick
             ELSE [tick EXCEPT !.at = "firing", !.queue = DueSchedules]
  /\ UNCHANGED <<dbVars, appVars, job, deleting, brkVars, claimed>>

TakeJob(w) ==
  /\ tick.queue # <<>> /\ job[w].at = "idle"
  /\ job' = [job EXCEPT ![w] = [IdleJob EXCEPT !.at = "entering", !.sess = tick.sess,
                                               !.sched = Head(tick.queue)]]
  /\ tick' = [tick EXCEPT !.queue = Tail(@)]
  /\ UNCHANGED <<dbVars, appVars, deleting, brkVars, claimed>>

TickEnd ==
  /\ tick.at = "firing" /\ tick.queue = <<>>
  /\ \A w \in Worker : job[w].at = "idle"
  /\ tick' = IdleTick
  /\ UNCHANGED <<dbVars, appVars, job, deleting, brkVars, claimed>>

(* schedule_routes.run_now finds the schedule, and then reads the other     *)
(* stores off app.state, which a lock in between has cleared.              *)
RunNow(q, s) ==
  /\ job[q].at = "idle" /\ session # 0 /\ Live(s)
  /\ job' = [job EXCEPT ![q] = [IdleJob EXCEPT !.at = "opened", !.sched = s]]
  /\ UNCHANGED <<dbVars, appVars, tick, deleting, brkVars, claimed>>

GetStores(q) ==
  /\ job[q].at = "opened"
  /\ job' = [job EXCEPT ![q].at = "entering", ![q].sess = session]
  /\ UNCHANGED <<dbVars, appVars, tick, deleting, brkVars, claimed>>

-----------------------------------------------------------------------------
(* run_schedule.  The claim window is held from Enter to MarkRan or to the  *)
(* first early return; the tick's workers alone pass locked_check and       *)
(* require_due.                                                            *)

Enter(j) ==
  /\ job[j].at = "entering" /\ RunLockFree
  /\ IF j \in Worker /\ session = 0 THEN Drop(j) ELSE Goto(j, "reading")
  /\ UNCHANGED <<dbVars, appVars, tick, deleting, brkVars, claimed>>

ReadFresh(j) ==
  LET s == job[j].sched IN
  /\ job[j].at = "reading"
  /\ IF Live(s)
     THEN job' = [job EXCEPT ![j].every = row[s].every,
                             ![j].at = IF j \in Worker THEN "checking" ELSE "marking"]
     ELSE Drop(j)
  /\ UNCHANGED <<dbVars, appVars, tick, deleting, brkVars, claimed>>

CheckDue_Skipped(j) ==
  /\ job[j].at = "checking"
  /\ Goto(j, "marking")
  /\ UNCHANGED <<dbVars, appVars, tick, deleting, brkVars, claimed>>
CheckDue(j) ==
  /\ job[j].at = "checking"
  /\ IF IsDue(job[j].sched) THEN Goto(j, "marking") ELSE Drop(j)
  /\ UNCHANGED <<dbVars, appVars, tick, deleting, brkVars, claimed>>

(* mark_ran: with the interval read above, next_run moves to the future or, *)
(* for a one-shot, the schedule is disabled.  A row deleted meanwhile is    *)
(* left deleted, and the turn runs all the same.                           *)
MarkRan(j) ==
  LET s == job[j].sched IN
  /\ job[j].at = "marking"
  /\ Goto(j, "claimed")
  /\ late' = IF job[j].every THEN RemoveFirst(late, s) ELSE late
  /\ row' = IF job[j].every THEN row ELSE [row EXCEPT ![s].enabled = FALSE]
  /\ claimed' = claimed \cup {s}
  /\ UNCHANGED <<feed, appVars, tick, deleting, brkVars>>

(* No model is configured: the call returns an error and records nothing. *)
NoModel(j) ==
  /\ job[j].at = "claimed"
  /\ Drop(j)
  /\ UNCHANGED <<dbVars, appVars, tick, deleting, brkVars, claimed>>

StartTurn(j) ==
  /\ job[j].at = "claimed"
  /\ Goto(j, "turn")
  /\ UNCHANGED <<dbVars, appVars, tick, deleting, brkVars, claimed>>

(* agent.run_turn returns or raises; without stores it raises. *)
TurnEnds(j) ==
  /\ job[j].at = "turn"
  /\ \E ok \in BOOLEAN : (ok => job[j].sess # 0) /\ BreakerRecord(ok)
  /\ Goto(j, "recording")
  /\ UNCHANGED <<dbVars, appVars, tick, deleting, claimed>>

RecordRun(j) ==
  /\ job[j].at = "recording"
  /\ feed' = feed \cup {job[j].sched}
  /\ Drop(j)
  /\ UNCHANGED <<row, late, appVars, tick, deleting, brkVars, claimed>>

-----------------------------------------------------------------------------
JobStep(j) ==
  \/ Enter(j) \/ ReadFresh(j) \/ CheckDue(j) \/ MarkRan(j)
  \/ NoModel(j) \/ StartTurn(j) \/ TurnEnds(j) \/ RecordRun(j)

TickStep ==
  \/ TickStart \/ AutoReindex \/ ReindexEnds \/ AutoSummarize \/ SummarizeEnds
  \/ TickFire \/ TickEnd

Next ==
  \/ Unlock \/ Lock \/ Restart \/ BreakerCools
  \/ \E s \in Sched :
       \/ BecomesDue(s) \/ UpdateSchedule(s) \/ SetEnabled(s)
       \/ DeleteRuns(s) \/ DeleteRow(s)
       \/ \E every \in BOOLEAN : AddSchedule(s, every)
       \/ \E q \in Caller : RunNow(q, s)
  \/ \E q \in Caller : GetStores(q)
  \/ TickStep
  \/ \E w \in Worker : TakeJob(w)
  \/ \E j \in Thread : JobStep(j)

Spec == Init /\ [][Next]_vars

(* The loop keeps ticking, threads keep running (a turn has a timeout, a    *)
(* pass a time budget), and the monotonic clock passes the end of the       *)
(* cooldown.  Nothing says that a turn or a pass ends well.                *)
FairSpec ==
  /\ Spec
  /\ WF_vars(TickStep) /\ WF_vars(BreakerCools)
  /\ \A w \in Worker : WF_vars(TakeJob(w))
  /\ \A j \in Thread : WF_vars(JobStep(j))

-----------------------------------------------------------------------------
(* Properties. *)

(* Types; the next_run order lists live schedules, once; the breaker is     *)
(* open only after _BREAKER_TRIP_AFTER failures without a success.         *)
TypeOK ==
  /\ row \in [Sched -> Row]
  /\ late \in Seq(Sched) /\ IsInjective(late) /\ \A s \in ToSet(late) : Live(s)
  /\ feed \subseteq Sched /\ deleting \subseteq Sched
  /\ session \in 0..MaxSession /\ unlocks \in 0..MaxSession
  /\ tick \in Tick /\ Len(tick.queue) <= MaxPerTick
  /\ job \in [Thread -> Job]
  /\ fails \in 0..TripAfter /\ open \in BOOLEAN /\ (open => fails = TripAfter)
  /\ claimed \subseteq Sched

(* The tick claims a schedule only for an occurrence nobody has claimed:    *)
(* not the tick before it, not a manual run that was faster, and not the    *)
(* process before a crash.                                                 *)
TickClaimsUnclaimed ==
  [][\A w \in Worker :
       job[w].at = "marking" /\ job'[w].at = "claimed" => job[w].sched \notin claimed]_vars

(* While the vault stays unlocked and no one edits schedules or runs them by *)
(* hand any more, a due schedule is claimed: turns that fail again and      *)
(* again suspend it for a cooldown, never for good.  The background passes  *)
(* share the breaker, so this needs that they recover: if they fail again   *)
(* and again, embedding also ends well again and again.                    *)
RunsOnly ==
  /\ row' = row \/ \E j \in Thread : job[j].at = "marking" /\ job'[j].at = "claimed"
  /\ \A q \in Caller : job'[q].at = "opened" => job[q].at = "opened"
PassFails == tick.at \in {"embedding", "summarizing"} /\ tick'.at # tick.at /\ fails' # 0
EmbedsWell == tick.at = "embedding" /\ tick'.at = "summarize" /\ fails' = 0
PassesRecover == []<><<PassFails>>_vars => []<><<EmbedsWell>>_vars
DueLeadsToClaim ==
  \A s \in Sched, k \in 1..MaxSession :
    IsDue(s) /\ session = k ~> ~IsDue(s) \/ session # k
DueIsClaimed == <>[][RunsOnly]_vars /\ PassesRecover => DueLeadsToClaim

(* The comments on the two passes, "embeddings optional" and "summaries are *)
(* a nicety" that must "never" break a tick, promise more: once scheduled   *)
(* turns no longer fail, what the passes do keeps no schedule back.         *)
(* The code does not keep it: with an embedding model that is down, the     *)
(* first pass after every cooldown opens the breaker again before the tick  *)
(* looks at it.                                                            *)
TurnFails == \E j \in Thread : job[j].at = "turn" /\ job'[j].at = "recording" /\ fails' # 0
EmbeddingsAreOptional ==
  <>[][RunsOnly]_vars /\ <>[][~TurnFails]_vars => DueLeadsToClaim
=============================================================================
