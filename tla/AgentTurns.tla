----------------------------- MODULE AgentTurns -----------------------------
(***************************************************************************)
(* Agent turns that park dangerous calls and are resumed once the user has *)
(* resolved them.  A turn is a bounded loop of model answers; an answer    *)
(* with dangerous calls parks one row per call (agent._park) and ends the  *)
(* loop.  A scheduled turn is resumed by a background worker that the last *)
(* approve or deny request launches; a chat turn by the chat page, over    *)
(* HTTP, on a route that resumes any turn.  Whoever runs the loop is a     *)
(* driver.                                                                 *)
(*                                                                         *)
(* The rows, sessions and requests are those of Approvals; this module     *)
(* refines how a request finishes and who creates rows.                    *)
(***************************************************************************)
EXTENDS Approvals, FiniteSetsExt, Sequences

CONSTANTS
  Turn,       \* turns a behaviour may run
  Kind,       \* who may start a turn: some of "chat", "scheduled"
  Action,     \* canonical (tool, arguments) keys of dangerous calls
  Driver,     \* threads running or resuming a turn
  MaxSteps,   \* agent._MAX_STEPS
  MaxCalls,   \* agent._MAX_TOOL_CALLS
  MaxBatch,   \* bound on the dangerous calls of one model answer
  MaxDrives   \* bound on the resumes of one park over HTTP

ASSUME TurnAssumption ==
  /\ Kind \subseteq {"chat", "scheduled"} /\ Action # {}
  /\ MaxSteps \in Nat \ {0} /\ MaxCalls \in Nat \ {0}
  /\ MaxBatch \in Nat \ {0} /\ MaxDrives \in Nat

VARIABLES
  park,      \* [Row -> Park] turn_state stored with the row
  stale,     \* rows claimed more than _IN_FLIGHT_TTL_SECONDS ago
  drv,       \* [Driver -> DriverState]
  fin,       \* [Req -> how far _maybe_finish_scheduled_turn got]
  resuming,  \* _RESUMING_TURNS
  kind,      \* [Turn -> who started it, or "none"]
  (* History. *)
  told,      \* [Row -> what the resumed model was told about the row]
  drives,    \* [Turn -> [step -> times the park of that step was resumed]]
  paged      \* turns a page has asked to resume

turnVars == <<park, stale, drv, fin, resuming, kind, told, drives, paged>>
allVars  == <<vars, turnVars>>

NoTurn == "no turn"
Park == [turn : Turn \cup {NoTurn}, step : 0..(MaxSteps - 1), calls : 0..MaxCalls,
         act : Action]
ExitStep == {"discard", "record"}
DriverState ==
  [at : {"idle", "resume", "loop", "parking", "exit"}, turn : Turn \cup {NoTurn},
   worker : BOOLEAN, sess : Nat, step : 0..MaxSteps, calls : 0..MaxCalls,
   denied : SUBSET Action, todo : SUBSET Action, exit : Seq(ExitStep)]
Told == {"none", "ok", "error", "interrupted", "denied"}

Idle == [at |-> "idle", turn |-> NoTurn, worker |-> FALSE, sess |-> 0, step |-> 0,
         calls |-> 0, denied |-> {}, todo |-> {}, exit |-> <<>>]

-----------------------------------------------------------------------------
(* agent_routes._scheduled_origin: the turns a schedule started. *)
Scheduled == {t \in Turn : kind[t] = "scheduled"}

(* agent.in_flight, agent.unresolved and list_for_turn. *)
InFlight(r) == status[r] = "executed" /\ result[r] = "none" /\ r \notin stale
Unresolved_IgnoresRunning(r) == status[r] \in {"pending", "approved"}
Unresolved(r) == status[r] \in {"pending", "approved"} \/ InFlight(r)

RowsOf(t, k) == {r \in Row : Visible(r, k) /\ park[r].turn = t}
RowsIn(t) == {r \in Row : status[r] # "absent" /\ park[r].turn = t}

(* agent_routes._all_pending_resolved, and the same test in resume_turn. *)
AllResolved(t, k) ==
  RowsOf(t, k) # {} /\ \A r \in RowsOf(t, k) : ~Unresolved(r)

LatestStep(t, k) == Max({park[r].step : r \in RowsOf(t, k)})
LatestBatch(t, k) == {r \in RowsOf(t, k) : park[r].step = LatestStep(t, k)}

-----------------------------------------------------------------------------
TInit ==
  /\ Init
  /\ park = [r \in Row |-> [turn |-> NoTurn, step |-> 0, calls |-> 0,
                            act |-> CHOOSE a \in Action : TRUE]]
  /\ stale = {}
  /\ drv = [d \in Driver |-> Idle]
  /\ fin = [q \in Req |-> "check"]
  /\ resuming = {}
  /\ kind = [t \in Turn |-> "none"]
  /\ told = [r \in Row |-> "none"]
  /\ drives = [t \in Turn |-> [s \in 0..(MaxSteps - 1) |-> 0]]
  /\ paged = {}

-----------------------------------------------------------------------------
(* The turn loop. *)

(* agent_turn or run_schedule starts a turn with the current store; which   *)
(* of the two is the origin that travels with the turn's parks.            *)
StartTurn(d, t, by) ==
  /\ drv[d].at = "idle"
  /\ kind[t] = "none" /\ session # 0
  /\ kind' = [kind EXCEPT ![t] = by]
  /\ drv' = [drv EXCEPT ![d] = [Idle EXCEPT !.at = "loop", !.turn = t, !.sess = session]]
  /\ UNCHANGED <<vars, park, stale, fin, resuming, told, drives, paged>>

(* What remains to do when a driver's loop ends: the resume worker leaves   *)
(* _RESUMING_TURNS and then records the outcome, in the other order after   *)
(* an exception.  run_schedule records as Scheduler says; a page is just    *)
(* answered.                                                               *)
\* Faulty variant: a worker that fails stays in the set.
ExitPath_ErrorKeepsTurn(d, outcome) ==
  IF drv[d].worker
  THEN CASE outcome = "complete" -> <<"discard", "record">>
         [] outcome = "error"    -> <<"record">>
         [] OTHER                -> <<"discard">>
  ELSE <<>>

ExitPath(d, outcome) ==
  IF drv[d].worker
  THEN CASE outcome = "complete" -> <<"discard", "record">>
         [] outcome = "error"    -> <<"record", "discard">>
         [] OTHER                -> <<"discard">>
  ELSE <<>>

Leave(d, path) ==
  drv' = [drv EXCEPT ![d] = IF path = <<>> THEN Idle
                            ELSE [Idle EXCEPT !.at = "exit", !.turn = drv[d].turn,
                                              !.worker = drv[d].worker, !.exit = path]]

EndLoop(d, outcome) == Leave(d, ExitPath(d, outcome))

(* One model answer of _run_turn_loop: a text, a failure, or calls.  Calls  *)
(* past the budget and an exhausted step budget end in the tools-disabled   *)
(* closing answer, which is a complete turn as well.                       *)
Answers(d) ==
  /\ drv[d].at = "loop"
  /\ \E outcome \in {"complete", "error"} :
       /\ outcome = "error" => drv[d].step < MaxSteps
       /\ EndLoop(d, outcome)
  /\ UNCHANGED <<vars, park, stale, fin, resuming, kind, told, drives, paged>>

(* agent._classify: a dangerous call the user denied earlier in this turn   *)
(* is answered inline with an error instead of being parked.               *)
Parked_ForgetsDenials(d, asked) == asked
Parked(d, asked) == asked \ drv[d].denied

(* The rows a behaviour has left bound what may still be parked. *)
FreeRows == {r \in Row : status[r] = "absent"}
Reserved == MapThenSumSet(LAMBDA d : Cardinality(drv[d].todo), Driver)

(* The step and tool call budgets of a turn, which a resume does not reset. *)
HasBudget_OffByOne(d, n) == drv[d].step < MaxSteps /\ drv[d].calls <= MaxCalls
HasBudget(d, n) == drv[d].step < MaxSteps /\ drv[d].calls + n <= MaxCalls

(* An answer with calls: asked are the dangerous ones, inline the number of *)
(* others.  A step without parked calls leads to the next one.             *)
Calls(d, asked, inline) ==
  /\ drv[d].at = "loop"
  /\ Cardinality(asked) + inline > 0
  /\ HasBudget(d, Cardinality(asked) + inline)
  /\ Reserved + Cardinality(asked) <= Cardinality(FreeRows)
  /\ drv' = [drv EXCEPT
       ![d].calls = @ + Cardinality(asked) + inline,
       ![d].todo  = Parked(d, asked),
       ![d].at    = IF Parked(d, asked) = {} THEN "loop" ELSE "parking",
       ![d].step  = IF Parked(d, asked) = {} THEN @ + 1 ELSE @]
  /\ UNCHANGED <<vars, park, stale, fin, resuming, kind, told, drives, paged>>

(* agent._park creates the rows one by one: the user may see and resolve    *)
(* the first before the second exists.  All carry the same turn_state.     *)
ParkOne(d, r, a) ==
  /\ drv[d].at = "parking" /\ a \in drv[d].todo
  /\ CreatePending(r, drv[d].sess, drv[d].turn \notin Scheduled)
  /\ park' = [park EXCEPT ![r] = [turn |-> drv[d].turn, step |-> drv[d].step,
                                  calls |-> drv[d].calls, act |-> a]]
  /\ IF drv[d].todo = {a}
     THEN EndLoop(d, "parked")
     ELSE drv' = [drv EXCEPT ![d].todo = @ \ {a}]
  /\ UNCHANGED <<stale, fin, resuming, kind, told, drives, paged>>

(* The steps after the loop, one at a time; then the thread is free. *)
Exit(d) ==
  /\ drv[d].at = "exit"
  /\ Leave(d, Tail(drv[d].exit))
  /\ resuming' = IF Head(drv[d].exit) = "discard" THEN resuming \ {drv[d].turn}
                 ELSE resuming  \* "record": an entry in the feed
  /\ UNCHANGED <<vars, park, stale, fin, kind, told, drives, paged>>

-----------------------------------------------------------------------------
(* Resuming a turn. *)

(* What agent.resume_turn writes into the conversation for a row of the     *)
(* latest park.                                                            *)
Message(r) ==
  CASE status[r] = "executed" /\ result[r] # "none" -> result[r]
    [] status[r] = "executed" /\ result[r] = "none" -> "interrupted"
    [] OTHER -> "denied"

(* The call count that a resume goes on from, and a faulty variant.         *)
CallsSoFar_Reset(r) == 0
CallsSoFar(r) == park[r].calls

(* agent.resume_turn: rows of the driver's session only.  Unknown turn or   *)
(* unresolved rows end it; otherwise the loop continues after the latest   *)
(* park, with its call count and every denial of the turn so far.          *)
ResumeReads(d) ==
  LET t == drv[d].turn
      k == drv[d].sess
      s == LatestStep(t, k)
  IN
  /\ drv[d].at = "resume"
  /\ IF AllResolved(t, k)
     THEN /\ told' = [r \in Row |-> IF r \in LatestBatch(t, k) THEN Message(r) ELSE told[r]]
          /\ drives' = [drives EXCEPT ![t][s] = @ + 1]
          /\ \E x \in LatestBatch(t, k) : drv' = [drv EXCEPT
               ![d].at = "loop", ![d].step = s + 1, ![d].calls = CallsSoFar(x),
               ![d].denied = {park[r].act : r \in {y \in RowsOf(t, k) : status[y] = "denied"}}]
     ELSE EndLoop(d, "parked") /\ UNCHANGED <<told, drives>>
  /\ UNCHANGED <<vars, park, stale, fin, resuming, kind, paged>>

ResumeWith(d, t, worker) ==
  /\ drv[d].at = "idle"
  /\ drv' = [drv EXCEPT ![d] = [Idle EXCEPT !.at = "resume", !.turn = t,
                                            !.worker = worker, !.sess = session]]

(* POST /api/agent/resume/{turn}: the chat page asks whenever the last card *)
(* it shows is resolved.  Nothing stops two pages from asking, or a page    *)
(* from asking for a turn that a schedule started.                         *)
AgentResume(d, t) ==
  /\ kind[t] # "none" /\ session # 0
  /\ \A s \in DOMAIN drives[t] : drives[t][s] < MaxDrives
  /\ ResumeWith(d, t, FALSE)
  /\ paged' = paged \cup {t}
  /\ UNCHANGED <<vars, park, stale, fin, resuming, kind, told, drives>>

-----------------------------------------------------------------------------
(* agent_routes._maybe_finish_scheduled_turn, run by the request that has   *)
(* just resolved a row, with the application's CURRENT store.               *)

LeaveRequest(q) == Finish(q) /\ fin' = [fin EXCEPT ![q] = "check"]

(* Chat parks are left alone; a locked application answers 423; a turn with *)
(* unresolved rows waits for a later request.                              *)
FinishCheck(q) ==
  LET t == park[tgt[q]].turn IN
  /\ pc[q] = "finishing" /\ fin[q] = "check"
  /\ IF t \in Scheduled /\ session # 0 /\ AllResolved(t, session)
     THEN fin' = [fin EXCEPT ![q] = "launch"] /\ UNCHANGED vars
     ELSE LeaveRequest(q)
  /\ UNCHANGED <<park, stale, drv, resuming, kind, told, drives, paged>>

(* _launch_scheduled_resume, under _RESUME_LOCK. *)
MayLaunch_Always(t) == TRUE
MayLaunch(t) == t \notin resuming

FinishLaunch(q) ==
  LET t == park[tgt[q]].turn IN
  /\ pc[q] = "finishing" /\ fin[q] = "launch"
  /\ IF MayLaunch(t)
     THEN /\ resuming' = resuming \cup {t}
          /\ fin' = [fin EXCEPT ![q] = "spawn"]
          /\ UNCHANGED vars
     ELSE LeaveRequest(q) /\ UNCHANGED resuming
  /\ UNCHANGED <<park, stale, drv, kind, told, drives, paged>>

(* ... and, the lock released, the worker thread.  A lock in between makes  *)
(* _context raise 423 and leaves the turn in the set.                      *)
FinishSpawn(q) ==
  /\ pc[q] = "finishing" /\ fin[q] = "spawn"
  /\ \/ session = 0 /\ UNCHANGED drv
     \/ session # 0 /\ \E d \in Driver : ResumeWith(d, park[tgt[q]].turn, TRUE)
  /\ LeaveRequest(q)
  /\ UNCHANGED <<park, stale, resuming, kind, told, drives, paged>>

-----------------------------------------------------------------------------
(* A claim is older than _IN_FLIGHT_TTL_SECONDS, which is longer than any   *)
(* handler runs: no request of this process works on the row any more.     *)
ClaimAges(r) ==
  /\ InFlight(r)
  /\ \A q \in Req : pc[q] \in {"claimed", "handling", "storing", "writing"} => tgt[q] # r
  /\ stale' = stale \cup {r}
  /\ UNCHANGED <<vars, park, drv, fin, resuming, kind, told, drives, paged>>

(* Threads, _RESUMING_TURNS and the key die with the process. *)
RestartAll ==
  /\ Restart
  /\ drv' = [d \in Driver |-> Idle]
  /\ fin' = [q \in Req |-> "check"]
  /\ resuming' = {}
  /\ UNCHANGED <<park, stale, kind, told, drives, paged>>

(* The steps of Approvals that this module leaves as they are.  Nothing     *)
(* reads the age of a row that is neither pending nor approved, so only     *)
(* those age here.                                                         *)
StoreStep ==
  /\ \/ Unlock \/ Lock \/ Sweep
     \/ \E r \in Row : status[r] \in {"pending", "approved"} /\ Age(r)
     \/ \E q \in Req, r \in Row : Open(q, r, "reading") \/ Open(q, r, "readingToDeny")
     \/ \E q \in Req : RouteStep(q)
  /\ UNCHANGED turnVars

-----------------------------------------------------------------------------
DriverStep(d) ==
  \/ Answers(d) \/ ResumeReads(d) \/ Exit(d)
  \/ \E r \in Row, a \in Action : ParkOne(d, r, a)
  \/ \E asked \in {A \in SUBSET Action : IsFiniteSet(A) /\ Cardinality(A) <= MaxBatch},
        inline \in {0, 1} : Calls(d, asked, inline)

FinishStep(q) == FinishCheck(q) \/ FinishLaunch(q) \/ FinishSpawn(q)

TNext ==
  \/ StoreStep
  \/ RestartAll
  \/ \E d \in Driver, t \in Turn : AgentResume(d, t) \/ \E by \in Kind : StartTurn(d, t, by)
  \/ \E d \in Driver : DriverStep(d)
  \/ \E q \in Req : FinishStep(q)
  \/ \E r \in Row : ClaimAges(r)

TSpec == TInit /\ [][TNext]_allVars

(* Drivers and requests are threads that keep running; a model call and a   *)
(* handler end (both have timeouts).  A finishing request needs a thread to *)
(* spawn, which the code creates; here it is one of Driver, which pages may *)
(* occupy again and again, hence the strong fairness.                      *)
TFairSpec ==
  /\ TSpec
  /\ \A d \in Driver : WF_allVars(DriverStep(d))
  /\ \A q \in Req : WF_allVars(RouteStep(q) /\ UNCHANGED turnVars) /\ SF_allVars(FinishStep(q))

-----------------------------------------------------------------------------
(* Properties. *)

(* Types.  A stored row and a busy driver have a turn; an answer parks at   *)
(* most MaxBatch actions, within the step budget; and every step spends at  *)
(* least one of the tool calls of the turn.                                *)
RowOK(r) == park[r].turn \in Turn /\ park[r].step < park[r].calls
BatchOK(d) ==
  /\ drv[d].at # "idle" => drv[d].turn \in Turn
  /\ IsFiniteSet(drv[d].todo) /\ Cardinality(drv[d].todo) <= MaxBatch
  /\ drv[d].at = "loop" => drv[d].step <= drv[d].calls
  /\ drv[d].at = "parking" =>
       drv[d].todo # {} /\ drv[d].step < MaxSteps /\ drv[d].step < drv[d].calls
TTypeOK ==
  /\ TypeOK
  /\ park \in [Row -> Park] /\ \A r \in Row : status[r] # "absent" => RowOK(r)
  /\ stale \subseteq Row
  /\ drv \in [Driver -> DriverState] /\ \A d \in Driver : BatchOK(d)
  /\ fin \in [Req -> {"check", "launch", "spawn"}]
  /\ resuming \subseteq Turn /\ kind \in [Turn -> Kind \cup {"none"}]
  /\ told \in [Row -> Told]
  /\ drives \in [Turn -> [0..(MaxSteps - 1) -> Nat]] /\ paged \subseteq Turn

(* "The assistant is never told an action succeeded when it didn't": what   *)
(* the resumed model read about an action is the handler's outcome, or that *)
(* it was denied, and then the action has not run and never will.          *)
ToldTheTruth ==
  \A r \in Row :
    /\ told[r] \in {"ok", "error"} => told[r] = ended[r]
    /\ told[r] = "denied" => runs[r] = 0
    /\ told[r] = "interrupted" => result[r] = "none"

(* Resuming the same park again, from a second page or a second worker,     *)
(* tells the model the same facts about it.                                *)
ToldIsStable ==
  [][\A r \in Row : told[r] # "none" => told'[r] = told[r]]_allVars

(* Turns change only who creates rows and what finishing a request does:    *)
(* the store and the routes behave as Approvals says.                      *)
ImplementsApprovals == Spec

OneByOne(t) ==
  \A r, x \in Row :
    /\ status[r] # "absent" /\ park[r].turn = t
    /\ status[x] # "absent" /\ park[x].turn = t /\ park[x].step = park[r].step
    => x = r

(* Who has a turn in hand: a request about to spawn its resume worker, or a *)
(* worker that has yet to discard it from _RESUMING_TURNS.                  *)
Spawns(q, t) == fin[q] = "spawn" /\ park[tgt[q]].turn = t
Works(d, t) == drv[d].worker /\ drv[d].turn = t /\ drv[d].exit # <<"record">>

(* _RESUMING_TURNS at work: a turn has at most one resume worker, counted   *)
(* from the launch, whose lock is released before the worker exists, to the *)
(* discard.                                                                *)
OneWorkerPerTurn ==
  \A t \in Turn :
    /\ \A p, q \in Req : Spawns(p, t) /\ Spawns(q, t) => p = q
    /\ \A c, d \in Driver : Works(c, t) /\ Works(d, t) => c = d
    /\ \A q \in Req, d \in Driver : ~(Spawns(q, t) /\ Works(d, t))

DrivenOnce(t) == \A s \in DOMAIN drives[t] : drives[t][s] <= 1

(* The tail of a turn after one park is driven once, as long as its parks   *)
(* hold one action each and no page asks for the turn: "both would try to   *)
(* drive the same tail" is what the idempotency guard exists to prevent.    *)
(* Two requests that resolve two actions of one park can defeat it, and so  *)
(* can a page: see the README.                                             *)
TailDrivenOnce == \A t \in Scheduled \ paged : OneByOne(t) => DrivenOnce(t)

(* A resume resets neither the steps nor the tool calls of its turn: of two *)
(* parks of a turn that is driven once, the later one has spent more calls, *)
(* and the rows of one park agree.                                         *)
BudgetCarries ==
  \A t \in Turn :
    DrivenOnce(t) => \A r, x \in RowsIn(t) :
      /\ park[r].step = park[x].step => park[r].calls = park[x].calls
      /\ park[r].step < park[x].step => park[r].calls < park[x].calls

(* No row joined a park after the turn was driven on from it.               *)
DrivenWhole(t) ==
  \A r \in Row :
    status[r] # "absent" /\ park[r].turn = t /\ drives[t][park[r].step] > 0 => told[r] # "none"

(* An action denied in a turn is never parked again by a later step of it,  *)
(* as long as each park was driven on once and whole: who drives a turn     *)
(* knows the denials that its resume read, not those of a second driver.   *)
DenialHolds ==
  \A r, x \in Row :
    /\ status[r] = "denied" /\ status[x] # "absent"
    /\ park[r].turn = park[x].turn /\ park[r].act = park[x].act
    /\ DrivenOnce(park[r].turn) /\ DrivenWhole(park[r].turn)
    => park[x].step <= park[r].step

(* A turn in _RESUMING_TURNS with rows that the user still sees is in the   *)
(* hands of a request about to spawn its worker, or of a worker that is     *)
(* going to discard it.  A lock leaves other turns behind in the set.       *)
ResumingIsHeld ==
  \A t \in resuming :
    RowsOf(t, session) # {} => (\E q \in Req : Spawns(q, t)) \/ \E d \in Driver : Works(d, t)

(* A turn that is never driven on from its latest park, of step s, although *)
(* every row of it is resolved and their session goes on.                  *)
Undriven(t, k, s) ==
  t \in Scheduled /\ session = k /\ AllResolved(t, k) /\ LatestStep(t, k) = s /\ drives[t][s] = 0
NoneExpired(t, k) == \A r \in RowsOf(t, k) : status[r] # "expired"
ParkSteps == Turn \X (1..MaxSession) \X (0..(MaxSteps - 1))

(* Once the user has resolved every action of the latest park, none having  *)
(* expired, the last request to finish drives the turn on, or it finds a    *)
(* worker of the turn that has not left _RESUMING_TURNS yet.               *)
FindsWorker(t) == \E q \in Req : fin[q] = "launch" /\ park[tgt[q]].turn = t /\ t \in resuming
LastFinisherDrives ==
  \A p \in ParkSteps :
    \/ ~<>[](NoneExpired(p[1], p[2]) /\ Undriven(p[1], p[2], p[3]))
    \/ <>FindsWorker(p[1])

(* The same without that exception: the request that resolves the last      *)
(* action resumes the turn, "no more scheduled runs left dangling".        *)
ResolvedTurnGoesOn ==
  \A p \in ParkSteps : ~<>[](NoneExpired(p[1], p[2]) /\ Undriven(p[1], p[2], p[3]))
============================================================================
