-------------------------- MODULE AgentTurns_proofs --------------------------
(***************************************************************************)
(* Turns on top of the approval store, for every number of turns, drivers,  *)
(* requests and rows.  Every step of a turn is a step of the store or none, *)
(* so whatever holds of the store holds under turns; from there, what the   *)
(* resumed model is told stays true, _RESUMING_TURNS admits one worker to a *)
(* turn and lets go of it, a denial outlasts the step it was made in, a     *)
(* resume resets no budget, and a scheduled turn that no page asks for is   *)
(* driven on once from each park of one action.                            *)
(***************************************************************************)
EXTENDS AgentTurns, Approvals_proofs, Induct_proofs, FiniteSetTheorems

Bounded == unlocks \in 0..MaxSession /\ boot \in Nat

StoreInv == TypeOK /\ ActionInv /\ SessionInv /\ Bounded

-----------------------------------------------------------------------------
(* The store under turns. *)

(* Every step of a turn is a step of the store, or none.                    *)
LEMMA StepRefinesStore ==
  ASSUME Bounded, [TNext]_allVars
  PROVE  [Next]_vars
<1>1. CASE UNCHANGED allVars
  BY <1>1 DEF allVars
<1>2. CASE StoreStep
  BY <1>2 DEF StoreStep, Next, RequestStep
<1>3. CASE RestartAll
  BY <1>3 DEF RestartAll, Next
<1>4. ASSUME NEW d \in Driver, NEW t \in Turn,
             AgentResume(d, t) \/ \E by \in Kind : StartTurn(d, t, by)
      PROVE  [Next]_vars
  BY <1>4 DEF AgentResume, StartTurn
<1>5. ASSUME NEW d \in Driver, DriverStep(d) PROVE [Next]_vars
  <2>1. ASSUME NEW r \in Row, NEW a \in Action, ParkOne(d, r, a) PROVE Next
    <3>1. CreatePending(r, drv[d].sess, drv[d].turn \notin Scheduled)
      BY <2>1 DEF ParkOne
    <3>2. drv[d].sess \in 1..MaxSession
      BY <3>1, MaxSessionAssumption DEF CreatePending, LiveSession, Bounded
    <3>3. (drv[d].turn \notin Scheduled) \in BOOLEAN
      OBVIOUS
    <3>4. QED
      BY <3>1, <3>2, <3>3 DEF Next
  <2>2. QED
    BY <1>5, <2>1 DEF DriverStep, Answers, ResumeReads, Exit, Calls
<1>6. ASSUME NEW q \in Req, FinishStep(q) PROVE [Next]_vars
  <2>1. LeaveRequest(q) => Next
    BY DEF LeaveRequest, Next, RequestStep
  <2>2. QED
    BY <1>6, <2>1 DEF FinishStep, FinishCheck, FinishLaunch, FinishSpawn
<1>7. ASSUME NEW r \in Row, ClaimAges(r) PROVE [Next]_vars
  BY <1>7 DEF ClaimAges
<1>8. QED
  BY <1>1, <1>2, <1>3, <1>4, <1>5, <1>6, <1>7 DEF TNext

LEMMA BoundedInductive ==
  /\ Init => Bounded
  /\ Bounded /\ [Next]_vars => Bounded'
<1>1. Init => Bounded
  BY MaxSessionAssumption DEF Init, Bounded
<1>2. ASSUME Bounded, [Next]_vars PROVE Bounded'
  <2>1. CASE Unlock
    BY <1>2, <2>1, MaxSessionAssumption DEF Unlock, Bounded
  <2>2. CASE Restart
    BY <1>2, <2>2 DEF Restart, Bounded
  <2>3. CASE UNCHANGED <<unlocks, boot>>
    BY <1>2, <2>3 DEF Bounded
  <2>4. QED
    BY <1>2, <2>1, <2>2, <2>3
    DEF Next, Lock, CreatePending, Age, Sweep, Open, RequestStep, RouteStep, ApproveRead,
        DenyRead, ApproveCas, DenyCas, Claim, Cas, HandlerStarts, HandlerEnds, StoreRead,
        StoreWrite, Finish, appVars, vars
<1>3. QED
  BY <1>1, <1>2

(* agent.py and the turns it runs use the store and the routes only as      *)
(* approvals.py and the two routes allow: what is proved of Approvals holds *)
(* of a system with turns in it.                                           *)
THEOREM TurnsImplementApprovals == TSpec => ImplementsApprovals
<1>1. TInit => Init
  BY DEF TInit
<1>2. Bounded /\ [TNext]_allVars => [Next]_vars
  BY StepRefinesStore
<1>3. QED
  BY <1>1, <1>2, BoundedInductive, PTL DEF TSpec, Spec, ImplementsApprovals

LEMMA StoreInvariant == TSpec => []StoreInv
<1>1. Spec => []Bounded
  BY BoundedInductive, PTL DEF Spec
<1>2. TSpec => Spec
  BY TurnsImplementApprovals DEF ImplementsApprovals
<1>3. Spec => [](TypeOK /\ ActionInv /\ SessionInv /\ Bounded)
  BY <1>1, Typing, ActionInvariant, SessionInvariant, PTL
<1>4. QED
  BY <1>2, <1>3, PTL DEF StoreInv

(* What the approval gateway promises by itself it keeps with turns that    *)
(* park, resume and are resumed again: no handler runs twice, what ran is    *)
(* shown as executed, with its own result, resolutions are final, made in    *)
(* the session of their row, and a restart voids what was pending.          *)
THEOREM PromisesUnderTurns ==
  TSpec => /\ []AtMostOnce /\ []RanReadsExecuted /\ []StoredResultIsTheHandlers
           /\ ResolutionIsFinal /\ ResolvedFromOwnSession /\ RestartInvalidates
           /\ ImplementsSingleUse
<1>1. TSpec => Spec
  BY TurnsImplementApprovals DEF ImplementsApprovals
<1>2. QED
  BY <1>1, ExecutesAtMostOnce, RanIsExecuted, ResultIsTheHandlers,
     ResolutionsAreFinal, ResolvedInOwnSession, RestartInvalidatesRows,
     ImplementsPromise

-----------------------------------------------------------------------------
(* What the resumed model is told. *)

AtWork == {"claimed", "handling", "storing", "writing"}

(* A result is stored by a request that has the outcome of the row's handler.*)
LEMMA ResultStep ==
  ASSUME StoreInv, [Next]_vars, NEW r \in Row, result'[r] # result[r]
  PROVE  /\ result[r] = "none"
         /\ \E q \in Req : pc[q] = "writing" /\ tgt[q] = r
<1>1. ASSUME NEW q \in Req, StoreWrite(q)
      PROVE  pc[q] = "writing" /\ tgt[q] = r /\ result[r] = "none"
  BY <1>1 DEF StoreWrite, StoreInv, TypeOK, ActionInv, Progress, Ended
<1>2. CASE result' = result
  BY <1>2
<1>3. QED
  BY <1>1, <1>2
  DEF Next, Unlock, Lock, Restart, CreatePending, Age, Sweep, Open, RequestStep, RouteStep,
      ApproveRead, DenyRead, ApproveCas, DenyCas, Claim, Cas, HandlerStarts, HandlerEnds,
      StoreRead, Finish, tableVars, vars

(* A request comes to work on a row from the claim only.                    *)
LEMMA WorkStep ==
  ASSUME StoreInv, [Next]_vars, NEW q \in Req, pc'[q] \in AtWork
  PROVE  /\ tgt'[q] = tgt[q]
         /\ pc[q] \in AtWork \/ status[tgt[q]] = "approved"
<1> USE DEF AtWork, StoreInv, TypeOK, PC
<1>1. CASE UNCHANGED reqVars
  BY <1>1 DEF reqVars
<1>2. CASE Restart
  BY <1>2 DEF Restart
<1>3. ASSUME NEW p \in Req, NEW r \in Row, NEW a \in {"reading", "readingToDeny"},
             Open(p, r, a)
      PROVE  tgt'[q] = tgt[q] /\ pc[q] \in AtWork
  BY <1>3 DEF Open, Goto
<1>4. ASSUME NEW p \in Req,
             ApproveRead(p) \/ DenyRead(p) \/ Finish(p) \/ ApproveCas(p) \/ DenyCas(p)
      PROVE  tgt'[q] = tgt[q] /\ pc[q] \in AtWork
  BY <1>4 DEF ApproveRead, DenyRead, Finish, ApproveCas, DenyCas, Cas, Goto
<1>5. ASSUME NEW p \in Req, Claim(p)
      PROVE  tgt'[q] = tgt[q] /\ (pc[q] \in AtWork \/ status[tgt[q]] = "approved")
  BY <1>5 DEF Claim, Cas, Goto, ActionInv, Progress
<1>6. ASSUME NEW p \in Req,
             HandlerStarts(p) \/ HandlerEnds(p) \/ StoreRead(p) \/ StoreWrite(p)
      PROVE  tgt'[q] = tgt[q] /\ pc[q] \in AtWork
  BY <1>6 DEF HandlerStarts, HandlerEnds, StoreRead, StoreWrite, Goto
<1>7. QED
  BY <1>1, <1>2, <1>3, <1>4, <1>5, <1>6
  DEF Next, Unlock, Lock, CreatePending, Age, Sweep, RequestStep, RouteStep, vars

(* Rows claimed long ago: their handler is no longer at work.               *)
StaleInv ==
  /\ \A r \in stale : status[r] = "executed"
  /\ \A q \in Req : tgt[q] \in stale => pc[q] \notin AtWork
  /\ stale \subseteq Row

LEMMA StaleStep ==
  ASSUME StoreInv, StaleInv, [TNext]_allVars
  PROVE  StaleInv' /\ stale \subseteq stale'
<1>1. [Next]_vars
  BY StepRefinesStore DEF StoreInv
<1>2. CASE stale' = stale
  <2>1. \A r \in stale : status'[r] = "executed"
    BY <1>1, ResolutionStep DEF StaleInv, StoreInv
  <2>2. ASSUME NEW q \in Req, tgt'[q] \in stale, pc'[q] \in AtWork PROVE FALSE
    BY <1>1, <2>2, WorkStep DEF StaleInv
  <2>3. QED
    BY <1>2, <2>1, <2>2 DEF StaleInv
<1>3. ASSUME NEW r \in Row, ClaimAges(r) PROVE StaleInv' /\ stale \subseteq stale'
  BY <1>3 DEF ClaimAges, StaleInv, InFlight, vars, tableVars, reqVars, AtWork
<1>4. CASE StoreStep \/ RestartAll \/ UNCHANGED allVars
  BY <1>2, <1>4 DEF StoreStep, RestartAll, turnVars, allVars
<1>5. ASSUME NEW d \in Driver, NEW t \in Turn,
             AgentResume(d, t) \/ \E by \in Kind : StartTurn(d, t, by)
      PROVE  stale' = stale
  BY <1>5 DEF AgentResume, StartTurn
<1>6. ASSUME NEW d \in Driver, DriverStep(d) PROVE stale' = stale
  BY <1>6 DEF DriverStep, Answers, ResumeReads, Exit, ParkOne, Calls
<1>7. ASSUME NEW q \in Req, FinishStep(q) PROVE stale' = stale
  BY <1>7 DEF FinishStep, FinishCheck, FinishLaunch, FinishSpawn
<1>8. QED
  BY <1>2, <1>3, <1>4, <1>5, <1>6, <1>7 DEF TNext

(* Settled: what a resume would say of the row can no longer change.        *)
Settled(r) ==
  /\ status[r] \in {"executed", "denied", "expired"}
  /\ status[r] = "executed" /\ result[r] = "none" => r \in stale

LEMMA SettledStep ==
  ASSUME StoreInv, StaleInv, [TNext]_allVars, NEW r \in Row, Settled(r)
  PROVE  Settled(r)' /\ Message(r)' = Message(r)
<1>1. [Next]_vars
  BY StepRefinesStore DEF StoreInv
<1>2. status'[r] = status[r]
  BY <1>1, ResolutionStep DEF StoreInv, Settled
<1>3. stale \subseteq stale'
  BY StaleStep
<1>4. CASE result'[r] = result[r]
  BY <1>2, <1>3, <1>4 DEF Settled, Message
<1>5. CASE result'[r] # result[r]
  <2>1. PICK q \in Req : pc[q] = "writing" /\ tgt[q] = r /\ result[r] = "none"
    BY <1>1, <1>5, ResultStep
  <2>2. status[r] = "executed"
    BY <2>1 DEF StoreInv, ActionInv, Progress, Ended
  <2>3. QED
    BY <2>1, <2>2 DEF Settled, StaleInv, AtWork
<1>6. QED
  BY <1>4, <1>5

(* Only a resume writes an entry, and it writes what it finds settled.      *)
LEMMA TellStep ==
  ASSUME StoreInv, [TNext]_allVars, NEW r \in Row, told'[r] # told[r]
  PROVE  Settled(r) /\ told'[r] = Message(r)
<1>1. ASSUME NEW d \in Driver, ResumeReads(d) PROVE Settled(r) /\ told'[r] = Message(r)
  <2> DEFINE t == drv[d].turn
             k == drv[d].sess
  <2>1. AllResolved(t, k) /\ r \in LatestBatch(t, k) /\ told'[r] = Message(r)
    BY <1>1 DEF ResumeReads
  <2>2. Visible(r, k) /\ ~Unresolved(r)
    BY <2>1 DEF AllResolved, LatestBatch, RowsOf
  <2>3. Settled(r)
    BY <2>2 DEF Visible, Unresolved, InFlight, Settled, StoreInv, TypeOK, Status
  <2>4. QED
    BY <2>1, <2>3
<1>2. CASE told' = told
  BY <1>2
<1>3. CASE StoreStep \/ RestartAll \/ (\E x \in Row : ClaimAges(x)) \/ UNCHANGED allVars
  BY <1>3 DEF StoreStep, RestartAll, ClaimAges, turnVars, allVars
<1>4. ASSUME NEW d \in Driver, NEW t \in Turn,
             AgentResume(d, t) \/ \E by \in Kind : StartTurn(d, t, by)
      PROVE  told' = told
  BY <1>4 DEF AgentResume, StartTurn
<1>5. ASSUME NEW d \in Driver, DriverStep(d), ~ResumeReads(d) PROVE told' = told
  BY <1>5 DEF DriverStep, Answers, Exit, ParkOne, Calls
<1>6. ASSUME NEW q \in Req, FinishStep(q) PROVE told' = told
  BY <1>6 DEF FinishStep, FinishCheck, FinishLaunch, FinishSpawn
<1>7. QED
  BY <1>1, <1>2, <1>3, <1>4, <1>5, <1>6 DEF TNext

ToldInv ==
  StaleInv /\ \A r \in Row : told[r] # "none" => Settled(r) /\ told[r] = Message(r)

LEMMA ToldInductive ==
  /\ TInit => ToldInv
  /\ StoreInv /\ ToldInv /\ [TNext]_allVars => ToldInv'
<1>1. TInit => ToldInv
  BY DEF TInit, ToldInv, StaleInv
<1>2. ASSUME StoreInv, ToldInv, [TNext]_allVars PROVE ToldInv'
  <2>1. StaleInv'
    BY <1>2, StaleStep DEF ToldInv
  <2>2. ASSUME NEW r \in Row, told'[r] # "none" PROVE Settled(r)' /\ told'[r] = Message(r)'
    <3>1. Settled(r) /\ told'[r] = Message(r)
      <4>1. CASE told'[r] = told[r]
        BY <1>2, <2>2, <4>1 DEF ToldInv
      <4>2. CASE told'[r] # told[r]
        BY <1>2, <4>2, TellStep
      <4>3. QED
        BY <4>1, <4>2
    <3>2. QED
      BY <1>2, <3>1, SettledStep DEF ToldInv
  <2>3. QED
    BY <2>1, <2>2 DEF ToldInv
<1>3. QED
  BY <1>1, <1>2

LEMMA ToldInvariant == TSpec => []ToldInv
BY ToldInductive, StoreInvariant, PTL DEF TSpec

(* "The assistant is never told an action succeeded when it didn't", for    *)
(* any number of turns, resumes and restarts: agent.resume_turn reads only  *)
(* rows whose handler has ended, or will never be heard of again.          *)
THEOREM ToldTrue == TSpec => []ToldTheTruth
<1>1. StoreInv /\ ToldInv => ToldTheTruth
  <2> SUFFICES ASSUME StoreInv, ToldInv, NEW r \in Row
               PROVE  /\ told[r] \in {"ok", "error"} => told[r] = ended[r]
                      /\ told[r] = "denied" => runs[r] = 0
                      /\ told[r] = "interrupted" => result[r] = "none"
    BY DEF ToldTheTruth
  <2>1. RowInv(r) /\ result[r] \in Outcome
    BY DEF StoreInv, ActionInv, TypeOK
  <2>2. told[r] # "none" => told[r] = Message(r) /\ Settled(r)
    BY DEF ToldInv
  <2>3. CASE status[r] = "executed" /\ result[r] # "none"
    <3>1. result[r] \in {"ok", "error"} /\ result[r] = ended[r]
      BY <2>1, <2>3 DEF RowInv, Outcome
    <3>2. told[r] = "none" \/ told[r] = result[r]
      BY <2>2, <2>3 DEF Message
    <3>3. QED
      BY <3>1, <3>2
  <2>4. CASE status[r] = "executed" /\ result[r] = "none"
    BY <2>1, <2>2, <2>4 DEF Message
  <2>5. CASE status[r] # "executed"
    BY <2>1, <2>2, <2>5 DEF Message, RowInv, Untouched
  <2>6. QED
    BY <2>3, <2>4, <2>5
<1>2. QED
  BY <1>1, StoreInvariant, ToldInvariant, PTL

(* A second page or a second worker that resumes the same park tells the    *)
(* model the same: nothing about a row changes once a resume has read it.   *)
THEOREM ToldForGood == TSpec => ToldIsStable
<1>1. ASSUME StoreInv, ToldInv, [TNext]_allVars
      PROVE  \A r \in Row : told[r] # "none" => told'[r] = told[r]
  BY <1>1, TellStep DEF ToldInv
<1>2. StoreInv /\ ToldInv /\ [TNext]_allVars
        => [\A r \in Row : told[r] # "none" => told'[r] = told[r]]_allVars
  BY <1>1
<1>3. QED
  BY <1>2, StoreInvariant, ToldInvariant, PTL DEF TSpec, ToldIsStable

-----------------------------------------------------------------------------
(* What a step makes of a driver. *)

Fields(s) ==
  s = [at |-> s.at, turn |-> s.turn, worker |-> s.worker, sess |-> s.sess, step |-> s.step,
       calls |-> s.calls, denied |-> s.denied, todo |-> s.todo, exit |-> s.exit]

(* e is s but for the field that has become y. *)
Agree(e, s, but) ==
  /\ Fields(e)
  /\ but # "at" => e.at = s.at
  /\ but # "turn" => e.turn = s.turn
  /\ but # "worker" => e.worker = s.worker
  /\ but # "sess" => e.sess = s.sess
  /\ but # "step" => e.step = s.step
  /\ but # "calls" => e.calls = s.calls
  /\ but # "denied" => e.denied = s.denied
  /\ but # "todo" => e.todo = s.todo
  /\ but # "exit" => e.exit = s.exit

LEMMA SetFacts ==
  ASSUME NEW s, Fields(s), NEW y
  PROVE  /\ [s EXCEPT !.at = y].at = y /\ Agree([s EXCEPT !.at = y], s, "at")
         /\ [s EXCEPT !.turn = y].turn = y /\ Agree([s EXCEPT !.turn = y], s, "turn")
         /\ [s EXCEPT !.worker = y].worker = y /\ Agree([s EXCEPT !.worker = y], s, "worker")
         /\ [s EXCEPT !.sess = y].sess = y /\ Agree([s EXCEPT !.sess = y], s, "sess")
         /\ [s EXCEPT !.step = y].step = y /\ Agree([s EXCEPT !.step = y], s, "step")
         /\ [s EXCEPT !.calls = y].calls = y /\ Agree([s EXCEPT !.calls = y], s, "calls")
         /\ [s EXCEPT !.denied = y].denied = y /\ Agree([s EXCEPT !.denied = y], s, "denied")
         /\ [s EXCEPT !.todo = y].todo = y /\ Agree([s EXCEPT !.todo = y], s, "todo")
         /\ [s EXCEPT !.exit = y].exit = y /\ Agree([s EXCEPT !.exit = y], s, "exit")
<1>1. [s EXCEPT !.at = y].at = y /\ Agree([s EXCEPT !.at = y], s, "at")
  BY DEF Fields, Agree
<1>2. [s EXCEPT !.turn = y].turn = y /\ Agree([s EXCEPT !.turn = y], s, "turn")
  BY DEF Fields, Agree
<1>3. [s EXCEPT !.worker = y].worker = y /\ Agree([s EXCEPT !.worker = y], s, "worker")
  BY DEF Fields, Agree
<1>4. [s EXCEPT !.sess = y].sess = y /\ Agree([s EXCEPT !.sess = y], s, "sess")
  BY DEF Fields, Agree
<1>5. [s EXCEPT !.step = y].step = y /\ Agree([s EXCEPT !.step = y], s, "step")
  BY DEF Fields, Agree
<1>6. [s EXCEPT !.calls = y].calls = y /\ Agree([s EXCEPT !.calls = y], s, "calls")
  BY DEF Fields, Agree
<1>7. [s EXCEPT !.denied = y].denied = y /\ Agree([s EXCEPT !.denied = y], s, "denied")
  BY DEF Fields, Agree
<1>8. [s EXCEPT !.todo = y].todo = y /\ Agree([s EXCEPT !.todo = y], s, "todo")
  BY DEF Fields, Agree
<1>9. [s EXCEPT !.exit = y].exit = y /\ Agree([s EXCEPT !.exit = y], s, "exit")
  BY DEF Fields, Agree
<1>10. QED
  BY <1>1, <1>2, <1>3, <1>4, <1>5, <1>6, <1>7, <1>8, <1>9

AfterCalls(s, c, x, a, k) == [s EXCEPT !.calls = c, !.todo = x, !.at = a, !.step = k]
AfterReads(s, a, k, c, n) == [s EXCEPT !.at = a, !.step = k, !.calls = c, !.denied = n]

(* e is s, with a new place, step, budget, denials and actions to park. *)
Moved(e, s, a, k, c, n, x) ==
  /\ Fields(e) /\ e.at = a /\ e.step = k /\ e.calls = c /\ e.denied = n /\ e.todo = x
  /\ e.worker = s.worker /\ e.turn = s.turn /\ e.sess = s.sess /\ e.exit = s.exit

LEMMA CallsSet ==
  ASSUME NEW s, Fields(s), NEW c, NEW x, NEW a, NEW k
  PROVE  Moved(AfterCalls(s, c, x, a, k), s, a, k, c, s.denied, x)
<1> DEFINE u == [s EXCEPT !.calls = c]
           v == [u EXCEPT !.todo = x]
           w == [v EXCEPT !.at = a]
           z == [w EXCEPT !.step = k]
<1>1. AfterCalls(s, c, x, a, k) = z
  BY DEF Fields, AfterCalls
<1>2. u.calls = c /\ Agree(u, s, "calls")
  BY SetFacts
<1> HIDE DEF u
<1>3. v.todo = x /\ Agree(v, u, "todo")
  <2>1. Fields(u)
    BY <1>2 DEF Agree
  <2>2. QED
    BY <2>1, SetFacts
<1> HIDE DEF v
<1>4. w.at = a /\ Agree(w, v, "at")
  <2>1. Fields(v)
    BY <1>3 DEF Agree
  <2>2. QED
    BY <2>1, SetFacts
<1> HIDE DEF w
<1>5. z.step = k /\ Agree(z, w, "step")
  <2>1. Fields(w)
    BY <1>4 DEF Agree
  <2>2. QED
    BY <2>1, SetFacts
<1> HIDE DEF z
<1>6. QED
  BY <1>1, <1>2, <1>3, <1>4, <1>5 DEF Agree, Moved

LEMMA ReadsSet ==
  ASSUME NEW s, Fields(s), NEW a, NEW k, NEW c, NEW n
  PROVE  Moved(AfterReads(s, a, k, c, n), s, a, k, c, n, s.todo)
<1> DEFINE u == [s EXCEPT !.at = a]
           v == [u EXCEPT !.step = k]
           w == [v EXCEPT !.calls = c]
           z == [w EXCEPT !.denied = n]
<1>1. AfterReads(s, a, k, c, n) = z
  BY DEF Fields, AfterReads
<1>2. u.at = a /\ Agree(u, s, "at")
  BY SetFacts
<1> HIDE DEF u
<1>3. v.step = k /\ Agree(v, u, "step")
  <2>1. Fields(u)
    BY <1>2 DEF Agree
  <2>2. QED
    BY <2>1, SetFacts
<1> HIDE DEF v
<1>4. w.calls = c /\ Agree(w, v, "calls")
  <2>1. Fields(v)
    BY <1>3 DEF Agree
  <2>2. QED
    BY <2>1, SetFacts
<1> HIDE DEF w
<1>5. z.denied = n /\ Agree(z, w, "denied")
  <2>1. Fields(w)
    BY <1>4 DEF Agree
  <2>2. QED
    BY <2>1, SetFacts
<1> HIDE DEF z
<1>6. QED
  BY <1>1, <1>2, <1>3, <1>4, <1>5 DEF Agree, Moved

(* e is a driver that begins with a turn. *)
Begun(e, a, t, w, k) ==
  /\ Fields(e) /\ e.at = a /\ e.turn = t /\ e.worker = w /\ e.sess = k
  /\ e.step = 0 /\ e.calls = 0 /\ e.denied = {} /\ e.todo = {} /\ e.exit = <<>>

LEMMA IdleFields == Fields(Idle)
BY DEF Idle, Fields

LEMMA ResumeSet ==
  ASSUME NEW t, NEW w, NEW k
  PROVE  Begun([Idle EXCEPT !.at = "resume", !.turn = t, !.worker = w, !.sess = k], "resume", t, w, k)
<1> DEFINE u == [Idle EXCEPT !.at = "resume"]
           v == [u EXCEPT !.turn = t]
           x == [v EXCEPT !.worker = w]
           e == [x EXCEPT !.sess = k]
<1>1. [Idle EXCEPT !.at = "resume", !.turn = t, !.worker = w, !.sess = k] = e
  BY IdleFields DEF Fields
<1>2. u.at = "resume" /\ Agree(u, Idle, "at")
  BY SetFacts, IdleFields
<1> HIDE DEF u
<1>3. v.turn = t /\ Agree(v, u, "turn")
  <2>1. Fields(u)
    BY <1>2 DEF Agree
  <2>2. QED
    BY <2>1, SetFacts
<1> HIDE DEF v
<1>4. x.worker = w /\ Agree(x, v, "worker")
  <2>1. Fields(v)
    BY <1>3 DEF Agree
  <2>2. QED
    BY <2>1, SetFacts
<1> HIDE DEF x
<1>5. e.sess = k /\ Agree(e, x, "sess")
  <2>1. Fields(x)
    BY <1>4 DEF Agree
  <2>2. QED
    BY <2>1, SetFacts
<1> HIDE DEF e
<1>6. QED
  BY <1>1, <1>2, <1>3, <1>4, <1>5 DEF Agree, Begun, Idle

LEMMA StartSet ==
  ASSUME NEW t, NEW k
  PROVE  Begun([Idle EXCEPT !.at = "loop", !.turn = t, !.sess = k], "loop", t, FALSE, k)
<1> DEFINE u == [Idle EXCEPT !.at = "loop"]
           v == [u EXCEPT !.turn = t]
           e == [v EXCEPT !.sess = k]
<1>1. [Idle EXCEPT !.at = "loop", !.turn = t, !.sess = k] = e
  BY IdleFields DEF Fields
<1>2. u.at = "loop" /\ Agree(u, Idle, "at")
  BY SetFacts, IdleFields
<1> HIDE DEF u
<1>3. v.turn = t /\ Agree(v, u, "turn")
  <2>1. Fields(u)
    BY <1>2 DEF Agree
  <2>2. QED
    BY <2>1, SetFacts
<1> HIDE DEF v
<1>4. e.sess = k /\ Agree(e, v, "sess")
  <2>1. Fields(v)
    BY <1>3 DEF Agree
  <2>2. QED
    BY <2>1, SetFacts
<1> HIDE DEF e
<1>5. QED
  BY <1>1, <1>2, <1>3, <1>4 DEF Agree, Begun, Idle

(* e is a driver on its way out. *)
Left(e, t, w, p) ==
  /\ Fields(e) /\ e.at = "exit" /\ e.turn = t /\ e.worker = w /\ e.sess = 0
  /\ e.step = 0 /\ e.calls = 0 /\ e.denied = {} /\ e.todo = {} /\ e.exit = p

LEMMA ExitSet ==
  ASSUME NEW t, NEW w, NEW p
  PROVE  Left([Idle EXCEPT !.at = "exit", !.turn = t, !.worker = w, !.exit = p], t, w, p)
<1> DEFINE u == [Idle EXCEPT !.at = "exit"]
           v == [u EXCEPT !.turn = t]
           x == [v EXCEPT !.worker = w]
           e == [x EXCEPT !.exit = p]
<1>1. [Idle EXCEPT !.at = "exit", !.turn = t, !.worker = w, !.exit = p] = e
  BY IdleFields DEF Fields
<1>2. u.at = "exit" /\ Agree(u, Idle, "at")
  BY SetFacts, IdleFields
<1> HIDE DEF u
<1>3. v.turn = t /\ Agree(v, u, "turn")
  <2>1. Fields(u)
    BY <1>2 DEF Agree
  <2>2. QED
    BY <2>1, SetFacts
<1> HIDE DEF v
<1>4. x.worker = w /\ Agree(x, v, "worker")
  <2>1. Fields(v)
    BY <1>3 DEF Agree
  <2>2. QED
    BY <2>1, SetFacts
<1> HIDE DEF x
<1>5. e.exit = p /\ Agree(e, x, "exit")
  <2>1. Fields(x)
    BY <1>4 DEF Agree
  <2>2. QED
    BY <2>1, SetFacts
<1> HIDE DEF e
<1>6. QED
  BY <1>1, <1>2, <1>3, <1>4, <1>5 DEF Agree, Left, Idle

-----------------------------------------------------------------------------
(* One worker to a turn. *)

(* Between its entry in _RESUMING_TURNS and the discard of it, a turn is in  *)
(* the hands of one request or of one worker.                              *)
Spawning(q) == fin[q] = "spawn"
TurnOf(q) == park[tgt[q]].turn
Working(d) == drv[d].worker /\ drv[d].exit # <<"record">>

WorkerExit == {<<"discard">>, <<"discard", "record">>, <<"record", "discard">>}

DriverOK(s) ==
  /\ Fields(s) /\ s.worker \in BOOLEAN
  /\ s.at = "idle" => ~s.worker
  /\ s.at = "exit" => s.exit = <<"record">> \/ (s.worker /\ s.exit \in WorkerExit)
  /\ s.at # "exit" => s.exit = <<>>

Shapes ==
  /\ drv = [d \in Driver |-> drv[d]] /\ \A d \in Driver : DriverOK(drv[d])
  /\ fin \in [Req -> {"check", "launch", "spawn"}]
  /\ park = [r \in Row |-> park[r]]

Hands ==
  /\ \A q \in Req : fin[q] # "check" => pc[q] = "finishing"
  /\ \A q \in Req : Spawning(q) => TurnOf(q) \in resuming
  /\ \A d \in Driver : Working(d) => drv[d].turn \in resuming
  /\ \A p, q \in Req : Spawning(p) /\ Spawning(q) /\ TurnOf(p) = TurnOf(q) => p = q
  /\ \A q \in Req, d \in Driver : Spawning(q) /\ Working(d) => TurnOf(q) # drv[d].turn
  /\ \A c, d \in Driver : Working(c) /\ Working(d) /\ drv[c].turn = drv[d].turn => c = d

WorkerInv == Shapes /\ Hands

(* A request on its way out keeps its row until it has answered.            *)
LEMMA FinishingStays ==
  ASSUME StoreInv, NEW q \in Req, pc[q] = "finishing",
         \/ StoreStep \/ UNCHANGED reqVars
         \/ \E p \in Req : p # q /\ Finish(p)
  PROVE  pc'[q] = pc[q] /\ tgt'[q] = tgt[q]
<1>1. CASE UNCHANGED reqVars
  BY <1>1 DEF reqVars
<1>2. CASE \E p \in Req : p # q /\ Finish(p)
  BY <1>2 DEF Finish, Goto, StoreInv, TypeOK
<1>3. ASSUME NEW p \in Req, RouteStep(p) PROVE pc'[q] = pc[q] /\ tgt'[q] = tgt[q]
  <2>1. p # q
    BY <1>3 DEF RouteStep, ApproveRead, DenyRead, ApproveCas, DenyCas, Claim, HandlerStarts,
                HandlerEnds, StoreRead, StoreWrite
  <2>2. QED
    BY <1>3, <2>1
    DEF RouteStep, ApproveRead, DenyRead, ApproveCas, DenyCas, Claim, Cas, HandlerStarts,
        HandlerEnds, StoreRead, StoreWrite, Goto, StoreInv, TypeOK
<1>4. ASSUME NEW p \in Req, NEW r \in Row, NEW a \in {"reading", "readingToDeny"},
             Open(p, r, a)
      PROVE  pc'[q] = pc[q] /\ tgt'[q] = tgt[q]
  BY <1>4 DEF Open, Goto, StoreInv, TypeOK
<1>5. QED
  BY <1>1, <1>2, <1>3, <1>4 DEF StoreStep, Unlock, Lock, Sweep, Age

(* A driver moves, and may give the turn up; the requests stand still.       *)
LEMMA DriverMoves ==
  ASSUME WorkerInv, NEW d \in Driver,
         drv' = [drv EXCEPT ![d] = drv'[d]], DriverOK(drv'[d]),
         UNCHANGED <<pc, tgt, fin>>, park' = [r \in Row |-> park'[r]],
         \A q \in Req : Spawning(q) => TurnOf(q)' = TurnOf(q),
         \/ /\ resuming' = resuming
            /\ Working(d)' => Working(d) /\ drv'[d].turn = drv[d].turn
         \/ /\ Working(d) /\ ~Working(d)'
            /\ resuming' = resuming \ {drv[d].turn}
  PROVE  WorkerInv'
<1>1. \A c \in Driver : c # d => drv'[c] = drv[c]
  BY DEF WorkerInv, Shapes
<1>2. Shapes'
  BY <1>1 DEF WorkerInv, Shapes
<1>3. Hands'
  BY <1>1 DEF WorkerInv, Hands, Spawning, Working
<1>4. QED
  BY <1>2, <1>3 DEF WorkerInv

LEMMA Paths == <<>> \notin WorkerExit /\ <<"record">> \notin WorkerExit /\ <<>> # <<"record">>
BY DEF WorkerExit

(* ExitPath and Leave: a worker leaves by way of the discard, any other      *)
(* driver records at most.                                                 *)
LEMMA LeaveFacts ==
  ASSUME Shapes, NEW d \in Driver, NEW path, Leave(d, path),
         \/ path = <<>>
         \/ path = <<"record">>
         \/ drv[d].worker /\ path \in WorkerExit
  PROVE  /\ drv' = [drv EXCEPT ![d] = drv'[d]] /\ DriverOK(drv'[d])
         /\ path = <<>> => ~drv'[d].worker
         /\ path # <<>> => /\ drv'[d].worker = drv[d].worker /\ drv'[d].turn = drv[d].turn
                           /\ drv'[d].exit = path
<1> DEFINE e == IF path = <<>> THEN Idle
                ELSE [Idle EXCEPT !.at = "exit", !.turn = drv[d].turn,
                                  !.worker = drv[d].worker, !.exit = path]
<1>1. drv' = [drv EXCEPT ![d] = e] /\ drv'[d] = e
  BY DEF Leave, Shapes
<1>2. drv[d].worker \in BOOLEAN
  BY DEF Shapes, DriverOK
<1>3. DriverOK(Idle) /\ ~Idle.worker
  BY DEF DriverOK, Fields, Idle
<1>4. CASE path # <<>>
  <2>1. Left(e, drv[d].turn, drv[d].worker, path)
    BY <1>4, ExitSet
  <2> HIDE DEF e
  <2>2. /\ e.at = "exit" /\ e.worker = drv[d].worker /\ e.turn = drv[d].turn /\ e.exit = path
        /\ Fields(e)
    BY <2>1 DEF Left
  <2>3. path = <<"record">> \/ (drv[d].worker /\ path \in WorkerExit)
    BY <1>4
  <2>4. DriverOK(e)
    BY <1>2, <2>2, <2>3 DEF DriverOK
  <2>5. QED
    BY <1>1, <1>4, <2>2, <2>4
<1>5. QED
  BY <1>1, <1>3, <1>4

LEMMA EndLoopFacts ==
  ASSUME Shapes, NEW d \in Driver, NEW outcome \in {"complete", "error", "parked"},
         drv[d].at \notin {"idle", "exit"}, EndLoop(d, outcome)
  PROVE  /\ drv' = [drv EXCEPT ![d] = drv'[d]] /\ DriverOK(drv'[d])
         /\ Working(d)' <=> Working(d)
         /\ Working(d) => drv'[d].turn = drv[d].turn
<1> DEFINE path == ExitPath(d, outcome)
<1>1. drv[d].worker \in BOOLEAN /\ drv[d].exit = <<>>
  BY DEF Shapes, DriverOK
<1>2. CASE drv[d].worker
  <2>1. path \in WorkerExit
    BY <1>2 DEF ExitPath, WorkerExit
  <2>2. path # <<>> /\ path # <<"record">> /\ drv[d].exit # <<"record">>
    BY <1>1, <2>1, Paths
  <2> HIDE DEF path
  <2>3. Leave(d, path)
    BY DEF EndLoop, path
  <2>4. QED
    BY <1>2, <2>1, <2>2, <2>3, LeaveFacts DEF Working
<1>3. CASE ~drv[d].worker
  <2>1. path = <<>>
    BY <1>3 DEF ExitPath
  <2>2. QED
    BY <1>1, <1>3, <2>1, LeaveFacts DEF EndLoop, Working
<1>4. QED
  BY <1>1, <1>2, <1>3

Same(e, s) ==
  Fields(e) /\ e.worker = s.worker /\ e.turn = s.turn /\ e.exit = s.exit

(* A step of a driver within its loop. *)
LEMMA LoopFacts ==
  ASSUME Shapes, NEW d \in Driver, NEW e,
         drv' = [drv EXCEPT ![d] = e], Same(e, drv[d]),
         e.at \notin {"idle", "exit"}, drv[d].at \notin {"idle", "exit"}
  PROVE  /\ drv' = [drv EXCEPT ![d] = drv'[d]] /\ DriverOK(drv'[d])
         /\ Working(d)' <=> Working(d)
         /\ Working(d) => drv'[d].turn = drv[d].turn
<1>1. drv'[d] = e
  BY DEF Shapes
<1>2. DriverOK(drv[d])
  BY DEF Shapes
<1>3. DriverOK(e)
  BY <1>2 DEF DriverOK, Same
<1>4. QED
  BY <1>1, <1>3 DEF Working, Same

(* A step of a driver, as far as the hands are concerned that a turn is in. *)
DriverWorks(d) ==
  /\ drv' = [drv EXCEPT ![d] = drv'[d]] /\ DriverOK(drv'[d])
  /\ UNCHANGED <<pc, tgt, fin>> /\ park' = [r \in Row |-> park'[r]]
  /\ \A q \in Req : Spawning(q) => TurnOf(q)' = TurnOf(q)
  /\ \/ /\ resuming' = resuming
        /\ Working(d)' <=> Working(d)
        /\ Working(d) => drv'[d].turn = drv[d].turn
     \/ /\ Working(d) /\ ~Working(d)'
        /\ resuming' = resuming \ {drv[d].turn}

LEMMA DriverHands ==
  ASSUME StoreInv, WorkerInv, NEW d \in Driver, DriverStep(d)
  PROVE  DriverWorks(d)
<1>1. Shapes /\ DriverOK(drv[d]) /\ Fields(drv[d])
  BY DEF WorkerInv, Shapes, DriverOK
<1>2. CASE Answers(d)
  <2>1. PICK outcome \in {"complete", "error"} : EndLoop(d, outcome)
    BY <1>2 DEF Answers
  <2>2. drv[d].at = "loop" /\ UNCHANGED <<vars, park, fin, resuming>>
    BY <1>2 DEF Answers
  <2>3. QED
    BY <1>1, <2>1, <2>2, EndLoopFacts
    DEF DriverWorks, vars, reqVars, WorkerInv, Shapes, TurnOf
<1>3. ASSUME NEW asked, NEW inline, Calls(d, asked, inline) PROVE DriverWorks(d)
  <2> DEFINE at == IF Parked(d, asked) = {} THEN "loop" ELSE "parking"
             step == IF Parked(d, asked) = {} THEN drv[d].step + 1 ELSE drv[d].step
             calls == drv[d].calls + Cardinality(asked) + inline
             todo == Parked(d, asked)
             e == AfterCalls(drv[d], calls, todo, at, step)
  <2>1. drv' = [drv EXCEPT ![d] = e]
    BY <1>3 DEF Calls, AfterCalls
  <2>2. at \in {"loop", "parking"}
    OBVIOUS
  <2> HIDE DEF at, step, calls, todo
  <2>3. Same(e, drv[d]) /\ e.at = at
    BY <1>1, CallsSet DEF Moved, Same
  <2>4. drv[d].at = "loop" /\ UNCHANGED <<vars, park, fin, resuming>>
    BY <1>3 DEF Calls
  <2> HIDE DEF e
  <2>5. QED
    BY <1>1, <2>1, <2>2, <2>3, <2>4, LoopFacts
    DEF DriverWorks, vars, reqVars, WorkerInv, Shapes, TurnOf
<1>4. ASSUME NEW r \in Row, NEW a \in Action, ParkOne(d, r, a) PROVE DriverWorks(d)
  <2>1. drv[d].at = "parking" /\ status[r] = "absent" /\ UNCHANGED <<reqVars, fin, resuming>>
    BY <1>4 DEF ParkOne, CreatePending
  <2>2. /\ park' = [x \in Row |-> park'[x]]
        /\ \A x \in Row : x # r => park'[x] = park[x]
    BY <1>1, <1>4 DEF ParkOne, Shapes
  <2>3. ASSUME NEW q \in Req, Spawning(q) PROVE TurnOf(q)' = TurnOf(q)
    <3>1. status[tgt[q]] # "absent" /\ tgt[q] \in Row
      BY <2>3 DEF WorkerInv, Hands, Spawning, StoreInv, SessionInv, TypeOK
    <3>2. QED
      BY <2>1, <2>2, <3>1 DEF TurnOf, reqVars
  <2>4. CASE EndLoop(d, "parked")
    BY <1>1, <2>1, <2>2, <2>3, <2>4, EndLoopFacts DEF DriverWorks, reqVars
  <2>5. CASE drv' = [drv EXCEPT ![d].todo = @ \ {a}]
    <3> DEFINE e == [drv[d] EXCEPT !.todo = @ \ {a}]
    <3>1. drv' = [drv EXCEPT ![d] = e]
      BY <2>5
    <3>2. Same(e, drv[d]) /\ e.at = drv[d].at
      BY <1>1 DEF Same, Fields
    <3> HIDE DEF e
    <3>3. QED
      BY <1>1, <2>1, <2>2, <2>3, <3>1, <3>2, LoopFacts DEF DriverWorks, reqVars
  <2>6. QED
    BY <1>4, <2>4, <2>5 DEF ParkOne
<1>5. CASE ResumeReads(d)
  <2>1. drv[d].at = "resume" /\ UNCHANGED <<vars, park, fin, resuming>>
    BY <1>5 DEF ResumeReads
  <2>2. CASE EndLoop(d, "parked")
    BY <1>1, <2>1, <2>2, EndLoopFacts
    DEF DriverWorks, vars, reqVars, WorkerInv, Shapes, TurnOf
  <2>3. CASE AllResolved(drv[d].turn, drv[d].sess)
    <3> DEFINE t == drv[d].turn
               k == drv[d].sess
    <3>0. PICK x \in LatestBatch(t, k) : drv' = [drv EXCEPT
            ![d].at = "loop", ![d].step = LatestStep(t, k) + 1, ![d].calls = CallsSoFar(x),
            ![d].denied = {park[r].act : r \in {y \in RowsOf(t, k) : status[y] = "denied"}}]
      BY <1>5, <2>3 DEF ResumeReads
    <3> DEFINE step == LatestStep(t, k) + 1
               calls == CallsSoFar(x)
               denied == {park[r].act : r \in {y \in RowsOf(t, k) : status[y] = "denied"}}
               e == AfterReads(drv[d], "loop", step, calls, denied)
    <3>1. drv' = [drv EXCEPT ![d] = e]
      BY <3>0 DEF AfterReads
    <3> HIDE DEF step, calls, denied
    <3>2. Same(e, drv[d]) /\ e.at = "loop"
      BY <1>1, ReadsSet DEF Moved, Same
    <3> HIDE DEF e
    <3>3. QED
      BY <1>1, <2>1, <3>1, <3>2, LoopFacts
      DEF DriverWorks, vars, reqVars, WorkerInv, Shapes, TurnOf
  <2>4. QED
    BY <1>5, <2>2, <2>3 DEF ResumeReads
<1>6. CASE Exit(d)
  <2>1. drv[d].at = "exit" /\ UNCHANGED <<vars, park, fin>> /\ Leave(d, Tail(drv[d].exit))
    BY <1>6 DEF Exit
  <2>2. /\ \A q \in Req : Spawning(q) => TurnOf(q)' = TurnOf(q)
        /\ UNCHANGED <<pc, tgt, fin>> /\ park' = [r \in Row |-> park'[r]]
    BY <1>1, <2>1 DEF vars, reqVars, Shapes, TurnOf
  <2>3. CASE drv[d].exit = <<"record">>
    <3>1. Tail(drv[d].exit) = <<>> /\ resuming' = resuming /\ ~Working(d)
      BY <1>6, <2>3 DEF Exit, Working
    <3>2. /\ drv' = [drv EXCEPT ![d] = drv'[d]] /\ DriverOK(drv'[d])
          /\ ~drv'[d].worker
      BY <1>1, <2>1, <3>1, LeaveFacts
    <3>3. (Working(d)' <=> Working(d)) /\ (Working(d) => drv'[d].turn = drv[d].turn)
      BY <3>1, <3>2 DEF Working
    <3>4. QED
      BY <2>2, <3>1, <3>2, <3>3 DEF DriverWorks
  <2>4. CASE drv[d].exit \in {<<"discard">>, <<"discard", "record">>} /\ drv[d].worker
    <3>1. /\ Tail(drv[d].exit) \in {<<>>, <<"record">>}
          /\ resuming' = resuming \ {drv[d].turn} /\ drv[d].exit \in WorkerExit
      <4>1. drv[d].exit \in WorkerExit
        BY <2>4 DEF WorkerExit
      <4>2. CASE drv[d].exit = <<"discard">>
        BY <1>6, <4>1, <4>2 DEF Exit
      <4>3. CASE drv[d].exit = <<"discard", "record">>
        BY <1>6, <4>1, <4>3 DEF Exit
      <4>4. QED
        BY <2>4, <4>2, <4>3
    <3>2. /\ drv' = [drv EXCEPT ![d] = drv'[d]] /\ DriverOK(drv'[d])
          /\ ~drv'[d].worker \/ drv'[d].exit = <<"record">>
      BY <1>1, <2>1, <3>1, LeaveFacts
    <3>3. Working(d) /\ ~Working(d)'
      BY <2>4, <3>1, <3>2, Paths DEF Working
    <3>4. QED
      BY <2>2, <3>1, <3>2, <3>3 DEF DriverWorks
  <2>5. CASE drv[d].exit = <<"record", "discard">> /\ drv[d].worker
    <3>1. /\ Tail(drv[d].exit) = <<"discard">> /\ resuming' = resuming
          /\ drv[d].exit \in WorkerExit
      BY <1>6, <2>5 DEF Exit, WorkerExit
    <3>2. <<"discard">> \in WorkerExit
      BY DEF WorkerExit
    <3>3. /\ drv' = [drv EXCEPT ![d] = drv'[d]] /\ DriverOK(drv'[d])
          /\ drv'[d].worker /\ drv'[d].turn = drv[d].turn /\ drv'[d].exit = <<"discard">>
      BY <1>1, <2>1, <2>5, <3>1, <3>2, Paths, LeaveFacts
    <3>4. Working(d) /\ Working(d)'
      BY <2>5, <3>1, <3>2, <3>3, Paths DEF Working
    <3>5. QED
      BY <2>2, <3>1, <3>3, <3>4 DEF DriverWorks
  <2>6. QED
    BY <1>1, <2>1, <2>2, <2>3, <2>4, <2>5 DEF DriverOK, WorkerExit
<1>7. QED
  BY <1>2, <1>3, <1>4, <1>5, <1>6 DEF DriverStep

LEMMA DriverWorkers ==
  ASSUME StoreInv, WorkerInv, NEW d \in Driver, DriverStep(d)
  PROVE  WorkerInv'
BY DriverHands, DriverMoves DEF DriverWorks

(* Starting a loop takes a free driver.                                     *)
LEMMA ResumeFacts ==
  ASSUME Shapes, NEW d \in Driver, NEW t, NEW w \in BOOLEAN, ResumeWith(d, t, w)
  PROVE  /\ drv' = [drv EXCEPT ![d] = drv'[d]] /\ DriverOK(drv'[d])
         /\ drv'[d].worker = w /\ drv'[d].turn = t
<1>1. drv' = [drv EXCEPT ![d] = drv'[d]] /\ Begun(drv'[d], "resume", t, w, session)
  BY ResumeSet DEF ResumeWith, Shapes
<1>2. QED
  BY <1>1 DEF Begun, DriverOK

LEMMA StartFacts ==
  ASSUME Shapes, NEW d \in Driver, NEW t, NEW by, StartTurn(d, t, by)
  PROVE  /\ drv' = [drv EXCEPT ![d] = drv'[d]] /\ DriverOK(drv'[d])
         /\ ~drv'[d].worker
<1>1. drv' = [drv EXCEPT ![d] = drv'[d]] /\ Begun(drv'[d], "loop", t, FALSE, session)
  BY StartSet DEF StartTurn, Shapes
<1>2. QED
  BY <1>1 DEF Begun, DriverOK

(* A request on its way out.  Launching is what takes the turn: under        *)
(* _RESUME_LOCK nobody holds a turn that is not in the set.                *)
LEMMA FinishWorkers ==
  ASSUME StoreInv, WorkerInv, NEW q \in Req, FinishStep(q)
  PROVE  WorkerInv'
<1> DEFINE Rest == \A p \in Req : p # q =>
                     /\ fin'[p] = fin[p]
                     /\ fin[p] # "check" => pc'[p] = pc[p] /\ tgt'[p] = tgt[p]
<1>1. LeaveRequest(q) =>
        Rest /\ fin'[q] = "check" /\ fin' \in [Req -> {"check", "launch", "spawn"}]
  <2>1. ASSUME LeaveRequest(q), NEW p \in Req, p # q, fin[p] # "check"
        PROVE  pc'[p] = pc[p] /\ tgt'[p] = tgt[p]
    BY <2>1, FinishingStays DEF LeaveRequest, WorkerInv, Hands
  <2>2. QED
    BY <2>1 DEF LeaveRequest, WorkerInv, Shapes
<1>2. CASE FinishCheck(q)
  <2>1. /\ Rest /\ fin' \in [Req -> {"check", "launch", "spawn"}]
        /\ fin'[q] = "check" \/ (fin'[q] = "launch" /\ pc'[q] = "finishing")
        /\ UNCHANGED <<park, drv, resuming>>
    BY <1>1, <1>2 DEF FinishCheck, WorkerInv, Shapes, vars, reqVars
  <2>2. QED
    BY <2>1 DEF WorkerInv, Shapes, Hands, Spawning, Working, TurnOf
<1>3. CASE FinishLaunch(q)
  <2>1. CASE LeaveRequest(q) /\ UNCHANGED resuming
    BY <1>1, <1>3, <2>1 DEF FinishLaunch, WorkerInv, Shapes, Hands, Spawning, Working, TurnOf
  <2>2. CASE /\ TurnOf(q) \notin resuming /\ resuming' = resuming \cup {TurnOf(q)}
             /\ fin' = [fin EXCEPT ![q] = "spawn"] /\ UNCHANGED vars
    <3>1. /\ UNCHANGED <<park, drv, pc, tgt>> /\ pc[q] = "finishing"
          /\ fin'[q] = "spawn" /\ \A p \in Req : p # q => fin'[p] = fin[p]
          /\ fin' \in [Req -> {"check", "launch", "spawn"}]
      BY <1>3, <2>2 DEF FinishLaunch, vars, reqVars, WorkerInv, Shapes
    <3>2. Shapes'
      BY <3>1 DEF WorkerInv, Shapes
    <3>3. Hands'
      BY <2>2, <3>1 DEF WorkerInv, Hands, Spawning, Working, TurnOf
    <3>4. QED
      BY <3>2, <3>3 DEF WorkerInv
  <2>3. QED
    BY <1>3, <2>1, <2>2 DEF FinishLaunch, MayLaunch, TurnOf
<1>4. CASE FinishSpawn(q)
  <2>1. /\ Rest /\ fin'[q] = "check" /\ fin' \in [Req -> {"check", "launch", "spawn"}]
        /\ UNCHANGED <<park, resuming>> /\ Spawning(q)
    BY <1>1, <1>4 DEF FinishSpawn, Spawning
  <2>2. CASE UNCHANGED drv
    BY <2>1, <2>2 DEF WorkerInv, Shapes, Hands, Spawning, Working, TurnOf
  <2>3. ASSUME NEW d \in Driver, ResumeWith(d, TurnOf(q), TRUE) PROVE WorkerInv'
    <3>1. /\ \A c \in Driver : c # d => drv'[c] = drv[c]
          /\ drv' = [drv EXCEPT ![d] = drv'[d]] /\ DriverOK(drv'[d])
          /\ drv'[d].turn = TurnOf(q)
      BY <2>3, ResumeFacts DEF WorkerInv, Shapes
    <3>2. Shapes'
      BY <2>1, <3>1 DEF WorkerInv, Shapes
    <3>3. Hands'
      BY <2>1, <3>1 DEF WorkerInv, Hands, Spawning, Working, TurnOf
    <3>4. QED
      BY <3>2, <3>3 DEF WorkerInv
  <2>4. QED
    BY <1>4, <2>2, <2>3 DEF FinishSpawn, TurnOf
<1>5. QED
  BY <1>2, <1>3, <1>4 DEF FinishStep

LEMMA WorkerInductive ==
  /\ TInit => WorkerInv
  /\ StoreInv /\ WorkerInv /\ [TNext]_allVars => WorkerInv'
<1>1. DriverOK(Idle) /\ ~Idle.worker
  BY DEF DriverOK, Fields, Idle
<1>2. ASSUME TInit PROVE WorkerInv
  <2>1. /\ drv = [d \in Driver |-> Idle] /\ fin = [q \in Req |-> "check"]
        /\ park = [r \in Row |-> park[r]]
    BY <1>2 DEF TInit
  <2>2. QED
    BY <1>1, <2>1 DEF WorkerInv, Shapes, Hands, Spawning, Working
<1>3. ASSUME StoreInv, WorkerInv, [TNext]_allVars PROVE WorkerInv'
  <2>1. ASSUME StoreStep \/ UNCHANGED allVars PROVE WorkerInv'
    <3>1. UNCHANGED <<drv, fin, park, resuming>>
      BY <2>1 DEF StoreStep, turnVars, allVars
    <3>2. \A q \in Req : fin[q] # "check" => pc'[q] = pc[q] /\ tgt'[q] = tgt[q]
      BY <1>3, <2>1, FinishingStays DEF allVars, vars, WorkerInv, Hands
    <3>3. QED
      BY <1>3, <3>1, <3>2 DEF WorkerInv, Shapes, Hands, Spawning, Working, TurnOf
  <2>2. ASSUME RestartAll PROVE WorkerInv'
    <3>1. /\ drv' = [d \in Driver |-> Idle] /\ fin' = [q \in Req |-> "check"] /\ park' = park
      BY <2>2 DEF RestartAll
    <3>2. QED
      BY <1>1, <1>3, <3>1 DEF WorkerInv, Shapes, Hands, Spawning, Working
  <2>3. ASSUME NEW d \in Driver, NEW t \in Turn, AgentResume(d, t) PROVE WorkerInv'
    <3>1. ResumeWith(d, t, FALSE) /\ UNCHANGED <<vars, park, fin, resuming>>
      BY <2>3 DEF AgentResume
    <3>2. /\ drv' = [drv EXCEPT ![d] = drv'[d]] /\ DriverOK(drv'[d]) /\ ~Working(d)'
      BY <1>3, <3>1, ResumeFacts DEF WorkerInv, Working
    <3>3. QED
      BY <1>3, <3>1, <3>2, DriverMoves DEF vars, reqVars, WorkerInv, Shapes, TurnOf
  <2>4. ASSUME NEW d \in Driver, NEW t \in Turn, NEW by \in Kind, StartTurn(d, t, by)
        PROVE  WorkerInv'
    <3>1. UNCHANGED <<vars, park, fin, resuming>>
      BY <2>4 DEF StartTurn
    <3>2. /\ drv' = [drv EXCEPT ![d] = drv'[d]] /\ DriverOK(drv'[d]) /\ ~Working(d)'
      BY <1>3, <2>4, StartFacts DEF WorkerInv, Working
    <3>3. QED
      BY <1>3, <3>1, <3>2, DriverMoves DEF vars, reqVars, WorkerInv, Shapes, TurnOf
  <2>5. ASSUME NEW r \in Row, ClaimAges(r) PROVE WorkerInv'
    <3>1. UNCHANGED <<pc, tgt, drv, fin, park, resuming>>
      BY <2>5 DEF ClaimAges, vars, reqVars
    <3>2. QED
      BY <1>3, <3>1 DEF WorkerInv, Shapes, Hands, Spawning, Working, TurnOf
  <2>6. QED
    BY <1>3, <2>1, <2>2, <2>3, <2>4, <2>5, DriverWorkers, FinishWorkers DEF TNext
<1>4. QED
  BY <1>2, <1>3

(* _RESUMING_TURNS, under _RESUME_LOCK, lets one background worker drive a   *)
(* turn at a time, however many requests finish its rows at once, and       *)
(* although the worker starts only after the lock is released.             *)
THEOREM OneWorker == TSpec => []OneWorkerPerTurn
<1>1. WorkerInv => OneWorkerPerTurn
  BY DEF WorkerInv, Hands, Spawning, Working, TurnOf, Spawns, Works, OneWorkerPerTurn
<1>2. QED
  BY <1>1, WorkerInductive, StoreInvariant, PTL DEF TSpec

-----------------------------------------------------------------------------
(* Types. *)

(* TTypeOK, but for what it says of budgets and batches. *)
PlainTypes ==
  /\ TypeOK
  /\ park \in [Row -> Park] /\ stale \subseteq Row
  /\ drv \in [Driver -> DriverState] /\ fin \in [Req -> {"check", "launch", "spawn"}]
  /\ resuming \subseteq Turn /\ kind \in [Turn -> Kind \cup {"none"}]
  /\ told \in [Row -> Told]
  /\ drives \in [Turn -> [0..(MaxSteps - 1) -> Nat]] /\ paged \subseteq Turn

TypesInv ==
  /\ PlainTypes
  /\ \A d \in Driver : drv[d].at # "idle" => drv[d].turn \in Turn
  /\ \A d \in Driver : drv[d].at = "parking" => drv[d].step < MaxSteps
  /\ \A r \in Row : status[r] # "absent" => park[r].turn \in Turn

Typed(e) ==
  /\ e.at \in {"idle", "resume", "loop", "parking", "exit"} /\ e.turn \in Turn \cup {NoTurn}
  /\ e.worker \in BOOLEAN /\ e.sess \in Nat /\ e.step \in 0..MaxSteps
  /\ e.calls \in 0..MaxCalls /\ e.denied \in SUBSET Action /\ e.todo \in SUBSET Action
  /\ e.exit \in Seq(ExitStep)

LEMMA InDriverState ==
  ASSUME NEW e, Fields(e), Typed(e)
  PROVE  e \in DriverState
BY DEF Fields, DriverState, Typed

LEMMA Increment ==
  ASSUME NEW n, NEW f \in [0..n -> Nat], NEW s \in 0..n
  PROVE  [f EXCEPT ![s] = f[s] + 1] \in [0..n -> Nat]
OBVIOUS

LEMMA StateFields ==
  ASSUME NEW s \in DriverState
  PROVE  Fields(s)
BY DEF Fields, DriverState

LEMMA ExitPaths ==
  /\ <<>> \in Seq(ExitStep) /\ <<"discard">> \in Seq(ExitStep) /\ <<"record">> \in Seq(ExitStep)
  /\ <<"discard", "record">> \in Seq(ExitStep) /\ <<"record", "discard">> \in Seq(ExitStep)
<1>1. <<>> \in Seq(ExitStep)
  OBVIOUS
<1>2. <<"discard">> \in Seq(ExitStep)
  BY DEF ExitStep
<1>3. <<"record">> \in Seq(ExitStep)
  BY DEF ExitStep
<1>4. <<"discard", "record">> \in Seq(ExitStep)
  BY DEF ExitStep
<1>5. <<"record", "discard">> \in Seq(ExitStep)
  BY DEF ExitStep
<1>6. QED
  BY <1>1, <1>2, <1>3, <1>4, <1>5

LEMMA IdleState == Idle \in DriverState
<1>1. 0 \in 0..MaxSteps /\ 0 \in 0..MaxCalls /\ {} \in SUBSET Action
  BY TurnAssumption
<1>2. /\ Idle.at = "idle" /\ Idle.turn = NoTurn /\ Idle.sess = 0
      /\ Idle.step = 0 /\ Idle.calls = 0 /\ Idle.denied = {} /\ Idle.todo = {}
      /\ Idle.exit = <<>>
  BY DEF Idle
<1>3. Idle.worker \in BOOLEAN
  BY DEF Idle
<1>4. Typed(Idle)
  BY <1>1, <1>2, <1>3, ExitPaths DEF Typed
<1>5. QED
  BY <1>4, IdleFields, InDriverState

(* A driver of the turn that goes on to leave it, or has left. *)
LEMMA LeaveState ==
  ASSUME drv \in [Driver -> DriverState], NEW d \in Driver, NEW path \in Seq(ExitStep),
         Leave(d, path)
  PROVE  /\ drv' = [drv EXCEPT ![d] = drv'[d]] /\ drv'[d] \in DriverState
         /\ drv'[d].at \in {"idle", "exit"} /\ drv'[d].todo = {}
         /\ drv'[d].at = "exit" => drv'[d].turn = drv[d].turn
<1> DEFINE e == [Idle EXCEPT !.at = "exit", !.turn = drv[d].turn,
                             !.worker = drv[d].worker, !.exit = path]
<1>1. drv' = [drv EXCEPT ![d] = IF path = <<>> THEN Idle ELSE e]
  BY DEF Leave
<1>2. Left(e, drv[d].turn, drv[d].worker, path)
  BY ExitSet
<1> HIDE DEF e
<1>3. /\ Fields(e) /\ e.at = "exit" /\ e.turn = drv[d].turn /\ e.worker = drv[d].worker
      /\ e.sess = 0 /\ e.step = 0 /\ e.calls = 0 /\ e.denied = {} /\ e.todo = {}
      /\ e.exit = path
  BY <1>2 DEF Left
<1>4. drv[d].turn \in Turn \cup {NoTurn} /\ drv[d].worker \in BOOLEAN
  BY DEF DriverState
<1>5. e \in DriverState
  <2>1. 0 \in 0..MaxSteps /\ 0 \in 0..MaxCalls /\ {} \in SUBSET Action
    BY TurnAssumption
  <2>2. Typed(e)
    BY <1>3, <1>4, <2>1 DEF Typed
  <2>3. QED
    BY <1>3, <2>2, InDriverState
<1>6. Idle.at = "idle" /\ Idle.todo = {}
  BY DEF Idle
<1>7. QED
  BY <1>1, <1>3, <1>5, <1>6, IdleState

LEMMA EndLoopState ==
  ASSUME drv \in [Driver -> DriverState], NEW d \in Driver,
         NEW outcome \in {"complete", "error", "parked"}, EndLoop(d, outcome)
  PROVE  /\ drv' = [drv EXCEPT ![d] = drv'[d]] /\ drv'[d] \in DriverState
         /\ drv'[d].at \in {"idle", "exit"} /\ drv'[d].todo = {}
         /\ drv'[d].at = "exit" => drv'[d].turn = drv[d].turn
<1>1. ExitPath(d, outcome) \in Seq(ExitStep)
  BY ExitPaths DEF ExitPath
<1>2. QED
  BY <1>1, LeaveState DEF EndLoop

LEMMA BegunState ==
  ASSUME drv \in [Driver -> DriverState], session \in Nat, NEW d \in Driver, NEW t \in Turn
  PROVE  /\ \A w \in BOOLEAN : ResumeWith(d, t, w) =>
              /\ drv' = [drv EXCEPT ![d] = drv'[d]] /\ drv'[d] \in DriverState
              /\ Begun(drv'[d], "resume", t, w, session)
         /\ \A by : StartTurn(d, t, by) =>
              /\ drv' = [drv EXCEPT ![d] = drv'[d]] /\ drv'[d] \in DriverState
              /\ Begun(drv'[d], "loop", t, FALSE, session)
<1>1. ASSUME NEW e, NEW a \in {"resume", "loop"}, NEW w \in BOOLEAN, Begun(e, a, t, w, session)
      PROVE  e \in DriverState
  <2>1. 0 \in 0..MaxSteps /\ 0 \in 0..MaxCalls /\ {} \in SUBSET Action
    BY TurnAssumption
  <2>2. e.worker \in BOOLEAN
    BY <1>1 DEF Begun
  <2>3. Fields(e) /\ Typed(e)
    BY <1>1, <2>1, <2>2, ExitPaths DEF Begun, Typed
  <2>4. QED
    BY <2>3, InDriverState
<1>2. ASSUME NEW w \in BOOLEAN, ResumeWith(d, t, w)
      PROVE  drv' = [drv EXCEPT ![d] = drv'[d]] /\ Begun(drv'[d], "resume", t, w, session)
  BY <1>2, ResumeSet DEF ResumeWith
<1>3. ASSUME NEW by, StartTurn(d, t, by)
      PROVE  drv' = [drv EXCEPT ![d] = drv'[d]] /\ Begun(drv'[d], "loop", t, FALSE, session)
  BY <1>3, StartSet DEF StartTurn
<1>4. QED
  BY <1>1, <1>2, <1>3

(* The latest park of a turn that has rows. *)
LEMMA LatestFacts ==
  ASSUME TypesInv, NEW t, NEW k, RowsOf(t, k) # {}
  PROVE  /\ LatestStep(t, k) \in 0..(MaxSteps - 1)
         /\ \A r \in RowsOf(t, k) : park[r].step <= LatestStep(t, k)
         /\ LatestBatch(t, k) \subseteq RowsOf(t, k) /\ LatestBatch(t, k) # {}
         /\ \A r \in LatestBatch(t, k) : park[r].step = LatestStep(t, k)
<1> DEFINE S == {park[r].step : r \in RowsOf(t, k)}
<1>1. \A r \in RowsOf(t, k) : r \in Row /\ park[r].step \in 0..(MaxSteps - 1)
  BY DEF TypesInv, PlainTypes, Park, RowsOf
<1>2. S \subseteq 0..(MaxSteps - 1) /\ S # {} /\ MaxSteps - 1 \in Nat
  BY <1>1, TurnAssumption
<1>3. Max(S) \in S /\ \A y \in S : y <= Max(S)
  BY <1>2, MaxNumber
<1>4. LatestStep(t, k) = Max(S)
  BY DEF LatestStep
<1>5. PICK r \in RowsOf(t, k) : park[r].step = LatestStep(t, k)
  BY <1>3, <1>4
<1>6. QED
  BY <1>2, <1>3, <1>4, <1>5 DEF LatestBatch

(* The parks and drivers a step leaves as they are, and the one it moves. *)
LEMMA TypesKept ==
  ASSUME TypesInv, TypeOK', NEW d \in Driver,
         drv' = [drv EXCEPT ![d] = drv'[d]], drv'[d] \in DriverState,
         drv'[d].at # "idle" => drv'[d].turn \in Turn,
         drv'[d].at = "parking" => drv'[d].step < MaxSteps,
         UNCHANGED <<status, park, stale, fin, resuming, kind, told, drives, paged>>
  PROVE  TypesInv'
BY DEF TypesInv, PlainTypes

LEMMA DriverTypes ==
  ASSUME TypesInv, WorkerInv, TypeOK', NEW d \in Driver, DriverStep(d)
  PROVE  TypesInv'
<1>1. /\ drv \in [Driver -> DriverState] /\ drv[d] \in DriverState /\ Fields(drv[d])
      /\ drv[d].at # "idle" => drv[d].turn \in Turn
  BY StateFields DEF TypesInv, PlainTypes
<1>2. CASE Answers(d)
  <2>1. PICK outcome \in {"complete", "error"} : EndLoop(d, outcome)
    BY <1>2 DEF Answers
  <2>2. drv[d].at = "loop"
    BY <1>2 DEF Answers
  <2>3. /\ drv' = [drv EXCEPT ![d] = drv'[d]] /\ drv'[d] \in DriverState
        /\ drv'[d].at \in {"idle", "exit"}
        /\ drv'[d].at = "exit" => drv'[d].turn = drv[d].turn
    BY <1>1, <2>1, EndLoopState
  <2>4. UNCHANGED <<status, park, stale, fin, resuming, kind, told, drives, paged>>
    BY <1>2 DEF Answers, vars, tableVars
  <2>5. QED
    BY <1>1, <2>2, <2>3, <2>4, TypesKept
<1>3. ASSUME NEW asked \in {A \in SUBSET Action : IsFiniteSet(A) /\ Cardinality(A) <= MaxBatch},
             NEW inline \in {0, 1}, Calls(d, asked, inline)
      PROVE  TypesInv'
  <2> DEFINE at == IF Parked(d, asked) = {} THEN "loop" ELSE "parking"
             step == IF Parked(d, asked) = {} THEN drv[d].step + 1 ELSE drv[d].step
             calls == drv[d].calls + Cardinality(asked) + inline
             todo == Parked(d, asked)
             e == AfterCalls(drv[d], calls, todo, at, step)
  <2>1. Cardinality(asked) \in Nat
    BY FS_CardinalityType
  <2>2. /\ drv[d].at = "loop" /\ drv[d].step < MaxSteps
        /\ drv[d].calls + (Cardinality(asked) + inline) <= MaxCalls
    BY <1>3 DEF Calls, HasBudget
  <2>3. drv' = [drv EXCEPT ![d] = e] /\ drv'[d] = e
    BY <1>1, <1>3 DEF Calls, AfterCalls
  <2>4. Moved(e, drv[d], at, step, calls, drv[d].denied, todo)
    BY <1>1, CallsSet
  <2>5. /\ at \in {"loop", "parking"} /\ step \in 0..MaxSteps /\ calls \in 0..MaxCalls
        /\ todo \in SUBSET Action
        /\ at = "parking" => step < MaxSteps
    <3>1. drv[d].step \in 0..MaxSteps /\ drv[d].calls \in 0..MaxCalls
      BY <1>1 DEF DriverState
    <3>2. calls \in 0..MaxCalls
      BY <2>1, <2>2, <3>1, TurnAssumption
    <3>3. step \in 0..MaxSteps
      BY <2>2, <3>1, TurnAssumption
    <3>4. QED
      BY <2>2, <3>2, <3>3 DEF Parked
  <2> HIDE DEF at, step, calls, todo, e
  <2>6. /\ e \in DriverState /\ e.at \in {"loop", "parking"} /\ e.turn = drv[d].turn
        /\ e.at = "parking" => e.step < MaxSteps
    <3>1. /\ drv[d].turn \in Turn \cup {NoTurn} /\ drv[d].worker \in BOOLEAN
          /\ drv[d].sess \in Nat /\ drv[d].denied \in SUBSET Action
          /\ drv[d].exit \in Seq(ExitStep)
      BY <1>1 DEF DriverState
    <3>2. /\ Fields(e) /\ e.at = at /\ e.step = step /\ e.calls = calls /\ e.todo = todo
          /\ e.denied = drv[d].denied /\ e.turn = drv[d].turn /\ e.worker = drv[d].worker
          /\ e.sess = drv[d].sess /\ e.exit = drv[d].exit
      BY <2>4 DEF Moved
    <3>3. Typed(e)
      <4>1. e.worker \in BOOLEAN
        BY <3>1, <3>2
      <4>2. QED
        BY <2>5, <3>1, <3>2, <4>1 DEF Typed
    <3>4. e \in DriverState
      BY <3>2, <3>3, InDriverState
    <3>5. QED
      BY <1>1, <2>2, <2>5, <3>2, <3>4
  <2>7. UNCHANGED <<status, park, stale, fin, resuming, kind, told, drives, paged>>
    BY <1>3 DEF Calls, vars, tableVars
  <2>8. /\ drv' = [drv EXCEPT ![d] = drv'[d]] /\ drv'[d] \in DriverState
        /\ drv'[d].turn \in Turn
        /\ drv'[d].at = "parking" => drv'[d].step < MaxSteps
    BY <1>1, <2>2, <2>3, <2>6
  <2>9. QED
    BY <2>7, <2>8, TypesKept
<1>4. ASSUME NEW r \in Row, NEW a \in Action, ParkOne(d, r, a) PROVE TypesInv'
  <2>1. /\ drv[d].at = "parking" /\ drv[d].turn \in Turn /\ drv[d].step \in 0..(MaxSteps - 1)
        /\ drv[d].calls \in 0..MaxCalls
    BY <1>1, <1>4, TurnAssumption DEF ParkOne, TypesInv, DriverState
  <2>2. /\ park' \in [Row -> Park] /\ park'[r].turn \in Turn
        /\ \A x \in Row : x # r => park'[x] = park[x]
    BY <1>4, <2>1 DEF ParkOne, TypesInv, PlainTypes, Park
  <2>3. \A x \in Row : status'[x] # "absent" => park'[x].turn \in Turn
    BY <1>4, <2>2 DEF ParkOne, CreatePending, TypesInv, PlainTypes, TypeOK
  <2>4. /\ drv' = [drv EXCEPT ![d] = drv'[d]] /\ drv'[d] \in DriverState
        /\ drv'[d].at # "idle" => drv'[d].turn \in Turn
        /\ drv'[d].at = "parking" => drv'[d].step < MaxSteps
    <3>1. CASE EndLoop(d, "parked")
      BY <1>1, <2>1, <3>1, EndLoopState
    <3>2. CASE drv' = [drv EXCEPT ![d].todo = @ \ {a}]
      <4> DEFINE e == [drv[d] EXCEPT !.todo = drv[d].todo \ {a}]
      <4>1. drv' = [drv EXCEPT ![d] = e] /\ drv'[d] = e
        BY <1>1, <3>2
      <4>2. e.todo = drv[d].todo \ {a} /\ Agree(e, drv[d], "todo")
        BY <1>1, SetFacts
      <4> HIDE DEF e
      <4>3. e \in DriverState
        <5>1. Fields(e) /\ Typed(e)
          BY <1>1, <4>2 DEF Agree, DriverState, Typed
        <5>2. QED
          BY <5>1, InDriverState
      <4>4. e.turn = drv[d].turn /\ e.step = drv[d].step
        BY <4>2 DEF Agree
      <4>5. drv[d].step < MaxSteps
        BY <2>1, TurnAssumption
      <4>6. QED
        BY <2>1, <4>1, <4>3, <4>4, <4>5
    <3>3. QED
      BY <1>4, <3>1, <3>2 DEF ParkOne
  <2>5. UNCHANGED <<stale, fin, resuming, kind, told, drives, paged>>
    BY <1>4 DEF ParkOne
  <2>6. QED
    BY <2>2, <2>3, <2>4, <2>5 DEF TypesInv, PlainTypes
<1>5. CASE ResumeReads(d)
  <2> DEFINE t == drv[d].turn
             k == drv[d].sess
             s == LatestStep(t, k)
  <2>1. drv[d].at = "resume" /\ UNCHANGED <<status, park, stale, fin, resuming, kind, paged>>
    BY <1>5 DEF ResumeReads, vars, tableVars
  <2>2. CASE ~AllResolved(t, k)
    <3>1. EndLoop(d, "parked") /\ UNCHANGED <<told, drives>>
      BY <1>5, <2>2 DEF ResumeReads
    <3>2. QED
      BY <1>1, <2>1, <3>1, EndLoopState, TypesKept
  <2>3. CASE AllResolved(t, k)
    <3>0. PICK p \in LatestBatch(t, k) : drv' = [drv EXCEPT
            ![d].at = "loop", ![d].step = s + 1, ![d].calls = CallsSoFar(p),
            ![d].denied = {park[r].act : r \in {y \in RowsOf(t, k) : status[y] = "denied"}}]
      BY <1>5, <2>3 DEF ResumeReads
    <3> DEFINE calls == CallsSoFar(p)
               denied == {park[r].act : r \in {x \in RowsOf(t, k) : status[x] = "denied"}}
               e == AfterReads(drv[d], "loop", s + 1, calls, denied)
    <3>1. /\ s \in 0..(MaxSteps - 1) /\ LatestBatch(t, k) # {}
          /\ LatestBatch(t, k) \subseteq RowsOf(t, k)
      BY <2>3, LatestFacts DEF AllResolved
    <3>2. RowsOf(t, k) \subseteq Row /\ \A r \in Row : park[r] \in Park
      BY DEF RowsOf, TypesInv, PlainTypes
    <3>3. calls \in 0..MaxCalls /\ denied \in SUBSET Action
      <4>1. p \in Row
        BY <3>1, <3>2
      <4>2. QED
        BY <3>2, <4>1 DEF Park, CallsSoFar
    <3>4. drv' = [drv EXCEPT ![d] = e] /\ drv'[d] = e
      BY <1>1, <3>0 DEF AfterReads
    <3>5. Moved(e, drv[d], "loop", s + 1, calls, denied, drv[d].todo)
      BY <1>1, ReadsSet
    <3>6. s + 1 \in 0..MaxSteps
      BY <3>1, TurnAssumption
    <3> HIDE DEF calls, denied, e, s
    <3>7. e \in DriverState /\ e.at = "loop" /\ e.turn = t
      <4>1. /\ t \in Turn \cup {NoTurn} /\ drv[d].worker \in BOOLEAN /\ k \in Nat
            /\ drv[d].todo \in SUBSET Action /\ drv[d].exit \in Seq(ExitStep)
        BY <1>1 DEF DriverState
      <4>2. QED
        <5>1. Fields(e) /\ Typed(e) /\ e.at = "loop" /\ e.turn = t
          BY <3>3, <3>5, <3>6, <4>1 DEF Moved, Typed
        <5>2. QED
          BY <5>1, InDriverState
    <3>8. drives' = [drives EXCEPT ![t][s] = @ + 1]
      BY <1>5, <2>3 DEF ResumeReads, s
    <3>9. drives' \in [Turn -> [0..(MaxSteps - 1) -> Nat]]
      <4>1. drives \in [Turn -> [0..(MaxSteps - 1) -> Nat]] /\ t \in Turn
        BY <1>1, <2>1 DEF TypesInv, PlainTypes
      <4>2. drives[t] \in [0..(MaxSteps - 1) -> Nat] /\ s \in 0..(MaxSteps - 1)
        BY <3>1, <4>1
      <4>3. [drives[t] EXCEPT ![s] = drives[t][s] + 1] \in [0..(MaxSteps - 1) -> Nat]
        BY <4>2, Increment
      <4>4. drives' = [drives EXCEPT ![t] = [drives[t] EXCEPT ![s] = drives[t][s] + 1]]
        BY <3>8
      <4>5. QED
        BY <4>1, <4>3, <4>4
    <3>10. told' \in [Row -> Told]
      <4>1. told' = [r \in Row |-> IF r \in LatestBatch(t, k) THEN Message(r) ELSE told[r]]
        BY <1>5, <2>3 DEF ResumeReads
      <4>2. \A r \in Row : Message(r) \in Told
        BY DEF Message, Told, TypesInv, PlainTypes, TypeOK, Outcome
      <4>3. QED
        BY <4>1, <4>2 DEF TypesInv, PlainTypes
    <3>11. QED
      BY <1>1, <2>1, <3>4, <3>7, <3>9, <3>10 DEF TypesInv, PlainTypes
  <2>4. QED
    BY <2>2, <2>3
<1>6. CASE Exit(d)
  <2>1. drv[d].at = "exit" /\ UNCHANGED <<status, park, stale, fin, kind, told, drives, paged>>
    BY <1>6 DEF Exit, vars, tableVars
  <2>2. resuming' \subseteq Turn
    BY <1>6 DEF Exit, TypesInv, PlainTypes
  <2>3. Tail(drv[d].exit) \in Seq(ExitStep)
    <3>1. drv[d].exit \in Seq(ExitStep)
      BY <1>1 DEF DriverState
    <3>2. drv[d].exit # <<>>
      BY <2>1 DEF WorkerInv, Shapes, DriverOK, WorkerExit
    <3>3. QED
      BY <3>1, <3>2
  <2>4. /\ drv' = [drv EXCEPT ![d] = drv'[d]] /\ drv'[d] \in DriverState
        /\ drv'[d].at \in {"idle", "exit"}
        /\ drv'[d].at = "exit" => drv'[d].turn = drv[d].turn
    BY <1>1, <1>6, <2>3, LeaveState DEF Exit
  <2>5. QED
    BY <1>1, <2>1, <2>2, <2>4 DEF TypesInv, PlainTypes
<1>7. QED
  BY <1>2, <1>3, <1>4, <1>5, <1>6 DEF DriverStep

(* Only a park makes rows; the store and the requests leave them in place. *)
LEMMA RowsStay ==
  ASSUME TypeOK, StoreStep \/ RestartAll \/ (\E q \in Req : Finish(q)) \/ UNCHANGED vars
  PROVE  /\ owner' = owner
         /\ \A r \in Row : status'[r] = "absent" <=> status[r] = "absent"
<1>1. CASE UNCHANGED vars \/ RestartAll \/ (\E q \in Req : Finish(q))
  BY <1>1 DEF vars, tableVars, RestartAll, Restart, Finish
<1>2. CASE Unlock \/ Lock \/ \E r \in Row : Age(r)
  BY <1>2 DEF Unlock, Lock, Age, tableVars
<1>3. CASE Sweep
  BY <1>3 DEF Sweep, SweepTo, TypeOK
<1>4. ASSUME NEW q \in Req, NEW r \in Row, Open(q, r, "reading") \/ Open(q, r, "readingToDeny")
      PROVE  UNCHANGED <<owner, status>>
  BY <1>4 DEF Open, tableVars
<1>5. ASSUME NEW q \in Req, ApproveCas(q) \/ DenyCas(q) \/ Claim(q)
      PROVE  /\ owner' = owner
             /\ \A r \in Row : status'[r] = "absent" <=> status[r] = "absent"
  BY <1>5 DEF ApproveCas, DenyCas, Claim, Cas, CasOk, TypeOK
<1>6. ASSUME NEW q \in Req, RouteStep(q), ~(ApproveCas(q) \/ DenyCas(q) \/ Claim(q))
      PROVE  UNCHANGED <<owner, status>>
  BY <1>6 DEF RouteStep, ApproveRead, DenyRead, HandlerStarts, HandlerEnds, StoreRead,
              StoreWrite, tableVars
<1>7. QED
  BY <1>1, <1>2, <1>3, <1>4, <1>5, <1>6 DEF StoreStep

(* A request on its way out, and a turn it may launch. *)
LEMMA FinishTypes ==
  ASSUME StoreInv, WorkerInv, TypesInv, TypeOK', NEW q \in Req, FinishStep(q)
  PROVE  TypesInv'
<1>1. /\ UNCHANGED <<park, stale, kind, told, drives, paged>>
      /\ \A r \in Row : status'[r] = "absent" <=> status[r] = "absent"
  BY RowsStay DEF FinishStep, FinishCheck, FinishLaunch, FinishSpawn, LeaveRequest, StoreInv
<1>2. pc[q] = "finishing" /\ TurnOf(q) \in Turn
  <2>1. pc[q] = "finishing"
    BY DEF FinishStep, FinishCheck, FinishLaunch, FinishSpawn
  <2>2. tgt[q] \in Row /\ status[tgt[q]] # "absent"
    BY <2>1 DEF StoreInv, SessionInv, TypeOK
  <2>3. QED
    BY <2>1, <2>2 DEF TypesInv, TurnOf
<1>3. fin' \in [Req -> {"check", "launch", "spawn"}]
  BY DEF FinishStep, FinishCheck, FinishLaunch, FinishSpawn, LeaveRequest, TypesInv, PlainTypes
<1>4. resuming' \subseteq Turn
  BY <1>2 DEF FinishStep, FinishCheck, FinishLaunch, FinishSpawn, TypesInv, PlainTypes, TurnOf
<1>5. CASE UNCHANGED drv
  BY <1>1, <1>3, <1>4, <1>5 DEF TypesInv, PlainTypes
<1>6. ASSUME NEW d \in Driver, ResumeWith(d, TurnOf(q), TRUE) PROVE TypesInv'
  <2>1. session \in Nat
    BY DEF StoreInv, TypeOK
  <2>2. /\ drv' = [drv EXCEPT ![d] = drv'[d]] /\ drv'[d] \in DriverState
        /\ drv'[d].at = "resume" /\ drv'[d].turn = TurnOf(q)
    BY <1>2, <1>6, <2>1, BegunState DEF TypesInv, PlainTypes, Begun
  <2>3. QED
    BY <1>1, <1>2, <1>3, <1>4, <2>2 DEF TypesInv, PlainTypes
<1>7. QED
  BY <1>5, <1>6 DEF FinishStep, FinishCheck, FinishLaunch, FinishSpawn, TurnOf

LEMMA TypesInductive ==
  /\ TInit => TypesInv
  /\ StoreInv /\ StaleInv' /\ WorkerInv /\ TypesInv /\ TypeOK' /\ [TNext]_allVars => TypesInv'
<1>1. ASSUME TInit PROVE TypesInv
  <2>1. TypeOK
    BY <1>1 DEF TInit, Init, TypeOK, Status, Outcome, AgeClass, PC
  <2>2. park \in [Row -> Park]
    <3>1. (CHOOSE a \in Action : TRUE) \in Action /\ 0 \in 0..(MaxSteps - 1) /\ 0 \in 0..MaxCalls
      BY TurnAssumption
    <3>2. QED
      BY <1>1, <3>1 DEF TInit, Park
  <2>3. drv \in [Driver -> DriverState] /\ \A d \in Driver : drv[d].at = "idle"
    BY <1>1, IdleState DEF TInit, Idle
  <2>4. drives \in [Turn -> [0..(MaxSteps - 1) -> Nat]]
    BY <1>1 DEF TInit
  <2>5. QED
    BY <1>1, <2>1, <2>2, <2>3, <2>4 DEF TInit, Init, TypesInv, PlainTypes, Told
<1>2. ASSUME StoreInv, StaleInv', WorkerInv, TypesInv, TypeOK', [TNext]_allVars PROVE TypesInv'
  <2>1. CASE StoreStep \/ UNCHANGED allVars
    <3>1. UNCHANGED turnVars /\ \A r \in Row : status'[r] = "absent" <=> status[r] = "absent"
      BY <1>2, <2>1, RowsStay DEF StoreStep, allVars, StoreInv
    <3>2. QED
      BY <1>2, <3>1 DEF turnVars, TypesInv, PlainTypes
  <2>2. CASE RestartAll
    <3>1. /\ \A r \in Row : status'[r] = "absent" <=> status[r] = "absent"
          /\ drv' \in [Driver -> DriverState] /\ \A d \in Driver : drv'[d].at = "idle"
      BY <1>2, <2>2, RowsStay, IdleState DEF RestartAll, StoreInv, Idle
    <3>2. QED
      BY <1>2, <2>2, <3>1 DEF RestartAll, TypesInv, PlainTypes
  <2>3. ASSUME NEW d \in Driver, NEW t \in Turn,
               AgentResume(d, t) \/ \E by \in Kind : StartTurn(d, t, by)
        PROVE  TypesInv'
    <3>1. session \in Nat
      BY <1>2 DEF StoreInv, TypeOK
    <3>2. /\ drv' = [drv EXCEPT ![d] = drv'[d]] /\ drv'[d] \in DriverState
          /\ drv'[d].at \in {"resume", "loop"} /\ drv'[d].turn = t
      BY <1>2, <2>3, <3>1, BegunState DEF AgentResume, TypesInv, PlainTypes, Begun
    <3>3. /\ UNCHANGED <<status, park, stale, fin, resuming, told, drives>>
          /\ kind' \in [Turn -> Kind \cup {"none"}] /\ paged' \subseteq Turn
      BY <1>2, <2>3 DEF AgentResume, StartTurn, vars, tableVars, TypesInv, PlainTypes
    <3>4. QED
      BY <1>2, <3>2, <3>3 DEF TypesInv, PlainTypes
  <2>4. ASSUME NEW r \in Row, ClaimAges(r) PROVE TypesInv'
    <3>1. UNCHANGED <<status, park, drv, fin, resuming, kind, told, drives, paged>> /\ stale' \subseteq Row
      BY <1>2, <2>4 DEF ClaimAges, vars, tableVars, StaleInv
    <3>2. QED
      BY <1>2, <3>1 DEF TypesInv, PlainTypes
  <2>5. QED
    BY <1>2, <2>1, <2>2, <2>3, <2>4, DriverTypes, FinishTypes DEF TNext
<1>3. QED
  BY <1>1, <1>2

(* What an answer with calls makes of its driver's budget and batch.        *)
LEMMA CallsBatch ==
  ASSUME TypesInv, NEW d \in Driver, NEW inline \in {0, 1},
         NEW asked \in {A \in SUBSET Action : IsFiniteSet(A) /\ Cardinality(A) <= MaxBatch},
         Calls(d, asked, inline)
  PROVE  /\ drv' = [drv EXCEPT ![d] = drv'[d]] /\ drv[d].at = "loop"
         /\ drv'[d].todo \subseteq asked
         /\ drv[d].calls \in Nat /\ drv'[d].calls \in Nat /\ drv[d].calls < drv'[d].calls
         /\ drv[d].step \in Nat /\ drv[d].step < MaxSteps
         /\ \/ drv'[d].at = "loop" /\ drv'[d].step = drv[d].step + 1
            \/ drv'[d].at = "parking" /\ drv'[d].step = drv[d].step /\ drv'[d].todo # {}
<1> DEFINE at == IF Parked(d, asked) = {} THEN "loop" ELSE "parking"
           step == IF Parked(d, asked) = {} THEN drv[d].step + 1 ELSE drv[d].step
           calls == drv[d].calls + Cardinality(asked) + inline
           todo == Parked(d, asked)
           e == AfterCalls(drv[d], calls, todo, at, step)
<1>1. drv \in [Driver -> DriverState] /\ Fields(drv[d])
  BY StateFields DEF TypesInv, PlainTypes
<1>2. drv' = [drv EXCEPT ![d] = e] /\ drv'[d] = e
  BY <1>1 DEF Calls, AfterCalls
<1>3. Moved(e, drv[d], at, step, calls, drv[d].denied, todo)
  BY <1>1, CallsSet
<1>4. drv[d].calls \in Nat /\ drv[d].step \in Nat
  BY <1>1 DEF DriverState
<1>5. Cardinality(asked) \in Nat
  BY FS_CardinalityType
<1>6. drv[d].at = "loop" /\ drv[d].step < MaxSteps /\ Cardinality(asked) + inline > 0
  BY DEF Calls, HasBudget
<1>7. calls \in Nat /\ drv[d].calls < calls
  BY <1>4, <1>5, <1>6
<1>8. todo \subseteq asked
  BY DEF Parked
<1>9. (at = "loop" /\ step = drv[d].step + 1) \/ (at = "parking" /\ step = drv[d].step /\ todo # {})
  OBVIOUS
<1> HIDE DEF e, at, step, calls, todo
<1>10. drv'[d].at = at /\ drv'[d].step = step /\ drv'[d].calls = calls /\ drv'[d].todo = todo
  BY <1>2, <1>3 DEF Moved
<1>11. QED
  BY <1>2, <1>4, <1>6, <1>7, <1>8, <1>9, <1>10

(* Every step of a turn has spent one of its calls, also that of a park, to *)
(* which a resume goes back.                                               *)
BatchState(s) ==
  /\ IsFiniteSet(s.todo) /\ Cardinality(s.todo) <= MaxBatch
  /\ s.at = "loop" => s.step <= s.calls
  /\ s.at = "parking" => s.todo # {} /\ s.step < MaxSteps /\ s.step < s.calls

BatchInv ==
  /\ \A r \in Row : status[r] # "absent" => park[r].step < park[r].calls
  /\ \A d \in Driver : BatchState(drv[d])

LEMMA NothingToPark ==
  ASSUME NEW s, s.todo = {}, s.at # "parking", s.at = "loop" => s.step = 0 /\ s.calls = 0
  PROVE  BatchState(s)
BY FS_EmptySet, TurnAssumption DEF BatchState

LEMMA BatchKept ==
  ASSUME TypesInv, BatchInv, NEW d \in Driver, drv' = [drv EXCEPT ![d] = drv'[d]],
         BatchState(drv'[d]), park' = park,
         \A r \in Row : status'[r] = "absent" <=> status[r] = "absent"
  PROVE  BatchInv'
<1>1. \A c \in Driver : c # d => drv'[c] = drv[c]
  BY DEF TypesInv, PlainTypes
<1>2. QED
  BY <1>1 DEF BatchInv

LEMMA DriverBatch ==
  ASSUME WorkerInv, TypesInv, BatchInv, NEW d \in Driver, DriverStep(d)
  PROVE  BatchInv'
<1>1. drv \in [Driver -> DriverState] /\ Fields(drv[d])
  BY StateFields DEF TypesInv, PlainTypes
<1>2. ASSUME NEW outcome \in {"complete", "error", "parked"}, EndLoop(d, outcome)
      PROVE  drv' = [drv EXCEPT ![d] = drv'[d]] /\ BatchState(drv'[d])
  BY <1>1, <1>2, EndLoopState, NothingToPark
<1>3. CASE Answers(d)
  <2>1. UNCHANGED <<park, status>>
    BY <1>3 DEF Answers, vars, tableVars
  <2>2. QED
    BY <1>2, <1>3, <2>1, BatchKept DEF Answers
<1>4. ASSUME NEW asked \in {A \in SUBSET Action : IsFiniteSet(A) /\ Cardinality(A) <= MaxBatch},
             NEW inline \in {0, 1}, Calls(d, asked, inline)
      PROVE  BatchInv'
  <2>1. /\ drv' = [drv EXCEPT ![d] = drv'[d]] /\ drv[d].at = "loop"
        /\ drv'[d].todo \subseteq asked
        /\ drv[d].calls \in Nat /\ drv'[d].calls \in Nat /\ drv[d].calls < drv'[d].calls
        /\ drv[d].step \in Nat /\ drv[d].step < MaxSteps
        /\ \/ drv'[d].at = "loop" /\ drv'[d].step = drv[d].step + 1
           \/ drv'[d].at = "parking" /\ drv'[d].step = drv[d].step /\ drv'[d].todo # {}
    BY <1>4, CallsBatch
  <2>2. IsFiniteSet(drv'[d].todo) /\ Cardinality(drv'[d].todo) <= MaxBatch
    <3>1. IsFiniteSet(asked) /\ Cardinality(asked) \in Nat /\ Cardinality(asked) <= MaxBatch
      BY FS_CardinalityType
    <3>2. /\ IsFiniteSet(drv'[d].todo) /\ Cardinality(drv'[d].todo) <= Cardinality(asked)
      BY <2>1, <3>1, FS_Subset
    <3>3. Cardinality(drv'[d].todo) \in Nat
      BY <3>2, FS_CardinalityType
    <3>4. QED
      BY <3>1, <3>2, <3>3, TurnAssumption
  <2>3. drv[d].step <= drv[d].calls
    BY <2>1 DEF BatchInv, BatchState
  <2>4. BatchState(drv'[d])
    BY <2>1, <2>2, <2>3 DEF BatchState
  <2>5. UNCHANGED <<park, status>>
    BY <1>4 DEF Calls, vars, tableVars
  <2>6. QED
    BY <2>1, <2>4, <2>5, BatchKept
<1>5. ASSUME NEW r \in Row, NEW a \in Action, ParkOne(d, r, a) PROVE BatchInv'
  <2>1. BatchState(drv[d]) /\ drv[d].at = "parking"
    BY <1>5 DEF ParkOne, BatchInv
  <2>2. drv' = [drv EXCEPT ![d] = drv'[d]] /\ BatchState(drv'[d])
    <3>1. CASE drv[d].todo = {a}
      BY <1>2, <1>5, <3>1 DEF ParkOne
    <3>2. CASE drv[d].todo # {a}
      <4> DEFINE e == [drv[d] EXCEPT !.todo = drv[d].todo \ {a}]
      <4>1. drv' = [drv EXCEPT ![d] = e] /\ drv'[d] = e
        BY <1>1, <1>5, <3>2 DEF ParkOne
      <4>2. e.todo = drv[d].todo \ {a} /\ Agree(e, drv[d], "todo")
        BY <1>1, SetFacts
      <4> HIDE DEF e
      <4>3. IsFiniteSet(e.todo) /\ Cardinality(e.todo) <= MaxBatch
        <5>1. IsFiniteSet(drv[d].todo) /\ Cardinality(drv[d].todo) <= MaxBatch
          BY <2>1 DEF BatchState
        <5>2. IsFiniteSet(e.todo) /\ Cardinality(e.todo) <= Cardinality(drv[d].todo)
          BY <4>2, <5>1, FS_Subset
        <5>3. Cardinality(e.todo) \in Nat /\ Cardinality(drv[d].todo) \in Nat
          BY <5>1, <5>2, FS_CardinalityType
        <5>4. QED
          BY <5>1, <5>2, <5>3, TurnAssumption
      <4>4. e.todo # {}
        BY <1>5, <3>2, <4>2 DEF ParkOne
      <4>5. e.at = drv[d].at /\ e.step = drv[d].step /\ e.calls = drv[d].calls
        BY <4>2 DEF Agree
      <4>6. QED
        BY <2>1, <4>1, <4>3, <4>4, <4>5 DEF BatchState
    <3>3. QED
      BY <3>1, <3>2
  <2>3. park \in [Row -> Park] /\ status \in [Row -> Status]
    BY DEF TypesInv, PlainTypes, TypeOK
  <2>4. \A x \in Row : status'[x] # "absent" => park'[x].step < park'[x].calls
    <3>1. ASSUME NEW x \in Row, x # r, status'[x] # "absent"
          PROVE  park'[x].step < park'[x].calls
      BY <1>5, <2>3, <3>1 DEF ParkOne, CreatePending, BatchInv
    <3>2. park'[r].step = drv[d].step /\ park'[r].calls = drv[d].calls
      BY <1>5, <2>3 DEF ParkOne
    <3>3. QED
      BY <2>1, <3>1, <3>2 DEF BatchState
  <2>5. \A c \in Driver : c # d => drv'[c] = drv[c]
    BY <1>1, <2>2
  <2>6. QED
    BY <2>2, <2>4, <2>5 DEF BatchInv
<1>6. CASE ResumeReads(d)
  <2> DEFINE t == drv[d].turn
             k == drv[d].sess
             s == LatestStep(t, k)
  <2>1. drv[d].at = "resume" /\ UNCHANGED <<park, status>> /\ BatchState(drv[d])
    BY <1>6 DEF ResumeReads, vars, tableVars, BatchInv
  <2>2. CASE ~AllResolved(t, k)
    BY <1>2, <1>6, <2>1, <2>2, BatchKept DEF ResumeReads
  <2>3. CASE AllResolved(t, k)
    <3>1. PICK x \in LatestBatch(t, k) : drv' = [drv EXCEPT
            ![d].at = "loop", ![d].step = s + 1, ![d].calls = CallsSoFar(x),
            ![d].denied = {park[r].act : r \in {y \in RowsOf(t, k) : status[y] = "denied"}}]
      BY <1>6, <2>3 DEF ResumeReads
    <3> DEFINE calls == CallsSoFar(x)
               denied == {park[r].act : r \in {y \in RowsOf(t, k) : status[y] = "denied"}}
               e == AfterReads(drv[d], "loop", s + 1, calls, denied)
    <3>2. drv' = [drv EXCEPT ![d] = e] /\ drv'[d] = e
      BY <1>1, <3>1 DEF AfterReads
    <3>3. Moved(e, drv[d], "loop", s + 1, calls, denied, drv[d].todo)
      BY <1>1, ReadsSet
    <3>4. s + 1 <= calls
      <4>1. x \in RowsOf(t, k) /\ park[x].step = s
        BY <2>3, LatestFacts DEF AllResolved
      <4>2. park[x].step < park[x].calls /\ park[x] \in Park
        BY <4>1 DEF RowsOf, Visible, BatchInv, TypesInv, PlainTypes
      <4>3. QED
        BY <4>1, <4>2, TurnAssumption DEF CallsSoFar, Park
    <3> HIDE DEF e, calls, denied, s
    <3>5. e.at = "loop" /\ e.step = s + 1 /\ e.calls = calls /\ e.todo = drv[d].todo
      BY <3>3 DEF Moved
    <3>6. BatchState(drv'[d])
      BY <2>1, <3>2, <3>4, <3>5 DEF BatchState
    <3>7. QED
      BY <2>1, <3>2, <3>6, BatchKept
  <2>4. QED
    BY <2>2, <2>3
<1>7. CASE Exit(d)
  <2>1. drv[d].at = "exit" /\ UNCHANGED <<park, status>>
    BY <1>7 DEF Exit, vars, tableVars
  <2>2. Tail(drv[d].exit) \in Seq(ExitStep)
    <3>1. drv[d].exit \in Seq(ExitStep)
      BY <1>1 DEF DriverState
    <3>2. drv[d].exit # <<>>
      BY <2>1 DEF WorkerInv, Shapes, DriverOK, WorkerExit
    <3>3. QED
      BY <3>1, <3>2
  <2>3. drv' = [drv EXCEPT ![d] = drv'[d]] /\ drv'[d].at \in {"idle", "exit"} /\ drv'[d].todo = {}
    BY <1>1, <1>7, <2>2, LeaveState DEF Exit
  <2>4. BatchState(drv'[d])
    BY <2>3, NothingToPark
  <2>5. QED
    BY <2>1, <2>3, <2>4, BatchKept
<1>8. QED
  BY <1>3, <1>4, <1>5, <1>6, <1>7 DEF DriverStep

LEMMA BatchInductive ==
  /\ TInit => BatchInv
  /\ StoreInv /\ WorkerInv /\ TypesInv /\ BatchInv /\ [TNext]_allVars => BatchInv'
<1>1. BatchState(Idle)
  BY NothingToPark DEF Idle
<1>2. ASSUME TInit PROVE BatchInv
  BY <1>1, <1>2 DEF TInit, Init, BatchInv
<1>3. ASSUME StoreInv, WorkerInv, TypesInv, BatchInv, [TNext]_allVars PROVE BatchInv'
  <2>1. session \in Nat /\ TypeOK /\ drv \in [Driver -> DriverState]
    BY <1>3 DEF StoreInv, TypeOK, TypesInv, PlainTypes
  <2>2. ASSUME NEW d \in Driver, NEW t \in Turn, NEW w \in BOOLEAN, ResumeWith(d, t, w),
               park' = park, \A r \in Row : status'[r] = "absent" <=> status[r] = "absent"
        PROVE  BatchInv'
    <3>1. drv' = [drv EXCEPT ![d] = drv'[d]] /\ Begun(drv'[d], "resume", t, w, session)
      BY <2>1, <2>2, BegunState
    <3>2. BatchState(drv'[d])
      BY <3>1, NothingToPark DEF Begun
    <3>3. QED
      BY <1>3, <2>2, <3>1, <3>2, BatchKept
  <2>3. CASE StoreStep \/ UNCHANGED allVars
    <3>1. UNCHANGED <<park, drv>> /\ \A r \in Row : status'[r] = "absent" <=> status[r] = "absent"
      BY <2>1, <2>3, RowsStay DEF StoreStep, allVars, turnVars
    <3>2. QED
      BY <1>3, <3>1 DEF BatchInv
  <2>4. CASE RestartAll
    <3>1. /\ \A r \in Row : status'[r] = "absent" <=> status[r] = "absent"
          /\ \A d \in Driver : drv'[d] = Idle
          /\ park' = park
      BY <2>1, <2>4, RowsStay DEF RestartAll
    <3>2. QED
      BY <1>1, <1>3, <3>1 DEF BatchInv
  <2>5. ASSUME NEW d \in Driver, NEW t \in Turn, AgentResume(d, t) PROVE BatchInv'
    BY <2>2, <2>5 DEF AgentResume, vars, tableVars
  <2>6. ASSUME NEW d \in Driver, NEW t \in Turn, NEW by \in Kind, StartTurn(d, t, by)
        PROVE  BatchInv'
    <3>1. drv' = [drv EXCEPT ![d] = drv'[d]] /\ Begun(drv'[d], "loop", t, FALSE, session)
      BY <2>1, <2>6, BegunState
    <3>2. BatchState(drv'[d])
      BY <3>1, NothingToPark DEF Begun
    <3>3. UNCHANGED <<park, status>>
      BY <2>6 DEF StartTurn, vars, tableVars
    <3>4. QED
      BY <1>3, <3>1, <3>2, <3>3, BatchKept
  <2>7. ASSUME NEW q \in Req, FinishStep(q) PROVE BatchInv'
    <3>1. park' = park /\ \A r \in Row : status'[r] = "absent" <=> status[r] = "absent"
      BY <2>1, <2>7, RowsStay
      DEF FinishStep, FinishCheck, FinishLaunch, FinishSpawn, LeaveRequest
    <3>2. CASE UNCHANGED drv
      BY <1>3, <3>1, <3>2 DEF BatchInv
    <3>3. CASE FinishSpawn(q) /\ drv' # drv
      <4>1. PICK d \in Driver : ResumeWith(d, TurnOf(q), TRUE)
        BY <3>3 DEF FinishSpawn, TurnOf
      <4>2. tgt[q] \in Row /\ status[tgt[q]] # "absent"
        BY <1>3, <3>3 DEF FinishSpawn, StoreInv, SessionInv, TypeOK
      <4>3. TurnOf(q) \in Turn
        BY <1>3, <4>2 DEF TypesInv, TurnOf
      <4>4. QED
        BY <2>2, <3>1, <4>1, <4>3
    <3>4. QED
      BY <2>7, <3>2, <3>3 DEF FinishStep, FinishCheck, FinishLaunch
  <2>8. ASSUME NEW r \in Row, ClaimAges(r) PROVE BatchInv'
    BY <1>3, <2>8 DEF ClaimAges, vars, tableVars, BatchInv
  <2>9. QED
    BY <1>3, <2>3, <2>4, <2>5, <2>6, <2>7, <2>8, DriverBatch DEF TNext
<1>4. QED
  BY <1>2, <1>3

(* The invariants so far, each of which the next ones rest on. *)
TurnInv == StoreInv /\ ToldInv /\ WorkerInv /\ TypesInv /\ BatchInv

LEMMA TurnInvariant == TSpec => []TurnInv
<1>1. StoreInv => TypeOK
  BY DEF StoreInv
<1>2. ToldInv => StaleInv
  BY DEF ToldInv
<1>3. QED
  BY <1>1, <1>2, StoreInvariant, ToldInvariant, WorkerInductive, TypesInductive,
     BatchInductive, PTL
  DEF TSpec, TurnInv

(* Whatever the model answers and however turns are resumed, a stored row   *)
(* and a busy driver have a turn, an answer parks at most MaxBatch actions, *)
(* no driver exceeds agent._MAX_STEPS or _MAX_TOOL_CALLS, and each of its   *)
(* steps has spent a call: a driver that resumed with its calls reset, but  *)
(* not its step, would have spent too few.                                 *)
THEOREM TurnTyping == TSpec => []TTypeOK
<1>1. TypesInv /\ BatchInv => TTypeOK
  <2>1. ASSUME TypesInv, BatchInv, NEW d \in Driver PROVE BatchOK(d)
    BY <2>1 DEF TypesInv, BatchInv, BatchState, BatchOK
  <2>2. ASSUME TypesInv, BatchInv, NEW r \in Row, status[r] # "absent" PROVE RowOK(r)
    BY <2>2 DEF TypesInv, BatchInv, RowOK
  <2>3. QED
    BY <2>1, <2>2 DEF TypesInv, PlainTypes, TTypeOK
<1>2. QED
  BY <1>1, TurnInvariant, PTL DEF TurnInv

-----------------------------------------------------------------------------
(* Denials: who drives a turn, and what it knows. *)

Before(r, t) == drives[t][park[r].step] > 0
Looping(d, t) == drv[d].at \in {"loop", "parking"} /\ drv[d].turn = t

(* The rows of a turn, and whoever adds to them, are of one session.        *)
PlaceInv(t) ==
  /\ kind[t] = "none" => RowsIn(t) = {} /\ \A d \in Driver : drv[d].at # "idle" => drv[d].turn # t
  /\ \A r, x \in RowsIn(t) : owner[r] = owner[x]
  /\ \A d \in Driver, r \in RowsIn(t) : Looping(d, t) => owner[r] = drv[d].sess
  /\ \A c, d \in Driver : Looping(c, t) /\ Looping(d, t) => drv[c].sess = drv[d].sess
  /\ \A s \in 0..(MaxSteps - 1) : drives[t][s] > 0 => \E r \in RowsIn(t) : park[r].step = s

(* A driver whose park nobody has driven the turn on from.                  *)
Live(d, t) == Looping(d, t) /\ (drv[d].at = "parking" => drives[t][drv[d].step] = 0)

(* It is past the rows that it does not park itself: those were settled     *)
(* when it, or an earlier driver, read them.                               *)
Ahead(d, t) ==
  \A r \in RowsIn(t) :
    /\ park[r].step <= drv[d].step
    /\ drv[d].at = "loop" => park[r].step < drv[d].step
    /\ park[r].step < drv[d].step =>
         Before(r, t) /\ (status[r] = "denied" => park[r].act \in drv[d].denied)

Clean(t) == DrivenOnce(t) /\ DrivenWhole(t)

CleanInv(t) ==
  Clean(t) =>
    /\ \A c, d \in Driver : Live(c, t) /\ Live(d, t) => c = d
    /\ \A d \in Driver : Live(d, t) => Ahead(d, t)
    /\ \A r, x \in RowsIn(t) : park[r].step < park[x].step => Before(r, t)

DenyInv ==
  /\ \A t \in Turn : PlaceInv(t) /\ CleanInv(t)
  /\ \A d \in Driver : drv[d].at = "parking" => drv[d].todo \cap drv[d].denied = {}

(* What was read of a row when the turn was driven on lasts.                *)
LEMMA BeforeSettled ==
  ASSUME TurnInv, [TNext]_allVars, NEW t, Clean(t), NEW r \in RowsIn(t), Before(r, t)
  PROVE  Settled(r) /\ status'[r] = status[r]
<1>1. told[r] # "none" /\ r \in Row
  BY DEF Clean, DrivenWhole, Before, RowsIn
<1>2. Settled(r)
  BY <1>1 DEF TurnInv, ToldInv
<1>3. [Next]_vars
  BY StepRefinesStore DEF TurnInv, StoreInv
<1>4. status'[r] = status[r]
  BY <1>1, <1>2, <1>3, ResolutionStep DEF TurnInv, StoreInv, Settled
<1>5. QED
  BY <1>2, <1>4

(* The rows stay, and no driver comes to loop.                              *)
Quiet ==
  /\ owner' = owner /\ \A r \in Row : status'[r] = "absent" <=> status[r] = "absent"
  /\ UNCHANGED <<park, told, drives, kind>>
  /\ \A d \in Driver :
       \/ drv'[d] = drv[d]
       \/ /\ drv'[d].at \notin {"loop", "parking"}
          /\ drv'[d].at # "idle" => kind[drv'[d].turn] # "none"

LEMMA QuietInv ==
  ASSUME TurnInv, [TNext]_allVars, DenyInv, Quiet
  PROVE  DenyInv'
<1>1. ASSUME NEW t \in Turn PROVE PlaceInv(t)' /\ CleanInv(t)'
  <2>1. PlaceInv(t) /\ CleanInv(t)
    BY DEF DenyInv
  <2>2. /\ RowsIn(t)' = RowsIn(t) /\ Clean(t)' = Clean(t)
        /\ \A r : Before(r, t)' = Before(r, t)
        /\ \A d \in Driver : Looping(d, t)' => drv'[d] = drv[d] /\ Looping(d, t)
        /\ \A d \in Driver : Live(d, t)' => drv'[d] = drv[d] /\ Live(d, t)
    BY DEF Quiet, RowsIn, Clean, DrivenOnce, DrivenWhole, Before, Looping, Live
  <2>3. PlaceInv(t)'
    <3>1. kind'[t] = "none" => \A d \in Driver : drv'[d].at # "idle" => drv'[d].turn # t
      BY <2>1 DEF Quiet, PlaceInv
    <3>2. QED
      BY <2>1, <2>2, <3>1 DEF PlaceInv, Quiet
  <2>4. ASSUME Clean(t), NEW d \in Driver, Live(d, t)' PROVE Ahead(d, t)'
    <3>1. Ahead(d, t) /\ drv'[d] = drv[d]
      BY <2>1, <2>2, <2>4 DEF CleanInv
    <3>2. \A r \in RowsIn(t) : Before(r, t) => status'[r] = status[r]
      BY <2>4, BeforeSettled
    <3>3. QED
      BY <2>2, <3>1, <3>2 DEF Ahead, Quiet
  <2>5. CleanInv(t)'
    BY <2>1, <2>2, <2>4 DEF CleanInv, Quiet
  <2>6. QED
    BY <2>3, <2>5
<1>2. \A d \in Driver : drv'[d].at = "parking" => drv'[d].todo \cap drv'[d].denied = {}
  BY DEF DenyInv, Quiet
<1>3. QED
  BY <1>1, <1>2 DEF DenyInv

(* An answer with calls leads on within the turn. *)
LEMMA CallsMoves ==
  ASSUME TurnInv, NEW d \in Driver, NEW asked, NEW inline, Calls(d, asked, inline)
  PROVE  /\ drv[d].at = "loop" /\ \A c \in Driver : c # d => drv'[c] = drv[c]
         /\ drv'[d].turn = drv[d].turn /\ drv'[d].sess = drv[d].sess
         /\ drv'[d].denied = drv[d].denied
         /\ \/ drv'[d].at = "loop" /\ drv'[d].step = drv[d].step + 1
            \/ /\ drv'[d].at = "parking" /\ drv'[d].step = drv[d].step
               /\ drv'[d].todo \cap drv'[d].denied = {}
<1> DEFINE at == IF Parked(d, asked) = {} THEN "loop" ELSE "parking"
           step == IF Parked(d, asked) = {} THEN drv[d].step + 1 ELSE drv[d].step
           calls == drv[d].calls + Cardinality(asked) + inline
           todo == Parked(d, asked)
           e == AfterCalls(drv[d], calls, todo, at, step)
<1>1. drv \in [Driver -> DriverState] /\ Fields(drv[d])
  BY StateFields DEF TurnInv, TypesInv, PlainTypes
<1>2. drv' = [drv EXCEPT ![d] = e]
  BY <1>1 DEF Calls, AfterCalls
<1>3. drv'[d] = e /\ \A c \in Driver : c # d => drv'[c] = drv[c]
  BY <1>1, <1>2
<1>4. Moved(e, drv[d], at, step, calls, drv[d].denied, todo)
  BY <1>1, CallsSet
<1>5. todo \cap drv[d].denied = {}
  BY DEF Parked
<1>6. drv[d].at = "loop"
  BY DEF Calls
<1>7. (at = "loop" /\ step = drv[d].step + 1) \/ (at = "parking" /\ step = drv[d].step)
  OBVIOUS
<1> HIDE DEF e, at, step, calls, todo
<1>8. /\ drv'[d].at = at /\ drv'[d].step = step /\ drv'[d].denied = drv[d].denied
      /\ drv'[d].todo = todo /\ drv'[d].turn = drv[d].turn /\ drv'[d].sess = drv[d].sess
  BY <1>3, <1>4 DEF Moved
<1>9. QED
  BY <1>3, <1>5, <1>6, <1>7, <1>8

LEMMA CallsDeny ==
  ASSUME TurnInv, DenyInv, NEW d \in Driver, NEW asked, NEW inline, Calls(d, asked, inline)
  PROVE  DenyInv'
<1>1. /\ drv[d].at = "loop" /\ \A c \in Driver : c # d => drv'[c] = drv[c]
      /\ drv'[d].turn = drv[d].turn /\ drv'[d].sess = drv[d].sess
      /\ drv'[d].denied = drv[d].denied
      /\ \/ drv'[d].at = "loop" /\ drv'[d].step = drv[d].step + 1
         \/ /\ drv'[d].at = "parking" /\ drv'[d].step = drv[d].step
            /\ drv'[d].todo \cap drv'[d].denied = {}
  BY CallsMoves
<1>2. UNCHANGED <<status, owner, park, told, drives, kind>>
  BY DEF Calls, vars, tableVars
<1>3. drv[d].step \in Nat /\ \A r \in Row : park[r].step \in Nat
  BY DEF TurnInv, TypesInv, PlainTypes, Park, DriverState
<1>4. ASSUME NEW t \in Turn PROVE PlaceInv(t)' /\ CleanInv(t)'
  <2>1. PlaceInv(t) /\ CleanInv(t)
    BY DEF DenyInv
  <2>2. /\ RowsIn(t)' = RowsIn(t) /\ Clean(t)' = Clean(t)
        /\ \A r : Before(r, t)' = Before(r, t)
    BY <1>2 DEF RowsIn, Clean, DrivenOnce, DrivenWhole, Before
  <2>3. /\ \A c \in Driver : Looping(c, t)' => Looping(c, t) /\ drv'[c].sess = drv[c].sess
        /\ \A c \in Driver : Live(c, t)' => Live(c, t)
    BY <1>1, <1>2 DEF Looping, Live
  <2>4. PlaceInv(t)'
    BY <1>1, <1>2, <2>1, <2>2, <2>3 DEF PlaceInv
  <2>5. ASSUME Clean(t), NEW c \in Driver, Live(c, t)' PROVE Ahead(c, t)'
    <3>1. Ahead(c, t)
      BY <2>1, <2>3, <2>5 DEF CleanInv
    <3>2. CASE c # d
      BY <1>1, <1>2, <2>2, <3>1, <3>2 DEF Ahead
    <3>3. CASE c = d
      <4>1. \A r \in RowsIn(t) :
              /\ park[r].step < drv[d].step /\ Before(r, t)
              /\ status[r] = "denied" => park[r].act \in drv[d].denied
        BY <1>1, <3>1, <3>3 DEF Ahead
      <4>2. \A r \in RowsIn(t) : park[r].step < drv'[d].step
        <5>1. \A r \in RowsIn(t) : park[r].step \in Nat /\ park[r].step < drv[d].step
          BY <1>3, <4>1 DEF RowsIn
        <5>2. drv'[d].step = drv[d].step \/ drv'[d].step = drv[d].step + 1
          BY <1>1
        <5>3. QED
          BY <1>3, <5>1, <5>2
      <4>3. \A r \in RowsIn(t) : park[r].step <= drv'[d].step
        <5>1. drv'[d].step \in Nat /\ \A r \in RowsIn(t) : park[r].step \in Nat
          BY <1>1, <1>3 DEF RowsIn
        <5>2. QED
          BY <4>2, <5>1
      <4>4. QED
        BY <1>1, <1>2, <2>2, <3>3, <4>1, <4>2, <4>3 DEF Ahead
    <3>4. QED
      BY <3>2, <3>3
  <2>6. CleanInv(t)'
    BY <1>2, <2>1, <2>2, <2>3, <2>5 DEF CleanInv
  <2>7. QED
    BY <2>4, <2>6
<1>5. \A c \in Driver : drv'[c].at = "parking" => drv'[c].todo \cap drv'[c].denied = {}
  BY <1>1 DEF DenyInv
<1>6. QED
  BY <1>4, <1>5 DEF DenyInv

(* A new turn has no rows, and no other driver. *)
LEMMA StartDeny ==
  ASSUME TurnInv, DenyInv, NEW d \in Driver, NEW t \in Turn, NEW by \in Kind,
         StartTurn(d, t, by)
  PROVE  DenyInv'
<1>1. /\ drv' = [drv EXCEPT ![d] = drv'[d]] /\ Begun(drv'[d], "loop", t, FALSE, session)
      /\ drv \in [Driver -> DriverState]
  BY BegunState DEF TurnInv, TypesInv, PlainTypes, StoreInv, TypeOK
<1>2. /\ \A c \in Driver : c # d => drv'[c] = drv[c]
      /\ drv'[d].at = "loop" /\ drv'[d].turn = t
  BY <1>1 DEF Begun
<1>3. /\ UNCHANGED <<status, owner, park, told, drives>> /\ kind[t] = "none" /\ kind'[t] # "none"
      /\ \A x \in Turn : x # t => kind'[x] = kind[x]
  BY TurnAssumption DEF StartTurn, vars, tableVars, TurnInv, TypesInv, PlainTypes
<1>4. ASSUME NEW x \in Turn PROVE PlaceInv(x)' /\ CleanInv(x)'
  <2>1. PlaceInv(x) /\ CleanInv(x)
    BY DEF DenyInv
  <2>2. /\ RowsIn(x)' = RowsIn(x) /\ Clean(x)' = Clean(x)
        /\ \A r : Before(r, x)' = Before(r, x)
    BY <1>3 DEF RowsIn, Clean, DrivenOnce, DrivenWhole, Before
  <2>3. CASE x # t
    <3>1. /\ \A c \in Driver : Looping(c, x)' => Looping(c, x) /\ drv'[c] = drv[c]
          /\ \A c \in Driver : Live(c, x)' => Live(c, x) /\ drv'[c] = drv[c]
      BY <1>2, <1>3, <2>3 DEF Looping, Live
    <3>2. PlaceInv(x)'
      BY <1>2, <1>3, <2>1, <2>2, <2>3, <3>1 DEF PlaceInv
    <3>3. CleanInv(x)'
      BY <1>3, <2>1, <2>2, <3>1 DEF CleanInv, Ahead
    <3>4. QED
      BY <3>2, <3>3
  <2>4. CASE x = t
    <3>1. RowsIn(t) = {} /\ \A c \in Driver : Looping(c, t)' => c = d
      BY <1>2, <1>3, <2>1, <2>4 DEF PlaceInv, Looping
    <3>2. QED
      BY <1>3, <2>1, <2>2, <2>4, <3>1 DEF PlaceInv, CleanInv, Live, Ahead
  <2>5. QED
    BY <2>3, <2>4
<1>5. \A c \in Driver : drv'[c].at = "parking" => drv'[c].todo \cap drv'[c].denied = {}
  BY <1>2 DEF DenyInv
<1>6. QED
  BY <1>4, <1>5 DEF DenyInv

(* A park adds a row at its driver's step. *)
LEMMA ParkMoves ==
  ASSUME TurnInv, NEW d \in Driver, NEW r \in Row, NEW a \in Action, ParkOne(d, r, a)
  PROVE  /\ drv[d].at = "parking" /\ a \in drv[d].todo /\ status[r] = "absent"
         /\ status'[r] = "pending" /\ owner'[r] = drv[d].sess
         /\ park'[r].turn = drv[d].turn /\ park'[r].step = drv[d].step /\ park'[r].act = a
         /\ park'[r].calls = drv[d].calls
         /\ \A x \in Row : x # r =>
              status'[x] = status[x] /\ park'[x] = park[x] /\ owner'[x] = owner[x]
         /\ \A c \in Driver : c # d => drv'[c] = drv[c]
         /\ drv'[d].at = "parking" =>
              /\ drv'[d].turn = drv[d].turn /\ drv'[d].sess = drv[d].sess
              /\ drv'[d].step = drv[d].step /\ drv'[d].denied = drv[d].denied
              /\ drv'[d].calls = drv[d].calls
              /\ drv'[d].todo \subseteq drv[d].todo
         /\ drv'[d].at \in {"parking", "idle", "exit"}
         /\ drv'[d].at = "exit" => drv'[d].turn = drv[d].turn
<1>1. drv \in [Driver -> DriverState] /\ Fields(drv[d])
  BY StateFields DEF TurnInv, TypesInv, PlainTypes
<1>2. park \in [Row -> Park] /\ status \in [Row -> Status] /\ owner \in [Row -> Nat]
  BY DEF TurnInv, TypesInv, PlainTypes, TypeOK
<1>3. /\ drv[d].at = "parking" /\ a \in drv[d].todo /\ status[r] = "absent"
      /\ status'[r] = "pending" /\ owner'[r] = drv[d].sess
      /\ \A x \in Row : x # r => status'[x] = status[x] /\ owner'[x] = owner[x]
  BY <1>2 DEF ParkOne, CreatePending
<1>4. /\ park'[r] = [turn |-> drv[d].turn, step |-> drv[d].step, calls |-> drv[d].calls, act |-> a]
      /\ \A x \in Row : x # r => park'[x] = park[x]
  BY <1>2 DEF ParkOne
<1>5. CASE EndLoop(d, "parked")
  <2>1. /\ drv' = [drv EXCEPT ![d] = drv'[d]] /\ drv'[d].at \in {"idle", "exit"}
        /\ drv'[d].at = "exit" => drv'[d].turn = drv[d].turn
    BY <1>1, <1>5, EndLoopState
  <2>2. \A c \in Driver : c # d => drv'[c] = drv[c]
    BY <1>1, <2>1
  <2>3. QED
    BY <1>3, <1>4, <2>1, <2>2
<1>6. CASE drv' = [drv EXCEPT ![d].todo = @ \ {a}]
  <2> DEFINE e == [drv[d] EXCEPT !.todo = drv[d].todo \ {a}]
  <2>1. drv'[d] = e /\ \A c \in Driver : c # d => drv'[c] = drv[c]
    BY <1>1, <1>6
  <2>2. e.todo = drv[d].todo \ {a} /\ Agree(e, drv[d], "todo")
    BY <1>1, SetFacts
  <2> HIDE DEF e
  <2>3. QED
    BY <1>3, <1>4, <2>1, <2>2 DEF Agree
<1>7. QED
  BY <1>5, <1>6 DEF ParkOne

(* A resume that finds every row of the turn resolved drives it on from the *)
(* latest park, and knows every denial of the turn.                        *)
DrivesOn(d, t, s) ==
  /\ RowsIn(t) # {} /\ \A r \in RowsIn(t) : owner[r] = drv[d].sess
  /\ \A r \in RowsIn(t) : ~Unresolved(r) /\ park[r].step <= s
  /\ \E r \in RowsIn(t) : park[r].step = s
  /\ \A r \in RowsIn(t) : park[r].step = s => told'[r] = Message(r)
  /\ \A r \in Row : (r \in RowsIn(t) => park[r].step # s) => told'[r] = told[r]
  /\ drives' = [drives EXCEPT ![t] = [drives[t] EXCEPT ![s] = drives[t][s] + 1]]
  /\ t \in Turn /\ drv[d].at = "resume"
  /\ \A c \in Driver : c # d => drv'[c] = drv[c]
  /\ drv'[d].at = "loop" /\ drv'[d].turn = t /\ drv'[d].sess = drv[d].sess
  /\ drv'[d].step = s + 1
  /\ \E r \in RowsIn(t) : park[r].step = s /\ drv'[d].calls = park[r].calls
  /\ drv'[d].denied = {park[r].act : r \in {x \in RowsIn(t) : status[x] = "denied"}}

LEMMA ReadsMoves ==
  ASSUME TurnInv, DenyInv, NEW d \in Driver, ResumeReads(d),
         NEW t, t = drv[d].turn, AllResolved(t, drv[d].sess)
  PROVE  \E s \in 0..(MaxSteps - 1) : DrivesOn(d, t, s)
<1> DEFINE k == drv[d].sess
           s == LatestStep(t, k)
<1>0. PICK z \in LatestBatch(t, k) : drv' = [drv EXCEPT
        ![d].at = "loop", ![d].step = s + 1, ![d].calls = CallsSoFar(z),
        ![d].denied = {park[r].act : r \in {y \in RowsOf(t, k) : status[y] = "denied"}}]
  BY DEF ResumeReads
<1> DEFINE calls == park[z].calls
           denied == {park[r].act : r \in {x \in RowsOf(t, k) : status[x] = "denied"}}
           e == AfterReads(drv[d], "loop", s + 1, calls, denied)
<1>1. drv \in [Driver -> DriverState] /\ Fields(drv[d]) /\ drv[d].at = "resume"
  BY StateFields DEF TurnInv, TypesInv, PlainTypes, ResumeReads
<1>2. t \in Turn
  BY <1>1 DEF TurnInv, TypesInv
<1>3. RowsOf(t, k) # {} /\ \A r \in RowsOf(t, k) : ~Unresolved(r)
  BY DEF AllResolved
<1>4. RowsIn(t) = RowsOf(t, k) /\ \A r \in RowsIn(t) : owner[r] = k
  <2>1. RowsOf(t, k) = {r \in RowsIn(t) : owner[r] = k}
    BY DEF RowsOf, RowsIn, Visible
  <2>2. \A r, x \in RowsIn(t) : owner[r] = owner[x]
    BY <1>2 DEF DenyInv, PlaceInv
  <2>3. QED
    BY <1>3, <2>1, <2>2
<1>5. /\ s \in 0..(MaxSteps - 1) /\ \A r \in RowsOf(t, k) : park[r].step <= s
      /\ LatestBatch(t, k) = {r \in RowsOf(t, k) : park[r].step = s} /\ LatestBatch(t, k) # {}
  BY <1>3, LatestFacts DEF TurnInv, LatestBatch
<1>6. drv' = [drv EXCEPT ![d] = e]
  BY <1>0, <1>1 DEF CallsSoFar, AfterReads
<1>7. drv'[d] = e /\ \A c \in Driver : c # d => drv'[c] = drv[c]
  BY <1>1, <1>6
<1>8. Moved(e, drv[d], "loop", s + 1, calls, denied, drv[d].todo)
  BY <1>1, ReadsSet
<1>9. /\ told' = [r \in Row |-> IF r \in LatestBatch(t, k) THEN Message(r) ELSE told[r]]
      /\ drives' = [drives EXCEPT ![t] = [drives[t] EXCEPT ![s] = drives[t][s] + 1]]
  BY DEF ResumeReads
<1>10. denied = {park[r].act : r \in {x \in RowsIn(t) : status[x] = "denied"}}
  BY <1>4
<1> HIDE DEF e, calls, denied, s, k
<1>11. /\ drv'[d].at = "loop" /\ drv'[d].turn = t /\ drv'[d].sess = drv[d].sess
       /\ drv'[d].step = s + 1 /\ drv'[d].denied = denied /\ drv'[d].calls = calls
  BY <1>7, <1>8 DEF Moved
<1>12. /\ \A r \in RowsIn(t) : park[r].step = s => told'[r] = Message(r)
       /\ \A r \in Row : (r \in RowsIn(t) => park[r].step # s) => told'[r] = told[r]
  BY <1>4, <1>5, <1>9 DEF RowsIn
<1>13. \E r \in RowsIn(t) : park[r].step = s
  BY <1>4, <1>5
<1>14. /\ RowsIn(t) # {} /\ \A r \in RowsIn(t) : owner[r] = drv[d].sess
       /\ \A r \in RowsIn(t) : ~Unresolved(r) /\ park[r].step <= s
  BY <1>3, <1>4, <1>5 DEF k
<1>15. drv'[d].denied = {park[r].act : r \in {x \in RowsIn(t) : status[x] = "denied"}}
  BY <1>10, <1>11
<1>16. s \in 0..(MaxSteps - 1)
  BY <1>5
<1>17. \E x \in RowsIn(t) : park[x].step = s /\ drv'[d].calls = park[x].calls
  BY <1>0, <1>4, <1>5, <1>11 DEF calls
<1>18. DrivesOn(d, t, s)
  BY <1>1, <1>2, <1>7, <1>9, <1>11, <1>12, <1>13, <1>14, <1>15, <1>17 DEF DrivesOn
<1>19. QED
  BY <1>16, <1>18

(* What a step does to the rows of a turn and to what is known of them.     *)
LEMMA StepKinds ==
  ASSUME TurnInv, [TNext]_allVars
  PROVE  \/ /\ UNCHANGED <<park, told, drives>>
            /\ \A r \in Row : status'[r] = "absent" <=> status[r] = "absent"
         \/ \E d \in Driver, r \in Row, a \in Action : ParkOne(d, r, a)
         \/ \E d \in Driver : ResumeReads(d) /\ AllResolved(drv[d].turn, drv[d].sess)
<1> DEFINE Stay == /\ UNCHANGED <<park, told, drives>>
                   /\ \A r \in Row : status'[r] = "absent" <=> status[r] = "absent"
<1>1. TypeOK
  BY DEF TurnInv, StoreInv
<1>2. CASE StoreStep \/ RestartAll \/ UNCHANGED allVars
  <2>1. UNCHANGED <<park, told, drives>>
    BY <1>2 DEF StoreStep, RestartAll, turnVars, allVars
  <2>2. QED
    BY <1>1, <1>2, <2>1, RowsStay DEF allVars
<1>3. ASSUME NEW q \in Req, FinishStep(q) PROVE Stay
  BY <1>1, <1>3, RowsStay DEF FinishStep, FinishCheck, FinishLaunch, FinishSpawn, LeaveRequest
<1>4. ASSUME NEW d \in Driver, NEW t \in Turn,
             AgentResume(d, t) \/ \E by \in Kind : StartTurn(d, t, by)
      PROVE  Stay
  BY <1>4 DEF AgentResume, StartTurn, vars, tableVars
<1>5. ASSUME NEW r \in Row, ClaimAges(r) PROVE Stay
  BY <1>5 DEF ClaimAges, vars, tableVars
<1>6. ASSUME NEW d \in Driver, DriverStep(d), ~(\E r \in Row, a \in Action : ParkOne(d, r, a)),
             ~(ResumeReads(d) /\ AllResolved(drv[d].turn, drv[d].sess))
      PROVE  Stay
  BY <1>6 DEF DriverStep, Answers, ResumeReads, Exit, Calls, vars, tableVars
<1> HIDE DEF Stay
<1>7. Stay \/ (\E d \in Driver, r \in Row, a \in Action : ParkOne(d, r, a))
        \/ \E d \in Driver : ResumeReads(d) /\ AllResolved(drv[d].turn, drv[d].sess)
  BY <1>2, <1>3, <1>4, <1>5, <1>6 DEF TNext, Stay
<1>8. QED
  BY <1>7 DEF Stay

(* A turn that is clean after a step was clean before it.                   *)
LEMMA CleanBefore ==
  ASSUME TurnInv, DenyInv, [TNext]_allVars, NEW t \in Turn, Clean(t)'
  PROVE  Clean(t)
<1>1. CASE UNCHANGED <<park, told, drives>> /\ \A r \in Row : status'[r] = "absent" <=> status[r] = "absent"
  BY <1>1 DEF Clean, DrivenOnce, DrivenWhole
<1>2. ASSUME NEW d \in Driver, NEW r \in Row, NEW a \in Action, ParkOne(d, r, a) PROVE Clean(t)
  <2>1. UNCHANGED <<told, drives>>
    BY <1>2 DEF ParkOne
  <2>2. \A x \in Row : status[x] # "absent" => status'[x] # "absent" /\ park'[x] = park[x]
    BY <1>2, ParkMoves
  <2>3. QED
    BY <2>1, <2>2 DEF Clean, DrivenOnce, DrivenWhole
<1>3. ASSUME NEW d \in Driver, ResumeReads(d), AllResolved(drv[d].turn, drv[d].sess)
      PROVE  Clean(t)
  <2> DEFINE u == drv[d].turn
  <2>1. PICK s \in 0..(MaxSteps - 1) : DrivesOn(d, u, s)
    BY <1>3, ReadsMoves
  <2>2. UNCHANGED <<status, park>>
    BY <1>3 DEF ResumeReads, vars, tableVars
  <2>3. /\ drives \in [Turn -> [0..(MaxSteps - 1) -> Nat]] /\ u \in Turn
        /\ \A r \in Row : park[r].step \in 0..(MaxSteps - 1)
    BY <2>1 DEF TurnInv, TypesInv, PlainTypes, Park, DrivesOn
  <2>4. drives[u] \in [0..(MaxSteps - 1) -> Nat]
    BY <2>3
  <2>5. /\ drives'[u] = [drives[u] EXCEPT ![s] = drives[u][s] + 1]
        /\ \A x \in Turn : x # u => drives'[x] = drives[x]
    BY <2>1, <2>3 DEF DrivesOn
  <2>6. \A r \in Row : told'[r] = told[r] \/ (r \in RowsIn(u) /\ park[r].step = s)
    BY <2>1 DEF DrivesOn
  <2>7. CASE t # u
    <3>1. drives'[t] = drives[t]
      BY <2>5, <2>7
    <3>2. \A r \in Row : status[r] # "absent" /\ park[r].turn = t => told'[r] = told[r]
      BY <2>6, <2>7 DEF RowsIn
    <3>3. QED
      BY <2>2, <3>1, <3>2 DEF Clean, DrivenOnce, DrivenWhole
  <2>8. CASE t = u
    <3>1. /\ drives'[t][s] = drives[t][s] + 1 /\ drives[t][s] \in Nat
          /\ \A k \in 0..(MaxSteps - 1) : k # s => drives'[t][k] = drives[t][k]
          /\ DOMAIN drives[t] = 0..(MaxSteps - 1) /\ DOMAIN drives'[t] = 0..(MaxSteps - 1)
      <4>1. drives'[t][s] = drives[t][s] + 1 /\ drives[t][s] \in Nat
        BY <2>4, <2>5, <2>8
      <4>2. \A k \in 0..(MaxSteps - 1) : k # s => drives'[t][k] = drives[t][k]
        BY <2>4, <2>5, <2>8
      <4>3. DOMAIN drives[t] = 0..(MaxSteps - 1) /\ DOMAIN drives'[t] = 0..(MaxSteps - 1)
        BY <2>4, <2>5, <2>8
      <4>4. QED
        BY <4>1, <4>2, <4>3
    <3>2. drives[t][s] = 0
      BY <3>1 DEF Clean, DrivenOnce
    <3>3. DrivenOnce(t)
      BY <3>1, <3>2 DEF Clean, DrivenOnce
    <3>4. ASSUME NEW r \in Row, status[r] # "absent", park[r].turn = t, drives[t][park[r].step] > 0
          PROVE  told[r] # "none"
      <4>1. park[r].step # s /\ drives'[t][park[r].step] > 0
        BY <2>3, <3>1, <3>2, <3>4
      <4>2. told'[r] # "none"
        BY <2>2, <3>4, <4>1 DEF Clean, DrivenWhole
      <4>3. QED
        BY <2>6, <4>1, <4>2
    <3>5. QED
      BY <3>3, <3>4 DEF Clean, DrivenWhole
  <2>9. QED
    BY <2>7, <2>8
<1>4. QED
  BY <1>1, <1>2, <1>3, StepKinds

(* While a turn is clean, only a driver that is live can park.              *)
LEMMA LiveParks ==
  ASSUME TurnInv, [TNext]_allVars, NEW d \in Driver, NEW r \in Row, NEW a \in Action,
         ParkOne(d, r, a), NEW t \in Turn, t = drv[d].turn, Clean(t)'
  PROVE  Live(d, t)
<1>1. /\ drv[d].at = "parking" /\ status[r] = "absent" /\ status'[r] = "pending"
      /\ park'[r].turn = t /\ park'[r].step = drv[d].step
  BY ParkMoves
<1>2. told[r] = "none" /\ UNCHANGED <<told, drives>>
  BY <1>1 DEF TurnInv, ToldInv, Settled, ParkOne
<1>3. ~(drives[t][drv[d].step] > 0)
  BY <1>1, <1>2 DEF Clean, DrivenWhole
<1>4. drives[t][drv[d].step] \in Nat
  <2>1. drv[d].step \in 0..(MaxSteps - 1)
    BY <1>1, TurnAssumption DEF TurnInv, TypesInv, PlainTypes, DriverState
  <2>2. drives[t] \in [0..(MaxSteps - 1) -> Nat]
    BY DEF TurnInv, TypesInv, PlainTypes
  <2>3. QED
    BY <2>1, <2>2
<1>5. QED
  BY <1>1, <1>3, <1>4 DEF Live, Looping

LEMMA ParkDeny ==
  ASSUME TurnInv, [TNext]_allVars, DenyInv, NEW d \in Driver, NEW r \in Row, NEW a \in Action, ParkOne(d, r, a)
  PROVE  DenyInv'
<1>1. /\ drv[d].at = "parking" /\ a \in drv[d].todo /\ status[r] = "absent"
      /\ status'[r] = "pending" /\ owner'[r] = drv[d].sess
      /\ park'[r].turn = drv[d].turn /\ park'[r].step = drv[d].step /\ park'[r].act = a
      /\ \A x \in Row : x # r =>
           status'[x] = status[x] /\ park'[x] = park[x] /\ owner'[x] = owner[x]
      /\ \A c \in Driver : c # d => drv'[c] = drv[c]
      /\ drv'[d].at = "parking" =>
           /\ drv'[d].turn = drv[d].turn /\ drv'[d].sess = drv[d].sess
           /\ drv'[d].step = drv[d].step /\ drv'[d].denied = drv[d].denied
           /\ drv'[d].todo \subseteq drv[d].todo
      /\ drv'[d].at \in {"parking", "idle", "exit"}
      /\ drv'[d].at = "exit" => drv'[d].turn = drv[d].turn
  BY ParkMoves
<1>2. UNCHANGED <<told, drives, kind>>
  BY DEF ParkOne
<1>3. /\ \A x \in Row : park[x].step \in Nat /\ drv[d].turn \in Turn
      /\ told[r] = "none" /\ drv[d].step \in 0..(MaxSteps - 1)
      /\ \A t \in Turn, s \in 0..(MaxSteps - 1) : drives[t][s] \in Nat
  <2>1. told[r] = "none"
    BY <1>1 DEF TurnInv, ToldInv, Settled
  <2>2. drv[d].step \in 0..MaxSteps /\ drv[d].step < MaxSteps /\ drv[d].turn \in Turn
    BY <1>1 DEF TurnInv, TypesInv, PlainTypes, DriverState
  <2>3. QED
    BY <2>1, <2>2, TurnAssumption DEF TurnInv, TypesInv, PlainTypes, Park
<1>4. ASSUME NEW t \in Turn PROVE PlaceInv(t)' /\ CleanInv(t)'
  <2>1. PlaceInv(t) /\ CleanInv(t)
    BY DEF DenyInv
  <2>2. /\ RowsIn(t)' = IF t = drv[d].turn THEN RowsIn(t) \cup {r} ELSE RowsIn(t)
        /\ r \notin RowsIn(t)
        /\ \A x \in RowsIn(t) : /\ park'[x] = park[x] /\ owner'[x] = owner[x]
                               /\ status'[x] = status[x] /\ Before(x, t)' = Before(x, t)
    BY <1>1, <1>2 DEF RowsIn, Before
  <2>3. /\ \A c \in Driver : Looping(c, t)' => /\ Looping(c, t) /\ drv'[c].sess = drv[c].sess
                                            /\ drv'[c].step = drv[c].step
                                            /\ drv'[c].at = drv[c].at
                                            /\ drv'[c].denied = drv[c].denied
        /\ \A c \in Driver : Live(c, t)' => Live(c, t)
    BY <1>1, <1>2 DEF Looping, Live
  <2>4. CASE t # drv[d].turn
    <3>1. RowsIn(t)' = RowsIn(t) /\ Clean(t)' = Clean(t)
      <4>1. RowsIn(t)' = RowsIn(t)
        BY <2>2, <2>4
      <4>2. DrivenWhole(t) <=> \A x \in RowsIn(t) : Before(x, t) => told[x] # "none"
        BY DEF DrivenWhole, RowsIn, Before
      <4>3. DrivenWhole(t)' <=> \A x \in RowsIn(t)' : Before(x, t)' => told'[x] # "none"
        BY DEF DrivenWhole, RowsIn, Before
      <4>4. QED
        BY <1>2, <2>2, <4>1, <4>2, <4>3 DEF Clean, DrivenOnce
    <3>2. PlaceInv(t)'
      <4>1. kind'[t] = "none" => \A c \in Driver : drv'[c].at # "idle" => drv'[c].turn # t
        BY <1>1, <1>2, <2>1, <2>4 DEF PlaceInv
      <4>2. QED
        BY <1>2, <2>1, <2>2, <2>3, <3>1, <4>1 DEF PlaceInv
    <3>3. ASSUME Clean(t), NEW c \in Driver, Live(c, t)' PROVE Ahead(c, t)'
      <4>1. Ahead(c, t) /\ drv'[c].step = drv[c].step /\ drv'[c].at = drv[c].at
            /\ drv'[c].denied = drv[c].denied
        BY <2>1, <2>3, <3>3 DEF CleanInv, Live
      <4>2. QED
        BY <2>2, <3>1, <4>1 DEF Ahead
    <3>4. CleanInv(t)'
      BY <2>1, <2>2, <2>3, <3>1, <3>3 DEF CleanInv
    <3>5. QED
      BY <3>2, <3>4
  <2>5. CASE t = drv[d].turn
    <3>1. Looping(d, t) /\ kind[t] # "none" /\ RowsIn(t)' = RowsIn(t) \cup {r}
      BY <1>1, <2>1, <2>2, <2>5 DEF PlaceInv, Looping
    <3>2. PlaceInv(t)'
      <4>1. \A x \in RowsIn(t) : owner'[x] = drv[d].sess
        BY <2>1, <2>2, <3>1 DEF PlaceInv
      <4>2. \A x \in RowsIn(t)' : owner'[x] = drv[d].sess
        BY <1>1, <3>1, <4>1
      <4>3. \A c \in Driver : Looping(c, t)' => drv'[c].sess = drv[d].sess
        BY <2>1, <2>3, <3>1 DEF PlaceInv
      <4>4. \A s \in 0..(MaxSteps - 1) : drives'[t][s] > 0 => \E x \in RowsIn(t)' : park'[x].step = s
        BY <1>2, <2>1, <2>2, <3>1 DEF PlaceInv
      <4>5. QED
        BY <1>2, <3>1, <4>2, <4>3, <4>4 DEF PlaceInv
    <3>3. ASSUME Clean(t)' PROVE Clean(t) /\ Live(d, t)
      <4>1. Clean(t)
        BY <3>3, CleanBefore
      <4>2. QED
        BY <1>3, <2>5, <3>3, <4>1, LiveParks
    <3>4. ASSUME Clean(t)' PROVE /\ \A c \in Driver : Live(c, t) => c = d
                                 /\ Ahead(d, t)
      BY <2>1, <3>3, <3>4 DEF CleanInv
    <3>5. ASSUME Clean(t)', NEW c \in Driver, Live(c, t)' PROVE Ahead(c, t)'
      <4>1. c = d /\ Ahead(d, t) /\ drv'[d].step = drv[d].step /\ drv'[d].at = "parking"
            /\ drv'[d].denied = drv[d].denied
        BY <1>1, <2>3, <3>4, <3>5 DEF Live
      <4>2. QED
        BY <1>1, <1>3, <2>2, <3>1, <4>1 DEF Ahead
    <3>6. ASSUME Clean(t)', NEW x \in RowsIn(t)', NEW y \in RowsIn(t)',
                 park'[x].step < park'[y].step
          PROVE  Before(x, t)'
      <4>1. CASE x # r /\ y # r
        BY <2>1, <2>2, <3>1, <3>3, <3>6, <4>1 DEF CleanInv
      <4>2. CASE y = r /\ x # r
        BY <1>1, <2>2, <3>1, <3>4, <3>6, <4>2 DEF Ahead
      <4>3. CASE x = r
        <5>1. y # r /\ y \in RowsIn(t) /\ park'[y] = park[y]
          BY <1>1, <1>3, <2>2, <3>1, <3>6, <4>3
        <5>2. park[y].step <= drv[d].step /\ park[y].step \in Nat /\ drv[d].step \in Nat
          BY <1>3, <3>4, <3>6, <5>1 DEF Ahead, RowsIn
        <5>3. QED
          BY <1>1, <3>6, <4>3, <5>1, <5>2
      <4>4. QED
        BY <4>1, <4>2, <4>3
    <3>7. CleanInv(t)'
      BY <2>3, <3>4, <3>5, <3>6 DEF CleanInv
    <3>8. QED
      BY <3>2, <3>7
  <2>6. QED
    BY <2>4, <2>5
<1>5. \A c \in Driver : drv'[c].at = "parking" => drv'[c].todo \cap drv'[c].denied = {}
  BY <1>1 DEF DenyInv
<1>6. QED
  BY <1>4, <1>5 DEF DenyInv

LEMMA ReadsDeny ==
  ASSUME TurnInv, [TNext]_allVars, DenyInv, NEW d \in Driver, ResumeReads(d),
         NEW t, t = drv[d].turn, AllResolved(t, drv[d].sess)
  PROVE  DenyInv'
<1>0. PICK s \in 0..(MaxSteps - 1) : DrivesOn(d, t, s)
  BY ReadsMoves
<1>1. /\ RowsIn(t) # {} /\ \A r \in RowsIn(t) : owner[r] = drv[d].sess
      /\ \A r \in RowsIn(t) : ~Unresolved(r) /\ park[r].step <= s
      /\ \E r \in RowsIn(t) : park[r].step = s
      /\ \A r \in RowsIn(t) : park[r].step = s => told'[r] = Message(r)
      /\ \A r \in Row : (r \in RowsIn(t) => park[r].step # s) => told'[r] = told[r]
      /\ drives' = [drives EXCEPT ![t] = [drives[t] EXCEPT ![s] = drives[t][s] + 1]]
      /\ t \in Turn /\ drv[d].at = "resume"
      /\ \A c \in Driver : c # d => drv'[c] = drv[c]
      /\ drv'[d].at = "loop" /\ drv'[d].turn = t /\ drv'[d].sess = drv[d].sess
      /\ drv'[d].step = s + 1
      /\ drv'[d].denied = {park[r].act : r \in {x \in RowsIn(t) : status[x] = "denied"}}
  BY <1>0 DEF DrivesOn
<1>2. UNCHANGED <<status, owner, park, kind>>
  BY DEF ResumeReads, vars, tableVars
<1>3. /\ drives \in [Turn -> [0..(MaxSteps - 1) -> Nat]]
      /\ \A r \in Row : park[r].step \in 0..(MaxSteps - 1)
  BY DEF TurnInv, TypesInv, PlainTypes, Park
<1>4. /\ \A x \in Turn : x # t => drives'[x] = drives[x]
      /\ \A k \in 0..(MaxSteps - 1) : k # s => drives'[t][k] = drives[t][k]
      /\ drives'[t][s] = drives[t][s] + 1 /\ drives[t][s] \in Nat
      /\ DOMAIN drives[t] = 0..(MaxSteps - 1) /\ DOMAIN drives'[t] = 0..(MaxSteps - 1)
  <2>1. drives[t] \in [0..(MaxSteps - 1) -> Nat]
    BY <1>1, <1>3
  <2>2. /\ drives'[t] = [drives[t] EXCEPT ![s] = drives[t][s] + 1]
        /\ \A x \in Turn : x # t => drives'[x] = drives[x]
    BY <1>1, <1>3
  <2>3. drives'[t] = [drives[t] EXCEPT ![s] = drives[t][s] + 1]
    BY <2>2
  <2>4. \A k \in 0..(MaxSteps - 1) : k # s => drives'[t][k] = drives[t][k]
    BY <2>1, <2>3
  <2>5. drives'[t][s] = drives[t][s] + 1 /\ drives[t][s] \in Nat
    BY <2>1, <2>3
  <2>6. DOMAIN drives[t] = 0..(MaxSteps - 1) /\ DOMAIN drives'[t] = 0..(MaxSteps - 1)
    BY <2>1, <2>3
  <2>7. QED
    BY <2>2, <2>4, <2>5, <2>6
<1>5. ASSUME NEW x \in Turn PROVE PlaceInv(x)' /\ CleanInv(x)'
  <2>1. PlaceInv(x) /\ CleanInv(x) /\ RowsIn(x)' = RowsIn(x)
    BY <1>2 DEF DenyInv, RowsIn
  <2>2. CASE x # t
    <3>1. \A r \in RowsIn(x) : r \notin RowsIn(t) /\ told'[r] = told[r] /\ Before(r, x)' = Before(r, x)
      BY <1>1, <1>2, <1>4, <2>2 DEF RowsIn, Before
    <3>2. Clean(x)' => Clean(x)
      BY <1>2, <1>4, <2>1, <2>2, <3>1 DEF Clean, DrivenOnce, DrivenWhole, RowsIn, Before
    <3>3. /\ \A c \in Driver : Looping(c, x)' => Looping(c, x) /\ drv'[c] = drv[c]
          /\ \A c \in Driver : Live(c, x)' => Live(c, x) /\ drv'[c] = drv[c]
      BY <1>1, <1>4, <2>2 DEF Looping, Live
    <3>4. PlaceInv(x)'
      <4>1. kind'[x] = "none" => \A c \in Driver : drv'[c].at # "idle" => drv'[c].turn # x
        BY <1>1, <1>2, <2>1, <2>2 DEF PlaceInv
      <4>2. QED
        BY <1>2, <1>4, <2>1, <2>2, <3>3, <4>1 DEF PlaceInv
    <3>5. CleanInv(x)'
      BY <1>2, <2>1, <3>1, <3>2, <3>3 DEF CleanInv, Ahead
    <3>6. QED
      BY <3>4, <3>5
  <2>3. CASE x = t
    <3>1. kind[t] # "none"
      BY <1>1, <2>1, <2>3 DEF PlaceInv
    <3>2. \A c \in Driver : Looping(c, t)' => drv'[c].sess = drv[d].sess
      <4>1. \A c \in Driver, r \in RowsIn(t) : Looping(c, t) => owner[r] = drv[c].sess
        BY <2>1, <2>3 DEF PlaceInv
      <4>2. \A c \in Driver : Looping(c, t) => drv[c].sess = drv[d].sess
        BY <1>1, <4>1
      <4>3. QED
        BY <1>1, <4>2 DEF Looping
    <3>3. PlaceInv(t)'
      <4>1. \A k \in 0..(MaxSteps - 1) : drives'[t][k] > 0 => \E r \in RowsIn(t) : park[r].step = k
        BY <1>1, <1>4, <2>1, <2>3 DEF PlaceInv
      <4>2. /\ \A c \in Driver, r \in RowsIn(t) : Looping(c, t)' => owner[r] = drv'[c].sess
            /\ \A c, b \in Driver : Looping(c, t)' /\ Looping(b, t)' => drv'[c].sess = drv'[b].sess
        BY <1>1, <3>2
      <4>3. /\ \A r, y \in RowsIn(t) : owner[r] = owner[y]
            /\ RowsIn(t)' = RowsIn(t) /\ kind'[t] # "none"
        BY <1>2, <2>1, <2>3, <3>1 DEF PlaceInv
      <4>4. QED
        BY <1>2, <4>1, <4>2, <4>3 DEF PlaceInv
    <3>4. ASSUME Clean(t)' PROVE drives[t][s] = 0 /\ Clean(t)
      <4>1. drives[t][s] = 0
        BY <1>4, <3>4 DEF Clean, DrivenOnce
      <4>2. QED
        BY <2>3, <3>4, <4>1, CleanBefore
    <3>5. PICK z \in RowsIn(t) : park[z].step = s
      BY <1>1
    <3>6. ASSUME Clean(t)', NEW c \in Driver, Live(c, t)' PROVE c = d
      <4>1. SUFFICES ASSUME c # d PROVE FALSE
        OBVIOUS
      <4>2. drv'[c] = drv[c] /\ Looping(c, t)
        BY <1>1, <3>6, <4>1 DEF Live, Looping
      <4>3. drv[c].step \in 0..MaxSteps
        BY DEF TurnInv, TypesInv, PlainTypes, DriverState
      <4>4. drv[c].at = "parking" => drv[c].step \in 0..(MaxSteps - 1) /\ drv[c].step # s /\ drives[t][drv[c].step] = 0
        <5>1. ASSUME drv[c].at = "parking" PROVE drv[c].step < MaxSteps /\ drives'[t][drv[c].step] = 0
          BY <3>6, <4>2, <5>1 DEF TurnInv, TypesInv, Live
        <5>2. ASSUME drv[c].at = "parking" PROVE drv[c].step \in 0..(MaxSteps - 1)
          BY <4>3, <5>1, <5>2, TurnAssumption
        <5>3. QED
          BY <1>4, <5>1, <5>2
      <4>5. Live(c, t)
        BY <4>2, <4>4 DEF Live
      <4>6. Ahead(c, t)
        BY <2>1, <2>3, <3>4, <3>6, <4>5 DEF CleanInv
      <4>7. s <= drv[c].step /\ (drv[c].at = "loop" => s < drv[c].step) /\ ~(s < drv[c].step)
        BY <3>4, <3>5, <3>6, <4>6, <1>4 DEF Ahead, Before
      <4>8. QED
        BY <4>2, <4>3, <4>4, <4>7 DEF Looping
    <3>7. ASSUME Clean(t)' PROVE Ahead(d, t)'
      <4>1. \A r \in RowsIn(t) : park[r].step < s => Before(r, t)
        BY <2>1, <2>3, <3>4, <3>5, <3>7 DEF CleanInv
      <4>2. \A r \in RowsIn(t) : Before(r, t)'
        <5>1. SUFFICES ASSUME NEW r \in RowsIn(t) PROVE drives'[t][park[r].step] > 0
          BY <1>2 DEF Before
        <5>2. park[r].step \in 0..(MaxSteps - 1) /\ park[r].step <= s
          BY <1>1, <1>3 DEF RowsIn
        <5>3. CASE park[r].step = s
          BY <1>4, <5>3
        <5>4. CASE park[r].step < s
          BY <1>4, <4>1, <5>2, <5>4 DEF Before
        <5>5. QED
          BY <5>2, <5>3, <5>4
      <4>3. \A r \in RowsIn(t) : park[r].step < s + 1 /\ park[r].step <= s + 1
        BY <1>1, <1>3 DEF RowsIn
      <4>4. \A r \in RowsIn(t) : status[r] = "denied" => park[r].act \in drv'[d].denied
        BY <1>1
      <4>5. QED
        BY <1>1, <1>2, <2>1, <2>3, <4>2, <4>3, <4>4 DEF Ahead
    <3>8. ASSUME Clean(t)', NEW r \in RowsIn(t), NEW y \in RowsIn(t), park[r].step < park[y].step
          PROVE  Before(r, t)'
      <4>1. Before(r, t)
        BY <2>1, <2>3, <3>4, <3>8 DEF CleanInv
      <4>2. park[r].step \in 0..(MaxSteps - 1) /\ drives[t][park[r].step] > 0
        BY <1>3, <4>1 DEF Before, RowsIn
      <4>3. drives'[t][park[r].step] > 0
        BY <1>4, <4>2
      <4>4. QED
        BY <1>2, <4>3 DEF Before
    <3>9. CleanInv(t)'
      BY <1>2, <2>1, <2>3, <3>6, <3>7, <3>8 DEF CleanInv
    <3>10. QED
      BY <2>3, <3>3, <3>9
  <2>4. QED
    BY <2>2, <2>3
<1>6. \A c \in Driver : drv'[c].at = "parking" => drv'[c].todo \cap drv'[c].denied = {}
  BY <1>1 DEF DenyInv
<1>7. QED
  BY <1>5, <1>6 DEF DenyInv

(* A driver that leaves, or goes to resume, is of a turn that was started. *)
LEMMA Leaves ==
  ASSUME TurnInv, DenyInv, NEW d \in Driver, drv[d].at # "idle",
         drv' = [drv EXCEPT ![d] = drv'[d]], drv'[d].at \in {"idle", "exit"},
         drv'[d].at = "exit" => drv'[d].turn = drv[d].turn,
         UNCHANGED <<status, owner, park, told, drives, kind>>
  PROVE  Quiet
<1>1. drv[d].turn \in Turn /\ drv \in [Driver -> DriverState]
  BY DEF TurnInv, TypesInv, PlainTypes
<1>2. kind[drv[d].turn] # "none"
  BY <1>1 DEF DenyInv, PlaceInv
<1>3. \A c \in Driver : c # d => drv'[c] = drv[c]
  BY <1>1
<1>4. QED
  BY <1>2, <1>3 DEF Quiet

LEMMA Resumes ==
  ASSUME TurnInv, NEW d \in Driver, NEW t \in Turn, NEW w \in BOOLEAN, ResumeWith(d, t, w),
         kind[t] # "none", owner' = owner, UNCHANGED <<park, told, drives, kind>>,
         \A r \in Row : status'[r] = "absent" <=> status[r] = "absent"
  PROVE  Quiet
<1>1. drv \in [Driver -> DriverState] /\ session \in Nat
  BY DEF TurnInv, TypesInv, PlainTypes, StoreInv, TypeOK
<1>2. drv' = [drv EXCEPT ![d] = drv'[d]] /\ Begun(drv'[d], "resume", t, w, session)
  BY <1>1, BegunState
<1>3. \A c \in Driver : c # d => drv'[c] = drv[c]
  BY <1>1, <1>2
<1>4. QED
  BY <1>2, <1>3 DEF Quiet, Begun

(* The steps that change what is known of a turn, or who drives it on.      *)
DangerousCalls == {A \in SUBSET Action : IsFiniteSet(A) /\ Cardinality(A) <= MaxBatch}

LEMMA QuietSteps ==
  ASSUME TurnInv, DenyInv, [TNext]_allVars
  PROVE  \/ Quiet
         \/ \E d \in Driver, t \in Turn, by \in Kind : StartTurn(d, t, by)
         \/ \E d \in Driver, asked \in DangerousCalls, inline \in {0, 1} : Calls(d, asked, inline)
         \/ \E d \in Driver, r \in Row, a \in Action : ParkOne(d, r, a)
         \/ \E d \in Driver : ResumeReads(d) /\ AllResolved(drv[d].turn, drv[d].sess)
<1>1. drv \in [Driver -> DriverState]
  BY DEF TurnInv, TypesInv, PlainTypes
<1>2. CASE StoreStep \/ UNCHANGED allVars
  BY <1>2, RowsStay DEF StoreStep, turnVars, allVars, TurnInv, StoreInv, Quiet
<1>3. CASE RestartAll
  BY <1>3, RowsStay DEF RestartAll, TurnInv, StoreInv, Quiet, Idle
<1>4. ASSUME NEW d \in Driver, NEW t \in Turn, AgentResume(d, t) PROVE Quiet
  <2>1. /\ ResumeWith(d, t, FALSE) /\ kind[t] # "none"
        /\ UNCHANGED <<status, owner, park, told, drives, kind>>
    BY <1>4 DEF AgentResume, vars, tableVars
  <2>2. QED
    BY <2>1, Resumes
<1>5. ASSUME NEW q \in Req, FinishStep(q) PROVE Quiet
  <2>1. /\ UNCHANGED <<park, told, drives, kind>> /\ owner' = owner
        /\ \A r \in Row : status'[r] = "absent" <=> status[r] = "absent"
    BY <1>5, RowsStay
    DEF FinishStep, FinishCheck, FinishLaunch, FinishSpawn, LeaveRequest, TurnInv, StoreInv
  <2>2. tgt[q] \in Row /\ status[tgt[q]] # "absent" /\ TurnOf(q) \in Turn
    <3>1. pc[q] = "finishing"
      BY <1>5 DEF FinishStep, FinishCheck, FinishLaunch, FinishSpawn
    <3>2. tgt[q] \in Row /\ status[tgt[q]] # "absent"
      BY <3>1 DEF TurnInv, StoreInv, SessionInv, TypeOK
    <3>3. QED
      BY <3>2 DEF TurnInv, TypesInv, TurnOf
  <2>3. kind[TurnOf(q)] # "none"
    BY <2>2 DEF DenyInv, PlaceInv, RowsIn, TurnOf
  <2>4. CASE UNCHANGED drv
    BY <2>1, <2>4 DEF Quiet
  <2>5. ASSUME NEW d \in Driver, ResumeWith(d, TurnOf(q), TRUE) PROVE Quiet
    BY <2>1, <2>2, <2>3, <2>5, Resumes
  <2>6. QED
    BY <1>5, <2>4, <2>5 DEF FinishStep, FinishCheck, FinishLaunch, FinishSpawn, TurnOf
<1>6. ASSUME NEW r \in Row, ClaimAges(r) PROVE Quiet
  BY <1>6 DEF ClaimAges, Quiet, vars, tableVars
<1>7. ASSUME NEW d \in Driver, Answers(d) PROVE Quiet
  <2>1. PICK outcome \in {"complete", "error"} : EndLoop(d, outcome)
    BY <1>7 DEF Answers
  <2>2. drv[d].at = "loop" /\ UNCHANGED <<status, owner, park, told, drives, kind>>
    BY <1>7 DEF Answers, vars, tableVars
  <2>3. QED
    BY <1>1, <2>1, <2>2, EndLoopState, Leaves
<1>8. ASSUME NEW d \in Driver, Exit(d) PROVE Quiet
  <2>1. drv[d].at = "exit" /\ UNCHANGED <<status, owner, park, told, drives, kind>>
    BY <1>8 DEF Exit, vars, tableVars
  <2>2. Tail(drv[d].exit) \in Seq(ExitStep)
    <3>1. drv[d].exit \in Seq(ExitStep)
      BY <1>1 DEF DriverState
    <3>2. drv[d].exit # <<>>
      BY <2>1 DEF TurnInv, WorkerInv, Shapes, DriverOK, WorkerExit
    <3>3. QED
      BY <3>1, <3>2
  <2>3. Leave(d, Tail(drv[d].exit))
    BY <1>8 DEF Exit
  <2>4. QED
    BY <1>1, <2>1, <2>2, <2>3, LeaveState, Leaves
<1>9. ASSUME NEW d \in Driver, ResumeReads(d), ~AllResolved(drv[d].turn, drv[d].sess)
      PROVE  Quiet
  <2>1. EndLoop(d, "parked") /\ drv[d].at = "resume"
        /\ UNCHANGED <<status, owner, park, told, drives, kind>>
    BY <1>9 DEF ResumeReads, vars, tableVars
  <2>2. QED
    BY <1>1, <2>1, EndLoopState, Leaves
<1>10. QED
  BY <1>2, <1>3, <1>4, <1>5, <1>6, <1>7, <1>8, <1>9 DEF TNext, DriverStep, DangerousCalls

LEMMA DenyInductive ==
  /\ TInit => DenyInv
  /\ TurnInv /\ DenyInv /\ [TNext]_allVars => DenyInv'
<1>1. ASSUME TInit PROVE DenyInv
  <2>1. /\ \A d \in Driver : drv[d].at = "idle"
        /\ \A t \in Turn : RowsIn(t) = {}
        /\ \A t \in Turn, s \in 0..(MaxSteps - 1) : drives[t][s] = 0
    BY <1>1 DEF TInit, Init, Idle, RowsIn
  <2>2. \A d \in Driver, t \in Turn : ~Looping(d, t) /\ ~Live(d, t)
    BY <2>1 DEF Looping, Live
  <2>3. \A t \in Turn : PlaceInv(t)
    BY <2>1, <2>2 DEF PlaceInv
  <2>4. \A t \in Turn : CleanInv(t)
    BY <2>1, <2>2 DEF CleanInv
  <2>5. QED
    BY <2>1, <2>3, <2>4 DEF DenyInv
<1>2. ASSUME TurnInv, DenyInv, [TNext]_allVars PROVE DenyInv'
  BY <1>2, QuietSteps, QuietInv, StartDeny, CallsDeny, ParkDeny, ReadsDeny
<1>3. QED
  BY <1>1, <1>2

LEMMA DenyInvariant == TSpec => []DenyInv
BY DenyInductive, TurnInvariant, PTL DEF TSpec

(* A denial is read by the driver of the next step, and lasts.              *)
LEMMA DenialStep ==
  ASSUME TurnInv, TurnInv', DenyInv, DenialHolds, [TNext]_allVars
  PROVE  DenialHolds'
<1> SUFFICES ASSUME NEW r \in Row, NEW x \in Row, NEW t,
                    status'[r] = "denied", status'[x] # "absent",
                    t = park'[r].turn, t = park'[x].turn, park'[r].act = park'[x].act,
                    Clean(t)'
             PROVE  park'[x].step <= park'[r].step
  BY DEF DenialHolds, Clean, DrivenOnce, DrivenWhole
<1>1. \A y \in Row : status'[y] # "absent" => park'[y].turn \in Turn /\ park'[y].step \in Nat
  BY DEF TurnInv, TypesInv, PlainTypes, Park
<1>2. t \in Turn /\ park'[x].step \in Nat /\ park'[r].step \in Nat
  BY <1>1
<1>3. Clean(t)
  BY <1>2, CleanBefore
<1>4. CleanInv(t)
  BY <1>2 DEF DenyInv
<1>5. CASE UNCHANGED <<park, told, drives>> /\ \A y \in Row : status'[y] = "absent" <=> status[y] = "absent"
  <2>1. r \in RowsIn(t) /\ x \in RowsIn(t)
    BY <1>5 DEF RowsIn
  <2>2. CASE status[r] = "denied"
    BY <1>3, <1>5, <2>1, <2>2 DEF DenialHolds, Clean, RowsIn
  <2>3. CASE status[r] # "denied"
    <3>1. ~Before(r, t)
      BY <1>2, <1>3, <2>1, <2>3, BeforeSettled
    <3>2. ~(park[r].step < park[x].step)
      BY <1>3, <1>4, <2>1, <3>1 DEF CleanInv
    <3>3. QED
      BY <1>2, <1>5, <3>2
  <2>4. QED
    BY <2>2, <2>3
<1>6. ASSUME NEW d \in Driver, NEW y \in Row, NEW a \in Action, ParkOne(d, y, a)
      PROVE  park'[x].step <= park'[r].step
  <2>1. /\ drv[d].at = "parking" /\ a \in drv[d].todo /\ status[y] = "absent"
        /\ status'[y] = "pending"
        /\ park'[y].turn = drv[d].turn /\ park'[y].step = drv[d].step /\ park'[y].act = a
        /\ \A z \in Row : z # y => status'[z] = status[z] /\ park'[z] = park[z]
    BY <1>6, ParkMoves
  <2>2. r # y /\ status[r] = "denied" /\ park'[r] = park[r] /\ r \in RowsIn(t)
    BY <2>1 DEF RowsIn
  <2>3. CASE x # y
    BY <1>3, <2>1, <2>2, <2>3 DEF DenialHolds, Clean
  <2>4. CASE x = y
    <3>1. Looping(d, t)
      BY <2>1, <2>4 DEF Looping
    <3>2. Live(d, t)
      BY <1>2, <1>6, <2>1, <2>4, LiveParks
    <3>3. Ahead(d, t)
      BY <1>3, <1>4, <3>2 DEF CleanInv
    <3>4. park[r].act \notin drv[d].denied
      BY <2>1, <2>2, <2>4 DEF DenyInv
    <3>5. park[r].step <= drv[d].step /\ ~(park[r].step < drv[d].step)
      BY <2>2, <3>3, <3>4 DEF Ahead
    <3>6. QED
      BY <1>2, <2>1, <2>2, <2>4, <3>5
  <2>5. QED
    BY <2>3, <2>4
<1>7. ASSUME NEW d \in Driver, ResumeReads(d) PROVE park'[x].step <= park'[r].step
  BY <1>3, <1>7 DEF ResumeReads, vars, tableVars, DenialHolds, Clean
<1>8. QED
  BY <1>5, <1>6, <1>7, StepKinds

(* agent._classify answers a call inline if the user denied it earlier in   *)
(* the turn, and resume_turn rebuilds that set from the rows of the turn:   *)
(* a denied action is not parked again by a later step, for any number of   *)
(* steps, drivers and resumes, while no park of the turn is driven on twice *)
(* or before its last row is there.                                        *)
THEOREM DeniedStaysDenied == TSpec => []DenialHolds
<1>1. TInit => DenialHolds
  BY DEF TInit, Init, DenialHolds
<1>2. TurnInv /\ TurnInv' /\ DenyInv /\ DenialHolds /\ [TNext]_allVars => DenialHolds'
  BY DenialStep
<1>3. QED
  BY <1>1, <1>2, TurnInvariant, DenyInvariant, PTL DEF TSpec

-----------------------------------------------------------------------------
(* The calls of a turn: what a resume goes on from. *)

(* A driver that nobody has overtaken has spent as many calls as the rows   *)
(* it has left behind, and more once it parks.                             *)
Front(d, t) ==
  \A r \in RowsIn(t) :
    /\ park[r].step <= drv[d].step
    /\ drv[d].at = "loop" => park[r].step < drv[d].step
    /\ park[r].step < drv[d].step =>
         /\ Before(r, t) /\ park[r].calls <= drv[d].calls
         /\ drv[d].at = "parking" => park[r].calls < drv[d].calls

Parking(d, t) == drv[d].at = "parking" /\ drv[d].turn = t

Ordered(t) ==
  \A r, x \in RowsIn(t) :
    /\ park[r].step = park[x].step => park[r].calls = park[x].calls
    /\ park[r].step < park[x].step => park[r].calls < park[x].calls

OnceInv(t) ==
  DrivenOnce(t) =>
    /\ \A c, d \in Driver : Live(c, t) /\ Live(d, t) => c = d
    /\ \A d \in Driver : Live(d, t) => Front(d, t)
    /\ \A r, x \in RowsIn(t) : park[r].step < park[x].step => Before(r, t)
    /\ \A d \in Driver, r \in RowsIn(t) :
         Parking(d, t) /\ park[r].step = drv[d].step => park[r].calls = drv[d].calls
    /\ Ordered(t)

OnceForAll == \A t \in Turn : OnceInv(t)

LEMMA QuietOnce ==
  ASSUME OnceForAll, Quiet
  PROVE  OnceForAll'
<1> SUFFICES ASSUME NEW t \in Turn PROVE OnceInv(t)'
  BY DEF OnceForAll
<1>1. OnceInv(t)
  BY DEF OnceForAll
<1>2. /\ RowsIn(t)' = RowsIn(t) /\ DrivenOnce(t)' = DrivenOnce(t)
      /\ \A r : Before(r, t)' = Before(r, t) /\ park'[r] = park[r]
      /\ \A d \in Driver : Parking(d, t)' => drv'[d] = drv[d] /\ Parking(d, t)
      /\ \A d \in Driver : Live(d, t)' => drv'[d] = drv[d] /\ Live(d, t)
  BY DEF Quiet, RowsIn, DrivenOnce, Before, Parking, Live, Looping
<1>3. Ordered(t)' = Ordered(t)
  BY <1>2 DEF Ordered
<1>4. QED
  BY <1>1, <1>2, <1>3 DEF OnceInv, Front

LEMMA StartOnce ==
  ASSUME TurnInv, DenyInv, OnceForAll, NEW d \in Driver, NEW t \in Turn, NEW by \in Kind,
         StartTurn(d, t, by)
  PROVE  OnceForAll'
<1>1. /\ drv' = [drv EXCEPT ![d] = drv'[d]] /\ Begun(drv'[d], "loop", t, FALSE, session)
      /\ drv \in [Driver -> DriverState]
  BY BegunState DEF TurnInv, TypesInv, PlainTypes, StoreInv, TypeOK
<1>2. /\ \A c \in Driver : c # d => drv'[c] = drv[c]
      /\ drv'[d].at = "loop" /\ drv'[d].turn = t
  BY <1>1 DEF Begun
<1>3. UNCHANGED <<status, park, drives>> /\ kind[t] = "none"
  BY DEF StartTurn, vars, tableVars
<1> SUFFICES ASSUME NEW x \in Turn PROVE OnceInv(x)'
  BY DEF OnceForAll
<1>4. /\ RowsIn(x)' = RowsIn(x) /\ DrivenOnce(x)' = DrivenOnce(x) /\ Ordered(x)' = Ordered(x)
      /\ \A r : Before(r, x)' = Before(r, x)
  BY <1>3 DEF RowsIn, DrivenOnce, Before, Ordered
<1>5. CASE x # t
  <2>1. /\ \A c \in Driver : Live(c, x)' => Live(c, x) /\ drv'[c] = drv[c]
        /\ \A c \in Driver : Parking(c, x)' => Parking(c, x) /\ drv'[c] = drv[c]
    BY <1>2, <1>3, <1>5 DEF Live, Looping, Parking
  <2>2. ASSUME NEW c \in Driver, Front(c, x), drv'[c] = drv[c] PROVE Front(c, x)'
    BY <1>3, <1>4, <2>2 DEF Front
  <2>3. OnceInv(x)
    BY DEF OnceForAll
  <2>4. ASSUME DrivenOnce(x), NEW c \in Driver, NEW r \in RowsIn(x), Parking(c, x)',
               park[r].step = drv'[c].step
        PROVE  park[r].calls = drv'[c].calls
    BY <2>1, <2>3, <2>4 DEF OnceInv
  <2>5. QED
    BY <1>3, <1>4, <2>1, <2>2, <2>3, <2>4 DEF OnceInv
<1>6. CASE x = t
  <2>1. RowsIn(t) = {} /\ \A c \in Driver : Looping(c, t)' => c = d
    BY <1>2, <1>3 DEF DenyInv, PlaceInv, Looping
  <2>2. QED
    BY <1>4, <1>6, <2>1 DEF OnceInv, Live, Front, Ordered
<1>7. QED
  BY <1>5, <1>6

LEMMA CallsOnce ==
  ASSUME TurnInv, DenyInv, OnceForAll, NEW d \in Driver, NEW asked \in DangerousCalls,
         NEW inline \in {0, 1}, Calls(d, asked, inline)
  PROVE  OnceForAll'
<1>1. /\ drv[d].at = "loop" /\ \A c \in Driver : c # d => drv'[c] = drv[c]
      /\ drv'[d].turn = drv[d].turn
  BY CallsMoves
<1>2. /\ drv[d].calls \in Nat /\ drv'[d].calls \in Nat /\ drv[d].calls < drv'[d].calls
      /\ drv[d].step \in Nat
      /\ \/ drv'[d].at = "loop" /\ drv'[d].step = drv[d].step + 1
         \/ drv'[d].at = "parking" /\ drv'[d].step = drv[d].step
  BY CallsBatch DEF TurnInv, DangerousCalls
<1>3. UNCHANGED <<status, park, drives>>
  BY DEF Calls, vars, tableVars
<1> SUFFICES ASSUME NEW t \in Turn PROVE OnceInv(t)'
  BY DEF OnceForAll
<1>4. /\ RowsIn(t)' = RowsIn(t) /\ DrivenOnce(t)' = DrivenOnce(t) /\ Ordered(t)' = Ordered(t)
      /\ \A r : Before(r, t)' = Before(r, t)
      /\ \A c \in Driver : Live(c, t)' => Live(c, t)
      /\ \A c \in Driver : Parking(c, t)' => Looping(c, t) /\ (c # d => Parking(c, t))
  BY <1>1, <1>2, <1>3
  DEF RowsIn, DrivenOnce, Ordered, Before, Live, Looping, Parking
<1>5. ASSUME DrivenOnce(t), drv[d].turn = t
      PROVE  \A r \in RowsIn(t) :
               /\ Before(r, t) /\ park[r].step \in Nat
               /\ park[r].step < drv[d].step /\ park[r].step < drv'[d].step
               /\ park[r].step <= drv'[d].step
               /\ park[r].calls < drv'[d].calls /\ park[r].calls <= drv'[d].calls
  <2>1. Live(d, t)
    BY <1>1, <1>5 DEF Live, Looping
  <2>2. Front(d, t)
    BY <1>5, <2>1 DEF OnceForAll, OnceInv
  <2>3. SUFFICES ASSUME NEW r \in RowsIn(t)
                 PROVE  /\ Before(r, t) /\ park[r].step \in Nat
                        /\ park[r].step < drv[d].step /\ park[r].step < drv'[d].step
                        /\ park[r].step <= drv'[d].step
                        /\ park[r].calls < drv'[d].calls /\ park[r].calls <= drv'[d].calls
    OBVIOUS
  <2>4. park[r].step \in Nat /\ park[r].calls \in Nat
    BY DEF RowsIn, TurnInv, TypesInv, PlainTypes, Park
  <2>5. park[r].step < drv[d].step /\ Before(r, t) /\ park[r].calls <= drv[d].calls
    BY <1>1, <2>2 DEF Front
  <2>6. park[r].step < drv'[d].step /\ park[r].step <= drv'[d].step
    BY <1>2, <2>4, <2>5
  <2>7. park[r].calls < drv'[d].calls /\ park[r].calls <= drv'[d].calls
    BY <1>2, <2>4, <2>5
  <2>8. QED
    BY <2>4, <2>5, <2>6, <2>7
<1>6. ASSUME DrivenOnce(t), NEW c \in Driver, Live(c, t)' PROVE Front(c, t)'
  <2>1. CASE c = d
    BY <1>1, <1>3, <1>4, <1>5, <1>6, <2>1 DEF Front, Live, Looping
  <2>2. CASE c # d
    <3>1. drv'[c] = drv[c] /\ Front(c, t)
      BY <1>1, <1>4, <1>6, <2>2 DEF OnceForAll, OnceInv
    <3>2. QED
      BY <1>3, <1>4, <3>1 DEF Front
  <2>3. QED
    BY <2>1, <2>2
<1>7. ASSUME DrivenOnce(t), NEW c \in Driver, NEW r \in RowsIn(t), Parking(c, t)',
             park[r].step = drv'[c].step
      PROVE  park[r].calls = drv'[c].calls
  <2>1. CASE c = d
    <3>1. drv[d].turn = t
      BY <1>1, <1>7, <2>1 DEF Parking
    <3>2. park[r].step < drv'[d].step /\ park[r].step \in Nat
      BY <1>5, <1>7, <3>1
    <3>3. QED
      BY <1>7, <2>1, <3>2
  <2>2. CASE c # d
    <3>1. drv'[c] = drv[c] /\ Parking(c, t)
      BY <1>1, <1>4, <1>7, <2>2
    <3>2. QED
      BY <1>7, <3>1 DEF OnceForAll, OnceInv
  <2>3. QED
    BY <2>1, <2>2
<1>8. QED
  BY <1>3, <1>4, <1>6, <1>7 DEF OnceForAll, OnceInv

(* A row that is parked, at step k with c calls, finds its place among the   *)
(* rows of its turn, also when its driver has been overtaken.              *)
LEMMA ParkPlace ==
  ASSUME TurnInv, DenyInv, OnceForAll, NEW d \in Driver, NEW t \in Turn, Parking(d, t),
         DrivenOnce(t), NEW y \in RowsIn(t)
  PROVE  /\ park[y].step = drv[d].step => park[y].calls = drv[d].calls
         /\ park[y].step < drv[d].step => Before(y, t) /\ park[y].calls < drv[d].calls
         /\ drv[d].step < park[y].step =>
              drives[t][drv[d].step] > 0 /\ drv[d].calls < park[y].calls
<1>1. OnceInv(t) /\ PlaceInv(t)
  BY DEF OnceForAll, DenyInv
<1>2. drv[d].step \in 0..(MaxSteps - 1) /\ park[y].step \in Nat
  <2>1. drv[d].step \in 0..MaxSteps /\ drv[d].step < MaxSteps
    BY DEF Parking, TurnInv, TypesInv, PlainTypes, DriverState
  <2>2. QED
    BY <2>1, TurnAssumption DEF RowsIn, TurnInv, TypesInv, PlainTypes, Park
<1>3. park[y].step = drv[d].step => park[y].calls = drv[d].calls
  BY <1>1 DEF OnceInv
<1>4. CASE drives[t][drv[d].step] = 0
  <2>1. Live(d, t)
    BY <1>4 DEF Live, Looping, Parking
  <2>2. Front(d, t)
    BY <1>1, <2>1 DEF OnceInv
  <2>3. park[y].step <= drv[d].step
    BY <2>2 DEF Front
  <2>4. ~(drv[d].step < park[y].step)
    BY <1>2, <2>3
  <2>5. QED
    BY <1>3, <2>2, <2>4 DEF Front, Parking
<1>5. CASE drives[t][drv[d].step] # 0
  <2>1. drives[t][drv[d].step] > 0
    <3>1. drives[t] \in [0..(MaxSteps - 1) -> Nat]
      BY DEF TurnInv, TypesInv, PlainTypes
    <3>2. drives[t][drv[d].step] \in Nat
      BY <1>2, <3>1
    <3>3. QED
      BY <1>5, <3>2
  <2>2. PICK z \in RowsIn(t) : park[z].step = drv[d].step
    BY <1>1, <1>2, <2>1 DEF PlaceInv
  <2>3. park[z].calls = drv[d].calls
    BY <1>1, <2>2 DEF OnceInv
  <2>4. /\ park[y].step < park[z].step => Before(y, t) /\ park[y].calls < park[z].calls
        /\ park[z].step < park[y].step => park[z].calls < park[y].calls
    BY <1>1 DEF OnceInv, Ordered
  <2>5. QED
    BY <1>3, <2>1, <2>2, <2>3, <2>4
<1>6. QED
  BY <1>4, <1>5

LEMMA ParkOnce ==
  ASSUME TurnInv, DenyInv, OnceForAll, NEW d \in Driver, NEW r \in Row, NEW a \in Action,
         ParkOne(d, r, a)
  PROVE  OnceForAll'
<1>1. /\ drv[d].at = "parking" /\ status[r] = "absent" /\ status'[r] = "pending"
      /\ park'[r].turn = drv[d].turn /\ park'[r].step = drv[d].step
      /\ park'[r].calls = drv[d].calls
      /\ \A x \in Row : x # r => status'[x] = status[x] /\ park'[x] = park[x]
      /\ \A c \in Driver : c # d => drv'[c] = drv[c]
      /\ drv'[d].at = "parking" =>
           /\ drv'[d].turn = drv[d].turn /\ drv'[d].step = drv[d].step
           /\ drv'[d].calls = drv[d].calls
      /\ drv'[d].at \in {"parking", "idle", "exit"}
  BY ParkMoves
<1>2. UNCHANGED drives /\ \A x \in Row : park[x].step \in Nat /\ park[x].calls \in Nat
  BY DEF ParkOne, TurnInv, TypesInv, PlainTypes, Park
<1>3. drv[d].step \in 0..(MaxSteps - 1) /\ drv[d].step \in Nat /\ drv[d].calls \in Nat
  <2>1. drv[d].step \in 0..MaxSteps /\ drv[d].step < MaxSteps /\ drv[d].calls \in Nat
    BY <1>1 DEF TurnInv, TypesInv, PlainTypes, DriverState
  <2>2. QED
    BY <2>1, TurnAssumption
<1> SUFFICES ASSUME NEW t \in Turn, DrivenOnce(t)' PROVE OnceInv(t)'
  BY DEF OnceForAll, OnceInv
<1>4. OnceInv(t) /\ DrivenOnce(t) /\ PlaceInv(t)
  BY <1>2 DEF OnceForAll, DrivenOnce, DenyInv
<1>5. /\ RowsIn(t)' = IF t = drv[d].turn THEN RowsIn(t) \cup {r} ELSE RowsIn(t)
      /\ r \notin RowsIn(t)
      /\ \A x \in RowsIn(t) : park'[x] = park[x] /\ Before(x, t)' = Before(x, t) /\ x \in Row
  BY <1>1, <1>2 DEF RowsIn, Before
<1>6. /\ \A c \in Driver : Live(c, t)' => /\ Live(c, t) /\ drv'[c].step = drv[c].step
                                       /\ drv'[c].calls = drv[c].calls
                                       /\ drv'[c].at = drv[c].at
      /\ \A c \in Driver : Parking(c, t)' => /\ Parking(c, t) /\ drv'[c].step = drv[c].step
                                          /\ drv'[c].calls = drv[c].calls
  BY <1>1, <1>2 DEF Live, Looping, Parking
<1>7. CASE t # drv[d].turn
  <2>1. RowsIn(t)' = RowsIn(t)
    BY <1>5, <1>7
  <2>2. Ordered(t)'
    BY <1>4, <1>5, <2>1 DEF OnceInv, Ordered
  <2>3. ASSUME NEW c \in Driver, Live(c, t)' PROVE Front(c, t)'
    BY <1>4, <1>5, <1>6, <2>1, <2>3 DEF OnceInv, Front
  <2>4. QED
    BY <1>4, <1>5, <1>6, <2>1, <2>2, <2>3 DEF OnceInv
<1>8. CASE t = drv[d].turn
  <2>1. Parking(d, t) /\ Looping(d, t) /\ RowsIn(t)' = RowsIn(t) \cup {r}
    BY <1>1, <1>5, <1>8 DEF Parking, Looping
  <2>2. \A y \in RowsIn(t) :
          /\ park[y].step = drv[d].step => park[y].calls = drv[d].calls
          /\ park[y].step < drv[d].step => Before(y, t) /\ park[y].calls < drv[d].calls
          /\ drv[d].step < park[y].step =>
               drives[t][drv[d].step] > 0 /\ drv[d].calls < park[y].calls
    BY <1>4, <2>1, ParkPlace
  <2>3. Ordered(t)'
    <3>1. SUFFICES ASSUME NEW x \in RowsIn(t)', NEW y \in RowsIn(t)'
                   PROVE  /\ park'[x].step = park'[y].step => park'[x].calls = park'[y].calls
                          /\ park'[x].step < park'[y].step => park'[x].calls < park'[y].calls
      BY DEF Ordered
    <3>2. CASE x # r /\ y # r
      BY <1>4, <1>5, <2>1, <3>1, <3>2 DEF OnceInv, Ordered
    <3>3. CASE x = r /\ y # r
      BY <1>1, <1>5, <2>1, <2>2, <3>1, <3>3
    <3>4. CASE x # r /\ y = r
      BY <1>1, <1>5, <2>1, <2>2, <3>1, <3>4
    <3>5. CASE x = r /\ y = r
      BY <1>1, <1>3, <3>5
    <3>6. QED
      BY <3>2, <3>3, <3>4, <3>5
  <2>4. ASSUME NEW x \in RowsIn(t)', NEW y \in RowsIn(t)', park'[x].step < park'[y].step
        PROVE  Before(x, t)'
    <3>1. CASE x # r /\ y # r
      BY <1>4, <1>5, <2>1, <2>4, <3>1 DEF OnceInv
    <3>2. CASE x = r /\ y # r
      BY <1>1, <1>2, <1>5, <2>1, <2>2, <2>4, <3>2 DEF Before
    <3>3. CASE x # r /\ y = r
      BY <1>1, <1>5, <2>1, <2>2, <2>4, <3>3
    <3>4. CASE x = r /\ y = r
      BY <1>1, <1>3, <2>4, <3>4
    <3>5. QED
      BY <3>1, <3>2, <3>3, <3>4
  <2>5. ASSUME NEW c \in Driver, Parking(c, t), drv[c].step = drv[d].step
        PROVE  drv[c].calls = drv[d].calls
    <3>1. CASE \E z \in RowsIn(t) : park[z].step = drv[d].step
      BY <1>4, <2>1, <2>5, <3>1 DEF OnceInv
    <3>2. CASE ~(\E z \in RowsIn(t) : park[z].step = drv[d].step)
      <4>1. ~(drives[t][drv[d].step] > 0)
        BY <1>3, <1>4, <3>2 DEF PlaceInv
      <4>2. drives[t][drv[d].step] = 0
        <5>1. drives[t] \in [0..(MaxSteps - 1) -> Nat]
          BY DEF TurnInv, TypesInv, PlainTypes
        <5>2. drives[t][drv[d].step] \in Nat
          BY <1>3, <5>1
        <5>3. QED
          BY <4>1, <5>2
      <4>3. Live(c, t) /\ Live(d, t)
        BY <2>1, <2>5, <4>2 DEF Live, Looping, Parking
      <4>4. c = d
        BY <1>4, <4>3 DEF OnceInv
      <4>5. QED
        BY <4>4
    <3>3. QED
      BY <3>1, <3>2
  <2>6. ASSUME NEW c \in Driver, NEW x \in RowsIn(t)', Parking(c, t)',
               park'[x].step = drv'[c].step
        PROVE  park'[x].calls = drv'[c].calls
    <3>1. CASE x = r
      BY <1>1, <1>6, <2>5, <2>6, <3>1
    <3>2. CASE x # r
      BY <1>4, <1>5, <1>6, <2>1, <2>6, <3>2 DEF OnceInv
    <3>3. QED
      BY <3>1, <3>2
  <2>7. ASSUME NEW c \in Driver, Live(c, t)' PROVE Front(c, t)'
    <3>1. /\ Live(c, t) /\ drv'[c].step = drv[c].step /\ drv'[c].calls = drv[c].calls
          /\ drv'[c].at = drv[c].at /\ Front(c, t)
      BY <1>4, <1>6, <2>7 DEF OnceInv
    <3>2. CASE c = d
      <4>1. /\ park'[r].step <= drv'[d].step /\ ~(park'[r].step < drv'[d].step)
            /\ drv'[d].at # "loop"
        BY <1>1, <1>3, <3>1, <3>2
      <4>2. QED
        BY <1>5, <2>1, <3>1, <3>2, <4>1 DEF Front
    <3>3. CASE c # d
      <4>1. ~Live(d, t)
        BY <1>4, <3>1, <3>3 DEF OnceInv
      <4>2. drives[t][drv[d].step] > 0
        <5>1. drives[t] \in [0..(MaxSteps - 1) -> Nat]
          BY DEF TurnInv, TypesInv, PlainTypes
        <5>2. drives[t][drv[d].step] \in Nat
          BY <1>3, <5>1
        <5>3. QED
          BY <2>1, <4>1, <5>2 DEF Live
      <4>3. PICK z \in RowsIn(t) : park[z].step = drv[d].step
        BY <1>3, <1>4, <4>2 DEF PlaceInv
      <4>4. park[z].calls = drv[d].calls
        BY <2>2, <4>3
      <4>5. drv[c].at = "parking" => drv[c].step # drv[d].step
        BY <3>1, <4>2 DEF Live
      <4>6. park[z].step < drv[c].step
        <5>1. /\ park[z].step <= drv[c].step
              /\ drv[c].at = "loop" => park[z].step < drv[c].step
              /\ drv[c].at \in {"loop", "parking"} /\ drv[c].step \in Nat
          BY <3>1, <4>3 DEF Front, Live, Looping, TurnInv, TypesInv, PlainTypes, DriverState
        <5>2. QED
          BY <1>3, <4>3, <4>5, <5>1
      <4>7. /\ park[z].calls <= drv[c].calls
            /\ drv[c].at = "parking" => park[z].calls < drv[c].calls
        BY <3>1, <4>3, <4>6 DEF Front
      <4>8. Before(r, t)' /\ park'[r].step <= drv'[c].step /\ park'[r].step < drv'[c].step
        BY <1>1, <1>2, <3>1, <4>2, <4>3, <4>6, <1>3 DEF Before, Front
      <4>9. QED
        BY <1>1, <1>5, <2>1, <3>1, <4>3, <4>4, <4>7, <4>8 DEF Front
    <3>4. QED
      BY <3>2, <3>3
  <2>8. QED
    BY <1>4, <1>6, <2>3, <2>4, <2>6, <2>7 DEF OnceInv
<1>9. QED
  BY <1>7, <1>8

LEMMA ReadsOnce ==
  ASSUME TurnInv, [TNext]_allVars, DenyInv, OnceForAll, NEW d \in Driver, ResumeReads(d),
         NEW t, t = drv[d].turn, AllResolved(t, drv[d].sess)
  PROVE  OnceForAll'
<1>1. PICK s \in 0..(MaxSteps - 1) : DrivesOn(d, t, s)
  BY ReadsMoves
<1>2. UNCHANGED <<status, park>> /\ t \in Turn
  BY <1>1 DEF ResumeReads, vars, tableVars, DrivesOn
<1>3. /\ drives \in [Turn -> [0..(MaxSteps - 1) -> Nat]]
      /\ \A r \in Row : park[r].step \in 0..(MaxSteps - 1) /\ park[r].calls \in Nat
      /\ \A r \in Row : park[r].step \in Nat
  BY DEF TurnInv, TypesInv, PlainTypes, Park
<1>4. drives[t] \in [0..(MaxSteps - 1) -> Nat]
  BY <1>2, <1>3
<1>5. /\ drives'[t] = [drives[t] EXCEPT ![s] = drives[t][s] + 1]
      /\ \A x \in Turn : x # t => drives'[x] = drives[x]
  BY <1>1, <1>3 DEF DrivesOn
<1>6. /\ \A k \in 0..(MaxSteps - 1) : k # s => drives'[t][k] = drives[t][k]
      /\ drives'[t][s] = drives[t][s] + 1 /\ drives[t][s] \in Nat
      /\ DOMAIN drives[t] = 0..(MaxSteps - 1) /\ DOMAIN drives'[t] = 0..(MaxSteps - 1)
  <2>1. \A k \in 0..(MaxSteps - 1) : k # s => drives'[t][k] = drives[t][k]
    BY <1>4, <1>5
  <2>2. drives'[t][s] = drives[t][s] + 1 /\ drives[t][s] \in Nat
    BY <1>4, <1>5
  <2>3. DOMAIN drives[t] = 0..(MaxSteps - 1) /\ DOMAIN drives'[t] = 0..(MaxSteps - 1)
    BY <1>4, <1>5
  <2>4. QED
    BY <2>1, <2>2, <2>3
<1>7. /\ \A c \in Driver : c # d => drv'[c] = drv[c]
      /\ drv[d].at = "resume" /\ drv'[d].at = "loop" /\ drv'[d].turn = t
      /\ drv'[d].step = s + 1
      /\ \A r \in RowsIn(t) : park[r].step <= s
  BY <1>1 DEF DrivesOn
<1>8. PICK z \in RowsIn(t) : park[z].step = s /\ drv'[d].calls = park[z].calls
  BY <1>1 DEF DrivesOn
<1> SUFFICES ASSUME NEW x \in Turn, DrivenOnce(x)' PROVE OnceInv(x)'
  BY DEF OnceForAll, OnceInv
<1>9. OnceInv(x) /\ RowsIn(x)' = RowsIn(x) /\ Ordered(x)' = Ordered(x)
  BY <1>2 DEF OnceForAll, RowsIn, Ordered
<1>10. CASE x # t
  <2>1. DrivenOnce(x) /\ \A r : Before(r, x)' = Before(r, x)
    BY <1>2, <1>5, <1>10 DEF DrivenOnce, Before
  <2>2. /\ \A c \in Driver : Live(c, x)' => Live(c, x) /\ drv'[c] = drv[c]
        /\ \A c \in Driver : Parking(c, x)' => Parking(c, x) /\ drv'[c] = drv[c]
    BY <1>5, <1>7, <1>10 DEF Live, Looping, Parking
  <2>3. QED
    BY <1>2, <1>9, <2>1, <2>2 DEF OnceInv, Front
<1>11. CASE x = t
  <2>1. drives[t][s] = 0 /\ DrivenOnce(t)
    <3>1. \A k \in 0..(MaxSteps - 1) : drives'[t][k] <= 1
      BY <1>6, <1>11 DEF DrivenOnce
    <3>2. drives[t][s] = 0
      <4>1. drives'[t][s] <= 1
        BY <3>1
      <4>2. QED
        BY <1>6, <4>1
    <3>3. \A k \in 0..(MaxSteps - 1) : drives[t][k] <= 1
      BY <1>6, <3>1, <3>2
    <3>4. QED
      BY <1>6, <3>2, <3>3 DEF DrivenOnce
  <2>2. ASSUME NEW c \in Driver, Live(c, t)', c # d PROVE FALSE
    <3>1. drv'[c] = drv[c] /\ Looping(c, t)
      BY <1>7, <2>2 DEF Live, Looping
    <3>2. drv[c].step \in 0..MaxSteps /\ (drv[c].at = "parking" => drv[c].step < MaxSteps)
      BY DEF TurnInv, TypesInv, PlainTypes, DriverState
    <3>3. drv[c].at = "parking" =>
            drv[c].step \in 0..(MaxSteps - 1) /\ drv[c].step # s /\ drives[t][drv[c].step] = 0
      <4>1. ASSUME drv[c].at = "parking" PROVE drives'[t][drv[c].step] = 0
        BY <2>2, <3>1, <4>1 DEF Live
      <4>2. ASSUME drv[c].at = "parking" PROVE drv[c].step \in 0..(MaxSteps - 1)
        BY <3>2, <4>2, TurnAssumption
      <4>3. QED
        BY <1>6, <4>1, <4>2
    <3>4. Live(c, t)
      BY <3>1, <3>3 DEF Live
    <3>5. Front(c, t)
      BY <1>9, <1>11, <2>1, <3>4 DEF OnceInv
    <3>6. s <= drv[c].step /\ (drv[c].at = "loop" => s < drv[c].step) /\ ~(s < drv[c].step)
      BY <1>8, <2>1, <3>5 DEF Front, Before
    <3>7. QED
      BY <3>1, <3>2, <3>3, <3>6 DEF Looping
  <2>3. ASSUME NEW r \in RowsIn(t)
        PROVE  /\ Before(r, t)' /\ park[r].calls <= drv'[d].calls
               /\ park[r].step < s + 1 /\ park[r].step <= s + 1
    <3>1. park[r].step \in 0..(MaxSteps - 1) /\ park[r].step <= s /\ park[r].calls \in Nat
      BY <1>3, <1>7 DEF RowsIn
    <3>2. CASE park[r].step = s
      <4>1. park[r].calls = park[z].calls
        BY <1>8, <1>9, <1>11, <2>1, <3>2 DEF OnceInv, Ordered
      <4>2. Before(r, t)'
        BY <1>2, <1>6, <3>2 DEF Before
      <4>3. QED
        BY <1>8, <3>1, <3>2, <4>1, <4>2
    <3>3. CASE park[r].step < s
      <4>1. Before(r, t) /\ park[r].calls < park[z].calls
        BY <1>8, <1>9, <1>11, <2>1, <3>3 DEF OnceInv, Ordered
      <4>2. Before(r, t)'
        BY <1>2, <1>6, <3>1, <3>3, <4>1 DEF Before
      <4>3. park[z].calls \in Nat
        BY <1>3, <1>8 DEF RowsIn
      <4>4. QED
        BY <1>8, <3>1, <4>1, <4>2, <4>3
    <3>4. QED
      BY <3>1, <3>2, <3>3
  <2>4. ASSUME NEW c \in Driver, Live(c, t)' PROVE Front(c, t)'
    <3>1. c = d
      BY <2>2, <2>4
    <3>2. QED
      BY <1>2, <1>7, <1>9, <1>11, <2>3, <3>1 DEF Front
  <2>5. ASSUME NEW c \in Driver, Parking(c, t)' PROVE Parking(c, t) /\ drv'[c] = drv[c]
    BY <1>7, <2>5 DEF Parking
  <2>6. \A c, b \in Driver : Live(c, t)' /\ Live(b, t)' => c = b
    BY <2>2
  <2>7. QED
    BY <1>2, <1>9, <1>11, <2>1, <2>3, <2>4, <2>5, <2>6 DEF OnceInv
<1>12. QED
  BY <1>10, <1>11

LEMMA OnceInductive ==
  /\ TInit => OnceForAll
  /\ TurnInv /\ DenyInv /\ OnceForAll /\ [TNext]_allVars => OnceForAll'
<1>1. ASSUME TInit PROVE OnceForAll
  <2>1. (\A d \in Driver : drv[d].at = "idle") /\ \A t \in Turn : RowsIn(t) = {}
    BY <1>1 DEF TInit, Init, Idle, RowsIn
  <2>2. QED
    BY <2>1 DEF OnceForAll, OnceInv, Live, Looping, Ordered
<1>2. ASSUME TurnInv, DenyInv, OnceForAll, [TNext]_allVars PROVE OnceForAll'
  BY <1>2, QuietSteps, QuietOnce, StartOnce, CallsOnce, ParkOnce, ReadsOnce
<1>3. QED
  BY <1>1, <1>2

(* agent.resume_turn goes on with the step and the call count of the latest *)
(* park: of two parks of a turn, the later one has spent more of its tool   *)
(* calls, however often, by whom and from whichever session the turn is    *)
(* resumed, while no park of it is driven on twice.                        *)
THEOREM BudgetIsKept == TSpec => []BudgetCarries
<1>1. OnceForAll => BudgetCarries
  BY DEF OnceForAll, OnceInv, Ordered, BudgetCarries
<1>2. QED
  BY <1>1, OnceInductive, TurnInvariant, DenyInvariant, PTL DEF TSpec

-----------------------------------------------------------------------------
(* The tail of a turn with one action to a park is driven once. *)

(* The requests that won a decision about their row, until they answer. *)
Resolving(q) ==
  pc[q] \in {"claiming", "claimed", "handling", "storing", "writing", "finishing"}

ResolverInv ==
  /\ \A q \in Req : Resolving(q) => status[tgt[q]] \in {"approved", "executed", "denied"}
  /\ \A p, q \in Req : Resolving(p) /\ Resolving(q) /\ tgt[p] = tgt[q] => p = q

(* Where a row may come from, and where an approved one may go.             *)
LEMMA StatusStep ==
  ASSUME TypeOK, [Next]_vars, NEW r \in Row
  PROVE  /\ status[r] = "approved" => status'[r] \in {"approved", "executed"}
         /\ status[r] # "absent" /\ status'[r] \in {"pending", "approved"}
              => status[r] \in {"pending", "approved"}
<1> USE DEF TypeOK, Status
<1>1. CASE UNCHANGED status
  BY <1>1
<1>2. CASE \E s \in Row, k \in 1..MaxSession, c \in BOOLEAN : CreatePending(s, k, c)
  BY <1>2 DEF CreatePending
<1>3. CASE Sweep
  BY <1>3 DEF Sweep, SweepTo
<1>4. ASSUME NEW q \in Req, ApproveCas(q) \/ DenyCas(q) \/ Claim(q)
      PROVE  /\ status[r] = "approved" => status'[r] \in {"approved", "executed"}
             /\ status[r] # "absent" /\ status'[r] \in {"pending", "approved"}
                  => status[r] \in {"pending", "approved"}
  BY <1>4 DEF ApproveCas, DenyCas, Claim, Cas, CasOk, Goto
<1>5. QED
  BY <1>1, <1>2, <1>3, <1>4
  DEF Next, Unlock, Lock, Restart, Age, Open, RequestStep, RouteStep, ApproveRead, DenyRead,
      HandlerStarts, HandlerEnds, StoreRead, StoreWrite, Finish, tableVars, vars

(* A request comes to resolve a row by winning its CAS on a pending one.    *)
LEMMA ResolvingStep ==
  ASSUME TypeOK, [Next]_vars, NEW q \in Req, pc'[q] \notin {"idle", "reading", "readingToDeny"}
  PROVE  /\ tgt'[q] = tgt[q] /\ pc[q] # "idle"
         /\ Resolving(q)' /\ ~Resolving(q) =>
              /\ status[tgt[q]] = "pending" /\ status'[tgt[q]] \in {"approved", "denied"}
              /\ \A p \in Req : p # q => pc'[p] = pc[p]
<1> USE DEF TypeOK, PC, Resolving
<1>1. CASE UNCHANGED reqVars
  BY <1>1 DEF reqVars
<1>2. CASE Restart
  BY <1>2 DEF Restart
<1>3. ASSUME NEW p \in Req, NEW r \in Row, NEW a \in {"reading", "readingToDeny"},
             Open(p, r, a)
      PROVE  tgt'[q] = tgt[q] /\ pc'[q] = pc[q]
  BY <1>3 DEF Open, Goto
<1>4. ASSUME NEW p \in Req, ApproveRead(p) \/ DenyRead(p) \/ Finish(p)
      PROVE  tgt'[q] = tgt[q] /\ pc[q] # "idle" /\ (Resolving(q)' => Resolving(q))
  BY <1>4 DEF ApproveRead, DenyRead, Finish, Goto
<1>5. ASSUME NEW p \in Req, ApproveCas(p) \/ DenyCas(p)
      PROVE  /\ tgt'[q] = tgt[q] /\ pc[q] # "idle"
             /\ Resolving(q)' /\ ~Resolving(q) =>
                  /\ status[tgt[q]] = "pending" /\ status'[tgt[q]] \in {"approved", "denied"}
                  /\ \A c \in Req : c # q => pc'[c] = pc[c]
  BY <1>5 DEF ApproveCas, DenyCas, Cas, CasOk, Goto, Status
<1>6. ASSUME NEW p \in Req, Claim(p)
      PROVE  tgt'[q] = tgt[q] /\ pc[q] # "idle" /\ (Resolving(q)' => Resolving(q))
  BY <1>6 DEF Claim, Cas, Goto
<1>7. ASSUME NEW p \in Req,
             HandlerStarts(p) \/ HandlerEnds(p) \/ StoreRead(p) \/ StoreWrite(p)
      PROVE  tgt'[q] = tgt[q] /\ pc[q] # "idle" /\ (Resolving(q)' => Resolving(q))
  BY <1>7 DEF HandlerStarts, HandlerEnds, StoreRead, StoreWrite, Goto
<1>8. QED
  BY <1>1, <1>2, <1>3, <1>4, <1>5, <1>6, <1>7
  DEF Next, Unlock, Lock, CreatePending, Age, Sweep, RequestStep, RouteStep, vars

LEMMA ResolverInductive ==
  /\ Init => ResolverInv
  /\ StoreInv /\ ResolverInv /\ [Next]_vars => ResolverInv'
<1>1. Init => ResolverInv
  BY DEF Init, ResolverInv, Resolving
<1>2. ASSUME StoreInv, ResolverInv, [Next]_vars PROVE ResolverInv'
  <2>1. TypeOK /\ SessionInv
    BY <1>2 DEF StoreInv
  <2>2. ASSUME NEW q \in Req, Resolving(q)'
        PROVE  /\ tgt'[q] = tgt[q]
               /\ ~Resolving(q) =>
                    /\ status[tgt[q]] = "pending" /\ status'[tgt[q]] \in {"approved", "denied"}
                    /\ \A p \in Req : p # q => pc'[p] = pc[p]
    BY <1>2, <2>1, <2>2, ResolvingStep DEF Resolving
  <2>3. ASSUME NEW q \in Req, Resolving(q)'
        PROVE  status'[tgt'[q]] \in {"approved", "executed", "denied"}
    <3>1. tgt[q] \in Row
      BY <2>1 DEF TypeOK
    <3>2. CASE Resolving(q)
      BY <1>2, <2>1, <2>2, <2>3, <3>1, <3>2, StatusStep, ResolutionStep DEF ResolverInv
    <3>3. CASE ~Resolving(q)
      BY <2>2, <2>3, <3>3
    <3>4. QED
      BY <3>2, <3>3
  <2>4. ASSUME NEW p \in Req, NEW q \in Req, Resolving(p)', Resolving(q)', tgt'[p] = tgt'[q],
               p # q
        PROVE  FALSE
    <3>1. tgt[p] = tgt[q]
      BY <2>2, <2>4
    <3>2. Resolving(p) \/ Resolving(q)
      BY <2>2, <2>4 DEF Resolving
    <3>3. CASE Resolving(p) /\ Resolving(q)
      BY <1>2, <2>4, <3>1, <3>3 DEF ResolverInv
    <3>4. CASE Resolving(p) /\ ~Resolving(q)
      BY <1>2, <2>2, <2>4, <3>1, <3>4 DEF ResolverInv
    <3>5. CASE ~Resolving(p) /\ Resolving(q)
      BY <1>2, <2>2, <2>4, <3>1, <3>5 DEF ResolverInv
    <3>6. QED
      BY <3>2, <3>3, <3>4, <3>5
  <2>5. QED
    BY <2>3, <2>4 DEF ResolverInv
<1>3. QED
  BY <1>1, <1>2

(* A resume at work on t, and a request about to launch one.                *)
Resuming(d, t) == drv[d].at = "resume" /\ drv[d].turn = t
Launching(q, t) == fin[q] # "check" /\ TurnOf(q) = t

(* What holds while a turn's parks hold one action each: whatever is still  *)
(* to be resolved, or about to resume the turn, has not been driven on.     *)
AtTail(t) ==
  /\ Clean(t)
  /\ \A q \in Req : Resolving(q) /\ TurnOf(q) = t => ~Before(tgt[q], t)
  /\ \A d \in Driver : Resuming(d, t) =>
       /\ \E r \in RowsIn(t) : ~Before(r, t)
       /\ \A q \in Req : Resolving(q) => TurnOf(q) # t
  /\ \A c, d \in Driver : Resuming(c, t) /\ Resuming(d, t) => c = d
  /\ (\E d \in Driver : Resuming(d, t)) \/ (\E q \in Req : Launching(q, t))
       => \A r \in RowsIn(t) : status[r] \notin {"pending", "approved"}

TailInv == ResolverInv /\ \A t \in Scheduled \ paged : OneByOne(t) => AtTail(t)

(* A step of a driver moves that driver, and never into a resume.           *)
LEMMA Moves ==
  ASSUME TurnInv, DenyInv, NEW d \in Driver, DriverStep(d)
  PROVE  drv'[d].at # "resume" /\ \A c \in Driver : c # d => drv'[c] = drv[c]
<1>1. drv \in [Driver -> DriverState]
  BY DEF TurnInv, TypesInv, PlainTypes
<1>2. ASSUME NEW outcome \in {"complete", "error", "parked"}, EndLoop(d, outcome)
      PROVE  drv'[d].at # "resume" /\ \A c \in Driver : c # d => drv'[c] = drv[c]
  <2>1. drv' = [drv EXCEPT ![d] = drv'[d]] /\ drv'[d].at \in {"idle", "exit"}
    BY <1>1, <1>2, EndLoopState
  <2>2. QED
    BY <1>1, <2>1
<1>3. ASSUME Exit(d)
      PROVE  drv'[d].at # "resume" /\ \A c \in Driver : c # d => drv'[c] = drv[c]
  <2>1. drv[d].exit \in Seq(ExitStep)
    BY <1>1 DEF DriverState
  <2>2. drv[d].at = "exit" /\ drv[d].exit # <<>>
    BY <1>3 DEF Exit, TurnInv, WorkerInv, Shapes, DriverOK, WorkerExit
  <2>3. Tail(drv[d].exit) \in Seq(ExitStep) /\ Leave(d, Tail(drv[d].exit))
    BY <1>3, <2>1, <2>2 DEF Exit
  <2>4. drv' = [drv EXCEPT ![d] = drv'[d]] /\ drv'[d].at \in {"idle", "exit"}
    BY <1>1, <2>3, LeaveState
  <2>5. QED
    BY <1>1, <2>4
<1>4. ASSUME ResumeReads(d), AllResolved(drv[d].turn, drv[d].sess)
      PROVE  drv'[d].at # "resume" /\ \A c \in Driver : c # d => drv'[c] = drv[c]
  <2>1. \E s \in 0..(MaxSteps - 1) : DrivesOn(d, drv[d].turn, s)
    BY <1>4, ReadsMoves
  <2>2. QED
    BY <2>1 DEF DrivesOn
<1>5. QED
  BY <1>2, <1>3, <1>4, CallsMoves, ParkMoves DEF DriverStep, Answers, ResumeReads

(* Where a resume comes from, of a turn that no page asks for. *)
LEMMA ResumeOrigin ==
  ASSUME TurnInv, DenyInv, [TNext]_allVars, NEW t, t \notin paged', NEW d \in Driver, Resuming(d, t)'
  PROVE  \/ Resuming(d, t) /\ drv'[d] = drv[d]
         \/ /\ \E q \in Req : FinishSpawn(q) /\ TurnOf(q) = t
            /\ \A c \in Driver : c # d => drv'[c] = drv[c]
<1>1. drv \in [Driver -> DriverState] /\ session \in Nat
  BY DEF TurnInv, TypesInv, PlainTypes, StoreInv, TypeOK
<1>2. CASE UNCHANGED drv
  BY <1>2 DEF Resuming
<1>3. CASE RestartAll
  BY <1>3 DEF RestartAll, Resuming, Idle
<1>4. ASSUME NEW c \in Driver, NEW u \in Turn, AgentResume(c, u) PROVE Resuming(d, t) /\ drv'[d] = drv[d]
  <2>1. /\ drv' = [drv EXCEPT ![c] = drv'[c]] /\ drv'[c].turn = u /\ u \in paged'
    BY <1>1, <1>4, BegunState DEF AgentResume, Begun
  <2>2. c # d
    BY <2>1 DEF Resuming
  <2>3. QED
    BY <1>1, <2>1, <2>2 DEF Resuming
<1>5. ASSUME NEW c \in Driver, NEW u \in Turn, NEW by \in Kind, StartTurn(c, u, by)
      PROVE  Resuming(d, t) /\ drv'[d] = drv[d]
  <2>1. drv' = [drv EXCEPT ![c] = drv'[c]] /\ drv'[c].at = "loop"
    BY <1>1, <1>5, BegunState DEF Begun
  <2>2. QED
    BY <1>1, <2>1 DEF Resuming
<1>6. ASSUME NEW c \in Driver, DriverStep(c) PROVE Resuming(d, t) /\ drv'[d] = drv[d]
  BY <1>1, <1>6, Moves DEF Resuming
<1>7. ASSUME NEW q \in Req, NEW c \in Driver, FinishSpawn(q), ResumeWith(c, TurnOf(q), TRUE)
      PROVE  \/ Resuming(d, t) /\ drv'[d] = drv[d]
             \/ TurnOf(q) = t /\ \A b \in Driver : b # d => drv'[b] = drv[b]
  <2>1. TurnOf(q) \in Turn
    <3>1. pc[q] = "finishing" /\ tgt[q] \in Row
      BY <1>7 DEF FinishSpawn, TurnInv, StoreInv, TypeOK
    <3>2. QED
      BY <3>1 DEF TurnInv, StoreInv, SessionInv, TypesInv, TurnOf
  <2>2. drv' = [drv EXCEPT ![c] = drv'[c]] /\ drv'[c].turn = TurnOf(q)
    BY <1>1, <1>7, <2>1, BegunState DEF Begun
  <2>3. QED
    BY <1>1, <2>2 DEF Resuming
<1>8. QED
  BY <1>2, <1>3, <1>4, <1>5, <1>6, <1>7
  DEF TNext, StoreStep, turnVars, allVars, FinishStep, FinishCheck, FinishLaunch, FinishSpawn,
      ClaimAges, TurnOf

(* Where a launch comes from. *)
LEMMA LaunchOrigin ==
  ASSUME TurnInv, TurnInv', [TNext]_allVars, NEW t, NEW q \in Req, Launching(q, t)',
         UNCHANGED park
  PROVE  /\ Resolving(q) /\ TurnOf(q) = t
         /\ \/ Launching(q, t)
            \/ session # 0 /\ AllResolved(t, session)
<1>1. pc'[q] = "finishing" /\ fin'[q] # "check"
  BY DEF Launching, TurnInv, WorkerInv, Hands
<1>2. [Next]_vars /\ TypeOK
  BY StepRefinesStore DEF TurnInv, StoreInv
<1>3. tgt'[q] = tgt[q]
  BY <1>1, <1>2, ResolvingStep
<1>4. TurnOf(q) = t
  BY <1>3 DEF Launching, TurnOf
<1>5. CASE fin[q] # "check"
  BY <1>4, <1>5 DEF Launching, Resolving, TurnInv, WorkerInv, Hands
<1>6. CASE fin[q] = "check"
  <2>1. fin \in [Req -> {"check", "launch", "spawn"}]
    BY DEF TurnInv, WorkerInv, Shapes
  <2>2. FinishStep(q)
    <3>1. ASSUME NEW p \in Req, p # q, FinishStep(p) PROVE fin'[q] = fin[q]
      BY <2>1, <3>1 DEF FinishStep, FinishCheck, FinishLaunch, FinishSpawn, LeaveRequest
    <3>2. fin'[q] # fin[q]
      BY <1>1, <1>6
    <3>3. \E p \in Req : FinishStep(p)
      <4>1. CASE StoreStep \/ UNCHANGED allVars
        BY <3>2, <4>1 DEF StoreStep, turnVars, allVars
      <4>2. CASE RestartAll
        BY <1>1, <4>2 DEF RestartAll
      <4>3. ASSUME NEW d \in Driver, NEW u \in Turn,
                   AgentResume(d, u) \/ \E by \in Kind : StartTurn(d, u, by)
            PROVE  FALSE
        BY <3>2, <4>3 DEF AgentResume, StartTurn
      <4>4. ASSUME NEW d \in Driver, DriverStep(d) PROVE FALSE
        BY <3>2, <4>4 DEF DriverStep, Answers, ResumeReads, Exit, ParkOne, Calls
      <4>5. ASSUME NEW r \in Row, ClaimAges(r) PROVE FALSE
        BY <3>2, <4>5 DEF ClaimAges
      <4>6. QED
        BY <4>1, <4>2, <4>3, <4>4, <4>5 DEF TNext
    <3>4. QED
      BY <3>1, <3>2, <3>3
  <2>3. FinishCheck(q)
    BY <1>6, <2>2 DEF FinishStep, FinishLaunch, FinishSpawn
  <2>4. session # 0 /\ AllResolved(t, session) /\ pc[q] = "finishing"
    BY <1>1, <1>4, <1>6, <2>1, <2>3 DEF FinishCheck, LeaveRequest, TurnOf
  <2>5. QED
    BY <1>4, <2>4 DEF Resolving
<1>7. QED
  BY <1>5, <1>6

(* Rows stay where they are: one by one after a step, one by one before it. *)
LEMMA RowsKept ==
  ASSUME TurnInv, [TNext]_allVars
  PROVE  /\ \A r \in Row : status[r] # "absent" => status'[r] # "absent" /\ park'[r] = park[r]
         /\ \A t : OneByOne(t)' => OneByOne(t)
<1>1. \A r \in Row : status[r] # "absent" => status'[r] # "absent" /\ park'[r] = park[r]
  <2>1. ASSUME NEW d \in Driver, NEW y \in Row, NEW a \in Action, ParkOne(d, y, a),
               NEW r \in Row, status[r] # "absent"
        PROVE  status'[r] # "absent" /\ park'[r] = park[r]
    BY <2>1, ParkMoves
  <2>2. QED
    BY <2>1, StepKinds DEF ResumeReads, vars, tableVars
<1>2. ASSUME NEW t, OneByOne(t)' PROVE OneByOne(t)
  BY <1>1, <1>2 DEF OneByOne
<1>3. QED
  BY <1>1, <1>2

(* What a page has asked for is not forgotten.                              *)
LEMMA PagedGrows ==
  ASSUME [TNext]_allVars
  PROVE  paged \subseteq paged'
<1>1. CASE StoreStep \/ RestartAll \/ (\E r \in Row : ClaimAges(r)) \/ UNCHANGED allVars
  BY <1>1 DEF StoreStep, RestartAll, ClaimAges, turnVars, allVars
<1>2. ASSUME NEW d \in Driver, NEW t \in Turn,
             AgentResume(d, t) \/ \E by \in Kind : StartTurn(d, t, by)
      PROVE  paged \subseteq paged'
  BY <1>2 DEF AgentResume, StartTurn
<1>3. ASSUME NEW d \in Driver, DriverStep(d) PROVE paged' = paged
  BY <1>3 DEF DriverStep, Answers, ResumeReads, Exit, ParkOne, Calls
<1>4. ASSUME NEW q \in Req, FinishStep(q) PROVE paged' = paged
  BY <1>4 DEF FinishStep, FinishCheck, FinishLaunch, FinishSpawn
<1>5. QED
  BY <1>1, <1>2, <1>3, <1>4 DEF TNext

(* Only StartTurn makes a turn, and who started it does not change.         *)
LEMMA StartsTurn ==
  ASSUME TurnInv, [TNext]_allVars, NEW t \in Turn, kind'[t] # kind[t]
  PROVE  \E d \in Driver, by \in Kind : StartTurn(d, t, by)
<1>1. ASSUME NEW d \in Driver, NEW u \in Turn, NEW by \in Kind, StartTurn(d, u, by)
      PROVE  u = t
  BY <1>1 DEF StartTurn, TurnInv, TypesInv, PlainTypes
<1>2. \E d \in Driver, u \in Turn, by \in Kind : StartTurn(d, u, by)
  <2>1. kind' # kind
    OBVIOUS
  <2>2. ~(StoreStep \/ RestartAll \/ UNCHANGED allVars \/ \E r \in Row : ClaimAges(r))
    BY <2>1 DEF StoreStep, RestartAll, ClaimAges, turnVars, allVars
  <2>3. ASSUME NEW c \in Driver, DriverStep(c) PROVE FALSE
    BY <2>1, <2>3 DEF DriverStep, Answers, ResumeReads, Exit, ParkOne, Calls
  <2>4. \A q \in Req : ~FinishStep(q)
    BY <2>1 DEF FinishStep, FinishCheck, FinishLaunch, FinishSpawn
  <2>5. \A c \in Driver, u \in Turn : ~AgentResume(c, u)
    BY <2>1 DEF AgentResume
  <2>6. QED
    BY <2>2, <2>3, <2>4, <2>5 DEF TNext
<1>3. QED
  BY <1>1, <1>2

(* A turn that has just been started has no rows and no driver but its own. *)
LEMMA TailStart ==
  ASSUME TurnInv, TurnInv', DenyInv, DenyInv', ResolverInv', [TNext]_allVars,
         NEW t \in Turn, kind[t] = "none", kind'[t] # kind[t]
  PROVE  AtTail(t)'
<1>1. PICK d \in Driver, by \in Kind : StartTurn(d, t, by)
  BY StartsTurn
<1>2. RowsIn(t) = {} /\ \A c \in Driver : ~Resuming(c, t)
  BY DEF DenyInv, PlaceInv, Resuming
<1>3. UNCHANGED <<status, park, drives, told>>
  BY <1>1 DEF StartTurn, vars, tableVars
<1>4. RowsIn(t)' = {}
  BY <1>2, <1>3 DEF RowsIn
<1>5. \A c \in Driver : ~Resuming(c, t)'
  <2>1. drv \in [Driver -> DriverState] /\ session \in Nat
    BY DEF TurnInv, TypesInv, PlainTypes, StoreInv, TypeOK
  <2>2. drv' = [drv EXCEPT ![d] = drv'[d]] /\ drv'[d].at = "loop"
    BY <1>1, <2>1, BegunState DEF Begun
  <2>3. QED
    BY <1>2, <2>1, <2>2 DEF Resuming
<1>6. \A q \in Req : Resolving(q)' => TurnOf(q)' # t
  <2>1. SUFFICES ASSUME NEW q \in Req, Resolving(q)', TurnOf(q)' = t PROVE FALSE
    OBVIOUS
  <2>2. tgt'[q] \in Row /\ status'[tgt'[q]] # "absent"
    BY <2>1 DEF ResolverInv, TurnInv, StoreInv, TypeOK
  <2>3. QED
    BY <1>4, <2>1, <2>2 DEF RowsIn, TurnOf
<1>7. Clean(t)'
  <2>1. \A s \in 0..(MaxSteps - 1) : ~(drives'[t][s] > 0)
    BY <1>4 DEF DenyInv, PlaceInv
  <2>2. drives'[t] \in [0..(MaxSteps - 1) -> Nat]
    BY DEF TurnInv, TypesInv, PlainTypes
  <2>3. \A s \in DOMAIN drives'[t] : drives'[t][s] <= 1
    <3>1. DOMAIN drives'[t] = 0..(MaxSteps - 1)
      BY <2>2
    <3>2. \A s \in 0..(MaxSteps - 1) : drives'[t][s] \in Nat
      BY <2>2
    <3>3. QED
      BY <2>1, <3>1, <3>2
  <2>4. DrivenWhole(t)'
    BY <1>4 DEF DrivenWhole, RowsIn
  <2>5. QED
    BY <2>3, <2>4 DEF Clean, DrivenOnce
<1>8. QED
  BY <1>4, <1>5, <1>6, <1>7 DEF AtTail

(* No row comes or goes, and nothing is driven on. *)
LEMMA TailStay ==
  ASSUME TurnInv, TurnInv', DenyInv, ResolverInv, ResolverInv', [TNext]_allVars,
         NEW t \in Turn, t \notin paged', OneByOne(t), AtTail(t),
         UNCHANGED <<park, told, drives>>,
         \A r \in Row : status'[r] = "absent" <=> status[r] = "absent"
  PROVE  AtTail(t)'
<1>1. /\ RowsIn(t)' = RowsIn(t) /\ Clean(t) /\ Clean(t)' /\ \A r : Before(r, t)' = Before(r, t)
  BY DEF RowsIn, Before, AtTail, Clean, DrivenOnce, DrivenWhole
<1>2. [Next]_vars /\ TypeOK
  BY StepRefinesStore DEF TurnInv, StoreInv
<1>3. \A q \in Req : Resolving(q) /\ TurnOf(q) = t => tgt[q] \in RowsIn(t) /\ ~Before(tgt[q], t)
  BY <1>2 DEF ResolverInv, RowsIn, TurnOf, TypeOK, AtTail
<1>4. ASSUME NEW q \in Req, Resolving(q)', TurnOf(q)' = t
      PROVE  /\ tgt'[q] = tgt[q] /\ TurnOf(q) = t
             /\ Resolving(q) \/ (tgt[q] \in RowsIn(t) /\ status[tgt[q]] = "pending")
  <2>1. /\ tgt'[q] = tgt[q]
        /\ ~Resolving(q) => status[tgt[q]] = "pending"
    BY <1>2, <1>4, ResolvingStep DEF Resolving
  <2>2. TurnOf(q) = t /\ tgt[q] \in Row
    BY <1>2, <1>4, <2>1 DEF TurnOf, TypeOK
  <2>3. QED
    BY <2>1, <2>2 DEF RowsIn, TurnOf
<1>5. \A r \in RowsIn(t) : status[r] = "pending" => ~Before(r, t)
  BY <1>1 DEF Clean, DrivenWhole, RowsIn, Before, TurnInv, ToldInv, Settled
<1>6. \A q \in Req : Resolving(q)' /\ TurnOf(q)' = t => ~Before(tgt[q], t) /\ tgt'[q] = tgt[q]
  BY <1>3, <1>4, <1>5
<1>7. ASSUME NEW d \in Driver, Resuming(d, t)', ~Resuming(d, t)
      PROVE  /\ \E r \in RowsIn(t) : ~Before(r, t)
             /\ \A p \in Req : Resolving(p)' => TurnOf(p)' # t
             /\ \A c \in Driver : ~Resuming(c, t) /\ (Resuming(c, t)' => c = d)
             /\ \E q \in Req : Launching(q, t)
  <2>1. /\ \E q \in Req : FinishSpawn(q) /\ TurnOf(q) = t
        /\ \A c \in Driver : c # d => drv'[c] = drv[c]
    BY <1>7, ResumeOrigin
  <2>2. PICK q \in Req : FinishSpawn(q) /\ TurnOf(q) = t
    BY <2>1
  <2>3. Resolving(q) /\ Launching(q, t)
    BY <2>2 DEF FinishSpawn, Resolving, Launching
  <2>4. \A c \in Driver : ~Resuming(c, t)
    BY <2>2, <2>3 DEF AtTail
  <2>5. \A c \in Driver : Resuming(c, t)' => c = d
    BY <2>1, <2>4 DEF Resuming
  <2>6. ASSUME NEW p \in Req, Resolving(p), TurnOf(p) = t PROVE p = q
    <3>1. /\ tgt[p] \in RowsIn(t) /\ tgt[q] \in RowsIn(t)
          /\ ~Before(tgt[p], t) /\ ~Before(tgt[q], t)
      BY <1>3, <2>2, <2>3, <2>6
    <3>2. ~(park[tgt[p]].step < park[tgt[q]].step) /\ ~(park[tgt[q]].step < park[tgt[p]].step)
      BY <1>1, <3>1 DEF DenyInv, CleanInv
    <3>3. park[tgt[p]].step \in Nat /\ park[tgt[q]].step \in Nat
      BY <3>1 DEF RowsIn, TurnInv, TypesInv, PlainTypes, Park
    <3>4. park[tgt[p]].step = park[tgt[q]].step
      BY <3>2, <3>3
    <3>5. tgt[p] = tgt[q]
      BY <3>1, <3>4 DEF OneByOne, RowsIn
    <3>6. QED
      BY <2>3, <2>6, <3>5 DEF ResolverInv
  <2>7. ASSUME NEW p \in Req, Resolving(p)', TurnOf(p)' = t PROVE FALSE
    <3>1. pc' = [pc EXCEPT ![q] = "idle"]
      BY <2>2 DEF FinishSpawn, LeaveRequest, Finish, Goto
    <3>2. p # q /\ Resolving(p)
      BY <1>2, <2>7, <3>1 DEF Resolving, TypeOK
    <3>3. QED
      BY <1>4, <2>6, <2>7, <3>2
  <2>8. QED
    BY <1>3, <2>2, <2>3, <2>4, <2>5, <2>7
<1>8. ASSUME NEW d \in Driver, Resuming(d, t)'
      PROVE  /\ \E r \in RowsIn(t) : ~Before(r, t)
             /\ \A q \in Req : Resolving(q)' => TurnOf(q)' # t
  <2>1. CASE Resuming(d, t)
    <3>1. /\ \E r \in RowsIn(t) : ~Before(r, t)
          /\ \A q \in Req : Resolving(q) => TurnOf(q) # t
          /\ \A r \in RowsIn(t) : status[r] \notin {"pending", "approved"}
      BY <2>1 DEF AtTail
    <3>2. QED
      BY <1>4, <3>1
  <2>2. QED
    BY <1>7, <1>8, <2>1
<1>9. \A c, d \in Driver : Resuming(c, t)' /\ Resuming(d, t)' => c = d
  BY <1>7 DEF AtTail
<1>10. ASSUME (\E d \in Driver : Resuming(d, t)') \/ (\E q \in Req : Launching(q, t)')
       PROVE  \A r \in RowsIn(t) : status'[r] \notin {"pending", "approved"}
  <2>1. \A r \in RowsIn(t) : status'[r] \in {"pending", "approved"} => status[r] \in {"pending", "approved"}
    BY <1>2, StatusStep DEF RowsIn
  <2>2. CASE (\E d \in Driver : Resuming(d, t)) \/ (\E q \in Req : Launching(q, t))
    BY <2>1, <2>2 DEF AtTail
  <2>3. CASE \E d \in Driver : Resuming(d, t)'
    BY <1>7, <2>2, <2>3
  <2>4. ASSUME NEW q \in Req, AllResolved(t, session)
        PROVE  \A r \in RowsIn(t) : status[r] \notin {"pending", "approved"}
    <3>1. RowsOf(t, session) = {r \in RowsIn(t) : owner[r] = session}
      BY DEF RowsOf, RowsIn, Visible
    <3>2. RowsOf(t, session) = RowsIn(t)
      BY <2>4, <3>1 DEF AllResolved, DenyInv, PlaceInv
    <3>3. QED
      BY <2>4, <3>2 DEF AllResolved, Unresolved
  <2>5. ASSUME NEW q \in Req, Launching(q, t)'
        PROVE  Launching(q, t) \/ AllResolved(t, session)
    BY <2>5, LaunchOrigin
  <2>6. QED
    BY <1>10, <2>1, <2>2, <2>3, <2>4, <2>5
<1>11. QED
  BY <1>1, <1>6, <1>8, <1>9, <1>10 DEF AtTail

(* A row joins the turn at a step of its own.  Then its driver is past all   *)
(* rows of the turn, and no request or resume of the turn can be at work.   *)
LEMMA TailPark ==
  ASSUME TurnInv, DenyInv, ResolverInv, [TNext]_allVars,
         NEW d \in Driver, NEW y \in Row, NEW a \in Action, ParkOne(d, y, a),
         NEW t \in Turn, OneByOne(t)', AtTail(t)
  PROVE  AtTail(t)'
<1>1. /\ drv[d].at = "parking" /\ status[y] = "absent" /\ status'[y] = "pending"
      /\ park'[y].turn = drv[d].turn /\ park'[y].step = drv[d].step
      /\ \A x \in Row : x # y => status'[x] = status[x] /\ park'[x] = park[x]
      /\ \A c \in Driver : c # d => drv'[c] = drv[c]
      /\ drv'[d].at \in {"parking", "idle", "exit"}
  BY ParkMoves
<1>2. UNCHANGED <<told, drives, pc, tgt, fin>>
  BY DEF ParkOne, CreatePending, reqVars
<1>3. \A r \in RowsIn(t) : /\ r # y /\ status'[r] = status[r] /\ park'[r] = park[r]
                          /\ Before(r, t)' = Before(r, t) /\ r \in RowsIn(t)'
  BY <1>1, <1>2 DEF RowsIn, Before
<1>4. \A q \in Req : Resolving(q)' = Resolving(q) /\ (Resolving(q) => tgt[q] # y /\ tgt[q] \in Row)
  BY <1>1, <1>2 DEF Resolving, ResolverInv, TurnInv, StoreInv, TypeOK
<1>5. \A q \in Req : Resolving(q) => TurnOf(q)' = TurnOf(q) /\ park'[tgt[q]] = park[tgt[q]]
  BY <1>1, <1>2, <1>4 DEF TurnOf
<1>6. \A c \in Driver : Resuming(c, t)' => Resuming(c, t)
  BY <1>1 DEF Resuming
<1>7. CASE drv[d].turn # t
  <2>1. RowsIn(t)' = RowsIn(t)
    BY <1>1, <1>3, <1>7 DEF RowsIn
  <2>2. Clean(t)'
    <3>1. DrivenWhole(t) <=> \A x \in RowsIn(t) : Before(x, t) => told[x] # "none"
      BY DEF DrivenWhole, RowsIn, Before
    <3>2. DrivenWhole(t)' <=> \A x \in RowsIn(t)' : Before(x, t)' => told'[x] # "none"
      BY DEF DrivenWhole, RowsIn, Before
    <3>3. QED
      BY <1>2, <1>3, <2>1, <3>1, <3>2 DEF AtTail, Clean, DrivenOnce
  <2>3. \A q \in Req : Resolving(q)' /\ TurnOf(q)' = t => ~Before(tgt[q], t)'
    BY <1>2, <1>4, <1>5 DEF AtTail, Before
  <2>4. \A q \in Req : Launching(q, t)' => Launching(q, t)
    BY <1>2, <1>5 DEF Launching, TurnInv, WorkerInv, Hands, Resolving
  <2>5. QED
    BY <1>2, <1>3, <1>4, <1>5, <1>6, <2>1, <2>2, <2>3, <2>4 DEF AtTail
<1>8. CASE drv[d].turn = t
  <2>1. \A r \in RowsIn(t) : park[r].step # drv[d].step
    BY <1>1, <1>3, <1>8 DEF OneByOne, RowsIn
  <2>2. /\ drv[d].step \in 0..(MaxSteps - 1) /\ drives[t] \in [0..(MaxSteps - 1) -> Nat]
        /\ \A r \in Row : park[r].step \in Nat
    <3>1. drv[d].step \in 0..MaxSteps /\ drv[d].step < MaxSteps
      BY <1>1 DEF TurnInv, TypesInv, PlainTypes, DriverState
    <3>2. QED
      BY <3>1, TurnAssumption DEF TurnInv, TypesInv, PlainTypes, Park
  <2>3. drives[t][drv[d].step] = 0
    <3>1. ~(drives[t][drv[d].step] > 0)
      BY <2>1, <2>2 DEF DenyInv, PlaceInv
    <3>2. drives[t][drv[d].step] \in Nat
      BY <2>2
    <3>3. QED
      BY <3>1, <3>2
  <2>4. Live(d, t)
    BY <1>1, <1>8, <2>3 DEF Live, Looping
  <2>5. Ahead(d, t)
    BY <2>4 DEF AtTail, DenyInv, CleanInv
  <2>6. \A r \in RowsIn(t) : Before(r, t)
    <3>1. \A r \in RowsIn(t) : park[r].step <= drv[d].step /\ park[r].step \in Nat
      BY <2>2, <2>5 DEF Ahead, RowsIn
    <3>2. \A r \in RowsIn(t) : park[r].step < drv[d].step
      BY <2>1, <2>2, <3>1
    <3>3. QED
      BY <2>5, <3>2 DEF Ahead
  <2>7. \A c \in Driver : ~Resuming(c, t)
    BY <2>6 DEF AtTail
  <2>8. \A q \in Req : Resolving(q) => TurnOf(q) # t
    <3>1. SUFFICES ASSUME NEW q \in Req, Resolving(q), TurnOf(q) = t PROVE FALSE
      OBVIOUS
    <3>2. tgt[q] \in RowsIn(t)
      BY <1>4, <3>1 DEF ResolverInv, RowsIn, TurnOf
    <3>3. QED
      BY <2>6, <3>1, <3>2 DEF AtTail
  <2>9. \A q \in Req : ~Launching(q, t)'
    BY <1>2, <1>5, <2>8 DEF Launching, TurnInv, WorkerInv, Hands, Resolving
  <2>10. Clean(t)'
    <3>1. ~Before(y, t)'
      BY <1>1, <1>2, <2>3 DEF Before
    <3>2. DrivenWhole(t)'
      <4>1. SUFFICES ASSUME NEW r \in Row, status'[r] # "absent", park'[r].turn = t,
                            drives'[t][park'[r].step] > 0
                     PROVE  told'[r] # "none"
        BY DEF DrivenWhole
      <4>2. r # y
        BY <3>1, <4>1 DEF Before
      <4>3. QED
        BY <1>1, <1>2, <4>1, <4>2 DEF AtTail, Clean, DrivenWhole
    <3>3. QED
      BY <1>2, <3>2 DEF AtTail, Clean, DrivenOnce
  <2>11. QED
    BY <1>4, <1>5, <1>6, <2>7, <2>8, <2>9, <2>10 DEF AtTail
<1>9. QED
  BY <1>7, <1>8

(* The one resume of the turn drives it on from the one park it was not     *)
(* driven on from, and no request of the turn is left.                      *)
LEMMA TailReads ==
  ASSUME TurnInv, DenyInv, ResolverInv, [TNext]_allVars, NEW d \in Driver, ResumeReads(d),
         AllResolved(drv[d].turn, drv[d].sess), NEW t \in Turn, AtTail(t)
  PROVE  AtTail(t)'
<1> DEFINE u == drv[d].turn
<1>1. PICK s \in 0..(MaxSteps - 1) : DrivesOn(d, u, s)
  BY ReadsMoves
<1>2. UNCHANGED <<status, park, pc, tgt, fin>>
  BY DEF ResumeReads, vars, tableVars, reqVars
<1>3. /\ drives \in [Turn -> [0..(MaxSteps - 1) -> Nat]] /\ u \in Turn
      /\ \A r \in Row : park[r].step \in 0..(MaxSteps - 1)
  BY <1>1 DEF TurnInv, TypesInv, PlainTypes, Park, DrivesOn
<1>4. drives[u] \in [0..(MaxSteps - 1) -> Nat]
  BY <1>3
<1>5. /\ drives'[u] = [drives[u] EXCEPT ![s] = drives[u][s] + 1]
      /\ \A x \in Turn : x # u => drives'[x] = drives[x]
  BY <1>1, <1>3 DEF DrivesOn
<1>6. /\ drv'[d].at = "loop" /\ drv[d].at = "resume"
      /\ \A c \in Driver : c # d => drv'[c] = drv[c]
  BY <1>1 DEF DrivesOn
<1>7. /\ RowsIn(t)' = RowsIn(t)
      /\ \A q \in Req : Resolving(q)' = Resolving(q) /\ TurnOf(q)' = TurnOf(q) /\ tgt'[q] = tgt[q]
      /\ \A q \in Req : Launching(q, t)' = Launching(q, t)
      /\ \A c \in Driver : Resuming(c, t)' => Resuming(c, t) /\ c # d
  BY <1>2, <1>6 DEF RowsIn, Resolving, TurnOf, Launching, Resuming
<1> HIDE DEF u
<1>8. CASE t # u
  <2>1. /\ drives'[t] = drives[t] /\ \A r : Before(r, t)' = Before(r, t)
        /\ \A r \in RowsIn(t) : told'[r] = told[r]
    BY <1>1, <1>2, <1>5, <1>8 DEF Before, DrivesOn, RowsIn
  <2>2. Clean(t)'
    BY <1>2, <2>1 DEF AtTail, Clean, DrivenOnce, DrivenWhole, RowsIn
  <2>3. QED
    BY <1>2, <1>7, <2>1, <2>2 DEF AtTail
<1>9. CASE t = u
  <2>1. Resuming(d, t)
    BY <1>6, <1>9 DEF Resuming, u
  <2>2. PICK r \in RowsIn(t) : ~Before(r, t)
    BY <2>1 DEF AtTail
  <2>3. \E z \in RowsIn(t) : park[z].step = s /\ park[r].step <= s
    BY <1>1, <1>9 DEF DrivesOn
  <2>4. park[r].step = s
    <3>1. ~(park[r].step < s)
      BY <2>2, <2>3 DEF AtTail, DenyInv, CleanInv
    <3>2. QED
      BY <1>3, <2>2, <2>3, <3>1 DEF RowsIn
  <2>5. /\ drives[t][s] = 0 /\ drives'[t][s] = 1
        /\ \A k \in 0..(MaxSteps - 1) : k # s => drives'[t][k] = drives[t][k]
        /\ DOMAIN drives[t] = 0..(MaxSteps - 1) /\ DOMAIN drives'[t] = 0..(MaxSteps - 1)
    <3>1. drives[t][s] \in Nat /\ ~(drives[t][s] > 0)
      BY <1>4, <1>9, <2>2, <2>4 DEF Before
    <3>2. drives'[t][s] = drives[t][s] + 1
      BY <1>4, <1>5, <1>9
    <3>3. \A k \in 0..(MaxSteps - 1) : k # s => drives'[t][k] = drives[t][k]
      BY <1>4, <1>5, <1>9
    <3>4. DOMAIN drives[t] = 0..(MaxSteps - 1) /\ DOMAIN drives'[t] = 0..(MaxSteps - 1)
      BY <1>4, <1>5, <1>9
    <3>5. drives[t][s] = 0
      BY <3>1
    <3>6. QED
      BY <3>2, <3>3, <3>4, <3>5
  <2>6. DrivenOnce(t)'
    BY <2>5 DEF AtTail, Clean, DrivenOnce
  <2>7. ASSUME NEW x \in RowsIn(t), Before(x, t)' PROVE told'[x] # "none"
    <3>1. CASE park[x].step = s
      BY <1>1, <1>9, <2>7, <3>1 DEF DrivesOn, Message, RowsIn, TurnInv, StoreInv, TypeOK, Outcome
    <3>2. CASE park[x].step # s
      <4>1. told'[x] = told[x] /\ x \in Row /\ park[x].step \in 0..(MaxSteps - 1)
        BY <1>1, <1>3, <1>9, <2>7, <3>2 DEF DrivesOn, RowsIn
      <4>2. Before(x, t)
        BY <1>2, <2>5, <2>7, <3>2, <4>1 DEF Before
      <4>3. QED
        BY <2>7, <4>1, <4>2 DEF AtTail, Clean, DrivenWhole, RowsIn, Before
    <3>3. QED
      BY <3>1, <3>2
  <2>8. Clean(t)'
    <3>1. DrivenWhole(t)'
      BY <1>2, <1>7, <2>7 DEF DrivenWhole, RowsIn, Before
    <3>2. QED
      BY <2>6, <3>1 DEF Clean
  <2>9. \A c \in Driver : ~Resuming(c, t)'
    BY <1>7, <2>1 DEF AtTail
  <2>10. \A q \in Req : Resolving(q) => TurnOf(q) # t
    BY <2>1 DEF AtTail
  <2>11. \A q \in Req : ~Launching(q, t)
    BY <2>10 DEF Launching, TurnInv, WorkerInv, Hands, Resolving
  <2>12. QED
    BY <1>7, <2>8, <2>9, <2>10, <2>11 DEF AtTail
<1>10. QED
  BY <1>8, <1>9

LEMMA TailInductive ==
  /\ TInit => TailInv
  /\ TurnInv /\ TurnInv' /\ DenyInv /\ DenyInv' /\ TailInv /\ [TNext]_allVars => TailInv'
<1>1. TInit => TailInv
  BY ResolverInductive DEF TInit, TailInv, Scheduled
<1>2. ASSUME TurnInv, TurnInv', DenyInv, DenyInv', TailInv, [TNext]_allVars PROVE TailInv'
  <2>1. ResolverInv /\ ResolverInv'
    BY <1>2, StepRefinesStore, ResolverInductive DEF TailInv, TurnInv, StoreInv
  <2>2. ASSUME NEW t \in Turn, kind'[t] = "scheduled", t \notin paged', OneByOne(t)'
        PROVE  AtTail(t)'
    <3>1. CASE kind'[t] # kind[t]
      <4>1. \E d \in Driver, by \in Kind : StartTurn(d, t, by)
        BY <1>2, <3>1, StartsTurn
      <4>2. kind[t] = "none"
        BY <4>1 DEF StartTurn
      <4>3. QED
        BY <1>2, <2>1, <3>1, <4>2, TailStart
    <3>2. CASE kind'[t] = kind[t]
      <4>1. kind[t] = "scheduled" /\ t \notin paged /\ OneByOne(t)
        BY <1>2, <2>2, <3>2, RowsKept, PagedGrows
      <4>2. AtTail(t)
        BY <1>2, <4>1 DEF TailInv, Scheduled
      <4>3. CASE /\ UNCHANGED <<park, told, drives>>
                 /\ \A r \in Row : status'[r] = "absent" <=> status[r] = "absent"
        BY <1>2, <2>1, <2>2, <4>1, <4>2, <4>3, TailStay
      <4>4. ASSUME NEW d \in Driver, NEW r \in Row, NEW a \in Action, ParkOne(d, r, a)
            PROVE  AtTail(t)'
        BY <1>2, <2>1, <2>2, <4>2, <4>4, TailPark
      <4>5. ASSUME NEW d \in Driver, ResumeReads(d), AllResolved(drv[d].turn, drv[d].sess)
            PROVE  AtTail(t)'
        BY <1>2, <2>1, <4>2, <4>5, TailReads
      <4>6. QED
        BY <1>2, <4>3, <4>4, <4>5, StepKinds
    <3>3. QED
      BY <3>1, <3>2
  <2>3. QED
    BY <2>1, <2>2 DEF TailInv, Scheduled
<1>3. QED
  BY <1>1, <1>2

(* _RESUMING_TURNS and the re-read of the rows in resume_turn keep "both    *)
(* would try to drive the same tail" from happening to a scheduled turn     *)
(* that no page asks to resume and whose parks hold one action each:       *)
(* however many requests, workers, locks and restarts there are, it is     *)
(* driven on at most once from each park.                                  *)
THEOREM TailOnce == TSpec => []TailDrivenOnce
<1>1. TailInv => TailDrivenOnce
  BY DEF TailInv, AtTail, Clean, TailDrivenOnce
<1>2. QED
  BY <1>1, TailInductive, TurnInvariant, DenyInvariant, PTL DEF TSpec
-----------------------------------------------------------------------------
(* _RESUMING_TURNS: a turn in the set is in somebody's hands.               *)

HeldTurn(t) ==
  \/ \E q \in Req : Spawning(q) /\ TurnOf(q) = t
  \/ \E d \in Driver : Working(d) /\ drv[d].turn = t

(* While the application is locked no row is visible; rows of a past        *)
(* session never are again.                                                *)
HeldInv ==
  /\ \A r \in Row : status[r] # "absent" => owner[r] # 0
  /\ \A t \in resuming : RowsOf(t, session) # {} => HeldTurn(t)

(* What keeps a turn held.                                                  *)
Keeps(t) == HeldTurn(t) => HeldTurn(t)'

(* A step that makes no row visible and drops no turn from its hands.       *)
LEMMA HeldQuiet ==
  ASSUME HeldInv, owner' = owner, park' = park,
         \A r \in Row : status'[r] = "absent" <=> status[r] = "absent",
         session' = session, resuming' \subseteq resuming, \A t \in resuming' : Keeps(t)
  PROVE  HeldInv'
<1>1. \A t : RowsOf(t, session)' = RowsOf(t, session)
  BY DEF RowsOf, Visible
<1>2. QED
  BY <1>1 DEF HeldInv, Keeps

(* A driver that starts was idle, so in nobody's way.                       *)
LEMMA StartKeeps ==
  ASSUME WorkerInv, NEW d \in Driver, drv[d].at = "idle",
         drv' = [drv EXCEPT ![d] = drv'[d]], UNCHANGED <<tgt, fin, park>>, NEW t
  PROVE  Keeps(t)
<1>1. ~Working(d)
  BY DEF WorkerInv, Shapes, DriverOK, Working
<1>2. \A c \in Driver : c # d => drv'[c] = drv[c]
  BY DEF WorkerInv, Shapes
<1>3. QED
  BY <1>1, <1>2 DEF Keeps, HeldTurn, Spawning, Working, TurnOf

LEMMA WorksKeep ==
  ASSUME WorkerInv, NEW d \in Driver, DriverWorks(d), NEW t, t \in resuming'
  PROVE  t \in resuming /\ Keeps(t)
<1>1. \A c \in Driver : c # d => drv'[c] = drv[c]
  BY DEF WorkerInv, Shapes, DriverWorks
<1>2. t \in resuming /\ (Working(d) /\ drv[d].turn = t => Working(d)' /\ drv'[d].turn = t)
  BY DEF DriverWorks
<1>3. ASSUME NEW q \in Req, Spawning(q), TurnOf(q) = t PROVE HeldTurn(t)'
  BY <1>3 DEF DriverWorks, HeldTurn, Spawning
<1>4. ASSUME NEW c \in Driver, Working(c), drv[c].turn = t PROVE HeldTurn(t)'
  BY <1>1, <1>2, <1>4 DEF HeldTurn, Working
<1>5. QED
  BY <1>2, <1>3, <1>4 DEF Keeps, HeldTurn

(* Sessions, the store and the routes.  A new session sees no old row.      *)
LEMMA StoreHeld ==
  ASSUME StoreInv, WorkerInv, HeldInv, StoreStep
  PROVE  HeldInv'
<1>1. owner' = owner /\ \A r \in Row : status'[r] = "absent" <=> status[r] = "absent"
  BY RowsStay DEF StoreInv
<1>2. UNCHANGED <<park, resuming, fin, drv>>
  BY DEF StoreStep, turnVars
<1>3. CASE Unlock \/ Lock
  <2>1. \A r \in Row : status[r] # "absent" => owner[r] # session'
    BY <1>3 DEF Unlock, Lock, HeldInv, StoreInv, SessionInv, TypeOK
  <2>2. \A t : RowsOf(t, session)' = {}
    BY <1>1, <2>1 DEF RowsOf, Visible
  <2>3. QED
    BY <1>1, <2>2 DEF HeldInv
<1>4. CASE ~(Unlock \/ Lock)
  <2>1. session' = session
    BY <1>4
    DEF StoreStep, Sweep, Age, Open, RouteStep, ApproveRead, DenyRead, ApproveCas, DenyCas,
        Claim, Cas, HandlerStarts, HandlerEnds, StoreRead, StoreWrite, appVars
  <2>2. \A q \in Req : fin[q] # "check" => pc'[q] = pc[q] /\ tgt'[q] = tgt[q]
    BY FinishingStays DEF WorkerInv, Hands
  <2>3. \A t : Keeps(t)
    BY <1>2, <2>2 DEF Keeps, HeldTurn, Spawning, Working, TurnOf
  <2>4. QED
    BY <1>1, <1>2, <2>1, <2>3, HeldQuiet
<1>5. QED
  BY <1>3, <1>4

(* A request on its way out takes a turn, or hands it to a worker, unless   *)
(* the application is locked.                                              *)
LEMMA FinishHeld ==
  ASSUME StoreInv, WorkerInv, HeldInv, NEW q \in Req, FinishStep(q)
  PROVE  HeldInv'
<1>1. /\ owner' = owner /\ park' = park /\ session' = session
      /\ \A r \in Row : status'[r] = "absent" <=> status[r] = "absent"
  <2>1. park' = park /\ (UNCHANGED vars \/ Finish(q))
    BY DEF FinishStep, FinishCheck, FinishLaunch, FinishSpawn, LeaveRequest
  <2>2. QED
    BY <2>1, RowsStay DEF StoreInv, vars, Finish, appVars
<1>2. LeaveRequest(q) => \A p \in Req : p # q =>
        fin'[p] = fin[p] /\ (fin[p] # "check" => tgt'[p] = tgt[p])
  <2>1. ASSUME LeaveRequest(q), NEW p \in Req, p # q, fin[p] # "check" PROVE tgt'[p] = tgt[p]
    BY <2>1, FinishingStays DEF LeaveRequest, WorkerInv, Hands
  <2>2. QED
    BY <2>1 DEF LeaveRequest, WorkerInv, Shapes
<1>3. CASE FinishCheck(q)
  <2>1. UNCHANGED <<drv, resuming>> /\ ~Spawning(q)
    BY <1>3 DEF FinishCheck, Spawning
  <2>2. \A p \in Req : Spawning(p) => Spawning(p)' /\ tgt'[p] = tgt[p]
    BY <1>2, <1>3, <2>1 DEF FinishCheck, Spawning, WorkerInv, Shapes, vars, reqVars
  <2>3. \A t : Keeps(t)
    BY <1>1, <2>1, <2>2 DEF Keeps, HeldTurn, Spawning, Working, TurnOf
  <2>4. QED
    BY <1>1, <2>1, <2>3, HeldQuiet
<1>4. CASE FinishLaunch(q)
  <2>1. drv' = drv /\ ~Spawning(q)
    BY <1>4 DEF FinishLaunch, Spawning
  <2>2. CASE LeaveRequest(q) /\ UNCHANGED resuming
    <3>1. \A p \in Req : Spawning(p) => Spawning(p)' /\ tgt'[p] = tgt[p]
      BY <1>2, <2>1, <2>2 DEF Spawning
    <3>2. \A t : Keeps(t)
      BY <1>1, <2>1, <3>1 DEF Keeps, HeldTurn, Spawning, Working, TurnOf
    <3>3. QED
      BY <1>1, <2>2, <3>2, HeldQuiet
  <2>3. CASE /\ resuming' = resuming \cup {TurnOf(q)}
             /\ fin' = [fin EXCEPT ![q] = "spawn"] /\ UNCHANGED vars
    <3>1. /\ tgt' = tgt /\ Spawning(q)'
          /\ \A p \in Req : Spawning(p) => Spawning(p)'
      BY <2>3 DEF vars, reqVars, Spawning, WorkerInv, Shapes
    <3>2. \A t : Keeps(t)
      BY <1>1, <2>1, <3>1 DEF Keeps, HeldTurn, Spawning, Working, TurnOf
    <3>3. \A t : t = TurnOf(q) => HeldTurn(t)'
      BY <1>1, <3>1 DEF HeldTurn, TurnOf
    <3>4. \A t : RowsOf(t, session)' = RowsOf(t, session)
      BY <1>1 DEF RowsOf, Visible
    <3>5. ASSUME NEW t \in resuming', RowsOf(t, session)' # {} PROVE HeldTurn(t)'
      <4>1. CASE t = TurnOf(q)
        BY <3>3, <4>1
      <4>2. CASE t # TurnOf(q)
        BY <2>3, <3>2, <3>4, <3>5, <4>2 DEF HeldInv, Keeps
      <4>3. QED
        BY <4>1, <4>2
    <3>6. QED
      BY <1>1, <3>5 DEF HeldInv
  <2>4. QED
    BY <1>4, <2>2, <2>3 DEF FinishLaunch, TurnOf
<1>5. CASE FinishSpawn(q)
  <2>1. resuming' = resuming /\ LeaveRequest(q)
    BY <1>5 DEF FinishSpawn
  <2>2. CASE session = 0
    <3>1. \A t : RowsOf(t, session)' = {}
      BY <1>1, <2>2 DEF RowsOf, Visible, HeldInv
    <3>2. QED
      BY <1>1, <3>1 DEF HeldInv
  <2>3. ASSUME NEW d \in Driver, ResumeWith(d, TurnOf(q), TRUE) PROVE HeldInv'
    <3>1. /\ drv[d].at = "idle" /\ drv' = [drv EXCEPT ![d] = drv'[d]] /\ DriverOK(drv'[d])
          /\ drv'[d].worker /\ drv'[d].turn = TurnOf(q)
      BY <2>3, ResumeFacts DEF WorkerInv, ResumeWith
    <3>2. drv'[d].exit = <<>> /\ drv'[d].exit # <<"record">>
      <4>1. Begun(drv'[d], "resume", TurnOf(q), TRUE, session)
        BY <2>3, ResumeSet DEF ResumeWith, WorkerInv, Shapes
      <4>2. QED
        BY <4>1, Paths DEF Begun
    <3>3. Working(d)' /\ ~Working(d) /\ \A c \in Driver : c # d => drv'[c] = drv[c]
      BY <3>1, <3>2 DEF Working, WorkerInv, Shapes, DriverOK
    <3>4. \A t : Keeps(t)
      BY <1>1, <1>2, <2>1, <3>1, <3>3 DEF Keeps, HeldTurn, Spawning, Working, TurnOf
    <3>5. QED
      BY <1>1, <2>1, <3>4, HeldQuiet
  <2>4. QED
    BY <1>5, <2>2, <2>3 DEF FinishSpawn, TurnOf
<1>6. QED
  BY <1>3, <1>4, <1>5 DEF FinishStep

(* A park adds a row that the session of its turn's other rows sees.        *)
LEMMA ParkHeld ==
  ASSUME TurnInv, DenyInv, HeldInv, NEW d \in Driver, NEW r \in Row, NEW a \in Action,
         ParkOne(d, r, a), \A t \in resuming : RowsIn(t) # {}
  PROVE  HeldInv'
<1>1. /\ drv[d].at = "parking" /\ status[r] = "absent"
      /\ owner'[r] = drv[d].sess /\ park'[r].turn = drv[d].turn
      /\ \A x \in Row : x # r =>
           status'[x] = status[x] /\ park'[x] = park[x] /\ owner'[x] = owner[x]
  BY ParkMoves
<1>2. session' = session /\ resuming' = resuming
  BY DEF ParkOne, CreatePending, appVars
<1>3. drv[d].sess # 0
  BY DEF ParkOne, CreatePending, LiveSession, TurnInv, StoreInv, Bounded
<1>4. \A t \in resuming : Keeps(t)
  <2>1. DriverStep(d)
    BY DEF DriverStep
  <2>2. QED
    BY <1>2, <2>1, DriverHands, WorksKeep DEF TurnInv
<1>5. ASSUME NEW t \in resuming, RowsOf(t, session)' # {} PROVE RowsOf(t, session) # {}
  <2>1. PICK x \in Row : status'[x] # "absent" /\ owner'[x] = session /\ park'[x].turn = t
    BY <1>2, <1>5 DEF RowsOf, Visible
  <2>2. CASE x # r
    BY <1>1, <2>1, <2>2 DEF RowsOf, Visible
  <2>3. CASE x = r
    <3>1. PICK y \in RowsIn(t) : TRUE
      OBVIOUS
    <3>2. t \in Turn /\ Looping(d, t)
      BY <1>1, <2>1, <2>3 DEF Looping, TurnInv, TypesInv, PlainTypes
    <3>3. owner[y] = session
      BY <1>1, <2>1, <2>3, <3>1, <3>2 DEF DenyInv, PlaceInv
    <3>4. QED
      BY <3>1, <3>3 DEF RowsIn, RowsOf, Visible
  <2>4. QED
    BY <2>2, <2>3
<1>6. QED
  BY <1>1, <1>2, <1>3, <1>4, <1>5 DEF HeldInv, Keeps

(* A turn gets into the set with a row of its own, and rows stay.           *)
RowsInSet == \A t \in resuming : RowsIn(t) # {}

LEMMA TakenByLaunch ==
  ASSUME [TNext]_allVars, NEW t \in resuming', t \notin resuming
  PROVE  \E q \in Req : FinishLaunch(q) /\ t = TurnOf(q)
<1>1. ASSUME NEW d \in Driver, DriverStep(d) PROVE resuming' \subseteq resuming
  BY <1>1 DEF DriverStep, Answers, ResumeReads, Exit, ParkOne, Calls
<1>2. ASSUME NEW q \in Req, FinishStep(q) PROVE FinishLaunch(q) /\ t = TurnOf(q)
  BY <1>2 DEF FinishStep, FinishCheck, FinishLaunch, FinishSpawn, TurnOf
<1>3. QED
  BY <1>1, <1>2
  DEF TNext, StoreStep, RestartAll, AgentResume, StartTurn, ClaimAges, turnVars, allVars

LEMMA RowsInSetKept ==
  ASSUME TurnInv, DenyInv, RowsInSet, [TNext]_allVars
  PROVE  RowsInSet'
<1>1. ASSUME NEW t \in resuming', t \in resuming PROVE RowsIn(t)' # {}
  <2>1. PICK x \in Row : status[x] # "absent" /\ park[x].turn = t
    BY <1>1 DEF RowsInSet, RowsIn
  <2>2. status'[x] # "absent" /\ park'[x].turn = t
    BY <2>1, RowsKept
  <2>3. QED
    BY <2>2 DEF RowsIn
<1>2. ASSUME NEW t \in resuming', t \notin resuming PROVE RowsIn(t)' # {}
  <2>1. PICK q \in Req : FinishLaunch(q) /\ t = TurnOf(q)
    BY <1>2, TakenByLaunch
  <2>2. tgt[q] \in Row /\ status[tgt[q]] # "absent"
    BY <2>1 DEF FinishLaunch, TurnInv, StoreInv, SessionInv, TypeOK
  <2>3. status'[tgt[q]] # "absent" /\ park'[tgt[q]] = park[tgt[q]]
    BY <2>2, RowsKept
  <2>4. QED
    BY <2>1, <2>2, <2>3 DEF RowsIn, TurnOf
<1>3. QED
  BY <1>1, <1>2 DEF RowsInSet

LEMMA HeldInductive ==
  ASSUME TurnInv, DenyInv, HeldInv, RowsInSet, [TNext]_allVars
  PROVE  HeldInv'
<1>1. CASE UNCHANGED allVars
  BY <1>1 DEF allVars, vars, tableVars, appVars, reqVars, turnVars, HeldInv, HeldTurn, RowsOf,
              Visible, Spawning, Working, TurnOf
<1>2. CASE StoreStep
  BY <1>2, StoreHeld DEF TurnInv
<1>3. CASE RestartAll
  <2>1. owner' = owner /\ \A r \in Row : status'[r] = "absent" <=> status[r] = "absent"
    BY <1>3, RowsStay DEF TurnInv, StoreInv
  <2>2. QED
    BY <1>3, <2>1 DEF RestartAll, HeldInv
<1>4. ASSUME NEW d \in Driver, NEW t \in Turn,
             AgentResume(d, t) \/ \E by \in Kind : StartTurn(d, t, by)
      PROVE  HeldInv'
  <2>1. drv[d].at = "idle" /\ UNCHANGED <<vars, park, fin, resuming>>
    BY <1>4 DEF AgentResume, ResumeWith, StartTurn
  <2>2. drv' = [drv EXCEPT ![d] = drv'[d]]
    BY <1>4, ResumeFacts, StartFacts DEF AgentResume, TurnInv, WorkerInv
  <2>3. \A u : Keeps(u)
    BY <2>1, <2>2, StartKeeps DEF TurnInv, vars, reqVars
  <2>4. QED
    BY <2>1, <2>3, HeldQuiet DEF vars, tableVars, appVars
<1>5. ASSUME NEW d \in Driver, NEW r \in Row, NEW a \in Action, ParkOne(d, r, a)
      PROVE  HeldInv'
  BY <1>5, ParkHeld DEF RowsInSet
<1>6. ASSUME NEW d \in Driver, DriverStep(d),
             ~(\E r \in Row, a \in Action : ParkOne(d, r, a))
      PROVE  HeldInv'
  <2>1. UNCHANGED <<vars, park>>
    BY <1>6 DEF DriverStep, Answers, ResumeReads, Exit, Calls
  <2>2. DriverWorks(d)
    BY <1>6, DriverHands DEF TurnInv
  <2>3. \A t \in resuming' : t \in resuming /\ Keeps(t)
    BY <2>2, WorksKeep DEF TurnInv
  <2>4. QED
    BY <2>1, <2>3, HeldQuiet DEF vars, tableVars, appVars
<1>7. ASSUME NEW q \in Req, FinishStep(q) PROVE HeldInv'
  BY <1>7, FinishHeld DEF TurnInv
<1>8. ASSUME NEW r \in Row, ClaimAges(r) PROVE HeldInv'
  BY <1>8 DEF ClaimAges, vars, tableVars, appVars, reqVars, HeldInv, HeldTurn, RowsOf,
              Visible, Spawning, Working, TurnOf
<1>9. QED
  BY <1>1, <1>2, <1>3, <1>4, <1>5, <1>6, <1>7, <1>8 DEF TNext

(* The worker thread discards its turn from _RESUMING_TURNS however its     *)
(* loop ends, and a request that took the turn starts a worker unless the   *)
(* application was locked; then the rows of the turn are out of sight, in   *)
(* every later session.  So no entry of the set refuses a turn whose rows   *)
(* the user can still see for longer than its worker needs.                 *)
THEOREM ResumingHeld == TSpec => []ResumingIsHeld
<1>1. ASSUME TInit PROVE HeldInv /\ RowsInSet
  BY <1>1 DEF TInit, Init, HeldInv, RowsInSet
<1>2. TurnInv /\ DenyInv /\ HeldInv /\ RowsInSet /\ [TNext]_allVars => HeldInv' /\ RowsInSet'
  BY HeldInductive, RowsInSetKept
<1>3. HeldInv => ResumingIsHeld
  BY DEF HeldInv, HeldTurn, Spawning, TurnOf, Working, Spawns, Works, ResumingIsHeld
<1>4. QED
  BY <1>1, <1>2, <1>3, TurnInvariant, DenyInvariant, PTL DEF TSpec
=============================================================================
