-------------------------- MODULE Approvals_proofs --------------------------
(***************************************************************************)
(* Safety of the approval store for every number of rows, requests and     *)
(* sessions.  The heart of the argument is exclusivity: because approve is *)
(* a compare-and-set under _CAS_LOCK, at most one request is ever past it  *)
(* for a given row, so the claim, the handler and the unlocked two-step    *)
(* store_result of that row are never raced by another request.            *)
(***************************************************************************)
EXTENDS Approvals, TLAPS

(* The requests that won the approval of their row and have not answered. *)
PastApprove(q) == pc[q] \in {"claiming", "claimed", "handling", "storing", "writing"}

Exclusive ==
  \A p, q \in Req : PastApprove(p) /\ PastApprove(q) /\ tgt[p] = tgt[q] => p = q

(* Nothing has happened to a row's action yet. *)
Untouched(r) == runs[r] = 0 /\ ended[r] = "none" /\ result[r] = "none"

(* The handler ended, its outcome is known and not yet stored. *)
Ended(r, o) ==
  /\ status[r] = "executed" /\ runs[r] = 1
  /\ ended[r] = o /\ o # "none" /\ result[r] = "none"

(* What a request past the approval knows about its row. *)
Progress(q) ==
  LET r == tgt[q] IN
  /\ pc[q] = "claiming" => status[r] = "approved"
  /\ pc[q] = "claimed" => status[r] = "executed" /\ Untouched(r)
  /\ pc[q] = "handling" => /\ status[r] = "executed" /\ runs[r] = 1
                           /\ ended[r] = "none" /\ result[r] = "none"
  /\ pc[q] = "storing" => status[r] = "approved" \/ Ended(r, out[q])
  /\ pc[q] = "writing" => Ended(r, out[q])

RowInv(r) ==
  /\ runs[r] \in {0, 1}
  /\ status[r] # "executed" => Untouched(r)
  /\ ended[r] # "none" => runs[r] = 1
  /\ result[r] # "none" => result[r] = ended[r]

ActionInv == Exclusive /\ (\A q \in Req : Progress(q)) /\ (\A r \in Row : RowInv(r))

(* Where the sessions of rows, stores and the application stand. *)
SessionInv ==
  /\ boot <= unlocks
  /\ session # 0 => session \in (boot + 1)..unlocks
  /\ \A r \in Row : owner[r] <= unlocks
  /\ \A r \in Row : status[r] = "absent" => owner[r] = 0
  /\ \A q \in Req : pc[q] # "idle" => store[q] \in (boot + 1)..unlocks
  /\ \A q \in Req : pc[q] \notin {"idle", "reading", "readingToDeny"}
                      => status[tgt[q]] # "absent" /\ owner[tgt[q]] = store[q]

IInv == TypeOK /\ ActionInv /\ SessionInv

-----------------------------------------------------------------------------
(* Types. *)

(* Every reachable state has the types the table and the routes assume. *)
THEOREM Typing == Spec => []TypeOK
<1>1. Init => TypeOK
  BY DEF Init, TypeOK, Status, Outcome, AgeClass, PC
<1>2. TypeOK /\ [Next]_vars => TypeOK'
  <2> SUFFICES ASSUME TypeOK, [Next]_vars PROVE TypeOK'
    OBVIOUS
  <2> USE DEF TypeOK, Status, Outcome, AgeClass, PC
  <2>1. ASSUME Unlock \/ Lock \/ Restart PROVE TypeOK'
    BY <2>1 DEF Unlock, Lock, Restart, tableVars, appVars, reqVars, histVars
  <2>2. ASSUME NEW r \in Row, NEW k \in 1..MaxSession, NEW c \in BOOLEAN,
               CreatePending(r, k, c)
        PROVE TypeOK'
    BY <2>2, MaxSessionAssumption DEF CreatePending, appVars, reqVars, histVars
  <2>3. ASSUME NEW r \in Row, Age(r) PROVE TypeOK'
    BY <2>3 DEF Age, appVars, reqVars, histVars
  <2>4. CASE Sweep
    BY <2>4 DEF Sweep, SweepTo, appVars, reqVars, histVars
  <2>5. ASSUME NEW q \in Req, NEW r \in Row, NEW p \in {"reading", "readingToDeny"},
               Open(q, r, p)
        PROVE TypeOK'
    BY <2>5 DEF Open, Goto, tableVars, appVars, histVars
  <2>6. ASSUME NEW q \in Req, RequestStep(q) PROVE TypeOK'
    <3>1. CASE ApproveRead(q) \/ DenyRead(q) \/ StoreRead(q) \/ Finish(q)
      BY <3>1 DEF ApproveRead, DenyRead, StoreRead, Finish, Goto,
                  tableVars, appVars, histVars
    <3>2. CASE ApproveCas(q) \/ DenyCas(q) \/ Claim(q)
      BY <3>2 DEF ApproveCas, DenyCas, Claim, Cas, Goto, appVars, histVars
    <3>3. CASE HandlerStarts(q) \/ HandlerEnds(q) \/ StoreWrite(q)
      BY <3>3 DEF HandlerStarts, HandlerEnds, StoreWrite, Goto,
                  tableVars, appVars, histVars
    <3>4. QED
      BY <2>6, <3>1, <3>2, <3>3 DEF RequestStep, RouteStep
  <2>7. CASE UNCHANGED vars
    BY <2>7 DEF vars, tableVars, appVars, reqVars, histVars
  <2>8. QED
    BY <2>1, <2>2, <2>3, <2>4, <2>5, <2>6, <2>7 DEF Next
<1>3. QED
  BY <1>1, <1>2, PTL DEF Spec

-----------------------------------------------------------------------------
(* The action invariant is inductive.  One lemma per group of actions.     *)

(* It holds before the first request.                                      *)
LEMMA InitActionInv == Init => ActionInv
BY DEF Init, ActionInv, Exclusive, PastApprove, Progress, RowInv, Untouched

(* Sessions, the clock, the sweep and the creation of a row touch no row a *)
(* request is past approving.                                              *)
LEMMA TableActionInv ==
  ASSUME TypeOK, ActionInv,
         \/ Unlock \/ Lock \/ Restart \/ Sweep
         \/ \E r \in Row : Age(r)
         \/ \E r \in Row, k \in 1..MaxSession, c \in BOOLEAN : CreatePending(r, k, c)
  PROVE  ActionInv'
<1> USE DEF ActionInv, Exclusive, PastApprove, Progress, RowInv, Untouched, Ended
<1>1. CASE Unlock \/ Lock
  BY <1>1 DEF Unlock, Lock, tableVars, reqVars, histVars
<1>2. CASE Restart
  BY <1>2 DEF Restart, tableVars, histVars
<1>3. CASE Sweep
  BY <1>3 DEF Sweep, SweepTo, TypeOK, reqVars, histVars
<1>4. CASE \E r \in Row : Age(r)
  BY <1>4 DEF Age, reqVars, histVars
<1>5. ASSUME NEW r \in Row, NEW k \in 1..MaxSession, NEW c \in BOOLEAN,
             CreatePending(r, k, c)
      PROVE  ActionInv'
  BY <1>5 DEF CreatePending, TypeOK, reqVars, histVars
<1>6. QED
  BY <1>1, <1>2, <1>3, <1>4, <1>5

(* Reading, opening and finishing only move the request's own pc, and not  *)
(* past the approval.                                                      *)
LEMMA ReadActionInv ==
  ASSUME TypeOK, ActionInv, NEW q \in Req,
         \/ \E r \in Row, p \in {"reading", "readingToDeny"} : Open(q, r, p)
         \/ ApproveRead(q) \/ DenyRead(q) \/ Finish(q)
  PROVE  ActionInv'
<1> USE DEF ActionInv, Exclusive, PastApprove, Progress, RowInv, Untouched, Ended, TypeOK
<1>1. ASSUME NEW r \in Row, NEW p \in {"reading", "readingToDeny"}, Open(q, r, p)
      PROVE  ActionInv'
  BY <1>1 DEF Open, Goto, tableVars, histVars
<1>2. CASE ApproveRead(q)
  BY <1>2 DEF ApproveRead, Goto, tableVars, histVars
<1>3. CASE DenyRead(q)
  BY <1>3 DEF DenyRead, Goto, tableVars, histVars
<1>4. CASE Finish(q)
  BY <1>4 DEF Finish, Goto, tableVars, histVars
<1>5. QED
  BY <1>1, <1>2, <1>3, <1>4

(* The three compare-and-sets.  A won approval is exclusive because a row   *)
(* some request is past approving is no longer pending.                    *)
LEMMA CasActionInv ==
  ASSUME TypeOK, ActionInv, NEW q \in Req,
         ApproveCas(q) \/ DenyCas(q) \/ Claim(q)
  PROVE  ActionInv'
<1> USE DEF ActionInv, Exclusive, PastApprove, Progress, RowInv, Untouched, Ended,
            TypeOK, Cas, CasOk, Goto, histVars
<1>1. CASE ApproveCas(q)
  BY <1>1 DEF ApproveCas
<1>2. CASE DenyCas(q)
  BY <1>2 DEF DenyCas
<1>3. CASE Claim(q)
  BY <1>3 DEF Claim
<1>4. QED
  BY <1>1, <1>2, <1>3

(* The handler and store_result work on a row that is the request's own.    *)
LEMMA HandlerActionInv ==
  ASSUME TypeOK, ActionInv, NEW q \in Req,
         HandlerStarts(q) \/ HandlerEnds(q) \/ StoreRead(q) \/ StoreWrite(q)
  PROVE  ActionInv'
<1> USE DEF ActionInv, Exclusive, PastApprove, Progress, RowInv, Untouched, Ended, TypeOK,
            Goto, tableVars, histVars
<1>1. CASE HandlerStarts(q)
  BY <1>1 DEF HandlerStarts
<1>2. CASE HandlerEnds(q)
  BY <1>2 DEF HandlerEnds
<1>3. CASE StoreRead(q)
  BY <1>3 DEF StoreRead, MayStore
<1>4. CASE StoreWrite(q)
  BY <1>4 DEF StoreWrite
<1>5. QED
  BY <1>1, <1>2, <1>3, <1>4

(* Every step of the specification preserves the action invariant.         *)
LEMMA NextActionInv == TypeOK /\ ActionInv /\ [Next]_vars => ActionInv'
<1> SUFFICES ASSUME TypeOK, ActionInv, [Next]_vars PROVE ActionInv'
  OBVIOUS
<1>1. CASE UNCHANGED vars
  BY <1>1 DEF vars, tableVars, reqVars, histVars, ActionInv, Exclusive, PastApprove,
              Progress, RowInv, Untouched, Ended
<1>2. CASE Next
  BY <1>2, TableActionInv, ReadActionInv, CasActionInv, HandlerActionInv
     DEF Next, RequestStep, RouteStep
<1>3. QED
  BY <1>1, <1>2

(* So it holds in every reachable state.                                   *)
LEMMA ActionInvariant == Spec => []ActionInv
BY InitActionInv, NextActionInv, Typing, PTL DEF Spec

-----------------------------------------------------------------------------
(* What follows from it. *)

(* The approve route invokes the handler of a parked action at most once,   *)
(* for any number of concurrent requests, sweeps, locks and restarts.      *)
THEOREM ExecutesAtMostOnce == Spec => []AtMostOnce
<1>1. TypeOK /\ ActionInv => AtMostOnce
  BY DEF ActionInv, RowInv, AtMostOnce
<1>2. QED
  BY <1>1, Typing, ActionInvariant, PTL

(* An action whose handler was invoked is never shown as pending, denied or *)
(* expired.                                                                *)
THEOREM RanIsExecuted == Spec => []RanReadsExecuted
<1>1. TypeOK /\ ActionInv => RanReadsExecuted
  BY DEF TypeOK, ActionInv, RowInv, Untouched, RanReadsExecuted
<1>2. QED
  BY <1>1, Typing, ActionInvariant, PTL

(* store_result never records anything but the outcome of the row's handler. *)
THEOREM ResultIsTheHandlers == Spec => []StoredResultIsTheHandlers
<1>1. ActionInv => StoredResultIsTheHandlers
  BY DEF ActionInv, RowInv, StoredResultIsTheHandlers
<1>2. QED
  BY <1>1, ActionInvariant, PTL

-----------------------------------------------------------------------------
(* Sessions. *)

(* A request past its first read works on a row of its own store's        *)
(* session, and every open request holds a store of this process.          *)
LEMMA NextSessionInv == TypeOK /\ SessionInv /\ [Next]_vars => SessionInv'
<1> SUFFICES ASSUME TypeOK, SessionInv, [Next]_vars PROVE SessionInv'
  OBVIOUS
<1> USE DEF TypeOK, SessionInv, Status, PC
<1>1. CASE Unlock \/ Lock \/ Restart
  BY <1>1 DEF Unlock, Lock, Restart, tableVars, reqVars, histVars
<1>2. ASSUME NEW r \in Row, NEW k \in 1..MaxSession, NEW c \in BOOLEAN,
             CreatePending(r, k, c)
      PROVE  SessionInv'
  BY <1>2 DEF CreatePending, LiveSession, appVars, reqVars
<1>3. ASSUME NEW r \in Row, Age(r) PROVE SessionInv'
  BY <1>3 DEF Age, appVars, reqVars
<1>4. CASE Sweep
  BY <1>4 DEF Sweep, SweepTo, appVars, reqVars
<1>5. ASSUME NEW q \in Req, NEW r \in Row, NEW p \in {"reading", "readingToDeny"},
             Open(q, r, p)
      PROVE  SessionInv'
  BY <1>5 DEF Open, Goto, tableVars, appVars
<1>6. ASSUME NEW q \in Req, RequestStep(q) PROVE SessionInv'
  <2>1. CASE ApproveRead(q)
    BY <2>1 DEF ApproveRead, Visible, Goto, tableVars, appVars
  <2>2. CASE DenyRead(q)
    BY <2>2 DEF DenyRead, Visible, Goto, tableVars, appVars
  <2>3. CASE ApproveCas(q) \/ DenyCas(q) \/ Claim(q)
    BY <2>3 DEF ApproveCas, DenyCas, Claim, Cas, CasOk, Goto, appVars
  <2>4. CASE HandlerStarts(q) \/ HandlerEnds(q)
    BY <2>4 DEF HandlerStarts, HandlerEnds, Goto, tableVars, appVars
  <2>5. CASE StoreRead(q) \/ StoreWrite(q) \/ Finish(q)
    BY <2>5 DEF StoreRead, StoreWrite, Finish, Goto, tableVars, appVars
  <2>6. QED
    BY <1>6, <2>1, <2>2, <2>3, <2>4, <2>5 DEF RequestStep, RouteStep
<1>7. CASE UNCHANGED vars
  BY <1>7 DEF vars, tableVars, appVars, reqVars
<1>8. QED
  BY <1>1, <1>2, <1>3, <1>4, <1>5, <1>6, <1>7 DEF Next

(* So the sessions stand so in every reachable state.                      *)
LEMMA SessionInvariant == Spec => []SessionInv
<1>1. Init => SessionInv
  BY DEF Init, SessionInv
<1>2. QED
  BY <1>1, NextSessionInv, Typing, PTL DEF Spec

(* A row sealed before the process started can still expire, and nothing   *)
(* else: no request of this process holds a store of its session.          *)
LEMMA RestartStep ==
  ASSUME TypeOK, ActionInv, SessionInv, [Next]_vars, NEW r \in Row, owner[r] \in 1..boot
  PROVE  /\ status'[r] \in {status[r], "expired"}
         /\ runs'[r] = runs[r]
<1> USE DEF TypeOK, SessionInv, Status, PC
<1>1. CASE Unlock \/ Lock \/ Restart \/ (\E s \in Row : Age(s)) \/ UNCHANGED vars
  BY <1>1 DEF Unlock, Lock, Restart, Age, vars, tableVars, histVars
<1>2. CASE \E s \in Row, k \in 1..MaxSession, c \in BOOLEAN : CreatePending(s, k, c)
  BY <1>2 DEF CreatePending, histVars
<1>3. CASE Sweep
  BY <1>3 DEF Sweep, SweepTo, histVars
<1>4. CASE \E q \in Req, s \in Row : Open(q, s, "reading") \/ Open(q, s, "readingToDeny")
  BY <1>4 DEF Open, tableVars, histVars
<1>5. ASSUME NEW q \in Req, RequestStep(q)
      PROVE  /\ status'[r] \in {status[r], "expired"}
             /\ runs'[r] = runs[r]
  <2>1. CASE tgt[q] = r /\ pc[q] \notin {"idle", "reading", "readingToDeny"}
    BY <2>1
  <2>2. CASE pc[q] \in {"idle", "reading", "readingToDeny"}
    BY <1>5, <2>2 DEF RequestStep, RouteStep, ApproveRead, DenyRead, ApproveCas, DenyCas, Claim,
         HandlerStarts, HandlerEnds, StoreRead, StoreWrite, Finish, tableVars, histVars
  <2>3. CASE tgt[q] # r
    BY <1>5, <2>3 DEF RequestStep, RouteStep, ApproveRead, DenyRead, ApproveCas, DenyCas, Claim, Cas,
         HandlerStarts, HandlerEnds, StoreRead, StoreWrite, Finish, tableVars, histVars
  <2>4. QED
    BY <2>1, <2>2, <2>3
<1>6. QED
  BY <1>1, <1>2, <1>3, <1>4, <1>5 DEF Next

(* "A parked action won't silently run after a restart", for every run.     *)
THEOREM RestartInvalidatesRows == Spec => RestartInvalidates
<1>1. TypeOK /\ ActionInv /\ SessionInv /\ [Next]_vars
        => [\A r \in Row : owner[r] \in 1..boot
              => /\ status'[r] \in {status[r], "expired"}
                 /\ runs'[r] = runs[r]]_vars
  BY RestartStep
<1>2. QED
  BY <1>1, Typing, ActionInvariant, SessionInvariant, PTL DEF Spec, RestartInvalidates

-----------------------------------------------------------------------------
(* Resolutions.                                                            *)

(* A row that was executed, denied or expired keeps its status, and only a *)
(* request of the row's own session resolves one.                          *)
LEMMA ResolutionStep ==
  ASSUME TypeOK, SessionInv, [Next]_vars, NEW r \in Row
  PROVE  /\ status[r] \in {"executed", "denied", "expired"} => status'[r] = status[r]
         /\ status'[r] # status[r] /\ status'[r] \in {"approved", "denied", "executed"}
              => \E q \in Req : tgt[q] = r /\ store[q] = owner[r] /\ pc'[q] # pc[q]
<1> USE DEF TypeOK, SessionInv, Status, PC
<1>1. CASE \/ UNCHANGED vars \/ Unlock \/ Lock \/ Restart \/ \E s \in Row : Age(s)
           \/ \E q \in Req, s \in Row : Open(q, s, "reading") \/ Open(q, s, "readingToDeny")
           \/ \E q \in Req : \/ ApproveRead(q) \/ DenyRead(q) \/ HandlerStarts(q)
                              \/ HandlerEnds(q) \/ StoreRead(q) \/ StoreWrite(q) \/ Finish(q)
  BY <1>1 DEF vars, tableVars, Unlock, Lock, Restart, Age, Open, ApproveRead, DenyRead,
              HandlerStarts, HandlerEnds, StoreRead, StoreWrite, Finish
<1>2. CASE \E s \in Row, k \in 1..MaxSession, c \in BOOLEAN : CreatePending(s, k, c)
  BY <1>2 DEF CreatePending
<1>3. CASE Sweep
  BY <1>3 DEF Sweep, SweepTo
<1>4. ASSUME NEW q \in Req, ApproveCas(q) \/ DenyCas(q) \/ Claim(q)
      PROVE  /\ status[r] \in {"executed", "denied", "expired"} => status'[r] = status[r]
             /\ status'[r] # status[r] => tgt[q] = r /\ store[q] = owner[r] /\ pc'[q] # pc[q]
  BY <1>4 DEF ApproveCas, DenyCas, Claim, Cas, CasOk, Goto
<1>5. QED
  BY <1>1, <1>2, <1>3, <1>4 DEF Next, RequestStep, RouteStep

(* No approval, denial or sweep moves a resolved row.                       *)
THEOREM ResolutionsAreFinal == Spec => ResolutionIsFinal
<1>1. TypeOK /\ SessionInv /\ [Next]_vars
        => [\A r \in Row : status[r] \in {"executed", "denied", "expired"}
                             => status'[r] = status[r]]_vars
  BY ResolutionStep
<1>2. QED
  BY <1>1, Typing, SessionInvariant, PTL DEF Spec, ResolutionIsFinal

(* A row is approved, denied or executed only by a request that opened in   *)
(* the unlock session the row was sealed under.                            *)
THEOREM ResolvedInOwnSession == Spec => ResolvedFromOwnSession
<1>1. TypeOK /\ SessionInv /\ [Next]_vars
        => [\A r \in Row : status'[r] # status[r] /\ status'[r] \in {"approved", "denied", "executed"}
              => \E q \in Req : tgt[q] = r /\ store[q] = owner[r] /\ pc'[q] # pc[q]]_vars
  BY ResolutionStep
<1>2. QED
  BY <1>1, Typing, SessionInvariant, PTL DEF Spec, ResolvedFromOwnSession

-----------------------------------------------------------------------------
(* Refinement: the store and the routes implement SingleUseAction.         *)

(* The abstract variables seen from the table: one changed entry of status  *)
(* or runs is one changed entry of fateBar or performedBar.                *)
LEMMA BarTypes ==
  ASSUME TypeOK
  PROVE  /\ fateBar \in [Row -> Promise!Fate]
         /\ \A r \in Row : fateBar[r] = FateOf[status[r]]
BY DEF TypeOK, Status, fateBar, FateOf, Promise!Fate

(* Changing one entry of status changes that entry of fateBar.              *)
LEMMA FateMoves ==
  ASSUME TypeOK, NEW r \in Row, NEW new \in Status,
         status' = [status EXCEPT ![r] = new]
  PROVE  fateBar' = [fateBar EXCEPT ![r] = FateOf[new]]
BY DEF TypeOK, fateBar

(* A row that changes status and nothing else makes one abstract move.      *)
LEMMA MoveStep ==
  ASSUME TypeOK, NEW r \in Row, NEW new \in Status,
         status' = [status EXCEPT ![r] = new], UNCHANGED <<result, histVars>>
  PROVE  Promise!Move(r, FateOf[status[r]], FateOf[new])
<1>1. fateBar[r] = FateOf[status[r]]
  BY BarTypes
<1>2. UNCHANGED <<performedBar, ended, result>>
  BY DEF performedBar, histVars
<1>3. QED
  BY <1>1, <1>2, FateMoves DEF Promise!Move

(* Steps that leave status, runs, ended and result alone are stutters.      *)
LEMMA Stutter ==
  ASSUME UNCHANGED <<status, result, histVars>>
  PROVE  UNCHANGED Promise!sVars
BY DEF Promise!sVars, fateBar, performedBar, histVars

(* create_pending proposes an action.                                      *)
LEMMA CreateRefines ==
  ASSUME TypeOK, NEW r \in Row, NEW k \in 1..MaxSession, NEW c \in BOOLEAN,
         CreatePending(r, k, c)
  PROVE  Promise!SNext
<1>1. Promise!Move(r, FateOf["absent"], FateOf["pending"])
  BY MoveStep DEF CreatePending, Status, histVars
<1>2. QED
  BY <1>1 DEF Promise!SNext, Promise!Propose, FateOf

(* The sweep closes the set of open actions that are past their clock.      *)
LEMMA SweepRefines ==
  ASSUME TypeOK, Sweep
  PROVE  Promise!SNext
<1> DEFINE A == {r \in Row : status[r] = "pending" /\ Expired(r)}
<1>1. \A r \in A : fateBar[r] = "open"
  BY BarTypes DEF FateOf
<1>2. fateBar' = [r \in Row |-> IF r \in A THEN "closed" ELSE fateBar[r]]
  BY DEF Sweep, SweepTo, fateBar, FateOf, TypeOK, Status
<1>3. UNCHANGED <<performedBar, ended, result>>
  BY DEF Sweep, performedBar, histVars
<1>4. Promise!Close(A)
  BY <1>1, <1>2, <1>3 DEF Promise!Close
<1>5. A \in SUBSET Row
  OBVIOUS
<1>6. QED
  BY <1>4, <1>5 DEF Promise!SNext

(* A compare-and-set moves the row's fate when it wins, else is a stutter.  *)
LEMMA CasRefines ==
  ASSUME TypeOK, NEW q \in Req, ApproveCas(q) \/ DenyCas(q) \/ Claim(q)
  PROVE  [Promise!SNext]_(Promise!sVars)
<1> USE DEF Status
<1> tgt[q] \in Row
  BY DEF TypeOK
<1>1. CASE UNCHANGED status
  BY <1>1, Stutter DEF ApproveCas, DenyCas, Claim, Cas
<1>2. CASE ApproveCas(q) /\ CasOk(tgt[q], "pending")
  <2>1. Promise!Move(tgt[q], FateOf["pending"], FateOf["approved"])
    BY <1>2, MoveStep DEF ApproveCas, Cas, CasOk
  <2>2. QED
    BY <2>1 DEF Promise!SNext, Promise!Grant, FateOf
<1>3. CASE DenyCas(q) /\ CasOk(tgt[q], "pending")
  <2>1. Promise!Move(tgt[q], FateOf["pending"], FateOf["denied"])
    BY <1>3, MoveStep DEF DenyCas, Cas, CasOk
  <2>2. Promise!Close({tgt[q]})
    BY <2>1, BarTypes DEF Promise!Close, Promise!Move, FateOf, Promise!Fate
  <2>3. QED
    BY <2>2 DEF Promise!SNext
<1>4. CASE Claim(q) /\ CasOk(tgt[q], "approved")
  <2>1. Promise!Move(tgt[q], FateOf["approved"], FateOf["executed"])
    BY <1>4, MoveStep DEF Claim, Cas, CasOk
  <2>2. QED
    BY <2>1 DEF Promise!SNext, Promise!Spend, FateOf
<1>5. QED
  BY <1>1, <1>2, <1>3, <1>4 DEF ApproveCas, DenyCas, Claim, Cas

(* The handler and the write of its result.  The invariant says the row is  *)
(* the request's own, so the abstract guards hold.                         *)
LEMMA HandlerRefines ==
  ASSUME TypeOK, ActionInv, NEW q \in Req,
         HandlerStarts(q) \/ HandlerEnds(q) \/ StoreWrite(q)
  PROVE  Promise!SNext
<1> tgt[q] \in Row /\ Progress(q) /\ RowInv(tgt[q])
  BY DEF TypeOK, ActionInv
<1> USE BarTypes DEF Progress, RowInv, Untouched, Ended
<1>1. CASE HandlerStarts(q)
  <2>1. performedBar' = performedBar \cup {tgt[q]}
    BY <1>1 DEF HandlerStarts, performedBar, TypeOK
  <2>2. fateBar[tgt[q]] = "spent" /\ tgt[q] \notin performedBar
    BY <1>1 DEF HandlerStarts, FateOf, performedBar
  <2>3. Promise!Perform(tgt[q])
    BY <1>1, <2>1, <2>2 DEF Promise!Perform, HandlerStarts, fateBar, tableVars
  <2>4. QED
    BY <2>3 DEF Promise!SNext
<1>2. CASE HandlerEnds(q)
  <2>1. tgt[q] \in performedBar /\ ended[tgt[q]] = "none"
    BY <1>2 DEF HandlerEnds, performedBar
  <2>2. Promise!End(tgt[q])
    BY <1>2, <2>1 DEF Promise!End, HandlerEnds, fateBar, performedBar, tableVars
  <2>3. QED
    BY <2>2 DEF Promise!SNext
<1>3. CASE StoreWrite(q)
  <2>1. /\ ended[tgt[q]] # "none" /\ result[tgt[q]] = "none"
        /\ result' = [result EXCEPT ![tgt[q]] = ended[tgt[q]]]
    BY <1>3 DEF StoreWrite
  <2>2. Promise!Answer(tgt[q])
    BY <1>3, <2>1 DEF Promise!Answer, StoreWrite, fateBar, performedBar, histVars
  <2>3. QED
    BY <2>2 DEF Promise!SNext
<1>4. QED
  BY <1>1, <1>2, <1>3

(* Every step of the store and the routes is an abstract step or a stutter. *)
LEMMA StepRefines ==
  ASSUME TypeOK, ActionInv, [Next]_vars
  PROVE  [Promise!SNext]_(Promise!sVars)
<1>1. CASE \/ UNCHANGED vars \/ Unlock \/ Lock \/ Restart \/ \E r \in Row : Age(r)
           \/ \E q \in Req, r \in Row : Open(q, r, "reading") \/ Open(q, r, "readingToDeny")
           \/ \E q \in Req : \/ ApproveRead(q) \/ DenyRead(q)
                              \/ StoreRead(q) \/ Finish(q)
  BY <1>1, Stutter DEF vars, tableVars, Unlock, Lock, Restart, Age, Open,
                       ApproveRead, DenyRead, StoreRead, Finish
<1>2. CASE \E r \in Row, k \in 1..MaxSession, c \in BOOLEAN : CreatePending(r, k, c)
  BY <1>2, CreateRefines
<1>3. CASE Sweep
  BY <1>3, SweepRefines
<1>4. CASE \E q \in Req : \/ ApproveCas(q) \/ DenyCas(q) \/ Claim(q)
                          \/ HandlerStarts(q) \/ HandlerEnds(q) \/ StoreWrite(q)
  BY <1>4, CasRefines, HandlerRefines
<1>5. QED
  BY <1>1, <1>2, <1>3, <1>4 DEF Next, RequestStep, RouteStep

(* The pending_actions table and the routes implement the abstract         *)
(* single-use action for any number of rows, requests and sessions.        *)
THEOREM ImplementsPromise == Spec => ImplementsSingleUse
<1>1. Init => Promise!SInit
  <2> SUFFICES ASSUME Init PROVE Promise!SInit
    OBVIOUS
  <2>1. fateBar = [r \in Row |-> "none"]
    BY DEF Init, fateBar, FateOf
  <2>2. performedBar = {}
    BY DEF Init, performedBar
  <2>3. QED
    BY <2>1, <2>2 DEF Init, Promise!SInit
<1>2. TypeOK /\ ActionInv /\ [Next]_vars => [Promise!SNext]_(Promise!sVars)
  BY StepRefines
<1>3. QED
  BY <1>1, <1>2, Typing, ActionInvariant, PTL DEF Spec, Promise!SSpec, ImplementsSingleUse
============================================================================
