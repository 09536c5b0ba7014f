----------------------------- MODULE Approvals -----------------------------
(***************************************************************************)
(* The pending-approval state machine: the pending_actions table, the      *)
(* unlock session it is bound to, and the HTTP requests that approve or    *)
(* deny a parked tool call.  Requests run on a thread pool, so any two of  *)
(* them interleave between the database calls they make; each call on the  *)
(* table is one step.                                                      *)
(*                                                                         *)
(* A parked action is a row.  The approve route reads the row, moves it    *)
(* pending -> approved, claims it approved -> executed, runs the tool's    *)
(* handler and stores the handler's result in the row.                     *)
(***************************************************************************)
EXTENDS Naturals, FiniteSets

CONSTANTS
  Row,        \* ids of the rows a behaviour may create
  Req,        \* HTTP requests that may be in progress at the same time
  MaxSession  \* bound on the number of unlocks of a behaviour

ASSUME MaxSessionAssumption == MaxSession \in Nat

VARIABLES
  (* The pending_actions table. *)
  status,     \* [Row -> Status]
  owner,      \* [Row -> session the row was sealed under]; 0 for no row
  chat,       \* [Row -> BOOLEAN] the row carries a conversation id
  age,        \* [Row -> AgeClass] time since created_at
  result,     \* [Row -> Outcome] the stored result
  (* app.state and the process. *)
  session,    \* the unlock session app.state.approvals is bound to; 0 = locked
  unlocks,    \* number of unlocks so far: every unlock mints a fresh session
  boot,       \* value of unlocks when the process started
  (* Requests in progress. *)
  pc,         \* [Req -> PC]
  tgt,        \* [Req -> Row] the row in the request's path
  store,      \* [Req -> session of the ApprovalStore the request captured]
  out,        \* [Req -> Outcome] what the request is about to store
  (* History, for the properties only. *)
  runs,       \* [Row -> Nat] handler invocations made for the row
  ended       \* [Row -> Outcome] how the handler ended

tableVars == <<status, owner, chat, age, result>>
appVars   == <<session, unlocks, boot>>
reqVars   == <<pc, tgt, store, out>>
histVars  == <<runs, ended>>
vars      == <<tableVars, appVars, reqVars, histVars>>

Status   == {"absent", "pending", "approved", "executed", "denied", "expired"}
Outcome  == {"none", "ok", "error"}
AgeClass == 0..2   \* up to one hour; up to thirty days; beyond
PC == {"idle", "reading", "readingToDeny", "approving", "denying", "claiming",
       "claimed", "handling", "storing", "writing", "finishing"}

-----------------------------------------------------------------------------
(* A row sealed under session k is visible to a store of that session only *)
(* (ApprovalStore.get and list_for_turn drop every other row).             *)
\* Faulty variant: the visibility check ignores the session.
Visible_AnySession(r, k) == status[r] # "absent"
Visible(r, k) == status[r] # "absent" /\ owner[r] = k

(* ApprovalStore._ttl_for: a chat park lives an hour, a park without a     *)
(* conversation (a scheduled one) thirty days.                             *)
TTL(r) == IF chat[r] THEN 0 ELSE 1

Expired(r) == age[r] > TTL(r)

(* The test ApprovalStore._cas makes, with _CAS_LOCK held, on the live row, *)
(* and a faulty one that trusts the status the request read earlier.       *)
CasOk_NoStatus(r, expected) == status[r] # "absent" /\ ~Expired(r)
CasOk(r, expected) == status[r] = expected /\ ~Expired(r)

-----------------------------------------------------------------------------
Init ==
  /\ status = [r \in Row |-> "absent"]
  /\ owner  = [r \in Row |-> 0]
  /\ chat   = [r \in Row |-> FALSE]
  /\ age    = [r \in Row |-> 0]
  /\ result = [r \in Row |-> "none"]
  /\ session = 0
  /\ unlocks = 0
  /\ boot = 0
  /\ pc    = [q \in Req |-> "idle"]
  /\ tgt   \in [Req -> Row]
  /\ store = [q \in Req |-> 0]
  /\ out   = [q \in Req |-> "none"]
  /\ runs  = [r \in Row |-> 0]
  /\ ended = [r \in Row |-> "none"]

-----------------------------------------------------------------------------
(* Sessions. *)

(* account._set_unlocked: a fresh session id and a store bound to it. *)
Unlock ==
  /\ session = 0
  /\ unlocks < MaxSession
  /\ unlocks' = unlocks + 1
  /\ session' = unlocks + 1
  /\ UNCHANGED <<tableVars, boot, reqVars, histVars>>

(* account.account_lock: app.state.approvals becomes None.  Requests that   *)
(* already hold a store keep it.                                           *)
Lock ==
  /\ session # 0
  /\ session' = 0
  /\ UNCHANGED <<tableVars, unlocks, boot, reqVars, histVars>>

(* The process dies and starts again: the table survives, threads and the   *)
(* key do not.                                                             *)
Restart ==
  /\ session' = 0
  /\ boot' = unlocks
  /\ pc' = [q \in Req |-> "idle"]
  /\ out' = [q \in Req |-> "none"]
  /\ UNCHANGED <<tableVars, unlocks, tgt, store, histVars>>

(* A store of session k may still be held by a thread of this process. *)
LiveSession == (boot + 1)..unlocks

-----------------------------------------------------------------------------
(* The table. *)

(* ApprovalStore.create_pending, called with a store of session k by the    *)
(* invoke route, a chat turn, a scheduled turn or the self-review.         *)
CreatePending(r, k, c) ==
  /\ status[r] = "absent"
  /\ k \in LiveSession
  /\ status' = [status EXCEPT ![r] = "pending"]
  /\ owner'  = [owner EXCEPT ![r] = k]
  /\ chat'   = [chat EXCEPT ![r] = c]
  /\ UNCHANGED <<age, result, appVars, reqVars, histVars>>

(* The clock moves row r into the next age class. *)
Age(r) ==
  /\ status[r] # "absent"
  /\ age[r] < 2
  /\ age' = [age EXCEPT ![r] = @ + 1]
  /\ UNCHANGED <<status, owner, chat, result, appVars, reqVars, histVars>>

(* The sweep ApprovalStore.list_pending makes, under _CAS_LOCK, before it   *)
(* lists: every pending row past its clock becomes expired, whoever owns it. *)
\* Faulty variant: the sweep expires rows whatever their status.
SweepTo_AnyStatus(r) == IF Expired(r) THEN "expired" ELSE status[r]
SweepTo(r) == IF status[r] = "pending" /\ Expired(r) THEN "expired" ELSE status[r]

Sweep ==
  /\ LiveSession # {}
  /\ \E r \in Row : status[r] # SweepTo(r)
  /\ status' = [r \in Row |-> SweepTo(r)]
  /\ UNCHANGED <<owner, chat, age, result, appVars, reqVars, histVars>>

-----------------------------------------------------------------------------
(* The approve and deny routes, one step per call on shared state. *)

Goto(q, p) == pc' = [pc EXCEPT ![q] = p]

(* agent_routes.approve and deny start: _context and _approvals refuse when *)
(* locked, otherwise the request holds the store of the current session.   *)
Open(q, r, p) ==
  /\ pc[q] = "idle"
  /\ session # 0
  /\ Goto(q, p)
  /\ tgt' = [tgt EXCEPT ![q] = r]
  /\ store' = [store EXCEPT ![q] = session]
  /\ out' = [out EXCEPT ![q] = "none"]
  /\ UNCHANGED <<tableVars, appVars, histVars>>

(* approve: approvals.get, then the 404 and 409 early returns.  A missing   *)
(* confirm_tool or a tool no longer registered also ends the request.      *)
ApproveRead(q) ==
  /\ pc[q] = "reading"
  /\ \/ /\ Visible(tgt[q], store[q])
        /\ status[tgt[q]] = "pending"
        /\ ~Expired(tgt[q])
        /\ Goto(q, "approving")
     \/ Goto(q, "idle")
  /\ UNCHANGED <<tableVars, appVars, tgt, store, out, histVars>>

(* deny: approvals.get; only a missing row ends the request here. *)
DenyRead(q) ==
  /\ pc[q] = "readingToDeny"
  /\ Goto(q, IF Visible(tgt[q], store[q]) THEN "denying" ELSE "idle")
  /\ UNCHANGED <<tableVars, appVars, tgt, store, out, histVars>>

(* ApprovalStore._cas on the request's row: the row moves and the request   *)
(* goes on, or nothing changes and the request goes to its losing branch.  *)
Cas(q, expected, new, won, lost) ==
  LET r == tgt[q] IN
  /\ \/ /\ CasOk(r, expected)
        /\ status' = [status EXCEPT ![r] = new]
        /\ Goto(q, won)
     \/ /\ ~CasOk(r, expected)
        /\ Goto(q, lost)
        /\ UNCHANGED status
  /\ UNCHANGED <<owner, chat, age, result, appVars, tgt, store, histVars>>

ApproveCas(q) ==
  /\ pc[q] = "approving"
  /\ Cas(q, "pending", "approved", "claiming", "idle")
  /\ UNCHANGED out

\* Faulty variants: a lost denial goes on as if it had won; a denial never
\* looks whether its turn can go on; a denial writes a status of its own.
DenyCas_IgnoresLoss(q) ==
  /\ pc[q] = "denying"
  /\ Cas(q, "pending", "denied", "finishing", "finishing")
  /\ UNCHANGED out

DenyCas_JustAnswers(q) ==
  /\ pc[q] = "denying"
  /\ Cas(q, "pending", "denied", "idle", "idle")
  /\ UNCHANGED out

DenyCas_OwnStatus(q) ==
  /\ pc[q] = "denying"
  /\ Cas(q, "pending", "rejected", "finishing", "idle")
  /\ UNCHANGED out

DenyCas(q) ==
  /\ pc[q] = "denying"
  /\ Cas(q, "pending", "denied", "finishing", "idle")
  /\ UNCHANGED out

(* tools.run calls claim() before the handler; a lost claim raises          *)
(* PermissionError and the route goes on to store an error.                *)
Claim(q) ==
  /\ pc[q] = "claiming"
  /\ Cas(q, "approved", "executed", "claimed", "storing")
  /\ out' = [out EXCEPT ![q] = IF CasOk(tgt[q], "approved") THEN "none" ELSE "error"]

(* tools.run: the handler starts its side effects. *)
HandlerStarts(q) ==
  /\ pc[q] = "claimed"
  /\ Goto(q, "handling")
  /\ runs' = [runs EXCEPT ![tgt[q]] = @ + 1]
  /\ UNCHANGED <<tableVars, appVars, tgt, store, out, ended>>

(* Faulty variant: a handler that raises ends the request without a result. *)
HandlerEnds_RaiseSkipsStore(q) ==
  /\ pc[q] = "handling"
  /\ \E o \in {"ok", "error"} :
       /\ out' = [out EXCEPT ![q] = o]
       /\ ended' = [ended EXCEPT ![tgt[q]] = o]
       /\ Goto(q, IF o = "ok" THEN "storing" ELSE "finishing")
  /\ UNCHANGED <<tableVars, appVars, tgt, store, runs>>

(* The handler returns or raises; either way the route has a result to store. *)
HandlerEnds(q) ==
  /\ pc[q] = "handling"
  /\ \E o \in {"ok", "error"} :
       /\ out' = [out EXCEPT ![q] = o]
       /\ ended' = [ended EXCEPT ![tgt[q]] = o]
  /\ Goto(q, "storing")
  /\ UNCHANGED <<tableVars, appVars, tgt, store, runs>>

(* ApprovalStore.store_result reads the row, without _CAS_LOCK, and gives up *)
(* unless it is executed and has no result yet ...                         *)
\* Faulty variant: no status test, so a lost claim may store its error.
MayStore_NoStatus(r) == result[r] = "none"
MayStore(r) == status[r] = "executed" /\ result[r] = "none"

StoreRead(q) ==
  /\ pc[q] = "storing"
  /\ Goto(q, IF MayStore(tgt[q]) THEN "writing" ELSE "finishing")
  /\ UNCHANGED <<tableVars, appVars, tgt, store, out, histVars>>

(* ... and a second statement writes the re-sealed body. *)
StoreWrite(q) ==
  /\ pc[q] = "writing"
  /\ result' = [result EXCEPT ![tgt[q]] = out[q]]
  /\ Goto(q, "finishing")
  /\ UNCHANGED <<status, owner, chat, age, appVars, tgt, store, out, histVars>>

(* The request answers; what _maybe_finish_scheduled_turn does on the way   *)
(* out is the subject of AgentTurns.                                       *)
Finish(q) ==
  /\ pc[q] = "finishing"
  /\ Goto(q, "idle")
  /\ out' = [out EXCEPT ![q] = "none"]
  /\ UNCHANGED <<tableVars, appVars, tgt, store, histVars>>

-----------------------------------------------------------------------------
RouteStep(q) ==
  \/ ApproveRead(q) \/ DenyRead(q)
  \/ ApproveCas(q) \/ DenyCas(q) \/ Claim(q)
  \/ HandlerStarts(q) \/ HandlerEnds(q)
  \/ StoreRead(q) \/ StoreWrite(q)

RequestStep(q) == RouteStep(q) \/ Finish(q)

Next ==
  \/ Unlock \/ Lock \/ Restart
  \/ \E r \in Row, k \in 1..MaxSession, c \in BOOLEAN : CreatePending(r, k, c)
  \/ \E r \in Row : Age(r)
  \/ Sweep
  \/ \E q \in Req, r \in Row : Open(q, r, "reading") \/ Open(q, r, "readingToDeny")
  \/ \E q \in Req : RequestStep(q)

Spec == Init /\ [][Next]_vars

(* Every request thread is scheduled until it answers: the server runs it   *)
(* on a pool thread and no step of it waits for another request.           *)
FairSpec == Spec /\ \A q \in Req : WF_vars(RequestStep(q))

-----------------------------------------------------------------------------
(* Properties. *)

TypeOK ==
  /\ status \in [Row -> Status]
  /\ owner \in [Row -> Nat]
  /\ chat \in [Row -> BOOLEAN]
  /\ age \in [Row -> AgeClass]
  /\ result \in [Row -> Outcome]
  /\ session \in Nat /\ unlocks \in Nat /\ boot \in Nat
  /\ pc \in [Req -> PC]
  /\ tgt \in [Req -> Row]
  /\ store \in [Req -> Nat]
  /\ out \in [Req -> Outcome]
  /\ runs \in [Row -> Nat]
  /\ ended \in [Row -> Outcome]

(* However approvals, claims, locks and restarts interleave, the handler of *)
(* a parked action is invoked at most once.                                *)
AtMostOnce == \A r \in Row : runs[r] <= 1

(* An action whose handler was invoked reads "executed" from then on: it    *)
(* never shows as pending (and so is never offered again), denied or        *)
(* expired, and an action that was denied or expired has not run.          *)
RanReadsExecuted == \A r \in Row : runs[r] > 0 => status[r] = "executed"

(* The result stored in a row, which the resumed turn feeds to the model,   *)
(* is the one the row's handler ended with.  A request that lost the claim  *)
(* also calls store_result, with an error, and must not reach the row.     *)
StoredResultIsTheHandlers ==
  \A r \in Row : result[r] # "none" => result[r] = ended[r]

(* A resolution is final: no sweep, denial or approval moves a row that was *)
(* executed, denied or expired.                                            *)
ResolutionIsFinal ==
  [][\A r \in Row : status[r] \in {"executed", "denied", "expired"}
                      => status'[r] = status[r]]_vars

(* "A parked action won't silently run after a restart": a row sealed       *)
(* before the process started can still expire, and nothing else.          *)
RestartInvalidates ==
  [][\A r \in Row : owner[r] \in 1..boot
        => /\ status'[r] \in {status[r], "expired"}
           /\ runs'[r] = runs[r]]_vars

(* A row is only ever resolved by the user through a request that opened in *)
(* the row's own unlock session.                                           *)
ResolvedFromOwnSession ==
  [][\A r \in Row : status'[r] # status[r] /\ status'[r] \in {"approved", "denied", "executed"}
        => \E q \in Req : tgt[q] = r /\ store[q] = owner[r] /\ pc'[q] # pc[q]]_vars

(* Unless the process restarts, a claimed action gets a result: the turn    *)
(* it belongs to is not left waiting for a handler that already ended.     *)
ClaimedGetsResult ==
  \A r \in Row : status[r] = "executed" ~> result[r] # "none" \/ owner[r] <= boot

-----------------------------------------------------------------------------
(* The table and the requests implement the single-use action: the sweep,   *)
(* the compare-and-set and the two statements of store_result are one       *)
(* abstract step each, everything else is a stutter.                       *)
FateOf == [absent |-> "none", pending |-> "open", approved |-> "granted",
           executed |-> "spent", denied |-> "closed", expired |-> "closed"]

fateBar      == [r \in Row |-> FateOf[status[r]]]
performedBar == {r \in Row : runs[r] > 0}

Promise == INSTANCE SingleUseAction WITH
  Action    <- Row,
  fate      <- fateBar,
  performed <- performedBar,
  outcome   <- ended,
  answer    <- result

(* Every behaviour of the approval store is one the abstract single-use     *)
(* action allows: proposed, granted or closed, spent, performed once,       *)
(* answered once with what the performance gave.                           *)
ImplementsSingleUse == Promise!SSpec
============================================================================
