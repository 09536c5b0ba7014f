------------------------------- MODULE Account -------------------------------
(***************************************************************************)
(* Setting up, unlocking and locking the vault.  An unlocked application   *)
(* is a dozen attributes of app.state that requests of a thread pool read   *)
(* at any time; unlock and lock write them one after the other.  Unlock     *)
(* attempts go through a throttle: one derivation slot and an exponential   *)
(* backoff after repeated failures.                                        *)
(***************************************************************************)
EXTENDS Integers, Sequences, FiniteSets

CONSTANTS
  Request,        \* request threads that set up, unlock or lock
  FreeFailures,   \* _FREE_FAILURES
  BackoffMax,     \* _BACKOFF_MAX_S, in units of _BACKOFF_BASE_S
  MaxFailures,    \* _MAX_COUNTED_FAILURES
  MaxUnlocks      \* bound on the unlocks of a behaviour

ASSUME AccountAssumption ==
  /\ FreeFailures \in Nat \ {0} /\ BackoffMax \in Nat \ {0}
  /\ MaxFailures \in Nat \ {0} /\ MaxUnlocks \in Nat

(* The attributes of app.state in the order _set_unlocked writes them, and  *)
(* in the order account_lock clears them.  Attributes that hold a store     *)
(* like their neighbours (history, memory, planner, feeds, ni, email) are   *)
(* left out.                                                               *)
UnlockOrder_KbFirst == <<"master_key", "secret_store", "kb", "vaults", "audit",
                         "session_id", "approvals", "schedules">>
UnlockOrder == <<"master_key", "secret_store", "vaults", "kb", "audit",
                 "session_id", "approvals", "schedules">>
LockOrder_KeepsSchedules == <<"master_key", "secret_store", "kb", "audit", "approvals",
                              "session_id", "vaults">>
LockOrder == <<"master_key", "secret_store", "kb", "audit", "approvals",
               "session_id", "schedules", "vaults">>
Field == {UnlockOrder[i] : i \in DOMAIN UnlockOrder}

VARIABLES
  wraps,     \* methods that have a row in key_wraps
  state,     \* [Field -> number of the unlock that wrote it, 0 for None]
  unlocks,   \* unlocks so far
  slot,      \* requests that hold the derivation slot
  failures,  \* _UnlockGuard.failures
  wait,      \* _UnlockGuard.not_before - now, not below 0
  job,       \* [Request -> what the request is doing]
  (* History. *)
  mixed      \* a lock and an unlock have written attributes at the same time

vars == <<wraps, state, unlocks, slot, failures, wait, job, mixed>>

Job == [at : {"idle", "checking", "deriving", "derived", "opening", "closing",
              "wrapping", "recovering", "starting"},
        todo : Seq(Field), num : 0..MaxUnlocks]
Idle == [at |-> "idle", todo |-> <<>>, num |-> 0]

Become(t, p) == job' = [job EXCEPT ![t] = [Idle EXCEPT !.at = p]]
Quiet == \A t \in Request : job[t].at = "idle"
AllClear == \A f \in Field : state[f] = 0

(* A lock overlaps an unlock or a setup; what that leaves behind lasts      *)
(* until the attributes are all clear again and nobody writes them.        *)
Overlap == \E t, u \in Request :
             job[t].at = "closing" /\ job[u].at \in {"opening", "starting"}
Remember == mixed' = (Overlap' \/ (mixed /\ ~(Quiet /\ AllClear)'))

-----------------------------------------------------------------------------
Init ==
  /\ wraps = {}
  /\ state = [f \in Field |-> 0]
  /\ unlocks = 0
  /\ slot = {} /\ failures = 0 /\ wait = 0
  /\ job = [t \in Request |-> Idle]
  /\ mixed = FALSE

-----------------------------------------------------------------------------
(* _set_unlocked and account_lock, one attribute per step. *)

(* An unlock opens, a setup starts; both run _set_unlocked. *)
Opening(t, p) ==
  /\ unlocks < MaxUnlocks
  /\ unlocks' = unlocks + 1
  /\ job' = [job EXCEPT ![t] = [at |-> p, todo |-> UnlockOrder, num |-> unlocks + 1]]

(* _UnlockGuard.record. *)
Doubled[k \in 0..MaxFailures] == IF k = 0 THEN 1 ELSE 2 * Doubled[k - 1]
Backoff_Uncapped(n) == Doubled[n - FreeFailures]
Backoff(n) ==
  LET d == Doubled[n - FreeFailures] IN IF d < BackoffMax THEN d ELSE BackoffMax
RecordSuccess == failures' = 0 /\ wait' = 0
RecordFailure ==
  /\ failures' = IF failures = MaxFailures THEN failures ELSE failures + 1
  /\ wait' = IF failures' >= FreeFailures THEN Backoff(failures') ELSE wait

(* The last attribute written, an unlock leaves _credential_attempt: it     *)
(* records its success and frees the slot.  A setup holds no slot.         *)
OpenNext(t) ==
  /\ job[t].at \in {"opening", "starting"}
  /\ state' = [state EXCEPT ![Head(job[t].todo)] = job[t].num]
  /\ IF Len(job[t].todo) > 1
     THEN /\ job' = [job EXCEPT ![t].todo = Tail(@)]
          /\ UNCHANGED <<slot, failures, wait>>
     ELSE /\ Become(t, "idle")
          /\ slot' = slot \ {t}
          /\ IF t \in slot THEN RecordSuccess ELSE UNCHANGED <<failures, wait>>
  /\ UNCHANGED <<wraps, unlocks>>
  /\ Remember

LockStart(t) ==
  /\ job[t].at = "idle"
  /\ job' = [job EXCEPT ![t] = [at |-> "closing", todo |-> LockOrder, num |-> 0]]
  /\ UNCHANGED <<wraps, state, unlocks, slot, failures, wait>>
  /\ Remember

LockNext(t) ==
  /\ job[t].at = "closing"
  /\ state' = [state EXCEPT ![Head(job[t].todo)] = 0]
  /\ IF Len(job[t].todo) > 1
     THEN job' = [job EXCEPT ![t].todo = Tail(@)]
     ELSE Become(t, "idle")
  /\ UNCHANGED <<wraps, unlocks, slot, failures, wait>>
  /\ Remember

-----------------------------------------------------------------------------
(* account_unlock under _credential_attempt. *)

(* Without a free slot the request answers 429 at once, nothing changes. *)
TakeSlot(t) ==
  /\ job[t].at = "idle" /\ "passphrase" \in wraps
  /\ slot = {}
  /\ slot' = {t}
  /\ Become(t, "checking")
  /\ UNCHANGED <<wraps, state, unlocks, failures, wait>>
  /\ Remember

CheckBackoff_Skipped(t) ==
  /\ job[t].at = "checking"
  /\ Become(t, "deriving")
  /\ UNCHANGED <<wraps, state, unlocks, slot, failures, wait>>
  /\ Remember
CheckBackoff(t) ==
  /\ job[t].at = "checking"
  /\ IF wait = 0
     THEN Become(t, "deriving") /\ UNCHANGED slot
     ELSE Become(t, "idle") /\ slot' = slot \ {t}
  /\ UNCHANGED <<wraps, state, unlocks, failures, wait>>
  /\ Remember

(* The derivation: a wrong credential is a 401, which counts. *)
DeriveFails(t) ==
  /\ job[t].at = "deriving"
  /\ RecordFailure
  /\ slot' = slot \ {t}
  /\ Become(t, "idle")
  /\ UNCHANGED <<wraps, state, unlocks>>
  /\ Remember

\* Faulty variant: the slot covers the derivation only.
Derives_FreesSlot(t) ==
  /\ job[t].at = "deriving"
  /\ slot' = slot \ {t}
  /\ Become(t, "derived")
  /\ UNCHANGED <<wraps, state, unlocks, failures, wait>>
  /\ Remember
Derives(t) ==
  /\ job[t].at = "deriving"
  /\ Become(t, "derived")
  /\ UNCHANGED <<wraps, state, unlocks, slot, failures, wait>>
  /\ Remember

(* An unlocked application only gets another browser session. *)
ReadCurrent(t) ==
  /\ job[t].at = "derived"
  /\ \/ /\ state["master_key"] = 0
        /\ Opening(t, "opening")
        /\ UNCHANGED <<slot, failures, wait>>
     \/ /\ state["master_key"] # 0
        /\ Become(t, "idle")
        /\ slot' = slot \ {t}
        /\ RecordSuccess
        /\ UNCHANGED unlocks
  /\ UNCHANGED <<wraps, state>>
  /\ Remember

-----------------------------------------------------------------------------
(* account_setup: the check, the insert of the passphrase wrap (method is   *)
(* the primary key, so a second insert raises), the recovery wrap.         *)

SetupCheck(t) ==
  /\ job[t].at = "idle" /\ "passphrase" \notin wraps
  /\ Become(t, "wrapping")
  /\ UNCHANGED <<wraps, state, unlocks, slot, failures, wait>>
  /\ Remember

SetPassphrase(t) ==
  /\ job[t].at = "wrapping"
  /\ IF "passphrase" \in wraps THEN Become(t, "idle") ELSE Become(t, "recovering")
  /\ wraps' = wraps \cup {"passphrase"}
  /\ UNCHANGED <<state, unlocks, slot, failures, wait>>
  /\ Remember

AddRecovery(t) ==
  /\ job[t].at = "recovering"
  /\ wraps' = wraps \cup {"recovery"}
  /\ Opening(t, "starting")
  /\ UNCHANGED <<state, slot, failures, wait>>
  /\ Remember

-----------------------------------------------------------------------------
(* The monotonic clock, in units of the base delay. *)
ClockTicks ==
  /\ wait > 0
  /\ wait' = wait - 1
  /\ UNCHANGED <<wraps, state, unlocks, slot, failures, job>>
  /\ Remember

(* Only key_wraps survives the process. *)
Restart ==
  /\ state' = [f \in Field |-> 0]
  /\ slot' = {} /\ failures' = 0 /\ wait' = 0
  /\ job' = [t \in Request |-> Idle]
  /\ UNCHANGED <<wraps, unlocks>>
  /\ Remember

Step(t) ==
  \/ OpenNext(t) \/ LockStart(t) \/ LockNext(t)
  \/ TakeSlot(t) \/ CheckBackoff(t) \/ DeriveFails(t) \/ Derives(t) \/ ReadCurrent(t)
  \/ SetupCheck(t) \/ SetPassphrase(t) \/ AddRecovery(t)

Next == ClockTicks \/ Restart \/ \E t \in Request : Step(t)

Spec == Init /\ [][Next]_vars

-----------------------------------------------------------------------------
(* Properties. *)

(* Types; the delay never exceeds its cap. *)
TypeOK ==
  /\ wraps \subseteq {"passphrase", "recovery"}
  /\ state \in [Field -> 0..MaxUnlocks] /\ unlocks \in 0..MaxUnlocks
  /\ slot \subseteq Request /\ Cardinality(slot) <= 1
  /\ failures \in 0..MaxFailures /\ wait \in 0..BackoffMax
  /\ job \in [Request -> Job] /\ mixed \in BOOLEAN

(* No credential is derived during the backoff, however requests race: none *)
(* slips past a failure that another has just recorded.                    *)
GuessesSpaced == \A t \in Request : job[t].at = "deriving" => wait = 0

(* However many browsers unlock at once, one of them at most writes the     *)
(* attributes: the check that finds no key is made holding the slot.        *)
UnlocksDoNotOverlap == Cardinality({t \in Request : job[t].at = "opening"}) <= 1

(* Fail-closed: as long as no lock overlaps an unlock, whoever sees a live  *)
(* kb sees the vaults store whose provenance tags it needs, at every moment *)
(* of an unlock or a lock and however setups and unlocks overlap.           *)
FailClosedAlone == ~mixed /\ state["kb"] # 0 => state["vaults"] # 0

(* Likewise a lock leaves no store behind: once the requests are done, an   *)
(* application that says it is locked holds nothing opened with the key.    *)
LockDropsAll == ~mixed /\ Quiet /\ state["master_key"] = 0 => AllClear
=============================================================================
