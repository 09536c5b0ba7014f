--------------------------- MODULE Account_proofs ---------------------------
(***************************************************************************)
(* Safety of unlocking and locking for every number of requests.  Two       *)
(* arguments, independent of each other: the derivation slot has one holder,*)
(* which is the only request between the backoff check and the last         *)
(* attribute; and, as long as no lock overlaps an unlock, the attributes a   *)
(* writer has passed in its order are all written or all cleared.           *)
(***************************************************************************)
EXTENDS Account, Induct_proofs, FiniteSetTheorems, TLAPS

Holding == {"checking", "deriving", "derived", "opening"}

(* What is left of the order is its end. *)
IsRest(todo, order) ==
  /\ todo \in Seq(Field)
  /\ Len(todo) \in 1..8
  /\ \A k \in 1..Len(todo) : todo[k] = order[8 - Len(todo) + k]

Passed(t) == 8 - Len(job[t].todo)
Writing(t) == job[t].at \in {"opening", "starting"}
Clearing(t) == job[t].at = "closing"

JobType ==
  [at : {"idle", "checking", "deriving", "derived", "opening", "closing",
         "wrapping", "recovering", "starting"},
   todo : Seq(Field), num : Nat]

Types ==
  /\ state \in [Field -> Nat] /\ unlocks \in Nat /\ mixed \in BOOLEAN
  /\ job \in [Request -> JobType]

(* One slot, and who is past taking it holds it. *)
SlotHeld ==
  /\ slot = {} \/ \E t \in Request : slot = {t}
  /\ \A t \in Request : job[t].at \in Holding <=> t \in slot

(* A derivation starts when no backoff runs, and until it ends nobody else  *)
(* can start one.                                                          *)
SlotInv == SlotHeld /\ GuessesSpaced

Orders ==
  \A t \in Request :
    /\ Writing(t) => job[t].num # 0 /\ IsRest(job[t].todo, UnlockOrder)
    /\ Clearing(t) => IsRest(job[t].todo, LockOrder)

(* What the attributes are while locks and unlocks keep apart. *)
Apart ==
  /\ ~Overlap
  /\ \A t \in Request : Writing(t) => \A k \in 1..Passed(t) : state[UnlockOrder[k]] # 0
  /\ \A t \in Request : Clearing(t) => \A k \in 1..Passed(t) : state[LockOrder[k]] = 0
  /\ state["kb"] # 0 => state["vaults"] # 0
  /\ (\E t \in Request : Clearing(t)) \/ state["master_key"] # 0 \/ AllClear

StateInv == Types /\ Orders /\ (~mixed => Apart)

-----------------------------------------------------------------------------
(* Types, and what becomes of the job of a request. *)

(* The orders list every attribute, each once. *)
LEMMA FieldFacts ==
  /\ Field = {"master_key", "secret_store", "vaults", "kb", "audit",
              "session_id", "approvals", "schedules"}
  /\ \A f \in Field : \E k \in 1..8 : LockOrder[k] = f
  /\ \A k \in 1..8 : UnlockOrder[k] \in Field /\ LockOrder[k] \in Field
  /\ UnlockOrder \in Seq(Field) /\ Len(UnlockOrder) = 8
  /\ LockOrder \in Seq(Field) /\ Len(LockOrder) = 8
<1>1. Field = {"master_key", "secret_store", "vaults", "kb", "audit",
               "session_id", "approvals", "schedules"}
  <2>1. DOMAIN UnlockOrder = 1..8
    BY DEF UnlockOrder
  <2>2. QED
    BY <2>1 DEF Field, UnlockOrder
<1>2. \A f \in Field : \E k \in 1..8 : LockOrder[k] = f
  BY <1>1 DEF LockOrder
<1>3. \A k \in 1..8 : UnlockOrder[k] \in Field /\ LockOrder[k] \in Field
  BY <1>1 DEF LockOrder, UnlockOrder
<1>4. UnlockOrder \in Seq(Field) /\ Len(UnlockOrder) = 8
  BY <1>1 DEF UnlockOrder
<1>5. LockOrder \in Seq(Field) /\ Len(LockOrder) = 8
  BY <1>1 DEF LockOrder
<1>6. QED
  BY <1>1, <1>2, <1>3, <1>4, <1>5

LEMMA IdleType == Idle \in JobType /\ Idle.at = "idle"
<1>1. <<>> \in Seq(Field)
  OBVIOUS
<1>2. QED
  BY <1>1 DEF Idle, JobType

(* A request that takes up something else has nothing left to write. *)
LEMMA BecomeFacts ==
  ASSUME Types, NEW t \in Request,
         NEW p \in {"idle", "checking", "deriving", "derived", "wrapping", "recovering"},
         Become(t, p)
  PROVE  /\ job' \in [Request -> JobType]
         /\ job'[t].at = p /\ job'[t].num = 0
         /\ \A u \in Request : u # t => job'[u] = job[u]
<1>1. /\ [Idle EXCEPT !.at = p] \in JobType
      /\ [Idle EXCEPT !.at = p].at = p /\ [Idle EXCEPT !.at = p].num = 0
  BY IdleType DEF JobType, Idle
<1>2. QED
  BY <1>1 DEF Become, Types

(* A request that starts to write has the whole order before it. *)
LEMMA OpeningFacts ==
  ASSUME Types, NEW t \in Request, NEW p \in {"opening", "starting"}, Opening(t, p)
  PROVE  /\ job' \in [Request -> JobType]
         /\ job'[t].at = p /\ job'[t].todo = UnlockOrder
         /\ job'[t].num # 0 /\ job'[t].num = unlocks + 1 /\ job'[t].num <= MaxUnlocks
         /\ \A u \in Request : u # t => job'[u] = job[u]
         /\ unlocks' \in Nat /\ unlocks' <= MaxUnlocks
<1>1. [at |-> p, todo |-> UnlockOrder, num |-> unlocks + 1] \in JobType
  <2>1. UnlockOrder \in Seq(Field)
    BY FieldFacts
  <2>2. unlocks + 1 \in Nat
    BY DEF Types
  <2>3. QED
    BY <2>1, <2>2 DEF JobType
<1>2. QED
  BY <1>1, AccountAssumption DEF Opening, Types

LEMMA ClosingFacts ==
  ASSUME Types, NEW t \in Request, LockStart(t)
  PROVE  /\ job' \in [Request -> JobType]
         /\ job'[t].at = "closing" /\ job'[t].todo = LockOrder /\ job'[t].num = 0
         /\ \A u \in Request : u # t => job'[u] = job[u]
<1>1. [at |-> "closing", todo |-> LockOrder, num |-> 0] \in JobType
  <2>1. LockOrder \in Seq(Field)
    BY FieldFacts
  <2>2. QED
    BY <2>1 DEF JobType
<1>2. QED
  BY <1>1 DEF LockStart, Types

LEMMA GoesOnFacts ==
  ASSUME Types, NEW t \in Request, Len(job[t].todo) > 1,
         job' = [job EXCEPT ![t].todo = Tail(@)]
  PROVE  /\ job' \in [Request -> JobType]
         /\ job'[t].at = job[t].at /\ job'[t].num = job[t].num
         /\ job'[t].todo = Tail(job[t].todo)
         /\ \A u \in Request : u # t => job'[u] = job[u]
<1>1. job[t] \in JobType
  BY DEF Types
<1>2. Tail(job[t].todo) \in Seq(Field)
  BY <1>1 DEF JobType
<1>3. [job[t] EXCEPT !.todo = Tail(@)] \in JobType
  BY <1>1, <1>2 DEF JobType
<1>4. job' = [job EXCEPT ![t] = [job[t] EXCEPT !.todo = Tail(@)]]
  OBVIOUS
<1>5. QED
  BY <1>1, <1>3, <1>4 DEF Types, JobType

LEMMA TypesInductive ==
  /\ Init => Types
  /\ Types /\ [Next]_vars => Types'
<1>1. Init => Types
  <2>1. [f \in Field |-> 0] \in [Field -> Nat]
    OBVIOUS
  <2>2. [t \in Request |-> Idle] \in [Request -> JobType]
    BY IdleType
  <2> SUFFICES ASSUME Init PROVE Types
    OBVIOUS
  <2>3. state \in [Field -> Nat] /\ job \in [Request -> JobType]
    BY <2>1, <2>2 DEF Init
  <2>4. unlocks \in Nat
    BY DEF Init
  <2>5. mixed \in BOOLEAN
    BY DEF Init
  <2>6. QED
    BY <2>3, <2>4, <2>5 DEF Types
<1>2. ASSUME Types, [Next]_vars PROVE Types'
  <2>1. mixed' \in BOOLEAN
    <3>1. CASE UNCHANGED vars
      BY <1>2, <3>1 DEF vars, Types
    <3>2. Remember => mixed' \in BOOLEAN
      BY DEF Remember
    <3>3. QED
      BY <1>2, <3>1, <3>2
      DEF Next, Step, OpenNext, LockStart, LockNext, TakeSlot, CheckBackoff, DeriveFails,
          Derives, ReadCurrent, SetupCheck, SetPassphrase, AddRecovery, ClockTicks, Restart
  <2>2. ASSUME NEW t \in Request, OpenNext(t) PROVE Types'
    <3>1. job[t].num \in Nat
      BY <1>2 DEF Types, JobType
    <3>2. state' \in [Field -> Nat] /\ unlocks' \in Nat
      BY <1>2, <2>2, <3>1 DEF OpenNext, Types
    <3>3. job' \in [Request -> JobType]
      BY <1>2, <2>2, BecomeFacts, GoesOnFacts DEF OpenNext
    <3>4. QED
      BY <2>1, <3>2, <3>3 DEF Types
  <2>3. ASSUME NEW t \in Request, LockNext(t) PROVE Types'
    <3>1. job' \in [Request -> JobType]
      BY <1>2, <2>3, BecomeFacts, GoesOnFacts DEF LockNext
    <3>2. QED
      BY <1>2, <2>1, <2>3, <3>1 DEF LockNext, Types
  <2>4. ASSUME NEW t \in Request, LockStart(t) PROVE Types'
    BY <1>2, <2>1, <2>4, ClosingFacts DEF LockStart, Types
  <2>5. ASSUME NEW t \in Request, ReadCurrent(t) PROVE Types'
    <3>1. job' \in [Request -> JobType] /\ unlocks' \in Nat
      <4>1. CASE Opening(t, "opening")
        BY <1>2, <4>1, OpeningFacts
      <4>2. CASE Become(t, "idle") /\ UNCHANGED unlocks
        BY <1>2, <4>2, BecomeFacts DEF Types
      <4>3. QED
        BY <2>5, <4>1, <4>2 DEF ReadCurrent
    <3>2. QED
      BY <1>2, <2>1, <2>5, <3>1 DEF ReadCurrent, Types
  <2>6. ASSUME NEW t \in Request, AddRecovery(t) PROVE Types'
    BY <1>2, <2>1, <2>6, OpeningFacts DEF AddRecovery, Types
  <2>7. ASSUME NEW t \in Request,
               \/ TakeSlot(t) \/ CheckBackoff(t) \/ DeriveFails(t) \/ Derives(t)
               \/ SetupCheck(t) \/ SetPassphrase(t)
        PROVE  Types'
    <3>1. /\ UNCHANGED <<state, unlocks>>
          /\ \E p \in {"idle", "checking", "deriving", "derived", "wrapping", "recovering"} :
               Become(t, p)
      BY <2>7 DEF TakeSlot, CheckBackoff, DeriveFails, Derives, SetupCheck, SetPassphrase
    <3>2. job' \in [Request -> JobType]
      BY <1>2, <3>1, BecomeFacts
    <3>3. QED
      BY <1>2, <2>1, <3>1, <3>2 DEF Types
  <2>8. CASE ClockTicks \/ UNCHANGED vars
    BY <1>2, <2>1, <2>8 DEF ClockTicks, Types, vars
  <2>9. CASE Restart
    BY <1>2, <2>1, <2>9, IdleType DEF Restart, Types
  <2>10. QED
    BY <1>2, <2>2, <2>3, <2>4, <2>5, <2>6, <2>7, <2>8, <2>9 DEF Next, Step
<1>3. QED
  BY <1>1, <1>2

-----------------------------------------------------------------------------
(* One derivation slot. *)

(* What a step does for the slot when it writes the state of one request. *)
LEMMA SlotStep ==
  ASSUME SlotInv, NEW t \in Request,
         \A u \in Request : u # t => job'[u] = job[u],
         \/ slot' = slot /\ (job'[t].at \in Holding <=> t \in slot)
         \/ slot' = slot \ {t} /\ job'[t].at \notin Holding
         \/ slot = {} /\ slot' = {t} /\ job'[t].at \in Holding,
         \/ wait' = wait /\ (job'[t].at = "deriving" => wait = 0)
         \/ wait' = 0
         \/ t \in slot /\ job'[t].at # "deriving"
  PROVE  SlotInv'
<1>1. SlotHeld'
  BY DEF SlotInv, SlotHeld
<1>2. GuessesSpaced'
  <2>1. \A u \in Request : job[u].at = "deriving" => wait = 0 /\ u \in slot
    BY DEF SlotInv, SlotHeld, GuessesSpaced, Holding
  <2>2. CASE t \in slot /\ job'[t].at # "deriving"
    BY <2>1, <2>2 DEF SlotInv, SlotHeld, GuessesSpaced
  <2>3. QED
    BY <2>1, <2>2 DEF GuessesSpaced
<1>3. QED
  BY <1>1, <1>2 DEF SlotInv

LEMMA SlotInductive ==
  /\ Init => SlotInv
  /\ Types /\ SlotInv /\ [Next]_vars => SlotInv'
<1>1. Init => SlotInv
  BY IdleType DEF Init, SlotInv, SlotHeld, GuessesSpaced, Holding
<1>2. ASSUME Types, SlotInv, [Next]_vars PROVE SlotInv'
  <2> DEFINE Others(t) == \A u \in Request : u # t => job'[u] = job[u]
  <2>1. \A t \in Request : job[t].at \in Holding <=> t \in slot
    BY <1>2 DEF SlotInv, SlotHeld
  <2>2. ASSUME NEW t \in Request, OpenNext(t) PROVE SlotInv'
    <3>1. CASE Len(job[t].todo) > 1
      <4>1. job'[t].at = job[t].at /\ Others(t) /\ UNCHANGED <<slot, wait>>
        BY <1>2, <2>2, <3>1, GoesOnFacts DEF OpenNext
      <4>2. job[t].at # "deriving"
        BY <2>2 DEF OpenNext
      <4>3. QED
        BY <1>2, <2>1, <4>1, <4>2, SlotStep
    <3>2. CASE ~(Len(job[t].todo) > 1)
      <4>1. /\ job'[t].at = "idle" /\ Others(t) /\ slot' = slot \ {t}
            /\ wait' = 0 \/ wait' = wait
        BY <1>2, <2>2, <3>2, BecomeFacts DEF OpenNext, RecordSuccess
      <4>2. QED
        BY <1>2, <2>1, <4>1, SlotStep DEF Holding
    <3>3. QED
      BY <3>1, <3>2
  <2>3. ASSUME NEW t \in Request, LockNext(t) PROVE SlotInv'
    <3>1. job[t].at = "closing" /\ UNCHANGED <<slot, wait>>
      BY <2>3 DEF LockNext
    <3>2. job'[t].at \in {"closing", "idle"} /\ Others(t)
      BY <1>2, <2>3, <3>1, GoesOnFacts, BecomeFacts DEF LockNext
    <3>3. QED
      BY <1>2, <2>1, <3>1, <3>2, SlotStep DEF Holding
  <2>4. ASSUME NEW t \in Request, LockStart(t) PROVE SlotInv'
    <3>1. job[t].at = "idle" /\ UNCHANGED <<slot, wait>>
      BY <2>4 DEF LockStart
    <3>2. job'[t].at = "closing" /\ Others(t)
      BY <1>2, <2>4, ClosingFacts
    <3>3. QED
      BY <1>2, <2>1, <3>1, <3>2, SlotStep DEF Holding
  <2>5. ASSUME NEW t \in Request, TakeSlot(t) PROVE SlotInv'
    <3>1. slot = {} /\ slot' = {t} /\ wait' = wait /\ Become(t, "checking")
      BY <2>5 DEF TakeSlot
    <3>2. job'[t].at = "checking" /\ Others(t)
      BY <1>2, <3>1, BecomeFacts
    <3>3. QED
      BY <1>2, <3>1, <3>2, SlotStep DEF Holding
  <2>6. ASSUME NEW t \in Request, CheckBackoff(t) PROVE SlotInv'
    <3>1. t \in slot /\ wait' = wait
      BY <2>1, <2>6 DEF CheckBackoff, Holding
    <3>2. \/ wait = 0 /\ Become(t, "deriving") /\ slot' = slot
          \/ Become(t, "idle") /\ slot' = slot \ {t}
      BY <2>6 DEF CheckBackoff
    <3>3. \/ wait = 0 /\ job'[t].at = "deriving" /\ slot' = slot
          \/ job'[t].at = "idle" /\ slot' = slot \ {t}
      BY <1>2, <3>2, BecomeFacts
    <3>4. Others(t)
      BY <1>2, <3>2, BecomeFacts
    <3>5. QED
      BY <1>2, <3>1, <3>3, <3>4, SlotStep DEF Holding
  <2>7. ASSUME NEW t \in Request, DeriveFails(t) PROVE SlotInv'
    <3>1. t \in slot /\ slot' = slot \ {t} /\ Become(t, "idle")
      BY <2>1, <2>7 DEF DeriveFails, Holding
    <3>2. job'[t].at = "idle" /\ Others(t)
      BY <1>2, <3>1, BecomeFacts
    <3>3. QED
      BY <1>2, <3>1, <3>2, SlotStep DEF Holding
  <2>8. ASSUME NEW t \in Request, Derives(t) PROVE SlotInv'
    <3>1. t \in slot /\ slot' = slot /\ Become(t, "derived")
      BY <2>1, <2>8 DEF Derives, Holding
    <3>2. job'[t].at = "derived" /\ Others(t)
      BY <1>2, <3>1, BecomeFacts
    <3>3. QED
      BY <1>2, <3>1, <3>2, SlotStep DEF Holding
  <2>9. ASSUME NEW t \in Request, ReadCurrent(t) PROVE SlotInv'
    <3>1. t \in slot
      BY <2>1, <2>9 DEF ReadCurrent, Holding
    <3>2. CASE Opening(t, "opening") /\ UNCHANGED <<slot, wait>>
      <4>1. job'[t].at = "opening" /\ Others(t)
        BY <1>2, <3>2, OpeningFacts
      <4>2. QED
        BY <1>2, <3>1, <3>2, <4>1, SlotStep DEF Holding
    <3>3. CASE Become(t, "idle") /\ slot' = slot \ {t} /\ wait' = 0
      <4>1. job'[t].at = "idle" /\ Others(t)
        BY <1>2, <3>3, BecomeFacts
      <4>2. QED
        BY <1>2, <3>3, <4>1, SlotStep DEF Holding
    <3>4. QED
      BY <2>9, <3>2, <3>3 DEF ReadCurrent, RecordSuccess
  <2>10. ASSUME NEW t \in Request, SetupCheck(t) \/ SetPassphrase(t) PROVE SlotInv'
    <3>1. /\ job[t].at \in {"idle", "wrapping"} /\ UNCHANGED <<slot, wait>>
          /\ \E p \in {"wrapping", "idle", "recovering"} : Become(t, p)
      BY <2>10 DEF SetupCheck, SetPassphrase
    <3>2. job'[t].at \in {"wrapping", "idle", "recovering"} /\ Others(t)
      BY <1>2, <3>1, BecomeFacts
    <3>3. QED
      BY <1>2, <2>1, <3>1, <3>2, SlotStep DEF Holding
  <2>11. ASSUME NEW t \in Request, AddRecovery(t) PROVE SlotInv'
    <3>1. job[t].at = "recovering" /\ UNCHANGED <<slot, wait>> /\ Opening(t, "starting")
      BY <2>11 DEF AddRecovery
    <3>2. job'[t].at = "starting" /\ Others(t)
      BY <1>2, <3>1, OpeningFacts
    <3>3. QED
      BY <1>2, <2>1, <3>1, <3>2, SlotStep DEF Holding
  <2>12. CASE ClockTicks
    BY <1>2, <2>12 DEF ClockTicks, SlotInv, SlotHeld, GuessesSpaced
  <2>13. CASE Restart
    <3>1. slot' = {} /\ \A t \in Request : job'[t].at = "idle"
      BY <2>13, IdleType DEF Restart
    <3>2. QED
      BY <3>1 DEF SlotInv, SlotHeld, GuessesSpaced, Holding
  <2>14. CASE UNCHANGED vars
    BY <1>2, <2>14 DEF vars, SlotInv, SlotHeld, GuessesSpaced
  <2>15. QED
    BY <1>2, <2>2, <2>3, <2>4, <2>5, <2>6, <2>7, <2>8, <2>9, <2>10, <2>11, <2>12, <2>13,
       <2>14 DEF Next, Step
<1>3. QED
  BY <1>1, <1>2

(* No credential is derived during the backoff of _UnlockGuard: a request   *)
(* that has passed the check cannot be overtaken by the failure of another. *)
THEOREM Spaced == Spec => []GuessesSpaced
<1>1. Types /\ SlotInv => GuessesSpaced
  BY DEF SlotInv
<1>2. QED
  BY <1>1, TypesInductive, SlotInductive, PTL DEF Spec

(* Two unlocks never write the attributes of app.state at the same time:    *)
(* account_unlock reads the key and writes them holding the one slot.       *)
THEOREM OneUnlock == Spec => []UnlocksDoNotOverlap
<1>1. SlotInv => UnlocksDoNotOverlap
  <2> SUFFICES ASSUME SlotInv PROVE UnlocksDoNotOverlap
    OBVIOUS
  <2> DEFINE Open == {t \in Request : job[t].at = "opening"}
  <2>1. Open = {} \/ \E t \in Request : Open = {t}
    BY DEF SlotInv, SlotHeld, Holding
  <2>2. Cardinality(Open) <= 1
    <3>1. CASE Open = {}
      <4>1. Cardinality({}) = 0
        BY FS_EmptySet
      <4>2. QED
        BY <3>1, <4>1
    <3>2. ASSUME NEW t \in Request, Open = {t} PROVE Cardinality(Open) <= 1
      <4>1. Cardinality({t}) = 1
        BY FS_Singleton
      <4>2. QED
        BY <3>2, <4>1
    <3>3. QED
      BY <2>1, <3>1, <3>2
  <2>3. QED
    BY <2>2 DEF UnlocksDoNotOverlap
<1>2. QED
  BY <1>1, TypesInductive, SlotInductive, PTL DEF Spec

-----------------------------------------------------------------------------
(* Bounds: the numbers of the unlocks, the counted failures, the delay.     *)

Bounds ==
  /\ Types
  /\ wraps \subseteq {"passphrase", "recovery"} /\ slot \subseteq Request
  /\ unlocks <= MaxUnlocks
  /\ \A f \in Field : state[f] <= MaxUnlocks
  /\ \A t \in Request : job[t].num <= MaxUnlocks
  /\ failures \in 0..MaxFailures /\ wait \in 0..BackoffMax

(* The powers of two the backoff doubles through. *)
LEMMA DoubledType == Doubled \in [0..MaxFailures -> Nat]
<1> DEFINE step == [p \in (1..MaxFailures) \X Nat |-> 2 * p[2]]
           Own(f) == [k \in 0..MaxFailures |-> IF k = 0 THEN 1 ELSE 2 * f[k - 1]]
<1>1. step \in [(1..MaxFailures) \X Nat -> Nat] /\ MaxFailures \in Nat /\ 1 \in Nat
  BY AccountAssumption
<1>2. PICK f \in [0..MaxFailures -> Nat] : Recursion(f, MaxFailures, 1, step)
  <2> HIDE DEF step
  <2>1. QED
    BY <1>1, RecursionExists
<1>3. \A k \in 0..MaxFailures : k # 0 => k \in 1..MaxFailures /\ k - 1 \in 0..MaxFailures
  BY <1>1
<1>4. f = Own(f)
  <2>1. \A k \in 0..MaxFailures : f[k] = IF k = 0 THEN 1 ELSE step[<<k, f[k - 1]>>]
    BY <1>2 DEF Recursion
  <2>2. \A k \in 0..MaxFailures : f[k] \in Nat
    OBVIOUS
  <2>3. \A k \in 0..MaxFailures : f[k] = IF k = 0 THEN 1 ELSE 2 * f[k - 1]
    BY <1>3, <2>1, <2>2
  <2>4. QED
    BY <2>3
<1>5. Doubled = Own(Doubled)
  BY <1>4 DEF Doubled
<1>6. SUFFICES ASSUME NEW n \in 0..MaxFailures, Doubled[n] \notin Nat PROVE FALSE
  BY <1>5
<1> DEFINE T == {k \in 0..MaxFailures : Doubled[k] \notin Nat}
<1>7. PICK m \in T : \A k \in T : m <= k
  <2>1. T \subseteq Nat /\ T # {}
    BY <1>6
  <2>2. QED
    BY <2>1, LeastNumber
<1>8. m # 0 /\ m \in 0..MaxFailures
  BY <1>5, <1>7
<1>9. m - 1 \in 0..MaxFailures /\ m - 1 \notin T
  BY <1>1, <1>7, <1>8
<1>10. Doubled[m - 1] \in Nat
  BY <1>9
<1>11. Doubled[m] = 2 * Doubled[m - 1]
  BY <1>5, <1>8
<1>12. QED
  BY <1>7, <1>10, <1>11

(* A failure is counted up to the bound, and its delay is within the cap. *)
LEMMA FailureBounds ==
  ASSUME failures \in 0..MaxFailures, wait \in 0..BackoffMax, RecordFailure
  PROVE  failures' \in 0..MaxFailures /\ wait' \in 0..BackoffMax
<1>1. failures' \in 0..MaxFailures
  BY AccountAssumption DEF RecordFailure
<1>2. CASE failures' >= FreeFailures
  <2>1. failures' - FreeFailures \in 0..MaxFailures
    <3>1. FreeFailures \in Nat /\ MaxFailures \in Nat
      BY AccountAssumption
    <3>2. \A n \in 0..MaxFailures : n >= FreeFailures => n - FreeFailures \in 0..MaxFailures
      BY <3>1
    <3>3. QED
      BY <1>1, <1>2, <3>2
  <2>2. Doubled[failures' - FreeFailures] \in Nat
    BY <2>1, DoubledType
  <2>3. Backoff(failures') \in 0..BackoffMax
    BY <2>2, AccountAssumption DEF Backoff
  <2>4. QED
    BY <1>1, <1>2, <2>3 DEF RecordFailure
<1>3. CASE ~(failures' >= FreeFailures)
  BY <1>1, <1>3 DEF RecordFailure
<1>4. QED
  BY <1>2, <1>3

(* A step that writes the state of one request. *)
LEMMA BoundsStep ==
  ASSUME Bounds, Types', NEW t \in Request,
         \A u \in Request : u # t => job'[u] = job[u],
         job'[t].num <= MaxUnlocks,
         wraps' \subseteq {"passphrase", "recovery"}, slot' \subseteq slot \cup {t},
         unlocks' <= MaxUnlocks,
         \A f \in Field : state'[f] <= MaxUnlocks,
         failures' \in 0..MaxFailures /\ wait' \in 0..BackoffMax
  PROVE  Bounds'
BY DEF Bounds

LEMMA BoundsInductive ==
  /\ Init => Bounds
  /\ Bounds /\ [Next]_vars => Bounds'
<1>1. ASSUME Init PROVE Bounds
  <2>1. Types
    BY <1>1, TypesInductive
  <2>2. \A t \in Request : job[t].num = 0
    BY <1>1 DEF Init, Idle
  <2>3. QED
    BY <1>1, <2>1, <2>2, AccountAssumption DEF Init, Bounds
<1>2. ASSUME Bounds, [Next]_vars PROVE Bounds'
  <2>1. Types /\ Types'
    BY <1>2, TypesInductive DEF Bounds
  <2> DEFINE Others(t) == \A u \in Request : u # t => job'[u] = job[u]
             Rest == /\ wraps' = wraps /\ unlocks' = unlocks /\ state' = state
                     /\ failures' = failures /\ wait' = wait
  <2>2. 0 \in 0..BackoffMax /\ 0 \in 0..MaxFailures /\ 0 <= MaxUnlocks
    BY AccountAssumption
  <2>3. \A t \in Request : job[t].num \in Nat /\ job[t].num <= MaxUnlocks
    BY <1>2, <2>1 DEF Bounds, Types, JobType
  <2>4. ASSUME NEW t \in Request, OpenNext(t) PROVE Bounds'
    <3>1. \A f \in Field : state'[f] <= MaxUnlocks
      BY <1>2, <2>1, <2>3, <2>4 DEF OpenNext, Bounds, Types
    <3>2. wraps' = wraps /\ unlocks' = unlocks
      BY <2>4 DEF OpenNext
    <3>3. CASE Len(job[t].todo) > 1
      <4>1. Others(t) /\ job'[t].num = job[t].num
        BY <2>1, <2>4, <3>3, GoesOnFacts DEF OpenNext
      <4>2. slot' = slot /\ failures' = failures /\ wait' = wait
        BY <2>4, <3>3 DEF OpenNext
      <4>3. QED
        BY <1>2, <2>1, <2>3, <3>1, <3>2, <4>1, <4>2, BoundsStep DEF Bounds
    <3>4. CASE ~(Len(job[t].todo) > 1)
      <4>1. Others(t) /\ job'[t].num = 0
        BY <2>1, <2>4, <3>4, BecomeFacts DEF OpenNext
      <4>2. slot' \subseteq slot
        BY <2>4, <3>4 DEF OpenNext
      <4>3. failures' \in 0..MaxFailures /\ wait' \in 0..BackoffMax
        BY <1>2, <2>2, <2>4, <3>4 DEF OpenNext, RecordSuccess, Bounds
      <4>4. QED
        BY <1>2, <2>1, <2>2, <3>1, <3>2, <4>1, <4>2, <4>3, BoundsStep DEF Bounds
    <3>5. QED
      BY <3>3, <3>4
  <2>5. ASSUME NEW t \in Request, LockNext(t) PROVE Bounds'
    <3>1. \A f \in Field : state'[f] <= MaxUnlocks
      BY <1>2, <2>1, <2>2, <2>5 DEF LockNext, Bounds, Types
    <3>2. Others(t) /\ job'[t].num <= MaxUnlocks
      BY <2>1, <2>2, <2>3, <2>5, GoesOnFacts, BecomeFacts DEF LockNext
    <3>3. UNCHANGED <<wraps, unlocks, slot, failures, wait>>
      BY <2>5 DEF LockNext
    <3>4. QED
      BY <1>2, <2>1, <3>1, <3>2, <3>3, BoundsStep DEF Bounds
  <2>6. ASSUME NEW t \in Request, LockStart(t) PROVE Bounds'
    <3>1. Others(t) /\ job'[t].num = 0
      BY <2>1, <2>6, ClosingFacts
    <3>2. Rest /\ slot' = slot
      BY <2>6 DEF LockStart
    <3>3. QED
      BY <1>2, <2>1, <2>2, <3>1, <3>2, BoundsStep DEF Bounds
  <2>7. ASSUME NEW t \in Request, DeriveFails(t) PROVE Bounds'
    <3>1. Others(t) /\ job'[t].num = 0
      BY <2>1, <2>7, BecomeFacts DEF DeriveFails
    <3>2. failures' \in 0..MaxFailures /\ wait' \in 0..BackoffMax
      BY <1>2, <2>7, FailureBounds DEF DeriveFails, Bounds
    <3>3. UNCHANGED <<wraps, state, unlocks>> /\ slot' = slot \ {t}
      BY <2>7 DEF DeriveFails
    <3>4. QED
      BY <1>2, <2>1, <2>2, <3>1, <3>2, <3>3, BoundsStep DEF Bounds
  <2>8. ASSUME NEW t \in Request, ReadCurrent(t) PROVE Bounds'
    <3>1. UNCHANGED <<wraps, state>>
      BY <2>8 DEF ReadCurrent
    <3>2. CASE Opening(t, "opening") /\ UNCHANGED <<slot, failures, wait>>
      <4>1. Others(t) /\ job'[t].num <= MaxUnlocks /\ unlocks' <= MaxUnlocks
        BY <2>1, <3>2, OpeningFacts
      <4>2. QED
        BY <1>2, <2>1, <3>1, <3>2, <4>1, BoundsStep DEF Bounds
    <3>3. CASE Become(t, "idle") /\ slot' = slot \ {t} /\ RecordSuccess /\ UNCHANGED unlocks
      <4>1. Others(t) /\ job'[t].num = 0
        BY <2>1, <3>3, BecomeFacts
      <4>2. QED
        BY <1>2, <2>1, <2>2, <3>1, <3>3, <4>1, BoundsStep DEF Bounds, RecordSuccess
    <3>4. QED
      BY <2>8, <3>2, <3>3 DEF ReadCurrent
  <2>9. ASSUME NEW t \in Request, AddRecovery(t) PROVE Bounds'
    <3>1. Others(t) /\ job'[t].num <= MaxUnlocks /\ unlocks' <= MaxUnlocks
      BY <2>1, <2>9, OpeningFacts DEF AddRecovery
    <3>2. wraps' = wraps \cup {"recovery"} /\ UNCHANGED <<state, slot, failures, wait>>
      BY <2>9 DEF AddRecovery
    <3>3. wraps' \subseteq {"passphrase", "recovery"}
      BY <1>2, <3>2 DEF Bounds
    <3>4. QED
      BY <1>2, <2>1, <3>1, <3>2, <3>3, BoundsStep DEF Bounds
  <2>10. ASSUME NEW t \in Request, SetPassphrase(t) PROVE Bounds'
    <3>1. Others(t) /\ job'[t].num = 0
      BY <2>1, <2>10, BecomeFacts DEF SetPassphrase
    <3>2. wraps' \subseteq {"passphrase", "recovery"}
      BY <1>2, <2>10 DEF SetPassphrase, Bounds
    <3>3. UNCHANGED <<state, unlocks, slot, failures, wait>>
      BY <2>10 DEF SetPassphrase
    <3>4. QED
      BY <1>2, <2>1, <2>2, <3>1, <3>2, <3>3, BoundsStep DEF Bounds
  <2>11. ASSUME NEW t \in Request,
                TakeSlot(t) \/ CheckBackoff(t) \/ Derives(t) \/ SetupCheck(t)
         PROVE  Bounds'
    <3>1. \E p \in {"idle", "checking", "deriving", "derived", "wrapping", "recovering"} :
            Become(t, p)
      BY <2>11 DEF TakeSlot, CheckBackoff, Derives, SetupCheck
    <3>2. Others(t) /\ job'[t].num = 0
      BY <2>1, <3>1, BecomeFacts
    <3>3. Rest /\ slot' \subseteq slot \cup {t}
      BY <2>11 DEF TakeSlot, CheckBackoff, Derives, SetupCheck
    <3>4. QED
      BY <1>2, <2>1, <2>2, <3>2, <3>3, BoundsStep DEF Bounds
  <2>12. CASE ClockTicks
    <3>1. wait' \in 0..BackoffMax
      BY <1>2, <2>12, AccountAssumption DEF ClockTicks, Bounds
    <3>2. QED
      BY <1>2, <2>1, <2>12, <3>1 DEF ClockTicks, Bounds
  <2>13. CASE Restart
    <3>1. \A t \in Request : job'[t].num = 0
      BY <2>13 DEF Restart, Idle
    <3>2. \A f \in Field : state'[f] = 0
      BY <2>13 DEF Restart
    <3>3. QED
      BY <1>2, <2>1, <2>2, <2>13, <3>1, <3>2 DEF Restart, Bounds
  <2>14. CASE UNCHANGED vars
    BY <1>2, <2>1, <2>14 DEF vars, Bounds
  <2>15. QED
    BY <1>2, <2>4, <2>5, <2>6, <2>7, <2>8, <2>9, <2>10, <2>11, <2>12, <2>13, <2>14
    DEF Next, Step
<1>3. QED
  BY <1>1, <1>2

(* Types of every reachable state, the limits of the throttle among them:   *)
(* _UnlockGuard counts up to _MAX_COUNTED_FAILURES, its delay stays within   *)
(* _BACKOFF_MAX_S however often the base doubles, one request at most holds  *)
(* the derivation slot, and key_wraps has the two methods it may have.      *)
THEOREM Typing == Spec => []TypeOK
<1>1. Bounds /\ SlotInv => TypeOK
  <2> SUFFICES ASSUME Bounds, SlotInv PROVE TypeOK
    OBVIOUS
  <2>1. state \in [Field -> 0..MaxUnlocks] /\ unlocks \in 0..MaxUnlocks
    BY AccountAssumption DEF Bounds, Types
  <2>2. Cardinality(slot) <= 1
    <3>1. slot = {} \/ \E t \in Request : slot = {t}
      BY DEF SlotInv, SlotHeld
    <3>2. Cardinality({}) = 0
      BY FS_EmptySet
    <3>3. ASSUME NEW t \in Request, slot = {t} PROVE Cardinality(slot) <= 1
      <4>1. Cardinality({t}) = 1
        BY FS_Singleton
      <4>2. QED
        BY <3>3, <4>1
    <3>4. QED
      BY <3>1, <3>2, <3>3
  <2>3. job \in [Request -> Job]
    <3>1. \A t \in Request : job[t] \in JobType /\ job[t].num \in 0..MaxUnlocks
      BY AccountAssumption DEF Bounds, Types, JobType
    <3>2. \A t \in Request : job[t] \in Job
      BY <3>1 DEF JobType, Job
    <3>3. QED
      BY <3>2 DEF Bounds, Types
  <2>4. QED
    BY <2>1, <2>2, <2>3 DEF Bounds, Types, TypeOK
<1>2. Bounds => Types
  BY DEF Bounds
<1>3. QED
  BY <1>1, <1>2, BoundsInductive, SlotInductive, PTL DEF Spec

-----------------------------------------------------------------------------
(* Locks and unlocks that keep apart. *)

LEMMA Counting ==
  \A n \in 1..8 : /\ n > 1 \/ n = 1
                  /\ ~(n > 1 /\ n = 1)
                  /\ n > 1 => n - 1 \in 1..8
                  /\ 9 - n \in 1..8
                  /\ n = 1 => 9 - n = 8
                  /\ \A k \in 1..(9 - n) : k = 9 - n \/ k \in 1..(8 - n)
                  /\ \A k \in 1..(8 - n) : k \in 1..8
OBVIOUS

LEMMA RestFacts ==
  ASSUME NEW todo, NEW order, IsRest(todo, order)
  PROVE  /\ todo \in Seq(Field) /\ Len(todo) \in 1..8
         /\ Head(todo) = order[9 - Len(todo)]
         /\ Len(todo) > 1 => IsRest(Tail(todo), order) /\ Len(Tail(todo)) = Len(todo) - 1
<1>1. todo \in Seq(Field) /\ Len(todo) \in 1..8
  BY DEF IsRest
<1>2. Head(todo) = todo[1] /\ todo[1] = order[8 - Len(todo) + 1]
  BY <1>1 DEF IsRest
<1>3. ASSUME Len(todo) > 1
      PROVE  IsRest(Tail(todo), order) /\ Len(Tail(todo)) = Len(todo) - 1
  <2>1. /\ Tail(todo) \in Seq(Field) /\ Len(Tail(todo)) = Len(todo) - 1
        /\ \A k \in 1..(Len(todo) - 1) : Tail(todo)[k] = todo[k + 1]
    BY <1>1, <1>3
  <2>2. \A k \in 1..(Len(todo) - 1) : todo[k + 1] = order[8 - Len(todo) + (k + 1)]
    BY <1>1 DEF IsRest
  <2>3. \A k \in 1..(Len(todo) - 1) : 8 - Len(todo) + (k + 1) = 8 - (Len(todo) - 1) + k
    BY <1>1
  <2>4. Len(todo) - 1 \in 1..8
    BY <1>1, <1>3, Counting
  <2>5. \A k \in 1..(Len(todo) - 1) : Tail(todo)[k] = order[8 - (Len(todo) - 1) + k]
    BY <2>1, <2>2, <2>3
  <2>6. QED
    BY <2>1, <2>4, <2>5 DEF IsRest
<1>4. QED
  BY <1>1, <1>2, <1>3

LEMMA WholeOrder ==
  IsRest(UnlockOrder, UnlockOrder) /\ IsRest(LockOrder, LockOrder)
BY FieldFacts DEF IsRest

(* The places that matter: the key is written first, the kb after the vaults *)
(* store and cleared before it.                                             *)
LEMMA Places ==
  /\ UnlockOrder[1] = "master_key" /\ UnlockOrder[3] = "vaults" /\ LockOrder[3] = "kb"
  /\ \A n \in 1..8 : /\ 1 \in 1..(9 - n)
                     /\ UnlockOrder[9 - n] = "kb" => 3 \in 1..(9 - n)
                     /\ LockOrder[9 - n] = "vaults" => 3 \in 1..(9 - n)
<1>1. UnlockOrder[1] = "master_key" /\ UnlockOrder[3] = "vaults" /\ LockOrder[3] = "kb"
  BY DEF UnlockOrder, LockOrder
<1>2. \A k \in 1..8 : UnlockOrder[k] = "kb" \/ LockOrder[k] = "vaults" => 3 \in 1..k
  BY DEF UnlockOrder, LockOrder
<1>3. \A n \in 1..8 : 9 - n \in 1..8 /\ 1 \in 1..(9 - n)
  OBVIOUS
<1>4. QED
  BY <1>1, <1>2, <1>3

(* Once nothing is written and nothing is left, a past overlap is forgotten. *)
LEMMA CalmStep ==
  ASSUME Remember, ~mixed', ~mixed /\ ~Overlap' => Apart'
  PROVE  Apart'
<1>1. ~Overlap'
  BY DEF Remember
<1>2. CASE ~mixed
  BY <1>1, <1>2
<1>3. CASE Quiet' /\ AllClear'
  <2>1. \A t \in Request : job'[t].at = "idle"
    BY <1>3 DEF Quiet
  <2>2. "kb" \in Field
    BY FieldFacts
  <2>3. QED
    BY <1>1, <1>3, <2>1, <2>2 DEF Apart, Writing, Clearing, AllClear
<1>4. QED
  BY <1>2, <1>3 DEF Remember

(* A request that writes no attribute. *)
LEMMA NeutralStep ==
  ASSUME StateInv, NEW t \in Request, Remember, state' = state,
         \A u \in Request : u # t => job'[u] = job[u],
         ~Clearing(t),
         \/ ~Writing(t)' /\ ~Clearing(t)'
         \/ Writing(t)' /\ ~Clearing(t)' /\ job'[t].todo = UnlockOrder /\ job'[t].num # 0
         \/ Clearing(t)' /\ ~Writing(t)' /\ job'[t].todo = LockOrder
  PROVE  Orders' /\ (~mixed' => Apart')
<1>1. Len(UnlockOrder) = 8 /\ Len(LockOrder) = 8
  BY FieldFacts
<1>2. Orders'
  BY WholeOrder DEF StateInv, Orders, Writing, Clearing
<1>3. ASSUME ~mixed, ~Overlap' PROVE Apart'
  <2>1. Apart
    BY <1>3 DEF StateInv
  <2>2. \A u \in Request : Writing(u)' =>
          \A k \in 1..Passed(u)' : state'[UnlockOrder[k]] # 0
    <3> SUFFICES ASSUME NEW u \in Request, Writing(u)', NEW k \in 1..Passed(u)'
                 PROVE  state'[UnlockOrder[k]] # 0
      OBVIOUS
    <3>1. CASE u = t
      <4>1. job'[t].todo = UnlockOrder
        BY <3>1 DEF Writing, Clearing
      <4>2. Passed(t)' = 0
        BY <1>1, <4>1 DEF Passed
      <4>3. QED
        BY <3>1, <4>2
    <3>2. CASE u # t
      BY <2>1, <3>2 DEF Apart, Writing, Passed
    <3>3. QED
      BY <3>1, <3>2
  <2>3. \A u \in Request : Clearing(u)' =>
          \A k \in 1..Passed(u)' : state'[LockOrder[k]] = 0
    <3> SUFFICES ASSUME NEW u \in Request, Clearing(u)', NEW k \in 1..Passed(u)'
                 PROVE  state'[LockOrder[k]] = 0
      OBVIOUS
    <3>1. CASE u = t
      <4>1. job'[t].todo = LockOrder
        BY <3>1 DEF Writing, Clearing
      <4>2. Passed(t)' = 0
        BY <1>1, <4>1 DEF Passed
      <4>3. QED
        BY <3>1, <4>2
    <3>2. CASE u # t
      BY <2>1, <3>2 DEF Apart, Clearing, Passed
    <3>3. QED
      BY <3>1, <3>2
  <2>4. (\E u \in Request : Clearing(u)) => \E u \in Request : Clearing(u)'
    BY DEF Clearing
  <2>5. AllClear' <=> AllClear
    BY DEF AllClear
  <2>6. QED
    BY <1>3, <2>1, <2>2, <2>3, <2>4, <2>5 DEF Apart
<1>4. QED
  BY <1>2, <1>3, CalmStep

LEMMA OpenStep ==
  ASSUME StateInv, NEW t \in Request, OpenNext(t)
  PROVE  Orders' /\ (~mixed' => Apart')
<1> DEFINE todo == job[t].todo
           n == Len(todo)
           f == Head(todo)
<1>1. Types /\ Writing(t) /\ IsRest(todo, UnlockOrder) /\ job[t].num \in Nat \ {0}
  BY DEF StateInv, Orders, OpenNext, Writing, Types, JobType
<1>2. n \in 1..8 /\ f = UnlockOrder[9 - n] /\ (n > 1 \/ n = 1) /\ 9 - n \in 1..8 /\ f \in Field
  <2>1. n \in 1..8 /\ f = UnlockOrder[9 - n]
    BY <1>1, RestFacts
  <2>2. (n > 1 \/ n = 1) /\ 9 - n \in 1..8
    BY <2>1, Counting
  <2>3. QED
    BY <2>1, <2>2, FieldFacts
<1>3. /\ \A u \in Request : u # t => job'[u] = job[u]
      /\ \/ n > 1 /\ job'[t].at = job[t].at /\ job'[t].num = job[t].num
               /\ job'[t].todo = Tail(todo)
         \/ n = 1 /\ job'[t].at = "idle"
  <2>1. CASE n > 1
    BY <1>1, <1>2, <2>1, GoesOnFacts DEF OpenNext
  <2>2. CASE n = 1
    BY <1>1, <1>2, <2>2, BecomeFacts DEF OpenNext
  <2>3. QED
    BY <1>2, <2>1, <2>2
<1>4. Orders'
  <2>1. n > 1 => IsRest(Tail(todo), UnlockOrder)
    BY <1>1, RestFacts
  <2>2. QED
    BY <1>1, <1>3, <2>1 DEF StateInv, Orders, Writing, Clearing
<1>5. ASSUME ~mixed, ~Overlap' PROVE Apart'
  <2>1. Apart
    BY <1>5 DEF StateInv
  <2>2. \A u \in Request : ~Clearing(u) /\ ~Clearing(u)'
    BY <1>1, <1>3, <2>1 DEF Apart, Overlap, Clearing, Writing
  <2>3. state'[f] # 0 /\ \A g \in Field : state[g] # 0 => state'[g] # 0
    BY <1>1, <1>2 DEF OpenNext, Types
  <2>4. \A k \in 1..(8 - n) : state[UnlockOrder[k]] # 0
    BY <1>1, <2>1 DEF Apart, Passed
  <2>5. \A k \in 1..(9 - n) : state'[UnlockOrder[k]] # 0
    <3> SUFFICES ASSUME NEW k \in 1..(9 - n) PROVE state'[UnlockOrder[k]] # 0
      OBVIOUS
    <3>1. CASE k = 9 - n
      BY <1>2, <2>3, <3>1
    <3>2. CASE k # 9 - n
      <4>1. k \in 1..(8 - n) /\ k \in 1..8
        BY <1>2, <3>2, Counting
      <4>2. QED
        BY <2>3, <2>4, <4>1, FieldFacts
    <3>3. QED
      BY <3>1, <3>2
  <2>6. \A u \in Request : Writing(u)' =>
          \A k \in 1..Passed(u)' : state'[UnlockOrder[k]] # 0
    <3> SUFFICES ASSUME NEW u \in Request, Writing(u)', NEW k \in 1..Passed(u)'
                 PROVE  state'[UnlockOrder[k]] # 0
      OBVIOUS
    <3>1. CASE u = t
      <4>1. n > 1 /\ job'[t].todo = Tail(todo)
        BY <1>3, <3>1 DEF Writing
      <4>2. Len(Tail(todo)) = n - 1
        BY <1>1, <4>1, RestFacts
      <4>3. k \in 1..(9 - n)
        BY <1>2, <3>1, <4>1, <4>2 DEF Passed
      <4>4. QED
        BY <2>5, <4>3
    <3>2. CASE u # t
      <4>1. job'[u] = job[u] /\ Writing(u) /\ k \in 1..Passed(u)
        BY <1>3, <3>2 DEF Writing, Passed
      <4>2. IsRest(job[u].todo, UnlockOrder)
        BY <4>1 DEF StateInv, Orders
      <4>3. k \in 1..8
        BY <4>1, <4>2, RestFacts DEF Passed
      <4>4. QED
        BY <2>1, <2>3, <4>1, <4>3, FieldFacts DEF Apart
    <3>3. QED
      BY <3>1, <3>2
  <2>7. state'["kb"] # 0 => state'["vaults"] # 0
    <3>1. CASE f = "kb"
      <4>1. UnlockOrder[3] = "vaults" /\ 3 \in 1..(9 - n)
        BY <1>2, <3>1, Places
      <4>2. QED
        BY <2>5, <4>1
    <3>2. CASE f # "kb"
      <4>1. state'["kb"] = state["kb"] /\ "vaults" \in Field
        BY <1>1, <3>2, FieldFacts DEF OpenNext, Types
      <4>2. QED
        BY <2>1, <2>3, <4>1 DEF Apart
    <3>3. QED
      BY <3>1, <3>2
  <2>8. state'["master_key"] # 0
    <3>1. UnlockOrder[1] = "master_key" /\ 1 \in 1..(9 - n)
      BY <1>2, Places
    <3>2. QED
      BY <2>5, <3>1
  <2>9. QED
    BY <1>5, <2>2, <2>6, <2>7, <2>8 DEF Apart
<1>6. QED
  BY <1>4, <1>5, CalmStep DEF OpenNext

LEMMA CloseStep ==
  ASSUME StateInv, NEW t \in Request, LockNext(t)
  PROVE  Orders' /\ (~mixed' => Apart')
<1> DEFINE todo == job[t].todo
           n == Len(todo)
           f == Head(todo)
<1>1. Types /\ Clearing(t) /\ IsRest(todo, LockOrder)
  BY DEF StateInv, Orders, LockNext, Clearing
<1>2. n \in 1..8 /\ f = LockOrder[9 - n] /\ (n > 1 \/ n = 1) /\ 9 - n \in 1..8 /\ f \in Field
  <2>1. n \in 1..8 /\ f = LockOrder[9 - n]
    BY <1>1, RestFacts
  <2>2. (n > 1 \/ n = 1) /\ 9 - n \in 1..8
    BY <2>1, Counting
  <2>3. QED
    BY <2>1, <2>2, FieldFacts
<1>3. /\ \A u \in Request : u # t => job'[u] = job[u]
      /\ \/ n > 1 /\ job'[t].at = "closing" /\ job'[t].todo = Tail(todo)
         \/ n = 1 /\ job'[t].at = "idle"
  <2>1. CASE n > 1
    BY <1>1, <1>2, <2>1, GoesOnFacts DEF LockNext, Clearing
  <2>2. CASE n = 1
    BY <1>1, <1>2, <2>2, BecomeFacts DEF LockNext
  <2>3. QED
    BY <1>2, <2>1, <2>2
<1>4. Orders'
  <2>1. n > 1 => IsRest(Tail(todo), LockOrder)
    BY <1>1, RestFacts
  <2>2. QED
    BY <1>1, <1>3, <2>1 DEF StateInv, Orders, Writing, Clearing
<1>5. ASSUME ~mixed, ~Overlap' PROVE Apart'
  <2>1. Apart
    BY <1>5 DEF StateInv
  <2>2. \A u \in Request : ~Writing(u)'
    BY <1>1, <1>3, <2>1 DEF Apart, Overlap, Clearing, Writing
  <2>3. state'[f] = 0 /\ \A g \in Field : state[g] = 0 => state'[g] = 0
    BY <1>1, <1>2 DEF LockNext, Types
  <2>4. \A k \in 1..(8 - n) : state[LockOrder[k]] = 0
    BY <1>1, <2>1 DEF Apart, Passed
  <2>5. \A k \in 1..(9 - n) : state'[LockOrder[k]] = 0
    <3> SUFFICES ASSUME NEW k \in 1..(9 - n) PROVE state'[LockOrder[k]] = 0
      OBVIOUS
    <3>1. CASE k = 9 - n
      BY <1>2, <2>3, <3>1
    <3>2. CASE k # 9 - n
      <4>1. k \in 1..(8 - n) /\ k \in 1..8
        BY <1>2, <3>2, Counting
      <4>2. LockOrder[k] \in Field /\ state[LockOrder[k]] = 0
        BY <2>4, <4>1, FieldFacts
      <4>3. QED
        BY <2>3, <4>2
    <3>3. QED
      BY <3>1, <3>2
  <2>6. \A u \in Request : Clearing(u)' =>
          \A k \in 1..Passed(u)' : state'[LockOrder[k]] = 0
    <3> SUFFICES ASSUME NEW u \in Request, Clearing(u)', NEW k \in 1..Passed(u)'
                 PROVE  state'[LockOrder[k]] = 0
      OBVIOUS
    <3>1. CASE u = t
      <4>1. n > 1 /\ job'[t].todo = Tail(todo)
        BY <1>3, <3>1 DEF Clearing
      <4>2. Len(Tail(todo)) = n - 1
        BY <1>1, <4>1, RestFacts
      <4>3. k \in 1..(9 - n)
        BY <1>2, <3>1, <4>1, <4>2 DEF Passed
      <4>4. QED
        BY <2>5, <4>3
    <3>2. CASE u # t
      <4>1. job'[u] = job[u] /\ Clearing(u) /\ k \in 1..Passed(u)
        BY <1>3, <3>2 DEF Clearing, Passed
      <4>2. IsRest(job[u].todo, LockOrder)
        BY <4>1 DEF StateInv, Orders
      <4>3. k \in 1..8
        BY <4>1, <4>2, RestFacts DEF Passed
      <4>4. QED
        BY <2>1, <2>3, <4>1, <4>3, FieldFacts DEF Apart
    <3>3. QED
      BY <3>1, <3>2
  <2>7. state'["kb"] # 0 => state'["vaults"] # 0
    <3>1. CASE f = "vaults"
      <4>1. LockOrder[3] = "kb" /\ 3 \in 1..(9 - n)
        BY <1>2, <3>1, Places
      <4>2. QED
        BY <2>5, <4>1
    <3>2. CASE f # "vaults"
      <4>1. state'["vaults"] = state["vaults"] /\ "kb" \in Field
        BY <1>1, <3>2, FieldFacts DEF LockNext, Types
      <4>2. QED
        BY <2>1, <2>3, <4>1 DEF Apart
    <3>3. QED
      BY <3>1, <3>2
  <2>8. (\E u \in Request : Clearing(u)') \/ AllClear'
    <3>1. CASE n > 1
      <4>1. Clearing(t)'
        BY <1>2, <1>3, <3>1, Counting DEF Clearing
      <4>2. QED
        BY <4>1
    <3>2. CASE n = 1
      <4>1. \A k \in 1..8 : state'[LockOrder[k]] = 0
        BY <1>2, <2>5, <3>2, Counting
      <4>2. QED
        BY <4>1, FieldFacts DEF AllClear
    <3>3. QED
      BY <1>2, <3>1, <3>2
  <2>9. QED
    BY <1>5, <2>2, <2>6, <2>7, <2>8 DEF Apart
<1>6. QED
  BY <1>4, <1>5, CalmStep DEF LockNext

LEMMA StateInductive ==
  /\ Init => StateInv
  /\ StateInv /\ [Next]_vars => StateInv'
<1>1. ASSUME Init PROVE StateInv
  <2>1. /\ \A t \in Request : job[t].at = "idle"
        /\ \A f \in Field : state[f] = 0
    BY <1>1, IdleType DEF Init
  <2>2. Orders
    BY <2>1 DEF Orders, Writing, Clearing
  <2>3. Apart
    <3>1. "kb" \in Field
      BY FieldFacts
    <3>2. QED
      BY <2>1, <3>1 DEF Apart, Overlap, Writing, Clearing, AllClear
  <2>4. QED
    BY <1>1, <2>2, <2>3, TypesInductive DEF StateInv
<1>2. ASSUME StateInv, [Next]_vars PROVE StateInv'
  <2> DEFINE Goal == Orders' /\ (~mixed' => Apart')
             Others(t) == \A u \in Request : u # t => job'[u] = job[u]
  <2>1. Types /\ Types'
    BY <1>2, TypesInductive DEF StateInv
  <2>2. ASSUME NEW t \in Request, OpenNext(t) PROVE Goal
    BY <1>2, <2>2, OpenStep
  <2>3. ASSUME NEW t \in Request, LockNext(t) PROVE Goal
    BY <1>2, <2>3, CloseStep
  <2>4. ASSUME NEW t \in Request, LockStart(t) PROVE Goal
    <3>1. /\ job'[t].at = "closing" /\ job'[t].todo = LockOrder /\ Others(t)
          /\ job[t].at = "idle" /\ state' = state /\ Remember
      BY <2>1, <2>4, ClosingFacts DEF LockStart
    <3>2. QED
      BY <1>2, <3>1, NeutralStep DEF Writing, Clearing
  <2>5. ASSUME NEW t \in Request, NEW p \in {"opening", "starting"}, Opening(t, p),
               job[t].at # "closing", state' = state, Remember
        PROVE  Goal
    <3>1. job'[t].at = p /\ job'[t].todo = UnlockOrder /\ job'[t].num # 0 /\ Others(t)
      BY <2>1, <2>5, OpeningFacts
    <3>2. QED
      BY <1>2, <2>5, <3>1, NeutralStep DEF Writing, Clearing
  <2>6. ASSUME NEW t \in Request,
               NEW p \in {"idle", "checking", "deriving", "derived", "wrapping", "recovering"},
               Become(t, p), job[t].at # "closing", state' = state, Remember
        PROVE  Goal
    <3>1. job'[t].at = p /\ Others(t)
      BY <2>1, <2>6, BecomeFacts
    <3>2. QED
      BY <1>2, <2>6, <3>1, NeutralStep DEF Writing, Clearing
  <2>7. ASSUME NEW t \in Request,
               \/ TakeSlot(t) \/ CheckBackoff(t) \/ DeriveFails(t) \/ Derives(t)
               \/ SetupCheck(t) \/ SetPassphrase(t)
        PROVE  Goal
    <3>1. /\ job[t].at # "closing" /\ state' = state /\ Remember
          /\ \E p \in {"idle", "checking", "deriving", "derived", "wrapping", "recovering"} :
               Become(t, p)
      BY <2>7 DEF TakeSlot, CheckBackoff, DeriveFails, Derives, SetupCheck, SetPassphrase
    <3>2. QED
      BY <2>6, <3>1
  <2>8. ASSUME NEW t \in Request, ReadCurrent(t) PROVE Goal
    <3>1. /\ job[t].at # "closing" /\ state' = state /\ Remember
          /\ Opening(t, "opening") \/ Become(t, "idle")
      BY <2>8 DEF ReadCurrent
    <3>2. QED
      BY <2>5, <2>6, <3>1
  <2>9. ASSUME NEW t \in Request, AddRecovery(t) PROVE Goal
    BY <2>5, <2>9 DEF AddRecovery
  <2>10. ASSUME ClockTicks PROVE Goal
    <3>1. job' = job /\ state' = state /\ Remember
      BY <2>10 DEF ClockTicks
    <3>2. Orders'
      BY <1>2, <3>1 DEF StateInv, Orders, Writing, Clearing
    <3>3. ~mixed => Apart'
      BY <1>2, <3>1 DEF StateInv, Apart, Overlap, Writing, Clearing, Passed, AllClear
    <3>4. QED
      BY <3>1, <3>2, <3>3, CalmStep
  <2>11. ASSUME Restart PROVE Goal
    <3>1. /\ \A t \in Request : job'[t].at = "idle"
          /\ \A f \in Field : state'[f] = 0
      BY <2>11, IdleType DEF Restart
    <3>2. "kb" \in Field
      BY FieldFacts
    <3>3. Orders' /\ Apart'
      BY <3>1, <3>2 DEF Orders, Apart, Overlap, Writing, Clearing, AllClear
    <3>4. QED
      BY <3>3
  <2>12. ASSUME UNCHANGED vars PROVE Goal
    <3>1. job' = job /\ state' = state /\ mixed' = mixed
      BY <2>12 DEF vars
    <3>2. QED
      BY <1>2, <3>1
      DEF StateInv, Orders, Apart, Overlap, Writing, Clearing, Passed, AllClear
  <2>13. Goal
    BY <1>2, <2>2, <2>3, <2>4, <2>7, <2>8, <2>9, <2>10, <2>11, <2>12 DEF Next, Step
  <2>14. QED
    BY <2>1, <2>13 DEF StateInv
<1>3. QED
  BY <1>1, <1>2

(* Fail-closed: _set_unlocked writes the vaults store before the kb and     *)
(* account_lock clears it after, so, however many setups or unlocks, or     *)
(* locks, interleave, nobody finds a kb without its provenance tags.       *)
THEOREM FailClosed == Spec => []FailClosedAlone
<1>1. StateInv => FailClosedAlone
  BY DEF StateInv, Apart, FailClosedAlone
<1>2. QED
  BY <1>1, StateInductive, PTL DEF Spec

(* account_lock forgets no attribute: once nobody writes, an application    *)
(* without its key holds no store either, whatever interleaved.            *)
THEOREM LockComplete == Spec => []LockDropsAll
<1>1. StateInv => LockDropsAll
  BY DEF StateInv, Apart, LockDropsAll, Quiet, Clearing
<1>2. QED
  BY <1>1, StateInductive, PTL DEF Spec
=============================================================================
