---------------------------- MODULE NiFlow_proofs ----------------------------
(***************************************************************************)
(* Safety of the flow engine for every number of cards, requests, workers  *)
(* and rows.  The invariant says what a thread may hold between its two    *)
(* halves (a typed record, a stage to go to), that a card that does not    *)
(* exist yet has no record, no worker and at most one request that makes   *)
(* it, and that a request clears a slot only after it looked for a stop.   *)
(***************************************************************************)
EXTENDS NiFlow, FiniteSetTheorems, TLAPS

Stage == {"enter", "intent", "locate", "pick", "sample", "fetch", "map",
          "finalize", "store", "land", "end", "stop", "done"}
WorkerType == [at : {"none", "write"} \cup Stage, build : 0..MaxTaps, put : Record,
               next : {"none"} \cup Stage]
TapType == [at : {"rewrite", "start", "fail"}, kind : Kinds, item : Item, held : Record,
            id : 1..MaxTaps, out : BOOLEAN]
SweepType == [at : {"check"}, item : Item] \cup [at : {"fail"}, item : Item, held : Record]

(* What the variables hold. *)
Typed ==
  /\ rec \in [Item -> Record]
  /\ card \in [Item -> [kind : {"none", "shell", "card"}, by : 0..MaxTaps]]
  /\ worker \in [Item -> WorkerType]
  /\ tap \in [Tap -> {NoTap} \cup TapType]
  /\ sweep \in {NoSweep} \cup SweepType
  /\ taps \in 0..MaxTaps /\ crashes \in 0..MaxCrashes /\ stopped \subseteq 1..MaxTaps
  /\ \A i \in Item : /\ worker[i].at = "write" => worker[i].next # "none"
                     /\ worker[i].at # "none" => worker[i].build # 0

(* _INFLIGHT holds the cards that have a worker, and no more than its cap. *)
Claims ==
  /\ inflight = {i \in Item : worker[i].at # "none"}
  /\ IsFiniteSet(inflight) /\ Cardinality(inflight) <= MaxConcurrent

(* A request that clears a slot looked: no stopped worker was out. *)
ClearsLooked ==
  \A q \in Tap : (tap[q].at = "rewrite" /\ tap[q].kind = "clear")
                   => ~(tap[q].held.cancel /\ tap[q].out)

(* A card that is not there yet: nothing is, but one request that makes it.*)
Makes(q, i) == tap[q].at = "rewrite" /\ tap[q].kind = "new" /\ tap[q].item = i
NothingYet ==
  /\ \A i \in Item : card[i].kind = "none" =>
       /\ rec[i] = NoRec /\ worker[i].at = "none"
       /\ sweep.at # "idle" => sweep.item # i
       /\ \A q \in Tap : (tap[q].at # "idle" /\ tap[q].item = i) => Makes(q, i)
  /\ \A q \in Tap, i \in Item : Makes(q, i) => card[i].kind = "none"
  /\ \A p, q \in Tap, i \in Item : Makes(p, i) /\ Makes(q, i) => p = q

IInv == Typed /\ Claims /\ ClearsLooked /\ NothingYet

-----------------------------------------------------------------------------
(* What the record operators return. *)

FlowState == {"none", "ready", "failed", "unsupported", "declined", "awaiting_access",
              "awaiting_credential", "awaiting_params", "intent", "source", "sampling",
              "mapping", "assembling"}
Mark == {"none", "pick", "ask"}

LEMMA RecordType ==
  Record = [state : FlowState, mark : Mark, cancel : BOOLEAN, remap : BOOLEAN,
            auto : BOOLEAN, rows : 0..Rows, old : BOOLEAN]
<1>1. {"none", "ready"} \cup Terminal \cup Awaiting \cup Busy = FlowState
  BY DEF Terminal, Awaiting, Busy, FlowState
<1>2. QED
  BY <1>1 DEF Record, Mark

LEMMA FreshType ==
  ASSUME NEW s \in FlowState, NEW m \in Mark
  PROVE  Fresh(s, m) \in Record
BY NiFlowAssumption, RecordType DEF Fresh

LEMMA ToType ==
  ASSUME NEW r \in Record, NEW s \in FlowState, NEW m \in Mark
  PROVE  /\ To(r, s, m) \in Record
         /\ To(r, s, m).cancel = r.cancel /\ To(r, s, m).rows = r.rows
BY RecordType DEF To

LEMMA NoRecType == NoRec \in Record /\ NoRec.cancel = FALSE
BY FreshType DEF NoRec, Fresh, FlowState, Mark

LEMMA StoredType ==
  ASSUME NEW old \in Record, NEW new \in Record, NEW revive \in BOOLEAN
  PROVE  /\ Stored(old, new, revive) \in Record
         /\ old.cancel /\ ~revive => Stored(old, new, revive).cancel
BY DEF Stored, Record

LEMMA DroppedType ==
  ASSUME NEW r \in Record, r.rows # 0
  PROVE  Dropped(r) \in Record
<1>1. To(r, "source", "pick") \in Record /\ To(r, "source", "pick").rows = r.rows
  BY ToType DEF FlowState, Mark
<1>2. r.rows - 1 \in 0..Rows
  BY NiFlowAssumption, RecordType
<1>3. QED
  BY <1>1, <1>2, RecordType DEF Dropped

(* Whatever a stage writes is a record, and the build goes on to a stage.  *)
LEMMA StageWritesType ==
  ASSUME NEW r \in Record, NEW at, NEW o \in StageWrites(at, r)
  PROVE  o.put \in Record /\ o.next \in Stage
<1> DEFINE OK(x) == x.put \in Record /\ x.next \in Stage
<1>1. \A w \in Record, n \in Stage : OK(Then(w, n))
  BY DEF Then
<1>2. \A s \in FlowState, m \in Mark : To(r, s, m) \in Record
  BY ToType
<1> HIDE DEF OK
<1> USE DEF FlowState, Mark, Stage
<1>3. \A x \in Ends(r) : OK(x)
  BY <1>1, <1>2 DEF Ends
<1>4. \A x \in Asks(r) : OK(x)
  BY <1>1, <1>2 DEF Asks
<1>5. \A x \in Waits(r) : OK(x)
  BY <1>1, <1>2 DEF Waits
<1>6. \A x \in MovesOn(r) : OK(x)
  BY <1>1, DroppedType DEF MovesOn
<1>7. \A x \in Entering(r) : OK(x)
  BY <1>1, <1>2, <1>4 DEF Entering
<1>8. \A x \in Locating(r) : OK(x)
  <2>1. \A n \in 1..Rows : [To(r, "source", "none") EXCEPT !.rows = n, !.auto = TRUE] \in Record
    <3> TAKE n \in 1..Rows
    <3>1. n \in 0..Rows
      BY NiFlowAssumption
    <3>2. To(r, "source", "none") \in Record
      BY <1>2
    <3>3. QED
      BY <3>1, <3>2, RecordType
  <2>2. QED
    BY <1>1, <1>2, <1>4, <2>1 DEF Locating
<1>9. \A x \in Picking(r) : OK(x)
  BY <1>1, <1>2, <1>5 DEF Picking
<1>10. \A x \in Fetching(r) \cup Mapping(r) : OK(x)
  BY <1>1, <1>2, <1>5, <1>6 DEF Fetching, Mapping
<1>11. \A x \in Landing(r) : OK(x)
  BY <1>1, <1>2 DEF Landing
<1>12. OK(Then(To(r, "source", "none"), "locate")) /\ OK(Then(To(r, "sampling", "none"), "fetch"))
  BY <1>1, <1>2
<1>13. OK(o)
  BY <1>3, <1>7, <1>8, <1>9, <1>10, <1>11, <1>12 DEF StageWrites
<1>14. QED
  BY <1>13 DEF OK

(* A tap writes a record. *)
LEMMA SeedsType ==
  ASSUME NEW r \in Record, NEW k \in Kinds, NEW s \in Seeds(k, r)
  PROVE  s \in Record
<1> USE DEF FlowState, Mark
<1>1. Fresh("intent", "none") \in Record /\ Fresh("source", "pick") \in Record
  BY FreshType
<1>2. [Fresh("sampling", "none") EXCEPT !.remap = TRUE] \in Record
  BY FreshType, RecordType
<1>3. To(r, "intent", "none") \in Record
  BY ToType
<1>4. r.rows > 0 => Dropped(r) \in Record
  BY DroppedType, RecordType
<1>5. QED
  BY <1>1, <1>2, <1>3, <1>4, NoRecType DEF Seeds, Kinds, Starts, Revives
(* What a thread reads, and what a write of the slot leaves.               *)
LEMMA ReadType ==
  ASSUME Typed, NEW i \in Item
  PROVE  Read(i) \in Record /\ Read(i).cancel = rec[i].cancel
BY RecordType DEF Typed, Read

LEMMA FlowWriteType ==
  ASSUME Typed, NEW i \in Item, NEW new \in Record, NEW revive \in BOOLEAN,
         FlowWrite(i, new, revive)
  PROVE  /\ rec' \in [Item -> Record]
         /\ \A j \in Item : j # i => rec'[j] = rec[j]
         /\ rec[i].cancel /\ ~revive => rec'[i].cancel
BY StoredType DEF Typed, FlowWrite

-----------------------------------------------------------------------------
(* The invariant holds initially and is kept, one lemma per kind of actor. *)

LEMMA InitInv == Init => IInv
<1> SUFFICES ASSUME Init PROVE IInv
  OBVIOUS
<1> USE DEF Init
<1>1. Typed
  BY NoRecType, NiFlowAssumption DEF Typed, NoWorker, WorkerType
<1>2. Claims
  BY FS_EmptySet, NiFlowAssumption DEF Claims, NoWorker
<1>3. ClearsLooked /\ NothingYet
  BY DEF ClearsLooked, NothingYet, Makes, NoWorker, NoTap, NoSweep
<1>4. QED
  BY <1>1, <1>2, <1>3 DEF IInv

(* A worker's moves: to the next stage, or to the second half of a write.  *)
Moved(i) ==
  /\ worker' \in [Item -> WorkerType]
  /\ worker'[i].at # "none" /\ worker'[i].build # 0
  /\ worker'[i].at = "write" => worker'[i].next # "none"
  /\ \A j \in Item : j # i => worker'[j] = worker[j]

LEMMA GotoMoves ==
  ASSUME Typed, NEW i \in Item, worker[i].at # "none", NEW s \in Stage, Goto(i, s)
  PROVE  Moved(i)
<1> DEFINE w == [worker[i] EXCEPT !.at = s, !.put = NoRec, !.next = "none"]
<1>1. /\ worker \in [Item -> WorkerType]
      /\ worker[i] \in WorkerType /\ worker[i].build # 0
  BY DEF Typed
<1>2. worker' = [worker EXCEPT ![i] = w]
  BY <1>1 DEF Goto, WorkerType
<1>3. w \in WorkerType /\ w.at = s /\ w.build = worker[i].build
  BY <1>1, NoRecType DEF WorkerType
<1>4. s \notin {"none", "write"}
  BY DEF Stage
<1>5. QED
  BY <1>1, <1>2, <1>3, <1>4 DEF Moved

LEMMA PutsMoves ==
  ASSUME Typed, NEW i \in Item, worker[i].at # "none", NEW r \in Record, NEW s \in Stage,
         Puts(i, r, s)
  PROVE  Moved(i)
<1> DEFINE w == [worker[i] EXCEPT !.at = "write", !.put = r, !.next = s]
<1>1. /\ worker \in [Item -> WorkerType]
      /\ worker[i] \in WorkerType /\ worker[i].build # 0
  BY DEF Typed
<1>2. worker' = [worker EXCEPT ![i] = w]
  BY <1>1 DEF Puts, WorkerType
<1>3. w \in WorkerType /\ w.at = "write" /\ w.next = s /\ w.build = worker[i].build
  BY <1>1 DEF WorkerType
<1>4. s # "none"
  BY DEF Stage
<1>5. QED
  BY <1>1, <1>2, <1>3, <1>4 DEF Moved

(* A worker that moves touches its own card only, which exists.            *)
LEMMA MovedInv ==
  ASSUME IInv, NEW i \in Item, worker[i].at # "none", Moved(i), NotWorkers,
         rec' \in [Item -> Record], \A j \in Item : j # i => rec'[j] = rec[j],
         \/ UNCHANGED card
         \/ card' = [card EXCEPT ![i] = [kind |-> "card", by |-> worker[i].build]]
  PROVE  IInv'
<1> USE DEF IInv, NotWorkers
<1>1. Typed'
  <2>1. card' \in [Item -> [kind : {"none", "shell", "card"}, by : 0..MaxTaps]]
    <3>1. worker[i].build \in 0..MaxTaps
      BY DEF Typed, WorkerType
    <3>2. QED
      BY <3>1 DEF Typed
  <2>2. worker' \in [Item -> WorkerType]
    BY DEF Moved
  <2>3. \A j \in Item : /\ worker'[j].at = "write" => worker'[j].next # "none"
                        /\ worker'[j].at # "none" => worker'[j].build # 0
    BY DEF Typed, Moved
  <2>4. QED
    BY <2>1, <2>2, <2>3 DEF Typed
<1>2. Claims'
  BY DEF Claims, Moved
<1>3. ClearsLooked'
  BY DEF ClearsLooked
<1>4. NothingYet'
  BY DEF NothingYet, Makes, Moved, Typed
<1>5. QED
  BY <1>1, <1>2, <1>3, <1>4

LEMMA WorkerInv ==
  ASSUME IInv, NEW i \in Item, WorkerStep(i)
  PROVE  IInv'
<1> USE DEF IInv
<1>1. rec \in [Item -> Record] /\ worker[i] \in WorkerType
  BY DEF Typed
<1>2. CASE StageRead(i)
  <2>1. worker[i].at # "none"
    BY <1>2 DEF StageRead, Staged
  <2>2. PICK o \in StageWrites(worker[i].at, Read(i)) :
          IF ~rec[i].cancel THEN Puts(i, o.put, o.next)
          ELSE Goto(i, IF worker[i].at \in {"fetch", "map"} /\ o.next = "pick"
                       THEN "done" ELSE o.next)
    BY <1>2 DEF StageRead
  <2>3. o.put \in Record /\ o.next \in Stage
    BY ReadType, StageWritesType
  <2>4. Moved(i)
    <3>1. CASE ~rec[i].cancel
      BY <2>1, <2>2, <2>3, <3>1, PutsMoves
    <3>2. CASE rec[i].cancel
      <4>1. "done" \in Stage
        BY DEF Stage
      <4>2. \E s \in Stage : Goto(i, s)
        BY <2>2, <2>3, <3>2, <4>1
      <4>3. QED
        BY <2>1, <4>2, GotoMoves
    <3>3. QED
      BY <3>1, <3>2
  <2>5. QED
    BY <1>1, <1>2, <2>1, <2>4, MovedInv DEF StageRead
<1>3. CASE StageGo(i)
  <2>1. worker[i].at # "none"
    BY <1>3 DEF StageGo, Staged
  <2>2. PICK s \in StageGoes(worker[i].at, rec[i]) : Goto(i, s)
    BY <1>3 DEF StageGo
  <2>3. s \in Stage
    BY DEF StageGoes, Stage
  <2>4. QED
    BY <1>1, <1>3, <2>1, <2>2, <2>3, GotoMoves, MovedInv DEF StageGo
<1>4. CASE LoopEnds(i)
  <2>1. worker[i].at # "none" /\ Moved(i)
    <3> DEFINE w == [worker[i] EXCEPT !.at = "stop", !.put = Read(i)]
    <3>1. worker[i].at = "pick" /\ worker[i].build # 0 /\ worker \in [Item -> WorkerType]
      BY <1>4 DEF LoopEnds, Typed
    <3>2. worker' = [worker EXCEPT ![i] = w]
      BY <1>1, <1>4 DEF LoopEnds, WorkerType
    <3>3. w \in WorkerType /\ w.at = "stop" /\ w.build = worker[i].build
      BY <1>1, ReadType DEF WorkerType, Stage
    <3>4. QED
      BY <3>1, <3>2, <3>3 DEF Moved
  <2>2. QED
    BY <1>1, <1>4, <2>1, MovedInv DEF LoopEnds
<1>5. CASE WriteBack(i)
  <2>1. worker[i].at # "none"
    BY <1>5 DEF WriteBack
  <2>2. [worker[i].put EXCEPT !.auto = FALSE] \in Record /\ "done" \in Stage
    BY <1>1, RecordType DEF WorkerType, Stage
  <2>3. QED
    BY <1>1, <1>5, <2>1, <2>2, PutsMoves, MovedInv DEF WriteBack
<1>6. CASE StageWrite(i)
  <2>1. worker[i].at # "none" /\ worker[i].put \in Record /\ worker[i].next \in Stage
    BY <1>1, <1>6 DEF StageWrite, Typed, WorkerType
  <2>2. Moved(i)
    BY <1>6, <2>1, GotoMoves DEF StageWrite
  <2>3. rec' \in [Item -> Record] /\ \A j \in Item : j # i => rec'[j] = rec[j]
    BY <1>6, <2>1, FlowWriteType DEF StageWrite
  <2>4. QED
    BY <1>6, <2>1, <2>2, <2>3, MovedInv DEF StageWrite
<1>7. CASE Store(i)
  <2>1. worker[i].at # "none" /\ "land" \in Stage /\ "done" \in Stage
    BY <1>7 DEF Store, Stage
  <2>2. \E s \in Stage : Goto(i, s)
    BY <1>7, <2>1 DEF Store
  <2>3. Moved(i)
    BY <2>1, <2>2, GotoMoves
  <2>4. \/ UNCHANGED card
        \/ card' = [card EXCEPT ![i] = [kind |-> "card", by |-> worker[i].build]]
    BY <1>7 DEF Store
  <2>5. UNCHANGED rec /\ NotWorkers
    BY <1>7 DEF Store
  <2>6. QED
    BY <1>1, <2>1, <2>3, <2>4, <2>5, MovedInv
<1>8. CASE Release(i)
  <2>1. Typed'
    BY <1>8, NoRecType, NiFlowAssumption DEF Release, Typed, NoWorker, WorkerType
  <2>2. Claims'
    <3>1. inflight' = {j \in Item : worker'[j].at # "none"}
      BY <1>8 DEF Release, Claims, NoWorker, Typed
    <3>2. IsFiniteSet(inflight) /\ i \in inflight
      BY <1>8 DEF Release, Claims
    <3>3. /\ IsFiniteSet(inflight \ {i}) /\ Cardinality(inflight) \in Nat
          /\ Cardinality(inflight \ {i}) = Cardinality(inflight) - 1
      BY <3>2, FS_RemoveElement, FS_CardinalityType
    <3>4. Cardinality(inflight \ {i}) <= MaxConcurrent
      BY <3>3, NiFlowAssumption DEF Claims
    <3>5. QED
      BY <1>8, <3>1, <3>3, <3>4 DEF Release, Claims
  <2>3. ClearsLooked' /\ NothingYet'
    BY <1>8 DEF Release, ClearsLooked, NothingYet, Makes, Typed, NoWorker
  <2>4. QED
    BY <2>1, <2>2, <2>3
<1>9. QED
  BY <1>2, <1>3, <1>4, <1>5, <1>6, <1>7, <1>8 DEF WorkerStep
(* A request looks at the card: a new card by one request only, a slot to  *)
(* clear only when no stopped worker is out.                               *)
LEMMA BeginInv ==
  ASSUME IInv, NEW q \in Tap, NEW i \in Item, NEW k \in Kinds, Begin(q, i, k)
  PROVE  IInv'
<1> DEFINE t == [at |-> "rewrite", kind |-> k, item |-> i, held |-> Read(i),
                 id |-> taps + 1, out |-> i \in inflight]
<1>1. /\ tap \in [Tap -> {NoTap} \cup TapType] /\ taps + 1 \in 1..MaxTaps
      /\ tap' = [tap EXCEPT ![q] = t] /\ taps' = taps + 1
      /\ UNCHANGED <<rec, card, inflight, worker, sweep, crashes, stopped>>
  BY NiFlowAssumption DEF IInv, Typed, Begin
<1>2. t \in TapType
  <2>1. Read(i) \in Record
    BY ReadType DEF IInv
  <2>2. QED
    BY <1>1, <2>1 DEF TapType
<1>3. Typed'
  BY <1>1, <1>2 DEF IInv, Typed
<1>4. Claims'
  BY <1>1 DEF IInv, Claims
<1>5. ClearsLooked'
  <2>1. k = "clear" => ~(t.held.cancel /\ t.out)
    BY ReadType DEF IInv, Begin, Offered, ClearAllowed
  <2>2. QED
    BY <1>1, <2>1 DEF IInv, ClearsLooked
<1>6. NothingYet'
  <2>1. tap[q] = NoTap /\ tap[q].at = "idle"
    BY DEF Begin, NoTap
  <2>2. \A p \in Tap : tap[p].at # "idle" => tap[p] # NoTap
    BY DEF NoTap
  <2>3. card[i].kind = "none" => k = "new"
    <3>1. card[i].kind = "none" => rec[i].state = "none" /\ rec[i].mark = "none"
      BY DEF IInv, NothingYet, NoRec, Fresh
    <3>2. Offered(k, i)
      BY DEF Begin
    <3>3. QED
      BY <3>1, <3>2 DEF Offered, Kinds, Starts, Revives
  <2>4. k = "new" => /\ card[i].kind = "none"
                     /\ \A p \in Tap : tap[p].at # "idle" => tap[p].item # i
    BY <2>2 DEF Begin, Offered
  <2>5. tap'[q] = t /\ \A p \in Tap : p # q => tap'[p] = tap[p]
    BY <1>1
  <2>6. QED
    BY <1>1, <2>1, <2>3, <2>4, <2>5 DEF IInv, NothingYet, Makes
<1>7. QED
  BY <1>3, <1>4, <1>5, <1>6 DEF IInv

(* A request that moves on, writing at most the slot of its own card.      *)
LEMMA TapMovesInv ==
  ASSUME IInv, NEW q \in Tap, tap[q].at # "idle", NEW t \in {NoTap} \cup TapType,
         tap' = [tap EXCEPT ![q] = t],
         t.at # "idle" => t.at # "rewrite" /\ t.item = tap[q].item,
         rec' \in [Item -> Record],
         \A j \in Item : j # tap[q].item => rec'[j] = rec[j],
         \/ UNCHANGED card /\ ~Makes(q, tap[q].item)
         \/ card' = [card EXCEPT ![tap[q].item].kind = "shell"] /\ Makes(q, tap[q].item),
         UNCHANGED <<inflight, worker, sweep, taps, crashes, stopped>>
  PROVE  IInv'
<1>1. /\ tap[q] \in TapType /\ tap[q].item \in Item
      /\ tap'[q] = t /\ \A p \in Tap : p # q => tap'[p] = tap[p]
  BY DEF IInv, Typed, TapType, NoTap
<1>2. Typed'
  BY <1>1 DEF IInv, Typed
<1>3. Claims'
  BY DEF IInv, Claims
<1>4. ClearsLooked'
  BY <1>1 DEF IInv, ClearsLooked, NoTap
<1>5. \A i \in Item : Makes(q, i)' => FALSE
  BY <1>1 DEF Makes, NoTap
<1>6. \A i \in Item, p \in Tap : Makes(p, i)' => Makes(p, i) /\ p # q
  BY <1>1, <1>5 DEF Makes
<1>7. NothingYet'
  <2>1. CASE UNCHANGED card /\ ~Makes(q, tap[q].item)
    <3>1. card[tap[q].item].kind # "none"
      BY <1>1, <2>1 DEF IInv, NothingYet
    <3>2. QED
      BY <1>1, <1>6, <2>1, <3>1 DEF IInv, NothingYet, Makes
  <2>2. CASE card' = [card EXCEPT ![tap[q].item].kind = "shell"] /\ Makes(q, tap[q].item)
    <3>1. card'[tap[q].item].kind = "shell" /\ \A j \in Item : j # tap[q].item => card'[j] = card[j]
      BY <1>1, <2>2 DEF IInv, Typed
    <3>2. \A i \in Item : card'[i].kind = "none" => card[i].kind = "none" /\ i # tap[q].item
      BY <3>1
    <3>3. \A p \in Tap, i \in Item : i = tap[q].item => ~Makes(p, i)'
      BY <1>1, <1>6, <2>2 DEF IInv, NothingYet
    <3>4. QED
      BY <1>1, <1>6, <3>1, <3>2, <3>3 DEF IInv, NothingYet, Makes
  <2>3. QED
    BY <2>1, <2>2
<1>8. QED
  BY <1>2, <1>3, <1>4, <1>7 DEF IInv
LEMMA TapInv ==
  ASSUME IInv, NEW q \in Tap, TapStep(q)
  PROVE  IInv'
<1> DEFINE i == tap[q].item
<1>1. tap[q].at # "idle"
  BY DEF TapStep, Rewrite, Start, Refused, Fail
<1>2. /\ tap[q] \in TapType /\ i \in Item /\ tap[q].held \in Record /\ tap[q].kind \in Kinds
      /\ rec \in [Item -> Record] /\ NoTap.at = "idle"
  BY <1>1 DEF IInv, Typed, TapType, NoTap
<1>3. CASE Rewrite(q)
  <2> DEFINE t == IF tap[q].kind \in Starts THEN [tap[q] EXCEPT !.at = "start", !.held = NoRec] ELSE NoTap
  <2>1. tap' = [tap EXCEPT ![q] = t] /\ UNCHANGED <<inflight, worker, sweep, taps, crashes, stopped>>
    BY <1>2, <1>3 DEF Rewrite, IInv, Typed
  <2>2. t \in {NoTap} \cup TapType /\ (t.at # "idle" => t.at # "rewrite" /\ t.item = tap[q].item)
    BY <1>2, NoRecType DEF TapType
  <2>3. rec' \in [Item -> Record] /\ \A j \in Item : j # i => rec'[j] = rec[j]
    <3>1. CASE tap[q].kind = "clear"
      BY <1>2, <1>3, <3>1, NoRecType DEF Rewrite
    <3>2. CASE tap[q].kind # "clear"
      <4>1. PICK r \in Seeds(tap[q].kind, tap[q].held) : FlowWrite(i, r, tap[q].kind \in Revives)
        BY <1>3, <3>2 DEF Rewrite
      <4>2. r \in Record /\ (tap[q].kind \in Revives) \in BOOLEAN
        BY <1>2, <4>1, SeedsType
      <4>3. QED
        BY <1>2, <4>1, <4>2, FlowWriteType DEF IInv
    <3>3. QED
      BY <3>1, <3>2
  <2>4. \/ UNCHANGED card /\ ~Makes(q, tap[q].item)
        \/ card' = [card EXCEPT ![tap[q].item].kind = "shell"] /\ Makes(q, tap[q].item)
    BY <1>3 DEF Rewrite, Makes
  <2> HIDE DEF t
  <2>5. QED
    BY <1>1, <2>1, <2>2, <2>3, <2>4, TapMovesInv
<1>4. CASE Start(q)
  <2>1. /\ i \notin inflight /\ Cardinality(inflight) < MaxConcurrent
        /\ inflight' = inflight \cup {i} /\ tap[q].at = "start"
        /\ tap' = [tap EXCEPT ![q] = NoTap]
        /\ UNCHANGED <<rec, card, sweep, taps, crashes, stopped>>
    BY <1>4 DEF Start, Free
  <2> DEFINE w == [NoWorker EXCEPT !.at = "enter", !.build = tap[q].id]
  <2>2. w \in WorkerType /\ w.at = "enter" /\ w.build # 0 /\ worker' = [worker EXCEPT ![i] = w]
    <3>1. tap[q].id \in 1..MaxTaps /\ tap[q].id \in 0..MaxTaps /\ tap[q].id # 0
      BY <1>2, NiFlowAssumption DEF TapType
    <3>2. QED
      BY <1>4, <3>1, NoRecType DEF Start, NoWorker, WorkerType, Stage
  <2> HIDE DEF w
  <2>3. worker \in [Item -> WorkerType] /\ tap \in [Tap -> {NoTap} \cup TapType]
    BY DEF IInv, Typed
  <2>4. Typed'
    BY <1>2, <2>1, <2>2, <2>3 DEF IInv, Typed
  <2>5. Claims'
    <3>1. inflight' = {j \in Item : worker'[j].at # "none"}
      BY <1>2, <2>1, <2>2, <2>3 DEF IInv, Claims
    <3>2. IsFiniteSet(inflight') /\ Cardinality(inflight') = Cardinality(inflight) + 1
      BY <2>1, FS_AddElement DEF IInv, Claims
    <3>3. Cardinality(inflight) \in Nat
      BY FS_CardinalityType DEF IInv, Claims
    <3>4. Cardinality(inflight') <= MaxConcurrent
      BY <2>1, <3>2, <3>3, NiFlowAssumption
    <3>5. QED
      BY <3>1, <3>2, <3>4 DEF Claims
  <2>6. ClearsLooked'
    BY <2>1, <2>3, <1>2 DEF IInv, ClearsLooked
  <2>7. NothingYet'
    <3>1. card[i].kind # "none"
      BY <1>1, <1>2, <2>1 DEF IInv, NothingYet, Makes
    <3>2. \A j \in Item : j # i => worker'[j] = worker[j]
      BY <2>2, <2>3
    <3>3. \A p \in Tap : (p # q => tap'[p] = tap[p]) /\ (p = q => tap'[p].at = "idle")
      BY <1>2, <2>1, <2>3
    <3>4. \A p \in Tap, j \in Item : Makes(p, j)' => Makes(p, j)
      BY <3>3 DEF Makes
    <3>5. QED
      BY <2>1, <3>1, <3>2, <3>3, <3>4 DEF IInv, NothingYet, Makes
  <2>8. QED
    BY <2>4, <2>5, <2>6, <2>7 DEF IInv
<1>5. CASE Refused(q)
  <2> DEFINE t == IF rec[i].cancel THEN NoTap
                  ELSE [tap[q] EXCEPT !.at = "fail", !.out = FALSE, !.held = Read(i)]
  <2>1. tap' = [tap EXCEPT ![q] = t] /\ tap[q].at = "start"
        /\ UNCHANGED <<rec, card, inflight, worker, sweep, taps, crashes, stopped>>
    BY <1>2, <1>5 DEF Refused, IInv, Typed
  <2>2. t \in {NoTap} \cup TapType /\ (t.at # "idle" => t.at # "rewrite" /\ t.item = tap[q].item)
    BY <1>2, ReadType DEF TapType, IInv
  <2> HIDE DEF t
  <2>3. QED
    BY <1>1, <1>2, <2>1, <2>2, TapMovesInv DEF Makes
<1>6. CASE Fail(q)
  <2>1. To(tap[q].held, "failed", "none") \in Record
    BY <1>2, ToType DEF FlowState, Mark
  <2>2. rec' \in [Item -> Record] /\ \A j \in Item : j # i => rec'[j] = rec[j]
    BY <1>2, <1>6, <2>1, FlowWriteType DEF Fail, IInv
  <2>3. ~Makes(q, tap[q].item) /\ tap' = [tap EXCEPT ![q] = NoTap]
        /\ UNCHANGED <<card, inflight, worker, sweep, taps, crashes, stopped>>
    BY <1>6 DEF Fail, Makes
  <2>4. QED
    BY <1>1, <1>2, <2>2, <2>3, TapMovesInv
<1>7. QED
  BY <1>3, <1>4, <1>5, <1>6 DEF TapStep

(* Cancel rewrites the record of a build.                                  *)
LEMMA CancelInv ==
  ASSUME IInv, NEW i \in Item, Cancel(i)
  PROVE  IInv'
<1>1. /\ rec \in [Item -> Record] /\ rec[i] \in Record /\ rec[i].state # "none"
      /\ UNCHANGED <<card, inflight, worker, tap, sweep, taps, crashes>>
  BY DEF IInv, Typed, Cancel
<1> DEFINE r == [To(rec[i], "failed", "none") EXCEPT !.cancel = TRUE, !.old = FALSE]
<1>2. r \in Record /\ rec' = [rec EXCEPT ![i] = r]
  <2>1. To(rec[i], "failed", "none") \in Record
    BY <1>1, ToType DEF FlowState, Mark
  <2>2. QED
    BY <2>1, RecordType DEF Cancel
<1> HIDE DEF r
<1>3. stopped' \subseteq 1..MaxTaps
  <2>1. \A j \in inflight : j \in Item /\ worker[j].build \in 1..MaxTaps
    BY NiFlowAssumption DEF IInv, Claims, Typed, WorkerType
  <2>2. QED
    BY <2>1 DEF Cancel, IInv, Typed
<1>4. Typed'
  BY <1>1, <1>2, <1>3 DEF IInv, Typed
<1>5. card[i].kind # "none"
  BY <1>1 DEF IInv, NothingYet, NoRec, Fresh
<1>6. QED
  BY <1>1, <1>2, <1>4, <1>5 DEF IInv, Claims, ClearsLooked, NothingYet, Makes

(* The sweep, the clock and a restart.                                     *)
LEMMA SweepInv ==
  ASSUME IInv, SweepStep \/ \E i \in Item : SweepReads(i)
  PROVE  IInv'
<1>1. rec \in [Item -> Record] /\ sweep \in {NoSweep} \cup SweepType /\ NoSweep.at = "idle"
  BY DEF IInv, Typed, NoSweep
<1>2. ASSUME NEW i \in Item, SweepReads(i) PROVE IInv'
  <2>1. sweep' = [at |-> "check", item |-> i] /\ rec[i].state # "none"
        /\ UNCHANGED <<rec, card, inflight, worker, tap, taps, crashes, stopped>>
    BY <1>2 DEF SweepReads, Swept
  <2>2. card[i].kind # "none"
    BY <2>1 DEF IInv, NothingYet, NoRec, Fresh
  <2>3. Typed'
    BY <2>1 DEF IInv, Typed, SweepType
  <2>4. QED
    BY <2>1, <2>2, <2>3 DEF IInv, Claims, ClearsLooked, NothingYet, Makes
<1>3. CASE SweepChecks
  <2>1. sweep.item \in Item /\ sweep.at # "idle"
    BY <1>1, <1>3 DEF SweepChecks, SweepType
  <2>2. Read(sweep.item) \in Record
    BY <2>1, ReadType DEF IInv
  <2>3. /\ sweep' \in {NoSweep} \cup SweepType
        /\ sweep'.at # "idle" => sweep'.item = sweep.item
        /\ UNCHANGED <<rec, card, inflight, worker, tap, taps, crashes, stopped>>
    BY <1>1, <1>3, <2>1, <2>2 DEF SweepChecks, SweepType
  <2>4. Typed'
    BY <2>3 DEF IInv, Typed
  <2>5. QED
    BY <2>1, <2>3, <2>4 DEF IInv, Claims, ClearsLooked, NothingYet, Makes
<1>4. CASE SweepFails
  <2>1. sweep.item \in Item /\ sweep.held \in Record /\ sweep.at # "idle"
    BY <1>1, <1>4 DEF SweepFails, SweepType
  <2>2. To(sweep.held, "failed", "none") \in Record
    BY <2>1, ToType DEF FlowState, Mark
  <2>3. rec' \in [Item -> Record] /\ \A j \in Item : j # sweep.item => rec'[j] = rec[j]
    BY <1>4, <2>1, <2>2, FlowWriteType DEF SweepFails, IInv
  <2>4. sweep' = NoSweep /\ UNCHANGED <<card, inflight, worker, tap, taps, crashes, stopped>>
    BY <1>4 DEF SweepFails
  <2>5. Typed'
    BY <2>3, <2>4 DEF IInv, Typed
  <2>6. QED
    BY <1>1, <2>1, <2>3, <2>4, <2>5 DEF IInv, Claims, ClearsLooked, NothingYet, Makes
<1>5. QED
  BY <1>2, <1>3, <1>4 DEF SweepStep

LEMMA AgeInv ==
  ASSUME IInv, NEW i \in Item, Age(i)
  PROVE  IInv'
<1>1. /\ rec \in [Item -> Record] /\ rec[i].state # "none"
      /\ UNCHANGED <<card, inflight, worker, tap, sweep, taps, crashes, stopped>>
  BY DEF IInv, Typed, Age, Building, Busy
<1>2. rec' = [rec EXCEPT ![i] = [rec[i] EXCEPT !.old = TRUE]] /\ [rec[i] EXCEPT !.old = TRUE] \in Record
  BY <1>1, RecordType DEF Age
<1>3. rec' \in [Item -> Record] /\ \A j \in Item : j # i => rec'[j] = rec[j]
  BY <1>1, <1>2
<1>4. Typed'
  BY <1>1, <1>3 DEF IInv, Typed
<1>5. card[i].kind # "none"
  BY <1>1 DEF IInv, NothingYet, NoRec, Fresh
<1>6. QED
  BY <1>1, <1>3, <1>4, <1>5 DEF IInv, Claims, ClearsLooked, NothingYet, Makes

LEMMA RestartInv ==
  ASSUME IInv, Restart
  PROVE  IInv'
<1>1. Typed'
  BY NoRecType, NiFlowAssumption DEF IInv, Typed, Restart, NoWorker, WorkerType
<1>2. Claims'
  BY FS_EmptySet, NiFlowAssumption DEF Restart, Claims, NoWorker
<1>3. ClearsLooked' /\ NothingYet'
  BY DEF IInv, Restart, ClearsLooked, NothingYet, Makes, NoTap, NoSweep, NoWorker
<1>4. QED
  BY <1>1, <1>2, <1>3 DEF IInv

-----------------------------------------------------------------------------
(* The theorems. *)

LEMMA NextInv ==
  ASSUME IInv, [Next]_vars
  PROVE  IInv'
<1>1. CASE UNCHANGED vars
  BY <1>1 DEF vars, IInv, Typed, Claims, ClearsLooked, NothingYet, Makes
<1>2. CASE Next
  BY <1>2, WorkerInv, BeginInv, TapInv, CancelInv, SweepInv, AgeInv, RestartInv
  DEF Next
<1>3. QED
  BY <1>1, <1>2

LEMMA Inductive == Spec => []IInv
<1>1. Init => IInv
  BY InitInv
<1>2. IInv /\ [Next]_vars => IInv'
  BY NextInv
<1>3. QED
  BY <1>1, <1>2, PTL DEF Spec

(* Every reachable state has the records the code assumes, one worker per  *)
(* card in _INFLIGHT and no more of them than the cap.                     *)
THEOREM Typing == Spec => []TypeOK
<1>1. IInv => TypeOK
  <2> SUFFICES ASSUME IInv PROVE TypeOK
    OBVIOUS
  <2>1. \A i \in Item : worker[i].put \in Record /\ worker[i].build \in 0..MaxTaps
    BY DEF IInv, Typed, WorkerType
  <2>2. \A q \in Tap : tap[q] = NoTap \/ (tap[q].item \in Item /\ tap[q].held \in Record)
    BY DEF IInv, Typed, TapType
  <2>3. sweep = NoSweep \/ sweep.item \in Item
    BY DEF IInv, Typed, SweepType
  <2>4. QED
    BY <2>1, <2>2, <2>3 DEF IInv, Typed, Claims, TypeOK
<1>2. QED
  BY <1>1, Inductive, PTL

(* While the record carries a stop the card keeps its spec: _finalize asks *)
(* under the lock, and a card being made has no record to carry one.       *)
THEOREM StopKeepsTheSpec == Spec => StoppedCardKeepsItsSpec
<1>1. ASSUME IInv, [Next]_vars, NEW i \in Item, rec[i].cancel
      PROVE  card'[i] = card[i]
  <2>1. card \in [Item -> [kind : {"none", "shell", "card"}, by : 0..MaxTaps]]
    BY <1>1 DEF IInv, Typed
  <2>2. CASE UNCHANGED card
    BY <2>2
  <2>3. ASSUME NEW j \in Item, Store(j) PROVE card'[i] = card[i]
    BY <1>1, <2>1, <2>3 DEF Store, SealAllowed
  <2>4. ASSUME NEW q \in Tap, Rewrite(q) PROVE card'[i] = card[i]
    <3>1. Makes(q, i) => rec[i] = NoRec
      BY <1>1 DEF IInv, NothingYet
    <3>2. ~Makes(q, i)
      BY <1>1, <3>1, NoRecType
    <3>3. QED
      BY <2>1, <2>4, <3>2 DEF Rewrite, Makes
  <2>5. QED
    BY <1>1, <2>2, <2>3, <2>4 DEF Next, vars, WorkerStep, StageRead, StageGo, LoopEnds,
       WriteBack, StageWrite, Release, TapStep, Start, Refused, Fail, Begin, Cancel,
       SweepReads, SweepStep, SweepChecks, SweepFails, Age, Restart
<1>2. IInv /\ [Next]_vars => [\A i \in Item : rec[i].cancel => card'[i] = card[i]]_vars
  BY <1>1
<1>3. QED
  BY <1>2, Inductive, PTL DEF Spec, StoppedCardKeepsItsSpec

(* No stale write takes a stop off a record.                               *)
Undoes(i) ==
  \E q \in Tap : /\ tap[q].at = "rewrite" /\ tap[q].item = i
                 /\ \/ tap[q].kind \in Revives
                    \/ tap[q].kind = "clear" /\ ~(tap[q].held.cancel /\ tap[q].out)
THEOREM StopStays == Spec => StopIsKept
<1>1. ASSUME IInv, Next, NEW i \in Item, rec[i].cancel
      PROVE  rec'[i].cancel \/ Undoes(i)
  <2>1. rec \in [Item -> Record] /\ Typed
    BY <1>1 DEF IInv, Typed
  <2>2. CASE UNCHANGED rec
    BY <1>1, <2>2
  <2>3. ASSUME NEW j \in Item, NEW r \in Record, FlowWrite(j, r, FALSE) PROVE rec'[i].cancel
    BY <1>1, <2>1, <2>3, FlowWriteType
  <2>4. ASSUME NEW j \in Item, StageWrite(j) PROVE rec'[i].cancel
    <3>1. worker[j].put \in Record
      BY <2>1 DEF Typed, WorkerType
    <3>2. QED
      BY <2>3, <2>4, <3>1 DEF StageWrite
  <2>5. ASSUME NEW q \in Tap, Rewrite(q) PROVE rec'[i].cancel \/ Undoes(i)
    <3>1. tap[q] \in TapType
      BY <2>1, <2>5 DEF Typed, Rewrite, NoTap
    <3>2. tap[q].item \in Item /\ tap[q].kind \in Kinds /\ tap[q].held \in Record /\ tap[q].at = "rewrite"
      BY <2>5, <3>1 DEF TapType, Rewrite
    <3>3. CASE tap[q].kind = "clear"
      BY <1>1, <2>1, <2>5, <3>2, <3>3 DEF Rewrite, Undoes, IInv, ClearsLooked
    <3>4. CASE tap[q].kind # "clear"
      <4>1. PICK r \in Seeds(tap[q].kind, tap[q].held) : FlowWrite(tap[q].item, r, tap[q].kind \in Revives)
        BY <2>5, <3>4 DEF Rewrite
      <4>2. r \in Record /\ (tap[q].kind \in Revives) \in BOOLEAN
        BY <3>2, <4>1, SeedsType
      <4>3. CASE tap[q].item # i
        BY <1>1, <2>1, <3>2, <4>1, <4>2, <4>3, FlowWriteType
      <4>4. CASE tap[q].item = i /\ tap[q].kind \in Revives
        BY <3>2, <4>4 DEF Undoes
      <4>5. CASE tap[q].item = i /\ tap[q].kind \notin Revives
        BY <1>1, <2>1, <3>2, <4>1, <4>2, <4>5, FlowWriteType
      <4>6. QED
        BY <4>3, <4>4, <4>5
    <3>5. QED
      BY <3>3, <3>4
  <2>6. ASSUME NEW q \in Tap, Fail(q) PROVE rec'[i].cancel
    <3>1. tap[q] \in TapType
      BY <2>1, <2>6 DEF Typed, Fail, NoTap
    <3>2. To(tap[q].held, "failed", "none") \in Record /\ tap[q].item \in Item
      BY <3>1, ToType DEF TapType, FlowState, Mark
    <3>3. QED
      BY <2>3, <2>6, <3>2 DEF Fail
  <2>7. ASSUME NEW j \in Item, Cancel(j) PROVE rec'[i].cancel
    <3>1. To(rec[j], "failed", "none") \in Record
      BY <2>1, ToType DEF FlowState, Mark
    <3>2. QED
      BY <1>1, <2>1, <2>7, <3>1, RecordType DEF Cancel
  <2>8. CASE SweepFails
    <3>1. sweep.item \in Item /\ sweep.held \in Record
      BY <2>1, <2>8 DEF SweepFails, Typed, SweepType, NoSweep
    <3>2. To(sweep.held, "failed", "none") \in Record
      BY <3>1, ToType DEF FlowState, Mark
    <3>3. QED
      BY <2>3, <2>8, <3>1, <3>2 DEF SweepFails
  <2>9. ASSUME NEW j \in Item, Age(j) PROVE rec'[i].cancel
    BY <1>1, <2>1, <2>9, RecordType DEF Age
  <2>10. QED
    BY <1>1, <2>2, <2>4, <2>5, <2>6, <2>7, <2>8, <2>9
    DEF Next, WorkerStep, StageRead, StageGo, LoopEnds, WriteBack, Store, Release, TapStep,
        Start, Refused, Begin, SweepReads, SweepStep, SweepChecks, Restart
<1>2. IInv /\ [Next]_vars =>
        [\A i \in Item : rec[i].cancel /\ ~rec'[i].cancel =>
           \E q \in Tap : /\ tap[q].at = "rewrite" /\ tap[q].item = i
                          /\ \/ tap[q].kind \in Revives
                             \/ tap[q].kind = "clear" /\ ~(tap[q].held.cancel /\ tap[q].out)]_vars
  BY <1>1 DEF Undoes
<1>3. QED
  BY <1>2, Inductive, PTL DEF Spec, StopIsKept
=============================================================================
