-------------------------- MODULE VaultSync_proofs --------------------------
(***************************************************************************)
(* Safety of subscriptions for every number of vaults, keys, requests and  *)
(* publications, although nothing locks a pin.  What saves it is that each *)
(* pin a thread holds, stored or not, was once right: its key had been     *)
(* accepted, its seq and its retired mark are of one manifest, its failures*)
(* had happened.  All of this stays true as history grows, and merging the *)
(* changes of one worker into the stale body of another keeps it.          *)
(***************************************************************************)
EXTENDS VaultSync, TLAPS

(* A pin is right about the history of its vault: the keys T the user      *)
(* accepted, the n failed checks, the vaults U retired when subscribed to. *)
Right(b, v, T, n, U) ==
  /\ b \in Pin
  /\ b.key \in T
  /\ b.failures <= n
  /\ b.unreachable = "dead_host" => n >= FailureCount
  /\ b.retired => b.seq \in RetiredAt
  /\ ~b.retired /\ b.seq \in RetiredAt => v \in U

(* Changes that leave a pin right, whichever pin they are merged into.     *)
RightChanges(c, T, n) ==
  /\ "key" \in DOMAIN c => c["key"] \in T
  /\ "seq" \notin DOMAIN c /\ "retired" \notin DOMAIN c
  /\ "blocked" \in DOMAIN c => c["blocked"] \in Key \cup {NoKey}
  /\ "auto" \in DOMAIN c => c["auto"] \in BOOLEAN
  /\ "due" \in DOMAIN c => c["due"] \in BOOLEAN
  /\ "aged" \in DOMAIN c => c["aged"] \in BOOLEAN
  /\ "failures" \in DOMAIN c => c["failures"] \in Nat /\ c["failures"] <= n
  /\ "unreachable" \in DOMAIN c =>
       /\ c["unreachable"] \in {"no", "took_down", "dead_host"}
       /\ c["unreachable"] = "dead_host" => n >= FailureCount

(* An update to be applied was signed by an accepted key, and is newer than*)
(* the pin it was checked against.                                         *)
RightUpdate(s, v, T, n) ==
  /\ s.at = "apply" /\ s.v = v /\ s.m \in Manifest
  /\ s.m.key \in T
  /\ s.pin.seq \in Nat /\ s.m.seq > s.pin.seq
  /\ s.kind = "tick" =>
       s.pin.failures \in Nat /\ s.pin.failures <= n /\ s.pin.aged \in BOOLEAN

RightNext(s, v, T, n) == s = Idle \/ RightUpdate(s, v, T, n)

RightState(s, T, n, U) ==
  \/ s = Idle
  \/ /\ s.at = "load" /\ s.v \in Vault
     /\ RightChanges(s.changes, T[s.v], n[s.v]) /\ RightNext(s.next, s.v, T[s.v], n[s.v])
  \/ /\ s.at = "store" /\ s.v \in Vault
     /\ Right(s.body, s.v, T[s.v], n[s.v], U) /\ RightNext(s.next, s.v, T[s.v], n[s.v])
  \/ s.v \in Vault /\ RightUpdate(s, s.v, T[s.v], n[s.v])

HistoryType ==
  /\ trusted \in [Vault -> SUBSET Key] /\ unmarked \subseteq Vault
  /\ failed \in [Vault -> 0..MaxFailures]

PinsRight ==
  \A v \in Vault :
    pin[v] = NoPin \/ Right(pin[v], v, trusted[v], failed[v], unmarked)

IInv ==
  /\ HistoryType
  /\ pin = [v \in Vault |-> pin[v]] /\ PinsRight
  /\ worker = [w \in Worker |-> worker[w]]
  /\ \A w \in Worker : RightState(worker[w], trusted, failed, unmarked)
  /\ strays = {}

-----------------------------------------------------------------------------
(* What the record operators return. *)

LEMMA MergedRight ==
  ASSUME NEW T \in SUBSET Key, NEW n \in 0..MaxFailures, NEW v, NEW U,
         NEW b, Right(b, v, T, n, U), NEW c, RightChanges(c, T, n)
  PROVE  Right(Merged(b, c), v, T, n, U)
<1>1. b \in Pin
  BY DEF Right
<1>2. /\ Merged(b, c).key = IF "key" \in DOMAIN c THEN c["key"] ELSE b.key
      /\ Merged(b, c).failures = IF "failures" \in DOMAIN c THEN c["failures"] ELSE b.failures
      /\ Merged(b, c).unreachable = IF "unreachable" \in DOMAIN c THEN c["unreachable"] ELSE b.unreachable
      /\ Merged(b, c).seq = b.seq /\ Merged(b, c).retired = b.retired
  BY <1>1 DEF Merged, Pin, RightChanges
<1>3. "failures" \in DOMAIN c => c["failures"] \in 0..(FailureCount + MaxFailures)
  BY <1>1, VaultAssumption DEF RightChanges
<1>4. "key" \in DOMAIN c => c["key"] \in Key
  BY <1>1 DEF RightChanges
<1>5. Merged(b, c) \in Pin
  BY <1>1, <1>3, <1>4 DEF Merged, Pin, RightChanges
<1>6. QED
  BY <1>2, <1>5 DEF Right, RightChanges

LEMMA AndRight ==
  ASSUME NEW T, NEW n, NEW c, NEW d, RightChanges(c, T, n), RightChanges(d, T, n)
  PROVE  RightChanges(And(c, d), T, n)
<1>1. PICK e : e = And(c, d)
  OBVIOUS
<1>2. \A f \in DOMAIN e :
        (f \in DOMAIN c /\ e[f] = c[f]) \/ (f \in DOMAIN d /\ e[f] = d[f])
  BY <1>1 DEF And
<1>3. RightChanges(e, T, n)
  BY <1>2 DEF RightChanges
<1>4. QED
  BY <1>1, <1>3

LEMMA CheckedRight ==
  ASSUME NEW T, NEW n \in Nat
  PROVE  /\ RightChanges(ClearFailures, T, n) /\ RightChanges(Checked, T, n)
         /\ RightChanges(And(Checked, ClearFailures), T, n)
         /\ RightChanges(And(Checked, [unreachable |-> "took_down"]), T, n)
<1>1. RightChanges(ClearFailures, T, n)
  BY DEF RightChanges, ClearFailures
<1>2. RightChanges(Checked, T, n)
  BY DEF RightChanges, Checked
<1>3. RightChanges([unreachable |-> "took_down"], T, n)
  BY DEF RightChanges
<1>4. QED
  BY <1>1, <1>2, <1>3, AndRight

LEMMA BlockedRight ==
  ASSUME NEW T, NEW n \in Nat, NEW k \in Key
  PROVE  /\ RightChanges([blocked |-> k], T, n)
         /\ RightChanges(And([blocked |-> k], And(Checked, ClearFailures)), T, n)
<1>1. RightChanges([blocked |-> k], T, n)
  BY DEF RightChanges
<1>2. QED
  BY <1>1, CheckedRight, AndRight

(* A failure is counted once in the history and at most once in the pin.   *)
LEMMA FailureRight ==
  ASSUME NEW T, NEW n \in Nat,
         NEW p, p.failures \in Nat, p.aged \in BOOLEAN, p.failures <= n
  PROVE  RightChanges(And(Checked, FailureStateAfter(p)), T, n + 1)
<1> SUFFICES RightChanges(FailureStateAfter(p), T, n + 1)
  BY CheckedRight, AndRight
<1>1. FailureCount \in Nat
  BY VaultAssumption
<1>2. CASE p.failures + 1 >= FailureCount /\ p.failures > 0 /\ p.aged
  <2>1. FailureStateAfter(p) =
          [failures |-> p.failures + 1, aged |-> TRUE, unreachable |-> "dead_host"]
    BY <1>2 DEF FailureStateAfter
  <2>2. n + 1 >= FailureCount
    BY <1>1, <1>2
  <2>3. QED
    BY <2>1, <2>2 DEF RightChanges
<1>3. CASE ~(p.failures + 1 >= FailureCount /\ p.failures > 0 /\ p.aged)
  <2>1. PICK a \in BOOLEAN : a = (p.failures > 0 /\ p.aged)
    OBVIOUS
  <2>2. FailureStateAfter(p) = [failures |-> p.failures + 1, aged |-> a]
    BY <1>3, <2>1 DEF FailureStateAfter
  <2>3. QED
    BY <2>2 DEF RightChanges
<1>4. QED
  BY <1>2, <1>3

(* An applied manifest: its seq and its retired mark go together.          *)
LEMMA RepinnedRight ==
  ASSUME NEW T \in SUBSET Key, NEW n \in 0..MaxFailures, NEW v, NEW U,
         NEW b, Right(b, v, T, n, U), NEW m \in Manifest
  PROVE  /\ Right(Merged(b, Repinned(m)), v, T, n, U)
         /\ Merged(b, Repinned(m)).seq = m.seq
<1> DEFINE c == Repinned(m)
<1>1. /\ DOMAIN c = {"seq", "retired", "due"} /\ c["due"] = FALSE
      /\ c["seq"] = m.seq /\ c["retired"] = (m.seq \in RetiredAt)
  <2>1. PICK d : d = [seq |-> m.seq, retired |-> m.seq \in RetiredAt]
    OBVIOUS
  <2>2. DOMAIN d = {"seq", "retired"} /\ d["seq"] = m.seq /\ d["retired"] = (m.seq \in RetiredAt)
    BY <2>1
  <2>3. PICK e : e = Checked
    OBVIOUS
  <2>4. DOMAIN e = {"due"} /\ e["due"] = FALSE
    BY <2>3 DEF Checked
  <2>5. c = And(d, e)
    BY <2>1, <2>3 DEF Repinned
  <2>6. /\ DOMAIN c = DOMAIN d \cup DOMAIN e
        /\ \A f \in DOMAIN d : c[f] = d[f]
        /\ \A f \in DOMAIN e : f \notin DOMAIN d => c[f] = e[f]
    BY <2>5 DEF And
  <2> HIDE DEF c
  <2>7. QED
    BY <2>2, <2>4, <2>6
<1> HIDE DEF c
<1>2. b \in Pin /\ m.seq \in 1..MaxSeq /\ (m.seq \in RetiredAt) \in BOOLEAN
  BY DEF Right, Manifest
<1>4. /\ Merged(b, c).key = b.key /\ Merged(b, c).failures = b.failures
      /\ Merged(b, c).unreachable = b.unreachable
      /\ Merged(b, c).seq = m.seq /\ Merged(b, c).retired = (m.seq \in RetiredAt)
  BY <1>1, <1>2 DEF Merged, Pin
<1>5. Merged(b, c) \in Pin
  BY <1>1, <1>2 DEF Merged, Pin
<1>6. Right(Merged(b, c), v, T, n, U) /\ Merged(b, c).seq = m.seq
  BY <1>4, <1>5 DEF Right
<1>7. QED
  BY <1>6 DEF c

-----------------------------------------------------------------------------
(* History only grows, and what was right stays right. *)

LEMMA RightGrows ==
  ASSUME NEW T, NEW T2, T \subseteq T2, NEW n \in Nat, NEW n2 \in Nat, n <= n2,
         NEW v, NEW U, NEW U2, U \subseteq U2, NEW b, Right(b, v, T, n, U)
  PROVE  Right(b, v, T2, n2, U2)
<1>1. b.failures \in Nat /\ FailureCount \in Nat
  BY VaultAssumption DEF Right, Pin
<1>2. QED
  BY <1>1 DEF Right

LEMMA RightChangesGrows ==
  ASSUME NEW T, NEW T2, T \subseteq T2, NEW n \in Nat, NEW n2 \in Nat, n <= n2,
         NEW c, RightChanges(c, T, n)
  PROVE  RightChanges(c, T2, n2)
BY VaultAssumption DEF RightChanges

LEMMA RightUpdateGrows ==
  ASSUME NEW T, NEW T2, T \subseteq T2, NEW n \in Nat, NEW n2 \in Nat, n <= n2,
         NEW v, NEW s, RightUpdate(s, v, T, n)
  PROVE  RightUpdate(s, v, T2, n2)
BY DEF RightUpdate

Grows ==
  /\ HistoryType /\ HistoryType'
  /\ \A v \in Vault : trusted[v] \subseteq trusted'[v] /\ failed[v] <= failed'[v]
  /\ unmarked \subseteq unmarked'

LEMMA RightStateGrows ==
  ASSUME Grows, NEW s, RightState(s, trusted, failed, unmarked)
  PROVE  RightState(s, trusted', failed', unmarked')
<1>1. \A v \in Vault : /\ trusted[v] \subseteq trusted'[v]
                       /\ failed[v] \in Nat /\ failed'[v] \in Nat /\ failed[v] <= failed'[v]
                       /\ unmarked \subseteq unmarked'
  BY VaultAssumption DEF Grows, HistoryType
<1>2. QED
  BY <1>1, RightGrows, RightChangesGrows, RightUpdateGrows DEF RightState, RightNext

(* A step of one worker, of a pin, or of both. *)
LEMMA StepInv ==
  ASSUME IInv, Grows, strays' = {},
         NEW v \in Vault, NEW p,
         p = NoPin \/ Right(p, v, trusted'[v], failed'[v], unmarked'),
         pin' = [pin EXCEPT ![v] = p],
         \/ UNCHANGED worker
         \/ \E w \in Worker : \E s : /\ worker' = [worker EXCEPT ![w] = s]
                                     /\ RightState(s, trusted', failed', unmarked')
  PROVE  IInv'
<1>1. \A x \in Vault : /\ trusted[x] \subseteq trusted'[x]
                       /\ failed[x] \in Nat /\ failed'[x] \in Nat /\ failed[x] <= failed'[x]
                       /\ unmarked \subseteq unmarked'
  BY VaultAssumption DEF Grows, HistoryType
<1>2. pin = [x \in Vault |-> pin[x]] /\ worker = [w \in Worker |-> worker[w]]
  BY DEF IInv
<1>3. pin' = [x \in Vault |-> pin'[x]] /\ \A x \in Vault : pin'[x] = IF x = v THEN p ELSE pin[x]
  BY <1>2
<1>4. PinsRight'
  <2> SUFFICES ASSUME NEW x \in Vault
               PROVE  pin'[x] = NoPin \/ Right(pin'[x], x, trusted'[x], failed'[x], unmarked')
    BY DEF PinsRight
  <2>1. CASE x = v
    BY <1>3, <2>1
  <2>2. CASE x # v
    <3>1. pin'[x] = pin[x]
      BY <1>3, <2>2
    <3>2. pin[x] = NoPin \/ Right(pin[x], x, trusted[x], failed[x], unmarked)
      BY DEF IInv, PinsRight
    <3>3. QED
      BY <1>1, <3>1, <3>2, RightGrows
  <2>3. QED
    BY <2>1, <2>2
<1>5. /\ worker' = [w \in Worker |-> worker'[w]]
      /\ \A w \in Worker : RightState(worker'[w], trusted', failed', unmarked')
  <2>1. \A w \in Worker : RightState(worker[w], trusted', failed', unmarked')
    BY RightStateGrows DEF IInv
  <2>2. QED
    BY <1>2, <2>1
<1>6. QED
  BY <1>3, <1>4, <1>5 DEF IInv, Grows
(* The same, for a step that moves no pin. *)
LEMMA WorkerInv ==
  ASSUME IInv, Grows, UNCHANGED <<pin, strays>>, NEW w \in Worker, NEW s,
         worker' = [worker EXCEPT ![w] = s], RightState(s, trusted', failed', unmarked')
  PROVE  IInv'
<1>1. /\ PinsRight'
      /\ pin' = [x \in Vault |-> pin'[x]]
  <2>1. \A x \in Vault : /\ trusted[x] \subseteq trusted'[x] /\ unmarked \subseteq unmarked'
                         /\ failed[x] \in Nat /\ failed'[x] \in Nat /\ failed[x] <= failed'[x]
    BY VaultAssumption DEF Grows, HistoryType
  <2>2. \A x \in Vault : pin[x] = NoPin \/ Right(pin[x], x, trusted'[x], failed'[x], unmarked')
    BY <2>1, RightGrows DEF IInv, PinsRight
  <2>3. QED
    BY <2>2 DEF IInv, PinsRight
<1>2. \A x \in Worker : RightState(worker[x], trusted', failed', unmarked')
  BY RightStateGrows DEF IInv
<1>3. worker = [x \in Worker |-> worker[x]]
  BY DEF IInv
<1>4. /\ worker' = [x \in Worker |-> worker'[x]]
      /\ \A x \in Worker : RightState(worker'[x], trusted', failed', unmarked')
  BY <1>2, <1>3
<1>5. QED
  BY <1>1, <1>4 DEF IInv, Grows

LEMMA SameHistory ==
  ASSUME IInv, HistoryUnchanged
  PROVE  Grows /\ strays' = {}
<1>1. \A v \in Vault : failed[v] <= failed[v]
  BY VaultAssumption DEF IInv, HistoryType
<1>2. QED
  BY <1>1 DEF IInv, HistoryUnchanged, Grows, HistoryType

(* What a worker holds once it read the pin. *)
LEMMA ToApplyRight ==
  ASSUME NEW v \in Vault, NEW p \in Pin, NEW m \in Manifest, NEW kind, NEW T, NEW n \in Nat,
         p.key \in T, p.failures <= n, SignedByPin(p, m), Behind(p, m)
  PROVE  RightUpdate(ToApply(v, p, m, kind), v, T, n)
<1>1. p.seq \in Nat /\ p.failures \in Nat /\ p.aged \in BOOLEAN
  BY VaultAssumption DEF Pin
<1>2. CASE kind = "tick"
  <2>1. PICK r : r = Restrict(p, {"seq", "failures", "aged"})
    OBVIOUS
  <2>2. r.seq = p.seq /\ r.failures = p.failures /\ r.aged = p.aged
    BY <2>1 DEF Restrict
  <2>3. ToApply(v, p, m, kind) = [at |-> "apply", kind |-> kind, v |-> v, m |-> m, pin |-> r]
    BY <1>2, <2>1 DEF ToApply, SeenByPass
  <2>4. QED
    BY <1>1, <2>2, <2>3 DEF RightUpdate, SignedByPin, Behind
<1>3. CASE kind # "tick"
  <2>1. PICK r : r = Restrict(p, {"seq"})
    OBVIOUS
  <2>2. r.seq = p.seq
    BY <2>1 DEF Restrict
  <2>3. ToApply(v, p, m, kind) = [at |-> "apply", kind |-> kind, v |-> v, m |-> m, pin |-> r]
    BY <1>3, <2>1 DEF ToApply, SeenByRequest
  <2>4. QED
    BY <1>1, <1>3, <2>2, <2>3 DEF RightUpdate, SignedByPin, Behind
<1>4. QED
  BY <1>2, <1>3

LEMMA UpdateSourceRight ==
  ASSUME NEW v \in Vault, NEW c, NEW next, NEW T, NEW n, NEW U,
         RightChanges(c, T[v], n[v]), RightNext(next, v, T[v], n[v])
  PROVE  RightState(UpdateSource(v, c, next), T, n, U)
BY DEF RightState, UpdateSource

-----------------------------------------------------------------------------
(* The invariant is inductive, one lemma per kind of step. *)

LEMMA InitInv == Init => IInv
<1> SUFFICES ASSUME Init PROVE IInv
  OBVIOUS
<1>1. HistoryType
  BY VaultAssumption DEF Init, HistoryType
<1>2. QED
  BY <1>1 DEF Init, IInv, PinsRight, RightState

LEMMA SubscribeInv ==
  ASSUME IInv, NEW v \in Vault, NEW m \in Manifest, Subscribe(v, m)
  PROVE  IInv'
<1>1. /\ trusted \in [Vault -> SUBSET Key] /\ trusted[v] = {} /\ m.key \in Key /\ m.seq \in 1..MaxSeq
      /\ trusted' = [trusted EXCEPT ![v] = {m.key}]
      /\ unmarked' = unmarked \cup {x \in {v} : m.seq \in RetiredAt}
      /\ UNCHANGED <<worker, strays, failed>>
  BY DEF IInv, HistoryType, Subscribe, Manifest
<1>2. Grows
  <2>1. HistoryType' /\ unmarked \subseteq unmarked'
    BY <1>1 DEF IInv, HistoryType
  <2>2. \A x \in Vault : trusted[x] \subseteq trusted'[x] /\ failed[x] <= failed'[x]
    BY <1>1, VaultAssumption DEF IInv, HistoryType
  <2>3. QED
    BY <2>1, <2>2 DEF IInv, Grows
<1>3. PICK p : p = And([key |-> m.key, seq |-> m.seq, retired |-> FALSE, blocked |-> NoKey,
                        auto |-> FALSE, due |-> TRUE], ClearFailures)
  OBVIOUS
<1>4. p = [key |-> m.key, seq |-> m.seq, retired |-> FALSE, blocked |-> NoKey, auto |-> FALSE,
           due |-> TRUE, failures |-> 0, aged |-> FALSE, unreachable |-> "no"]
  BY <1>3 DEF And, ClearFailures
<1>5. p \in Pin
  BY <1>1, <1>4, VaultAssumption DEF Pin
<1>6. failed'[v] \in Nat /\ 0 <= failed'[v]
  BY <1>2, VaultAssumption DEF Grows, HistoryType
<1>7. Right(p, v, trusted'[v], failed'[v], unmarked')
  BY <1>1, <1>4, <1>5, <1>6 DEF Right
<1>8. pin' = [pin EXCEPT ![v] = p] /\ strays' = {}
  BY <1>1, <1>3 DEF Subscribe, IInv
<1>9. QED
  BY <1>1, <1>2, <1>7, <1>8, StepInv

(* A check, whose answer is recorded or applied later. *)
LEMMA CheckInv ==
  ASSUME IInv, NEW v \in Vault, NEW m \in Manifest,
         \/ PassChecks(v, m)
         \/ \E r \in Req, kind \in {"check", "update"} : RequestChecks(r, v, m, kind)
  PROVE  IInv'
<1>1. /\ pin[v] # NoPin /\ Right(pin[v], v, trusted[v], failed[v], unmarked) /\ m.key \in Key
      /\ UNCHANGED pin /\ HistoryUnchanged
  BY DEF IInv, PinsRight, PassChecks, Due, RequestChecks, Manifest
<1>2. Grows /\ strays' = {} /\ UNCHANGED <<pin, strays, trusted, failed, unmarked>>
  BY <1>1, SameHistory DEF HistoryUnchanged
<1>3. failed[v] \in Nat
  BY VaultAssumption DEF IInv, HistoryType
<1>4. \A kind : SignedByPin(pin[v], m) /\ Behind(pin[v], m) =>
        RightUpdate(ToApply(v, pin[v], m, kind), v, trusted[v], failed[v])
  BY <1>1, <1>3, ToApplyRight DEF Right
<1>5. RightNext(Idle, v, trusted[v], failed[v])
  BY DEF RightNext
<1>6. CASE PassChecks(v, m)
  <2>1. \/ Goto(Tick, UpdateSource(v, And([blocked |-> m.key], And(Checked, ClearFailures)), Idle))
        \/ SignedByPin(pin[v], m) /\ Behind(pin[v], m) /\ Goto(Tick, ToApply(v, pin[v], m, "tick"))
        \/ Goto(Tick, UpdateSource(v, And(Checked, ClearFailures), Idle))
    BY <1>6 DEF PassChecks
  <2>2. PICK s : Goto(Tick, s) /\ RightState(s, trusted, failed, unmarked)
    <3>1. RightState(UpdateSource(v, And([blocked |-> m.key], And(Checked, ClearFailures)), Idle),
                     trusted, failed, unmarked)
      BY <1>1, <1>3, <1>5, BlockedRight, UpdateSourceRight
    <3>2. RightState(UpdateSource(v, And(Checked, ClearFailures), Idle), trusted, failed, unmarked)
      BY <1>3, <1>5, CheckedRight, UpdateSourceRight
    <3>3. SignedByPin(pin[v], m) /\ Behind(pin[v], m) =>
            RightState(ToApply(v, pin[v], m, "tick"), trusted, failed, unmarked)
      BY <1>4 DEF RightState, ToApply
    <3>4. QED
      BY <2>1, <3>1, <3>2, <3>3
  <2>3. QED
    BY <1>2, <2>2, WorkerInv DEF Goto, Worker
<1>7. ASSUME NEW r \in Req, NEW kind \in {"check", "update"}, RequestChecks(r, v, m, kind)
      PROVE  IInv'
  <2>1. \/ Goto(r, UpdateSource(v, [blocked |-> m.key], Idle))
        \/ SignedByPin(pin[v], m) /\ Behind(pin[v], m)
           /\ Goto(r, UpdateSource(v, And(Checked, ClearFailures), ToApply(v, pin[v], m, kind)))
        \/ Goto(r, UpdateSource(v, And(Checked, ClearFailures), Idle))
    BY <1>7 DEF RequestChecks
  <2>2. PICK s : Goto(r, s) /\ RightState(s, trusted, failed, unmarked)
    <3>1. RightState(UpdateSource(v, [blocked |-> m.key], Idle), trusted, failed, unmarked)
      BY <1>1, <1>3, <1>5, BlockedRight, UpdateSourceRight
    <3>2. RightState(UpdateSource(v, And(Checked, ClearFailures), Idle), trusted, failed, unmarked)
      BY <1>3, <1>5, CheckedRight, UpdateSourceRight
    <3>3. SignedByPin(pin[v], m) /\ Behind(pin[v], m) =>
            RightState(UpdateSource(v, And(Checked, ClearFailures), ToApply(v, pin[v], m, kind)),
                       trusted, failed, unmarked)
      BY <1>3, <1>4, CheckedRight, UpdateSourceRight DEF RightNext
    <3>4. QED
      BY <2>1, <3>1, <3>2, <3>3
  <2>3. QED
    BY <1>2, <2>2, WorkerInv DEF Goto, Worker
<1>8. QED
  BY <1>6, <1>7
(* A failed check enters the history. *)
LEMMA FailedGrows ==
  ASSUME IInv, NEW v \in Vault, failed[v] < MaxFailures,
         failed' = [failed EXCEPT ![v] = @ + 1], UNCHANGED <<trusted, unmarked>>
  PROVE  Grows /\ failed[v] \in Nat /\ failed'[v] = failed[v] + 1
<1>1. failed \in [Vault -> 0..MaxFailures] /\ MaxFailures \in Nat
  BY VaultAssumption DEF IInv, HistoryType
<1>2. failed' \in [Vault -> 0..MaxFailures]
  BY <1>1
<1>3. \A x \in Vault : failed[x] <= failed'[x]
  BY <1>1
<1>4. failed'[v] = failed[v] + 1 /\ failed[v] \in Nat
  BY <1>1
<1>5. QED
  BY <1>2, <1>3, <1>4 DEF IInv, Grows, HistoryType

LEMMA PassCheckFailsInv ==
  ASSUME IInv, NEW v \in Vault, PassCheckFails(v)
  PROVE  IInv'
<1>1. Grows /\ failed[v] \in Nat /\ failed'[v] = failed[v] + 1
  BY FailedGrows DEF PassCheckFails
<1>2. Right(pin[v], v, trusted[v], failed[v], unmarked)
  BY DEF IInv, PinsRight, PassCheckFails, Due
<1>3. PICK p : p = pin[v]
  OBVIOUS
<1>4. p.failures \in Nat /\ p.aged \in BOOLEAN /\ p.failures <= failed[v]
  BY <1>2, <1>3, VaultAssumption DEF Right, Pin
<1>5. /\ RightChanges(And(Checked, FailureStateAfter(p)), trusted'[v], failed'[v])
      /\ RightChanges(And(Checked, [unreachable |-> "took_down"]), trusted'[v], failed'[v])
  BY <1>1, <1>4, FailureRight, CheckedRight
<1>6. PICK s : Goto(Tick, s) /\ RightState(s, trusted', failed', unmarked')
  BY <1>3, <1>5, UpdateSourceRight DEF PassCheckFails, RightNext
<1>7. UNCHANGED <<pin, strays>>
  BY DEF PassCheckFails
<1>8. QED
  BY <1>1, <1>6, <1>7, WorkerInv DEF Goto, Worker

(* The load merges the changes into whatever is stored by then. *)
LEMMA LoadInv ==
  ASSUME IInv, NEW w \in Worker, Load(w)
  PROVE  IInv'
<1>1. PICK s : s = worker[w]
  OBVIOUS
<1>2. /\ s.at = "load" /\ s.v \in Vault
      /\ RightChanges(s.changes, trusted[s.v], failed[s.v])
      /\ RightNext(s.next, s.v, trusted[s.v], failed[s.v])
  BY <1>1 DEF Load, IInv, RightState, RightUpdate, Idle
<1>3. /\ UNCHANGED <<pin, strays, trusted, failed, unmarked>> /\ HistoryUnchanged
      /\ Goto(w, IF pin[s.v] = NoPin THEN Idle
                 ELSE [at |-> "store", v |-> s.v, body |-> Merged(pin[s.v], s.changes),
                       next |-> s.next])
  BY <1>1 DEF Load, HistoryUnchanged
<1>4. Grows
  BY <1>3, SameHistory
<1>5. ASSUME pin[s.v] # NoPin
      PROVE  RightState([at |-> "store", v |-> s.v, body |-> Merged(pin[s.v], s.changes),
                         next |-> s.next], trusted, failed, unmarked)
  <2>1. /\ Right(pin[s.v], s.v, trusted[s.v], failed[s.v], unmarked)
        /\ trusted[s.v] \in SUBSET Key /\ failed[s.v] \in 0..MaxFailures
    BY <1>2, <1>5 DEF IInv, PinsRight, HistoryType
  <2>2. Right(Merged(pin[s.v], s.changes), s.v, trusted[s.v], failed[s.v], unmarked)
    BY <1>2, <2>1, MergedRight
  <2>3. QED
    BY <1>2, <2>2 DEF RightState
<1>6. PICK n : Goto(w, n) /\ RightState(n, trusted, failed, unmarked)
  BY <1>3, <1>5 DEF RightState
<1>7. QED
  BY <1>3, <1>4, <1>6, WorkerInv DEF Goto

(* The store writes a body that may be stale, and is right all the same. *)
LEMMA StoreInv ==
  ASSUME IInv, NEW w \in Worker, Store(w)
  PROVE  IInv'
<1>1. PICK s : s = worker[w]
  OBVIOUS
<1>2. /\ s.at = "store" /\ s.v \in Vault
      /\ Right(s.body, s.v, trusted[s.v], failed[s.v], unmarked)
      /\ RightNext(s.next, s.v, trusted[s.v], failed[s.v])
  BY <1>1 DEF Store, IInv, RightState, RightUpdate, Idle
<1>3. /\ UNCHANGED <<strays, trusted, failed, unmarked>> /\ HistoryUnchanged
      /\ pin' = (IF pin[s.v] = NoPin THEN pin ELSE [pin EXCEPT ![s.v] = s.body])
      /\ Goto(w, s.next)
  BY <1>1 DEF Store, HistoryUnchanged
<1>4. Grows /\ strays' = {}
  BY <1>3, SameHistory
<1>5. RightState(s.next, trusted', failed', unmarked')
  <2>1. s.next = Idle \/ (s.next.v = s.v /\ RightUpdate(s.next, s.v, trusted[s.v], failed[s.v]))
    BY <1>2 DEF RightNext, RightUpdate
  <2>2. QED
    BY <1>2, <1>3, <2>1 DEF RightState
<1>6. CASE pin[s.v] = NoPin
  BY <1>3, <1>4, <1>5, <1>6, WorkerInv DEF Goto
<1>7. CASE pin[s.v] # NoPin
  <2>1. PICK b : b = s.body
    OBVIOUS
  <2>2. PICK x \in Vault : x = s.v
    BY <1>2
  <2>3. pin' = [pin EXCEPT ![x] = b] /\ Right(b, x, trusted'[x], failed'[x], unmarked')
    BY <1>2, <1>3, <1>7, <2>1, <2>2
  <2>4. QED
    BY <1>3, <1>4, <1>5, <2>3, StepInv DEF Goto
<1>8. QED
  BY <1>6, <1>7

(* An update lands over the pin as it is now; its key was accepted. *)
LEMMA ApplyInv ==
  ASSUME IInv, NEW w \in Worker, Apply(w)
  PROVE  IInv'
<1>1. PICK s : s = worker[w]
  OBVIOUS
<1>2. /\ s.at = "apply" /\ s.v \in Vault /\ s.m \in Manifest /\ s.m.key \in trusted[s.v]
  BY <1>1 DEF Apply, IInv, RightState, RightUpdate, Idle
<1>3. /\ UNCHANGED <<trusted, failed, unmarked>>
      /\ pin[s.v] # NoPin /\ pin' = [pin EXCEPT ![s.v] = Merged(@, Repinned(s.m))]
      /\ strays' = strays \cup {v \in {s.v} : s.m.key \notin trusted[v]}
      /\ Goto(w, IF s.kind = "tick" THEN UpdateSource(s.v, ClearFailures, Idle) ELSE Idle)
  BY <1>1 DEF Apply
<1>4. strays' = {} /\ UNCHANGED strays
  BY <1>2, <1>3 DEF IInv
<1>5. Grows
  BY <1>3, <1>4, SameHistory DEF HistoryUnchanged
<1>6. PICK x \in Vault : x = s.v
  BY <1>2
<1>7. PICK b : b = Merged(pin[x], Repinned(s.m))
  OBVIOUS
<1>8. Right(b, x, trusted'[x], failed'[x], unmarked')
  <2>1. /\ Right(pin[x], x, trusted[x], failed[x], unmarked)
        /\ trusted[x] \in SUBSET Key /\ failed[x] \in 0..MaxFailures
    BY <1>3, <1>6 DEF IInv, PinsRight, HistoryType
  <2>2. Right(b, x, trusted[x], failed[x], unmarked)
    BY <1>2, <1>7, <2>1, RepinnedRight
  <2>3. QED
    BY <1>3, <2>2
<1>9. PICK n : Goto(w, n) /\ RightState(n, trusted', failed', unmarked')
  <2>1. failed[x] \in Nat
    BY VaultAssumption DEF IInv, HistoryType
  <2>2. RightState(UpdateSource(x, ClearFailures, Idle), trusted, failed, unmarked)
    BY <2>1, CheckedRight, UpdateSourceRight DEF RightNext
  <2>3. RightState(Idle, trusted, failed, unmarked)
    BY DEF RightState
  <2>4. QED
    BY <1>3, <1>6, <2>2, <2>3
<1>10. pin' = [pin EXCEPT ![x] = b]
  BY <1>3, <1>6, <1>7 DEF IInv
<1>11. QED
  BY <1>4, <1>5, <1>8, <1>9, <1>10, StepInv DEF Goto
(* Nothing lands; the pass counts the failure over the pin it had read. *)
LEMMA ApplyFailsInv ==
  ASSUME IInv, NEW w \in Worker, ApplyFails(w)
  PROVE  IInv'
<1>1. PICK s : s = worker[w]
  OBVIOUS
<1>2. /\ s.at = "apply" /\ s.v \in Vault
      /\ RightUpdate(s, s.v, trusted[s.v], failed[s.v])
  BY <1>1 DEF ApplyFails, IInv, RightState, RightUpdate, Idle
<1>3. /\ UNCHANGED <<pin, trusted, unmarked, strays>>
      /\ IF s.kind # "tick" THEN Goto(w, Idle) /\ UNCHANGED failed
         ELSE /\ failed[s.v] < MaxFailures
              /\ failed' = [failed EXCEPT ![s.v] = @ + 1]
              /\ Goto(w, UpdateSource(s.v, And(Checked, FailureStateAfter(s.pin)), Idle))
  BY <1>1 DEF ApplyFails
<1>4. CASE s.kind # "tick"
  <2>1. Grows
    BY <1>3, <1>4, SameHistory DEF HistoryUnchanged
  <2>2. RightState(Idle, trusted', failed', unmarked')
    BY DEF RightState
  <2>3. QED
    BY <1>3, <1>4, <2>1, <2>2, WorkerInv DEF Goto
<1>5. CASE s.kind = "tick"
  <2>1. PICK x \in Vault : x = s.v
    BY <1>2
  <2>2. Grows /\ failed[x] \in Nat /\ failed'[x] = failed[x] + 1
    BY <1>3, <1>5, <2>1, FailedGrows
  <2>3. PICK p : p = s.pin
    OBVIOUS
  <2>4. p.failures \in Nat /\ p.aged \in BOOLEAN /\ p.failures <= failed[x]
    BY <1>2, <1>5, <2>1, <2>3 DEF RightUpdate
  <2>5. RightChanges(And(Checked, FailureStateAfter(p)), trusted'[x], failed'[x])
    BY <2>2, <2>4, FailureRight
  <2>6. PICK n : Goto(w, n) /\ RightState(n, trusted', failed', unmarked')
    BY <1>3, <1>5, <2>1, <2>3, <2>5, UpdateSourceRight DEF RightNext
  <2>7. QED
    BY <1>3, <2>2, <2>6, WorkerInv DEF Goto
<1>6. QED
  BY <1>4, <1>5

(* A key enters the history before it can enter a pin. *)
LEMMA TrustInv ==
  ASSUME IInv, NEW r \in Req, NEW v \in Vault, NEW k \in Key, TrustPublisher(r, v, k)
  PROVE  IInv'
<1>1. /\ trusted \in [Vault -> SUBSET Key]
      /\ trusted' = [trusted EXCEPT ![v] = @ \cup {k}]
      /\ UNCHANGED <<pin, unmarked, strays, failed>>
      /\ Goto(r, UpdateSource(v, [key |-> k, blocked |-> NoKey], Idle))
  BY DEF IInv, HistoryType, TrustPublisher
<1>2. Grows
  <2>1. HistoryType' /\ unmarked \subseteq unmarked'
    BY <1>1 DEF IInv, HistoryType
  <2>2. \A x \in Vault : trusted[x] \subseteq trusted'[x] /\ failed[x] <= failed'[x]
    BY <1>1, VaultAssumption DEF IInv, HistoryType
  <2>3. QED
    BY <2>1, <2>2 DEF IInv, Grows
<1>3. k \in trusted'[v]
  BY <1>1
<1>4. RightChanges([key |-> k, blocked |-> NoKey], trusted'[v], failed'[v])
  BY <1>3 DEF RightChanges
<1>5. RightState(UpdateSource(v, [key |-> k, blocked |-> NoKey], Idle),
                 trusted', failed', unmarked')
  BY <1>4, UpdateSourceRight DEF RightNext
<1>6. QED
  BY <1>1, <1>2, <1>5, WorkerInv DEF Goto, Worker

LEMMA SetSubscriptionInv ==
  ASSUME IInv, NEW r \in Req, NEW v \in Vault, NEW auto \in BOOLEAN,
         SetSubscription(r, v, auto)
  PROVE  IInv'
<1>1. /\ UNCHANGED <<pin, strays>> /\ HistoryUnchanged
      /\ Goto(r, UpdateSource(v, [auto |-> auto], Idle))
  BY DEF SetSubscription, HistoryUnchanged
<1>2. Grows
  BY <1>1, SameHistory
<1>3. RightChanges([auto |-> auto], trusted'[v], failed'[v])
  BY DEF RightChanges
<1>4. RightState(UpdateSource(v, [auto |-> auto], Idle), trusted', failed', unmarked')
  BY <1>3, UpdateSourceRight DEF RightNext
<1>5. QED
  BY <1>1, <1>2, <1>4, WorkerInv DEF Goto, Worker

(* A deleted vault, and time passing over a pin. *)
LEMMA PinInv ==
  ASSUME IInv, NEW v \in Vault, DeleteVault(v) \/ BecomesDue(v) \/ WeekPasses(v)
  PROVE  IInv'
<1>1. UNCHANGED worker /\ HistoryUnchanged /\ pin[v] # NoPin
  BY DEF DeleteVault, BecomesDue, WeekPasses
<1>2. Grows /\ strays' = {}
  BY <1>1, SameHistory
<1>3. PICK b : b = pin[v]
  OBVIOUS
<1>4. /\ Right(b, v, trusted[v], failed[v], unmarked)
      /\ UNCHANGED <<trusted, failed, unmarked>>
  BY <1>1, <1>3 DEF IInv, PinsRight, HistoryUnchanged
<1>5. CASE DeleteVault(v)
  BY <1>1, <1>2, <1>5, StepInv DEF DeleteVault
<1>6. CASE BecomesDue(v)
  <2>1. PICK p : p = [b EXCEPT !.due = TRUE]
    OBVIOUS
  <2>2. Right(p, v, trusted'[v], failed'[v], unmarked')
    BY <1>4, <2>1 DEF Right, Pin
  <2>3. pin' = [pin EXCEPT ![v] = p]
    BY <1>3, <1>6, <2>1 DEF BecomesDue, IInv
  <2>4. QED
    BY <1>1, <1>2, <2>2, <2>3, StepInv
<1>7. CASE WeekPasses(v)
  <2>1. PICK p : p = [b EXCEPT !.aged = TRUE]
    OBVIOUS
  <2>2. Right(p, v, trusted'[v], failed'[v], unmarked')
    BY <1>4, <2>1 DEF Right, Pin
  <2>3. pin' = [pin EXCEPT ![v] = p]
    BY <1>3, <1>7, <2>1 DEF WeekPasses, IInv
  <2>4. QED
    BY <1>1, <1>2, <2>2, <2>3, StepInv
<1>8. QED
  BY <1>5, <1>6, <1>7

LEMMA StutterInv ==
  ASSUME IInv, UNCHANGED vars
  PROVE  IInv'
BY DEF IInv, HistoryType, PinsRight, Right, RightState, vars

LEMMA Inductive == IInv /\ [Next]_vars => IInv'
<1> SUFFICES ASSUME IInv, [Next]_vars PROVE IInv'
  OBVIOUS
<1>1. ASSUME NEW v \in Vault, NEW m \in Manifest, Subscribe(v, m)
      PROVE  IInv'
  BY <1>1, SubscribeInv
<1>2. ASSUME NEW v \in Vault, Pass(v)
      PROVE  IInv'
  BY <1>2, PassCheckFailsInv, CheckInv DEF Pass
<1>3. ASSUME NEW v \in Vault, DeleteVault(v) \/ BecomesDue(v) \/ WeekPasses(v)
      PROVE  IInv'
  BY <1>3, PinInv
<1>4. ASSUME NEW r \in Req, NEW v \in Vault, NEW m \in Manifest,
             NEW kind \in {"check", "update"}, RequestChecks(r, v, m, kind)
      PROVE  IInv'
  BY <1>4, CheckInv
<1>5. ASSUME NEW r \in Req, NEW v \in Vault,
             \/ \E k \in Key : TrustPublisher(r, v, k)
             \/ \E auto \in BOOLEAN : SetSubscription(r, v, auto)
      PROVE  IInv'
  BY <1>5, TrustInv, SetSubscriptionInv
<1>6. ASSUME NEW w \in Worker, WorkerStep(w)
      PROVE  IInv'
  BY <1>6, LoadInv, StoreInv, ApplyInv, ApplyFailsInv DEF WorkerStep
<1>7. QED
  BY <1>1, <1>2, <1>3, <1>4, <1>5, <1>6, StutterInv DEF Next

LEMMA Invariance == Spec => []IInv
BY InitInv, Inductive, PTL DEF Spec

-----------------------------------------------------------------------------
(* What a behaviour can count on.                                          *)

(* Every pin stays a pin and every worker knows where it is, although whole*)
(* bodies are written back over each other (VaultStore.update_source).     *)
THEOREM Typing == Spec => []TypeOK
<1>1. IInv => TypeOK
  <2> SUFFICES ASSUME IInv PROVE TypeOK
    OBVIOUS
  <2>1. ASSUME NEW v \in Vault
        PROVE  pin[v] \in Pin \cup {NoPin}
    BY DEF IInv, PinsRight, Right
  <2>2. pin \in [Vault -> Pin \cup {NoPin}]
    BY <2>1 DEF IInv
  <2>3. ASSUME NEW w \in Worker
        PROVE  /\ worker[w].at \in {"idle", "load", "store", "apply"}
               /\ worker[w].at # "idle" => worker[w].v \in Vault
               /\ worker[w].at = "store" => worker[w].body \in Pin
               /\ worker[w].at = "apply" => worker[w].m \in Manifest
    BY DEF IInv, RightState, Right, RightUpdate, Idle
  <2>4. DOMAIN worker = Worker
    BY DEF IInv
  <2>5. QED
    BY <2>2, <2>3, <2>4 DEF IInv, HistoryType, TypeOK
<1>2. QED
  BY <1>1, Invariance, PTL

(* No document lands that was not signed by a key the user accepted, for   *)
(* any number of requests that trust, check and apply over stale pins      *)
(* (vault_sync.check, vault_routes.trust_publisher).                       *)
THEOREM AcceptedKeysOnly == Spec => []OnlyTrustedKeysLand
<1>1. IInv => OnlyTrustedKeysLand
  BY DEF IInv, OnlyTrustedKeysLand
<1>2. QED
  BY <1>1, Invariance, PTL

(* The pinned seq and the retired mark are of one manifest, although stale *)
(* bodies are written back over them (vault_sync._write).                  *)
THEOREM SeqAndMarkTogether == Spec => []StateMovesTogether
<1>1. IInv => StateMovesTogether
  BY DEF IInv, PinsRight, Right, StateMovesTogether
<1>2. QED
  BY <1>1, Invariance, PTL

(* A host is declared dead only after the whole budget of failures, which  *)
(* are counted in a body that others write (vault_sync._failure_state_after).*)
THEOREM DeadHostsFailed == Spec => []UnreachableIsEarned
<1>1. IInv => UnreachableIsEarned
  BY DEF IInv, PinsRight, Right, UnreachableIsEarned
<1>2. QED
  BY <1>1, Invariance, PTL

(* The seq floor falls only when a worker acts on a pin that has moved     *)
(* since it was read (vault_sync.check against the pin of the read).       *)
THEOREM FloorHolds == Spec => FloorFallsOnlyBehindARace
<1> DEFINE Behind2(w, v) ==
      /\ worker'[w] # worker[w] /\ worker[w].v = v
      /\ CASE worker[w].at = "apply" -> worker[w].pin.seq # pin[v].seq
           [] worker[w].at = "store" -> worker[w].body.seq # pin[v].seq
<1> DEFINE Floor == \A v \in Vault :
      (pin[v] # NoPin /\ pin'[v] # NoPin /\ pin'[v].seq < pin[v].seq) =>
        \E w \in Worker : Behind2(w, v)
<1>1. IInv /\ [Next]_vars => [Floor]_vars
  <2> SUFFICES ASSUME IInv, Next, NEW v \in Vault,
                      pin[v] # NoPin, pin'[v] # NoPin, pin'[v].seq < pin[v].seq
               PROVE  \E w \in Worker : Behind2(w, v)
    OBVIOUS
  <2>1. pin[v] \in Pin /\ pin[v].seq \in Nat /\ pin = [x \in Vault |-> pin[x]]
        /\ worker = [x \in Worker |-> worker[x]]
    BY DEF IInv, PinsRight, Right, Pin
  <2>2. ASSUME UNCHANGED pin PROVE FALSE
    BY <2>1, <2>2
  <2>3. ASSUME NEW x \in Vault, DeleteVault(x) PROVE FALSE
    BY <2>1, <2>3 DEF DeleteVault
  <2>4. ASSUME NEW x \in Vault, NEW m \in Manifest, Subscribe(x, m) PROVE FALSE
    BY <2>1, <2>4 DEF Subscribe
  <2>5. ASSUME NEW x \in Vault, BecomesDue(x) \/ WeekPasses(x) PROVE FALSE
    <3>1. pin'[v].seq = pin[v].seq
      BY <2>1, <2>5 DEF BecomesDue, WeekPasses, Pin
    <3>2. QED
      BY <2>1, <3>1
  <2>6. PICK w \in Worker : Store(w) \/ Apply(w)
    BY <2>2, <2>3, <2>4, <2>5
       DEF Next, Pass, PassCheckFails, PassChecks, RequestChecks, TrustPublisher,
           SetSubscription, WorkerStep, Load, ApplyFails
  <2>7. PICK s : s = worker[w]
    OBVIOUS
  <2>8. RightState(s, trusted, failed, unmarked)
    BY <2>7 DEF IInv
  <2>9. CASE Store(w)
    <3>1. /\ s.at = "store" /\ worker'[w] = s.next /\ s.v \in Vault
          /\ RightNext(s.next, s.v, trusted[s.v], failed[s.v])
      BY <2>1, <2>7, <2>8, <2>9 DEF Store, Goto, RightState, RightUpdate, Idle
    <3>2. s.v = v /\ pin'[v] = s.body
      BY <2>1, <2>7, <2>9, <3>1 DEF Store
    <3>3. s.next.at # "store"
      BY <3>1 DEF RightNext, RightUpdate, Idle
    <3>4. s.body.seq # pin[v].seq
      BY <2>1, <3>2
    <3>5. QED
      BY <2>7, <3>1, <3>2, <3>3, <3>4
  <2>10. CASE Apply(w)
    <3>1. /\ s.at = "apply" /\ s.v \in Vault /\ s.m \in Manifest
          /\ s.pin.seq \in Nat /\ s.m.seq > s.pin.seq
      BY <2>7, <2>8, <2>10 DEF Apply, RightState, RightUpdate, Idle
    <3>2. s.v = v /\ pin'[v] = Merged(pin[v], Repinned(s.m))
      BY <2>1, <2>7, <2>10, <3>1 DEF Apply
    <3>3. s.m.seq \in Nat /\ pin'[v].seq = s.m.seq
      <4>1. /\ Right(pin[v], v, trusted[v], failed[v], unmarked)
            /\ trusted[v] \in SUBSET Key /\ failed[v] \in 0..MaxFailures
        BY DEF IInv, PinsRight, HistoryType
      <4>2. QED
        BY <3>1, <3>2, <4>1, RepinnedRight DEF Manifest
    <3>4. s.pin.seq # pin[v].seq
      BY <2>1, <3>1, <3>3
    <3>5. worker'[w] # s
      <4>1. worker'[w] = IF s.kind = "tick" THEN UpdateSource(s.v, ClearFailures, Idle) ELSE Idle
        BY <2>1, <2>7, <2>10 DEF Apply, Goto
      <4>2. worker'[w].at # "apply"
        BY <4>1 DEF UpdateSource, Idle
      <4>3. QED
        BY <3>1, <4>2
    <3>6. QED
      BY <2>7, <3>1, <3>2, <3>4, <3>5
  <2>11. QED
    BY <2>6, <2>9, <2>10
<1>2. QED
  BY <1>1, Invariance, PTL DEF Spec, FloorFallsOnlyBehindARace
=============================================================================
