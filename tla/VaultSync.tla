----------------------------- MODULE VaultSync ------------------------------
(***************************************************************************)
(* Keeping subscribed vaults up to date.  The pin of a subscription (the   *)
(* "source" of the vault's sealed body) is the only authority over what a  *)
(* host may change: the publisher's key, the seq floor, the blocked mark   *)
(* of a pending key change.  The scheduler's vault pass and the requests   *)
(* of the vault pages check the same hosts and write the same pins, each   *)
(* from a pin it read before the fetch, and nothing locks a pin: its       *)
(* update is a read and a write of the whole body (VaultStore.             *)
(* update_source), two statements with other writers between them.         *)
(***************************************************************************)
EXTENDS Naturals, Functions

CONSTANTS
  Vault,        \* vault ids a behaviour may subscribe
  Key,          \* publisher keys
  Tick,         \* the thread that runs the scheduler's vault pass
  Req,          \* requests of the vault pages
  MaxSeq,       \* bound on the publish counter of a manifest
  RetiredAt,    \* seqs of the manifests that carry the retired mark
  FailureCount, \* vault_sync._UNREACHABLE_FAILURE_COUNT
  MaxFailures,  \* bound on the failed checks of the vault pass
  NoPin         \* a vault that is not subscribed

ASSUME VaultAssumption ==
  /\ MaxSeq \in Nat \ {0} /\ RetiredAt \subseteq 1..MaxSeq
  /\ FailureCount \in Nat \ {0} /\ MaxFailures \in Nat
  /\ Tick \notin Req

VARIABLES
  pin,      \* [Vault -> the stored pin, or NoPin]
  worker,   \* [Worker -> where a pass or a request is, and what it read]
  (* History. *)
  trusted,  \* [Vault -> keys the user subscribed with or chose to trust]
  unmarked, \* vaults that were already retired when they were subscribed to
  strays,   \* vaults into which documents of an untrusted key landed
  failed    \* [Vault -> failed checks of the vault pass]

vars == <<pin, worker, trusted, unmarked, strays, failed>>

Worker == {Tick} \cup Req
NoKey == "no key"
Pin == [key : Key, seq : 1..MaxSeq, retired : BOOLEAN, blocked : Key \cup {NoKey},
        auto : BOOLEAN, due : BOOLEAN, failures : 0..(FailureCount + MaxFailures),
        aged : BOOLEAN, unreachable : {"no", "took_down", "dead_host"}]

Manifest == [key : Key, seq : 1..MaxSeq]
Idle == [at |-> "idle"]

-----------------------------------------------------------------------------
(* Changes to a body, those of c before those of d (an operator of its own, *)
(* because the provers do not expand TLC's).                                *)
And(c, d) == [f \in DOMAIN c \cup DOMAIN d |-> IF f \in DOMAIN c THEN c[f] ELSE d[f]]

(* update_source merges the changes into the body it loaded. *)
Merged(b, changes) ==
  [f \in DOMAIN b |-> IF f \in DOMAIN changes THEN changes[f] ELSE b[f]]

(* vault_sync._clear_failure_state, and last_checked set to now. *)
ClearFailures_StoresNone == [failures |-> 0, aged |-> FALSE, unreachable |-> "None"]
ClearFailures == [failures |-> 0, aged |-> FALSE, unreachable |-> "no"]
Checked_Forgotten == <<>>
Checked == [due |-> FALSE]

(* vault_sync._failure_state_after, from the pin the pass read. *)
FailureStateAfter_AtOnce(p) ==
  [failures |-> p.failures + 1, aged |-> p.failures > 0 /\ p.aged,
   unreachable |-> "dead_host"]
FailureStateAfter(p) ==
  IF p.failures + 1 >= FailureCount /\ p.failures > 0 /\ p.aged
    THEN [failures |-> p.failures + 1, aged |-> TRUE, unreachable |-> "dead_host"]
    ELSE [failures |-> p.failures + 1, aged |-> p.failures > 0 /\ p.aged]

(* vault_sync.check: the signature is verified against the key of the pin   *)
(* that was read, and only a greater seq is an update.                      *)
SignedByPin_AnyKey(p, m) == p # NoPin
SignedByPin(p, m) == m.key = p.key
Behind_Unordered(p, m) == m.seq # p.seq
Behind(p, m) == m.seq > p.seq

(* vault_sync._due_subscriptions. *)
Due(v) ==
  /\ pin[v] # NoPin /\ pin[v].auto /\ pin[v].due
  /\ pin[v].blocked = NoKey /\ ~pin[v].retired /\ pin[v].unreachable = "no"

Goto(w, s) == worker' = [worker EXCEPT ![w] = s]
HistoryUnchanged == UNCHANGED <<trusted, unmarked, strays, failed>>

Init ==
  /\ pin = [v \in Vault |-> NoPin] /\ worker = [w \in Worker |-> Idle]
  /\ trusted = [v \in Vault |-> {}] /\ unmarked = {}
  /\ strays = {} /\ failed = [v \in Vault |-> 0]

-----------------------------------------------------------------------------
(* vault_routes.subscribe_vault pins the key, the seq and nothing else; a   *)
(* manifest that is already retired leaves no mark.                         *)
Subscribe(v, m) ==
  /\ pin[v] = NoPin /\ trusted[v] = {}
  /\ pin' = [pin EXCEPT ![v] =
       And([key |-> m.key, seq |-> m.seq, retired |-> FALSE, blocked |-> NoKey,
            auto |-> FALSE, due |-> TRUE], ClearFailures)]
  /\ trusted' = [trusted EXCEPT ![v] = {m.key}]
  /\ unmarked' = unmarked \cup {x \in {v} : m.seq \in RetiredAt}
  /\ UNCHANGED <<worker, strays, failed>>

(* An update_source: the body is loaded by one statement and stored, with   *)
(* the changes merged in, by another; then the worker goes on.              *)
UpdateSource(v, changes, next) ==
  [at |-> "load", v |-> v, changes |-> changes, next |-> next]

(* What is kept of the pin a worker read, until the update is applied.      *)
SeenByPass == {"seq", "failures", "aged"}
SeenByRequest == {"seq"}
ToApply(v, p, m, kind) ==
  [at |-> "apply", kind |-> kind, v |-> v, m |-> m,
   pin |-> Restrict(p, IF kind = "tick" THEN SeenByPass ELSE SeenByRequest)]

(* The pass lists the due pins before it fetches anything.  The fetch reads *)
(* nothing that is shared, so that a check is one step with the read of its *)
(* pin; what it found is recorded or applied later, over a pin that others  *)
(* may have moved.                                                          *)
PassChecks(v, m) ==
  /\ worker[Tick] = Idle /\ Due(v)
  /\ Goto(Tick,
       CASE ~SignedByPin(pin[v], m) ->
              UpdateSource(v, And([blocked |-> m.key], And(Checked, ClearFailures)), Idle)
         [] SignedByPin(pin[v], m) /\ Behind(pin[v], m) ->
              ToApply(v, pin[v], m, "tick")
         [] SignedByPin(pin[v], m) /\ ~Behind(pin[v], m) ->
              UpdateSource(v, And(Checked, ClearFailures), Idle))
  /\ UNCHANGED pin /\ HistoryUnchanged

(* vault_sync._record_check_failure: a 410 ends the subscription at once,   *)
(* any other failure is counted.                                            *)
PassCheckFails(v) ==
  /\ worker[Tick] = Idle /\ Due(v)
  /\ failed[v] < MaxFailures
  /\ failed' = [failed EXCEPT ![v] = @ + 1]
  /\ \/ Goto(Tick, UpdateSource(v, And(Checked, FailureStateAfter(pin[v])), Idle))
     \/ Goto(Tick, UpdateSource(v, And(Checked, [unreachable |-> "took_down"]), Idle))
  /\ UNCHANGED <<pin, trusted, unmarked, strays>>

(* vault_routes.check_updates and update_vault_from_source: a verified      *)
(* answer is recorded first and applied afterwards; a failed fetch is only  *)
(* reported.                                                                *)
RequestChecks(r, v, m, kind) ==
  /\ worker[r] = Idle /\ pin[v] # NoPin
  /\ pin[v].blocked = NoKey
  /\ Goto(r,
       IF ~SignedByPin(pin[v], m) THEN UpdateSource(v, [blocked |-> m.key], Idle)
       ELSE UpdateSource(v, And(Checked, ClearFailures),
                         IF kind = "update" /\ Behind(pin[v], m)
                         THEN ToApply(v, pin[v], m, kind) ELSE Idle))
  /\ UNCHANGED pin /\ HistoryUnchanged

-----------------------------------------------------------------------------
(* _load_body; the assertion on a deleted vault ends the pass or request.   *)
Load(w) ==
  LET s == worker[w] IN
  /\ s.at = "load"
  /\ Goto(w, IF pin[s.v] = NoPin THEN Idle
             ELSE [at |-> "store", v |-> s.v, body |-> Merged(pin[s.v], s.changes),
                   next |-> s.next])
  /\ UNCHANGED pin /\ HistoryUnchanged

(* _store_body: the whole body is written back, whatever was stored since   *)
(* the load; an UPDATE of a deleted row changes nothing.                    *)
Store(w) ==
  LET s == worker[w] IN
  /\ s.at = "store"
  /\ pin' = IF pin[s.v] = NoPin THEN pin ELSE [pin EXCEPT ![s.v] = s.body]
  /\ Goto(w, s.next)
  /\ HistoryUnchanged

(* vault_sync._write: the documents, the seq and the retired mark land in   *)
(* one transaction over the pin as it is now; then the pass clears the      *)
(* failures it may have recorded.                                           *)
Repinned_KeepsRetired(m) ==
  And(Checked, IF m.seq \in RetiredAt THEN [seq |-> m.seq, retired |-> TRUE]
               ELSE [seq |-> m.seq])
Repinned(m) == And([seq |-> m.seq, retired |-> m.seq \in RetiredAt], Checked)

Apply(w) ==
  LET s == worker[w] IN
  /\ s.at = "apply" /\ pin[s.v] # NoPin
  /\ pin' = [pin EXCEPT ![s.v] = Merged(@, Repinned(s.m))]
  /\ strays' = strays \cup {v \in {s.v} : s.m.key \notin trusted[v]}
  /\ Goto(w, IF s.kind = "tick" THEN UpdateSource(s.v, ClearFailures, Idle) ELSE Idle)
  /\ UNCHANGED <<trusted, unmarked, failed>>

(* A piece fails to verify, the vault would overflow or is gone: nothing    *)
(* lands, and only the pass counts it.                                      *)
ApplyFails(w) ==
  LET s == worker[w] IN
  /\ s.at = "apply"
  /\ IF s.kind # "tick" THEN Goto(w, Idle) /\ UNCHANGED failed
     ELSE /\ failed[s.v] < MaxFailures
          /\ failed' = [failed EXCEPT ![s.v] = @ + 1]
          /\ Goto(w, UpdateSource(s.v, And(Checked, FailureStateAfter(s.pin)), Idle))
  /\ UNCHANGED <<pin, trusted, unmarked, strays>>

-----------------------------------------------------------------------------
(* vault_routes.trust_publisher: the request names the very key that is     *)
(* blocked in the pin it reads.                                             *)
TrustPublisher(r, v, k) ==
  /\ worker[r] = Idle /\ pin[v] # NoPin
  /\ pin[v].blocked = k
  /\ Goto(r, UpdateSource(v, [key |-> k, blocked |-> NoKey], Idle))
  /\ trusted' = [trusted EXCEPT ![v] = @ \cup {k}]
  /\ UNCHANGED <<pin, unmarked, strays, failed>>

(* vault_routes.set_subscription; a rename of the vault is the same load    *)
(* and store of the body, with a pin that does not change.                  *)
SetSubscription(r, v, auto) ==
  /\ worker[r] = Idle /\ pin[v] # NoPin
  /\ Goto(r, UpdateSource(v, [auto |-> auto], Idle))
  /\ UNCHANGED pin /\ HistoryUnchanged

DeleteVault(v) ==
  /\ pin[v] # NoPin
  /\ pin' = [pin EXCEPT ![v] = NoPin]
  /\ UNCHANGED worker /\ HistoryUnchanged

(* The check interval elapses; a week passes since the first failure of a   *)
(* run of failures.                                                         *)
BecomesDue(v) ==
  /\ pin[v] # NoPin /\ ~pin[v].due
  /\ pin' = [pin EXCEPT ![v].due = TRUE]
  /\ UNCHANGED worker /\ HistoryUnchanged

WeekPasses(v) ==
  /\ pin[v] # NoPin /\ pin[v].failures > 0 /\ ~pin[v].aged
  /\ pin' = [pin EXCEPT ![v].aged = TRUE]
  /\ UNCHANGED worker /\ HistoryUnchanged

-----------------------------------------------------------------------------
WorkerStep(w) ==
  Load(w) \/ Store(w) \/ Apply(w) \/ ApplyFails(w)

Pass(v) == PassCheckFails(v) \/ \E m \in Manifest : PassChecks(v, m)

Next ==
  \/ \E v \in Vault :
       \/ \E m \in Manifest : Subscribe(v, m)
       \/ Pass(v) \/ DeleteVault(v) \/ BecomesDue(v) \/ WeekPasses(v)
       \/ \E r \in Req :
            \/ \E m \in Manifest, kind \in {"check", "update"} :
                 RequestChecks(r, v, m, kind)
            \/ \E k \in Key : TrustPublisher(r, v, k)
            \/ \E auto \in BOOLEAN : SetSubscription(r, v, auto)
  \/ \E w \in Worker : WorkerStep(w)

Spec == Init /\ [][Next]_vars

(* The scheduler thread keeps ticking and every fetch has a deadline; a     *)
(* request may never come.  This assumes that the application stays         *)
(* unlocked, for run_due_checks returns at once while it is locked, and     *)
(* that a check does not raise: one that does is logged, and leaves its     *)
(* vault due for the next tick.                                             *)
FairSpec ==
  /\ Spec
  /\ WF_vars(\E v \in Vault : Pass(v)) /\ WF_vars(WorkerStep(Tick))

-----------------------------------------------------------------------------
TypeOK ==
  /\ pin \in [Vault -> Pin \cup {NoPin}]
  /\ DOMAIN worker = Worker
  /\ \A w \in Worker :
       /\ worker[w].at \in {"idle", "load", "store", "apply"}
       /\ worker[w].at # "idle" => worker[w].v \in Vault
       /\ worker[w].at = "store" => worker[w].body \in Pin
       /\ worker[w].at = "apply" => worker[w].m \in Manifest
  /\ trusted \in [Vault -> SUBSET Key] /\ unmarked \subseteq Vault
  /\ strays \subseteq Vault /\ failed \in [Vault -> 0..MaxFailures]

(* No document ever lands that was not signed by a key the user accepted,   *)
(* when subscribing or by trusting a changed key, whatever a host serves    *)
(* and however the passes and the requests interleave.                      *)
OnlyTrustedKeysLand == strays = {}

(* The pinned seq and the retired mark are always those of one manifest     *)
(* ("state and content move together", vault_sync._write), although a stale *)
(* body may be written back over them; only a vault subscribed to when it   *)
(* was already retired goes unmarked.                                       *)
StateMovesTogether ==
  \A v \in Vault : pin[v] # NoPin =>
    /\ pin[v].retired => pin[v].seq \in RetiredAt
    /\ (~pin[v].retired /\ pin[v].seq \in RetiredAt) => v \in unmarked

(* A host is declared dead only after as many failed checks as the budget   *)
(* allows, although the count is taken from a pin that may be stale.        *)
UnreachableIsEarned ==
  \A v \in Vault :
    (pin[v] # NoPin /\ pin[v].unreachable = "dead_host") => failed[v] >= FailureCount

(* The seq floor falls only when a worker acts on a pin that another one    *)
(* has moved since: no check that read the current pin rolls a vault back.  *)
FloorFallsOnlyBehindARace ==
  [][\A v \in Vault :
       (pin[v] # NoPin /\ pin'[v] # NoPin /\ pin'[v].seq < pin[v].seq) =>
         \E w \in Worker :
           /\ worker'[w] # worker[w] /\ worker[w].v = v
           /\ CASE worker[w].at = "apply" -> worker[w].pin.seq # pin[v].seq
                [] worker[w].at = "store" -> worker[w].body.seq # pin[v].seq]_vars

(* A vault the pass must check does not stay due for ever.                  *)
DueIsChecked == \A v \in Vault : Due(v) ~> ~Due(v)
=============================================================================
