------------------------- MODULE AdapterPortsProofs -------------------------
(***************************************************************************)
(* What the ports promise for any number of calls, queues, keys and        *)
(* versions.  The argument: a call's request is sent at most once and runs *)
(* at most once (Bookkeeping), so what a store step changes is told by one *)
(* lemma (RunOfOne) and a caller's step changes nothing a store keeps      *)
(* (CallerStep); each property is then an invariant of its own store.      *)
(***************************************************************************)
EXTENDS AdapterPorts, FiniteSetTheorems, TLAPS

(* How the caller's and the provider's side of one call fit together.      *)
Bookkeeping ==
    \A c \in Calls :
        /\ run[c] = "ran" <=> outcome[c] # "none"
        /\ run[c] = "sent" => answer[c] \in {"none", "failed"}
        /\ request[c] = None => run[c] = "none" /\ answer[c] = "none"
        /\ answer[c] = "ok" => run[c] = "ran" /\ outcome[c] = "ok"
        /\ answer[c] = "refused" => ~(run[c] = "ran" /\ outcome[c] = "ok")

Kinds == {"propose", "execute", "save", "load", "enqueue", "claim", "ack", "put"}

(* What the request of each kind carries.                                  *)
LEMMA Fields ==
  ASSUME NEW m \in Requests
  PROVE  /\ m.kind = "save" => m.expected \in Versions \cup {None}
         /\ m.kind \in {"enqueue", "ack"} => m.queue \in Queues
         /\ m.kind \in {"enqueue", "claim", "ack"} => m.key \in Keys
  BY DEF Requests, Proposes, Executes, Saves, Loads, Enqueues, Claims, Acks, Puts

(* A step of the provider is one request that runs.                        *)
LEMMA StoreStep ==
  ASSUME NEW c \in Calls, StoreNext(c)
  PROVE  \E kind \in Kinds, result \in {"ok", "refused"} : Runs(c, kind, result)
  BY DEF StoreNext, Propose, Execute, LoadState, SaveState, Enqueue, ClaimIdempotency,
         Ack, PutReceipt, Kinds

(* It changes what that call did and nothing about any other call.         *)
LEMMA RunOfOne ==
  ASSUME TypeOK, NEW c \in Calls, NEW kind, NEW result \in {"ok", "refused"},
         Runs(c, kind, result)
  PROVE  /\ request[c].kind = kind /\ request[c] \in Requests
         /\ \A k : ~Did(c, k)
         /\ \A k : Did(c, k)' <=> k = kind /\ result = "ok"
         /\ \A d \in Calls \ {c} : \A k : Did(d, k)' <=> Did(d, k)
         /\ request' = request
  BY DEF TypeOK, Runs, Did, call

(* A caller's step changes nothing that was done.                          *)
LEMMA CallerStep ==
  ASSUME TypeOK, Bookkeeping, NEW c \in Calls, CallerNext(c)
  PROVE  /\ UNCHANGED <<outcome, row, queue, object>>
         /\ \A d \in Calls : \A k : /\ Did(d, k)' <=> Did(d, k)
                                    /\ Did(d, k) => request'[d] = request[d]
<1>1. ASSUME NEW m \in Requests, Invoke(c, m)
      PROVE  /\ UNCHANGED <<outcome, row, queue, object>>
             /\ \A d \in Calls : \A k : /\ Did(d, k)' <=> Did(d, k)
                                        /\ Did(d, k) => request'[d] = request[d]
  BY <1>1 DEF Invoke, TypeOK, Bookkeeping, Did, row, queue
<1>2. CASE Timeout(c) \/ Abort(c) \/ Resolve(c) \/ Reject(c)
  BY <1>2 DEF Timeout, Abort, Fires, Resolve, Reject, Told, Did, row, queue
<1> QED BY <1>1, <1>2 DEF CallerNext

----------------------------------------------------------------------------
(* Every step keeps the variables in their types.                          *)
LEMMA TypeStep == ASSUME TypeOK, [Next]_vars PROVE TypeOK'
<1>1. CASE UNCHANGED vars
  BY <1>1 DEF TypeOK, vars, row, queue
<1>2. ASSUME NEW c \in Calls, NEW m \in Requests, Invoke(c, m) PROVE TypeOK'
  BY <1>2 DEF Invoke, TypeOK, row, queue
<1>3. ASSUME NEW c \in Calls, Timeout(c) \/ Abort(c) PROVE TypeOK'
  BY <1>3 DEF Timeout, Abort, Fires, TypeOK, row, queue
<1>4. ASSUME NEW c \in Calls, Resolve(c) \/ Reject(c) PROVE TypeOK'
  <2>1. Resolve(c) => outcome[c] \in {"none", "ok", "refused"}
    BY DEF TypeOK
  <2> QED BY <1>4, <2>1 DEF Resolve, Reject, Reply, Told, TypeOK, row, queue
<1>5. ASSUME NEW c \in Calls, Propose(c) \/ Execute(c) \/ LoadState(c) PROVE TypeOK'
  BY <1>5 DEF Propose, Execute, LoadState, Runs, TypeOK, row, queue, call
<1>6. ASSUME NEW c \in Calls, SaveState(c) PROVE TypeOK'
  BY <1>6 DEF SaveState, Runs, TypeOK, row, queue, call
<1>7. ASSUME NEW c \in Calls, Enqueue(c) PROVE TypeOK'
  <2>1. request[c].queue \in Queues /\ request[c].key \in Keys
    BY <1>7, Fields DEF Enqueue, Runs, TypeOK
  <2>2. copies' \in [Queues -> [Keys -> Nat]]
    BY <1>7, <2>1 DEF Enqueue, TypeOK, queue
  <2>3. idem' \subseteq Keys /\ expired' \subseteq Keys
    BY <1>7, <2>1 DEF Enqueue, TypeOK, queue
  <2> QED BY <1>7, <2>2, <2>3 DEF Enqueue, Runs, TypeOK, row, call
<1>8. ASSUME NEW c \in Calls, ClaimIdempotency(c) PROVE TypeOK'
  <2>1. request[c].key \in Keys
    BY <1>8, Fields DEF ClaimIdempotency, Runs, TypeOK
  <2> QED BY <1>8, <2>1 DEF ClaimIdempotency, Runs, TypeOK, row, call, queue
<1>9. ASSUME NEW c \in Calls, Ack(c) PROVE TypeOK'
  <2>1. request[c].queue \in Queues /\ request[c].key \in Keys
    BY <1>9, Fields DEF Ack, Runs, TypeOK
  <2>2. copies' \in [Queues -> [Keys -> Nat]]
    <3>1. CASE UNCHANGED copies
      BY <3>1 DEF TypeOK
    <3>2. CASE copies[request[c].queue][request[c].key] > 0
               /\ copies' = Removed(request[c].queue, request[c].key)
      <4>1. copies[request[c].queue] \in [Keys -> Nat]
        BY <2>1 DEF TypeOK
      <4>2. copies[request[c].queue][request[c].key] - 1 \in Nat
        BY <2>1, <3>2, <4>1
      <4> QED BY <2>1, <3>2, <4>1, <4>2 DEF Removed, TypeOK
    <3> QED BY <1>9, <3>1, <3>2 DEF Ack, queue
  <2>3. idem' \subseteq Keys /\ expired' \subseteq Keys
    BY <1>9 DEF Ack, TypeOK, queue
  <2> QED BY <1>9, <2>2, <2>3 DEF Ack, Runs, TypeOK, row, call
<1>10. ASSUME NEW c \in Calls, PutReceipt(c) PROVE TypeOK'
  BY <1>10 DEF PutReceipt, Runs, TypeOK, row, call, queue
<1>11. ASSUME NEW k \in Keys, Expire(k) PROVE TypeOK'
  BY <1>11 DEF Expire, TypeOK, row, call
<1> QED
  BY <1>1, <1>2, <1>3, <1>4, <1>5, <1>6, <1>7, <1>8, <1>9, <1>10, <1>11
  DEF Next, StoreNext, CallerNext

LEMMA BookkeepingStep == ASSUME TypeOK, Bookkeeping, [Next]_vars PROVE Bookkeeping'
<1>1. CASE UNCHANGED vars
  BY <1>1 DEF Bookkeeping, vars
<1>2. ASSUME NEW c \in Calls, NEW m \in Requests, Invoke(c, m) PROVE Bookkeeping'
  BY <1>2, RequestAssumption DEF Invoke, TypeOK, Bookkeeping
<1>3. ASSUME NEW c \in Calls, Timeout(c) \/ Abort(c) PROVE Bookkeeping'
  BY <1>3 DEF Timeout, Abort, Fires, Bookkeeping
<1>4. ASSUME NEW c \in Calls, Resolve(c) \/ Reject(c) PROVE Bookkeeping'
  BY <1>4 DEF Resolve, Reject, Reply, Waiting, Told, TypeOK, Bookkeeping
<1>5. ASSUME NEW c \in Calls, StoreNext(c) PROVE Bookkeeping'
  BY <1>5, StoreStep DEF Runs, call, TypeOK, Bookkeeping
<1>6. ASSUME NEW k \in Keys, Expire(k) PROVE Bookkeeping'
  BY <1>6 DEF Expire, call, Bookkeeping
<1> QED BY <1>1, <1>2, <1>3, <1>4, <1>5, <1>6 DEF Next, CallerNext

(* The ports are well typed and every call's two sides fit, for any        *)
(* number of calls.                                                        *)
THEOREM TypeCorrect == Spec => [](TypeOK /\ Bookkeeping)
<1>1. Init => TypeOK /\ Bookkeeping
  BY DEF Init, TypeOK, Bookkeeping
<1>2. TypeOK /\ Bookkeeping /\ [Next]_vars => (TypeOK /\ Bookkeeping)'
  BY TypeStep, BookkeepingStep
<1> QED BY <1>1, <1>2, PTL DEF Spec

----------------------------------------------------------------------------
(* Saves.                                                                  *)
LEMMA OtherStore ==
  ASSUME TypeOK, NEW c \in Calls, StoreNext(c), request[c].kind # "save"
  PROVE  UNCHANGED row
  BY DEF StoreNext, Propose, Execute, LoadState, SaveState, Enqueue, ClaimIdempotency,
         Ack, PutReceipt, Runs, queue

LEMMA SavesStep ==
  ASSUME TypeOK, Bookkeeping, VersionsTellSaves, [Next]_vars
  PROVE  VersionsTellSaves'
<1>1. CASE UNCHANGED vars
  BY <1>1 DEF VersionsTellSaves, vars, row, Did
<1>2. ASSUME NEW c \in Calls, CallerNext(c) PROVE VersionsTellSaves'
  BY <1>2, CallerStep DEF VersionsTellSaves, row
<1>3. ASSUME NEW c \in Calls, StoreNext(c), UNCHANGED row,
             \A d \in Calls : Did(d, "save")' <=> Did(d, "save"), request' = request
      PROVE  VersionsTellSaves'
  BY <1>3 DEF VersionsTellSaves, row
<1>4. ASSUME NEW c \in Calls, StoreNext(c), request[c].kind # "save" PROVE VersionsTellSaves'
  <2>1. PICK kind \in Kinds, result \in {"ok", "refused"} : Runs(c, kind, result)
    BY <1>4, StoreStep
  <2>2. kind # "save"
    BY <1>4, <2>1 DEF Runs
  <2> QED BY <1>3, <1>4, <2>1, <2>2, OtherStore, RunOfOne
<1>5. ASSUME NEW c \in Calls, SaveState(c) PROVE VersionsTellSaves'
  <2>1. CASE Runs(c, "save", "refused") /\ UNCHANGED <<row, queue, object>>
    <3>1. \A d \in Calls : Did(d, "save")' <=> Did(d, "save")
      BY <2>1, RunOfOne
    <3> QED BY <2>1, <3>1, RunOfOne DEF VersionsTellSaves, row
  <2>2. CASE /\ Runs(c, "save", "ok") /\ Matches(c)
             /\ version' = version + 1
             /\ wrote' = [wrote EXCEPT ![c] = version + 1]
    <3>1. /\ wrote'[c] = version + 1 /\ version' = version + 1
          /\ \A d \in Calls \ {c} : wrote'[d] = wrote[d]
          /\ version \in Nat /\ \A d \in Calls : wrote[d] \in Nat /\ wrote[d] <= version
      BY <2>2 DEF TypeOK, VersionsTellSaves
    <3>2. /\ Did(c, "save")' /\ ~Did(c, "save") /\ request' = request
          /\ \A d \in Calls \ {c} : Did(d, "save")' <=> Did(d, "save")
      BY <2>2, RunOfOne
    <3>3. ASSUME NEW d \in Calls, NEW e \in Calls, wrote'[d] # 0, wrote'[d] = wrote'[e]
          PROVE  d = e
      BY <3>1, <3>3 DEF VersionsTellSaves
    <3>4. ASSUME NEW d \in Calls
          PROVE  /\ wrote'[d] <= version'
                 /\ wrote'[d] # 0 <=> Did(d, "save")'
      BY <3>1, <3>2 DEF VersionsTellSaves
    <3>5. ASSUME NEW d \in Calls, Did(d, "save")', request'[d].expected # None
          PROVE  wrote'[d] = request'[d].expected + 1
      <4>1. CASE d = c
        BY <2>2, <3>1, <3>2, <3>5, <4>1 DEF Matches
      <4>2. CASE d # c
        BY <3>1, <3>2, <3>5, <4>2 DEF VersionsTellSaves
      <4> QED BY <4>1, <4>2
    <3>6. ASSUME NEW v \in 1..version' PROVE \E d \in Calls : wrote'[d] = v
      <4>1. CASE v = version + 1
        BY <3>1, <4>1
      <4>2. CASE v # version + 1
        <5>1. PICK d \in Calls : wrote[d] = v
          BY <3>1, <4>2 DEF VersionsTellSaves
        <5>2. d # c
          BY <3>2, <5>1 DEF VersionsTellSaves
        <5> QED BY <3>1, <5>1, <5>2
      <4> QED BY <4>1, <4>2
    <3> QED BY <3>3, <3>4, <3>5, <3>6 DEF VersionsTellSaves
  <2> QED BY <1>5, <2>1, <2>2 DEF SaveState
<1>6. ASSUME NEW k \in Keys, Expire(k) PROVE VersionsTellSaves'
  BY <1>6 DEF Expire, row, call, Did, VersionsTellSaves
<1>7. ASSUME NEW c \in Calls, StoreNext(c), request[c].kind = "save" PROVE SaveState(c)
  BY <1>7 DEF StoreNext, Propose, Execute, LoadState, Enqueue, ClaimIdempotency, Ack,
              PutReceipt, Runs
<1> QED BY <1>1, <1>2, <1>4, <1>5, <1>6, <1>7 DEF Next

(* No two saves leave one version, none is lost, and a conditional save    *)
(* follows directly on the version it names, for any number of saves and   *)
(* upserts (saveState).                                                    *)
THEOREM VersionsTellSavesAlways == Spec => []VersionsTellSaves
<1>1. Init => VersionsTellSaves
  BY DEF Init, VersionsTellSaves, Did
<1>2. TypeOK /\ Bookkeeping /\ VersionsTellSaves /\ [Next]_vars => VersionsTellSaves'
  BY SavesStep
<1> QED BY <1>1, <1>2, TypeCorrect, PTL DEF Spec

----------------------------------------------------------------------------
(* Keys.  OneWinner is inductive with: a key that has a winner and never   *)
(* expired is still set.                                                   *)
Wins(c, k) == DidTo(c, "enqueue", k) \/ DidTo(c, "claim", k)

WinnerKeeps == \A k \in Keys \ expired : (\E c \in Calls : Wins(c, k)) => k \in idem

LEMMA KeysStep ==
  ASSUME TypeOK, Bookkeeping, OneWinner, WinnerKeeps, [Next]_vars
  PROVE  OneWinner' /\ WinnerKeeps'
<1>1. ASSUME idem \subseteq idem', expired' = expired,
             \A c \in Calls, k \in Keys : Wins(c, k)' <=> Wins(c, k)
      PROVE  OneWinner' /\ WinnerKeeps'
  BY <1>1 DEF OneWinner, WinnerKeeps, Wins
<1>2. CASE UNCHANGED vars
  <2>1. idem' = idem /\ expired' = expired /\ \A c \in Calls, k \in Keys : Wins(c, k)' <=> Wins(c, k)
    BY <1>2 DEF vars, queue, Wins, DidTo, Did
  <2> QED BY <1>1, <2>1
<1>3. ASSUME NEW c \in Calls, CallerNext(c) PROVE OneWinner' /\ WinnerKeeps'
  <2>1. idem' = idem /\ expired' = expired
    BY <1>3, CallerStep DEF queue
  <2>2. \A d \in Calls, k \in Keys : Wins(d, k)' <=> Wins(d, k)
    BY <1>3, CallerStep DEF Wins, DidTo
  <2> QED BY <1>1, <2>1, <2>2
<1>4. ASSUME NEW c \in Calls, NEW kind, NEW result \in {"ok", "refused"}, Runs(c, kind, result),
             kind \notin {"enqueue", "claim"} \/ result = "refused", UNCHANGED <<idem, expired>>
      PROVE  OneWinner' /\ WinnerKeeps'
  <2>1. \A d \in Calls, k \in Keys : Wins(d, k)' <=> Wins(d, k)
    BY <1>4, RunOfOne DEF Wins, DidTo
  <2> QED BY <1>1, <1>4, <2>1
<1>5. ASSUME NEW c \in Calls, NEW kind \in {"enqueue", "claim"}, Runs(c, kind, "ok"),
             request[c].key \notin idem, idem' = idem \cup {request[c].key},
             expired' = expired
      PROVE  OneWinner' /\ WinnerKeeps'
  <2>1. /\ \A d \in Calls \ {c}, k \in Keys : Wins(d, k)' <=> Wins(d, k)
        /\ \A k \in Keys : Wins(c, k)' <=> k = request[c].key
    BY <1>5, RunOfOne DEF Wins, DidTo
  <2>2. \A k \in Keys \ expired, d \in Calls : Wins(d, k) => k # request[c].key
    BY <1>5 DEF WinnerKeeps
  <2>3. ASSUME NEW k \in Keys \ expired, NEW d \in Calls, NEW e \in Calls,
               Wins(d, k)', Wins(e, k)'
        PROVE  d = e
    BY <2>1, <2>2, <2>3 DEF OneWinner, Wins
  <2> QED BY <1>5, <2>1, <2>3 DEF OneWinner, WinnerKeeps, Wins
<1>6. ASSUME NEW k \in Keys, Expire(k) PROVE OneWinner' /\ WinnerKeeps'
  <2>1. \A d \in Calls, i \in Keys : Wins(d, i)' <=> Wins(d, i)
    BY <1>6 DEF Expire, call, Wins, DidTo, Did
  <2> QED BY <1>6, <2>1 DEF Expire, OneWinner, WinnerKeeps, Wins
<1>7. ASSUME NEW c \in Calls, StoreNext(c) PROVE OneWinner' /\ WinnerKeeps'
  <2>1. CASE Propose(c) \/ Execute(c) \/ LoadState(c) \/ SaveState(c) \/ Ack(c) \/ PutReceipt(c)
    <3>1. UNCHANGED <<idem, expired>>
      BY <2>1 DEF Propose, Execute, LoadState, SaveState, Ack, PutReceipt, queue
    <3>2. PICK kind \in Kinds, result \in {"ok", "refused"} : Runs(c, kind, result)
      BY <1>7, StoreStep
    <3>3. request[c].kind \notin {"enqueue", "claim"}
      BY <2>1 DEF Propose, Execute, LoadState, SaveState, Ack, PutReceipt, Runs
    <3>4. kind \notin {"enqueue", "claim"}
      BY <3>2, <3>3 DEF Runs
    <3> QED BY <1>4, <3>1, <3>2, <3>4
  <2>2. CASE Enqueue(c)
    BY <2>2, <1>4, <1>5 DEF Enqueue, Unset, queue
  <2>3. CASE ClaimIdempotency(c)
    BY <2>3, <1>4, <1>5 DEF ClaimIdempotency, queue
  <2> QED BY <1>7, <2>1, <2>2, <2>3 DEF StoreNext
<1> QED BY <1>2, <1>3, <1>6, <1>7 DEF Next

(* An idempotency key has one winner until it expires, for any number of   *)
(* queues, keys and callers (enqueue, claimIdempotency).                   *)
THEOREM OneWinnerAlways == Spec => []OneWinner
<1>1. Init => OneWinner /\ WinnerKeeps
  BY DEF Init, OneWinner, WinnerKeeps, Wins, DidTo, Did
<1>2. TypeOK /\ Bookkeeping /\ OneWinner /\ WinnerKeeps /\ [Next]_vars
        => (OneWinner /\ WinnerKeeps)'
  BY KeysStep
<1> QED BY <1>1, <1>2, TypeCorrect, PTL DEF Spec

----------------------------------------------------------------------------
(* The refinement: what took effect, and what was told.                    *)
Took == {c \in Calls : run[c] = "ran" /\ outcome[c] = "ok"}

LEMMA PromiseStep ==
  ASSUME TypeOK, Bookkeeping, [Next]_vars
  PROVE  [Promise!Next]_(Promise!vars)
<1>1. CASE UNCHANGED vars
  BY <1>1 DEF vars, Promise!vars
<1>2. ASSUME NEW c \in Calls, NEW a \in {"ok", "refused", "failed"}, answer[c] = "none",
             answer' = [answer EXCEPT ![c] = a], Took' = Took,
             a = "ok" => c \in Took, a = "refused" => c \notin Took
      PROVE  Promise!Next
  BY <1>2 DEF Promise!Next, Promise!Answer, Took
<1>3. ASSUME NEW c \in Calls, NEW m \in Requests, Invoke(c, m)
      PROVE  [Promise!Next]_(Promise!vars)
  <2>1. run[c] = "none" /\ answer[c] = "none" /\ c \notin Took
    BY <1>3 DEF Invoke, Bookkeeping, Took
  <2>2. Took' = Took
    BY <1>3, <2>1 DEF Invoke, TypeOK, Took
  <2>3. CASE RefusedUnsent(m)
    BY <1>2, <1>3, <2>1, <2>2, <2>3 DEF Invoke
  <2>4. CASE ~RefusedUnsent(m)
    BY <1>3, <2>2, <2>4 DEF Invoke, Promise!vars, Took
  <2> QED BY <2>3, <2>4
<1>4. ASSUME NEW c \in Calls, Timeout(c) \/ Abort(c) PROVE UNCHANGED Promise!vars
  BY <1>4 DEF Timeout, Abort, Fires, Promise!vars
<1>5. ASSUME NEW c \in Calls, Resolve(c) \/ Reject(c) PROVE Promise!Next
  <2>1. Took' = Took /\ answer[c] = "none"
    BY <1>5 DEF Resolve, Reject, Waiting, Told, Took
  <2>2. CASE Resolve(c)
    <3>1. outcome[c] \in {"ok", "refused"} /\ run[c] = "ran"
      BY <2>2 DEF Resolve, TypeOK, Bookkeeping
    <3>2. answer' = [answer EXCEPT ![c] = outcome[c]]
      BY <2>2 DEF Resolve, Reply, Told
    <3> QED BY <1>2, <2>1, <3>1, <3>2 DEF Took
  <2>3. CASE Reject(c)
    <3>1. answer' = [answer EXCEPT ![c] = "failed"]
      BY <2>3 DEF Reject, Told
    <3> QED BY <1>2, <2>1, <3>1
  <2> QED BY <1>5, <2>2, <2>3
<1>6. ASSUME NEW c \in Calls, StoreNext(c) PROVE [Promise!Next]_(Promise!vars)
  <2>1. PICK kind \in Kinds, result \in {"ok", "refused"} : Runs(c, kind, result)
    BY <1>6, StoreStep
  <2>2. answer' = answer /\ c \notin Took /\ answer[c] \in {"none", "failed"}
    BY <2>1 DEF Runs, call, Bookkeeping, Took
  <2>3. CASE result = "refused"
    <3>1. Took' = Took
      BY <2>1, <2>3 DEF Runs, TypeOK, Took
    <3> QED BY <2>2, <3>1 DEF Promise!vars, Took
  <2>4. CASE result = "ok"
    <3>1. Took' = Took \cup {c}
      BY <2>1, <2>4 DEF Runs, TypeOK, Took
    <3> QED BY <2>2, <3>1 DEF Promise!Next, Promise!TakeEffect, Took
  <2> QED BY <2>3, <2>4
<1>7. ASSUME NEW k \in Keys, Expire(k) PROVE UNCHANGED Promise!vars
  BY <1>7 DEF Expire, call, Promise!vars
<1> QED BY <1>1, <1>3, <1>4, <1>5, <1>6, <1>7 DEF Next, CallerNext

(* The ports implement PortCall: whatever is lost, late or timed out, an   *)
(* effect happens once and no answer but "failed" leaves it open           *)
(* (runWithTimeout and the methods).                                       *)
THEOREM HonestAnswersAlways == Spec => HonestAnswers
<1>1. Init => Promise!Init
  BY DEF Init, Promise!Init
<1>2. TypeOK /\ Bookkeeping /\ [Next]_vars => [Promise!Next]_(Promise!vars)
  BY PromiseStep
<1> QED BY <1>1, <1>2, TypeCorrect, PTL DEF Spec, HonestAnswers, Promise!Spec

----------------------------------------------------------------------------
(* Items.                                                                  *)
Enqueued(q, k) == {c \in Calls : DidTo(c, "enqueue", k) /\ request[c].queue = q}
Acked(q, k)    == {c \in Calls : DidTo(c, "ack", k) /\ request[c].queue = q}

Balance == \A q \in Queues, k \in Keys :
    copies[q][k] + Cardinality(Acked(q, k)) = Cardinality(Enqueued(q, k))

LEMMA Counted ==
  ASSUME NEW S \in SUBSET Calls
  PROVE  /\ Cardinality(S) \in Nat
         /\ \A c : c \notin S => Cardinality(S \cup {c}) = Cardinality(S) + 1
<1>1. IsFiniteSet(S)
  BY CallAssumption, FS_Subset
<1> QED BY <1>1, FS_CardinalityType, FS_AddElement

LEMMA BalanceStep ==
  ASSUME TypeOK, Bookkeeping, Balance, [Next]_vars
  PROVE  Balance'
<1>1. ASSUME copies' = copies,
             \A q \in Queues, k \in Keys : /\ Enqueued(q, k)' = Enqueued(q, k)
                                           /\ Acked(q, k)' = Acked(q, k)
      PROVE  Balance'
  BY <1>1 DEF Balance
<1>2. CASE UNCHANGED vars
  <2>1. \A q \in Queues, k \in Keys : /\ Enqueued(q, k)' = Enqueued(q, k)
                                      /\ Acked(q, k)' = Acked(q, k)
    BY <1>2 DEF vars, Enqueued, Acked, DidTo, Did
  <2> QED BY <1>1, <1>2, <2>1 DEF vars, queue
<1>3. ASSUME NEW c \in Calls, CallerNext(c) PROVE Balance'
  <2>1. \A q \in Queues, k \in Keys : /\ Enqueued(q, k)' = Enqueued(q, k)
                                      /\ Acked(q, k)' = Acked(q, k)
    BY <1>3, CallerStep DEF Enqueued, Acked, DidTo
  <2> QED BY <1>1, <1>3, <2>1, CallerStep DEF queue
<1>4. ASSUME NEW c \in Calls, NEW kind, NEW result \in {"ok", "refused"}, Runs(c, kind, result),
             kind \notin {"enqueue", "ack"} \/ result = "refused", copies' = copies
      PROVE  Balance'
  <2>1. \A q \in Queues, k \in Keys : /\ Enqueued(q, k)' = Enqueued(q, k)
                                      /\ Acked(q, k)' = Acked(q, k)
    BY <1>4, RunOfOne DEF Enqueued, Acked, DidTo
  <2> QED BY <1>1, <1>4, <2>1
<1>5. ASSUME NEW k \in Keys, Expire(k) PROVE Balance'
  <2>1. \A q \in Queues, i \in Keys : /\ Enqueued(q, i)' = Enqueued(q, i)
                                      /\ Acked(q, i)' = Acked(q, i)
    BY <1>5 DEF Expire, call, Enqueued, Acked, DidTo, Did
  <2> QED BY <1>1, <1>5, <2>1 DEF Expire
<1>6. ASSUME NEW c \in Calls, Runs(c, "enqueue", "ok"),
             copies' = [copies EXCEPT ![request[c].queue][request[c].key] = @ + 1]
      PROVE  Balance'
  <2> DEFINE q == request[c].queue
             k == request[c].key
  <2>1. q \in Queues /\ k \in Keys
    BY <1>6, RunOfOne, Fields
  <2>2. ASSUME NEW p \in Queues, NEW i \in Keys
        PROVE  copies'[p][i] + Cardinality(Acked(p, i)') = Cardinality(Enqueued(p, i)')
    <3>1. Acked(p, i)' = Acked(p, i)
      BY <1>6, RunOfOne DEF Acked, DidTo
    <3>2. CASE p = q /\ i = k
      <4>1. Enqueued(p, i)' = Enqueued(p, i) \cup {c} /\ c \notin Enqueued(p, i)
        BY <1>6, <3>2, RunOfOne DEF Enqueued, DidTo
      <4>2. copies'[p][i] = copies[p][i] + 1 /\ copies[p][i] \in Nat
        BY <1>6, <2>1, <3>2 DEF TypeOK
      <4>3. Cardinality(Enqueued(p, i)') = Cardinality(Enqueued(p, i)) + 1
        BY <4>1, Counted DEF Enqueued
      <4>4. Cardinality(Acked(p, i)) \in Nat /\ Cardinality(Enqueued(p, i)) \in Nat
        BY Counted DEF Acked, Enqueued
      <4>5. copies[p][i] + Cardinality(Acked(p, i)) = Cardinality(Enqueued(p, i))
        BY DEF Balance
      <4> QED BY <3>1, <4>2, <4>3, <4>4, <4>5
    <3>3. CASE ~(p = q /\ i = k)
      <4>1. Enqueued(p, i)' = Enqueued(p, i)
        BY <1>6, <3>3, RunOfOne DEF Enqueued, DidTo
      <4>2. copies'[p][i] = copies[p][i]
        BY <1>6, <2>1, <3>3 DEF TypeOK
      <4> QED BY <3>1, <4>1, <4>2 DEF Balance
    <3> QED BY <3>2, <3>3
  <2> QED BY <2>2 DEF Balance
<1>7. ASSUME NEW c \in Calls, Runs(c, "ack", "ok"), copies[request[c].queue][request[c].key] > 0,
             copies' = [copies EXCEPT ![request[c].queue][request[c].key] = @ - 1]
      PROVE  Balance'
  <2> DEFINE q == request[c].queue
             k == request[c].key
  <2>1. q \in Queues /\ k \in Keys
    BY <1>7, RunOfOne, Fields
  <2>2. ASSUME NEW p \in Queues, NEW i \in Keys
        PROVE  copies'[p][i] + Cardinality(Acked(p, i)') = Cardinality(Enqueued(p, i)')
    <3>1. Enqueued(p, i)' = Enqueued(p, i)
      BY <1>7, RunOfOne DEF Enqueued, DidTo
    <3>2. CASE p = q /\ i = k
      <4>1. Acked(p, i)' = Acked(p, i) \cup {c} /\ c \notin Acked(p, i)
        BY <1>7, <3>2, RunOfOne DEF Acked, DidTo
      <4>2. copies'[p][i] = copies[p][i] - 1 /\ copies[p][i] \in Nat
        BY <1>7, <2>1, <3>2 DEF TypeOK
      <4>3. Cardinality(Acked(p, i)') = Cardinality(Acked(p, i)) + 1
        BY <4>1, Counted DEF Acked
      <4>4. Cardinality(Acked(p, i)) \in Nat /\ Cardinality(Enqueued(p, i)) \in Nat
        BY Counted DEF Acked, Enqueued
      <4>5. copies[p][i] + Cardinality(Acked(p, i)) = Cardinality(Enqueued(p, i))
        BY DEF Balance
      <4> QED BY <3>1, <4>2, <4>3, <4>4, <4>5
    <3>3. CASE ~(p = q /\ i = k)
      <4>1. Acked(p, i)' = Acked(p, i)
        BY <1>7, <3>3, RunOfOne DEF Acked, DidTo
      <4>2. copies'[p][i] = copies[p][i]
        BY <1>7, <2>1, <3>3 DEF TypeOK
      <4> QED BY <3>1, <4>1, <4>2 DEF Balance
    <3> QED BY <3>2, <3>3
  <2> QED BY <2>2 DEF Balance
<1>8. ASSUME NEW c \in Calls, StoreNext(c) PROVE Balance'
  <2>1. CASE \/ Propose(c) \/ Execute(c) \/ LoadState(c) \/ SaveState(c)
             \/ ClaimIdempotency(c) \/ PutReceipt(c)
    <3>1. copies' = copies
      BY <2>1 DEF Propose, Execute, LoadState, SaveState, ClaimIdempotency, PutReceipt, queue
    <3>2. PICK kind \in Kinds, result \in {"ok", "refused"} : Runs(c, kind, result)
      BY <1>8, StoreStep
    <3>3. request[c].kind \notin {"enqueue", "ack"}
      BY <2>1 DEF Propose, Execute, LoadState, SaveState, ClaimIdempotency, PutReceipt, Runs
    <3>4. kind \notin {"enqueue", "ack"}
      BY <3>2, <3>3 DEF Runs
    <3> QED BY <1>4, <3>1, <3>2, <3>4
  <2>2. CASE Enqueue(c)
    BY <2>2, <1>4, <1>6 DEF Enqueue, queue
  <2>3. CASE Ack(c)
    BY <2>3, <1>4, <1>7 DEF Ack, Removed, queue
  <2> QED BY <1>8, <2>1, <2>2, <2>3 DEF StoreNext
<1> QED BY <1>2, <1>3, <1>5, <1>8 DEF Next

(* What was queued and not acknowledged is in its queue, for any number of *)
(* calls (enqueue, ack).                                                   *)
THEOREM QueueBalanceAlways == Spec => []QueueBalance
<1>1. Init => Balance
  <2> SUFFICES ASSUME Init, NEW q \in Queues, NEW k \in Keys
               PROVE  copies[q][k] + Cardinality(Acked(q, k)) = Cardinality(Enqueued(q, k))
    BY DEF Balance
  <2>1. Acked(q, k) = {} /\ Enqueued(q, k) = {} /\ copies[q][k] = 0
    BY DEF Init, Acked, Enqueued, DidTo, Did
  <2> QED BY <2>1, FS_EmptySet
<1>2. TypeOK /\ Bookkeeping /\ Balance /\ [Next]_vars => Balance'
  BY BalanceStep
<1>3. Balance => QueueBalance
  BY DEF Balance, QueueBalance, Acked, Enqueued
<1> QED BY <1>1, <1>2, <1>3, TypeCorrect, PTL DEF Spec
=============================================================================
