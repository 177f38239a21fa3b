---------------------------- MODULE AdapterPorts ----------------------------
(***************************************************************************)
(* The ports of @frontier-infra/adapters: the model workers (propose), the *)
(* gated business and alert connectors (execute), the Postgres state port  *)
(* (loadState, saveState), the Redis queue port (enqueue,                  *)
(* claimIdempotency, ack) and the S3 receipt port (putReceipt).            *)
(*                                                                         *)
(* Every method sends one request to an external provider, under           *)
(* runWithTimeout.  What a request does there (a completion, a delivery,   *)
(* an UPDATE, an EVAL script, a PutObject) is atomic; it happens at most   *)
(* once, at any moment after the request is sent, even after the caller    *)
(* gave up, and requests and replies can be lost.  One row, one object,    *)
(* some queues and keys.                                                   *)
(***************************************************************************)
EXTENDS Naturals, FiniteSets

CONSTANTS
    Calls,          \* method calls, each made once (bound)
    Queues, Keys,   \* queues, and idempotency keys (which are the item ids)
    Versions,       \* what callers pass as expectedVersion
    None

ASSUME CallAssumption    == IsFiniteSet(Calls) /\ None \notin Calls
ASSUME VersionAssumption == Versions \subseteq Nat /\ None \notin Versions

VARIABLES
    request,    \* what each call asks for; None before it is made
    run,        \* "none", "sent" (for ever, when it is lost) or "ran"
    outcome,    \* the provider's reply: "ok" or "refused"
    signal,     \* the merged signal: "clear", "timeout" or "aborted"
    answer,     \* what the caller was told; "none" as long as it waits
    version,    \* the row's version column; 0: no row
    wrote,      \* the version each save left; 0: none
    copies,     \* items of each id in each queue
    idem,       \* idempotency keys that are set
    expired,    \* keys whose TTL ever ran out
    object      \* the call whose receipt the object holds

vars == <<request, run, outcome, signal, answer, version, wrote, copies, idem, expired,
          object>>

call  == <<request, signal, answer>>
row   == <<version, wrote>>
queue == <<copies, idem, expired>>

(* The methods with their arguments.  A save without expectedVersion is an *)
(* upsert; a bad receipt is too large, no JSON or names a raw secret; what *)
(* is bad about an execution is its capability (not one-time), its alert   *)
(* or the alert's idempotency key; about a proposal, the provider's reply. *)
Proposes == [kind : {"propose"}, valid : BOOLEAN]
Executes == [kind : {"execute"}, valid : BOOLEAN]
Saves    == [kind : {"save"}, expected : Versions \cup {None}]
Enqueues == [kind : {"enqueue"}, queue : Queues, key : Keys]
Claims   == [kind : {"claim"}, key : Keys]
Acks     == [kind : {"ack"}, queue : Queues, key : Keys]
Puts     == [kind : {"put"}, valid : BOOLEAN]
Loads    == [kind : {"load"}]
Requests == Proposes \cup Executes \cup Saves \cup Loads \cup Enqueues \cup Claims
               \cup Acks \cup Puts

ASSUME RequestAssumption == None \notin Requests

TypeOK ==
    /\ request \in [Calls -> Requests \cup {None}]
    /\ run \in [Calls -> {"none", "sent", "ran"}]
    /\ outcome \in [Calls -> {"none", "ok", "refused"}]
    /\ signal \in [Calls -> {"clear", "timeout", "aborted"}]
    /\ answer \in [Calls -> {"none", "ok", "refused", "failed"}]
    /\ version \in Nat
    /\ wrote \in [Calls -> Nat]
    /\ copies \in [Queues -> [Keys -> Nat]]
    /\ idem \subseteq Keys
    /\ expired \subseteq Keys
    /\ object \in Calls \cup {None}
    /\ \A c \in Calls : run[c] # "none" => request[c] \in Requests

Init ==
    /\ request = [c \in Calls |-> None]
    /\ run = [c \in Calls |-> "none"]
    /\ outcome = [c \in Calls |-> "none"]
    /\ signal = [c \in Calls |-> "clear"]
    /\ answer = [c \in Calls |-> "none"]
    /\ version = 0
    /\ wrote = [c \in Calls |-> 0]
    /\ copies = [q \in Queues |-> [k \in Keys |-> 0]]
    /\ idem = {} /\ expired = {}
    /\ object = None

----------------------------------------------------------------------------
(***************************************************************************)
(* The caller's side: runWithTimeout and storageError.                     *)
(***************************************************************************)
(* putReceipt and the connectors look at their input before anything is    *)
(* sent; a model's output can only be looked at when it is there.          *)
RefusedUnsent(m) == m.kind \in {"put", "execute"} /\ ~m.valid

Invoke(c, m) ==
    /\ request[c] = None
    /\ request' = [request EXCEPT ![c] = m]
    /\ IF RefusedUnsent(m)
       THEN answer' = [answer EXCEPT ![c] = "refused"] /\ UNCHANGED run
       ELSE run' = [run EXCEPT ![c] = "sent"] /\ UNCHANGED answer
    /\ UNCHANGED <<outcome, signal, row, queue, object>>

Waiting(c) == request[c] # None /\ answer[c] = "none"

Fires(c, why) == /\ Waiting(c) /\ signal[c] = "clear"
                 /\ signal' = [signal EXCEPT ![c] = why]
                 /\ UNCHANGED <<request, run, outcome, answer, row, queue, object>>

(* The timer, and the signal the caller passed.                            *)
Timeout(c) == Fires(c, "timeout")
Abort(c)   == Fires(c, "aborted")

(* Bug_* definitions here and below are mutants: never part of the model.  *)
Bug_RawErrorEscapes(c, a) ==
    /\ answer' = [answer EXCEPT ![c] = IF a = "failed" THEN signal[c] ELSE a]
    /\ UNCHANGED <<request, run, outcome, signal, row, queue, object>>

Told(c, a) == /\ answer' = [answer EXCEPT ![c] = a]
              /\ UNCHANGED <<request, run, outcome, signal, row, queue, object>>

Bug_TimeoutMeansNo(c) == IF signal[c] = "clear" THEN outcome[c] ELSE "refused"
(* The work is awaited whatever the signal says: a reply that comes after  *)
(* the timeout still is the answer.                                        *)
Reply(c) == outcome[c]

Resolve(c) == /\ Waiting(c) /\ run[c] = "ran"
              /\ Told(c, Reply(c))

(* The client rejects: the connection failed, or its signal is aborted and *)
(* it heeds it, before or after the request was done.  A timeout, an abort *)
(* and a lost connection stay apart in the error of a model or business    *)
(* port, and storageError makes them one storage_failed_closed; the caller *)
(* knows as little in each case.                                           *)
Reject(c) == Waiting(c) /\ Told(c, "failed")

----------------------------------------------------------------------------
(***************************************************************************)
(* The provider's side: what each request does, now or much later.         *)
(***************************************************************************)
Runs(c, kind, result) ==
    /\ run[c] = "sent" /\ request[c].kind = kind
    /\ run' = [run EXCEPT ![c] = "ran"]
    /\ outcome' = [outcome EXCEPT ![c] = result]
    /\ UNCHANGED call

(* A completion is read in full and checked (size, HTTP status, JSON,      *)
(* every proposal) before it is an answer.                                 *)
Propose(c) == /\ \/ Runs(c, "propose", "ok") /\ request[c].valid
                 \/ Runs(c, "propose", "refused") /\ ~request[c].valid
              /\ UNCHANGED <<row, queue, object>>

Execute(c) == /\ Runs(c, "execute", "ok")
              /\ UNCHANGED <<row, queue, object>>

LoadState(c) == /\ Runs(c, "load", "ok")
                /\ UNCHANGED <<row, queue, object>>

Bug_AtLeastVersion(c) == IF request[c].expected = None THEN TRUE
                         ELSE version # 0 /\ version >= request[c].expected
(* `update ... where key = $1 and version = $3` finds a row, or the upsert *)
(* needs none.                                                             *)
Matches(c) == \/ request[c].expected = None
              \/ version # 0 /\ version = request[c].expected

SaveState(c) ==
    \/ /\ Runs(c, "save", "ok") /\ Matches(c)
       /\ version' = version + 1
       /\ wrote' = [wrote EXCEPT ![c] = version + 1]
       /\ UNCHANGED <<queue, object>>
    \/ /\ Runs(c, "save", "refused") /\ ~Matches(c)
       /\ UNCHANGED <<row, queue, object>>

Bug_KeyPerQueue(q, k) == copies[q][k] = 0
(* SET <prefix>:idem:<key> NX: enqueue of any queue and claimIdempotency   *)
(* share the key.                                                          *)
Unset(q, k) == k \notin idem

Enqueue(c) ==
    LET q == request[c].queue
        k == request[c].key
    IN \/ /\ Runs(c, "enqueue", "ok") /\ Unset(q, k)
          /\ idem' = idem \cup {k}
          /\ copies' = [copies EXCEPT ![q][k] = @ + 1]
          /\ UNCHANGED <<expired, row, object>>
       \/ /\ Runs(c, "enqueue", "refused") /\ ~Unset(q, k)
          /\ UNCHANGED <<row, queue, object>>

ClaimIdempotency(c) ==
    LET k == request[c].key IN
    \/ /\ Runs(c, "claim", "ok") /\ k \notin idem
       /\ idem' = idem \cup {k}
       /\ UNCHANGED <<copies, expired, row, object>>
    \/ /\ Runs(c, "claim", "refused") /\ k \in idem
       /\ UNCHANGED <<row, queue, object>>

Bug_RemovesAll(q, k) == [copies EXCEPT ![q][k] = 0]
(* LREM of the first entry with this id; the idempotency key stays.        *)
Removed(q, k) == [copies EXCEPT ![q][k] = @ - 1]

Ack(c) ==
    LET q == request[c].queue
        k == request[c].key
    IN \/ /\ Runs(c, "ack", "ok") /\ copies[q][k] > 0
          /\ copies' = Removed(q, k)
          /\ UNCHANGED <<idem, expired, row, object>>
       \/ /\ Runs(c, "ack", "refused") /\ copies[q][k] = 0
          /\ UNCHANGED <<row, queue, object>>

PutReceipt(c) == /\ Runs(c, "put", "ok")
                 /\ object' = c
                 /\ UNCHANGED <<row, queue>>

(* The TTL (EX, one day by default) of a key ends; items have none.        *)
Expire(k) == /\ k \in idem
             /\ idem' = idem \ {k}
             /\ expired' = expired \cup {k}
             /\ UNCHANGED <<call, run, outcome, row, copies, object>>

----------------------------------------------------------------------------
StoreNext(c) == \/ Propose(c) \/ Execute(c) \/ LoadState(c) \/ SaveState(c)
                \/ Enqueue(c) \/ ClaimIdempotency(c) \/ Ack(c) \/ PutReceipt(c)

CallerNext(c) == \/ \E m \in Requests : Invoke(c, m)
                 \/ Timeout(c) \/ Abort(c) \/ Resolve(c) \/ Reject(c)

Next == \/ \E c \in Calls : StoreNext(c) \/ CallerNext(c)
        \/ \E k \in Keys : Expire(k)

Spec == Init /\ [][Next]_vars
----------------------------------------------------------------------------
(***************************************************************************)
(* Properties                                                              *)
(***************************************************************************)
Did(c, kind)     == run[c] = "ran" /\ request[c].kind = kind /\ outcome[c] = "ok"
DidTo(c, kind, k) == Did(c, kind) /\ request[c].key = k

(* No two saves leave the same version, and one with an expectedVersion    *)
(* follows directly on it: a save repeated after a timeout takes effect at *)
(* most once, whichever of the two arrives first and however late, even    *)
(* with upserts in between.  And no save is lost: the row's version counts *)
(* them, each number up to it is the one some save left.                   *)
VersionsTellSaves ==
    /\ \A v \in 1..version : \E c \in Calls : wrote[c] = v
    /\ \A c, d \in Calls : wrote[c] # 0 /\ wrote[c] = wrote[d] => c = d
    /\ \A c \in Calls :
         /\ wrote[c] <= version
         /\ wrote[c] # 0 <=> Did(c, "save")
         /\ Did(c, "save") /\ request[c].expected # None
               => wrote[c] = request[c].expected + 1

(* An idempotency key has one winner, among the enqueues of all queues and *)
(* the claims, until its TTL first runs out.                               *)
OneWinner ==
    \A k \in Keys \ expired : \A c, d \in Calls :
        /\ DidTo(c, "enqueue", k) \/ DidTo(c, "claim", k)
        /\ DidTo(d, "enqueue", k) \/ DidTo(d, "claim", k)
        => c = d

(* Items are neither lost nor removed twice: what was queued and not       *)
(* acknowledged is there, whoever timed out, and every copy has its ack.   *)
QueueBalance ==
    \A q \in Queues, k \in Keys :
        copies[q][k] + Cardinality({c \in Calls : DidTo(c, "ack", k) /\ request[c].queue = q})
          = Cardinality({c \in Calls : DidTo(c, "enqueue", k) /\ request[c].queue = q})

Promise == INSTANCE PortCall
           WITH took <- {c \in Calls : run[c] = "ran" /\ outcome[c] = "ok"}

(* The ports implement PortCall: an effect happens at most once, "ok" and  *)
(* "refused" are true of the provider, only "failed" leaves it open.       *)
HonestAnswers == Promise!Spec
=============================================================================
