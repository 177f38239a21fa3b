--------------------------- MODULE RunOnceProofs ---------------------------
(***************************************************************************)
(* What holds of overlapping runOnce calls for any number of them, any     *)
(* worklists and any budgets.                                              *)
(***************************************************************************)
EXTENDS RunOnce, FiniteSetTheorems, TLAPS

(* What TypeOK says of one pass.                                           *)
Fits(q) ==
    /\ q \in PassType
    /\ q.pc \in {"idle", "proposing"} => q.results = <<>>
    /\ q.pc \in Awaiting \ {"proposing"} => Len(q.results) < Len(q.list)
    /\ q.pc = "loop" => Len(q.results) <= Len(q.list)
    /\ q.pc = "answered" => q.answer \in Answers

LEMMA CurrentIsContent ==
  ASSUME TypeOK, NEW c \in Passes, Len(pass[c].results) < Len(pass[c].list)
  PROVE  /\ Current(c) \in Contents
         /\ Len(pass[c].results) + 1 \in 1..Len(pass[c].list)
<1>1. pass[c].list \in Seq(Contents) /\ Len(pass[c].results) \in Nat /\ Len(pass[c].list) \in Nat
  BY DEF TypeOK, PassType
<1>2. Len(pass[c].results) + 1 \in 1..Len(pass[c].list)
  BY <1>1
<1> QED BY <1>1, <1>2 DEF Current

LEMMA IdleFits == Fits(Idle)
  BY DEF Fits, Idle, PassType, Awaiting

(* A step that replaces one pass, and gives or leaves it the thread.       *)
LEMMA PassStep ==
  ASSUME TypeOK, NEW c \in Passes, NEW q, Fits(q), pass' = [pass EXCEPT ![c] = q],
         turn \in {c, None}, turn' \in {c, None}, q.pc = "loop" <=> turn' = c
  PROVE  /\ turn' \in Passes \cup {None}
         /\ pass' \in [Passes -> PassType]
         /\ \A d \in Passes : pass'[d].pc = "loop" <=> turn' = d
         /\ \A d \in Passes : pass'[d].pc \in {"idle", "proposing"} => pass'[d].results = <<>>
         /\ \A d \in Passes : pass'[d].pc \in Awaiting \ {"proposing"}
                                 => Len(pass'[d].results) < Len(pass'[d].list)
         /\ \A d \in Passes : pass'[d].pc = "loop"
                                 => Len(pass'[d].results) <= Len(pass'[d].list)
         /\ \A d \in Passes : pass'[d].pc = "answered" => pass'[d].answer \in Answers
<1>1. pass'[c] = q /\ \A d \in Passes \ {c} : pass'[d] = pass[d]
  BY DEF TypeOK
<1>2. pass' \in [Passes -> PassType]
  BY DEF TypeOK, Fits
<1>3. \A d \in Passes : pass'[d].pc = "loop" <=> turn' = d
  BY <1>1, PassAssumption DEF TypeOK
<1> QED BY <1>1, <1>2, <1>3 DEF TypeOK, Fits

LEMMA ResultFits ==
  ASSUME TypeOK, NEW c \in Passes, AtEntry(c), NEW status \in Results, Result(c, status)
  PROVE  \E q : Fits(q) /\ q.pc = "loop" /\ pass' = [pass EXCEPT ![c] = q]
<1> DEFINE q == [pass[c] EXCEPT !.results = Append(@, status)]
<1>1. pass[c] \in PassType /\ pass[c].pc = "loop" /\ Len(pass[c].results) < Len(pass[c].list)
  BY PassAssumption DEF TypeOK, AtEntry
<1>2. q \in PassType
  <2>1. Append(pass[c].results, status) \in Seq(Results)
    BY <1>1 DEF PassType
  <2> QED BY <1>1, <2>1 DEF PassType
<1>3. Len(q.results) = Len(pass[c].results) + 1
  <2>1. pass[c].results \in Seq(Results) /\ q.results = Append(pass[c].results, status)
    BY <1>1 DEF PassType
  <2> QED BY <2>1
<1>4. Len(pass[c].results) \in Nat /\ Len(pass[c].list) \in Nat
  BY <1>1 DEF PassType
<1>5. q.pc = "loop" /\ q.list = pass[c].list
  BY <1>1 DEF PassType
<1>6. pass' = [pass EXCEPT ![c] = q]
  BY DEF Result
<1> HIDE DEF q
<1>7. q.pc = "loop" /\ Len(q.results) <= Len(q.list)
  BY <1>1, <1>3, <1>4, <1>5
<1>8. Fits(q)
  BY <1>2, <1>7 DEF Fits, Awaiting
<1> QED BY <1>6, <1>7, <1>8

LEMMA AnsweredFits ==
  ASSUME TypeOK, NEW c \in Passes, Len(pass[c].results) < Len(pass[c].list),
         NEW answer \in Answers, Answered(c, answer)
  PROVE  \E q : Fits(q) /\ q.pc = "answered" /\ pass' = [pass EXCEPT ![c] = q]
<1> DEFINE q == [pass[c] EXCEPT !.pc = "answered", !.asked = 0, !.answer = answer]
<1>1. pass[c] \in PassType
  BY DEF TypeOK
<1>2. q \in PassType
  BY <1>1 DEF PassType, Awaiting
<1>3. Fits(q)
  BY <1>1, <1>2 DEF Fits, PassType
<1>4. pass' = [pass EXCEPT ![c] = q] /\ q.pc = "answered"
  BY <1>1 DEF Answered, PassType
<1> QED BY <1>3, <1>4

LEMMA MovedFits ==
  ASSUME TypeOK, NEW c \in Passes, NEW pc \in {"verifying", "issuing", "executing"}, NEW t \in Nat,
         Len(pass[c].results) < Len(pass[c].list)
  PROVE  Fits([pass[c] EXCEPT !.pc = pc, !.asked = t])
<1> DEFINE q == [pass[c] EXCEPT !.pc = pc, !.asked = t]
<1>1. pass[c] \in PassType
  BY DEF TypeOK
<1>2. q \in PassType
  BY <1>1 DEF PassType, Awaiting
<1>3. q.pc = pc /\ q.results = pass[c].results /\ q.list = pass[c].list
  BY <1>1 DEF PassType
<1> HIDE DEF q
<1>4. Fits(q)
  BY <1>2, <1>3 DEF Fits, Awaiting
<1> QED BY <1>4 DEF q

(* The variables other than the passes and the thread.                     *)
Rest ==
    /\ now \in Nat
    /\ halted \in BOOLEAN /\ override \in BOOLEAN /\ issues \in BOOLEAN
    /\ contract \in {"none", "ratified", "rejected"}
    /\ recorded \in [Ids -> Contents \cup {None}]
    /\ verdict \in [Contents -> Nat]
    /\ attempts \in [Ids -> Nat]
    /\ quarantine \subseteq Ids
    /\ effects \subseteq Keys
    /\ lease \in [Passes -> Nat]

LEMMA RestOfEntry ==
  ASSUME TypeOK, NEW c \in Passes,
         \/ OutOfTime(c) \/ Defer(c) \/ Escalate(c) \/ InQuarantine(c) \/ OutOfAttempts(c)
         \/ NoAdapter(c) \/ Verify(c) \/ VerifyRefused(c)
  PROVE  Rest'
<1>1. AtEntry(c) /\ Current(c) \in Contents /\ IdOf[Current(c)] \in Ids
  <2>1. AtEntry(c)
    BY DEF OutOfTime, Defer, Escalate, InQuarantine, OutOfAttempts, NoAdapter, Verify,
           VerifyRefused, Verifiable, Tried, Effect, TakeUp
  <2> QED BY <2>1, CurrentIsContent, WorkAssumption DEF AtEntry
<1>2. recorded' \in [Ids -> Contents \cup {None}]
  <2>1. Recorded(c) \in [Ids -> Contents \cup {None}]
    BY <1>1 DEF Recorded, TypeOK
  <2> QED BY <2>1 DEF OutOfTime, Defer, Escalate, InQuarantine, OutOfAttempts, NoAdapter, Verify,
             VerifyRefused, Verifiable, Tried, Effect, TakeUp, evidence, TypeOK
<1>3. attempts' \in [Ids -> Nat] /\ quarantine' \subseteq Ids
  <2>1. CASE OutOfTime(c) \/ OutOfAttempts(c)
    BY <1>1, <2>1 DEF OutOfTime, OutOfAttempts, Quarantined, TypeOK
  <2>2. CASE NoAdapter(c)
    BY <1>1, <2>2 DEF NoAdapter, TypeOK
  <2>3. CASE Defer(c) \/ Escalate(c) \/ InQuarantine(c) \/ Verify(c) \/ VerifyRefused(c)
    BY <2>3 DEF Defer, Escalate, InQuarantine, Verify, VerifyRefused, budgets, TypeOK
  <2> QED BY <2>1, <2>2, <2>3
<1>4. /\ issues' \in BOOLEAN
      /\ UNCHANGED <<now, halted, override, contract, verdict, effects, lease>>
  BY DEF OutOfTime, Defer, Escalate, InQuarantine, OutOfAttempts, NoAdapter, Verify,
         VerifyRefused, budgets, Quarantined, TypeOK, operator, evidence, outcome
<1> QED BY <1>2, <1>3, <1>4 DEF Rest, TypeOK

LEMMA RestOfAwait ==
  ASSUME TypeOK, NEW c \in Passes, Settle(c)
  PROVE  Rest'
<1>1. CASE \/ \E list \in Worklists : Proposed(c, list)
           \/ ProposeFails(c) \/ StoreFails(c) \/ Abandon(c) \/ Duplicate(c)
           \/ VerdictRefused(c) \/ IssueRefused(c)
  BY <1>1 DEF Proposed, ProposeFails, StoreFails, Abandon, Duplicate, VerdictRefused,
              IssueRefused, operator, evidence, budgets, outcome, Rest, TypeOK
<1>2. ASSUME pass[c].pc \in {"verifying", "issuing", "executing", "answered"}
      PROVE  Current(c) \in Contents /\ KeyOf[Current(c)] \in Keys /\ IdOf[Current(c)] \in Ids
  <2>1. pass[c].pc \in Awaiting \ {"proposing"}
    BY <1>2 DEF Awaiting
  <2>2. Len(pass[c].results) < Len(pass[c].list)
    BY <2>1 DEF TypeOK
  <2>3. Current(c) \in Contents
    BY <2>2, CurrentIsContent
  <2> QED BY <2>3, WorkAssumption
<1>3. CASE VerdictPassed(c)
  <2>1. pass[c].asked + VerdictTTL \in Nat /\ Current(c) \in Contents
    BY <1>2, <1>3, TimeAssumption DEF VerdictPassed, At, TypeOK, PassType
  <2>2. verdict' \in [Contents -> Nat]
    BY <1>3, <2>1 DEF VerdictPassed, VerdictKept, TypeOK
  <2> QED BY <1>3, <2>2 DEF VerdictPassed, operator, budgets, outcome, Rest, TypeOK
<1>4. CASE Execute(c)
  <2>1. now + LeaseTTL \in Nat
    BY TimeAssumption DEF TypeOK
  <2> QED BY <1>4, <2>1 DEF Execute, operator, evidence, budgets, Rest, TypeOK
<1>5. CASE ExecutorReturns(c) \/ \E receipt \in Receipts : ExecutorThrows(c, receipt)
  <2>1. KeyOf[Current(c)] \in Keys
    BY <1>2, <1>5 DEF ExecutorReturns, ExecutorThrows, At
  <2>2. effects' \subseteq Keys /\ lease' \in [Passes -> Nat]
    <3>1. CASE ExecutorReturns(c)
      BY <2>1, <3>1 DEF ExecutorReturns, TypeOK
    <3>2. CASE \E receipt \in Receipts : ExecutorThrows(c, receipt)
      BY <2>1, <3>2 DEF ExecutorThrows, TypeOK
    <3> QED BY <1>5, <3>1, <3>2
  <2> QED BY <1>5, <2>2 DEF ExecutorReturns, ExecutorThrows, operator, evidence, budgets, Rest, TypeOK
<1>6. CASE Resume(c)
  <2>1. IdOf[Current(c)] \in Ids
    BY <1>2, <1>6 DEF Resume, At
  <2>2. attempts' \in [Ids -> Nat] /\ quarantine' \subseteq Ids /\ issues' \in BOOLEAN
    <3>1. CASE Failed(c)
      BY <2>1, <3>1 DEF Failed, TypeOK
    <3>2. CASE UNCHANGED <<attempts, quarantine, issues>>
      BY <3>2 DEF TypeOK
    <3> QED BY <1>6, <3>1, <3>2 DEF Resume
  <2> QED BY <1>6, <2>2 DEF Resume, operator, evidence, outcome, Rest, TypeOK
<1> QED BY <1>1, <1>3, <1>4, <1>5, <1>6 DEF Settle

LEMMA RestOfOthers ==
  ASSUME TypeOK,
         \/ Tick \/ Operate \/ Crash
         \/ \E c \in Passes : Finish(c) \/ \E accepted \in BOOLEAN : Start(c, accepted)
  PROVE  Rest'
<1>1. CASE Tick \/ Crash
  BY <1>1 DEF Tick, Crash, operator, evidence, budgets, outcome, Rest, TypeOK
<1>2. CASE Operate
  BY <1>2 DEF Operate, evidence, budgets, outcome, Rest, TypeOK
<1>3. ASSUME NEW c \in Passes, Finish(c) PROVE Rest'
  BY <1>3 DEF Finish, operator, evidence, budgets, outcome, Rest, TypeOK
<1>4. ASSUME NEW c \in Passes, NEW accepted \in BOOLEAN, Start(c, accepted) PROVE Rest'
  BY <1>4 DEF Start, operator, budgets, outcome, Rest, TypeOK
<1> QED BY <1>1, <1>2, <1>3, <1>4

(* Where a pass may be after a step of its own.                            *)
LEMMA PassMoves ==
  ASSUME TypeOK, NEW c \in Passes,
         Loop(c) \/ Settle(c) \/ \E accepted \in BOOLEAN : Start(c, accepted)
  PROVE  \E q : /\ Fits(q) /\ pass' = [pass EXCEPT ![c] = q]
                /\ turn \in {c, None} /\ turn' \in {c, None}
                /\ q.pc = "loop" <=> turn' = c
<1> USE PassAssumption
<1>0. Idle.pc = "idle" /\ Fits(Idle)
  BY IdleFits DEF Idle
<1>1. CASE OutOfTime(c) \/ Defer(c) \/ Escalate(c) \/ InQuarantine(c) \/ OutOfAttempts(c) \/ NoAdapter(c)
  <2>1. turn = c /\ turn' = c /\ AtEntry(c)
    BY <1>1 DEF OutOfTime, Defer, Escalate, InQuarantine, OutOfAttempts, NoAdapter, Tried, Effect,
                TakeUp, AtEntry
  <2>2. \E status \in Results : Result(c, status)
    BY <1>1 DEF OutOfTime, Defer, Escalate, InQuarantine, OutOfAttempts, NoAdapter, Results
  <2> QED BY <2>1, <2>2, ResultFits
<1>2. CASE Verify(c)
  <2> DEFINE q == [pass[c] EXCEPT !.pc = "verifying", !.asked = now]
  <2>1. turn = c /\ turn' = None /\ AtEntry(c) /\ pass' = [pass EXCEPT ![c] = q]
    BY <1>2 DEF Verify, Verifiable, Tried, Effect, TakeUp, AtEntry
  <2>2. Fits(q) /\ q.pc = "verifying"
    BY <2>1, MovedFits DEF AtEntry, TypeOK, PassType
  <2> QED BY <2>1, <2>2
<1>3. CASE VerifyRefused(c)
  <2>1. turn = c /\ turn' = None /\ AtEntry(c) /\ Answered(c, "propose_only")
    BY <1>3 DEF VerifyRefused, Verifiable, Tried, Effect, TakeUp, AtEntry
  <2> QED BY <2>1, AnsweredFits DEF AtEntry, Answers
<1>4. CASE Finish(c) \/ ProposeFails(c) \/ Abandon(c)
  <2>1. turn \in {c, None} /\ turn' = None /\ pass' = [pass EXCEPT ![c] = Idle]
    BY <1>4 DEF Finish, ProposeFails, Abandon, At
  <2> QED BY <1>0, <2>1
<1>5. ASSUME NEW accepted \in BOOLEAN, Start(c, accepted)
      PROVE  \E q : /\ Fits(q) /\ pass' = [pass EXCEPT ![c] = q]
                    /\ turn \in {c, None} /\ turn' \in {c, None}
                    /\ q.pc = "loop" <=> turn' = c
  <2> DEFINE q == [Idle EXCEPT !.pc = "proposing", !.since = now]
  <2>1. turn = None /\ turn' = None /\ pass' = [pass EXCEPT ![c] = q]
    BY <1>5 DEF Start
  <2>2. Fits(q) /\ q.pc = "proposing"
    <3>1. Idle \in PassType /\ Idle.results = <<>>
      BY IdleFits DEF Fits, Idle
    <3>2. q \in PassType /\ q.results = <<>> /\ q.pc = "proposing"
      BY <3>1 DEF PassType, Awaiting, TypeOK
    <3> QED BY <3>2 DEF Fits
  <2> QED BY <2>1, <2>2
<1>6. ASSUME NEW list \in Worklists, Proposed(c, list)
      PROVE  \E q : /\ Fits(q) /\ pass' = [pass EXCEPT ![c] = q]
                    /\ turn \in {c, None} /\ turn' \in {c, None}
                    /\ q.pc = "loop" <=> turn' = c
  <2> DEFINE q == [pass[c] EXCEPT !.pc = "loop", !.list = list]
  <2>1. turn = None /\ turn' = c /\ pass' = [pass EXCEPT ![c] = q]
    BY <1>6 DEF Proposed
  <2>2. Fits(q) /\ q.pc = "loop"
    <3>1. list \in Seq(Contents) /\ Len(list) \in Nat /\ Len(list) >= 0
      BY WorkAssumption
    <3>2. pass[c] \in PassType /\ pass[c].results = <<>>
      BY <1>6 DEF Proposed, TypeOK
    <3>3. q \in PassType /\ q.pc = "loop" /\ q.results = <<>> /\ q.list = list
      BY <3>1, <3>2 DEF PassType
    <3> QED BY <3>1, <3>3 DEF Fits, Awaiting
  <2> QED BY <2>1, <2>2
<1>7. ASSUME pass[c].pc \in Awaiting \ {"proposing"}
      PROVE  Len(pass[c].results) < Len(pass[c].list)
  BY <1>7 DEF TypeOK
<1>8. CASE VerdictPassed(c) \/ Execute(c)
  <2>1. \E pc \in {"issuing", "executing"}, t \in Nat :
           pass' = [pass EXCEPT ![c] = [pass[c] EXCEPT !.pc = pc, !.asked = t]]
    <3>1. CASE VerdictPassed(c)
      BY <3>1 DEF VerdictPassed
    <3>2. CASE Execute(c)
      <4>1. pass[c].asked \in Nat /\ pass[c] = [pass[c] EXCEPT !.asked = pass[c].asked]
        BY DEF TypeOK, PassType
      <4>2. [pass[c] EXCEPT !.pc = "executing"]
               = [pass[c] EXCEPT !.pc = "executing", !.asked = pass[c].asked]
        BY DEF TypeOK, PassType
      <4> QED BY <3>2, <4>1, <4>2 DEF Execute
    <3> QED BY <1>8, <3>1, <3>2
  <2>2. PICK pc \in {"issuing", "executing"}, t \in Nat :
           pass' = [pass EXCEPT ![c] = [pass[c] EXCEPT !.pc = pc, !.asked = t]]
    BY <2>1
  <2> DEFINE q == [pass[c] EXCEPT !.pc = pc, !.asked = t]
  <2>3. turn = None /\ turn' = None /\ pass[c].pc \in Awaiting \ {"proposing"}
    BY <1>8 DEF VerdictPassed, Execute, At, Awaiting
  <2>4. Fits(q) /\ q.pc = pc
    BY <1>7, <2>3, MovedFits DEF TypeOK, PassType
  <2> QED BY <2>2, <2>3, <2>4
<1>9. CASE \/ VerdictRefused(c) \/ Duplicate(c) \/ IssueRefused(c) \/ ExecutorReturns(c)
           \/ (\E receipt \in Receipts : ExecutorThrows(c, receipt)) \/ StoreFails(c)
  <2>1. turn = None /\ turn' = None /\ pass[c].pc \in Awaiting \ {"proposing"}
    BY <1>9 DEF VerdictRefused, Duplicate, IssueRefused, ExecutorReturns, ExecutorThrows,
                StoreFails, At, Awaiting
  <2>2. \E answer \in Answers : Answered(c, answer)
    BY <1>9 DEF VerdictRefused, Duplicate, IssueRefused, ExecutorReturns, ExecutorThrows,
                StoreFails, Answers
  <2> QED BY <1>7, <2>1, <2>2, AnsweredFits
<1>10. CASE Resume(c)
  <2>1. turn = None /\ turn' = c /\ pass[c].pc = "answered"
    BY <1>10 DEF Resume, At
  <2>2. /\ pass[c] \in PassType /\ pass[c].answer \in Answers
        /\ Len(pass[c].results) < Len(pass[c].list)
    BY <2>1 DEF TypeOK, Awaiting
  <2> DEFINE status == IF pass[c].answer = "threw" THEN "failed" ELSE pass[c].answer
             q == [pass[c] EXCEPT !.pc = "loop", !.answer = None,
                                  !.results = Append(@, status)]
  <2>3. status \in Results
    BY <2>2 DEF Results
  <2>4. pass[c].results \in Seq(Results) /\ pass[c].list \in Seq(Contents)
    BY <2>2 DEF PassType
  <2> HIDE DEF status
  <2>5. /\ Append(pass[c].results, status) \in Seq(Results)
        /\ Len(Append(pass[c].results, status)) = Len(pass[c].results) + 1
    BY <2>3, <2>4
  <2>6. q \in PassType /\ q.pc = "loop" /\ q.list = pass[c].list
          /\ q.results = Append(pass[c].results, status)
    BY <2>2, <2>5 DEF PassType
  <2>7. Len(pass[c].results) \in Nat /\ Len(pass[c].list) \in Nat
    BY <2>4
  <2>8. Fits(q)
    BY <2>2, <2>5, <2>6, <2>7 DEF Fits, Awaiting
  <2>9. pass' = [pass EXCEPT ![c] = q]
    BY <1>10 DEF Resume, status
  <2> QED BY <2>1, <2>6, <2>8, <2>9
<1> QED
  BY <1>1, <1>2, <1>3, <1>4, <1>5, <1>6, <1>8, <1>9, <1>10 DEF Loop, Settle

LEMMA TypeStep == ASSUME TypeOK, [Next]_vars PROVE TypeOK'
<1>1. CASE UNCHANGED vars
  BY <1>1 DEF vars, operator, evidence, budgets, outcome, TypeOK
<1>2. ASSUME Rest', NEW c \in Passes,
             \E q : /\ Fits(q) /\ pass' = [pass EXCEPT ![c] = q]
                    /\ turn \in {c, None} /\ turn' \in {c, None}
                    /\ q.pc = "loop" <=> turn' = c
      PROVE  TypeOK'
  BY <1>2, PassStep DEF TypeOK, Rest
<1>3. CASE Tick \/ Operate
  <2>1. Rest' /\ UNCHANGED <<turn, pass>>
    BY <1>3, RestOfOthers DEF Tick, Operate
  <2> QED BY <2>1 DEF TypeOK, Rest
<1>4. CASE Crash
  <2>1. Rest' /\ turn' = None /\ pass' = [c \in Passes |-> Idle]
    BY <1>4, RestOfOthers DEF Crash
  <2>2. Idle \in PassType /\ Idle.pc = "idle" /\ Idle.results = <<>>
    BY IdleFits DEF Fits, Idle
  <2> QED BY <2>1, <2>2, PassAssumption DEF TypeOK, Rest, Awaiting
<1>5. ASSUME NEW c \in Passes, Loop(c) PROVE TypeOK'
  BY <1>2, <1>5, PassMoves, RestOfEntry, RestOfOthers DEF Loop
<1>6. ASSUME NEW c \in Passes, Settle(c) PROVE TypeOK'
  BY <1>2, <1>6, PassMoves, RestOfAwait
<1>7. ASSUME NEW c \in Passes, NEW accepted \in BOOLEAN, Start(c, accepted) PROVE TypeOK'
  BY <1>2, <1>7, PassMoves, RestOfOthers
<1> QED BY <1>1, <1>3, <1>4, <1>5, <1>6, <1>7 DEF Next

(* The loop is well typed, for any passes, worklists and budgets.          *)
THEOREM TypeCorrect == Spec => []TypeOK
<1>1. Init => TypeOK
  <2> SUFFICES ASSUME Init PROVE TypeOK
    OBVIOUS
  <2>1. Idle \in PassType /\ Idle.pc = "idle" /\ Idle.results = <<>>
    BY IdleFits DEF Fits, Idle
  <2> QED BY <2>1, PassAssumption DEF Init, TypeOK, Awaiting
<1>2. TypeOK /\ [Next]_vars => TypeOK'
  BY TypeStep
<1> QED BY <1>1, <1>2, PTL DEF Spec

----------------------------------------------------------------------------
(* An executor starts in one action only.                                  *)
LEMMA StartsIsExecute ==
  ASSUME TypeOK, [Next]_vars, NEW c \in Passes, Starts(c)
  PROVE  Execute(c)
<1> USE DEF Starts
<1>1. CASE UNCHANGED vars
  BY <1>1 DEF vars
<1>2. CASE Tick \/ Operate \/ Crash
  BY <1>2 DEF Tick, Operate, Crash, Idle
<1>3. ASSUME NEW d \in Passes, d # c,
             Loop(d) \/ Settle(d) \/ \E accepted \in BOOLEAN : Start(d, accepted)
      PROVE  FALSE
  BY <1>3, PassMoves DEF TypeOK
<1>4. ASSUME NEW accepted \in BOOLEAN, Start(c, accepted) PROVE FALSE
  BY <1>4 DEF Start, Idle, TypeOK
<1>5. ASSUME Loop(c) PROVE FALSE
  <2>1. CASE Verify(c)
    BY <2>1 DEF Verify, TypeOK, PassType
  <2>2. CASE VerifyRefused(c)
    BY <2>2 DEF VerifyRefused, Answered, TypeOK, PassType
  <2>3. CASE Finish(c)
    BY <2>3 DEF Finish, Idle, TypeOK
  <2>4. ASSUME NEW status, Result(c, status) PROVE FALSE
    BY <2>4 DEF Result, TypeOK, PassType
  <2> QED BY <1>5, <2>1, <2>2, <2>3, <2>4
          DEF Loop, OutOfTime, Defer, Escalate, InQuarantine, OutOfAttempts, NoAdapter
<1>6. ASSUME Settle(c), ~Execute(c) PROVE FALSE
  <2>1. ASSUME NEW answer, Answered(c, answer) PROVE FALSE
    BY <2>1 DEF Answered, TypeOK, PassType
  <2>2. CASE ProposeFails(c) \/ Abandon(c)
    BY <2>2 DEF ProposeFails, Abandon, Idle, TypeOK
  <2>3. CASE Resume(c) \/ \E list \in Worklists : Proposed(c, list)
    BY <2>3 DEF Resume, Proposed, TypeOK, PassType
  <2>4. CASE VerdictPassed(c)
    BY <2>4 DEF VerdictPassed, TypeOK, PassType
  <2> QED BY <1>6, <2>1, <2>2, <2>3, <2>4
          DEF Settle, VerdictRefused, Duplicate, IssueRefused, ExecutorReturns,
              ExecutorThrows, StoreFails
<1> QED BY <1>1, <1>2, <1>3, <1>4, <1>5, <1>6 DEF Next

(* Nothing is taken back: commits, quarantine, issues, counted attempts.   *)
LEMMA OnlyGrows ==
  ASSUME TypeOK, [Next]_vars
  PROVE  /\ effects \subseteq effects' /\ quarantine \subseteq quarantine'
         /\ issues => issues'
         /\ \A id \in Ids : attempts'[id] >= attempts[id]
<1> DEFINE Grown == /\ effects \subseteq effects' /\ quarantine \subseteq quarantine'
                    /\ issues => issues'
                    /\ \A id \in Ids : attempts'[id] >= attempts[id]
<1>0. \A id \in Ids : attempts[id] \in Nat
  BY DEF TypeOK
<1>1. CASE UNCHANGED <<effects, quarantine, attempts>> /\ (issues => issues')
  BY <1>0, <1>1
<1>2. ASSUME NEW c \in Passes, OutOfTime(c) \/ OutOfAttempts(c) PROVE Grown
  BY <1>0, <1>2 DEF OutOfTime, OutOfAttempts, Quarantined, outcome
<1>3. ASSUME NEW c \in Passes, NoAdapter(c) PROVE Grown
  BY <1>0, <1>3 DEF NoAdapter, outcome, TypeOK
<1>4. ASSUME NEW c \in Passes, ExecutorReturns(c) \/ \E receipt \in Receipts : ExecutorThrows(c, receipt)
      PROVE  Grown
  BY <1>0, <1>4 DEF ExecutorReturns, ExecutorThrows, budgets
<1>5. ASSUME NEW c \in Passes, Resume(c) PROVE Grown
  <2>1. CASE Failed(c)
    BY <1>0, <1>5, <2>1 DEF Resume, Failed, outcome, TypeOK
  <2>2. CASE UNCHANGED <<attempts, quarantine, issues>>
    BY <1>0, <1>5, <2>2 DEF Resume, outcome
  <2> QED BY <1>5, <2>1, <2>2 DEF Resume
<1>6. ASSUME NEW c \in Passes,
             \/ Defer(c) \/ Escalate(c) \/ InQuarantine(c) \/ Verify(c) \/ VerifyRefused(c)
             \/ Finish(c) \/ ProposeFails(c) \/ VerdictPassed(c) \/ VerdictRefused(c)
             \/ Execute(c) \/ Duplicate(c) \/ IssueRefused(c) \/ StoreFails(c) \/ Abandon(c)
             \/ (\E list \in Worklists : Proposed(c, list))
             \/ (\E accepted \in BOOLEAN : Start(c, accepted))
      PROVE  UNCHANGED <<effects, quarantine, attempts>> /\ (issues => issues')
  BY <1>6 DEF Defer, Escalate, InQuarantine, Verify, VerifyRefused, Finish, ProposeFails,
              VerdictPassed, VerdictRefused, Execute, Duplicate, IssueRefused, StoreFails,
              Abandon, Proposed, Start, budgets, outcome
<1>7. CASE Tick \/ Operate \/ Crash \/ UNCHANGED vars
  BY <1>1, <1>7 DEF Tick, Operate, Crash, budgets, outcome, vars
<1> QED BY <1>1, <1>2, <1>3, <1>4, <1>5, <1>6, <1>7 DEF Next, Loop, Settle

(* Whatever is quarantined, and every counted attempt, has closed the gate.*)
Closed == quarantine # {} \/ (\E id \in Ids : attempts[id] # 0) => issues

LEMMA ClosedStep == ASSUME TypeOK, Closed, [Next]_vars PROVE Closed'
<1>1. CASE UNCHANGED budgets
  BY <1>1, OnlyGrows DEF Closed, budgets
<1>2. CASE issues'
  BY <1>2 DEF Closed
<1>3. ASSUME NEW c \in Passes, OutOfTime(c) \/ OutOfAttempts(c) \/ NoAdapter(c) PROVE issues'
  BY <1>3 DEF OutOfTime, OutOfAttempts, NoAdapter, Quarantined
<1>4. ASSUME NEW c \in Passes, Resume(c) PROVE issues' \/ UNCHANGED budgets
  BY <1>4 DEF Resume, Failed, budgets
<1>5. ASSUME NEW c \in Passes, Loop(c), ~OutOfTime(c), ~OutOfAttempts(c), ~NoAdapter(c)
      PROVE  UNCHANGED budgets
  BY <1>5 DEF Loop, Defer, Escalate, InQuarantine, Verify, VerifyRefused, Finish
<1>6. ASSUME NEW c \in Passes, Settle(c), ~Resume(c) PROVE UNCHANGED budgets
  BY <1>6 DEF Settle, Proposed, ProposeFails, VerdictPassed, VerdictRefused, Execute, Duplicate,
              IssueRefused, ExecutorReturns, ExecutorThrows, StoreFails, Abandon
<1>7. CASE \/ Tick \/ Operate \/ Crash \/ UNCHANGED vars
           \/ \E c \in Passes, accepted \in BOOLEAN : Start(c, accepted)
  BY <1>1, <1>7 DEF Tick, Operate, Crash, Start, budgets, vars
<1> QED BY <1>1, <1>2, <1>3, <1>4, <1>5, <1>6, <1>7 DEF Next

(* No executor starts once a failure is counted or a proposal quarantined  *)
(* (runOnce, quarantine, runtimeHealth), in any number of passes.          *)
THEOREM FailureIsFinalEver == Spec => FailureIsFinal
<1>1. Init => Closed
  BY DEF Init, Closed
<1>2. TypeOK /\ Closed /\ [Next]_vars => Closed'
  BY ClosedStep
<1>3. TypeOK /\ Closed /\ [Next]_vars
        => [\A c \in Passes : Starts(c) =>
              quarantine = {} /\ \A id \in Ids : attempts[id] = 0]_vars
  BY StartsIsExecute DEF Execute, MayIssue, GateOpen, Closed
<1> QED BY <1>1, <1>2, <1>3, TypeCorrect, PTL DEF Spec, FailureIsFinal

(* The first verdict's life bounds every start of a content                *)
(* (recordProposalVerification, issueCapability), for any budgets.         *)
THEOREM RepetitionEndsEver == Spec => RepetitionEnds
<1>1. ASSUME TypeOK, [Next]_vars, NEW p \in Contents, verdict[p] # 0
      PROVE  verdict'[p] = verdict[p]
  <2>1. CASE verdict' = verdict
    BY <2>1
  <2>2. ASSUME NEW c \in Passes, VerdictPassed(c) PROVE verdict'[p] = verdict[p]
    <3>1. Current(c) \in Contents
      BY <1>1, <2>2, CurrentIsContent DEF VerdictPassed, At, TypeOK, Awaiting
    <3> QED BY <1>1, <2>2, <3>1 DEF VerdictPassed, VerdictKept, TypeOK
  <2>3. ASSUME NEW c \in Passes, Loop(c) PROVE verdict' = verdict
    BY <2>3 DEF Loop, OutOfTime, Defer, Escalate, InQuarantine, OutOfAttempts, NoAdapter,
                Verify, VerifyRefused, Finish, evidence
  <2>4. ASSUME NEW c \in Passes, Settle(c), ~VerdictPassed(c) PROVE verdict' = verdict
    BY <2>4 DEF Settle, Proposed, ProposeFails, VerdictRefused, Execute, Duplicate,
                IssueRefused, ExecutorReturns, ExecutorThrows, StoreFails, Abandon, Resume, evidence
  <2>5. CASE \/ Tick \/ Operate \/ Crash \/ UNCHANGED vars
             \/ \E c \in Passes, accepted \in BOOLEAN : Start(c, accepted)
    BY <2>1, <2>5 DEF Tick, Operate, Crash, Start, evidence, vars
  <2> QED BY <1>1, <2>1, <2>2, <2>3, <2>4, <2>5 DEF Next
<1>2. ASSUME TypeOK, [Next]_vars, NEW c \in Passes, Starts(c)
      PROVE  now < verdict[Current(c)]
  <2>1. Execute(c)
    BY <1>2, StartsIsExecute
  <2>2. Current(c) \in Contents
    BY <1>2, <2>1, CurrentIsContent DEF Execute, At, TypeOK, Awaiting
  <2> QED BY <1>2, <2>1, <2>2 DEF Execute, MayIssue, TypeOK
<1>3. TypeOK /\ [Next]_vars
        => [\A p \in Contents : verdict[p] # 0 =>
              /\ verdict'[p] = verdict[p]
              /\ \A c \in Passes : Starts(c) /\ Current(c) = p => now < verdict[p]]_vars
  BY <1>1, <1>2
<1> QED BY <1>3, TypeCorrect, PTL DEF Spec, RepetitionEnds

----------------------------------------------------------------------------
(* Attempts.  An entry counts as under way from its look at the attempts   *)
(* to the place where they are counted.                                    *)
UnderWay(id) == {c \in Passes : /\ pass[c].pc \in Awaiting \ {"proposing"}
                                /\ IdOf[Current(c)] = id}

Overrun(id) == attempts[id] + Cardinality(UnderWay(id)) <= MaxAttempts + Cardinality(Passes) - 1

LEMMA Count ==
  ASSUME NEW S, NEW T, S \subseteq T, T \subseteq Passes
  PROVE  /\ Cardinality(S) \in Nat /\ Cardinality(T) \in Nat
         /\ Cardinality(S) <= Cardinality(T)
         /\ \A c \in T \ S : Cardinality(S) + 1 <= Cardinality(T)
<1>1. IsFiniteSet(S) /\ IsFiniteSet(T)
  BY PassAssumption, FS_Subset
<1>2. Cardinality(S) \in Nat /\ Cardinality(T) \in Nat /\ Cardinality(S) <= Cardinality(T)
  BY <1>1, FS_CardinalityType, FS_Subset
<1>3. ASSUME NEW c \in T \ S PROVE Cardinality(S) + 1 <= Cardinality(T)
  <2>1. Cardinality(S \cup {c}) = Cardinality(S) + 1
    BY <1>1, FS_AddElement
  <2>2. S \cup {c} \subseteq T
    OBVIOUS
  <2> QED BY <1>1, <2>1, <2>2, FS_Subset
<1> QED BY <1>2, <1>3

(* The four ways a step concerns the attempts of an id.                    *)
LEMMA Overruns ==
  ASSUME TypeOK, NEW id \in Ids, Overrun(id),
         UnderWay(id)' \subseteq Passes,
         \/ attempts'[id] = attempts[id] /\ UnderWay(id)' \subseteq UnderWay(id)
         \/ \E c \in Passes : /\ attempts'[id] = attempts[id] + 1
                              /\ c \in UnderWay(id)
                              /\ UnderWay(id)' \subseteq UnderWay(id) \ {c}
         \/ /\ attempts'[id] = attempts[id] /\ attempts[id] < MaxAttempts
         \/ \E c \in Passes : /\ attempts'[id] = attempts[id] + 1 /\ attempts[id] < MaxAttempts
                              /\ c \notin UnderWay(id)'
  PROVE  Overrun(id)'
<1> DEFINE old == UnderWay(id)
           new == UnderWay(id)'
<1>1. old \subseteq Passes /\ new \subseteq Passes /\ attempts[id] \in Nat /\ MaxAttempts \in Nat
  BY BudgetAssumption DEF UnderWay, TypeOK
<1>2. Cardinality(old) \in Nat /\ Cardinality(new) \in Nat /\ Cardinality(Passes) \in Nat
  BY <1>1, Count
<1>3. attempts[id] + Cardinality(old) <= MaxAttempts + Cardinality(Passes) - 1
  BY DEF Overrun
<1>4. SUFFICES attempts'[id] + Cardinality(new) <= MaxAttempts + Cardinality(Passes) - 1
  BY DEF Overrun
<1>5. CASE attempts'[id] = attempts[id] /\ new \subseteq old
  <2>1. Cardinality(new) <= Cardinality(old)
    BY <1>1, <1>5, Count
  <2> HIDE DEF old, new
  <2> QED BY <1>1, <1>2, <1>3, <1>5, <2>1
<1>6. ASSUME NEW c \in Passes, attempts'[id] = attempts[id] + 1, c \in old, new \subseteq old \ {c}
      PROVE  attempts'[id] + Cardinality(new) <= MaxAttempts + Cardinality(Passes) - 1
  <2>1. Cardinality(new) + 1 <= Cardinality(old)
    BY <1>1, <1>6, Count
  <2> HIDE DEF old, new
  <2> QED BY <1>1, <1>2, <1>3, <1>6, <2>1
<1>7. CASE attempts'[id] = attempts[id] /\ attempts[id] < MaxAttempts
  <2>1. Cardinality(new) <= Cardinality(Passes)
    BY <1>1, Count
  <2> HIDE DEF old, new
  <2> QED BY <1>1, <1>2, <1>7, <2>1
<1>8. ASSUME NEW c \in Passes, attempts'[id] = attempts[id] + 1, attempts[id] < MaxAttempts,
             c \notin new
      PROVE  attempts'[id] + Cardinality(new) <= MaxAttempts + Cardinality(Passes) - 1
  <2>1. Cardinality(new) + 1 <= Cardinality(Passes)
    BY <1>1, <1>8, Count
  <2> HIDE DEF old, new
  <2> QED BY <1>1, <1>2, <1>8, <2>1
<1> QED BY <1>5, <1>6, <1>7, <1>8

(* Which passes a step can put under way.                                  *)
LEMMA UnderWayStep ==
  ASSUME TypeOK, NEW c \in Passes, NEW q, pass' = [pass EXCEPT ![c] = q], NEW id
  PROVE  /\ UnderWay(id)' \subseteq UnderWay(id) \cup {c}
         /\ q.pc \notin Awaiting \ {"proposing"} => UnderWay(id)' \subseteq UnderWay(id) \ {c}
         /\ /\ pass[c].pc \in Awaiting \ {"proposing"}
            /\ q.results = pass[c].results /\ q.list = pass[c].list
            => UnderWay(id)' \subseteq UnderWay(id)
  BY DEF UnderWay, Current, TypeOK

LEMMA OverrunStep ==
  ASSUME TypeOK, [Next]_vars, NEW id \in Ids, Overrun(id)
  PROVE  Overrun(id)'
<1>0. UnderWay(id)' \subseteq Passes
  BY DEF UnderWay
<1>1. ASSUME UNCHANGED <<pass, attempts>> PROVE Overrun(id)'
  BY <1>0, <1>1, Overruns DEF UnderWay, Current
<1>2. CASE Crash
  BY <1>0, <1>2, Overruns DEF Crash, budgets, UnderWay, Idle, Awaiting
<1>3. ASSUME NEW c \in Passes, NEW accepted \in BOOLEAN, Start(c, accepted) PROVE Overrun(id)'
  <2>1. UnderWay(id)' \subseteq UnderWay(id)
    <3>1. pass'[c].pc = "proposing" /\ \A d \in Passes \ {c} : pass'[d] = pass[d]
      BY <1>3 DEF Start, Idle, TypeOK
    <3> QED BY <3>1 DEF UnderWay, Current, Awaiting
  <2> QED BY <1>0, <1>3, <2>1, Overruns DEF Start, budgets
<1>4. ASSUME NEW c \in Passes, Verify(c) \/ VerifyRefused(c) PROVE Overrun(id)'
  <2>1. attempts' = attempts
    BY <1>4 DEF Verify, VerifyRefused, budgets
  <2>2. CASE IdOf[Current(c)] = id
    <3>1. attempts[id] < MaxAttempts
      BY <1>4, <2>2 DEF Verify, VerifyRefused, Verifiable, Tried, AttemptsLeft
    <3> QED BY <1>0, <2>1, <3>1, Overruns
  <2>3. CASE IdOf[Current(c)] # id
    <3>1. /\ \A d \in Passes \ {c} : pass'[d] = pass[d]
          /\ pass'[c].results = pass[c].results /\ pass'[c].list = pass[c].list
      BY <1>4 DEF Verify, VerifyRefused, Answered, TypeOK, PassType
    <3>2. UnderWay(id)' \subseteq UnderWay(id)
      BY <2>3, <3>1 DEF UnderWay, Current
    <3> QED BY <1>0, <2>1, <3>2, Overruns
  <2> QED BY <2>2, <2>3
<1>5. ASSUME NEW c \in Passes,
             \/ OutOfTime(c) \/ Defer(c) \/ Escalate(c) \/ InQuarantine(c) \/ OutOfAttempts(c)
             \/ NoAdapter(c)
      PROVE  Overrun(id)'
  <2>1. \E q : q.pc = "loop" /\ pass' = [pass EXCEPT ![c] = q]
    <3>1. AtEntry(c) /\ \E status \in Results : Result(c, status)
      BY <1>5 DEF OutOfTime, Defer, Escalate, InQuarantine, OutOfAttempts, NoAdapter, Tried,
                  Effect, TakeUp, Results
    <3> QED BY <3>1, ResultFits
  <2>2. UnderWay(id)' \subseteq UnderWay(id) \ {c}
    BY <2>1, UnderWayStep DEF Awaiting
  <2>3. CASE ~NoAdapter(c)
    <3>1. attempts' = attempts
      BY <1>5, <2>3 DEF OutOfTime, Defer, Escalate, InQuarantine, OutOfAttempts, budgets
    <3> QED BY <1>0, <2>2, <3>1, Overruns
  <2>4. CASE NoAdapter(c)
    <3>1. Current(c) \in Contents /\ IdOf[Current(c)] \in Ids
      BY <2>4, CurrentIsContent, WorkAssumption DEF NoAdapter, Tried, Effect, TakeUp, AtEntry
    <3>2. CASE IdOf[Current(c)] = id
      <4>1. attempts[id] < MaxAttempts /\ attempts'[id] = attempts[id] + 1
        BY <2>4, <3>1, <3>2 DEF NoAdapter, Tried, AttemptsLeft, TypeOK
      <4> QED BY <1>0, <2>2, <4>1, Overruns
    <3>3. CASE IdOf[Current(c)] # id
      <4>1. attempts'[id] = attempts[id]
        BY <2>4, <3>1, <3>3 DEF NoAdapter, TypeOK
      <4> QED BY <1>0, <2>2, <4>1, Overruns
    <3> QED BY <3>2, <3>3
  <2> QED BY <2>3, <2>4
<1>6. ASSUME NEW c \in Passes, Resume(c) PROVE Overrun(id)'
  <2>1. /\ \A d \in Passes \ {c} : pass'[d] = pass[d]
        /\ pass'[c].pc = "loop" /\ pass[c].pc = "answered"
    BY <1>6 DEF Resume, At, TypeOK, PassType
  <2>2. UnderWay(id)' \subseteq UnderWay(id) \ {c}
    BY <2>1 DEF UnderWay, Current, Awaiting
  <2>3. Current(c) \in Contents /\ IdOf[Current(c)] \in Ids
    BY <2>1, CurrentIsContent, WorkAssumption DEF TypeOK, Awaiting
  <2>4. CASE attempts'[id] = attempts[id]
    BY <1>0, <2>2, <2>4, Overruns
  <2>5. CASE attempts'[id] # attempts[id]
    <3>1. attempts'[id] = attempts[id] + 1 /\ IdOf[Current(c)] = id
      BY <1>6, <2>3, <2>5 DEF Resume, Failed, TypeOK
    <3>2. c \in UnderWay(id)
      BY <2>1, <3>1 DEF UnderWay, Awaiting
    <3> QED BY <1>0, <2>2, <3>1, <3>2, Overruns
  <2> QED BY <2>4, <2>5
<1>7. ASSUME NEW c \in Passes,
             \/ Finish(c) \/ ProposeFails(c) \/ Abandon(c)
             \/ \E list \in Worklists : Proposed(c, list)
      PROVE  Overrun(id)'
  <2>1. attempts' = attempts
    BY <1>7 DEF Finish, ProposeFails, Abandon, Proposed, budgets
  <2>2. pass'[c].pc \in {"idle", "loop"} /\ \A d \in Passes \ {c} : pass'[d] = pass[d]
    BY <1>7 DEF Finish, ProposeFails, Abandon, Idle, Proposed, TypeOK, PassType
  <2>3. UnderWay(id)' \subseteq UnderWay(id)
    BY <2>2 DEF UnderWay, Current, Awaiting
  <2> QED BY <1>0, <2>1, <2>3, Overruns
<1>8. ASSUME NEW c \in Passes,
             \/ VerdictPassed(c) \/ VerdictRefused(c) \/ Execute(c) \/ Duplicate(c)
             \/ IssueRefused(c) \/ ExecutorReturns(c) \/ StoreFails(c)
             \/ \E receipt \in Receipts : ExecutorThrows(c, receipt)
      PROVE  Overrun(id)'
  <2>1. attempts' = attempts /\ pass[c].pc \in Awaiting \ {"proposing"}
    BY <1>8 DEF VerdictPassed, VerdictRefused, Execute, Duplicate, IssueRefused, ExecutorReturns,
                StoreFails, ExecutorThrows, At, budgets, Awaiting
  <2>2. /\ \A d \in Passes \ {c} : pass'[d] = pass[d]
        /\ pass'[c].results = pass[c].results /\ pass'[c].list = pass[c].list
    <3>1. ASSUME NEW answer, Answered(c, answer)
          PROVE  /\ \A d \in Passes \ {c} : pass'[d] = pass[d]
                 /\ pass'[c].results = pass[c].results /\ pass'[c].list = pass[c].list
      BY <3>1 DEF Answered, TypeOK, PassType
    <3>2. CASE VerdictPassed(c) \/ Execute(c)
      BY <3>2 DEF VerdictPassed, Execute, TypeOK, PassType
    <3> QED BY <1>8, <3>1, <3>2 DEF VerdictRefused, Duplicate, IssueRefused, ExecutorReturns,
                StoreFails, ExecutorThrows
  <2>3. UnderWay(id)' \subseteq UnderWay(id)
    BY <2>1, <2>2 DEF UnderWay, Current
  <2> QED BY <1>0, <2>1, <2>3, Overruns
<1>9. CASE Tick \/ Operate \/ UNCHANGED vars
  BY <1>1, <1>9 DEF Tick, Operate, budgets, vars
<1> QED BY <1>2, <1>3, <1>4, <1>5, <1>6, <1>7, <1>8, <1>9 DEF Next, Loop, Settle

(* attempts_per_proposal is overrun by the passes that overlap and no      *)
(* more (runOnce), for any number of passes and any budget.                *)
THEOREM AttemptOverrunAlways == Spec => []AttemptOverrun
<1> DEFINE Bounded == \A id \in Ids : Overrun(id)
<1>1. Init => Bounded
  <2> SUFFICES ASSUME Init, NEW id \in Ids PROVE Overrun(id)
    OBVIOUS
  <2>1. UnderWay(id) = {} /\ attempts[id] = 0
    BY DEF Init, UnderWay, Idle, Awaiting
  <2>2. Cardinality({}) = 0 /\ Cardinality(Passes) \in Nat
    BY PassAssumption, FS_EmptySet, FS_CardinalityType
  <2> QED BY <2>1, <2>2, BudgetAssumption DEF Overrun
<1>2. TypeOK /\ Bounded /\ [Next]_vars => Bounded'
  BY OverrunStep
<1>3. TypeOK /\ Bounded => AttemptOverrun
  <2> SUFFICES ASSUME TypeOK, Bounded, NEW id \in Ids
               PROVE  attempts[id] <= MaxAttempts + Cardinality(Passes) - 1
    BY DEF AttemptOverrun
  <2>1. UnderWay(id) \subseteq Passes
    BY DEF UnderWay
  <2>2. Cardinality(UnderWay(id)) \in Nat /\ Cardinality(Passes) \in Nat
    BY <2>1, Count
  <2>3. attempts[id] \in Nat /\ MaxAttempts \in Nat
    BY BudgetAssumption DEF TypeOK
  <2> QED BY <2>2, <2>3 DEF Overrun
<1> HIDE DEF Bounded
<1> QED BY <1>1, <1>2, <1>3, TypeCorrect, PTL DEF Spec

----------------------------------------------------------------------------
(* Results.  What an entry's answer says is true when it is given, and     *)
(* stays so because nothing is taken back.                                 *)
Supported(p, status) ==
    /\ status \in {"committed", "duplicate"} => KeyOf[p] \in effects
    /\ status = "quarantined" => IdOf[p] \in quarantine
    /\ status \in {"failed", "ambiguous"} => attempts[IdOf[p]] > 0
    /\ status \in {"failed", "ambiguous", "propose_only", "quarantined"} => issues

Truthful(c) == \A i \in 1..Len(pass[c].results) : Supported(pass[c].list[i], pass[c].results[i])

AnswerTrue(c) ==
    pass[c].pc = "answered" =>
        /\ pass[c].answer \in {"committed", "duplicate"} => KeyOf[Current(c)] \in effects
        /\ pass[c].answer = "propose_only" => issues

Reported == \A c \in Passes : Truthful(c) /\ AnswerTrue(c)

LEMMA StaysSupported ==
  ASSUME TypeOK, [Next]_vars
  PROVE  \A p \in Contents : \A status : Supported(p, status) => Supported(p, status)'
<1>1. \A p \in Contents : IdOf[p] \in Ids
  BY WorkAssumption
<1>2. \A id \in Ids : attempts[id] \in Nat /\ attempts'[id] \in Nat
  BY TypeStep DEF TypeOK
<1> QED BY <1>1, <1>2, OnlyGrows DEF Supported

(* Results start empty, stay, or get one more that is supported.           *)
LEMMA TruthStep ==
  ASSUME TypeOK, [Next]_vars, NEW c \in Passes, Truthful(c),
         \/ pass'[c].results = <<>>
         \/ pass'[c].results = pass[c].results /\ pass'[c].list = pass[c].list
         \/ \E p \in Contents, status \in Results :
               /\ p = Current(c) /\ Len(pass[c].results) < Len(pass[c].list)
               /\ pass'[c].results = Append(pass[c].results, status)
               /\ pass'[c].list = pass[c].list
               /\ Supported(p, status)'
  PROVE  Truthful(c)'
<1>1. CASE pass'[c].results = <<>>
  <2>1. 1..Len(pass'[c].results) = {}
    BY <1>1
  <2> QED BY <2>1 DEF Truthful
<1>2. /\ pass[c].results \in Seq(Results) /\ pass[c].list \in Seq(Contents)
      /\ Len(pass[c].results) \in Nat /\ Len(pass[c].list) \in Nat
      /\ Len(pass[c].results) <= Len(pass[c].list)
  <2>1. pass[c].results \in Seq(Results) /\ pass[c].list \in Seq(Contents)
    BY DEF TypeOK, PassType
  <2>2. CASE pass[c].results = <<>>
    BY <2>1, <2>2
  <2>3. CASE pass[c].results # <<>>
    <3>1. Len(pass[c].results) <= Len(pass[c].list)
      BY <2>1, <2>3 DEF TypeOK, PassType, Awaiting
    <3> QED BY <2>1, <3>1
  <2> QED BY <2>2, <2>3
<1>3. ASSUME NEW i \in 1..Len(pass[c].results), pass'[c].list[i] = pass[c].list[i],
             pass'[c].results[i] = pass[c].results[i]
      PROVE  Supported(pass[c].list[i], pass[c].results[i])'
  <2>1. pass[c].list[i] \in Contents
    BY <1>2
  <2>2. PICK p \in Contents : p = pass[c].list[i]
    BY <2>1
  <2>3. PICK status : status = pass[c].results[i]
    OBVIOUS
  <2>4. Supported(p, status)
    BY <2>2, <2>3 DEF Truthful
  <2>5. Supported(p, status)'
    BY <2>4, StaysSupported
  <2> QED BY <1>3, <2>2, <2>3, <2>5 DEF Supported
<1>4. CASE pass'[c].results = pass[c].results /\ pass'[c].list = pass[c].list
  BY <1>3, <1>4 DEF Truthful
<1>5. ASSUME NEW p \in Contents, NEW status \in Results, p = Current(c),
             Len(pass[c].results) < Len(pass[c].list),
             pass'[c].results = Append(pass[c].results, status),
             pass'[c].list = pass[c].list, Supported(p, status)'
      PROVE  Truthful(c)'
  <2> SUFFICES ASSUME NEW i \in 1..Len(pass'[c].results)
               PROVE  Supported(pass[c].list[i], pass[c].results[i])'
    BY DEF Truthful
  <2>1. /\ Len(pass'[c].results) = Len(pass[c].results) + 1
        /\ \A j \in 1..Len(pass[c].results) : pass'[c].results[j] = pass[c].results[j]
        /\ pass'[c].results[Len(pass[c].results) + 1] = status
    BY <1>2, <1>5
  <2>2. CASE i \in 1..Len(pass[c].results)
    BY <1>3, <1>5, <2>1, <2>2
  <2>3. CASE i = Len(pass[c].results) + 1
    <3>1. pass'[c].list[i] = p /\ pass'[c].results[i] = status
      BY <1>5, <2>1, <2>3 DEF Current
    <3> QED BY <1>5, <3>1 DEF Supported
  <2>4. Len(pass[c].results) \in Nat
    BY <1>2
  <2>5. i \in 1..Len(pass[c].results) \/ i = Len(pass[c].results) + 1
    <3>1. i \in 1..(Len(pass[c].results) + 1)
      BY <2>1
    <3> QED BY <3>1, <2>4
  <2> QED BY <2>2, <2>3, <2>5
<1> QED BY <1>1, <1>4, <1>5

(* One step of one pass, as far as its results and answer go.              *)
LEMMA EntryReports ==
  ASSUME TypeOK, Closed, Reported, [Next]_vars, NEW c \in Passes,
         \/ OutOfTime(c) \/ Defer(c) \/ Escalate(c) \/ InQuarantine(c) \/ OutOfAttempts(c)
         \/ NoAdapter(c)
  PROVE  Truthful(c)' /\ AnswerTrue(c)'
<1>1. /\ AtEntry(c) /\ Len(pass[c].results) < Len(pass[c].list)
      /\ Current(c) \in Contents /\ IdOf[Current(c)] \in Ids
  <2>1. AtEntry(c)
    BY DEF OutOfTime, Defer, Escalate, InQuarantine, OutOfAttempts, NoAdapter, Tried, Effect, TakeUp
  <2> QED BY <2>1, CurrentIsContent, WorkAssumption DEF AtEntry
<1>2. PICK p \in Contents : p = Current(c)
  BY <1>1
<1>3. \E status \in Results : Result(c, status) /\ Supported(p, status)'
  <2>1. CASE OutOfTime(c) \/ OutOfAttempts(c)
    <3>1. Result(c, "quarantined") /\ IdOf[p] \in quarantine' /\ issues'
      BY <1>2, <2>1 DEF OutOfTime, OutOfAttempts, Quarantined
    <3> QED BY <3>1 DEF Supported, Results
  <2>2. CASE Defer(c)
    <3>1. Result(c, "deferred")
      BY <2>2 DEF Defer
    <3> QED BY <3>1 DEF Supported, Results
  <2>3. CASE Escalate(c)
    <3>1. Result(c, "escalated")
      BY <2>3 DEF Escalate
    <3> QED BY <3>1 DEF Supported, Results
  <2>4. CASE InQuarantine(c)
    <3>1. Result(c, "quarantined") /\ IdOf[p] \in quarantine
      BY <1>2, <2>4 DEF InQuarantine
    <3>2. IdOf[p] \in quarantine' /\ issues'
      BY <2>4, <3>1 DEF InQuarantine, budgets, Closed
    <3> QED BY <3>1, <3>2 DEF Supported, Results
  <2>5. CASE NoAdapter(c)
    <3>1. Result(c, "failed") /\ issues' /\ attempts'[IdOf[p]] = attempts[IdOf[p]] + 1
      BY <1>1, <1>2, <2>5 DEF NoAdapter, TypeOK
    <3>2. attempts[IdOf[p]] \in Nat
      BY <1>1, <1>2 DEF TypeOK
    <3>3. attempts'[IdOf[p]] > 0
      BY <3>1, <3>2
    <3> QED BY <3>1, <3>3 DEF Supported, Results
  <2> QED BY <2>1, <2>2, <2>3, <2>4, <2>5
<1>4. PICK status \in Results : Result(c, status) /\ Supported(p, status)'
  BY <1>3
<1>5. /\ pass'[c].results = Append(pass[c].results, status) /\ pass'[c].list = pass[c].list
      /\ pass'[c].pc = pass[c].pc /\ pass[c].pc = "loop"
  BY <1>1, <1>4, PassAssumption DEF Result, AtEntry, TypeOK, PassType
<1>6. Truthful(c)'
  BY <1>1, <1>2, <1>4, <1>5, TruthStep DEF Reported
<1> QED BY <1>5, <1>6 DEF AnswerTrue

(* An answer an operation gives, with what it says.                        *)
LEMMA AnswerReports ==
  ASSUME TypeOK, Reported, [Next]_vars, NEW c \in Passes, NEW answer \in Answers,
         Answered(c, answer), Len(pass[c].results) < Len(pass[c].list),
         answer \in {"committed", "duplicate"} => KeyOf[Current(c)] \in effects',
         answer = "propose_only" => issues'
  PROVE  Truthful(c)' /\ AnswerTrue(c)'
<1>1. /\ pass'[c].results = pass[c].results /\ pass'[c].list = pass[c].list
      /\ pass'[c].answer = answer
  BY DEF Answered, TypeOK, PassType
<1>2. Truthful(c)'
  BY <1>1, TruthStep DEF Reported
<1>3. AnswerTrue(c)'
  BY <1>1 DEF AnswerTrue, Current
<1> QED BY <1>2, <1>3

LEMMA ResumeReports ==
  ASSUME TypeOK, Reported, [Next]_vars, NEW c \in Passes, Resume(c)
  PROVE  Truthful(c)' /\ AnswerTrue(c)'
<1>1. /\ pass[c].pc = "answered" /\ pass[c].answer \in Answers
      /\ Len(pass[c].results) < Len(pass[c].list)
      /\ Current(c) \in Contents /\ IdOf[Current(c)] \in Ids
  <2>1. pass[c].pc = "answered"
    BY DEF Resume, At
  <2> QED BY <2>1, CurrentIsContent, WorkAssumption DEF TypeOK, Awaiting
<1>2. PICK p \in Contents : p = Current(c)
  BY <1>1
<1> DEFINE given == IF pass[c].answer = "threw" THEN "failed" ELSE pass[c].answer
<1>3. PICK status : status = given
  OBVIOUS
<1>4. status \in Results
  BY <1>1, <1>3 DEF Results, Answers
<1>5. /\ pass'[c].results = Append(pass[c].results, status) /\ pass'[c].list = pass[c].list
      /\ pass'[c].pc = "loop"
  BY <1>3 DEF Resume, TypeOK, PassType
<1>6. Supported(p, status)'
  <2>1. CASE pass[c].answer \in {"ambiguous", "threw"}
    <3>1. attempts'[IdOf[p]] = attempts[IdOf[p]] + 1 /\ issues'
      BY <1>1, <1>2, <2>1 DEF Resume, Failed, TypeOK
    <3>2. attempts[IdOf[p]] \in Nat
      BY <1>1, <1>2 DEF TypeOK
    <3>3. attempts'[IdOf[p]] > 0
      BY <3>1, <3>2
    <3> QED BY <1>3, <2>1, <3>1, <3>3 DEF Supported
  <2>2. CASE pass[c].answer \in {"committed", "duplicate", "rejected", "propose_only"}
    <3>1. effects' = effects /\ issues' = issues
      BY <2>2 DEF Resume, outcome
    <3>2. /\ status \in {"committed", "duplicate"} => KeyOf[p] \in effects
          /\ status = "propose_only" => issues
      BY <1>1, <1>2, <1>3, <2>2 DEF Reported, AnswerTrue
    <3> QED BY <1>3, <2>2, <3>1, <3>2 DEF Supported
  <2> QED BY <1>1, <2>1, <2>2 DEF Answers
<1>7. Truthful(c)'
  BY <1>1, <1>2, <1>4, <1>5, <1>6, TruthStep DEF Reported
<1> QED BY <1>5, <1>7 DEF AnswerTrue

(* The steps that neither answer nor report.                               *)
LEMMA QuietReports ==
  ASSUME TypeOK, Reported, [Next]_vars, NEW c \in Passes,
         \/ pass'[c].results = <<>>
         \/ pass'[c].results = pass[c].results /\ pass'[c].list = pass[c].list,
         pass'[c].pc # "answered" \/ pass'[c] = pass[c]
  PROVE  Truthful(c)' /\ AnswerTrue(c)'
<1>1. Truthful(c)'
  BY TruthStep DEF Reported
<1>2. AnswerTrue(c)'
  <2>1. CASE pass'[c] = pass[c] /\ pass[c].pc = "answered"
    BY <2>1, OnlyGrows DEF Reported, AnswerTrue, Current
  <2>2. CASE pass'[c].pc # "answered"
    BY <2>2 DEF AnswerTrue
  <2> QED BY <2>1, <2>2
<1> QED BY <1>1, <1>2

LEMMA ReportedStep ==
  ASSUME TypeOK, Closed, Reported, [Next]_vars
  PROVE  Reported'
<1>1. ASSUME NEW c \in Passes, NEW d \in Passes, d # c,
             Loop(d) \/ Settle(d) \/ \E accepted \in BOOLEAN : Start(d, accepted)
      PROVE  Truthful(c)' /\ AnswerTrue(c)'
  <2>1. pass'[c] = pass[c]
    BY <1>1, PassMoves DEF TypeOK
  <2> QED BY <2>1, QuietReports
<1>2. ASSUME NEW c \in Passes, Tick \/ Operate \/ Crash \/ UNCHANGED vars
      PROVE  Truthful(c)' /\ AnswerTrue(c)'
  <2>1. pass'[c] = pass[c] \/ (pass'[c].results = <<>> /\ pass'[c].pc = "idle")
    BY <1>2 DEF Tick, Operate, Crash, vars, Idle
  <2> QED BY <2>1, QuietReports
<1>3. ASSUME NEW c \in Passes, NEW accepted \in BOOLEAN, Start(c, accepted)
      PROVE  Truthful(c)' /\ AnswerTrue(c)'
  <2>1. pass'[c].results = <<>> /\ pass'[c].pc = "proposing"
    BY <1>3 DEF Start, Idle, TypeOK
  <2> QED BY <2>1, QuietReports
<1>4. ASSUME NEW c \in Passes, Loop(c) PROVE Truthful(c)' /\ AnswerTrue(c)'
  <2>1. CASE Verify(c)
    <3>1. /\ pass'[c].results = pass[c].results /\ pass'[c].list = pass[c].list
          /\ pass'[c].pc # "answered"
      BY <2>1 DEF Verify, TypeOK, PassType
    <3> QED BY <3>1, QuietReports
  <2>2. CASE VerifyRefused(c)
    <3>1. Len(pass[c].results) < Len(pass[c].list) /\ Answered(c, "propose_only") /\ issues'
      BY <2>2 DEF VerifyRefused, Verifiable, Tried, Effect, TakeUp, AtEntry
    <3> QED BY <3>1, AnswerReports DEF Answers
  <2>3. CASE Finish(c)
    <3>1. pass'[c].results = <<>> /\ pass'[c].pc # "answered"
      BY <2>3 DEF Finish, Idle, TypeOK
    <3> QED BY <3>1, QuietReports
  <2> QED BY <1>4, <2>1, <2>2, <2>3, EntryReports DEF Loop
<1>5. ASSUME NEW c \in Passes, Settle(c) PROVE Truthful(c)' /\ AnswerTrue(c)'
  <2>1. CASE ProposeFails(c) \/ Abandon(c)
    <3>1. pass'[c].results = <<>> /\ pass'[c].pc # "answered"
      BY <2>1 DEF ProposeFails, Abandon, Idle, TypeOK
    <3> QED BY <3>1, QuietReports
  <2>2. ASSUME NEW list \in Worklists, Proposed(c, list)
        PROVE  Truthful(c)' /\ AnswerTrue(c)'
    <3>1. pass'[c].results = <<>> /\ pass'[c].pc # "answered"
      BY <2>2 DEF Proposed, TypeOK, PassType
    <3> QED BY <3>1, QuietReports
  <2>3. CASE VerdictPassed(c) \/ Execute(c)
    <3>1. /\ pass'[c].results = pass[c].results /\ pass'[c].list = pass[c].list
          /\ pass'[c].pc # "answered"
      BY <2>3 DEF VerdictPassed, Execute, TypeOK, PassType
    <3> QED BY <3>1, QuietReports
  <2>4. ASSUME pass[c].pc \in {"verifying", "issuing", "executing"}
        PROVE  Len(pass[c].results) < Len(pass[c].list)
    BY <2>4 DEF TypeOK, Awaiting
  <2>5. CASE \/ VerdictRefused(c) \/ Duplicate(c) \/ IssueRefused(c) \/ ExecutorReturns(c)
             \/ (\E receipt \in Receipts : ExecutorThrows(c, receipt)) \/ StoreFails(c)
    <3>1. Len(pass[c].results) < Len(pass[c].list)
      BY <2>4, <2>5 DEF VerdictRefused, Duplicate, IssueRefused, ExecutorReturns, ExecutorThrows,
                        StoreFails, At
    <3>2. \E answer \in Answers :
             /\ Answered(c, answer)
             /\ answer \in {"committed", "duplicate"} => KeyOf[Current(c)] \in effects'
             /\ answer = "propose_only" => issues'
      <4>1. CASE VerdictRefused(c) \/ IssueRefused(c)
        BY <4>1 DEF VerdictRefused, IssueRefused, Answers
      <4>2. CASE Duplicate(c)
        BY <4>2 DEF Duplicate, Done, Answers, outcome
      <4>3. CASE ExecutorReturns(c)
        BY <4>3 DEF ExecutorReturns, Answers
      <4>4. CASE StoreFails(c) \/ \E receipt \in Receipts : ExecutorThrows(c, receipt)
        BY <4>4 DEF StoreFails, ExecutorThrows, Answers
      <4> QED BY <2>5, <4>1, <4>2, <4>3, <4>4
    <3> QED BY <3>1, <3>2, AnswerReports
  <2> QED BY <1>5, <2>1, <2>2, <2>3, <2>5, ResumeReports DEF Settle
<1>6. ASSUME NEW c \in Passes PROVE Truthful(c)' /\ AnswerTrue(c)'
  BY <1>1, <1>2, <1>3, <1>4, <1>5 DEF Next
<1> QED BY <1>6 DEF Reported

(* A result that was answered is true of the log (runOnce), whatever the   *)
(* other passes, the operator and the process did meanwhile.               *)
THEOREM ResultsTruthfulAlways == Spec => []ResultsTruthful
<1>1. Init => Closed /\ Reported
  <2> SUFFICES ASSUME Init, NEW c \in Passes PROVE Closed /\ Truthful(c) /\ AnswerTrue(c)
    BY DEF Reported, Init, Closed
  <2>1. pass[c].pc = "idle" /\ 1..Len(pass[c].results) = {}
    BY DEF Init, Idle
  <2> QED BY <2>1 DEF Init, Closed, Truthful, AnswerTrue
<1>2. TypeOK /\ Closed /\ Reported /\ [Next]_vars => (Closed /\ Reported)'
  BY ClosedStep, ReportedStep
<1>3. Reported => ResultsTruthful
  BY DEF Reported, Truthful, Supported, ResultsTruthful
<1> QED BY <1>1, <1>2, <1>3, TypeCorrect, PTL DEF Spec

----------------------------------------------------------------------------
(***************************************************************************)
(* GovernedEffects                                                         *)
(***************************************************************************)
WorkMap == [c \in Passes |-> WorkOf(c)]
EndMap  == [c \in Passes |-> EndOf(c)]
gview   == <<now, issues, effects, WorkMap, {}, EndMap>>

(* A lease that still holds belongs to an effect under way, or to one that *)
(* could not be ended and is about to be recorded as a failure; a pass     *)
(* that can still begin an effect holds none.                              *)
LeasesAccounted ==
    \A c \in Passes : Live(c) =>
        \/ issues
        \/ pass[c].pc \in {"idle", "executing"}
        \/ pass[c].pc = "answered" /\ pass[c].answer \in {"threw", "ambiguous"}

(* A pass moves by its own actions, or by a crash.                         *)
LEMMA MovesOf ==
  ASSUME TypeOK, [Next]_vars, NEW c \in Passes, pass'[c] # pass[c]
  PROVE  Crash \/ Loop(c) \/ Settle(c) \/ \E accepted \in BOOLEAN : Start(c, accepted)
<1>1. CASE Tick \/ Operate \/ UNCHANGED vars
  BY <1>1 DEF Tick, Operate, vars
<1>2. ASSUME NEW d \in Passes, d # c,
             Loop(d) \/ Settle(d) \/ \E accepted \in BOOLEAN : Start(d, accepted)
      PROVE  FALSE
  BY <1>2, PassMoves DEF TypeOK
<1> QED BY <1>1, <1>2 DEF Next

(* Who touches commits, leases and the clock.                              *)
LEMMA OutcomeSteps ==
  ASSUME [Next]_vars
  PROVE  \/ UNCHANGED <<now, outcome>>
         \/ Tick
         \/ \E c \in Passes : \/ Execute(c) \/ ExecutorReturns(c)
                              \/ \E receipt \in Receipts : ExecutorThrows(c, receipt)
<1>1. ASSUME NEW c \in Passes, Loop(c) PROVE UNCHANGED <<now, outcome>>
  BY <1>1 DEF Loop, OutOfTime, Defer, Escalate, InQuarantine, OutOfAttempts, NoAdapter, Verify,
              VerifyRefused, Finish
<1>2. ASSUME NEW c \in Passes, Settle(c), ~Execute(c), ~ExecutorReturns(c),
             ~\E receipt \in Receipts : ExecutorThrows(c, receipt)
      PROVE  UNCHANGED <<now, outcome>>
  BY <1>2 DEF Settle, Proposed, ProposeFails, VerdictPassed, VerdictRefused, Duplicate,
              IssueRefused, StoreFails, Abandon, Resume
<1>3. CASE \/ Operate \/ Crash \/ UNCHANGED vars
           \/ \E c \in Passes, accepted \in BOOLEAN : Start(c, accepted)
  BY <1>3 DEF Operate, Crash, Start, outcome, vars
<1> QED BY <1>1, <1>2, <1>3 DEF Next

(* A lease that still holds after a step either was there before, or was   *)
(* taken by it.                                                            *)
LEMMA LiveSteps ==
  ASSUME TypeOK, [Next]_vars, NEW c \in Passes, Live(c)'
  PROVE  Execute(c) \/ (Live(c) /\ lease'[c] = lease[c])
<1> USE DEF Live, TypeOK, outcome
<1>1. CASE UNCHANGED <<now, outcome>> \/ Tick
  BY <1>1 DEF Tick
<1>2. ASSUME NEW d \in Passes, Execute(d) PROVE Execute(c) \/ (Live(c) /\ lease'[c] = lease[c])
  BY <1>2 DEF Execute
<1>3. ASSUME NEW d \in Passes,
             ExecutorReturns(d) \/ \E receipt \in Receipts : ExecutorThrows(d, receipt)
      PROVE  Live(c) /\ lease'[c] = lease[c]
  <2>1. now' = now /\ lease' \in {lease, [lease EXCEPT ![d] = 0]}
    BY <1>3 DEF ExecutorReturns, ExecutorThrows
  <2>2. lease'[c] > now /\ now \in Nat
    BY <2>1
  <2>3. lease'[c] \in {lease[c], 0}
    BY <2>1
  <2> QED BY <2>2, <2>3
<1> QED BY <1>1, <1>2, <1>3, OutcomeSteps

LEMMA LeasesAccountedStep ==
  ASSUME TypeOK, LeasesAccounted, [Next]_vars
  PROVE  LeasesAccounted'
<1> SUFFICES ASSUME NEW c \in Passes, Live(c)', ~issues'
             PROVE  \/ pass'[c].pc \in {"idle", "executing"}
                    \/ pass'[c].pc = "answered" /\ pass'[c].answer \in {"threw", "ambiguous"}
  BY DEF LeasesAccounted
<1>1. CASE Execute(c)
  BY <1>1 DEF Execute, TypeOK, PassType
<1>2. CASE ~Execute(c)
  <2>1. Live(c) /\ lease'[c] = lease[c] /\ lease'[c] # 0
    BY <1>2, LiveSteps DEF Live, TypeOK
  <2>2. ~issues
    BY OnlyGrows
  <2>3. \/ pass[c].pc \in {"idle", "executing"}
        \/ pass[c].pc = "answered" /\ pass[c].answer \in {"threw", "ambiguous"}
    BY <2>1, <2>2 DEF LeasesAccounted
  <2>4. CASE pass'[c] = pass[c]
    BY <2>3, <2>4
  <2>5. CASE Crash
    BY <2>5 DEF Crash, Idle
  <2>6. CASE Loop(c)
    <3>1. turn = c
      BY <2>6 DEF Loop, OutOfTime, Defer, Escalate, InQuarantine, OutOfAttempts, NoAdapter,
                  Verify, VerifyRefused, Finish, Verifiable, Tried, Effect, TakeUp, AtEntry
    <3> QED BY <2>3, <3>1 DEF TypeOK
  <2>7. ASSUME NEW accepted \in BOOLEAN, Start(c, accepted) PROVE FALSE
    BY <2>1, <2>7 DEF Start
  <2>8. CASE Settle(c)
    <3>1. CASE StoreFails(c) \/ Abandon(c)
      BY <3>1 DEF StoreFails, Abandon, Answered, Idle, TypeOK, PassType
    <3>2. CASE Resume(c)
      BY <2>3, <3>2 DEF Resume, At, Failed
    <3>3. CASE ExecutorReturns(c) \/ \E receipt \in Receipts : ExecutorThrows(c, receipt)
      BY <2>1, <3>3 DEF ExecutorReturns, ExecutorThrows, Answered, TypeOK, PassType
    <3> QED BY <1>2, <2>3, <2>8, <3>1, <3>2, <3>3
            DEF Settle, Proposed, ProposeFails, VerdictPassed, VerdictRefused, Duplicate,
                IssueRefused, At
  <2> QED BY <2>4, <2>5, <2>6, <2>7, <2>8, MovesOf
<1> QED BY <1>1, <1>2

(* The effect a pass has under way.                                        *)
LEMMA WorkIs ==
  ASSUME TypeOK, NEW c \in Passes
  PROVE  /\ pass[c].pc # "executing" => WorkOf(c) = None
         /\ pass[c].pc \in Awaiting \ {"proposing"} =>
              KeyOf[Current(c)] \in Keys /\ KeyOf[Current(c)] # None
<1>1. ASSUME pass[c].pc \in Awaiting \ {"proposing"}
      PROVE  KeyOf[Current(c)] \in Keys /\ KeyOf[Current(c)] # None
  <2>1. Current(c) \in Contents
    BY <1>1, CurrentIsContent DEF TypeOK
  <2> QED BY <2>1, WorkAssumption
<1> QED BY <1>1 DEF WorkOf

(* A step that neither calls an executor nor hears from one.               *)
LEMMA QuietWork ==
  ASSUME TypeOK, [Next]_vars,
         \A c \in Passes : ~Execute(c) /\ (pass[c].pc = "executing" => pass'[c] = pass[c])
  PROVE  WorkMap' = WorkMap
<1>1. ASSUME NEW c \in Passes PROVE WorkOf(c)' = WorkOf(c)
  <2>1. CASE pass[c].pc = "executing"
    BY <2>1 DEF WorkOf, Current
  <2>2. CASE pass[c].pc # "executing"
    <3>1. pass'[c].pc # "executing"
      BY <2>2, StartsIsExecute DEF Starts
    <3> QED BY <2>2, <3>1 DEF WorkOf
  <2> QED BY <2>1, <2>2
<1> QED BY <1>1 DEF WorkMap

(* All a quiet step may do is close the gate.                              *)
LEMMA QuietGoverned ==
  ASSUME TypeOK, [Next]_vars, UNCHANGED <<now, outcome>>,
         \A c \in Passes : ~Execute(c) /\ (pass[c].pc = "executing" => pass'[c] = pass[c])
  PROVE  Governed!Next \/ UNCHANGED gview
<1>1. WorkMap' = WorkMap
  BY QuietWork
<1>2. EndMap' = EndMap
  BY DEF EndMap, EndOf, Live, outcome
<1>3. issues' = issues \/ issues' = TRUE
  BY OnlyGrows, TypeStep DEF TypeOK
<1>4. CASE issues' = TRUE
  <2>1. Governed!Close
    BY <1>1, <1>2, <1>4 DEF Governed!Close, EndMap, WorkMap, outcome
  <2> QED BY <2>1 DEF Governed!Next
<1> QED BY <1>1, <1>2, <1>3, <1>4 DEF gview, outcome

(* The clock: a lease is over by itself.                                   *)
LEMMA TickGoverned ==
  ASSUME TypeOK, Tick
  PROVE  Governed!Next
<1>1. now' = now + 1 /\ now \in Nat /\ UNCHANGED <<pass, issues, effects, lease>>
  BY DEF Tick, outcome, TypeOK
<1>2. \A c \in Passes : EndOf(c)' = IF EndOf(c) > now' THEN EndOf(c) ELSE 0
  BY <1>1 DEF EndOf, Live, TypeOK
<1>3. EndMap' = [c \in Passes |-> IF EndMap[c] > now' THEN EndMap[c] ELSE 0]
  BY <1>2 DEF EndMap
<1>4. WorkMap' = WorkMap
  BY <1>1 DEF WorkMap, WorkOf, Current
<1>5. Governed!Tick
  BY <1>1, <1>3, <1>4 DEF Governed!Tick, EndMap, WorkMap
<1> QED BY <1>5 DEF Governed!Next

(* GovernedEffects counts with the Cardinality of this module.             *)
LEMMA GovernedCounts == \A S : Governed!Cardinality(S) = Cardinality(S)
BY DEF Governed!Cardinality, Cardinality

(* Issuing and reserving in one turn begins the effect.                    *)
LEMMA ExecuteGoverned ==
  ASSUME TypeOK, LeasesAccounted, NEW c \in Passes, Execute(c)
  PROVE  Governed!Next
<1> DEFINE o == KeyOf[Current(c)]
<1>1. /\ pass[c].pc = "issuing" /\ o \notin effects
      /\ ~issues /\ InUse < Concurrency
      /\ lease' = [lease EXCEPT ![c] = now + LeaseTTL]
      /\ pass' = [pass EXCEPT ![c].pc = "executing"]
      /\ UNCHANGED <<now, issues, effects>>
  BY DEF Execute, At, MayIssue, GateOpen, Done
<1>2. o \in Keys
  BY <1>1, WorkIs DEF Awaiting
<1>3. now \in Nat /\ LeaseTTL \in Nat \ {0}
  BY TimeAssumption DEF TypeOK
<1>4. WorkOf(c) = None /\ EndOf(c) = 0
  BY <1>1 DEF WorkOf, EndOf, LeasesAccounted
<1>5. pass'[c].pc = "executing" /\ Current(c)' = Current(c)
  BY <1>1 DEF Current, TypeOK, PassType
<1>6. WorkOf(c)' = o /\ EndOf(c)' = now + LeaseTTL
  BY <1>1, <1>3, <1>5 DEF WorkOf, EndOf, Live, TypeOK
<1>7. \A d \in Passes \ {c} : WorkOf(d)' = WorkOf(d) /\ EndOf(d)' = EndOf(d)
  BY <1>1 DEF WorkOf, EndOf, Live, Current, TypeOK
<1>8. /\ WorkMap' = [WorkMap EXCEPT ![c] = o]
      /\ EndMap' = [EndMap EXCEPT ![c] = now + LeaseTTL]
      /\ WorkMap[c] = None /\ EndMap[c] = 0
  BY <1>4, <1>6, <1>7 DEF WorkMap, EndMap
<1>9. {d \in Passes : EndMap[d] # 0} = {d \in Passes : Live(d)}
  BY <1>3 DEF EndMap, EndOf, Live
<1>10. Cardinality({d \in Passes : EndMap[d] # 0}) < Concurrency
  BY <1>1, <1>9 DEF InUse
<1> HIDE DEF o
<1>11. Governed!Begin(c, o)
  BY <1>1, <1>8, <1>10, GovernedCounts
     DEF Governed!Begin, Governed!Held, Governed!Slots, EndMap, WorkMap
<1> QED BY <1>2, <1>11 DEF Governed!Next

(* The end of an executor's call, as far as work and leases are concerned. *)
LEMMA CallEnds ==
  ASSUME TypeOK, NEW c \in Passes, At(c, "executing"), NEW answer, Answered(c, answer),
         now' = now, lease' \in {lease, [lease EXCEPT ![c] = 0]}
  PROVE  /\ WorkMap[c] = KeyOf[Current(c)] /\ WorkMap[c] # None
         /\ WorkMap' = [WorkMap EXCEPT ![c] = None]
         /\ EndMap' = IF lease' = lease THEN EndMap ELSE [EndMap EXCEPT ![c] = 0]
         /\ Live(c) => EndMap[c] # 0
<1>1. pass[c].pc = "executing" /\ now \in Nat
  BY DEF At, TypeOK
<1>2. WorkOf(c) = KeyOf[Current(c)] /\ WorkOf(c) # None
  BY <1>1, WorkIs DEF WorkOf, Awaiting
<1>3. pass'[c].pc = "answered" /\ \A d \in Passes \ {c} : pass'[d] = pass[d]
  BY DEF Answered, TypeOK, PassType
<1>4. WorkOf(c)' = None /\ \A d \in Passes \ {c} : WorkOf(d)' = WorkOf(d)
  BY <1>3 DEF WorkOf, Current
<1>5. WorkMap' = [WorkMap EXCEPT ![c] = None]
  BY <1>4 DEF WorkMap
<1>6. CASE lease' = lease
  <2>1. EndMap' = EndMap
    BY <1>6 DEF EndMap, EndOf, Live
  <2> QED BY <1>1, <1>2, <1>5, <1>6, <2>1 DEF WorkMap, EndMap, EndOf, Live
<1>7. CASE lease' # lease
  <2>1. lease' = [lease EXCEPT ![c] = 0]
    BY <1>7
  <2>2. EndOf(c)' = 0 /\ \A d \in Passes \ {c} : EndOf(d)' = EndOf(d)
    BY <2>1, <1>1 DEF EndOf, Live, TypeOK
  <2>3. EndMap' = [EndMap EXCEPT ![c] = 0]
    BY <2>2 DEF EndMap
  <2> QED BY <1>1, <1>2, <1>5, <1>7, <2>3 DEF WorkMap, EndMap, EndOf, Live
<1> QED BY <1>6, <1>7

(* The executor answers: its effect is committed within the lease, or it   *)
(* has failed.                                                             *)
LEMMA AnswerGoverned ==
  ASSUME TypeOK, NEW c \in Passes,
         ExecutorReturns(c) \/ StoreFails(c) \/ \E receipt \in Receipts : ExecutorThrows(c, receipt)
  PROVE  Governed!Next
<1>1. ASSUME Live(c), NEW answer, At(c, "executing"), Answered(c, answer),
             effects' = effects \cup {KeyOf[Current(c)]}, lease' = [lease EXCEPT ![c] = 0],
             UNCHANGED <<now, issues>>
      PROVE  Governed!Next
  <2>1. /\ WorkMap[c] = KeyOf[Current(c)] /\ WorkMap[c] # None /\ EndMap[c] # 0
        /\ WorkMap' = [WorkMap EXCEPT ![c] = None]
        /\ EndMap' = IF lease' = lease THEN EndMap ELSE [EndMap EXCEPT ![c] = 0]
    BY <1>1, CallEnds
  <2>2. lease' # lease
    BY <1>1 DEF Live, TypeOK
  <2>3. Governed!Commit(c)
    BY <1>1, <2>1, <2>2 DEF Governed!Commit, EndMap, WorkMap
  <2> QED BY <2>3 DEF Governed!Next
<1>2. ASSUME NEW answer, At(c, "executing"), Answered(c, answer), effects' = effects,
             lease' \in {lease, [lease EXCEPT ![c] = 0]}, UNCHANGED <<now, issues>>
      PROVE  Governed!Next
  <2>1. /\ WorkMap[c] # None /\ WorkMap' = [WorkMap EXCEPT ![c] = None]
        /\ EndMap' = IF lease' = lease THEN EndMap ELSE [EndMap EXCEPT ![c] = 0]
    BY <1>2, CallEnds
  <2>2. Governed!Fail(c)
    BY <1>2, <2>1 DEF Governed!Fail, EndMap, WorkMap
  <2> QED BY <2>2 DEF Governed!Next
<1>3. CASE ExecutorReturns(c)
  BY <1>1, <1>2, <1>3 DEF ExecutorReturns
<1>4. CASE StoreFails(c)
  BY <1>2, <1>4 DEF StoreFails, outcome
<1>5. ASSUME NEW receipt \in Receipts, ExecutorThrows(c, receipt) PROVE Governed!Next
  BY <1>1, <1>2, <1>5 DEF ExecutorThrows
<1> QED BY <1>3, <1>4, <1>5

(* A crash forgets the passes; leases and commits are in the log.          *)
LEMMA CrashGoverned ==
  ASSUME Crash
  PROVE  Governed!Next
<1>1. pass' = [c \in Passes |-> Idle] /\ UNCHANGED <<now, issues, effects, lease>>
  BY DEF Crash, outcome
<1>2. WorkMap' = [c \in Passes |-> None]
  BY <1>1 DEF WorkMap, WorkOf, Idle
<1>3. EndMap' = EndMap
  BY <1>1 DEF EndMap, EndOf, Live
<1>4. Governed!Forget
  BY <1>1, <1>2, <1>3 DEF Governed!Forget, EndMap, WorkMap
<1> QED BY <1>4 DEF Governed!Next

(* Every step of the loop is a step of GovernedEffects, or none.           *)
LEMMA StepGoverned ==
  ASSUME TypeOK, LeasesAccounted, [Next]_vars
  PROVE  Governed!Next \/ UNCHANGED gview
<1>1. CASE Tick
  BY <1>1, TickGoverned
<1>2. CASE Crash
  BY <1>2, CrashGoverned
<1>3. ASSUME NEW c \in Passes, Execute(c) PROVE Governed!Next
  BY <1>3, ExecuteGoverned
<1>4. ASSUME NEW c \in Passes,
             \/ ExecutorReturns(c) \/ StoreFails(c)
             \/ \E receipt \in Receipts : ExecutorThrows(c, receipt)
      PROVE  Governed!Next
  BY <1>4, AnswerGoverned
<1>5. ASSUME ~Tick, ~Crash,
             \A c \in Passes : /\ ~Execute(c) /\ ~ExecutorReturns(c) /\ ~StoreFails(c)
                              /\ ~\E receipt \in Receipts : ExecutorThrows(c, receipt)
      PROVE  Governed!Next \/ UNCHANGED gview
  <2>1. UNCHANGED <<now, outcome>>
    BY <1>5, OutcomeSteps
  <2>2. ASSUME NEW c \in Passes, pass[c].pc = "executing", pass'[c] # pass[c] PROVE FALSE
    <3>1. turn # c
      BY <2>2 DEF TypeOK
    <3>2. ~Loop(c)
      BY <3>1 DEF Loop, OutOfTime, Defer, Escalate, InQuarantine, OutOfAttempts, NoAdapter,
                  Verify, VerifyRefused, Finish, Verifiable, Tried, Effect, TakeUp, AtEntry
    <3>3. ~\E accepted \in BOOLEAN : Start(c, accepted)
      BY <2>2 DEF Start
    <3>4. ~Settle(c)
      BY <1>5, <2>2 DEF Settle, Proposed, ProposeFails, VerdictPassed, VerdictRefused,
                        Duplicate, IssueRefused, Abandon, Resume, At
    <3> QED BY <1>5, <2>2, <3>2, <3>3, <3>4, MovesOf
  <2> QED BY <1>5, <2>1, <2>2, QuietGoverned
<1> QED BY <1>1, <1>2, <1>3, <1>4, <1>5

(* The loop implements GovernedEffects, for any number of passes, any      *)
(* worklists and any budget: the same promise the engine keeps.            *)
THEOREM LoopKeepsGoverned == Spec => PassesGoverned
<1>1. Init => Governed!Init /\ LeasesAccounted
  BY DEF Init, Governed!Init, WorkOf, EndOf, Live, Idle, LeasesAccounted
<1>2. TypeOK /\ LeasesAccounted /\ [Next]_vars => LeasesAccounted'
  BY LeasesAccountedStep
<1>3. TypeOK /\ LeasesAccounted /\ [Next]_vars => [Governed!Next]_gview
  BY StepGoverned
<1> QED BY <1>1, <1>2, <1>3, TypeCorrect, PTL
        DEF Spec, PassesGoverned, Governed!Spec, Governed!gvars, gview, WorkMap, EndMap
============================================================================
