--------------------------- MODULE EventLogProofs ---------------------------
(***************************************************************************)
(* What holds of the event store for any number of processes and appends.  *)
(* First without any assumption on timing: a process at its write has read *)
(* a chained prefix of the log (Reading), so whatever it adds extends one. *)
(* Then, with readings of the lock file that are timely, that whoever is   *)
(* in the operation owns the lock file (Held), so that what it has read is *)
(* the whole log (UpToDate).                                               *)
(***************************************************************************)
EXTENDS MCEventLog, FiniteSetTheorems, TLAPS

----------------------------------------------------------------------------
(* Types.                                                                  *)
Asking == \A p \in Processes : pc[p] # "idle" => asked[p] \in 1..MaxAppends

Typed == TypeOK /\ Asking

LEMMA EnvelopeType ==
  ASSUME Typed, NEW p \in Processes, pc[p] = "append"
  PROVE  /\ Envelope(p) \in Line
         /\ Envelope(p).id = <<p, asked[p]>>
<1>1. memory[p] \in Seq(Line) /\ asked[p] \in 1..MaxAppends
  BY DEF Typed, TypeOK, Asking
<1>2. <<p, asked[p]>> \in Ids
  BY <1>1 DEF Ids
<1>3. CASE memory[p] = <<>>
  BY <1>1, <1>2, <1>3 DEF Envelope, Line
<1>4. CASE memory[p] # <<>>
  <2>1. memory[p][Len(memory[p])] \in Line
    BY <1>1, <1>4
  <2> QED BY <1>1, <1>2, <1>4, <2>1 DEF Envelope, Line
<1> QED BY <1>3, <1>4

LEMMA TypedStep == ASSUME Typed, [Next]_vars PROVE Typed'
<1> USE DEF Typed
<1>1. CASE UNCHANGED vars
  BY <1>1 DEF vars, TypeOK, Asking
<1>2. CASE LockAges
  BY <1>2 DEF LockAges, TypeOK, Asking, logFile
<1>3. ASSUME NEW p \in Processes, Start(p) PROVE Typed'
  <2>1. asked[p] + 1 \in 1..MaxAppends
    BY <1>3, ProcessAssumption DEF Start, TypeOK
  <2> QED BY <1>3, <2>1, ProcessAssumption DEF Start, At, Goto, TypeOK, Asking, Steps, lockFile, logFile
<1>4. ASSUME NEW p \in Processes, Crash(p) PROVE Typed'
  BY <1>4 DEF Crash, TypeOK, Asking, lockFile
<1>5. ASSUME NEW p \in Processes,
             OpenLock(p) \/ WriteOwner(p) \/ OwnerNotWritten(p) \/ TakeOver(p) \/ Unlock(p)
      PROVE  Typed'
  <2>1. lock' \in [owner : Processes, written : BOOLEAN] \cup {None} /\ old' \in BOOLEAN
    <3>1. CASE OpenLock(p)
      <4>1. [owner |-> p, written |-> FALSE] \in [owner : Processes, written : BOOLEAN]
        OBVIOUS
      <4>2. \/ lock' = [owner |-> p, written |-> FALSE] /\ old' = FALSE
            \/ lock' = lock /\ old' = old
        BY <3>1 DEF OpenLock, lockFile
      <4> QED BY <4>1, <4>2 DEF TypeOK
    <3>2. CASE WriteOwner(p)
      BY <3>2 DEF WriteOwner, TypeOK
    <3>3. CASE OwnerNotWritten(p) \/ TakeOver(p) \/ Unlock(p)
      BY <3>3 DEF OwnerNotWritten, TakeOver, Unlock, TypeOK, lockFile
    <3> QED BY <1>5, <3>1, <3>2, <3>3
  <2>2. pc' \in [Processes -> Steps] /\ \A q \in Processes : pc'[q] # "idle" => pc[q] # "idle"
    BY <1>5 DEF OpenLock, WriteOwner, OwnerNotWritten, TakeOver, Unlock, At, Goto, TypeOK, Steps
  <2>3. UNCHANGED <<file, torn, alive, memory, asked, waits, answered>>
    BY <1>5 DEF OpenLock, WriteOwner, OwnerNotWritten, TakeOver, Unlock, logFile
  <2> QED BY <2>1, <2>2, <2>3 DEF TypeOK, Asking
<1>6. ASSUME NEW p \in Processes, Judge(p) \/ TimeOut(p) \/ Refuse(p) PROVE Typed'
  BY <1>6 DEF Judge, TimeOut, Refuse, At, Goto, TypeOK, Asking, Steps, lockFile, logFile
<1>7. ASSUME NEW p \in Processes, Sleep(p) PROVE Typed'
  <2>1. waits[p] + 1 \in 0..MaxWaits
    BY <1>7, ProcessAssumption DEF Sleep, TimeLeft, TypeOK
  <2> QED BY <1>7, <2>1 DEF Sleep, At, Goto, TypeOK, Asking, Steps, lockFile, logFile
<1>8. ASSUME NEW p \in Processes, Load(p) PROVE Typed'
  BY <1>8 DEF Load, Loaded, At, Goto, TypeOK, Asking, Steps, lockFile, logFile
<1>9. ASSUME NEW p \in Processes, AppendLine(p) \/ WriteFails(p) PROVE Typed'
  <2>1. pc[p] = "append"
    BY <1>9 DEF AppendLine, WriteFails, At
  <2>2. Envelope(p) \in Line /\ <<p, asked[p]>> \in Ids
    BY <2>1, EnvelopeType DEF TypeOK, Asking, Ids
  <2>3. file' \in Seq(Line)
    <3>1. Append(file, Envelope(p)) \in Seq(Line)
      BY <2>2 DEF TypeOK
    <3>2. file' = file \/ file' = Append(file, Envelope(p))
      BY <1>9 DEF AppendLine, WriteFails, WriteLine, logFile
    <3> QED BY <3>1, <3>2 DEF TypeOK
  <2>4. Append(memory[p], Envelope(p)) \in Seq(Line)
    BY <2>2 DEF TypeOK
  <2>5. memory' \in [Processes -> Seq(Line)]
    BY <1>9, <2>4 DEF AppendLine, WriteFails, Push, TypeOK
  <2>6. pc' \in [Processes -> Steps] /\ \A q \in Processes : pc'[q] # "idle" => pc[q] # "idle"
    BY <1>9, <2>1 DEF AppendLine, WriteFails, Goto, TypeOK, Steps
  <2>7. answered' \subseteq Ids
    BY <1>9, <2>2 DEF AppendLine, WriteFails, TypeOK
  <2>8. UNCHANGED <<lock, old, alive, asked, waits>> /\ torn' \in BOOLEAN
    BY <1>9 DEF AppendLine, WriteFails, TypeOK, lockFile, logFile
  <2>9. TypeOK'
    BY <2>3, <2>5, <2>6, <2>7, <2>8 DEF Typed, TypeOK
  <2>10. Asking'
    BY <2>6, <2>8 DEF Typed, Asking
  <2> QED BY <2>9, <2>10 DEF Typed
<1> QED BY <1>1, <1>2, <1>3, <1>4, <1>5, <1>6, <1>7, <1>8, <1>9 DEF Next, Step

LEMMA TypedInit == Init => Typed
<1> SUFFICES ASSUME Init PROVE Typed
  OBVIOUS
<1>1. <<>> \in Seq(Line)
  OBVIOUS
<1>2. /\ pc \in [Processes -> Steps] /\ alive \in [Processes -> BOOLEAN]
      /\ lock \in [owner : Processes, written : BOOLEAN] \cup {None}
  BY DEF Init, Steps
<1>3. /\ asked \in [Processes -> 0..MaxAppends] /\ waits \in [Processes -> 0..MaxWaits]
      /\ memory \in [Processes -> Seq(Line)] /\ file \in Seq(Line)
  BY <1>1, ProcessAssumption DEF Init
<1>4. Asking
  BY DEF Init, Asking
<1> QED BY <1>2, <1>3, <1>4 DEF Init, Typed, TypeOK

(* Every reachable state of the store is well typed, and an append that is *)
(* under way has its number (JsonlEventStore.append).                      *)
THEOREM TypeCorrect == Spec => [](TypeOK /\ Asking)
<1>1. TypeOK /\ Asking /\ [Next]_vars => (TypeOK /\ Asking)'
  BY TypedStep DEF Typed
<1>2. Init => TypeOK /\ Asking
  BY TypedInit DEF Typed
<1> QED BY <1>1, <1>2, PTL DEF Spec

----------------------------------------------------------------------------
(***************************************************************************)
(* Without timing: the log and what the processes have read of it.         *)
(***************************************************************************)
LinkedAt(s, i) == /\ s[i].seq = i
                  /\ s[i].prev = IF i = 1 THEN None ELSE s[i - 1].id

LinkedTo(s, n) == \A i \in 1..n : LinkedAt(s, i)

LEMMA ChainedIsLinked ==
  ASSUME NEW s \in Seq(Line) PROVE Chained(s) <=> LinkedTo(s, Len(s))
  BY DEF Chained, LinkedTo, LinkedAt

LEMMA PrefixIsLinked ==
  ASSUME NEW s \in Seq(Line), NEW n \in 0..Len(s)
  PROVE  Chained(SubSeq(s, 1, n)) <=> LinkedTo(s, n)
<1>1. /\ SubSeq(s, 1, n) \in Seq(Line) /\ Len(SubSeq(s, 1, n)) = n
      /\ \A i \in 1..n : SubSeq(s, 1, n)[i] = s[i]
  OBVIOUS
<1> DEFINE t == SubSeq(s, 1, n)
<1> HIDE DEF t
<1>2. t \in Seq(Line) /\ Len(t) = n /\ \A i \in 1..n : t[i] = s[i]
  BY <1>1 DEF t
<1>3. \A i \in 1..n : LinkedAt(t, i) <=> LinkedAt(s, i)
  BY <1>2 DEF LinkedAt
<1>4. Chained(t) <=> LinkedTo(s, n)
  BY <1>2, <1>3, ChainedIsLinked DEF LinkedTo
<1> QED BY <1>4 DEF t

(* A process at its write has read a chained prefix of the log, and none   *)
(* of the lines that came since is its own.                                *)
ReadPrefix(p) ==
    /\ Len(memory[p]) <= Len(file)
    /\ \A i \in 1..Len(memory[p]) : memory[p][i] = file[i]
    /\ LinkedTo(file, Len(memory[p]))
    /\ \A i \in (Len(memory[p]) + 1)..Len(file) : Writer(file[i]) # p

Reading == \A p \in Processes : pc[p] = "append" => ReadPrefix(p)

(* The one step that adds a line, and all the others.                      *)
Adds(p) == /\ pc[p] = "append" /\ pc' = [pc EXCEPT ![p] = "unlock"]
           /\ ~torn /\ ~torn'
           /\ file' = Append(file, Envelope(p))
           /\ \A q \in Processes \ {p} : memory'[q] = memory[q]
           /\ answered' \subseteq answered \cup {<<p, asked[p]>>}

AddsNothing ==
    /\ file' = file
    /\ torn' \/ (~torn /\ answered' = answered)
    /\ \A q \in Processes : pc'[q] = "append" =>
          \/ pc[q] = "append" /\ memory'[q] = memory[q]
          \/ Chained(file) /\ memory'[q] = file

LEMMA FileSteps ==
  ASSUME Typed, [Next]_vars
  PROVE  AddsNothing \/ \E p \in Processes : Adds(p)
<1> USE DEF Typed
<1>1. CASE UNCHANGED vars
  BY <1>1 DEF vars, AddsNothing, TypeOK
<1>2. CASE LockAges
  BY <1>2 DEF LockAges, logFile, AddsNothing, TypeOK
<1>3. ASSUME NEW p \in Processes, Start(p) \/ Crash(p) PROVE AddsNothing
  BY <1>3 DEF Start, Crash, Goto, At, logFile, AddsNothing, TypeOK
<1>4. ASSUME NEW p \in Processes,
             OpenLock(p) \/ WriteOwner(p) \/ OwnerNotWritten(p) \/ TakeOver(p) \/ Unlock(p)
      PROVE  AddsNothing
  BY <1>4 DEF OpenLock, WriteOwner, OwnerNotWritten, TakeOver, Unlock, Goto, At, logFile,
              AddsNothing, TypeOK
<1>5. ASSUME NEW p \in Processes, Judge(p) \/ TimeOut(p) \/ Sleep(p) \/ Refuse(p)
      PROVE  AddsNothing
  BY <1>5 DEF Judge, TimeOut, Sleep, Refuse, Goto, At, logFile, AddsNothing, TypeOK
<1>6. ASSUME NEW p \in Processes, Load(p) PROVE AddsNothing
  BY <1>6 DEF Load, Loaded, Readable, Goto, At, logFile, AddsNothing, TypeOK
<1>7. ASSUME NEW p \in Processes, AppendLine(p) \/ WriteFails(p)
      PROVE  AddsNothing \/ Adds(p)
  <2>1. /\ pc[p] = "append" /\ pc' = [pc EXCEPT ![p] = "unlock"]
        /\ \A q \in Processes \ {p} : memory'[q] = memory[q]
        /\ answered' \subseteq answered \cup {<<p, asked[p]>>}
    BY <1>7 DEF AppendLine, WriteFails, At, Goto, Push, TypeOK
  <2>2. \/ file' = file /\ (torn' \/ (~torn /\ answered' = answered))
        \/ ~torn /\ ~torn' /\ file' = Append(file, Envelope(p))
    BY <1>7 DEF AppendLine, WriteFails, WriteLine, logFile, TypeOK
  <2>3. \A q \in Processes : pc'[q] = "append" => pc[q] = "append" /\ q # p
    BY <2>1 DEF TypeOK
  <2> QED BY <2>1, <2>2, <2>3 DEF Adds, AddsNothing
<1> QED BY <1>1, <1>2, <1>3, <1>4, <1>5, <1>6, <1>7 DEF Next, Step

(* What one more line leaves alone.                                        *)
LEMMA OneMore ==
  ASSUME Typed, NEW p \in Processes, Adds(p)
  PROVE  /\ Len(file') = Len(file) + 1 /\ Len(file) \in Nat
         /\ \A i \in 1..Len(file) : file'[i] = file[i]
         /\ file'[Len(file) + 1] = Envelope(p)
         /\ \A n \in 0..Len(file) : LinkedTo(file', n) <=> LinkedTo(file, n)
<1>1. file \in Seq(Line) /\ Envelope(p) \in Line
  BY EnvelopeType DEF Typed, TypeOK, Adds
<1>2. /\ Len(file') = Len(file) + 1 /\ Len(file) \in Nat
      /\ \A i \in 1..Len(file) : file'[i] = file[i]
      /\ file'[Len(file) + 1] = Envelope(p)
  BY <1>1 DEF Adds
<1>3. \A i \in 1..Len(file) : LinkedAt(file', i) <=> LinkedAt(file, i)
  BY <1>2 DEF LinkedAt
<1> QED BY <1>2, <1>3 DEF LinkedTo

LEMMA ReadingStep ==
  ASSUME Typed, Reading, [Next]_vars
  PROVE  Reading'
<1>1. CASE AddsNothing
  <2> SUFFICES ASSUME NEW q \in Processes, pc'[q] = "append" PROVE ReadPrefix(q)'
    BY DEF Reading
  <2>1. file' = file /\ file \in Seq(Line)
    BY <1>1 DEF AddsNothing, Typed, TypeOK
  <2>2. CASE pc[q] = "append" /\ memory'[q] = memory[q]
    BY <2>1, <2>2 DEF Reading, ReadPrefix, LinkedTo, LinkedAt, Writer
  <2>3. CASE Chained(file) /\ memory'[q] = file
    <3>1. LinkedTo(file, Len(file)) /\ Len(file) \in Nat
      BY <2>1, <2>3, ChainedIsLinked
    <3> QED BY <2>1, <2>3, <3>1 DEF ReadPrefix
  <2> QED BY <1>1, <2>2, <2>3 DEF AddsNothing
<1>2. ASSUME NEW p \in Processes, Adds(p) PROVE Reading'
  <2> SUFFICES ASSUME NEW q \in Processes, pc'[q] = "append" PROVE ReadPrefix(q)'
    BY DEF Reading
  <2>1. q # p /\ pc[q] = "append" /\ memory'[q] = memory[q]
    BY <1>2 DEF Adds, Typed, TypeOK
  <2>2. ReadPrefix(q) /\ Len(memory[q]) \in Nat
    BY <2>1 DEF Reading, Typed, TypeOK
  <2>3. /\ Len(file') = Len(file) + 1 /\ Len(file) \in Nat
        /\ \A i \in 1..Len(file) : file'[i] = file[i]
        /\ file'[Len(file) + 1].id = <<p, asked[p]>>
        /\ LinkedTo(file', Len(memory[q])) <=> LinkedTo(file, Len(memory[q]))
    <3>1. Envelope(p).id = <<p, asked[p]>>
      BY <1>2, EnvelopeType DEF Adds
    <3>2. /\ Len(file') = Len(file) + 1 /\ Len(file) \in Nat
          /\ \A i \in 1..Len(file) : file'[i] = file[i]
          /\ file'[Len(file) + 1] = Envelope(p)
          /\ \A n \in 0..Len(file) : LinkedTo(file', n) <=> LinkedTo(file, n)
      BY <1>2, OneMore
    <3>3. Len(memory[q]) \in 0..Len(file)
      BY <2>2, <3>2 DEF ReadPrefix
    <3> QED BY <3>1, <3>2, <3>3
  <2>4. ASSUME NEW i \in (Len(memory[q]) + 1)..Len(file') PROVE Writer(file'[i]) # q
    <3>1. CASE i = Len(file) + 1
      BY <2>1, <2>3, <3>1 DEF Writer
    <3>2. CASE i # Len(file) + 1
      BY <2>2, <2>3, <3>2 DEF Writer, ReadPrefix
    <3> QED BY <3>1, <3>2
  <2>5. \A i \in 1..Len(memory[q]) : memory[q][i] = file'[i]
    BY <2>2, <2>3 DEF ReadPrefix
  <2> QED BY <2>1, <2>2, <2>3, <2>4, <2>5 DEF ReadPrefix
<1> QED BY <1>1, <1>2, FileSteps

LEMMA ReadingInit == Init => Reading
  BY DEF Init, Reading

(* Each line continues a chained prefix of the lines before it; and what   *)
(* was answered is there.                                                  *)
Continues(i) ==
    LET n == file[i].seq - 1 IN
    /\ n \in 0..(i - 1)
    /\ LinkedTo(file, n)
    /\ file[i].prev = IF n = 0 THEN None ELSE file[n].id

Present == torn \/ \A id \in answered : \E i \in 1..Len(file) : file[i].id = id

Extends == (\A i \in 1..Len(file) : Continues(i)) /\ Present

LEMMA ExtendsIsProperty == ASSUME Typed PROVE Extends <=> LinesExtendTheLog
<1>1. file \in Seq(Line) /\ DOMAIN file = 1..Len(file) /\ Len(file) \in Nat
  BY DEF Typed, TypeOK
<1>2. ASSUME NEW i \in 1..Len(file), file[i].seq - 1 \in 0..(i - 1)
      PROVE  Chained(Prefix(file[i].seq - 1)) <=> LinkedTo(file, file[i].seq - 1)
  <2>1. file[i].seq - 1 \in 0..Len(file)
    BY <1>1, <1>2
  <2> QED BY <1>1, <2>1, PrefixIsLinked DEF Prefix
<1>3. \A i \in 1..Len(file) :
        Continues(i) <=> LET n == file[i].seq - 1 IN
                         /\ n \in 0..(i - 1)
                         /\ Chained(Prefix(n))
                         /\ file[i].prev = IF n = 0 THEN None ELSE file[n].id
  BY <1>2 DEF Continues
<1> QED BY <1>1, <1>3 DEF Extends, Present, LinesExtendTheLog

LEMMA ExtendsStep ==
  ASSUME Typed, Reading, Extends, [Next]_vars
  PROVE  Extends'
<1>1. CASE AddsNothing
  BY <1>1 DEF AddsNothing, Extends, Continues, Present, LinkedTo, LinkedAt
<1>2. ASSUME NEW p \in Processes, Adds(p) PROVE Extends'
  <2>0. PICK m \in Nat : m = Len(file)
    BY DEF Typed, TypeOK
  <2>1. /\ Len(file') = m + 1
        /\ \A i \in 1..m : file'[i] = file[i]
        /\ file'[m + 1] = Envelope(p)
        /\ \A n \in 0..m : LinkedTo(file', n) <=> LinkedTo(file, n)
    BY <1>2, <2>0, OneMore
  <2>2. ReadPrefix(p) /\ Len(memory[p]) \in Nat /\ memory[p] \in Seq(Line)
    BY <1>2 DEF Reading, Adds, Typed, TypeOK
  <2>3. Continues(m + 1)'
    <3>0. PICK n \in Nat : n = Len(memory[p])
      BY <2>2
    <3>1. /\ Envelope(p).seq - 1 = n
          /\ Envelope(p).prev = IF n = 0 THEN None ELSE memory[p][n].id
      BY <2>2, <3>0 DEF Envelope
    <3>2. n \in 0..m /\ LinkedTo(file', n)
      BY <2>0, <2>1, <2>2, <3>0 DEF ReadPrefix
    <3>3. n # 0 => memory[p][n] = file'[n]
      BY <2>1, <2>2, <3>0, <3>2 DEF ReadPrefix
    <3>4. /\ file'[m + 1].seq - 1 = n
          /\ file'[m + 1].prev = IF n = 0 THEN None ELSE file'[n].id
      BY <2>1, <3>1, <3>3
    <3>5. n \in 0..((m + 1) - 1) /\ LinkedTo(file', n)
      BY <3>2
    <3> QED BY <3>4, <3>5 DEF Continues
  <2>4. ASSUME NEW i \in 1..m PROVE Continues(i)'
    <3>1. Continues(i) /\ file'[i] = file[i]
      BY <2>0, <2>1 DEF Extends
    <3>2. PICK n \in 0..(i - 1) : n = file[i].seq - 1
      BY <3>1 DEF Continues
    <3>3. n # 0 => file'[n] = file[n]
      <4>1. n # 0 => n \in 1..m
        OBVIOUS
      <4> QED BY <2>1, <4>1
    <3>4. LinkedTo(file', n)
      BY <2>1, <3>1, <3>2 DEF Continues
    <3>5. file[i].prev = IF n = 0 THEN None ELSE file[n].id
      BY <3>1, <3>2 DEF Continues
    <3>6. /\ file'[i].seq - 1 = n
          /\ file'[i].prev = IF n = 0 THEN None ELSE file'[n].id
      BY <3>1, <3>2, <3>3, <3>5
    <3> QED BY <3>2, <3>4, <3>6 DEF Continues
  <2>5. Present'
    <3>1. file'[m + 1].id = <<p, asked[p]>>
      BY <1>2, <2>1, EnvelopeType DEF Adds
    <3>2. \A id \in answered : \E i \in 1..m : file'[i].id = id
      BY <1>2, <2>0, <2>1 DEF Adds, Extends, Present
    <3>3. \A id \in answered' : id \in answered \/ id = <<p, asked[p]>>
      BY <1>2 DEF Adds
    <3> QED BY <2>1, <3>1, <3>2, <3>3 DEF Present
  <2>6. \A i \in 1..(m + 1) : Continues(i)'
    BY <2>3, <2>4
  <2> QED BY <2>1, <2>5, <2>6 DEF Extends
<1> QED BY <1>1, <1>2, FileSteps

(* Every line of the log continues a chained prefix of it, and no answered *)
(* line is lost (#appendLine, #withLock), for any number of processes and  *)
(* however the lock file was raced for.                                    *)
THEOREM LinesExtendAlways == Spec => []LinesExtendTheLog
<1>1. Init => Reading /\ Extends
  BY ReadingInit DEF Init, Extends, Present
<1>2. TypeOK /\ Asking /\ Reading /\ Extends /\ [Next]_vars => (Reading /\ Extends)'
  BY ReadingStep, ExtendsStep DEF Typed
<1>3. TypeOK /\ Asking /\ Extends => LinesExtendTheLog
  BY ExtendsIsProperty DEF Typed
<1> QED BY <1>1, <1>2, <1>3, TypeCorrect, PTL DEF Spec

----------------------------------------------------------------------------
(* Damage.  A process at its write has read no further than the first      *)
(* break, so behind the break there is no line of its own.                 *)
Contained ==
    \A n \in 0..(Len(file) - 1) :
        LinkedTo(file, n) /\ ~LinkedTo(file, n + 1) =>
            \A i, j \in (n + 1)..Len(file) :
                Writer(file[i]) = Writer(file[j]) => i = j

LEMMA ContainedIsProperty == ASSUME Typed PROVE Contained <=> DamageIsContained
<1>1. file \in Seq(Line) /\ Len(file) \in Nat
  BY DEF Typed, TypeOK
<1>2. ASSUME NEW n \in 0..(Len(file) - 1)
      PROVE  /\ Chained(Prefix(n)) <=> LinkedTo(file, n)
             /\ Chained(Prefix(n + 1)) <=> LinkedTo(file, n + 1)
  <2>1. n \in 0..Len(file) /\ n + 1 \in 0..Len(file)
    BY <1>1
  <2> QED BY <1>1, <2>1, PrefixIsLinked DEF Prefix
<1> QED BY <1>2 DEF Contained, DamageIsContained

LEMMA ContainedStep ==
  ASSUME Typed, Reading, Contained, [Next]_vars
  PROVE  Contained'
<1>1. CASE AddsNothing
  BY <1>1 DEF AddsNothing, Contained, LinkedTo, LinkedAt, Writer
<1>2. ASSUME NEW p \in Processes, Adds(p) PROVE Contained'
  <2>1. /\ Len(file') = Len(file) + 1 /\ Len(file) \in Nat
        /\ \A i \in 1..Len(file) : file'[i] = file[i]
        /\ file'[Len(file) + 1] = Envelope(p)
        /\ \A n \in 0..Len(file) : LinkedTo(file', n) <=> LinkedTo(file, n)
    BY <1>2, OneMore
  <2>2. ReadPrefix(p) /\ Len(memory[p]) \in Nat
    BY <1>2 DEF Reading, Adds, Typed, TypeOK
  <2>3. Writer(file'[Len(file) + 1]) = p
    BY <1>2, <2>1, EnvelopeType DEF Adds, Writer
  <2> SUFFICES ASSUME NEW n \in 0..Len(file), LinkedTo(file, n), ~LinkedTo(file', n + 1),
                      NEW i \in (n + 1)..(Len(file) + 1), NEW j \in (n + 1)..(Len(file) + 1),
                      Writer(file'[i]) = Writer(file'[j])
               PROVE  i = j
    BY <2>1 DEF Contained
  <2>4. CASE n = Len(file)
    BY <2>1, <2>4
  <2>5. CASE n # Len(file)
    <3>1. n \in 0..(Len(file) - 1) /\ ~LinkedTo(file, n + 1)
      BY <2>1, <2>5
    <3>2. Len(memory[p]) <= n
      BY <2>1, <2>2, <3>1 DEF ReadPrefix, LinkedTo
    <3>3. \A k \in (n + 1)..Len(file) : Writer(file'[k]) # p /\ Writer(file'[k]) = Writer(file[k])
      BY <2>1, <2>2, <3>1, <3>2 DEF ReadPrefix, Writer
    <3>4. CASE i \in (n + 1)..Len(file) /\ j \in (n + 1)..Len(file)
      BY <3>1, <3>3, <3>4 DEF Contained
    <3>5. CASE i = Len(file) + 1 \/ j = Len(file) + 1
      BY <2>1, <2>3, <3>3, <3>5
    <3> QED BY <2>1, <3>4, <3>5
  <2> QED BY <2>4, <2>5
<1> QED BY <1>1, <1>2, FileSteps

(* Behind the last good line each process adds at most one: a broken chain *)
(* stops every later append (validateEnvelopeChain in #replaceMemory).     *)
THEOREM DamageContainedAlways == Spec => []DamageIsContained
<1>1. Init => Reading /\ Contained
  BY ReadingInit DEF Init, Contained
<1>2. TypeOK /\ Asking /\ Reading /\ Contained /\ [Next]_vars => (Reading /\ Contained)'
  BY ReadingStep, ContainedStep DEF Typed
<1>3. TypeOK /\ Asking /\ Contained => DamageIsContained
  BY ContainedIsProperty DEF Typed
<1> QED BY <1>1, <1>2, <1>3, TypeCorrect, PTL DEF Spec

----------------------------------------------------------------------------
(***************************************************************************)
(* Without timing: why no append hangs.                                    *)
(***************************************************************************)
Progress ==
    /\ Openings' \subseteq Openings
    /\ ~OpeningUsed /\ lock = None => lock' = None
    /\ \A p \in Processes : pc[p] # "idle" =>
          \/ pc'[p] = pc[p] /\ waits'[p] = waits[p]
          \/ OpeningUsed \/ FileRemoved \/ GoesForward(p)

(* No opening comes from a step that starts no append and brings nobody    *)
(* back to the lock file.                                                  *)
LEMMA OpeningsKept ==
  ASSUME UNCHANGED asked, \A q \in Processes : pc'[q] \in Trying => pc[q] \in Trying
  PROVE  Openings' \subseteq Openings
  BY DEF Openings, Ids

(* One process moves, and it moves on: in the order of withLock, or after  *)
(* one more sleep, or by removing the file.                                *)
LEMMA OneMoves ==
  ASSUME Typed, NEW p \in Processes, UNCHANGED asked, lock = None => lock' = None,
         \A q \in Processes \ {p} : pc'[q] = pc[q] /\ waits'[q] = waits[q],
         pc'[p] \in Trying => pc[p] \in Trying,
         FileRemoved \/ GoesForward(p)
  PROVE  Progress
<1>1. Openings' \subseteq Openings
  BY OpeningsKept
<1> QED BY <1>1 DEF Progress

LEMMA ProgressStep == ASSUME Typed, [Next]_vars PROVE Progress
<1> USE DEF Typed
<1>1. CASE UNCHANGED vars \/ LockAges
  BY <1>1, OpeningsKept DEF vars, LockAges, Progress
<1>2. ASSUME NEW p \in Processes, Crash(p) PROVE Progress
  BY <1>2, OpeningsKept DEF Crash, lockFile, Progress
<1>3. ASSUME NEW p \in Processes, Start(p) PROVE Progress
  <2>1. /\ asked[p] \in Nat /\ asked' = [asked EXCEPT ![p] = asked[p] + 1]
        /\ pc[p] = "idle" /\ pc' = [pc EXCEPT ![p] = "open"]
        /\ waits' = [waits EXCEPT ![p] = 0] /\ lock' = lock
    BY <1>3 DEF Start, At, Goto, lockFile, TypeOK
  <2>2. ASSUME NEW id \in Openings' PROVE id \in Openings
    <3>1. id \in Ids /\ id[1] \in Processes /\ id[2] \in Nat /\ asked[id[1]] \in Nat
      BY <2>2, ProcessAssumption DEF Openings, Ids, TypeOK
    <3>2. CASE id[1] = p
      BY <2>1, <2>2, <3>1, <3>2 DEF Openings, TypeOK
    <3>3. CASE id[1] # p
      BY <2>1, <2>2, <3>1, <3>3 DEF Openings, TypeOK
    <3> QED BY <3>2, <3>3
  <2> QED BY <2>1, <2>2 DEF Progress, TypeOK
<1>4. ASSUME NEW p \in Processes, OpenLock(p), lock = None PROVE Progress
  <2>1. /\ pc[p] = "open" /\ pc' = [pc EXCEPT ![p] = "write"] /\ UNCHANGED <<asked, waits>>
    BY <1>4 DEF OpenLock, At, Goto
  <2>2. Openings' \subseteq Openings
    BY <2>1, OpeningsKept DEF Trying, TypeOK
  <2>3. <<p, asked[p]>> \in Openings /\ <<p, asked[p]>> \notin Openings'
    <3>1. asked[p] \in 1..MaxAppends
      BY <2>1 DEF Asking
    <3>2. asked[p] \in Nat /\ <<p, asked[p]>> \in Ids
      BY <3>1 DEF Ids
    <3> QED BY <2>1, <3>2 DEF Openings, Trying, TypeOK
  <2> QED BY <2>2, <2>3 DEF Progress, OpeningUsed
<1>5. ASSUME NEW p \in Processes,
             \/ OpenLock(p) /\ lock # None
             \/ WriteOwner(p) \/ OwnerNotWritten(p) \/ Judge(p) \/ TimeOut(p)
             \/ Load(p) \/ AppendLine(p) \/ Refuse(p) \/ WriteFails(p)
      PROVE  Progress
  <2>1. UNCHANGED <<asked, waits>> /\ (lock = None => lock' = None)
    BY <1>5 DEF OpenLock, WriteOwner, OwnerNotWritten, Judge, TimeOut, Load, AppendLine, Refuse,
                WriteFails, lockFile
  <2>2. PICK s \in Steps : /\ pc' = [pc EXCEPT ![p] = s] /\ ToGo[s] < ToGo[pc[p]]
                           /\ s \in Trying => pc[p] \in Trying
    BY <1>5 DEF OpenLock, WriteOwner, OwnerNotWritten, Judge, TimeOut, Load, AppendLine, Refuse,
                WriteFails, At, Goto, Steps, ToGo, Trying
  <2>3. pc'[p] = s /\ \A q \in Processes \ {p} : pc'[q] = pc[q]
    BY <2>2 DEF TypeOK
  <2>4. GoesForward(p)
    BY <2>1, <2>2, <2>3 DEF GoesForward
  <2> QED BY <2>1, <2>2, <2>3, <2>4, OneMoves
<1>6. ASSUME NEW p \in Processes, Sleep(p) PROVE Progress
  <2>1. /\ UNCHANGED <<asked, lock>> /\ pc[p] = "wait" /\ waits[p] \in Nat
        /\ waits' = [waits EXCEPT ![p] = waits[p] + 1] /\ pc' = [pc EXCEPT ![p] = "open"]
    BY <1>6 DEF Sleep, At, Goto, lockFile, TypeOK
  <2>2. waits'[p] > waits[p] /\ pc[p] \in Trying
    BY <2>1 DEF Trying, TypeOK
  <2>3. \A q \in Processes \ {p} : pc'[q] = pc[q] /\ waits'[q] = waits[q]
    BY <2>1 DEF TypeOK
  <2> QED BY <2>1, <2>2, <2>3, OneMoves DEF GoesForward
<1>7. ASSUME NEW p \in Processes, TakeOver(p) \/ Unlock(p) PROVE Progress
  <2>1. /\ UNCHANGED <<asked, waits>> /\ lock' = None
        /\ \/ pc[p] = "takeover" /\ pc' = [pc EXCEPT ![p] = IF lock # None THEN "open" ELSE "wait"]
           \/ pc[p] = "unlock" /\ pc' = [pc EXCEPT ![p] = "idle"]
    BY <1>7 DEF TakeOver, Unlock, At, Goto
  <2>2. pc'[p] \in Trying => pc[p] \in Trying
    BY <2>1 DEF Trying, TypeOK
  <2>3. \A q \in Processes \ {p} : pc'[q] = pc[q] /\ waits'[q] = waits[q]
    BY <2>1 DEF TypeOK
  <2>4. lock = None => ToGo[pc'[p]] < ToGo[pc[p]]
    BY <2>1 DEF ToGo, TypeOK
  <2>5. FileRemoved \/ GoesForward(p)
    BY <2>1, <2>4 DEF FileRemoved, GoesForward
  <2> QED BY <2>1, <2>2, <2>3, <2>5, OneMoves
<1> QED BY <1>1, <1>2, <1>3, <1>4, <1>5, <1>6, <1>7 DEF Next, Step

(* Appends make progress through every race of the lock file               *)
(* (#withLock): each step of one uses up an opening, removes a lock file   *)
(* or goes forward to its deadline, and no other process undoes any of it. *)
THEOREM AppendProgressAlways == Spec => AppendProgress
<1>1. TypeOK /\ Asking /\ [Next]_vars => [Progress]_vars
  BY ProgressStep DEF Typed
<1> QED BY <1>1, TypeCorrect, PTL DEF Spec, AppendProgress, Progress

----------------------------------------------------------------------------
(***************************************************************************)
(* With timely readings of the lock file.                                  *)
(***************************************************************************)
Holds(p) == alive[p] /\ pc[p] \in {"write", "load", "append", "unlock"}

(* Who is past the creation of its lock file owns the one that is there,   *)
(* and what is about to be removed is a dead process's.                    *)
Held ==
    /\ \A p \in Processes : Holds(p) => lock # None /\ lock.owner = p
    /\ \A p \in Processes : At(p, "takeover") => lock # None /\ ~alive[lock.owner]

TimelyNext == Next /\ ReadsCompleteLocks /\ TakesOverAtOnce

(* A step that leaves the lock to its owner and brings nobody in.          *)
LEMMA QuietLock ==
  ASSUME Typed, Held, UNCHANGED lock,
         \A q \in Processes : /\ alive'[q] => alive[q]
                              /\ Holds(q)' => Holds(q)
                              /\ At(q, "takeover")' => At(q, "takeover")
  PROVE  Held'
<1>1. lock # None => lock.owner \in Processes
  BY DEF Typed, TypeOK
<1> QED BY <1>1 DEF Held

LEMMA HeldStep ==
  ASSUME Typed, Held, TimelyNext \/ UNCHANGED vars
  PROVE  Held'
<1> USE DEF Typed
<1>1. CASE UNCHANGED vars \/ LockAges
  BY <1>1, QuietLock DEF vars, LockAges, Holds, At
<1>2. ASSUME NEW p \in Processes, Start(p) \/ Crash(p) \/ TimeOut(p) \/ Sleep(p) \/ Load(p)
                                     \/ Refuse(p) \/ OwnerNotWritten(p)
      PROVE  Held'
  <2>1. UNCHANGED lock /\ \A q \in Processes : alive'[q] => alive[q]
    BY <1>2 DEF Start, Crash, TimeOut, Sleep, Load, Refuse, OwnerNotWritten, lockFile, TypeOK
  <2>2. \A q \in Processes : /\ Holds(q)' => Holds(q)
                             /\ At(q, "takeover")' => At(q, "takeover")
    BY <1>2, <2>1 DEF Start, Crash, TimeOut, Sleep, Load, Refuse, OwnerNotWritten, Goto, At, Holds,
                      TypeOK
  <2> QED BY <2>1, <2>2, QuietLock
<1>3. ASSUME NEW p \in Processes, AppendLine(p) \/ WriteFails(p) PROVE Held'
  <2>1. UNCHANGED <<lock, alive>> /\ At(p, "append") /\ pc' = [pc EXCEPT ![p] = "unlock"]
    BY <1>3 DEF AppendLine, WriteFails, lockFile, Goto
  <2>2. \A q \in Processes : /\ Holds(q)' => Holds(q)
                             /\ At(q, "takeover")' => At(q, "takeover")
    BY <2>1 DEF At, Holds, TypeOK
  <2> QED BY <2>1, <2>2, QuietLock
<1>4. ASSUME NEW p \in Processes, OpenLock(p) PROVE Held'
  <2>1. CASE lock = None
    <3>1. /\ lock' = [owner |-> p, written |-> FALSE] /\ alive' = alive
          /\ pc' = [pc EXCEPT ![p] = "write"]
      BY <1>4, <2>1 DEF OpenLock, Goto
    <3>2. lock' # None /\ lock'.owner = p
      <4>1. [owner |-> p, written |-> FALSE] \in [owner : Processes, written : BOOLEAN]
        OBVIOUS
      <4>2. lock' # None
        BY <3>1, <4>1, NoneAssumption
      <4>3. lock'.owner = p
        BY <3>1
      <4> QED BY <4>2, <4>3
    <3>3. \A q \in Processes : Holds(q)' => q = p
      BY <2>1, <3>1 DEF Holds, Held, TypeOK
    <3>4. \A q \in Processes : ~At(q, "takeover")'
      BY <2>1, <3>1 DEF At, Held, TypeOK
    <3> QED BY <3>2, <3>3, <3>4 DEF Held
  <2>2. CASE lock # None
    <3>1. UNCHANGED <<lock, alive>> /\ pc' = [pc EXCEPT ![p] = "judge"]
      BY <1>4, <2>2 DEF OpenLock, lockFile, Goto
    <3> QED BY <3>1, QuietLock DEF Holds, At, TypeOK
  <2> QED BY <2>1, <2>2
<1>5. ASSUME NEW p \in Processes, WriteOwner(p) PROVE Held'
  <2>1. /\ At(p, "write") /\ alive' = alive /\ pc' = [pc EXCEPT ![p] = "load"]
        /\ lock # None /\ lock.owner = p
    BY <1>5 DEF WriteOwner, Held, Holds, At, Goto
  <2>2. lock' = [lock EXCEPT !.written = TRUE]
    BY <1>5, <2>1 DEF WriteOwner
  <2>3. lock' # None /\ lock'.owner = lock.owner
    BY <2>1, <2>2, NoneAssumption DEF TypeOK
  <2>4. \A q \in Processes : /\ Holds(q)' => Holds(q)
                             /\ At(q, "takeover")' => At(q, "takeover")
    BY <2>1 DEF At, Holds, TypeOK
  <2> QED BY <2>1, <2>3, <2>4 DEF Held
<1>6. ASSUME NEW p \in Processes, Judge(p), ReadsCompleteLocks PROVE Held'
  <2>1. /\ At(p, "judge") /\ UNCHANGED <<lock, alive>>
        /\ pc' = [pc EXCEPT ![p] = IF Stale THEN "takeover" ELSE "wait"]
    BY <1>6 DEF Judge, lockFile, Goto
  <2>2. pc'[p] = (IF Stale THEN "takeover" ELSE "wait") /\ pc[p] = "judge"
    BY <2>1 DEF At, TypeOK
  <2>3. lock # None /\ (lock.written \/ ~alive[lock.owner])
    BY <1>6, <2>2 DEF ReadsCompleteLocks
  <2>4. Stale => ~alive[lock.owner]
    BY <2>3 DEF Stale, Unreadable
  <2>5. \A q \in Processes : Holds(q)' => Holds(q)
    BY <2>1, <2>2 DEF Holds, TypeOK
  <2>6. \A q \in Processes : At(q, "takeover")' => At(q, "takeover") \/ Stale
    BY <2>1, <2>2 DEF At, TypeOK
  <2> QED BY <2>1, <2>3, <2>4, <2>5, <2>6 DEF Held
<1>7. ASSUME NEW p \in Processes, TakeOver(p) \/ Unlock(p), TakesOverAtOnce PROVE Held'
  <2>1. /\ alive' = alive /\ alive[p] /\ pc[p] \in {"takeover", "unlock"}
        /\ pc' \in [Processes -> Steps] /\ pc'[p] \in {"open", "wait", "idle"}
        /\ \A q \in Processes \ {p} : pc'[q] = pc[q]
    BY <1>7 DEF TakeOver, Unlock, At, Goto, TypeOK, Steps
  <2>2. lock # None /\ (lock.owner = p \/ ~alive[lock.owner])
    BY <2>1 DEF Held, Holds, At
  <2>3. \A q \in Processes : ~Holds(q)'
    BY <2>1, <2>2 DEF Held, Holds
  <2>4. \A q \in Processes : ~At(q, "takeover")'
    BY <1>7, <2>1 DEF TakesOverAtOnce, At
  <2> QED BY <2>3, <2>4 DEF Held
<1> QED BY <1>1, <1>2, <1>3, <1>4, <1>5, <1>6, <1>7 DEF TimelyNext, Next, Step

LEMMA HeldInit == Init => Held
  BY DEF Init, Held, Holds, At

LEMMA OneAtATime == ASSUME Held PROVE SingleHolder
<1>1. \A p, q \in Inside : p = q
  BY DEF Inside, Held, Holds
<1>2. CASE Inside = {}
  BY <1>2, FS_EmptySet DEF SingleHolder
<1>3. CASE Inside # {}
  <2>1. PICK p : Inside = {p}
    BY <1>1, <1>3
  <2>2. Cardinality(Inside) = 1
    BY <2>1, FS_Singleton
  <2> QED BY <2>2 DEF SingleHolder
<1> QED BY <1>2, <1>3

LEMMA TimelyTyped == TimelySpec => [](TypeOK /\ Asking)
<1>1. TypeOK /\ Asking /\ [TimelyNext]_vars => (TypeOK /\ Asking)'
  BY TypedStep DEF Typed, TimelyNext
<1>2. Init => TypeOK /\ Asking
  BY TypedInit DEF Typed
<1> QED BY <1>1, <1>2, PTL DEF TimelySpec, TimelyNext

(* When the lock file is read in time, two processes are never at once in  *)
(* the operation that #withLock protects, whoever dies wherever.           *)
THEOREM SingleHolderAlways == TimelySpec => []SingleHolder
<1>1. TypeOK /\ Asking /\ Held /\ [TimelyNext]_vars => Held'
  BY HeldStep DEF Typed
<1>2. Held => SingleHolder
  BY OneAtATime
<1> QED BY <1>1, <1>2, HeldInit, TimelyTyped, PTL DEF TimelySpec, TimelyNext

----------------------------------------------------------------------------
(* What the process in the operation has read is the whole log.            *)
UpToDate == \A p \in Processes : At(p, "append") => memory[p] = file /\ ~torn

LEMMA UpToDateStep ==
  ASSUME Typed, Held, UpToDate, [Next]_vars
  PROVE  UpToDate'
<1> SUFFICES ASSUME NEW q \in Processes, At(q, "append")' PROVE memory'[q] = file' /\ ~torn'
  BY DEF UpToDate
<1> USE DEF Typed
<1>1. ASSUME NEW p \in Processes, At(p, "append"), pc'[p] # "append" \/ ~alive'[p],
             pc'[q] = pc[q] /\ alive'[q] = alive[q]
      PROVE  FALSE
  <2>1. At(q, "append") /\ p # q
    BY <1>1 DEF At
  <2> QED BY <1>1, <2>1 DEF Held, Holds, At
<1>2. CASE UNCHANGED vars \/ LockAges
  BY <1>2 DEF vars, LockAges, logFile, At, UpToDate
<1>3. ASSUME NEW p \in Processes,
             \/ Start(p) \/ OpenLock(p) \/ WriteOwner(p) \/ OwnerNotWritten(p) \/ Judge(p)
             \/ TakeOver(p) \/ TimeOut(p) \/ Sleep(p) \/ Refuse(p) \/ Unlock(p)
      PROVE  memory'[q] = file' /\ ~torn'
  <2>1. UNCHANGED <<file, torn, memory, alive>>
    BY <1>3 DEF Start, OpenLock, WriteOwner, OwnerNotWritten, Judge, TakeOver, TimeOut, Sleep,
                Refuse, Unlock, logFile
  <2>2. At(q, "append")
    BY <1>3, <2>1 DEF Start, OpenLock, WriteOwner, OwnerNotWritten, Judge, TakeOver, TimeOut,
                      Sleep, Refuse, Unlock, Goto, At, TypeOK
  <2> QED BY <2>1, <2>2 DEF UpToDate
<1>4. ASSUME NEW p \in Processes, Load(p) PROVE memory'[q] = file' /\ ~torn'
  BY <1>4 DEF Load, Loaded, Readable, logFile, Goto, At, TypeOK, UpToDate
<1>5. ASSUME NEW p \in Processes, AppendLine(p) \/ WriteFails(p)
      PROVE  memory'[q] = file' /\ ~torn'
  <2>1. /\ At(p, "append") /\ alive' = alive /\ pc'[p] = "unlock"
        /\ \A d \in Processes \ {p} : pc'[d] = pc[d]
    BY <1>5 DEF AppendLine, WriteFails, At, Goto, TypeOK
  <2>2. q # p
    BY <2>1 DEF At
  <2> QED BY <1>1, <2>1, <2>2
<1>6. ASSUME NEW p \in Processes, Crash(p) PROVE memory'[q] = file' /\ ~torn'
  <2>1. /\ alive[p] /\ alive' = [alive EXCEPT ![p] = FALSE] /\ UNCHANGED <<file, memory, pc>>
        /\ torn' = torn \/ pc[p] = "append"
    BY <1>6 DEF Crash
  <2>2. q # p /\ At(q, "append")
    BY <2>1 DEF At, TypeOK
  <2>3. CASE pc[p] = "append"
    BY <1>1, <2>1, <2>2, <2>3 DEF At, TypeOK
  <2>4. CASE torn' = torn
    BY <2>1, <2>2, <2>4 DEF UpToDate
  <2> QED BY <2>1, <2>3, <2>4
<1> QED BY <1>2, <1>3, <1>4, <1>5, <1>6 DEF Next, Step

(* Every step adds the next line of one log, tears it, or leaves it.       *)
LEMMA PromiseStep ==
  ASSUME Typed, UpToDate, [Next]_vars
  PROVE  Promise!Next \/ UNCHANGED <<file, torn>>
<1> USE DEF Typed
<1>1. CASE UNCHANGED vars \/ LockAges
  BY <1>1 DEF vars, LockAges, logFile
<1>2. ASSUME NEW p \in Processes,
             \/ Start(p) \/ OpenLock(p) \/ WriteOwner(p) \/ OwnerNotWritten(p) \/ Judge(p)
             \/ TakeOver(p) \/ TimeOut(p) \/ Sleep(p) \/ Load(p) \/ Refuse(p) \/ Unlock(p)
      PROVE  UNCHANGED <<file, torn>>
  BY <1>2 DEF Start, OpenLock, WriteOwner, OwnerNotWritten, Judge, TakeOver, TimeOut, Sleep, Load,
              Refuse, Unlock, logFile
<1>3. ASSUME NEW p \in Processes, Crash(p)
      PROVE  Promise!Next \/ UNCHANGED <<file, torn>>
  BY <1>3 DEF Crash, Promise!Next, Promise!Tear
<1>4. ASSUME NEW p \in Processes, AppendLine(p) \/ WriteFails(p)
      PROVE  Promise!Next \/ UNCHANGED <<file, torn>>
  <2>1. At(p, "append") /\ memory[p] = file /\ ~torn
    BY <1>4 DEF AppendLine, WriteFails, UpToDate
  <2>2. \/ file' = Append(file, Envelope(p)) /\ torn' = torn
        \/ torn' = TRUE /\ file' = file
        \/ UNCHANGED <<file, torn>>
    BY <1>4, <2>1 DEF AppendLine, WriteFails, WriteLine, logFile
  <2>3. <<p, asked[p]>> \in Ids
    BY <2>1 DEF At, Asking, Ids, TypeOK
  <2>4. Envelope(p) = Promise!Link(file, <<p, asked[p]>>)
    BY <2>1 DEF Envelope, Promise!Link
  <2>5. torn \in BOOLEAN
    BY DEF TypeOK
  <2> QED BY <2>1, <2>2, <2>3, <2>4, <2>5 DEF Promise!Next, Promise!Grow, Promise!Tear
<1> QED BY <1>1, <1>2, <1>3, <1>4 DEF Next, Step

(* When the lock file is read in time the store is one hash-linked log     *)
(* that grows line by line until one is torn: it implements AppendOnlyLog. *)
THEOREM OneLogAlways == TimelySpec => OneLog
<1>1. TypeOK /\ Asking /\ Held /\ UpToDate /\ [TimelyNext]_vars
        => Held' /\ UpToDate' /\ [Promise!Next]_<<file, torn>>
  BY HeldStep, UpToDateStep, PromiseStep DEF Typed, TimelyNext
<1>2. Init => Held /\ UpToDate /\ Promise!Init
  BY HeldInit DEF Init, UpToDate, At, Promise!Init
<1> QED BY <1>1, <1>2, TimelyTyped, PTL DEF TimelySpec, TimelyNext, OneLog, Promise!Spec
=============================================================================
