------------------------------ MODULE EventLog ------------------------------
(***************************************************************************)
(* JsonlEventStore: several processes append to one log file under a       *)
(* sibling lock file.  append is synchronous, so a process does one thing  *)
(* at a time, but the system calls of different processes interleave: each *)
(* action is one system call with the code around it.                      *)
(*                                                                         *)
(* A log line keeps its identity, its sequence number and the identity of  *)
(* the line its previous_hash names.  The lock file is removed by its path,*)
(* so whoever unlinks removes the file that is there at that moment.       *)
(***************************************************************************)
EXTENDS Sequences, Integers, FiniteSets

CONSTANTS
    Processes,      \* each with its own pid; one that has not appended yet
                    \* also stands for a restart
    None,
    MaxAppends,     \* appends each process asks for (bound)
    MaxWaits        \* sleeps that fit in lockTimeoutMs (1 s in the code)

ASSUME ProcessAssumption ==
    /\ IsFiniteSet(Processes)
    /\ MaxAppends \in Nat
    /\ MaxWaits \in Nat

ASSUME NoneAssumption == None \notin [owner : Processes, written : BOOLEAN]

VARIABLES
    lock,       \* the lock file: None, or its creator and whether it is written
    old,        \* its age has reached lockStaleMs (5 s in the code)
    file,       \* the complete lines of the log
    torn,       \* the log ends in, or contains, a partial line
    pc,         \* where each process is in append
    alive,
    memory,     \* each process's events as of its last load
    asked,      \* appends started
    waits,      \* sleeps of the current append
    answered    \* ids whose line was written and flushed without an error

vars == <<lock, old, file, torn, pc, alive, memory, asked, waits, answered>>

Ids    == Processes \X (1..MaxAppends)
Steps  == {"idle", "open", "write", "judge", "takeover", "wait", "load", "append", "unlock"}
Line   == [id : Ids, seq : Nat, prev : Ids \cup {None}]

TypeOK ==
    /\ lock \in [owner : Processes, written : BOOLEAN] \cup {None}
    /\ old \in BOOLEAN /\ torn \in BOOLEAN
    /\ file \in Seq(Line)
    /\ pc \in [Processes -> Steps]
    /\ alive \in [Processes -> BOOLEAN]
    /\ memory \in [Processes -> Seq(Line)]
    /\ asked \in [Processes -> 0..MaxAppends]
    /\ waits \in [Processes -> 0..MaxWaits]
    /\ answered \subseteq Ids

Init ==
    /\ lock = None /\ old = FALSE
    /\ file = <<>> /\ torn = FALSE
    /\ pc = [p \in Processes |-> "idle"]
    /\ alive = [p \in Processes |-> TRUE]
    /\ memory = [p \in Processes |-> <<>>]
    /\ asked = [p \in Processes |-> 0]
    /\ waits = [p \in Processes |-> 0]
    /\ answered = {}

logFile  == <<file, torn>>
lockFile == <<lock, old>>

At(p, step)   == alive[p] /\ pc[p] = step
Goto(p, step) == pc' = [pc EXCEPT ![p] = step]

----------------------------------------------------------------------------
(***************************************************************************)
(* #withLock                                                               *)
(***************************************************************************)
Start(p) ==
    /\ At(p, "idle")
    /\ asked[p] < MaxAppends
    /\ asked' = [asked EXCEPT ![p] = @ + 1]
    /\ waits' = [waits EXCEPT ![p] = 0]
    /\ Goto(p, "open")
    /\ UNCHANGED <<lockFile, logFile, alive, memory, answered>>

(* openSync(lockPath, 'wx'): the file is created empty, or EEXIST.         *)
OpenLock(p) ==
    /\ At(p, "open")
    /\ \/ /\ lock = None
          /\ lock' = [owner |-> p, written |-> FALSE]
          /\ old' = FALSE
          /\ Goto(p, "write")
       \/ /\ lock # None
          /\ Goto(p, "judge")
          /\ UNCHANGED lockFile
    /\ UNCHANGED <<logFile, alive, memory, asked, waits, answered>>

(* writeSync of the owner record; it reaches nobody when the path was      *)
(* unlinked in the meantime.                                               *)
WriteOwner(p) ==
    /\ At(p, "write")
    /\ lock' = IF lock # None /\ lock.owner = p THEN [lock EXCEPT !.written = TRUE] ELSE lock
    /\ Goto(p, "load")
    /\ UNCHANGED <<old, logFile, alive, memory, asked, waits, answered>>

(* The owner record cannot be written: the call throws and leaves an empty *)
(* lock file behind.                                                       *)
OwnerNotWritten(p) ==
    /\ At(p, "write")
    /\ Goto(p, "idle")
    /\ UNCHANGED <<lockFile, logFile, alive, memory, asked, waits, answered>>

(* A lock file that is gone or still empty cannot be parsed: no pid, and   *)
(* Date.parse(0) makes it decades old.                                     *)
Unreadable == lock = None \/ ~lock.written

Bug_AgeIsEnough == Unreadable \/ old
Stale == Unreadable \/ (old /\ ~alive[lock.owner])

Judge(p) ==
    /\ At(p, "judge")
    /\ Goto(p, IF Stale THEN "takeover" ELSE "wait")
    /\ UNCHANGED <<lockFile, logFile, alive, memory, asked, waits, answered>>

(* unlinkSync of the path, then `continue`; ENOENT falls through to the    *)
(* timeout check.                                                          *)
TakeOver(p) ==
    /\ At(p, "takeover")
    /\ lock' = None
    /\ old' = FALSE
    /\ Goto(p, IF lock # None THEN "open" ELSE "wait")
    /\ UNCHANGED <<logFile, alive, memory, asked, waits, answered>>

(* event_store_locked: nothing was written.                                *)
TimeOut(p) ==
    /\ At(p, "wait")
    /\ Goto(p, "idle")
    /\ UNCHANGED <<lockFile, logFile, alive, memory, asked, waits, answered>>

Bug_OneSleepTooMany(p) == waits[p] <= MaxWaits
TimeLeft(p) == waits[p] < MaxWaits

Bug_DeadlineRestarts(p) ==
    /\ At(p, "wait")
    /\ Goto(p, "open")
    /\ UNCHANGED <<lockFile, logFile, alive, memory, asked, waits, answered>>

Sleep(p) ==
    /\ At(p, "wait")
    /\ TimeLeft(p)
    /\ waits' = [waits EXCEPT ![p] = @ + 1]
    /\ Goto(p, "open")
    /\ UNCHANGED <<lockFile, logFile, alive, memory, asked, answered>>

----------------------------------------------------------------------------
(***************************************************************************)
(* The operation under the lock                                            *)
(***************************************************************************)
(* validateEnvelopeChain: consecutive numbers, each linked to the one before. *)
Chained(lines) ==
    \A i \in DOMAIN lines :
        /\ lines[i].seq = i
        /\ lines[i].prev = IF i = 1 THEN None ELSE lines[i - 1].id

Bug_OnlyTornRefused == ~torn
Readable == ~torn /\ Chained(file)

(* readJsonlEvents and #replaceMemory, or invalid_event_chain.             *)
Bug_KeepsMemory(p) == IF memory[p] = <<>> THEN file ELSE memory[p]
Loaded(p) == file

Load(p) ==
    /\ At(p, "load")
    /\ \/ /\ Readable
          /\ memory' = [memory EXCEPT ![p] = Loaded(p)]
          /\ Goto(p, "append")
       \/ /\ ~Readable
          /\ Goto(p, "unlock")
          /\ UNCHANGED memory
    /\ UNCHANGED <<lockFile, logFile, alive, asked, waits, answered>>

(* The envelope is numbered and linked by what was loaded.                 *)
Envelope(p) ==
    LET m == memory[p] IN
    [id |-> <<p, asked[p]>>, seq |-> Len(m) + 1,
     prev |-> IF m = <<>> THEN None ELSE m[Len(m)].id]

Bug_RewritesFile(p) == file' = Append(memory[p], Envelope(p))

(* A whole line behind a partial one only makes the partial one longer.    *)
WriteLine(p) == file' = IF torn THEN file ELSE Append(file, Envelope(p))

Push(p) == memory' = [memory EXCEPT ![p] = Append(@, Envelope(p))]

AppendLine(p) ==
    /\ At(p, "append")
    /\ WriteLine(p)
    /\ Push(p)
    /\ answered' = answered \cup {<<p, asked[p]>>}
    /\ Goto(p, "unlock")
    /\ UNCHANGED <<lockFile, torn, alive, asked, waits>>

(* The event is refused by semantic replay.                                *)
Refuse(p) ==
    /\ At(p, "append")
    /\ Goto(p, "unlock")
    /\ UNCHANGED <<lockFile, logFile, alive, memory, asked, waits, answered>>

(* writeSync or fsyncSync throws: memory has the event, the log has it     *)
(* whole, in part or not at all.                                           *)
WriteFails(p) ==
    /\ At(p, "append")
    /\ Push(p)
    /\ \/ UNCHANGED logFile
       \/ WriteLine(p) /\ UNCHANGED torn
       \/ torn' = TRUE /\ UNCHANGED file
    /\ Goto(p, "unlock")
    /\ UNCHANGED <<lockFile, alive, asked, waits, answered>>

(* The finally block: unlinkSync of the path, whosever file is there.      *)
Unlock(p) ==
    /\ At(p, "unlock")
    /\ lock' = None
    /\ old' = FALSE
    /\ Goto(p, "idle")
    /\ UNCHANGED <<logFile, alive, memory, asked, waits, answered>>

----------------------------------------------------------------------------
(***************************************************************************)
(* The environment                                                         *)
(***************************************************************************)
LockAges ==
    /\ lock # None /\ ~old
    /\ old' = TRUE
    /\ UNCHANGED <<lock, logFile, pc, alive, memory, asked, waits, answered>>

(* A process dies anywhere in append, perhaps in the middle of its line.   *)
Crash(p) ==
    /\ alive[p] /\ pc[p] # "idle"
    /\ alive' = [alive EXCEPT ![p] = FALSE]
    /\ \/ UNCHANGED torn
       \/ pc[p] = "append" /\ torn' = TRUE
    /\ UNCHANGED <<lockFile, file, pc, memory, asked, waits, answered>>

Step(p) ==
    \/ OpenLock(p) \/ WriteOwner(p) \/ OwnerNotWritten(p)
    \/ Judge(p) \/ TakeOver(p) \/ TimeOut(p) \/ Sleep(p)
    \/ Load(p) \/ AppendLine(p) \/ Refuse(p) \/ WriteFails(p) \/ Unlock(p)

Next ==
    \/ \E p \in Processes : Start(p) \/ Step(p) \/ Crash(p)
    \/ LockAges

Spec == Init /\ [][Next]_vars

(* A live process goes on with its append: it is one synchronous call.     *)
FairSpec == Spec /\ \A p \in Processes : WF_vars(Step(p))

----------------------------------------------------------------------------
(***************************************************************************)
(* Properties                                                              *)
(***************************************************************************)
Prefix(n)    == SubSeq(file, 1, n)
Writer(line) == line.id[1]

(* Even when two processes append at once, every line that reached the log *)
(* continues a chained prefix of it, and what was answered is in the log   *)
(* (or swallowed by a torn line): a fork hides nothing and rewrites nothing. *)
LinesExtendTheLog ==
    /\ \A i \in DOMAIN file :
         LET n == file[i].seq - 1 IN
         /\ n \in 0..(i - 1)
         /\ Chained(Prefix(n))
         /\ file[i].prev = IF n = 0 THEN None ELSE file[n].id
    /\ torn \/ \A id \in answered : \E i \in DOMAIN file : file[i].id = id

(* A broken chain stops the store: behind the last good line each process  *)
(* adds at most one, the append for which it had read the log before.      *)
DamageIsContained ==
    \A n \in 0..(Len(file) - 1) :
        Chained(Prefix(n)) /\ ~Chained(Prefix(n + 1)) =>
            \A i, j \in (n + 1)..Len(file) :
                Writer(file[i]) = Writer(file[j]) => i = j

(* No append hangs: with a dead owner, a live owner or a lock nobody will  *)
(* ever release, each one returns or throws unless its process dies.       *)
AppendsEnd ==
    \A p \in Processes : pc[p] # "idle" ~> (pc[p] = "idle" \/ ~alive[p])

(* Why no append hangs, however many processes fight over the lock file.   *)
(* The creations of a lock file still to come (Openings) are used up and   *)
(* never come back, and while none is used a removed file stays removed;   *)
(* a process that neither sees one used nor removes the file has slept     *)
(* once more before its deadline or gone forward in withLock, and none of  *)
(* the others ever sets it back.                                           *)
Trying == {"open", "judge", "takeover", "wait"}

Openings == {id \in Ids : \/ id[2] > asked[id[1]]
                          \/ id[2] = asked[id[1]] /\ pc[id[1]] \in Trying}

ToGo == [open |-> 8, judge |-> 7, takeover |-> 6, wait |-> 5,
         write |-> 4, load |-> 3, append |-> 2, unlock |-> 1, idle |-> 0]

OpeningUsed == Openings' # Openings
FileRemoved == lock # None /\ lock' = None

GoesForward(p) ==
    \/ waits'[p] > waits[p]
    \/ waits'[p] = waits[p] /\ ToGo[pc'[p]] < ToGo[pc[p]]

AppendProgress ==
    [][ /\ Openings' \subseteq Openings
        /\ ~OpeningUsed /\ lock = None => lock' = None
        /\ \A p \in Processes : pc[p] # "idle" =>
              \/ pc'[p] = pc[p] /\ waits'[p] = waits[p]
              \/ OpeningUsed \/ FileRemoved \/ GoesForward(p) ]_vars

(* "live or ambiguous locks fail closed": never two processes at once in   *)
(* the operation the lock protects.                                        *)
Inside == {p \in Processes : alive[p] /\ pc[p] \in {"load", "append"}}
SingleHolder == Cardinality(Inside) <= 1

(* The store implements AppendOnlyLog, seen through the log file.          *)
Promise == INSTANCE AppendOnlyLog WITH log <- file
OneLog  == Promise!Spec
=============================================================================
