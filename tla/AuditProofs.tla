---------------------------- MODULE AuditProofs ----------------------------
(***************************************************************************)
(* What an audit's PASS, left-over files and packets are worth, for any    *)
(* number of runs, files, releases and edits.  The argument: a step of one *)
(* actor while another is at work ends the calm, so in the calm what a run *)
(* at work has read or written is still as it left it (InRun, ReadSoFar).  *)
(***************************************************************************)
EXTENDS Audit, TLAPS

(* A run's step: its own counters, no one else's; and in a calm that lasts *)
(* no one else is at work.                                                 *)
LEMMA RunStep ==
  ASSUME TypeOK, NEW r \in Runs, RunAudit(r)
  PROVE  /\ UNCHANGED <<installed, lock, sync, tree, option, check, passed>>
         /\ \A s \in Runs \ {r} : pc'[s] = pc[s] /\ begun'[s] = begun[s] /\ packet'[s] = packet[s]
         /\ calm' => calm
         /\ \/ calm' => check.at = "idle" /\ \A s \in Runs \ {r} : ~AtWork(s)
            \/ pc' = [pc EXCEPT ![r] = "stopped"] /\ AtWork(r)
                 /\ UNCHANGED <<begun, packet, outputs, receipts>>
<1>1. CASE Stop(r)
  BY <1>1 DEF Stop, TypeOK, snapshot, ghost
<1>2. CASE ~Stop(r)
  <2>1. /\ UNCHANGED <<installed, lock, sync, tree, option, check, passed>>
        /\ \A s \in Runs \ {r} : pc'[s] = pc[s] /\ begun'[s] = begun[s] /\ packet'[s] = packet[s]
    BY <1>2 DEF RunAudit, Begin, CollectGitBinding, RunKitAdapter, Pack, WriteAar, Sign,
                SelfVerify, WriteSignature, Report, Goes, snapshot, ghost, TypeOK
  <2>2. Stays(r)
    BY <1>2 DEF RunAudit, Begin, CollectGitBinding, RunKitAdapter, Pack, WriteAar, Sign,
                SelfVerify, WriteSignature, Report, Goes
  <2>3. ASSUME calm' PROVE calm /\ check.at = "idle" /\ \A s \in Runs \ {r} : ~AtWork(s)
    <3>1. calm /\ Busy \subseteq {r}
      BY <2>2, <2>3 DEF Stays
    <3>2. check.at # "idle" => "verify" \in Busy
      BY DEF Busy
    <3>3. \A s \in Runs : AtWork(s) => s \in Busy
      BY DEF Busy
    <3> QED BY <3>1, <3>2, <3>3, RunsAssumption
  <2> QED BY <2>1, <2>3
<1> QED BY <1>1, <1>2

LEMMA VerifyStep ==
  ASSUME VerifyAudit
  PROVE  /\ UNCHANGED <<installed, lock, sync, tree, pc, option, begun, packet, outputs, receipts>>
         /\ calm' => calm
         /\ calm' => \A r \in Runs : ~AtWork(r)
<1>1. UNCHANGED <<installed, lock, sync, tree, pc, option, begun, packet, outputs, receipts>>
  BY DEF VerifyAudit, VerifyReadsAar, VerifyReadsEvidence, VerifyRunsTool, snapshot, local, ghost
<1>2. Stays("verify")
  BY DEF VerifyAudit, VerifyReadsAar, VerifyReadsEvidence, VerifyRunsTool
<1>3. \A r \in Runs : AtWork(r) => r \in Busy
  BY DEF Busy
<1> QED BY <1>1, <1>2, <1>3, RunsAssumption DEF Stays

(* A sync or an edit touches the snapshot and the tree only, and in a calm *)
(* that lasts only while no run is at work.                                *)
LEMMA OutsideStep ==
  ASSUME Sync \/ Edit
  PROVE  /\ UNCHANGED <<pc, option, begun, packet, outputs, check, passed, receipts>>
         /\ calm' => calm
         /\ \/ UNCHANGED <<installed, lock, tree>>
            \/ calm' => \A r \in Runs : ~AtWork(r)
<1>1. CASE Edit
  BY <1>1 DEF Edit, local, ghost
<1>2. CASE Sync
  <2>1. UNCHANGED <<pc, option, begun, packet, outputs, check, passed, receipts>>
    BY <1>2 DEF Sync, SyncStart, RemoveExtra, WriteFile, WriteLock, SyncStops, SyncUnchanged,
                local, ghost
  <2>2. CASE SyncStops
    BY <2>1, <2>2 DEF SyncStops, SyncUnchanged
  <2>3. CASE ~SyncStops
    <3>1. Stays("sync")
      BY <1>2, <2>3 DEF Sync, SyncStart, RemoveExtra, WriteFile, WriteLock
    <3>2. \A r \in Runs : AtWork(r) => r \in Busy
      BY DEF Busy
    <3> QED BY <2>1, <3>1, <3>2, RunsAssumption DEF Stays
  <2> QED BY <2>2, <2>3
<1> QED BY <1>1, <1>2

----------------------------------------------------------------------------
(* Types, and what a run or a verification finds when it gets there.       *)
Ready ==
    /\ \A r \in Runs :
         /\ pc[r] \in {"bind", "score", "pack"} => begun[r].lock \in Releases
         /\ pc[r] = "sign" => aar.run # None
    /\ check.at # "idle" => check.run # None
    /\ check.at = "tool" => check.about # None

Typed == TypeOK /\ Ready

LEMMA TypedStep == ASSUME Typed, [Next]_vars PROVE Typed'
<1> USE DEF Typed
<1>1. CASE UNCHANGED vars
  BY <1>1 DEF vars, snapshot, local, outputs, ghost, TypeOK, Ready
<1>2. ASSUME NEW r \in Runs, Begin(r) PROVE Typed'
  <2>1. begun' \in [Runs -> [lock : Releases \cup {None}, tree : 0..MaxTree]]
    BY <1>2 DEF Begin, TypeOK
  <2>2. begun'[r].lock \in Releases /\ \A s \in Runs \ {r} : begun'[s] = begun[s]
    BY <1>2 DEF Begin, TypeOK
  <2> QED BY <1>2, <2>1, <2>2 DEF Begin, Goes, Stays, TypeOK, Ready, Steps, snapshot,
                                  outputs, ghost
<1>3. ASSUME NEW r \in Runs, CollectGitBinding(r) PROVE Typed'
  <2>1. begun' \in [Runs -> [lock : Releases \cup {None}, tree : 0..MaxTree]]
    BY <1>3 DEF CollectGitBinding, TypeOK
  <2>2. begun'[r].lock = begun[r].lock /\ \A s \in Runs \ {r} : begun'[s] = begun[s]
    BY <1>3 DEF CollectGitBinding, TypeOK
  <2> QED BY <1>3, <2>1, <2>2 DEF CollectGitBinding, Goes, Stays, TypeOK, Ready, Steps,
                                  snapshot, outputs, ghost
<1>4. ASSUME NEW r \in Runs, RunKitAdapter(r) PROVE Typed'
  <2>1. score' \in Scores \cup {None}
    BY <1>4 DEF RunKitAdapter, Scores, TypeOK
  <2> QED BY <1>4, <2>1 DEF RunKitAdapter, Goes, Stays, TypeOK, Ready, Steps, snapshot, ghost
<1>5. ASSUME NEW r \in Runs, Pack(r) PROVE Typed'
  <2>1. packet'[r] \in Packets /\ packet'[r] # None /\ packet' \in [Runs -> Packets \cup {None}]
    BY <1>5, PacketAssumption DEF Pack, Packets, TypeOK, Ready
  <2> QED BY <1>5, <2>1 DEF Pack, Stays, TypeOK, Ready, Steps, snapshot, ghost
<1>6. ASSUME NEW r \in Runs, WriteAar(r) PROVE Typed'
  BY <1>6, RunsAssumption DEF WriteAar, Goes, Stays, TypeOK, Ready, Steps, snapshot, ghost
<1>7. ASSUME NEW r \in Runs, Sign(r) PROVE Typed'
  <2>1. option[r].key \in {"fits", "other"}
    BY OptionsAssumption DEF TypeOK
  <2>2. aar' \in [run : Runs \cup {None}, key : {"none", "fits", "other"}]
    BY <1>7, <2>1 DEF Sign, TypeOK
  <2>3. receipts' \subseteq Runs
    <3>1. CASE option[r].key # "fits"
      BY <1>7, <3>1 DEF Sign, TypeOK
    <3>2. CASE option[r].key = "fits"
      <4>1. aar.run \in Runs
        BY <1>7 DEF Sign, Goes, TypeOK, Ready
      <4> QED BY <1>7, <3>2, <4>1 DEF Sign, TypeOK
    <3> QED BY <3>1, <3>2
  <2> QED BY <1>7, <2>2, <2>3 DEF Sign, Goes, Stays, TypeOK, Ready, Steps, snapshot
<1>8. ASSUME NEW r \in Runs, SelfVerify(r) PROVE Typed'
  BY <1>8 DEF SelfVerify, Goes, Stays, TypeOK, Ready, Steps, snapshot, outputs, ghost
<1>9. ASSUME NEW r \in Runs, WriteSignature(r) PROVE Typed'
  BY <1>9 DEF WriteSignature, Goes, Stays, TypeOK, Ready, Steps, snapshot, ghost
<1>10. ASSUME NEW r \in Runs, Report(r) PROVE Typed'
  BY <1>10 DEF Report, Goes, Stays, TypeOK, Ready, Steps, snapshot, ghost
<1>11. ASSUME NEW r \in Runs, Stop(r) PROVE Typed'
  BY <1>11 DEF Stop, Stays, TypeOK, Ready, Steps, snapshot, outputs, ghost
<1>12. CASE VerifyAudit
  <2> DEFINE Checks == [at : {"idle", "evidence", "tool"}, run : Runs \cup {None},
                        about : Runs \cup {None}]
  <2>1. /\ check' \in Checks
        /\ check'.at # "idle" => check'.run # None
        /\ check'.at = "tool" => check'.about # None
        /\ passed' \subseteq Runs
    <3>1. CASE VerifyReadsAar
      BY <3>1 DEF VerifyReadsAar, TypeOK, ghost
    <3>2. CASE VerifyReadsEvidence
      <4>1. passed' = passed /\ check.run # None /\ check \in Checks
        BY <3>2 DEF VerifyReadsEvidence, TypeOK, Ready, ghost
      <4>2. CASE check' = NoCheck
        BY <4>1, <4>2 DEF NoCheck, TypeOK
      <4>3. CASE check' = [check EXCEPT !.at = "tool", !.about = evidence] /\ evidence = check.run
        BY <4>1, <4>3 DEF TypeOK
      <4> QED BY <3>2, <4>2, <4>3 DEF VerifyReadsEvidence, Commits
    <3>3. CASE VerifyRunsTool
      BY <3>3 DEF VerifyRunsTool, TypeOK, Ready, NoCheck
    <3> QED BY <1>12, <3>1, <3>2, <3>3 DEF VerifyAudit
  <2>2. calm' \in BOOLEAN
    BY <1>12 DEF VerifyAudit, VerifyReadsAar, VerifyReadsEvidence, VerifyRunsTool, Stays
  <2> QED BY <1>12, <2>1, <2>2, VerifyStep DEF TypeOK, Ready, outputs
<1>13. CASE Sync \/ Edit
  <2>1. installed' \in Kits
    <3>1. ASSUME NEW f \in Files, NEW v \in Contents, installed' = [installed EXCEPT ![f] = v]
          PROVE  installed' \in Kits
      BY <3>1 DEF TypeOK, Kits
    <3>2. None \in Contents
      BY DEF Contents
    <3>3. sync # None => \A f \in Files : Generated[sync][f] \in Contents
      BY GeneratedAssumption DEF TypeOK, Kits
    <3> QED BY <1>13, <3>1, <3>2, <3>3
            DEF Sync, Edit, SyncStart, RemoveExtra, WriteFile, WriteLock, SyncStops, snapshot,
                TypeOK
  <2>2. lock' \in Releases /\ sync' \in Releases \cup {None} /\ calm' \in BOOLEAN
    BY <1>13 DEF Sync, Edit, SyncStart, RemoveExtra, WriteFile, WriteLock, SyncStops, snapshot,
                 Stays, TypeOK
  <2>3. tree' \in 0..MaxTree
    <3>1. CASE Edit
      BY <3>1, TreeAssumption DEF Edit, TypeOK
    <3>2. CASE Sync
      BY <3>2 DEF Sync, SyncStart, RemoveExtra, WriteFile, WriteLock, SyncStops, SyncUnchanged,
                  TypeOK
    <3> QED BY <1>13, <3>1, <3>2
  <2> QED BY <1>13, <2>1, <2>2, <2>3, OutsideStep DEF TypeOK, Ready, outputs
<1> QED
  BY <1>1, <1>2, <1>3, <1>4, <1>5, <1>6, <1>7, <1>8, <1>9, <1>10, <1>11, <1>12, <1>13
  DEF Next, RunAudit

(* The audit is well typed, for any runs, releases and options.            *)
THEOREM TypeCorrect == Spec => [](TypeOK /\ Ready)
<1>1. Init => TypeOK /\ Ready
  <2> SUFFICES ASSUME Init PROVE TypeOK /\ Ready
    OBVIOUS
  <2>1. installed \in Kits /\ 0 \in 0..MaxTree
    BY GeneratedAssumption, ReleaseAssumption, TreeAssumption DEF Init
  <2> QED BY <2>1, ReleaseAssumption DEF Init, TypeOK, Ready, Steps, NoAar, NoCheck
<1>2. TypeOK /\ Ready /\ [Next]_vars => (TypeOK /\ Ready)'
  BY TypedStep DEF Typed
<1> QED BY <1>1, <1>2, PTL DEF Spec

----------------------------------------------------------------------------
(* A receipt that exists, or that a verification has read, claims no more  *)
(* independence than its run may; one signed with a fitting key is in      *)
(* `receipts`; and in the calm a verification still sees what it read.     *)
Claims ==
    /\ aar.run # None => Independent(option[aar.run])
    /\ check.at # "idle" => check.run \in Runs /\ Independent(option[check.run])
    /\ check.at = "tool" => check.about = check.run
    /\ aar.run # None /\ aar.key = "fits" => aar.run \in receipts
    /\ calm /\ check.at # "idle" => aar.run = check.run

LEMMA ClaimsStep ==
  ASSUME Typed, Claims, PassIsEarned, [Next]_vars
  PROVE  Claims' /\ PassIsEarned'
<1>1. CASE UNCHANGED vars
  BY <1>1 DEF vars, local, outputs, ghost, Claims, PassIsEarned, Independent
<1>2. ASSUME NEW r \in Runs, RunAudit(r), UNCHANGED <<aar, receipts>>
      PROVE  Claims' /\ PassIsEarned'
  BY <1>2, RunStep DEF Typed, Claims, PassIsEarned, Independent
<1>3. ASSUME NEW r \in Runs, WriteAar(r) PROVE Claims' /\ PassIsEarned'
  <2>1. RunAudit(r)
    BY <1>3 DEF RunAudit
  <2>2. /\ Independent(option[r]) /\ aar' = [run |-> r, key |-> "none"]
        /\ UNCHANGED <<option, check, passed, receipts>>
        /\ calm' => calm /\ check.at = "idle"
    BY <1>3, <2>1, RunStep DEF WriteAar, Goes, Typed, ghost, AtWork, TypeOK
  <2> QED BY <2>2 DEF Claims, PassIsEarned, Independent
<1>4. ASSUME NEW r \in Runs, Sign(r) PROVE Claims' /\ PassIsEarned'
  <2>1. RunAudit(r)
    BY <1>4 DEF RunAudit
  <2>2. /\ aar'.run = aar.run /\ aar'.key = option[r].key
        /\ receipts \subseteq receipts'
        /\ option[r].key = "fits" => aar.run \in receipts'
    BY <1>4 DEF Sign, Typed, TypeOK
  <2>3. UNCHANGED <<option, check, passed>> /\ (calm' => calm)
    BY <1>4, <2>1, RunStep DEF Typed
  <2> QED BY <2>2, <2>3 DEF Claims, PassIsEarned, Independent
<1>5. CASE VerifyAudit
  <2>1. UNCHANGED <<option, aar, receipts>> /\ (calm' => calm)
    BY <1>5, VerifyStep DEF outputs
  <2>2. CASE VerifyReadsAar
    BY <2>1, <2>2 DEF VerifyReadsAar, Claims, PassIsEarned, Independent, ghost, Typed, TypeOK
  <2>3. CASE VerifyReadsEvidence
    BY <2>1, <2>3 DEF VerifyReadsEvidence, Commits, NoCheck, Claims, PassIsEarned, Independent,
                      ghost, Typed, TypeOK
  <2>4. CASE VerifyRunsTool
    <3>1. passed' \subseteq passed \cup {check.about} /\ check' = NoCheck
      BY <2>4 DEF VerifyRunsTool
    <3>2. check.about \in passed' \ passed => ToolAccepts
      BY <2>4 DEF VerifyRunsTool
    <3>3. check.at = "tool"
      BY <2>4 DEF VerifyRunsTool
    <3> QED BY <2>1, <3>1, <3>2, <3>3 DEF ToolAccepts, NoCheck, Claims, PassIsEarned, Independent
  <2> QED BY <1>5, <2>2, <2>3, <2>4 DEF VerifyAudit
<1>6. CASE Sync \/ Edit
  <2>1. UNCHANGED <<option, aar, check, passed, receipts>> /\ (calm' => calm)
    BY <1>6, OutsideStep DEF outputs
  <2> QED BY <2>1 DEF Claims, PassIsEarned, Independent
<1>7. ASSUME NEW r \in Runs, RunAudit(r), ~WriteAar(r), ~Sign(r) PROVE UNCHANGED <<aar, receipts>>
  BY <1>7 DEF RunAudit, Begin, CollectGitBinding, RunKitAdapter, Pack, SelfVerify,
              WriteSignature, Report, Stop, outputs, ghost
<1> QED BY <1>1, <1>2, <1>3, <1>4, <1>5, <1>6, <1>7 DEF Next

(* PASS is earned (aarRecord, verifyAudit): never without the right to the *)
(* claim, and in the calm never without an own fitting signature.          *)
THEOREM PassIsEarnedAlways == Spec => []PassIsEarned
<1>1. Init => Claims /\ PassIsEarned
  BY DEF Init, NoAar, NoCheck, Claims, PassIsEarned
<1>2. TypeOK /\ Ready /\ Claims /\ PassIsEarned /\ [Next]_vars => (Claims /\ PassIsEarned)'
  BY ClaimsStep DEF Typed
<1> QED BY <1>1, <1>2, TypeCorrect, PTL DEF Spec

----------------------------------------------------------------------------
(* What a run at work has read is still so, in the calm.                   *)
ReadSoFar ==
    calm => \A r \in Runs :
        /\ pc[r] \in {"bind", "score", "pack"} =>
              begun[r].lock = lock /\ EnsureSnapshotIntegrity
        /\ pc[r] \in {"score", "pack"} => begun[r].tree = tree
        /\ pc[r] = "pack" /\ option[r].cwd = "plain" =>
              score = [tree |-> tree, kit |-> installed]

LEMMA PacketStep ==
  ASSUME Typed, Typed', ReadSoFar, PacketIsOneMoment, [Next]_vars
  PROVE  ReadSoFar' /\ PacketIsOneMoment'
<1>1. ASSUME packet' = packet, option' = option, calm' => calm
      PROVE  PacketIsOneMoment'
  BY <1>1 DEF PacketIsOneMoment
<1>2. ASSUME calm' => calm, calm' => \A s \in Runs : ~AtWork(s), pc' = pc
      PROVE  ReadSoFar'
  BY <1>2 DEF ReadSoFar, AtWork
<1>3. CASE UNCHANGED vars
  BY <1>3 DEF vars, snapshot, local, outputs, ReadSoFar, PacketIsOneMoment,
              EnsureSnapshotIntegrity, Intact
<1>4. CASE VerifyAudit
  BY <1>1, <1>2, <1>4, VerifyStep
<1>5. CASE Sync \/ Edit
  <2>1. CASE UNCHANGED <<installed, lock, tree>>
    BY <1>1, <1>5, <2>1, OutsideStep DEF ReadSoFar, EnsureSnapshotIntegrity, Intact, outputs
  <2>2. CASE calm' => \A r \in Runs : ~AtWork(r)
    BY <1>1, <1>2, <1>5, <2>2, OutsideStep
  <2> QED BY <1>5, <2>1, <2>2, OutsideStep
<1>6. ASSUME NEW r \in Runs, RunAudit(r),
             calm' => \/ pc'[r] \notin {"bind", "score", "pack"}
                      \/ /\ begun'[r].lock = lock /\ EnsureSnapshotIntegrity
                         /\ pc'[r] \in {"score", "pack"} => begun'[r].tree = tree
                         /\ pc'[r] = "pack" /\ option[r].cwd = "plain" =>
                              score' = [tree |-> tree, kit |-> installed],
             pc'[r] # "stopped"
      PROVE  ReadSoFar'
  <2> SUFFICES ASSUME calm' PROVE ReadSoFar'
    BY DEF ReadSoFar
  <2>1. /\ UNCHANGED <<installed, lock, tree, option>>
        /\ \A s \in Runs \ {r} : ~AtWork(s) /\ pc'[s] = pc[s]
    BY <1>6, RunStep DEF Typed, TypeOK
  <2>2. EnsureSnapshotIntegrity' <=> EnsureSnapshotIntegrity
    BY <2>1 DEF EnsureSnapshotIntegrity, Intact
  <2> QED BY <1>6, <2>1, <2>2 DEF ReadSoFar, AtWork
<1>7. ASSUME NEW r \in Runs, Stop(r) PROVE ReadSoFar' /\ PacketIsOneMoment'
  BY <1>7 DEF Stop, snapshot, outputs, ReadSoFar, PacketIsOneMoment, EnsureSnapshotIntegrity,
              Intact, Typed, TypeOK
<1>8. ASSUME NEW r \in Runs, RunAudit(r), ~Stop(r), ~Pack(r) PROVE PacketIsOneMoment'
  <2>1. packet' = packet
    BY <1>8 DEF RunAudit, Begin, CollectGitBinding, RunKitAdapter, WriteAar, Sign, SelfVerify,
                WriteSignature, Report
  <2> QED BY <1>1, <1>8, <2>1, RunStep DEF Typed
<1>9. ASSUME NEW r \in Runs, Begin(r) PROVE ReadSoFar'
  <2>1. begun'[r].lock = lock /\ pc'[r] = "bind" /\ EnsureSnapshotIntegrity /\ RunAudit(r)
    BY <1>9 DEF Begin, Goes, Typed, TypeOK, RunAudit
  <2> QED BY <1>6, <2>1
<1>10. ASSUME NEW r \in Runs, CollectGitBinding(r) PROVE ReadSoFar'
  <2>1. /\ begun'[r].lock = begun[r].lock /\ begun'[r].tree = tree /\ pc[r] = "bind"
        /\ pc'[r] = "score" /\ RunAudit(r) /\ (calm' => calm)
    BY <1>10 DEF CollectGitBinding, Goes, Stays, Typed, TypeOK, RunAudit
  <2> QED BY <1>6, <2>1 DEF ReadSoFar
<1>11. ASSUME NEW r \in Runs, RunKitAdapter(r) PROVE ReadSoFar'
  <2>1. /\ begun' = begun /\ pc[r] = "score"
        /\ option[r].cwd = "plain" => score' = [tree |-> tree, kit |-> installed]
        /\ pc'[r] = "pack" /\ RunAudit(r) /\ (calm' => calm)
    BY <1>11 DEF RunKitAdapter, Goes, Stays, Typed, TypeOK, RunAudit
  <2> QED BY <1>6, <2>1 DEF ReadSoFar
<1>12. ASSUME NEW r \in Runs,
              \/ Pack(r) \/ WriteAar(r) \/ Sign(r) \/ SelfVerify(r) \/ WriteSignature(r)
              \/ Report(r)
       PROVE  ReadSoFar'
  <2>1. pc'[r] \notin {"bind", "score", "pack", "stopped"} /\ RunAudit(r)
    BY <1>12 DEF Pack, WriteAar, Sign, SelfVerify, WriteSignature, Report, Goes, Typed, TypeOK,
                 RunAudit
  <2> QED BY <1>6, <2>1
<1>13. ASSUME NEW r \in Runs, Pack(r) PROVE PacketIsOneMoment'
  <2> SUFFICES ASSUME calm', NEW s \in Runs, packet'[s] # None
               PROVE  /\ packet'[s].checked = packet'[s].lock
                      /\ option[s].cwd = "plain" =>
                           /\ packet'[s].score.tree = packet'[s].tree
                           /\ packet'[s].score.kit # None
                           /\ \A f \in Files : Generated[packet'[s].lock][f] # None =>
                                 packet'[s].score.kit[f] = Generated[packet'[s].lock][f]
    BY <1>13 DEF Pack, PacketIsOneMoment
  <2>1. calm
    BY <1>13 DEF Pack, Stays
  <2>2. CASE s # r
    BY <1>13, <2>1, <2>2 DEF Pack, Typed, TypeOK, PacketIsOneMoment
  <2>3. CASE s = r
    <3>1. packet'[r] = [tree |-> begun[r].tree, score |-> score, checked |-> begun[r].lock,
                        lock |-> lock]
      BY <1>13 DEF Pack, Typed, TypeOK
    <3>2. /\ begun[r].tree = tree /\ begun[r].lock = lock /\ EnsureSnapshotIntegrity
          /\ option[r].cwd = "plain" => score = [tree |-> tree, kit |-> installed]
      BY <1>13, <2>1 DEF Pack, ReadSoFar
    <3>3. installed # None
      BY KitsAssumption DEF Typed, TypeOK
    <3> QED BY <2>3, <3>1, <3>2, <3>3 DEF EnsureSnapshotIntegrity, Intact
  <2> QED BY <2>2, <2>3
<1> QED
  BY <1>3, <1>4, <1>5, <1>7, <1>8, <1>9, <1>10, <1>11, <1>12, <1>13 DEF Next, RunAudit

(* A packet is of one moment (runAudit against edits and                   *)
(* sync-audit-snapshots.mjs), for any number of files and releases.        *)
THEOREM PacketIsOneMomentAlways == Spec => []PacketIsOneMoment
<1>1. Init => ReadSoFar /\ PacketIsOneMoment
  BY DEF Init, ReadSoFar, PacketIsOneMoment
<1>2. /\ TypeOK /\ Ready /\ (TypeOK /\ Ready)' /\ ReadSoFar /\ PacketIsOneMoment /\ [Next]_vars
      => (ReadSoFar /\ PacketIsOneMoment)'
  BY PacketStep DEF Typed
<1> QED BY <1>1, <1>2, TypeCorrect, PTL DEF Spec

----------------------------------------------------------------------------
(* A run signs and reports once; and in the calm the evidence and the      *)
(* receipt of a run that is past them are still its own.                   *)
Once == \A r \in Runs :
    /\ signature = r => pc[r] \in {"report", "done", "stopped"}
    /\ report.run = r => pc[r] = "done"

StillOwn ==
    calm => \A r \in Runs :
        /\ pc[r] \in {"aar", "sign", "verify", "signature", "report"} => evidence = r
        /\ pc[r] \in {"sign", "verify", "signature"} => aar.run = r
        /\ pc[r] = "signature" => ToolAccepts
        /\ pc[r] = "report" /\ option[r].signing # "none" => aar.run = r /\ ToolAccepts
        /\ pc[r] \in {"aar", "sign", "verify", "signature"} => option[r].signing # "none"

LEMMA StaleStep ==
  ASSUME Typed, Typed', Once, StillOwn, StalePassIsVisible, [Next]_vars
  PROVE  Once' /\ StillOwn' /\ StalePassIsVisible'
<1>1. ASSUME UNCHANGED <<pc, option, outputs>>, calm' => calm
      PROVE  Once' /\ StillOwn' /\ StalePassIsVisible'
  BY <1>1 DEF outputs, Once, StillOwn, StalePassIsVisible, ToolAccepts
<1>2. CASE UNCHANGED vars
  BY <1>1, <1>2 DEF vars, local
<1>3. CASE VerifyAudit
  BY <1>1, <1>3, VerifyStep
<1>4. CASE Sync \/ Edit
  BY <1>1, <1>4, OutsideStep
<1>5. ASSUME NEW r \in Runs, Stop(r) PROVE Once' /\ StillOwn' /\ StalePassIsVisible'
  BY <1>5 DEF Stop, AtWork, outputs, Once, StillOwn, StalePassIsVisible, ToolAccepts, Typed, TypeOK
<1>6. ASSUME NEW r \in Runs, RunAudit(r), ~Stop(r)
      PROVE  /\ UNCHANGED option /\ (calm' => calm)
             /\ \A s \in Runs \ {r} : pc'[s] = pc[s] /\ (calm' => ~AtWork(s))
  BY <1>6, RunStep DEF Typed, RunAudit, Begin, CollectGitBinding, RunKitAdapter, Pack, WriteAar,
                       Sign, SelfVerify, WriteSignature, Report, Goes, TypeOK
<1>7. ASSUME NEW r \in Runs, Begin(r) \/ CollectGitBinding(r) \/ RunKitAdapter(r)
      PROVE  Once' /\ StillOwn' /\ StalePassIsVisible'
  <2>1. /\ UNCHANGED <<option, evidence, aar, signature, report>>
        /\ pc[r] \in {"begin", "bind", "score"} /\ pc'[r] \in {"bind", "score", "pack"}
        /\ \A s \in Runs \ {r} : pc'[s] = pc[s] /\ (calm' => ~AtWork(s))
        /\ calm' => calm
    BY <1>6, <1>7 DEF Begin, CollectGitBinding, RunKitAdapter, Goes, outputs, RunAudit, Stop,
                      Typed, TypeOK
  <2> QED BY <2>1 DEF Once, StillOwn, StalePassIsVisible, ToolAccepts, AtWork
<1>8. ASSUME NEW r \in Runs, Pack(r) PROVE Once' /\ StillOwn' /\ StalePassIsVisible'
  <2>1. /\ UNCHANGED option /\ (calm' => calm)
        /\ \A s \in Runs \ {r} : pc'[s] = pc[s] /\ (calm' => ~AtWork(s))
    <3>1. RunAudit(r)
      BY <1>8 DEF RunAudit
    <3>2. ~Stop(r)
      BY <1>8 DEF Pack, Goes, Stop, Typed, TypeOK
    <3> QED BY <1>6, <3>1, <3>2
  <2>2. /\ UNCHANGED <<aar, signature, report>> /\ evidence' = r /\ pc[r] = "pack"
        /\ pc'[r] = IF option[r].signing = "none" THEN "report" ELSE "aar"
    BY <1>8 DEF Pack, Goes, Typed, TypeOK
  <2> QED BY <2>1, <2>2 DEF Once, StillOwn, StalePassIsVisible, ToolAccepts, AtWork
<1>9. ASSUME NEW r \in Runs, WriteAar(r) PROVE Once' /\ StillOwn' /\ StalePassIsVisible'
  <2>1. /\ UNCHANGED option /\ (calm' => calm)
        /\ \A s \in Runs \ {r} : pc'[s] = pc[s] /\ (calm' => ~AtWork(s))
    <3>1. RunAudit(r)
      BY <1>9 DEF RunAudit
    <3>2. ~Stop(r)
      BY <1>9 DEF WriteAar, Goes, Stop, Typed, TypeOK
    <3> QED BY <1>6, <3>1, <3>2
  <2>2. /\ UNCHANGED <<evidence, signature, report>> /\ aar'.run = r
        /\ pc[r] = "aar" /\ pc'[r] = "sign"
    BY <1>9 DEF WriteAar, Goes, Typed, TypeOK
  <2> QED BY <2>1, <2>2, RunsAssumption DEF Once, StillOwn, StalePassIsVisible, ToolAccepts, AtWork
<1>10. ASSUME NEW r \in Runs, Sign(r) PROVE Once' /\ StillOwn' /\ StalePassIsVisible'
  <2>1. /\ UNCHANGED option /\ (calm' => calm)
        /\ \A s \in Runs \ {r} : pc'[s] = pc[s] /\ (calm' => ~AtWork(s))
    <3>1. RunAudit(r)
      BY <1>10 DEF RunAudit
    <3>2. ~Stop(r)
      BY <1>10 DEF Sign, Goes, Stop, Typed, TypeOK
    <3> QED BY <1>6, <3>1, <3>2
  <2>2. /\ UNCHANGED <<evidence, signature, report>> /\ aar'.run = aar.run
        /\ pc[r] = "sign" /\ pc'[r] = "verify"
    BY <1>10 DEF Sign, Goes, Typed, TypeOK
  <2> QED BY <2>1, <2>2 DEF Once, StillOwn, StalePassIsVisible, ToolAccepts, AtWork
<1>11. ASSUME NEW r \in Runs, SelfVerify(r) PROVE Once' /\ StillOwn' /\ StalePassIsVisible'
  <2>1. /\ UNCHANGED option /\ (calm' => calm)
        /\ \A s \in Runs \ {r} : pc'[s] = pc[s] /\ (calm' => ~AtWork(s))
    <3>1. RunAudit(r)
      BY <1>11 DEF RunAudit
    <3>2. ~Stop(r)
      BY <1>11 DEF SelfVerify, Goes, Stop, Typed, TypeOK
    <3> QED BY <1>6, <3>1, <3>2
  <2>2. /\ UNCHANGED <<evidence, aar, signature, report>> /\ ToolAccepts
        /\ pc[r] = "verify" /\ pc'[r] = "signature"
    BY <1>11 DEF SelfVerify, Goes, outputs, Typed, TypeOK
  <2> QED BY <2>1, <2>2 DEF Once, StillOwn, StalePassIsVisible, ToolAccepts, AtWork
<1>12. ASSUME NEW r \in Runs, WriteSignature(r) PROVE Once' /\ StillOwn' /\ StalePassIsVisible'
  <2>1. /\ UNCHANGED option /\ (calm' => calm)
        /\ \A s \in Runs \ {r} : pc'[s] = pc[s] /\ (calm' => ~AtWork(s))
    <3>1. RunAudit(r)
      BY <1>12 DEF RunAudit
    <3>2. ~Stop(r)
      BY <1>12 DEF WriteSignature, Goes, Stop, Typed, TypeOK
    <3> QED BY <1>6, <3>1, <3>2
  <2>2. /\ UNCHANGED <<evidence, aar, report>> /\ signature' = r
        /\ pc[r] = "signature" /\ pc'[r] = "report"
    BY <1>12 DEF WriteSignature, Goes, Typed, TypeOK
  <2> QED BY <2>1, <2>2 DEF Once, StillOwn, StalePassIsVisible, ToolAccepts, AtWork
<1>13. ASSUME NEW r \in Runs, Report(r) PROVE Once' /\ StillOwn' /\ StalePassIsVisible'
  <2>1. /\ UNCHANGED option /\ (calm' => calm)
        /\ \A s \in Runs \ {r} : pc'[s] = pc[s] /\ (calm' => ~AtWork(s))
    <3>1. RunAudit(r)
      BY <1>13 DEF RunAudit
    <3>2. ~Stop(r)
      BY <1>13 DEF Report, Goes, Stop, Typed, TypeOK
    <3> QED BY <1>6, <3>1, <3>2
  <2>2. /\ UNCHANGED <<evidence, aar, signature>>
        /\ report' = [run |-> r, pass |-> option[r].signing # "none"]
        /\ pc[r] = "report" /\ pc'[r] = "done"
    BY <1>13 DEF Report, Goes, Typed, TypeOK
  <2> QED BY <2>1, <2>2 DEF Once, StillOwn, StalePassIsVisible, ToolAccepts, AtWork
<1> QED
  BY <1>2, <1>3, <1>4, <1>5, <1>7, <1>8, <1>9, <1>10, <1>11, <1>12, <1>13 DEF Next, RunAudit

(* signature.json and the PASS of evidence.md stand beside their evidence  *)
(* only while verifyAudit passes it (runAudit, across reruns and stops),   *)
(* for any number of runs.                                                 *)
THEOREM StalePassIsVisibleAlways == Spec => []StalePassIsVisible
<1>1. Init => Once /\ StillOwn /\ StalePassIsVisible
  BY RunsAssumption DEF Init, Once, StillOwn, StalePassIsVisible
<1>2. TypeOK /\ Ready /\ (TypeOK /\ Ready)' /\ Once /\ StillOwn /\ StalePassIsVisible
        /\ [Next]_vars
      => (Once /\ StillOwn /\ StalePassIsVisible)'
  BY StaleStep DEF Typed
<1> QED BY <1>1, <1>2, TypeCorrect, PTL DEF Spec
============================================================================
