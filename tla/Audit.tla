------------------------------- MODULE Audit -------------------------------
(***************************************************************************)
(* @frontier-infra/audit: runAudit scores a Git tree with the bundled      *)
(* snapshot of the kit and leaves evidence.json, and when asked a signed   *)
(* receipt (aar.json), signature.json and evidence.md in one directory;    *)
(* verifyAudit checks the receipt against the evidence.  The snapshot is   *)
(* replaced by sync-audit-snapshots.mjs.  The scoring is `python3 -m kit`  *)
(* in the caller's working directory, which Python searches before the     *)
(* snapshot: a run started where a `kit` of its own lies gets that one.    *)
(*                                                                         *)
(* Every file is written in place, each by a step of its own, and a run    *)
(* may stop between any two (a crash, a child process that fails, a full   *)
(* disk).  Nothing locks the directory, the tree or the snapshot: runs, a  *)
(* verification, a sync and edits of the tree interleave freely.  `calm`   *)
(* remembers whether they ever did.                                        *)
(*                                                                         *)
(* A packet is named by the run that made it (its audit id); a hash stands *)
(* for what was hashed.  All runs sign for one DID, with keys that fit its *)
(* document or do not.                                                     *)
(***************************************************************************)
EXTENDS Naturals

CONSTANTS
    Runs,       \* calls of runAudit (bound)
    Options,    \* the options a run may get
    Files,      \* files of the snapshot other than its lock
    Releases,   \* states of the canonical sources a sync can find
    Generated,  \* [Releases -> [Files -> content, None when not part of it]]
    First,      \* the release that is installed at the start
    MaxTree,    \* bound on the edits of the audited tree
    None

ASSUME RunsAssumption    == {None, "sync", "verify"} \cap Runs = {}
ASSUME ReleaseAssumption == First \in Releases
ASSUME TreeAssumption    == MaxTree \in Nat
ASSUME OptionsAssumption ==
    Options \subseteq [signing      : {"none", "half", "both"},
                       key          : {"fits", "other"},
                       subject      : {"derived", "named", "verifier"},
                       independence : {"same_principal", "third_party"},
                       principal    : {"none", "named", "verifier"},
                       cwd          : {"plain", "has_kit"}]

VARIABLES
    installed,  \* content of each snapshot file
    lock,       \* the release audit-snapshot-lock.json describes
    sync,       \* the release a running sync writes; None: no sync
    tree,       \* the audited tree, as a version number
    pc, option, \* of each run: where it is, its options
    begun,      \* of each run: the lock it checked and the tree it bound
    packet,     \* of each run: the evidence packet it built
    score,      \* kit-score.json: the tree and kit it was made from; None is another kit
    evidence,   \* evidence.json: the run whose packet it holds
    aar,        \* aar.json: the run whose record it holds, the key it is signed with
    signature,  \* signature.json: the run it is about
    report,     \* evidence.md: the run, and whether it says PASS
    check,      \* a verifyAudit under way: what it has read
    passed,     \* packets that verifyAudit answered PASS for
    receipts,   \* runs whose own record was signed with a fitting key
    calm        \* no two of runs, verification, sync and edits ever overlapped

snapshot == <<installed, lock, sync>>
local    == <<pc, option, begun, packet>>
outputs  == <<score, evidence, aar, signature, report>>
ghost    == <<passed, receipts>>
vars     == <<snapshot, tree, local, outputs, check, ghost, calm>>

NoAar   == [run |-> None, key |-> "none"]
NoCheck == [at |-> "idle", run |-> None, about |-> None]

Contents == (UNION {{Generated[v][f] : f \in Files} : v \in Releases}) \cup {None}
Kits     == [Files -> Contents]
Scores   == [tree : 0..MaxTree, kit : Kits \cup {None}]
Packets  == [tree : 0..MaxTree, score : Scores, checked : Releases, lock : Releases]

ASSUME GeneratedAssumption == Generated \in [Releases -> Kits]
ASSUME KitsAssumption      == None \notin Kits
ASSUME PacketAssumption    == None \notin Packets

Steps == {"begin", "bind", "score", "pack", "aar", "sign", "verify", "signature",
          "report", "done", "stopped"}

TypeOK ==
    /\ installed \in Kits /\ lock \in Releases /\ sync \in Releases \cup {None}
    /\ tree \in 0..MaxTree
    /\ pc \in [Runs -> Steps]
    /\ option \in [Runs -> Options]
    /\ begun \in [Runs -> [lock : Releases \cup {None}, tree : 0..MaxTree]]
    /\ packet \in [Runs -> Packets \cup {None}]
    /\ score \in Scores \cup {None}
    /\ evidence \in Runs \cup {None}
    /\ aar \in [run : Runs \cup {None}, key : {"none", "fits", "other"}]
    /\ signature \in Runs \cup {None}
    /\ report \in [run : Runs \cup {None}, pass : BOOLEAN]
    /\ check \in [at : {"idle", "evidence", "tool"}, run : Runs \cup {None},
                  about : Runs \cup {None}]
    /\ passed \subseteq Runs /\ receipts \subseteq Runs
    /\ calm \in BOOLEAN
    /\ evidence # None => packet[evidence] # None

Init ==
    /\ installed = Generated[First] /\ lock = First /\ sync = None
    /\ tree = 0
    /\ pc = [r \in Runs |-> "begin"] /\ option \in [Runs -> Options]
    /\ begun = [r \in Runs |-> [lock |-> None, tree |-> 0]]
    /\ packet = [r \in Runs |-> None]
    /\ score = None /\ evidence = None /\ aar = NoAar /\ signature = None
    /\ report = [run |-> None, pass |-> FALSE]
    /\ check = NoCheck
    /\ passed = {} /\ receipts = {}
    /\ calm = TRUE

----------------------------------------------------------------------------
(***************************************************************************)
(* Who is at work; a step of one while another is leaves the calm.         *)
(***************************************************************************)
AtWork(r) == pc[r] \notin {"begin", "done", "stopped"}

Busy == {r \in Runs : AtWork(r)} \cup (IF sync # None THEN {"sync"} ELSE {})
             \cup (IF check.at # "idle" THEN {"verify"} ELSE {})

Stays(who) == calm' = (calm /\ Busy \subseteq {who})

(* ensureSnapshotIntegrity: every file the lock lists has the content it   *)
(* was locked with.  Files it does not list are not looked at.             *)
Intact(f) == Generated[lock][f] # None => installed[f] = Generated[lock][f]

(* Bug_* definitions here and below are mutants: never part of the model.  *)
Bug_MissingIsFine == \A f \in Files : Intact(f) \/ installed[f] = None
EnsureSnapshotIntegrity == \A f \in Files : Intact(f)

----------------------------------------------------------------------------
(***************************************************************************)
(* runAudit                                                                *)
(***************************************************************************)
Goes(r, from, to) == /\ pc[r] = from
                     /\ pc' = [pc EXCEPT ![r] = to]
                     /\ Stays(r)

Begin(r) ==
    /\ Goes(r, "begin", "bind")
    /\ EnsureSnapshotIntegrity
    /\ begun' = [begun EXCEPT ![r].lock = lock]
    /\ UNCHANGED <<snapshot, tree, option, packet, outputs, check, ghost>>

(* collectGitBinding, taken as one reading of the tree.                    *)
CollectGitBinding(r) ==
    /\ Goes(r, "bind", "score")
    /\ begun' = [begun EXCEPT ![r].tree = tree]
    /\ UNCHANGED <<snapshot, tree, option, packet, outputs, check, ghost>>

(* A `kit` of the working directory scores in place of the snapshot's.  It *)
(* may also exit 0 and leave kit-score.json as it was, or fail, and then   *)
(* kit_json_adapter.py scores with the snapshot's after all.               *)
RunKitAdapter(r) ==
    /\ Goes(r, "score", "pack")
    /\ \/ score' = [tree |-> tree, kit |-> installed]
       \/ option[r].cwd = "has_kit" /\ score' \in {score, [tree |-> tree, kit |-> None]}
    /\ UNCHANGED <<snapshot, tree, option, begun, packet, evidence, aar, signature, report,
                   check, ghost>>

Bug_ScoreMayBeMissing(r) ==
    /\ pc[r] = "pack"
    /\ pc' = [pc EXCEPT ![r] = IF option[r].signing = "none" THEN "report" ELSE "aar"]
    /\ Stays(r)
    /\ packet' = [packet EXCEPT ![r] = [tree |-> begun[r].tree, score |-> score,
                                         checked |-> begun[r].lock, lock |-> lock]]
    /\ evidence' = r
    /\ UNCHANGED <<snapshot, tree, option, begun, score, aar, signature, report, check, ghost>>

(* The packet is built from what kit-score.json and the lock file hold by  *)
(* now, and written to evidence.json.                                      *)
Pack(r) ==
    /\ pc[r] = "pack" /\ score # None
    /\ pc' = [pc EXCEPT ![r] = IF option[r].signing = "none" THEN "report" ELSE "aar"]
    /\ Stays(r)
    /\ packet' = [packet EXCEPT ![r] = [tree |-> begun[r].tree, score |-> score,
                                         checked |-> begun[r].lock, lock |-> lock]]
    /\ evidence' = r
    /\ UNCHANGED <<snapshot, tree, option, begun, score, aar, signature, report, check, ghost>>

(* What aarRecord insists on before it writes a claim of independence.     *)
Independent(o) ==
    /\ o.signing = "both"
    /\ o.subject # "verifier"
    /\ o.independence # "same_principal" => o.subject = "named" /\ o.principal = "named"

WriteAar(r) ==
    /\ Goes(r, "aar", "sign")
    /\ Independent(option[r])
    /\ aar' = [run |-> r, key |-> "none"]
    /\ UNCHANGED <<snapshot, tree, option, begun, packet, score, evidence, signature, report,
                   check, ghost>>

Bug_SignatureBeforeVerify(r) ==
    /\ Goes(r, "sign", "verify")
    /\ aar' = [aar EXCEPT !.key = option[r].key]
    /\ signature' = r
    /\ receipts' = IF option[r].key = "fits" THEN receipts \cup {aar.run} ELSE receipts
    /\ UNCHANGED <<snapshot, tree, option, begun, packet, score, evidence, report, check,
                   passed>>

(* `aar.mjs sign` signs whatever record aar.json holds.                    *)
Sign(r) ==
    /\ Goes(r, "sign", "verify")
    /\ aar' = [aar EXCEPT !.key = option[r].key]
    /\ receipts' = IF option[r].key = "fits" THEN receipts \cup {aar.run} ELSE receipts
    /\ UNCHANGED <<snapshot, tree, option, begun, packet, score, evidence, signature, report,
                   check, passed>>

(* `aar.mjs verify --did-json`, level L2.                                  *)
ToolAccepts == aar.run # None /\ aar.key = "fits"

SelfVerify(r) ==
    /\ Goes(r, "verify", "signature")
    /\ ToolAccepts
    /\ UNCHANGED <<snapshot, tree, option, begun, packet, outputs, check, ghost>>

WriteSignature(r) ==
    /\ Goes(r, "signature", "report")
    /\ signature' = r
    /\ UNCHANGED <<snapshot, tree, option, begun, packet, score, evidence, aar, report, check,
                   ghost>>

Report(r) ==
    /\ Goes(r, "report", "done")
    /\ report' = [run |-> r, pass |-> option[r].signing # "none"]
    /\ UNCHANGED <<snapshot, tree, option, begun, packet, score, evidence, aar, signature,
                   check, ghost>>

(* A crash, an error thrown anywhere, a refusal above.                     *)
Stop(r) ==
    /\ AtWork(r)
    /\ pc' = [pc EXCEPT ![r] = "stopped"]
    /\ UNCHANGED <<snapshot, tree, option, begun, packet, outputs, check, ghost, calm>>

----------------------------------------------------------------------------
(***************************************************************************)
(* verifyAudit: reads the receipt, then the evidence, then has the tool    *)
(* read the receipt again.                                                 *)
(***************************************************************************)
VerifyReadsAar ==
    /\ check.at = "idle" /\ EnsureSnapshotIntegrity
    /\ aar.run # None /\ evidence # None
    /\ check' = [at |-> "evidence", run |-> aar.run, about |-> None]
    /\ Stays("verify")
    /\ UNCHANGED <<snapshot, tree, local, outputs, ghost>>

Bug_HashNotCompared(committed, e) == packet[committed].lock = packet[e].lock
(* The evidence has the committed hash; the version, policy and identity   *)
(* checks that follow concern two halves of the same run.                  *)
Commits(committed, e) == committed = e

VerifyReadsEvidence ==
    /\ check.at = "evidence"
    /\ check' = IF Commits(check.run, evidence)
                THEN [check EXCEPT !.at = "tool", !.about = evidence] ELSE NoCheck
    /\ Stays("verify")
    /\ UNCHANGED <<snapshot, tree, local, outputs, ghost>>

VerifyRunsTool ==
    /\ check.at = "tool"
    /\ check' = NoCheck
    /\ passed' = IF ToolAccepts THEN passed \cup {check.about} ELSE passed
    /\ Stays("verify")
    /\ UNCHANGED <<snapshot, tree, local, outputs, receipts>>

----------------------------------------------------------------------------
(***************************************************************************)
(* sync-audit-snapshots.mjs, and the world.                                *)
(***************************************************************************)
SyncUnchanged == <<tree, local, outputs, check, ghost>>

SyncStart(v) ==
    /\ sync = None
    /\ sync' = v
    /\ Stays("sync")
    /\ UNCHANGED <<installed, lock, SyncUnchanged>>

Extra == {f \in Files : installed[f] # None /\ Generated[sync][f] = None}

(* Files that are not generated any more go first, one by one.             *)
RemoveExtra(f) ==
    /\ sync # None /\ f \in Extra
    /\ installed' = [installed EXCEPT ![f] = None]
    /\ Stays("sync")
    /\ UNCHANGED <<lock, sync, SyncUnchanged>>

WriteFile(f) ==
    /\ sync # None /\ Extra = {}
    /\ installed[f] # Generated[sync][f]
    /\ installed' = [installed EXCEPT ![f] = Generated[sync][f]]
    /\ Stays("sync")
    /\ UNCHANGED <<lock, sync, SyncUnchanged>>

(* The lock is the last file of the list.                                  *)
WriteLock ==
    /\ sync # None /\ installed = Generated[sync]
    /\ lock' = sync /\ sync' = None
    /\ Stays("sync")
    /\ UNCHANGED <<installed, SyncUnchanged>>

SyncStops ==
    /\ sync # None
    /\ sync' = None
    /\ UNCHANGED <<installed, lock, SyncUnchanged, calm>>

(* Someone works in the audited tree.                                      *)
Edit ==
    /\ tree < MaxTree
    /\ tree' = tree + 1
    /\ calm' = (calm /\ \A r \in Runs : ~AtWork(r))
    /\ UNCHANGED <<snapshot, local, outputs, check, ghost>>

RunAudit(r) ==
    \/ Begin(r) \/ CollectGitBinding(r) \/ RunKitAdapter(r) \/ Pack(r) \/ WriteAar(r)
    \/ Sign(r) \/ SelfVerify(r) \/ WriteSignature(r) \/ Report(r) \/ Stop(r)

VerifyAudit == VerifyReadsAar \/ VerifyReadsEvidence \/ VerifyRunsTool

Sync == \/ \E v \in Releases : SyncStart(v)
        \/ \E f \in Files : RemoveExtra(f) \/ WriteFile(f)
        \/ WriteLock \/ SyncStops

Next == (\E r \in Runs : RunAudit(r)) \/ VerifyAudit \/ Sync \/ Edit

Spec == Init /\ [][Next]_vars
----------------------------------------------------------------------------
(***************************************************************************)
(* Properties                                                              *)
(***************************************************************************)
(* PASS is never given for a packet of a run that might not claim the      *)
(* independence its receipt discloses, whatever overlaps; and as long as   *)
(* nothing does, only for a packet whose own receipt was signed with the   *)
(* operator's key, across reruns and runs that stopped half way.           *)
PassIsEarned ==
    /\ \A r \in passed : Independent(option[r])
    /\ calm => passed \subseteq receipts

(* signature.json and the PASS of evidence.md outlive the files they speak *)
(* of.  As long as nothing overlaps, either of them is about the evidence  *)
(* beside it only when verifyAudit passes that evidence.                   *)
StalePassIsVisible ==
    calm /\ (signature = evidence \/ report = [run |-> evidence, pass |-> TRUE])
         /\ evidence # None
      => aar.run = evidence /\ ToolAccepts

(* As long as nothing overlaps a packet is of one moment: the lock it      *)
(* names (and signs as scorer policy) is the lock that was checked, after  *)
(* any unfinished sync; and, for a run started where no other kit comes    *)
(* first, the tree it binds is the tree that was scored, by the very kit   *)
(* that lock lists.                                                        *)
PacketIsOneMoment ==
    calm => \A r \in Runs : packet[r] # None =>
        LET p == packet[r] IN
        /\ p.checked = p.lock
        /\ option[r].cwd = "plain" =>
             /\ p.score.tree = p.tree /\ p.score.kit # None
             /\ \A f \in Files : Generated[p.lock][f] # None =>
                   p.score.kit[f] = Generated[p.lock][f]
============================================================================
