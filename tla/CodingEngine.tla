------------------------------ MODULE CodingEngine ------------------------------
(***************************************************************************)
(* Coding runs of one project: CodingRunEngine, the coordinator invocation   *)
(* that CodingRunScheduler admits for a run, the project's revisions and      *)
(* working copies, and the lifecycle fence of group-admitted runs.            *)
(*                                                                         *)
(* Three queues order the work: the workspace authority (`auth`), the        *)
(* project (`proj`) and the run (`rlock`).  authorizedExclusive holds auth    *)
(* and rlock for a whole operation and takes proj for its project calls, so   *)
(* an operation that only reads and saves is one action, enabled while the    *)
(* three are free; an operation whose middle is visible to a crash or to a    *)
(* fence (patch, finalize, the launch of a decision, a validator's evidence)  *)
(* holds what it took over several actions.  `seen[r]` names who still knows  *)
(* the current stateRevision of r: every save of somebody else clears it,     *)
(* which is what a CAS or assertStateRevision detects.                        *)
(***************************************************************************)
EXTENDS CodingRun, SequencesExt

CONSTANTS
  Snap0,     \* snapshot the project starts with
  Runs,      \* ids of runs that may be started
  Group,     \* those admitted from a group
  MaxHist,   \* bound: revisions of the project
  Env        \* environment: subset of {"crash", "move", "fence", "storage"}

ASSUME EnvAssumption ==
  /\ Group \subseteq Runs /\ MaxHist \in Nat /\ Snap0 \in Snaps
  /\ Runs \cap {None, "fence", "member"} = {} /\ None \notin {"fence", "member"}

VARIABLES
  run,       \* durable: the record of every run, or None
  hist,      \* durable: revisions of the project, [by |-> run or None, snap]
  live,      \* durable: the ProjectWorkspace exists
  copy,      \* durable: content of every run's working copy, or None
  evid,      \* durable: CodingEvidenceStore, <<run, receipt>>
  tomb,      \* durable: the deletion record of the project, or None
  auth, proj, rlock,  \* holders of the three queues, or None
  inv,       \* the coordinator invocation of every run
  inflight,  \* provider decisions registered and not settled
  aborted,   \* AbortController of the invocation
  seen,      \* who knows the current stateRevision
  mem,       \* runs with a runtime in memory
  fence      \* GroupCodingLifecycleFenceService

disk == <<hist, live, copy, evid, tomb>>
locks == <<auth, proj, rlock>>
durable == <<run, hist, live, copy, evid, tomb>>
volatile == <<auth, proj, rlock, inv, inflight, aborted, seen, mem, fence>>
vars == <<durable, volatile>>

(* ok: an action was taken (in "loop"), or what the sandbox or review said. *)
Idle == [pc |-> "off", at |-> None, ok |-> FALSE, out |-> "none"]
InvPc == {"off", "enter", "loop", "reserved", "launching", "deciding", "decided",
          "act", "patching", "prepared", "sandbox", "ran", "proving", "infra",
          "result", "reviewing", "reviewed", "commit", "committed", "failing", "quiet"}
Outcome == {"none", "terminal", "yielded", "action_budget", "budget", "error"}
NoFence == [pc |-> "off", run |-> None, watch |-> FALSE]

Init ==
  /\ run = [r \in Runs |-> None]
  /\ hist = <<[by |-> None, snap |-> Snap0]>>
  /\ live = TRUE
  /\ copy = [r \in Runs |-> None]
  /\ evid = {}
  /\ tomb = None
  /\ auth = None /\ proj = None /\ rlock = [r \in Runs |-> None]
  /\ inv = [r \in Runs |-> Idle]
  /\ inflight = [r \in Runs |-> 0]
  /\ aborted = [r \in Runs |-> FALSE]
  /\ seen = [r \in Runs |-> {}]
  /\ mem = {}
  /\ fence = NoFence

Exists(r) == run[r] # None
Alive(r) == Exists(r) /\ ~Terminal(run[r])
Tip == Last(hist).snap
CommittedBy(r) == {i \in DOMAIN hist : hist[i].by = r}
Proofs(r) == {e[2] : e \in {x \in evid : x[1] = r}}

(* Mutant: the tombstone is not looked at. *)
AvailableUntilRemoved == live

(* projects.get: a tombstone hides the project from every ordinary caller.  *)
Available == live /\ tomb = None
Current(r) == Available /\ run[r].base = Len(hist)
Moved(r) == Available /\ run[r].base # Len(hist)

(* Nobody holds a queue the operation on r has to pass. *)
ProjectFree == auth = None /\ proj = None
Free(r) == ProjectFree /\ rlock[r] = None

(* Operations registered in inFlightOperations. *)
Busy(r) ==
  inflight[r] > 0 \/ inv[r].pc \in {"prepared", "sandbox", "ran", "proving", "reviewing"}

(* runtimeFor: a runtime in memory, or a working copy that matches the       *)
(* persisted diff.                                                           *)
Rehydrates(r) == copy[r] # None /\ (r \in mem \/ copy[r] = run[r].diff)

GoTo(r, pc) == inv' = [inv EXCEPT ![r].pc = pc]
Again(r) == inv' = [inv EXCEPT ![r] = [Idle EXCEPT !.pc = "loop", !.ok = TRUE]]
Back(r, pc) == inv' = [inv EXCEPT ![r] = [Idle EXCEPT !.pc = pc]]
Leave(r, out) == inv' = [inv EXCEPT ![r] = [Idle EXCEPT !.pc = "quiet", !.out = out]]
Put(r, rec, knows) ==
  /\ run' = [run EXCEPT ![r] = rec]
  /\ seen' = [seen EXCEPT ![r] = knows]
Hold(r) == auth' = r /\ rlock' = [rlock EXCEPT ![r] = r] /\ UNCHANGED proj
Release(r) ==
  auth' = None /\ proj' = None /\ rlock' = [rlock EXCEPT ![r] = None]
Drop(r) == copy' = [copy EXCEPT ![r] = None]
DropOrKeep(r) == \E c \in {None, copy[r]} : copy' = [copy EXCEPT ![r] = c]

(* What authorizedExclusive and requireMutableRun let through.              *)
Admits(r, allowWaiting) ==
  Free(r) /\ Exists(r) /\ Mutable(run[r], allowWaiting) /\ Current(r)
Writes(r, allowWaiting) == Admits(r, allowWaiting) /\ Claimable(run[r])

(* requireMutableRun on a run whose project has moved on: the run becomes    *)
(* stale before the caller sees the error.                                   *)
MarkStale(r) ==
  /\ Free(r) /\ Alive(r) /\ Mutable(run[r], TRUE) /\ Moved(r)
  /\ Put(r, Stale(run[r]), {})
  /\ DropOrKeep(r)
  /\ mem' = mem \ {r}
  /\ UNCHANGED <<hist, live, evid, tomb, locks, inflight, aborted, fence>>

--------------------------------------------------------------------------------
(* Operations of a member of the workspace. *)

(* start, under auth and proj; it takes no run queue.  A writer left on an   *)
(* older revision is made stale first.  Who holds the queues on behalf of    *)
(* the caller afterwards is the caller's.                                     *)
Start(r) ==
  /\ ProjectFree /\ Available /\ ~Exists(r)
  /\ \A q \in Runs : Alive(q) => run[q].pend = None /\ run[q].base # Len(hist)
  /\ LET old == {q \in Runs : Alive(q)} IN
     /\ run' = [q \in Runs |-> IF q = r THEN NewRun(Len(hist), Tip)
                               ELSE IF q \in old THEN Stale(run[q]) ELSE run[q]]
     /\ seen' = [q \in Runs |-> IF q = r THEN {"drv"}
                                ELSE IF q \in old THEN {} ELSE seen[q]]
     /\ \E kept \in SUBSET old :
          copy' = [q \in Runs |-> IF q = r THEN Tip
                                  ELSE IF q \in old \ kept THEN None ELSE copy[q]]
     /\ mem' = (mem \ old) \cup {r}
  /\ UNCHANGED <<hist, live, evid, tomb, inv, inflight, aborted, fence>>

Revise(r) ==
  /\ Writes(r, TRUE) /\ run[r].instr < MaxInstr
  /\ Put(r, Revised(run[r]), {})
  /\ UNCHANGED <<disk, locks, inv, inflight, aborted, mem, fence>>

(* cancel saves first; the working copy may survive a failing disposal. *)
Cancel(r) ==
  /\ Writes(r, TRUE) /\ Rehydrates(r)
  /\ Put(r, Cancelled(run[r]), {})
  /\ DropOrKeep(r)
  /\ mem' = mem \ {r}
  /\ UNCHANGED <<hist, live, evid, tomb, locks, inv, inflight, aborted, fence>>

(* runtimeFor on a working copy that contradicts the persisted diff. *)
EvidenceMismatch(r) ==
  /\ Writes(r, TRUE) /\ copy[r] # None /\ ~Rehydrates(r)
  /\ Put(r, Failed(run[r]), {})
  /\ UNCHANGED <<disk, locks, inflight, aborted, mem, fence>>

AppendBy(r) == hist' = Append(hist, [by |-> r, snap |-> copy[r]])

CanRecover(r) ==
  /\ Free(r) /\ Available /\ Exists(r) /\ run[r].st = "validating"
  /\ run[r].pend # None /\ run[r].pend \in Proofs(r)

(* recoverPendingCommit: the effect is found by its effectId, or applied now *)
(* when the project has not moved; a commit whose answer is lost is found by *)
(* the next recovery.                                                        *)
RecoverFound(r) ==
  /\ CanRecover(r) /\ CommittedBy(r) # {}
  /\ Put(r, Completed(run[r]), {})
  /\ mem' = mem \ {r}
  /\ UNCHANGED <<disk, locks, inv, inflight, aborted, fence>>

RecoverCommit(r) ==
  /\ CanRecover(r) /\ CommittedBy(r) = {} /\ run[r].base = Len(hist)
  /\ copy[r] = run[r].pend[2] /\ copy[r] # Tip
  /\ AppendBy(r) /\ Drop(r)
  /\ \/ Put(r, Completed(run[r]), {}) /\ mem' = mem \ {r}
     \/ UNCHANGED <<run, seen, mem>>
  /\ UNCHANGED <<live, evid, tomb, locks, inv, inflight, aborted, fence>>

(* Mutant: the history is not searched for the effect. *)
RecoverAmbiguousBlind(r) ==
  /\ CanRecover(r) /\ run[r].base # Len(hist)
  /\ Put(r, Ambiguous(run[r]), {})
  /\ DropOrKeep(r)
  /\ mem' = mem \ {r}
  /\ UNCHANGED <<hist, live, evid, tomb, locks, inv, inflight, aborted, fence>>

RecoverAmbiguous(r) ==
  /\ CanRecover(r) /\ CommittedBy(r) = {} /\ run[r].base # Len(hist)
  /\ Put(r, Ambiguous(run[r]), {})
  /\ DropOrKeep(r)
  /\ mem' = mem \ {r}
  /\ UNCHANGED <<hist, live, evid, tomb, locks, inv, inflight, aborted, fence>>

Recover(r) == RecoverFound(r) \/ RecoverCommit(r) \/ RecoverAmbiguous(r)

--------------------------------------------------------------------------------
(* The invocation. *)

(* scheduler.advance: one slot per run, kept until the invocation has ended  *)
(* and nothing it launched is in flight.                                     *)
SlotFree(r) == inv[r].pc = "off"

Launch(r, knows) ==
  /\ SlotFree(r) /\ Exists(r)
  /\ inv' = [inv EXCEPT ![r] = [Idle EXCEPT !.pc = "enter"]]
  /\ seen' = [seen EXCEPT ![r] = knows]
  /\ UNCHANGED <<durable, locks, inflight, aborted, mem, fence>>

(* The caller has just read the run. *)
Advance(r) == Launch(r, seen[r] \cup {"drv"})

Step(r, pc) == inv[r].pc = pc
Rest(r) == UNCHANGED <<disk, locks, inflight, aborted, mem, fence>>
Runtime(r) == Rehydrates(r) /\ mem' = mem \cup {r}
RestButMem(r) == UNCHANGED <<disk, locks, inflight, aborted, fence>>

(* reserveCoordinatorInvocation *)
Enter(r) ==
  /\ Step(r, "enter") /\ ~aborted[r] /\ "drv" \in seen[r]
  /\ Writes(r, TRUE)
  /\ Put(r, Claimed(run[r]), {})
  /\ Back(r, "loop") /\ Rest(r)

(* An invocation that is aborted or refused before it is admitted does not   *)
(* pause the run.                                                            *)
EnterRefused(r) ==
  /\ Step(r, "enter")
  /\ \/ aborted[r]
     \/ Free(r) /\ ("storage" \in Env \/ "drv" \notin seen[r] \/ ~Available)
     \/ Free(r) /\ Exists(r) /\ ~(Mutable(run[r], TRUE) /\ Claimable(run[r]))
  /\ Leave(r, "error")
  /\ UNCHANGED <<run, seen, mem>> /\ RestButMem(r)

LoopResume(r) ==
  /\ Step(r, "loop") /\ ~aborted[r]
  /\ Admits(r, TRUE) /\ run[r].st = "waiting_input"
  /\ Put(r, Resumed(run[r]), {})
  /\ UNCHANGED inv /\ Rest(r)

LoopMap(r) ==
  /\ Step(r, "loop") /\ ~aborted[r]
  /\ Writes(r, FALSE) /\ run[r].map = None /\ Runtime(r)
  /\ Put(r, Mapped(run[r], copy[r]), {})
  /\ Again(r) /\ RestButMem(r)

(* reserveCoordinatorDecision; `at` is what the worker is shown. *)
LoopReserve(r) ==
  /\ Step(r, "loop") /\ ~aborted[r]
  /\ Writes(r, FALSE) /\ run[r].map # None /\ Runtime(r)
  /\ Put(r, Claimed(run[r]), {"inv"})
  /\ inv' = [inv EXCEPT ![r].pc = "reserved", ![r].ok = FALSE,
                        ![r].at = <<run[r].instr, run[r].diff>>]
  /\ RestButMem(r)

(* maxCoordinatorDecisions is reached: the counter is abstracted, so it may  *)
(* be reached at any time.                                                   *)
LoopBudget(r) ==
  /\ Step(r, "loop") /\ ~aborted[r]
  /\ Writes(r, FALSE) /\ run[r].map # None
  /\ Put(r, Paused(run[r]), {"drv"})
  /\ Leave(r, "budget") /\ Rest(r)

(* A terminal run, or maxActions reached: a checkpoint, not a pause. *)
LoopExit(r) ==
  /\ Step(r, "loop") /\ ProjectFree /\ Available /\ Exists(r)
  /\ Terminal(run[r]) \/ inv[r].ok
  /\ Leave(r, IF Terminal(run[r]) THEN "terminal" ELSE "action_budget")
  /\ seen' = [seen EXCEPT ![r] = @ \cup {"drv"}]
  /\ UNCHANGED run /\ Rest(r)

(* runCoordinatorDecision: authority and project first, then the run. *)
LaunchLock(r) ==
  /\ Step(r, "reserved") /\ ~aborted[r] /\ ProjectFree /\ Current(r)
  /\ auth' = r /\ proj' = r
  /\ GoTo(r, "launching")
  /\ UNCHANGED <<durable, rlock, inflight, aborted, seen, mem, fence>>

LaunchGo(r) ==
  /\ Step(r, "launching") /\ rlock[r] = None
  /\ ~aborted[r] /\ Mutable(run[r], FALSE) /\ "inv" \in seen[r]
  /\ inflight' = [inflight EXCEPT ![r] = @ + 1]
  /\ auth' = None /\ proj' = None
  /\ GoTo(r, "deciding")
  /\ UNCHANGED <<durable, rlock, aborted, seen, mem, fence>>

LaunchRefused(r) ==
  /\ Step(r, "launching") /\ rlock[r] = None
  /\ auth' = None /\ proj' = None
  /\ Back(r, "failing")
  /\ UNCHANGED <<durable, rlock, inflight, aborted, seen, mem, fence>>

ProviderAnswers(r) ==
  /\ Step(r, "deciding")
  /\ inflight' = [inflight EXCEPT ![r] = @ - 1]
  /\ GoTo(r, "decided")
  /\ UNCHANGED <<durable, locks, aborted, seen, mem, fence>>

(* The deadline, an abort or a provider error ends the wait; the provider    *)
(* itself may go on.                                                         *)
DecisionLost(r) ==
  /\ Step(r, "deciding")
  /\ \E n \in {inflight[r], inflight[r] - 1} : inflight' = [inflight EXCEPT ![r] = n]
  /\ Back(r, "failing")
  /\ UNCHANGED <<durable, locks, aborted, seen, mem, fence>>

ProviderSettles(r) ==
  /\ inflight[r] > 0 /\ ~Step(r, "deciding")
  /\ inflight' = [inflight EXCEPT ![r] = @ - 1]
  /\ UNCHANGED <<durable, locks, inv, aborted, seen, mem, fence>>

(* The run is read again: nothing may have been saved meanwhile. *)
CheckDecision(r) ==
  /\ Step(r, "decided") /\ ProjectFree /\ Available /\ "inv" \in seen[r]
  /\ GoTo(r, "act")
  /\ UNCHANGED <<run, seen, mem>> /\ RestButMem(r)

(* pauseCoordinator checks no revision. *)
ActYield(r) ==
  /\ Step(r, "act")
  /\ Writes(r, TRUE) /\ run[r].st = "running"
  /\ Put(r, Paused(run[r]), {"drv"})
  /\ Leave(r, "yielded") /\ Rest(r)

(* tree, read, search, symbols, references, diff, advisories. *)
ActRead(r) ==
  /\ Step(r, "act") /\ ProjectFree
  /\ Again(r)
  /\ UNCHANGED <<run, seen, mem>> /\ RestButMem(r)

ActPlan(r) ==
  /\ Step(r, "act") /\ "inv" \in seen[r]
  /\ Writes(r, FALSE) /\ CanPlan(run[r], copy[r]) /\ Runtime(r)
  /\ Put(r, Planned(run[r]), {})
  /\ Again(r) /\ RestButMem(r)

PatchWrite(r) ==
  /\ Step(r, "act") /\ "inv" \in seen[r]
  /\ Writes(r, FALSE) /\ CanPatch(run[r]) /\ Runtime(r)
  /\ \E s \in Snaps \ {copy[r]} : copy' = [copy EXCEPT ![r] = s]
  /\ Put(r, Claimed(run[r]), {})
  /\ Hold(r) /\ GoTo(r, "patching")
  /\ UNCHANGED <<hist, live, evid, tomb, inflight, aborted, fence>>

PatchSave(r) ==
  /\ Step(r, "patching")
  /\ Put(r, Patched(run[r], copy[r]), {})
  /\ Release(r) /\ Again(r)
  /\ UNCHANGED <<disk, inflight, aborted, mem, fence>>

(* Mutant: the failing save leaves the written tree. *)
PatchUndoForgetful(r) ==
  /\ Step(r, "patching")
  /\ Release(r) /\ Back(r, "failing")
  /\ UNCHANGED <<run, seen, disk, inflight, aborted, mem, fence>>

(* The save fails: the tree is rolled back, or quarantined with the run. *)
PatchUndo(r) ==
  /\ Step(r, "patching")
  /\ copy' = [copy EXCEPT ![r] = run[r].diff]
  /\ Release(r) /\ Back(r, "failing")
  /\ UNCHANGED <<run, seen, hist, live, evid, tomb, inflight, aborted, mem, fence>>

PatchQuarantine(r) ==
  /\ Step(r, "patching")
  /\ Put(r, Failed(run[r]), {})
  /\ DropOrKeep(r)
  /\ mem' = mem \ {r}
  /\ Release(r) /\ Back(r, "failing")
  /\ UNCHANGED <<hist, live, evid, tomb, inflight, aborted, fence>>

(* prepareSandboxExecution, for exec and for a validator. *)
SandboxPrepare(r) ==
  /\ Step(r, "act") /\ "inv" \in seen[r]
  /\ Writes(r, FALSE) /\ CurrentPlan(run[r]) /\ Runtime(r)
  /\ Put(r, Claimed(run[r]), {})
  /\ inv' = [inv EXCEPT ![r].pc = "prepared", ![r].at = <<run[r].instr, copy[r]>>]
  /\ RestButMem(r)

(* assertResultFresh, before the launch and before the result is used. *)
StillFresh(r) ==
  /\ ProjectFree /\ Exists(r) /\ Mutable(run[r], FALSE) /\ Current(r)
  /\ Fresh(run[r], copy[r], inv[r].at)

SandboxLaunch(r) ==
  /\ Step(r, "prepared") /\ StillFresh(r) /\ Runtime(r)
  /\ GoTo(r, "sandbox")
  /\ UNCHANGED <<run, seen>> /\ RestButMem(r)

SandboxEnds(r) ==
  /\ Step(r, "sandbox")
  /\ \E ok \in BOOLEAN : inv' = [inv EXCEPT ![r].pc = "ran", ![r].ok = ok]
  /\ UNCHANGED <<run, seen, mem>> /\ RestButMem(r)

(* The command did not finish, or its evidence or cleanup failed. *)
SandboxBreaks(r) ==
  /\ inv[r].pc \in {"prepared", "sandbox", "ran"} /\ auth = None
  /\ Back(r, "infra")
  /\ UNCHANGED <<run, seen, mem>> /\ RestButMem(r)

ExecReturns(r) ==
  /\ Step(r, "ran") /\ StillFresh(r)
  /\ Again(r)
  /\ UNCHANGED <<run, seen, mem>> /\ RestButMem(r)

(* Mutant: the run is not read again before its evidence is written. *)
CheckEvidenceSkipped(r) ==
  /\ Step(r, "ran") /\ auth = None
  /\ auth' = r /\ GoTo(r, "proving")
  /\ UNCHANGED <<run, seen, disk, proj, rlock, inflight, aborted, mem, fence>>

(* The evidence is written under the authority the check was made under, and *)
(* under no other queue: the fence may close the run in between.              *)
CheckEvidence(r) ==
  /\ Step(r, "ran") /\ StillFresh(r) /\ Runtime(r)
  /\ auth' = r /\ GoTo(r, "proving")
  /\ UNCHANGED <<run, seen, disk, proj, rlock, inflight, aborted, fence>>

EvidenceKept(r) == evid' = evid \cup {<<r, inv[r].at>>}

PersistEvidence(r) ==
  /\ Step(r, "proving")
  /\ EvidenceKept(r)
  /\ auth' = None /\ GoTo(r, "result")
  /\ UNCHANGED <<run, seen, hist, live, copy, tomb, proj, rlock, inflight, aborted, mem, fence>>

(* The evidence is refused before any of it is written; or the store, an     *)
(* artifact or the cleanup after them fails.                                  *)
EvidenceBreaks(r) ==
  /\ Step(r, "proving") /\ auth' = None
  /\ \/ Back(r, "failing") /\ UNCHANGED evid
     \/ Back(r, "infra") /\ (EvidenceKept(r) \/ UNCHANGED evid)
  /\ UNCHANGED <<run, seen, hist, live, copy, tomb, proj, rlock, inflight, aborted, mem, fence>>

(* recordInfrastructureValidatorFailure *)
RecordInfra(r) ==
  /\ Step(r, "infra") /\ Writes(r, FALSE)
  /\ Put(r, Claimed(run[r]), {})
  /\ Again(r) /\ Rest(r)

RecordResult(r) ==
  /\ Step(r, "result") /\ Writes(r, FALSE) /\ Runtime(r)
  /\ Put(r, Validated(run[r], copy[r], inv[r].at, inv[r].ok), {})
  /\ Again(r) /\ RestButMem(r)

ReviewStart(r) ==
  /\ Step(r, "act") /\ "inv" \in seen[r]
  /\ Writes(r, FALSE) /\ Runtime(r) /\ CanReview(run[r], copy[r])
  /\ Put(r, Claimed(run[r]), {})
  /\ inv' = [inv EXCEPT ![r].pc = "reviewing", ![r].at = <<run[r].instr, copy[r]>>]
  /\ RestButMem(r)

(* An error of the reviewer counts as a review that does not approve. *)
ReviewEnds(r) ==
  /\ Step(r, "reviewing")
  /\ \E ok \in BOOLEAN : inv' = [inv EXCEPT ![r].pc = "reviewed", ![r].ok = ok]
  /\ UNCHANGED <<run, seen, mem>> /\ RestButMem(r)

RecordReview(r) ==
  /\ Step(r, "reviewed") /\ Writes(r, FALSE) /\ Runtime(r)
  /\ Put(r, Reviewed(run[r], copy[r], inv[r].at, inv[r].ok), {})
  /\ Again(r) /\ RestButMem(r)

FinalizePrepare(r) ==
  /\ Step(r, "act") /\ "inv" \in seen[r]
  /\ Writes(r, FALSE) /\ Runtime(r) /\ CanFinalize(run[r], copy[r], Proofs(r))
  /\ Put(r, Prepared(run[r], copy[r]), {"inv"})
  /\ Hold(r) /\ GoTo(r, "commit")
  /\ UNCHANGED <<disk, inflight, aborted, fence>>

(* commitWorkingCopy refuses a snapshot equal to the base. *)
FinalizeCommit(r) ==
  /\ Step(r, "commit") /\ Current(r) /\ copy[r] # Tip
  /\ AppendBy(r) /\ Drop(r)
  /\ GoTo(r, "committed")
  /\ UNCHANGED <<run, seen, live, evid, tomb, locks, inflight, aborted, mem, fence>>

(* Revision saved, removal of the working copy failed: the caller sees an    *)
(* error although the effect happened.                                       *)
CommitLost(r) ==
  /\ Step(r, "commit") /\ Current(r) /\ copy[r] # Tip
  /\ AppendBy(r)
  /\ Release(r) /\ Back(r, "failing")
  /\ UNCHANGED <<run, seen, live, copy, evid, tomb, inflight, aborted, mem, fence>>

FinalizeComplete(r) ==
  /\ Step(r, "committed") /\ "inv" \in seen[r]
  /\ Put(r, Completed(run[r]), {"drv"})
  /\ mem' = mem \ {r}
  /\ Release(r) /\ Leave(r, "terminal")
  /\ UNCHANGED <<disk, inflight, aborted, fence>>

(* Storage refuses at either side of the barrier. *)
FinalizeThrows(r) ==
  /\ inv[r].pc \in {"commit", "committed"}
  /\ Release(r) /\ Back(r, "failing")
  /\ UNCHANGED <<durable, inflight, aborted, seen, mem, fence>>

(* Any awaited call of the loop may throw: an abort, a budget, a refusal of  *)
(* requireMutableRun, storage.                                               *)
Calling == {"loop", "reserved", "decided", "act", "prepared", "ran", "infra",
            "result", "reviewed"}
CallThrows(r) ==
  /\ inv[r].pc \in Calling /\ Free(r)
  /\ Back(r, "failing")
  /\ UNCHANGED <<run, seen, mem>> /\ RestButMem(r)

CallMarksStale(r) ==
  /\ inv[r].pc \in {"enter", "loop", "act", "infra", "result", "reviewed", "failing"}
  /\ MarkStale(r) /\ (run[r].st = "waiting_input" => Step(r, "enter"))
  /\ Back(r, "failing")

CallFindsMismatch(r) ==
  /\ inv[r].pc \in {"loop", "act"} /\ EvidenceMismatch(r)
  /\ run[r].st = "running" /\ Back(r, "failing")

(* pauseAfterFailure; what it throws is swallowed. *)
PauseAfterFailure(r) ==
  /\ Step(r, "failing") /\ Free(r)
  /\ (Exists(r) /\ Mutable(run[r], FALSE)) => ~Moved(r)
  /\ \/ Writes(r, FALSE) /\ Put(r, Paused(run[r]), {})
     \/ (Writes(r, FALSE) => "storage" \in Env) /\ UNCHANGED <<run, seen>>
  /\ Leave(r, "error") /\ Rest(r)

(* The slot and its AbortController are given back. *)
GiveBack(r) ==
  /\ GoTo(r, "off")
  /\ aborted' = [aborted EXCEPT ![r] = FALSE]
  /\ UNCHANGED <<durable, locks, inflight, seen, mem, fence>>

(* Mutants: the slot is given back while a provider call runs on, and only   *)
(* after an invocation that did not fail.                                     *)
QuiescenceAssumed(r) ==
  /\ Step(r, "quiet")
  /\ GiveBack(r)
QuiescenceOfSuccess(r) ==
  /\ Step(r, "quiet") /\ ~Busy(r) /\ inv[r].out # "error"
  /\ GiveBack(r)

QuiescenceReached(r) ==
  /\ Step(r, "quiet") /\ ~Busy(r)
  /\ GiveBack(r)

Invocation(r) ==
  \/ Enter(r) \/ EnterRefused(r)
  \/ LoopResume(r) \/ LoopMap(r) \/ LoopReserve(r) \/ LoopBudget(r) \/ LoopExit(r)
  \/ LaunchLock(r) \/ LaunchGo(r) \/ LaunchRefused(r)
  \/ ProviderAnswers(r) \/ DecisionLost(r) \/ CheckDecision(r)
  \/ ActYield(r) \/ ActRead(r) \/ ActPlan(r)
  \/ PatchWrite(r) \/ PatchSave(r) \/ PatchUndo(r) \/ PatchQuarantine(r)
  \/ SandboxPrepare(r) \/ SandboxLaunch(r) \/ SandboxEnds(r) \/ SandboxBreaks(r)
  \/ ExecReturns(r) \/ CheckEvidence(r) \/ PersistEvidence(r) \/ EvidenceBreaks(r)
  \/ RecordInfra(r) \/ RecordResult(r)
  \/ ReviewStart(r) \/ ReviewEnds(r) \/ RecordReview(r)
  \/ FinalizePrepare(r) \/ FinalizeCommit(r) \/ CommitLost(r) \/ FinalizeComplete(r)
  \/ FinalizeThrows(r) \/ CallThrows(r) \/ CallMarksStale(r) \/ CallFindsMismatch(r)
  \/ PauseAfterFailure(r) \/ QuiescenceReached(r)

--------------------------------------------------------------------------------
(* The lifecycle fence of a group, and the environment. *)

(* interruptByBinding *)
Interrupt(r) == aborted' = [aborted EXCEPT ![r] = aborted[r] \/ ~SlotFree(r)]

FenceStart(r) ==
  /\ "fence" \in Env /\ r \in Group /\ fence.pc = "off" /\ Alive(r)
  /\ Interrupt(r)
  /\ fence' = [pc |-> "interrupt", run |-> r, watch |-> FALSE]
  /\ UNCHANGED <<durable, locks, inv, inflight, seen, mem>>

FenceInterrupted(r) ==
  /\ fence.pc = "interrupt" /\ fence.run = r /\ SlotFree(r)
  /\ fence' = [fence EXCEPT !.pc = "read"]
  /\ UNCHANGED <<durable, locks, inv, inflight, aborted, seen, mem>>

(* cancelByAdmissionFence reads the run, aborts the operations it finds then, *)
(* and waits for those; the slot may have been taken again meanwhile.          *)
FenceDrain(r) ==
  /\ fence.pc = "read" /\ fence.run = r
  /\ fence' = IF Alive(r) THEN [pc |-> "drain", run |-> r, watch |-> Busy(r)]
                          ELSE NoFence
  /\ UNCHANGED <<durable, locks, inv, inflight, aborted, seen, mem>>

FenceLock(r) ==
  /\ fence.pc = "drain" /\ fence.run = r /\ rlock[r] = None
  /\ fence.watch => ~Busy(r)
  /\ rlock' = [rlock EXCEPT ![r] = "fence"]
  /\ fence' = [fence EXCEPT !.pc = "save"]
  /\ UNCHANGED <<durable, auth, proj, inv, inflight, aborted, seen, mem>>

FenceTimeout(r) ==
  /\ fence.pc = "drain" /\ fence.run = r /\ fence.watch /\ Busy(r)
  /\ fence' = NoFence
  /\ UNCHANGED <<durable, locks, inv, inflight, aborted, seen, mem>>

FenceSave(r) ==
  /\ fence.pc = "save" /\ fence.run = r
  /\ IF Alive(r) /\ run[r].pend = None
     THEN /\ Put(r, Cancelled(run[r]), {})
          /\ fence' = [fence EXCEPT !.pc = "dispose"]
          /\ UNCHANGED rlock
     ELSE /\ fence' = NoFence
          /\ rlock' = [rlock EXCEPT ![r] = None]
          /\ UNCHANGED <<run, seen>>
  /\ UNCHANGED <<disk, auth, proj, inv, inflight, aborted, mem>>

(* disposeWorkingCopyReferenceForRunFence queues for the project. *)
FenceDispose(r) ==
  /\ fence.pc = "dispose" /\ fence.run = r /\ proj = None
  /\ Drop(r)
  /\ mem' = mem \ {r}
  /\ fence' = NoFence
  /\ rlock' = [rlock EXCEPT ![r] = None]
  /\ UNCHANGED <<run, hist, live, evid, tomb, auth, proj, inv, inflight, aborted, seen>>

Fence(r) ==
  \/ FenceInterrupted(r) \/ FenceDrain(r) \/ FenceLock(r)
  \/ FenceTimeout(r) \/ FenceSave(r) \/ FenceDispose(r)

(* rollback, import or refresh by another path: none of them looks at runs. *)
ProjectMoves ==
  /\ "move" \in Env /\ ProjectFree /\ Available /\ Len(hist) < MaxHist
  /\ \E s \in Snaps \ {Tip} : hist' = Append(hist, [by |-> None, snap |-> s])
  /\ UNCHANGED <<run, live, copy, evid, tomb, volatile>>

LeaseExpires(r) ==
  /\ Exists(r) /\ run[r].writer = "other"
  /\ run' = [run EXCEPT ![r].writer = "expired"]
  /\ UNCHANGED <<disk, volatile>>

(* The process dies; its successor has another writerId. *)
Restarted ==
  /\ run' = [r \in Runs |->
               IF Exists(r) /\ run[r].writer = "mine"
               THEN [run[r] EXCEPT !.writer = "other"] ELSE run[r]]
  /\ auth' = None /\ proj' = None /\ rlock' = [r \in Runs |-> None]
  /\ inv' = [r \in Runs |-> Idle]
  /\ inflight' = [r \in Runs |-> 0]
  /\ aborted' = [r \in Runs |-> FALSE]
  /\ seen' = [r \in Runs |-> {}]
  /\ mem' = {}
  /\ fence' = NoFence
  /\ UNCHANGED disk

Crash == "crash" \in Env /\ Restarted

Member(r) ==
  \/ (Start(r) /\ UNCHANGED locks)
  \/ Revise(r) \/ Cancel(r) \/ Recover(r) \/ Advance(r)
  \/ (MarkStale(r) /\ UNCHANGED inv)
  \/ (EvidenceMismatch(r) /\ UNCHANGED inv)

Next ==
  \/ \E r \in Runs : \/ Member(r) \/ Invocation(r) \/ ProviderSettles(r)
                     \/ FenceStart(r) \/ Fence(r) \/ LeaseExpires(r)
  \/ ProjectMoves \/ Crash

Spec == Init /\ [][Next]_vars
--------------------------------------------------------------------------------
(* Every variable has its type. *)
TypeOK ==
  /\ run \in [Runs -> Run \cup {None}]
  /\ hist \in Seq([by : Runs \cup {None}, snap : Snaps])
  /\ live \in BOOLEAN
  /\ copy \in [Runs -> Snaps \cup {None}]
  /\ evid \subseteq Runs \X Receipt
  /\ auth \in Runs \cup {None, "member"} /\ proj \in Runs \cup {None}
  /\ rlock \in [Runs -> Runs \cup {None, "fence"}]
  /\ inv \in [Runs -> [pc : InvPc, at : Receipt \cup {None}, ok : BOOLEAN, out : Outcome]]
  /\ inflight \in [Runs -> Nat]
  /\ aborted \in [Runs -> BOOLEAN]
  /\ seen \in [Runs -> SUBSET {"inv", "drv"}]
  /\ mem \subseteq Runs
  /\ fence \in [pc : {"off", "interrupt", "read", "drain", "save", "dispose"},
                run : Runs \cup {None}, watch : BOOLEAN]

(* A revision a run adds to the project is the exact diff that passed the    *)
(* validators, whose evidence is durable, and that the review approved, at    *)
(* the newest instruction and on the revision the run started from, also     *)
(* when a recovery commits it after a crash.                                  *)
CommitIsProved ==
  [][\A r \in Runs :
       (Len(hist') > Len(hist) /\ Last(hist').by = r) =>
          /\ run[r].pend = <<run[r].instr, Last(hist').snap>>
          /\ run[r].pend \in run[r].passed \cap run[r].approved \cap Proofs(r)
          /\ CurrentPlan(run[r])
          /\ run[r].base = Len(hist)]_hist

(* The status tells the truth about the project: a completed run is in the   *)
(* history exactly once, and a run whose effect is there is completed or      *)
(* still on its barrier, never cancelled, failed, stale or partial.           *)
EffectHonest ==
  \A r \in Runs :
    /\ Cardinality(CommittedBy(r)) <= 1
    /\ CommittedBy(r) # {} => run[r].st \in {"completed", "validating"}
    /\ (Exists(r) /\ run[r].st = "completed") => CommittedBy(r) # {}

(* A terminal run changes nothing any more: not its record, not the project, *)
(* and its working copy can only disappear.  A fence may overtake a validator *)
(* whose evidence is being written; what is then still added to the run is of *)
(* the instruction and the diff it ended with.                                *)
TerminalIsFinal ==
  [][\A r \in Runs :
       (Exists(r) /\ Terminal(run[r])) =>
          /\ run'[r].st = run[r].st /\ run'[r].diff = run[r].diff
          /\ copy'[r] \in {copy[r], None}
          /\ Len(hist') > Len(hist) => Last(hist').by # r
          /\ Proofs(r) \subseteq Proofs(r)'
          /\ Proofs(r)' \subseteq Proofs(r) \cup {<<run[r].instr, run[r].diff>>}]_vars

(* A run never has two provider calls in flight, and one that outlives its   *)
(* invocation keeps the slot.                                                 *)
NoOverlap ==
  \A r \in Runs : inflight[r] <= 1 /\ (Busy(r) => ~SlotFree(r))

(* While a run can still be worked on, the tree in memory is the one its      *)
(* record describes, so the checks made on the one hold for the other.        *)
TreeMatchesRecord ==
  \A r \in mem : (Alive(r) /\ run[r].pend = None /\ rlock[r] # r) => copy[r] = run[r].diff

================================================================================
