---------------------------- MODULE ProjectDeletion ----------------------------
(***************************************************************************)
(* Deleting a project: ProjectDeletionCoordinator, its tombstone, and the     *)
(* ProjectDeletionRecoveryWorker, composed with the coding runs of the        *)
(* project.  The tombstone (`tomb`) hides the project from every ordinary     *)
(* caller (CodingEngine!Available); five steps, each recorded after its        *)
(* effect, remove what is left.  resumeDurable works under the queue of the    *)
(* deletion alone, resume also holds the workspace authority (`del.by`).       *)
(***************************************************************************)
EXTENDS CodingEngine

CONSTANT MaxCrash   \* bound: crashes in a behaviour

ASSUME MaxCrashAssumption == MaxCrash \in Nat

VARIABLES
  del,      \* the resumption in progress: who, and the runs still to visit
  crashes   \* counts crashes, for the bound

dvars == <<vars, del, crashes>>
others == <<run, hist, live, copy, evid, volatile, crashes>>

Steps == <<"runs_fenced", "evidence_removed", "runs_removed", "github_detached",
           "project_removed">>
Tombstone == [status : {"requested", "cleanup_required", "completed"},
              steps : 0 .. 5, ids : SUBSET Runs]
ASSUME NoTombIsNone == None \notin Tombstone

NewTomb == [status |-> "requested", steps |-> 0, ids |-> {}]
NoResume == [pc |-> "off", by |-> "worker", todo |-> {}, done |-> FALSE]

Tombed == tomb # None
Incomplete == Tombed /\ tomb.status # "completed"
Existing == {r \in Runs : Exists(r)}

DelInit == Init /\ del = NoResume /\ crashes = 0

(* Mutant: runs on the commit barrier are not looked for. *)
RequestBlindly ==
  /\ ProjectFree /\ Available
  /\ tomb' = NewTomb
  /\ UNCHANGED <<others, del>>

(* request, under authority and project: refused while a run is on the       *)
(* commit barrier.                                                            *)
Request ==
  /\ ProjectFree /\ Available
  /\ \A r \in Existing : run[r].pend = None
  /\ tomb' = NewTomb
  /\ UNCHANGED <<others, del>>

NextStage ==
  CASE tomb.steps = 0 -> "quiesce"
    [] OTHER -> Steps[tomb.steps + 1]

(* Mutant: the query leaves out records in cleanup_required. *)
ResumeRequested(by) ==
  /\ del.pc = "off" /\ Incomplete /\ tomb.status = "requested"
  /\ by = "member" => auth = None
  /\ auth' = IF by = "member" THEN "member" ELSE auth
  /\ del' = [NoResume EXCEPT !.by = by, !.pc = NextStage, !.todo = Existing]
  /\ UNCHANGED <<durable, proj, rlock, inv, inflight, aborted, seen, mem, fence, crashes>>

Resume(by) ==
  /\ del.pc = "off" /\ Incomplete
  /\ by = "member" => auth = None
  /\ auth' = IF by = "member" THEN "member" ELSE auth
  /\ del' = [NoResume EXCEPT !.by = by, !.pc = NextStage, !.todo = Existing]
  /\ UNCHANGED <<durable, proj, rlock, inv, inflight, aborted, seen, mem, fence, crashes>>

Letting == auth' = IF del.by = "member" THEN None ELSE auth

(* Mutant: a failure starts the deletion over. *)
GiveUpAnew ==
  /\ tomb' = [tomb EXCEPT !.status = "cleanup_required", !.steps = 0]
  /\ del' = NoResume
  /\ Letting

(* Any error is recorded, and the resumption is over. *)
GiveUp ==
  /\ tomb' = [tomb EXCEPT !.status = "cleanup_required"]
  /\ del' = NoResume
  /\ Letting

(* completeStep: the step is recorded after its effect. *)
Record(n) ==
  /\ tomb' = [tomb EXCEPT !.steps = n, !.status = IF n = 5 THEN "completed" ELSE "requested"]
  /\ del' = IF n = 5 THEN NoResume
            ELSE [del EXCEPT !.pc = Steps[n + 1], !.todo = Existing, !.done = FALSE]
  /\ IF n = 5 THEN Letting ELSE UNCHANGED auth

Still == UNCHANGED <<proj, rlock, inv, inflight, aborted, fence, crashes>>

(* cancelAndFenceForDeletion aborts the operations in flight of every run    *)
(* and awaits them, with a deadline.                                          *)
Quiesced(r) ==
  /\ del.pc = "quiesce" /\ r \in del.todo /\ ~Busy(r)
  /\ del' = [del EXCEPT !.todo = @ \ {r}]
  /\ UNCHANGED <<durable, volatile, crashes>>

QuiesceTimeout(r) ==
  /\ del.pc = "quiesce" /\ r \in del.todo /\ Busy(r)
  /\ GiveUp
  /\ UNCHANGED <<run, hist, live, copy, evid, seen, mem>> /\ Still

AllQuiet ==
  /\ del.pc = "quiesce" /\ del.todo = {}
  /\ del' = [del EXCEPT !.pc = Steps[1], !.todo = Existing]
  /\ UNCHANGED <<durable, volatile, crashes>>

(* Then, one run queue after the other: cancel, dispose.  A run on its commit *)
(* barrier would block the fence for ever: see NoBarrierBehind.               *)
FenceSaved(r) ==
  /\ del.pc = Steps[1] /\ r \in del.todo /\ rlock[r] = None /\ proj = None
  /\ run[r].pend = None
  /\ IF Terminal(run[r]) THEN UNCHANGED <<run, seen>> ELSE Put(r, Cancelled(run[r]), {})
  /\ UNCHANGED <<hist, live, evid>> /\ Still

(* Mutant: the working copy is left. *)
FenceRunKeepsCopy(r) ==
  /\ FenceSaved(r)
  /\ mem' = mem \ {r}
  /\ del' = [del EXCEPT !.todo = @ \ {r}]
  /\ UNCHANGED <<copy, tomb, auth>>

FenceRun(r) ==
  /\ FenceSaved(r)
  /\ Drop(r)
  /\ mem' = mem \ {r}
  /\ del' = [del EXCEPT !.todo = @ \ {r}]
  /\ UNCHANGED <<tomb, auth>>

FenceRunFails(r) ==
  /\ "storage" \in Env
  /\ FenceSaved(r) /\ GiveUp
  /\ UNCHANGED <<copy, mem>>

(* The runs that were fenced are listed first, in a save of its own.         *)
RunsFenced ==
  /\ del.pc = Steps[1] /\ del.todo = {} /\ ~del.done
  /\ tomb' = [tomb EXCEPT !.ids = @ \cup Existing]
  /\ del' = [del EXCEPT !.done = TRUE]
  /\ UNCHANGED others

RemoveEvidence ==
  /\ del.pc = Steps[2] /\ ~del.done
  /\ evid' = {e \in evid : e[1] \notin tomb.ids}
  /\ del' = [del EXCEPT !.done = TRUE]
  /\ UNCHANGED <<run, hist, live, copy, tomb, volatile, crashes>>

RemoveRun(r) ==
  /\ del.pc = Steps[3] /\ r \in del.todo \cap tomb.ids
  /\ Terminal(run[r]) /\ run[r].pend = None
  /\ run' = [run EXCEPT ![r] = None]
  /\ del' = [del EXCEPT !.todo = @ \ {r}]
  /\ UNCHANGED <<disk, volatile, crashes>>

RunsRemoved ==
  /\ del.pc = Steps[3] /\ del.todo \cap tomb.ids = {} /\ ~del.done
  /\ del' = [del EXCEPT !.done = TRUE]
  /\ UNCHANGED <<durable, volatile, crashes>>

(* detachLocalProject refuses while an external effect is unknown. *)
Detach ==
  /\ del.pc = Steps[4] /\ ~del.done
  /\ del' = [del EXCEPT !.done = TRUE]
  /\ UNCHANGED <<durable, volatile, crashes>>

EffectUnknown ==
  /\ "storage" \in Env
  /\ del.pc = Steps[4] /\ ~del.done
  /\ GiveUp
  /\ UNCHANGED <<run, hist, live, copy, evid, seen, mem>> /\ Still

RemoveProject ==
  /\ del.pc = Steps[5] /\ ~del.done /\ proj = None
  /\ live' = FALSE
  /\ copy' = [r \in Runs |-> None]
  /\ del' = [del EXCEPT !.done = TRUE]
  /\ UNCHANGED <<run, hist, evid, tomb, volatile, crashes>>

Completes(n) ==
  /\ n \in 1 .. 5 /\ del.pc = Steps[n] /\ del.done
  /\ Record(n)
  /\ UNCHANGED <<run, hist, live, copy, evid, seen, mem>> /\ Still

Work ==
  \/ \E r \in Runs : Quiesced(r) \/ FenceRun(r) \/ RemoveRun(r)
  \/ AllQuiet \/ RunsFenced \/ RemoveEvidence \/ RunsRemoved \/ Detach
  \/ RemoveProject \/ \E n \in 1 .. 5 : Completes(n)

DelCrash ==
  /\ crashes < MaxCrash
  /\ Restarted
  /\ del' = NoResume /\ crashes' = crashes + 1

Coding(r) ==
  /\ \/ Member(r) \/ Invocation(r) \/ ProviderSettles(r) \/ LeaseExpires(r)
  /\ UNCHANGED <<del, crashes>>

DelNext ==
  \/ Request \/ (\E by \in {"worker", "member"} : Resume(by))
  \/ Work \/ EffectUnknown \/ DelCrash
  \/ \E r \in Runs : QuiesceTimeout(r) \/ FenceRunFails(r)
  \/ \E r \in Runs : Coding(r)

DelSpec == DelInit /\ [][DelNext]_dvars

(* The worker comes back at every interval; what is in flight ends, or the    *)
(* deadline of the wait passes; the queues are first come, first served; a    *)
(* disposal does not fail and a GitHub effect is not unknown for ever.         *)
FairDelSpec ==
  /\ DelSpec
  /\ SF_dvars(Resume("worker")) /\ SF_dvars(Work) /\ SF_dvars(Detach)
  /\ \A r \in Runs : /\ WF_dvars(QuiesceTimeout(r)) /\ SF_dvars(FenceRun(r))
                     /\ SF_dvars(Invocation(r) /\ UNCHANGED <<del, crashes>>)
                     /\ WF_dvars(ProviderSettles(r) /\ UNCHANGED <<del, crashes>>)

--------------------------------------------------------------------------------
(* Every variable has its type. *)
DelTypeOK ==
  /\ TypeOK
  /\ tomb \in Tombstone \cup {None}
  /\ del \in [pc : {"off", "quiesce"} \cup {Steps[n] : n \in 1 .. 5},
              by : {"worker", "member"}, todo : SUBSET Runs, done : BOOLEAN]

(* What a recorded step has removed stays removed, whatever was in flight    *)
(* when the tombstone was written: no live run, no working copy, no evidence, *)
(* no record, no project comes back behind it.                                *)
StaysRemoved ==
  Tombed =>
    /\ tomb.steps >= 1 => \A r \in Existing :
         Terminal(run[r]) /\ run[r].pend = None /\ copy[r] = None /\ r \in tomb.ids
    /\ tomb.steps >= 2 => evid = {}
    /\ tomb.steps >= 3 => Existing = {}
    /\ tomb.steps >= 5 => ~live

(* The fence of a deletion is never blocked by a commit barrier: a project   *)
(* is not marked while one of its runs is on it, and no run enters it later.   *)
NoBarrierBehind == Tombed => \A r \in Existing : run[r].pend = None

(* From the tombstone on nothing is added to the project, not even by calls   *)
(* that were admitted before it.                                              *)
Frozen ==
  [][Tombed => /\ hist' = hist /\ evid' \subseteq evid /\ tomb' # None
               /\ Existing' \subseteq Existing
               /\ \A r \in Runs : copy'[r] \in {copy[r], None}]_dvars

(* The repository accepts what the coordinator saves, in every resumption,    *)
(* after every failure: its validateTransition refuses a step taken back or    *)
(* left out, a run listed or dropped behind the fence, a completed record that *)
(* changes, and one that is completed without its last step.  A refused save   *)
(* would fail at every resumption.                                            *)
RecordsAccepted ==
  [][Tombed => \/ tomb' = tomb
               \/ /\ tomb.status # "completed"
                  /\ tomb'.steps \in {tomb.steps, tomb.steps + 1}
                  /\ tomb.ids \subseteq tomb'.ids
                  /\ tomb.steps >= 1 => tomb'.ids = tomb.ids
                  /\ tomb'.status = "completed" <=> tomb'.steps = 5]_dvars

(* A deletion that was accepted is completed; a project once marked stays so. *)
DeletionCompletes == []<>(Tombed => tomb.status = "completed")

================================================================================
