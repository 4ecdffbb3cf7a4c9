------------------------------ MODULE SandboxLease ------------------------------
(***************************************************************************)
(* Sandbox leases: SandboxRunnerService, the durable lease journal it writes *)
(* ahead of every remote call, and the OCI backend behind SandboxTransport.   *)
(*                                                                         *)
(* The state of a record is its lifecycle state; its revision is reduced to   *)
(* what a compare-and-swap tells apart, whether the runner's copy is the      *)
(* journal's (`stale` names the copies that are not).  The holder of          *)
(* exclusive(l) is `op[l]`, the holder of exclusiveAdmission is `adm` or a     *)
(* drain.  Every lease is of one owner and one project, so the two admission  *)
(* limits are one, and fenceProjectRuns is asked for that project.  Time is    *)
(* left out: a lease may be found expired, a call may time out, at any        *)
(* moment.  Artifacts, attestations, digests and limits are left out.         *)
(***************************************************************************)
EXTENDS Integers, FiniteSets

CONSTANTS
  Leases,    \* bound: lease ids that are ever generated
  Cap,       \* maxConcurrentLeases
  None,      \* null
  Env        \* environment: subset of {"crash", "restart", "io"}

State == {"allocating", "active", "quarantined", "disposing"}

ASSUME LeaseAssumption ==
  Cap \in Nat \ {0} /\ None \notin State \cup Leases /\ IsFiniteSet(Leases)

VARIABLES
  journal,   \* durable: state of the record of every lease, or None
  used,      \* ids generated so far
  mem,       \* records: the runner's copy, or None
  stale,     \* copies whose revision is no longer the journal's
  lease,     \* leases: handles that were given out
  banned,    \* volatileQuarantine
  adm,       \* the allocation that was called, its queue included
  op,        \* holder of exclusive(l)
  sweep,     \* recovery, fenceProjectRuns or drain over the records
  late,      \* late cleanups scheduled by timed-out allocations
  phase,     \* acceptingOperations, maintenanceSealed, drained
  recovered, \* recovered
  box,       \* backend: leases with a container
  bk,        \* backend, durable: record of every lease
  work,      \* backend: allocations in progress
  net        \* requests on their way to the backend

runner == <<mem, stale, lease, banned>>
backend == <<box, bk, work>>
vars == <<journal, used, runner, adm, op, sweep, late, phase, recovered,
          backend, net>>

By == {"nobody", "client", "adm", "sweep", "late"}
OpPc == {"off", "exec", "quarantine", "doubt", "dispose", "reject", "retry",
         "fencing", "remove"}
NoOp == [pc |-> "off", by |-> "nobody"]
AdmPc == {"off", "queued", "expired", "unresolved", "check", "sent", "activate",
          "cleanup"}
NoAdm == [pc |-> "off", l |-> None, todo |-> {}]
(* bad: something failed; of an ended sweep: it was not a project fence that *)
(* succeeded.                                                                 *)
NoSweep == [kind |-> "off", todo |-> {}, bad |-> TRUE]
Sweep(kind, todo) == [kind |-> kind, todo |-> todo, bad |-> FALSE]

Init ==
  /\ journal = [l \in Leases |-> None] /\ used = {}
  /\ mem = [l \in Leases |-> None] /\ stale = {}
  /\ lease = {} /\ banned = {}
  /\ adm = NoAdm /\ op = [l \in Leases |-> NoOp] /\ sweep = NoSweep
  /\ late = {} /\ phase = "open" /\ recovered = FALSE
  /\ box = {} /\ bk = [l \in Leases |-> "none"] /\ work = {}
  /\ net = {}

Known == {l \in Leases : mem[l] # None}
Journaled == {l \in Leases : journal[l] # None}
Busy(by) == \E l \in Leases : op[l].by = by
Free(l) == op[l].pc = "off"

--------------------------------------------------------------------------------
(* The journal.  An outcome is what the store and the runner hold after one   *)
(* compare-and-swap: [j, m] the two copies, s whether m is stale, ok whether  *)
(* the caller saw a success.                                                  *)

Outcome(j, m, s, ok) == [j |-> j, m |-> m, s |-> s, ok |-> ok]

(* transitionRecord, and journal.remove in fenceAndRemove (to = None).  With   *)
(* failing I/O a write is refused (what the loser of two concurrent           *)
(* compare-and-swaps sees as well), or is durable and its answer lost; then    *)
(* the record is read again, or that fails too.                               *)
Outcomes(l, to) ==
  IF mem[l] = None
  THEN {Outcome(journal[l], None, FALSE, FALSE)}
  ELSE IF l \in stale
  THEN {Outcome(journal[l], journal[l], FALSE, FALSE)}
       \cup (IF "io" \in Env THEN {Outcome(journal[l], mem[l], TRUE, FALSE)} ELSE {})
  ELSE {Outcome(to, to, FALSE, TRUE)}
       \cup (IF "io" \in Env
             THEN {Outcome(journal[l], mem[l], FALSE, FALSE),
                   Outcome(to, to, FALSE, FALSE),
                   Outcome(to, mem[l], TRUE, FALSE)}
             ELSE {})

Apply(l, o) ==
  /\ journal' = [journal EXCEPT ![l] = o.j]
  /\ mem' = [mem EXCEPT ![l] = o.m]
  /\ stale' = IF o.s THEN stale \cup {l} ELSE stale \ {l}

(* journal.list, and the copies it replaces. *)
Reload ==
  /\ mem' = journal /\ stale' = {}
  /\ lease' = lease \cap Journaled /\ banned' = banned \cap Journaled
  /\ UNCHANGED journal

--------------------------------------------------------------------------------
(* One operation of a lease, under exclusive(l). *)

MoveTo(l, pc) ==
  /\ op' = [op EXCEPT ![l].pc = pc]
  /\ net' = IF pc = "fencing" THEN net \cup {<<l, "fence">>} ELSE net

Finish(l, failed) ==
  /\ op' = [op EXCEPT ![l] = NoOp]
  /\ sweep' = IF failed /\ op[l].by = "sweep" THEN [sweep EXCEPT !.bad = TRUE] ELSE sweep

(* transitionToDisposing has nothing to write for a record that is disposing. *)
Begin(l, pc, by) ==
  LET first == IF mem[l] = "disposing" THEN "fencing" ELSE pc IN
  /\ op' = [op EXCEPT ![l] = [pc |-> first, by |-> by]]
  /\ net' = IF first = "fencing" THEN net \cup {<<l, "fence">>} ELSE net

(* transitionToDisposing: a save whose answer is lost counts when the record  *)
(* that is read again is disposing.                                           *)
ToDisposing(l) ==
  /\ op[l].pc = "dispose"
  /\ \E o \in Outcomes(l, "disposing") :
       /\ Apply(l, o)
       /\ IF o.m = "disposing" THEN MoveTo(l, "fencing") /\ UNCHANGED sweep
                               ELSE Finish(l, TRUE) /\ UNCHANGED net
  /\ UNCHANGED <<used, lease, banned, adm, late, phase, recovered, backend>>

(* cleanupRejectedAllocation: one more try on the record that was reloaded. *)
Reject(l) ==
  /\ op[l].pc = "reject"
  /\ \E o \in Outcomes(l, "disposing") :
       /\ Apply(l, o)
       /\ IF o.m = None
          THEN Finish(l, FALSE) /\ UNCHANGED net
          ELSE MoveTo(l, IF o.m = "disposing" THEN "fencing" ELSE "retry") /\ UNCHANGED sweep
  /\ UNCHANGED <<used, lease, banned, adm, late, phase, recovered, backend>>

Retry(l) ==
  /\ op[l].pc = "retry"
  /\ \E o \in Outcomes(l, "disposing") :
       /\ Apply(l, o)
       /\ IF o.ok THEN MoveTo(l, "fencing") /\ UNCHANGED sweep
                  ELSE Finish(l, TRUE) /\ UNCHANGED net
  /\ UNCHANGED <<used, lease, banned, adm, late, phase, recovered, backend>>

(* quarantineAfterAmbiguousOperation, its two transitions. *)
Quarantine(l) ==
  /\ op[l].pc = "quarantine"
  /\ IF mem[l] = "active"
     THEN \E o \in Outcomes(l, "quarantined") :
            /\ Apply(l, o)
            /\ IF ~o.ok /\ o.m \in {"active", None} THEN Finish(l, TRUE)
                                          ELSE MoveTo(l, "doubt") /\ UNCHANGED sweep
            /\ UNCHANGED net
     ELSE /\ IF mem[l] = None THEN Finish(l, TRUE)
                              ELSE MoveTo(l, "doubt") /\ UNCHANGED sweep
          /\ UNCHANGED <<journal, mem, stale, net>>
  /\ UNCHANGED <<used, lease, banned, adm, late, phase, recovered, backend>>

Doubt(l) ==
  /\ op[l].pc = "doubt"
  /\ IF mem[l] = "disposing"
     THEN MoveTo(l, "fencing") /\ UNCHANGED <<journal, mem, stale, sweep>>
     ELSE \E o \in Outcomes(l, "disposing") :
            /\ Apply(l, o)
            /\ IF o.m = "disposing" THEN MoveTo(l, "fencing") /\ UNCHANGED sweep
                                    ELSE Finish(l, TRUE) /\ UNCHANGED net
  /\ UNCHANGED <<used, lease, banned, adm, late, phase, recovered, backend>>

(* fenceAndRemove without a receipt: the call fails or times out. *)
FenceUnconfirmed(l) ==
  /\ op[l].pc = "fencing"
  /\ IF mem[l] = "disposing"
     THEN \E o \in Outcomes(l, "disposing") : Apply(l, o)
     ELSE UNCHANGED <<journal, mem, stale>>
  /\ Finish(l, TRUE)
  /\ UNCHANGED <<used, lease, banned, adm, late, phase, recovered, backend, net>>

(* fenceAndRemove with a receipt.  A removal whose answer is lost counts when *)
(* the record is found to be gone; one that meets a newer revision does not.   *)
Remove(l) ==
  /\ op[l].pc = "remove"
  /\ IF mem[l] = None
     THEN Finish(l, TRUE) /\ UNCHANGED <<journal, runner>>
     ELSE \E o \in Outcomes(l, None) :
            LET done == o.m = None /\ (l \in stale => "io" \in Env) IN
            /\ Apply(l, o)
            /\ \/ /\ done
                  /\ lease' = lease \ {l} /\ banned' = banned \ {l}
                  /\ Finish(l, FALSE)
               \/ /\ ~done \/ l \in stale
                  /\ UNCHANGED <<lease, banned>>
                  /\ Finish(l, TRUE)
  /\ UNCHANGED <<used, adm, late, phase, recovered, backend, net>>

--------------------------------------------------------------------------------
(* execute, captureSnapshot, readArtifact and dispose. *)

(* Mutant: only the journal tells that a lease is quarantined. *)
UsableByJournal(l) == l \in lease /\ mem[l] = "active"

(* currentLease *)
Usable(l) == l \in lease /\ mem[l] = "active" /\ l \notin banned

Exec(l) ==
  /\ phase = "open" /\ recovered /\ Free(l) /\ Usable(l)
  /\ op' = [op EXCEPT ![l] = [pc |-> "exec", by |-> "client"]]
  /\ UNCHANGED <<journal, used, runner, adm, sweep, late, phase, recovered, backend, net>>

ExecDone(l) ==
  /\ op[l].pc = "exec"
  /\ op' = [op EXCEPT ![l] = NoOp]
  /\ UNCHANGED <<journal, used, runner, adm, sweep, late, phase, recovered, backend, net>>

(* A timeout, an abort or an answer that does not validate. *)
ExecDoubt(l) ==
  /\ op[l].pc = "exec"
  /\ banned' = banned \cup {l}
  /\ op' = [op EXCEPT ![l].pc = "quarantine"]
  /\ UNCHANGED <<journal, used, mem, stale, lease, adm, sweep, late, phase, recovered,
                 backend, net>>

Dispose(l) ==
  /\ phase \in {"open", "stopped"} /\ recovered /\ Free(l)
  /\ l \in lease /\ mem[l] # None
  /\ Begin(l, "dispose", "client")
  /\ UNCHANGED <<journal, used, runner, adm, sweep, late, phase, recovered, backend>>

--------------------------------------------------------------------------------
(* allocate: one call at a time stands for the admission queue. *)

Allocate ==
  /\ phase = "open" /\ adm.pc = "off"
  /\ adm' = [NoAdm EXCEPT !.pc = "queued"]
  /\ UNCHANGED <<journal, used, runner, op, sweep, late, phase, recovered, backend, net>>

AdmStart ==
  /\ adm.pc = "queued" /\ recovered /\ sweep.kind # "drain"
  /\ \E expired \in SUBSET lease :
       adm' = [adm EXCEPT !.pc = "expired", !.todo = expired]
  /\ UNCHANGED <<journal, used, runner, op, sweep, late, phase, recovered, backend, net>>

(* reapExpiredLeases, reapUnresolvedRecords, or the cleanup of the lease that *)
(* was refused: each lease is waited for and its failure ignored.             *)
AdmTake(l) ==
  /\ l \in adm.todo /\ ~Busy("adm") /\ Free(l)
  /\ adm' = [adm EXCEPT !.todo = @ \ {l}]
  /\ IF mem[l] # None /\ (adm.pc = "expired" => l \in lease)
     THEN Begin(l, IF adm.pc = "expired" THEN "dispose" ELSE "reject", "adm")
     ELSE UNCHANGED <<op, net>>
  /\ UNCHANGED <<journal, used, runner, sweep, late, phase, recovered, backend>>

AdmNext ==
  /\ adm.pc \in {"expired", "unresolved", "cleanup"} /\ adm.todo = {} /\ ~Busy("adm")
  /\ adm' = CASE adm.pc = "expired" ->
                   [adm EXCEPT !.pc = "unresolved",
                               !.todo = {l \in Known : mem[l] # "active"}]
              [] adm.pc = "unresolved" -> [adm EXCEPT !.pc = "check"]
              [] OTHER -> NoAdm
  /\ UNCHANGED <<journal, used, runner, op, sweep, late, phase, recovered, backend, net>>

(* The backend is not healthy, or the limit is reached. *)
AdmRefuse ==
  /\ adm.pc = "check"
  /\ adm' = NoAdm
  /\ UNCHANGED <<journal, used, runner, op, sweep, late, phase, recovered, backend, net>>

(* Mutant: leases are counted, not records. *)
HasRoomForLease == Cardinality(lease) < Cap

HasRoom == Cardinality(Known) < Cap

CreateSaved(l) ==
  /\ journal' = [journal EXCEPT ![l] = "allocating"]
  /\ mem' = [mem EXCEPT ![l] = "allocating"]
  /\ adm' = [NoAdm EXCEPT !.pc = "sent", !.l = l]
  /\ net' = net \cup {<<l, "alloc">>}

(* createRecord fails: nothing is durable, or the record is and is cleaned    *)
(* up, or it is and the runner does not know.                                 *)
CreateFails(l) ==
  /\ "io" \in Env
  /\ \/ adm' = NoAdm /\ UNCHANGED <<journal, mem>>
     \/ /\ journal' = [journal EXCEPT ![l] = "allocating"]
        /\ mem' = [mem EXCEPT ![l] = "allocating"]
        /\ adm' = [NoAdm EXCEPT !.pc = "cleanup", !.todo = {l}]
     \/ /\ journal' = [journal EXCEPT ![l] = "allocating"]
        /\ adm' = NoAdm /\ UNCHANGED mem
  /\ UNCHANGED net

AdmCreate(l) ==
  /\ adm.pc = "check" /\ HasRoom /\ l \notin used
  /\ used' = used \cup {l}
  /\ CreateSaved(l) \/ CreateFails(l)
  /\ UNCHANGED <<stale, lease, banned, op, sweep, late, phase, recovered, backend>>

(* The call fails, times out or answers what is not a lease.  The late        *)
(* settlement of a call that timed out schedules one more cleanup.            *)
AllocFails ==
  /\ adm.pc \in {"sent", "activate"}
  /\ adm' = [NoAdm EXCEPT !.pc = "cleanup", !.todo = {adm.l}]
  /\ \/ UNCHANGED late
     \/ adm.pc = "sent" /\ late' = late \cup {adm.l}
  /\ UNCHANGED <<journal, used, runner, op, sweep, phase, recovered, backend, net>>

Activate ==
  /\ adm.pc = "activate" /\ mem[adm.l] = "allocating"
  /\ \E o \in Outcomes(adm.l, "active") :
       /\ Apply(adm.l, o)
       /\ IF o.ok
          THEN adm' = NoAdm /\ lease' = lease \cup {adm.l}
          ELSE adm' = [NoAdm EXCEPT !.pc = "cleanup", !.todo = {adm.l}] /\ UNCHANGED lease
  /\ UNCHANGED <<used, banned, op, sweep, late, phase, recovered, backend, net>>

LateCleanup(l) ==
  /\ l \in late /\ Free(l)
  /\ late' = late \ {l}
  /\ IF mem[l] # None THEN Begin(l, "reject", "late") ELSE UNCHANGED <<op, net>>
  /\ UNCHANGED <<journal, used, runner, adm, sweep, phase, recovered, backend>>

--------------------------------------------------------------------------------
(* Recovery, fenceProjectRuns and drain: each fences the records one by one. *)

(* Operations in inFlightOperations, other than a recovery of their own. *)
Tracked == adm.pc # "off" \/ Busy("client") \/ sweep.kind # "off"

DrainDue == phase = "draining" /\ ~Tracked
RecoverDue ==
  /\ ~recovered /\ sweep.kind = "off"
  /\ phase \in {"open", "stopped"} \/ adm.pc = "queued" \/ DrainDue

(* ensureRecovered of the first operation, or of a drain. *)
RecoverList ==
  /\ RecoverDue
  /\ mem' = journal /\ stale' = {} /\ lease' = {} /\ banned' = {}
  /\ sweep' = Sweep(IF DrainDue THEN "drain_recovery" ELSE "recover", Journaled)
  /\ UNCHANGED <<journal, used, adm, op, late, phase, recovered, backend, net>>

FenceProject ==
  /\ phase \in {"open", "stopped"} /\ recovered /\ sweep.kind = "off"
  /\ sweep' = Sweep("project", Known)
  /\ UNCHANGED <<journal, used, runner, adm, op, late, phase, recovered, backend, net>>

Stop ==
  /\ phase = "open"
  /\ phase' = "stopped"
  /\ UNCHANGED <<journal, used, runner, adm, op, sweep, late, recovered, backend, net>>

(* A drain that failed may be called again. *)
Drain ==
  /\ phase \in {"open", "stopped", "failed"}
  /\ phase' = "draining"
  /\ UNCHANGED <<journal, used, runner, adm, op, sweep, late, recovered, backend, net>>

(* Mutant: the tracked operations are not waited for. *)
DrainListEagerly ==
  /\ phase = "draining" /\ recovered /\ sweep.kind = "off" /\ adm.pc \in {"off", "queued"}
  /\ Reload
  /\ sweep' = Sweep("drain", Journaled)
  /\ UNCHANGED <<used, adm, op, late, phase, recovered, backend, net>>

(* drainInternal after the tracked operations: the admission queue is empty. *)
DrainList ==
  /\ DrainDue /\ recovered
  /\ Reload
  /\ sweep' = Sweep("drain", Journaled)
  /\ UNCHANGED <<used, adm, op, late, phase, recovered, backend, net>>

SweepTake(l) ==
  /\ l \in sweep.todo /\ ~Busy("sweep") /\ Free(l)
  /\ sweep' = [sweep EXCEPT !.todo = @ \ {l}]
  /\ IF mem[l] # None THEN Begin(l, "dispose", "sweep") ELSE UNCHANGED <<op, net>>
  /\ UNCHANGED <<journal, used, runner, adm, late, phase, recovered, backend>>

Swept(kind) == sweep.kind = kind /\ sweep.todo = {} /\ ~Busy("sweep")

Recovering == Swept("recover") \/ Swept("drain_recovery")

(* Mutant: a failed recovery is tried again by who waits for it. *)
RecoverEndRetries ==
  /\ Recovering
  /\ sweep' = NoSweep /\ recovered' = ~sweep.bad
  /\ UNCHANGED <<journal, used, runner, adm, op, late, phase, backend, net>>

(* A recovery that fails is the failure of every operation that awaits it. *)
RecoverEnd ==
  /\ Recovering
  /\ sweep' = NoSweep /\ recovered' = ~sweep.bad
  /\ adm' = IF sweep.bad THEN NoAdm ELSE adm
  /\ phase' = IF sweep.bad /\ sweep.kind = "drain_recovery" THEN "failed" ELSE phase
  /\ UNCHANGED <<journal, used, runner, op, late, backend, net>>

(* Mutant: records that arrived meanwhile are not looked at. *)
ProjectEndBlindly ==
  /\ Swept("project")
  /\ sweep' = [NoSweep EXCEPT !.bad = sweep.bad]
  /\ UNCHANGED <<journal, used, runner, adm, op, late, phase, recovered, backend, net>>

ProjectEnd ==
  /\ Swept("project")
  /\ sweep' = [NoSweep EXCEPT !.bad = sweep.bad \/ Known # {}]
  /\ UNCHANGED <<journal, used, runner, adm, op, late, phase, recovered, backend, net>>

DrainEnd ==
  /\ Swept("drain")
  /\ Reload
  /\ sweep' = NoSweep
  /\ phase' = IF sweep.bad \/ Journaled # {} THEN "failed" ELSE "drained"
  /\ UNCHANGED <<used, adm, op, late, recovered, backend, net>>

(* journal.list fails, for a recovery or at either end of a drain. *)
ListFails ==
  /\ "io" \in Env
  /\ RecoverDue \/ DrainDue \/ Swept("drain")
  /\ sweep' = NoSweep
  /\ adm' = NoAdm
  /\ phase' = IF DrainDue \/ Swept("drain") THEN "failed" ELSE phase
  /\ UNCHANGED <<journal, used, runner, op, late, recovered, backend, net>>

--------------------------------------------------------------------------------
(* OciSandboxBackend: allocate and cancelAndDispose exclude each other per     *)
(* lease, execute goes with them.                                             *)

(* Refused before anything is done, a fenced lease always. *)
BkRefuse(l) ==
  /\ <<l, "alloc">> \in net /\ l \notin work
  /\ net' = net \ {<<l, "alloc">>}
  /\ UNCHANGED <<journal, used, runner, adm, op, sweep, late, phase, recovered, backend>>

BkAllocate(l) ==
  /\ <<l, "alloc">> \in net /\ l \notin work /\ bk[l] \in {"none", "open"}
  /\ net' = net \ {<<l, "alloc">>}
  /\ bk' = [bk EXCEPT ![l] = "open"]
  /\ work' = work \cup {l}
  /\ UNCHANGED <<journal, used, runner, adm, op, sweep, late, phase, recovered, box>>

BkCreate(l) ==
  /\ l \in work \ box
  /\ box' = box \cup {l}
  /\ UNCHANGED <<journal, used, runner, adm, op, sweep, late, phase, recovered, bk, work, net>>

(* The answer reaches the runner or is lost. *)
BkReady(l) ==
  /\ l \in work \cap box
  /\ bk' = [bk EXCEPT ![l] = "ready"] /\ work' = work \ {l}
  /\ \/ UNCHANGED adm
     \/ /\ adm.pc = "sent" /\ adm.l = l
        /\ adm' = [adm EXCEPT !.pc = "activate"]
  /\ UNCHANGED <<journal, used, runner, op, sweep, late, phase, recovered, box, net>>

(* The container is removed and the record fenced, each only if it succeeds. *)
BkFails(l) ==
  /\ l \in work
  /\ work' = work \ {l}
  /\ box' \in {box, box \ {l}}
  /\ \E st \in {"open", "fenced"} : bk' = [bk EXCEPT ![l] = st]
  /\ UNCHANGED <<journal, used, runner, adm, op, sweep, late, phase, recovered, net>>

(* execute: a command that did not exit by itself ends the lease. *)
BkEnds(l) ==
  /\ bk[l] = "ready" /\ op[l].pc \in {"exec", "quarantine", "doubt", "fencing"}
  /\ \E st \in {"ready", "fenced"} : bk' = [bk EXCEPT ![l] = st]
  /\ box' \in {box, box \ {l}}
  /\ UNCHANGED <<journal, used, runner, adm, op, sweep, late, phase, recovered, work, net>>

(* Mutant: an id the backend has never seen is not recorded as fenced. *)
BkFenceUnrecorded(l) ==
  /\ <<l, "fence">> \in net /\ l \notin work
  /\ net' = net \ {<<l, "fence">>}
  /\ box' = box \ {l}
  /\ bk' = IF bk[l] = "none" THEN bk ELSE [bk EXCEPT ![l] = "fenced"]
  /\ op' = IF op[l].pc = "fencing" THEN [op EXCEPT ![l].pc = "remove"] ELSE op
  /\ UNCHANGED <<journal, used, runner, adm, sweep, late, phase, recovered, work>>

(* cancelAndDispose, whose receipt reaches the runner or is lost. *)
BkFence(l) ==
  /\ <<l, "fence">> \in net /\ l \notin work
  /\ net' = net \ {<<l, "fence">>}
  /\ box' = box \ {l}
  /\ bk' = [bk EXCEPT ![l] = "fenced"]
  /\ \/ UNCHANGED op
     \/ op[l].pc = "fencing" /\ op' = [op EXCEPT ![l].pc = "remove"]
  /\ UNCHANGED <<journal, used, runner, adm, sweep, late, phase, recovered, work>>

(* The container is not removed, or it is and the record cannot be written. *)
BkFenceFails(l) ==
  /\ <<l, "fence">> \in net /\ l \notin work
  /\ net' = net \ {<<l, "fence">>}
  /\ box' \in {box, box \ {l}}
  /\ UNCHANGED <<journal, used, runner, adm, op, sweep, late, phase, recovered, bk, work>>

(* initialize: active records are fenced, containers removed if they can be.  *)
BkRestart ==
  /\ "restart" \in Env
  /\ box' \in SUBSET box
  /\ bk' = [l \in Leases |-> IF bk[l] = "none" THEN "none" ELSE "fenced"]
  /\ work' = {} /\ net' = {}
  /\ UNCHANGED <<journal, used, runner, adm, op, sweep, late, phase, recovered>>

(* The process of the runner dies; what it has sent may still arrive. *)
Crash ==
  /\ "crash" \in Env
  /\ mem' = [l \in Leases |-> None] /\ stale' = {} /\ lease' = {} /\ banned' = {}
  /\ adm' = NoAdm /\ op' = [l \in Leases |-> NoOp] /\ sweep' = NoSweep /\ late' = {}
  /\ phase' = "open" /\ recovered' = FALSE
  /\ UNCHANGED <<journal, used, backend, net>>

--------------------------------------------------------------------------------
Held(l) == \/ ToDisposing(l) \/ Reject(l) \/ Retry(l) \/ Quarantine(l) \/ Doubt(l)
           \/ FenceUnconfirmed(l) \/ Remove(l) \/ ExecDone(l) \/ ExecDoubt(l)
Backend(l) == \/ BkRefuse(l) \/ BkAllocate(l) \/ BkCreate(l) \/ BkReady(l) \/ BkFails(l)
              \/ BkEnds(l) \/ BkFence(l) \/ BkFenceFails(l)
Admission == AdmStart \/ AdmNext \/ AdmRefuse \/ AllocFails \/ Activate
Sweeping == RecoverList \/ DrainList \/ ListFails \/ RecoverEnd \/ ProjectEnd \/ DrainEnd

Next ==
  \/ \E l \in Leases : \/ Held(l) \/ Exec(l) \/ Dispose(l) \/ AdmTake(l) \/ AdmCreate(l)
                       \/ LateCleanup(l) \/ SweepTake(l) \/ Backend(l)
  \/ Admission \/ Sweeping \/ Allocate \/ FenceProject \/ Stop \/ Drain
  \/ BkRestart \/ Crash

(* The event loop runs what can run, and every remote call is answered or     *)
(* times out; the queue of a lease is first in, first out.                    *)
Fairness ==
  /\ WF_vars(Admission) /\ WF_vars(Sweeping)
  /\ \A l \in Leases : /\ WF_vars(Held(l))
                       /\ SF_vars(AdmTake(l)) /\ SF_vars(SweepTake(l))

Spec == Init /\ [][Next]_vars /\ Fairness

--------------------------------------------------------------------------------
TypeOK ==
  /\ journal \in [Leases -> State \cup {None}] /\ used \subseteq Leases
  /\ mem \in [Leases -> State \cup {None}] /\ stale \subseteq Leases
  /\ lease \subseteq Leases /\ banned \subseteq Leases
  /\ adm \in [pc : AdmPc, l : Leases \cup {None}, todo : SUBSET Leases]
  /\ op \in [Leases -> [pc : OpPc, by : By]]
  /\ sweep \in [kind : {"off", "recover", "drain_recovery", "project", "drain"}, todo : SUBSET Leases,
                bad : BOOLEAN]
  /\ late \subseteq Leases
  /\ phase \in {"open", "stopped", "draining", "failed", "drained"}
  /\ recovered \in BOOLEAN
  /\ box \subseteq Leases /\ bk \in [Leases -> {"none", "open", "ready", "fenced"}]
  /\ work \subseteq Leases /\ net \subseteq Leases \X {"alloc", "fence"}

(* The backend may still start a container for l. *)
MayStart(l) == l \in work \/ (<<l, "alloc">> \in net /\ bk[l] # "fenced")
Dead(l) == l \notin box /\ ~MayStart(l)

(* maxConcurrentLeases bounds the containers, those nobody has a handle of    *)
(* any more included.                                                         *)
CapHeld == Cardinality(box) <= Cap

(* A drain that succeeded leaves no container, nothing that could become one, *)
(* no operation.                                                          *)
ClosedEmpty ==
  phase = "drained" =>
    /\ \A l \in Leases : Dead(l)
    /\ adm.pc = "off" /\ \A l \in Leases : op[l].pc # "exec"

(* fenceProjectRuns reports success only when the project has no container    *)
(* and no request that could still start one.                                 *)
FenceProven ==
  [][(sweep.kind = "project" /\ sweep'.kind = "off" /\ ~sweep'.bad)
       => \A l \in Leases : Dead(l)']_vars

(* Once the outcome of a command was ambiguous the lease runs nothing more,   *)
(* also when the quarantine could not be stored.                              *)
DoubtIsFinal ==
  \A l \in Leases : [](op[l].pc = "quarantine" => [](op[l].pc # "exec"))

(* Every drain and every allocation that was called returns.                  *)
CallsEnd ==
  /\ []<>(phase # "draining")
  /\ []<>(adm.pc = "off")

P == INSTANCE SandboxPromise WITH
       held <- Journaled, gone <- {l \in used : journal[l] = None}, running <- box

(* The runner, the journal and the backend together keep what the contract of *)
(* SandboxTransport promises.                                                 *)
ImplementsPromise == P!Spec
================================================================================
