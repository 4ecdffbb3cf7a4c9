------------------------------- MODULE CodingApp -------------------------------
(***************************************************************************)
(* Who drives coding runs: PrivateCodingApplication (one principal and its   *)
(* durable foreground session), GroupWorkspaceCodingController with           *)
(* GroupCodingRunDriver, and the recovery that CodingRuntimeSupervisor runs    *)
(* before it admits anybody.  The lifecycle fence of a group is composed      *)
(* with the engine only (CodingEngine!Next).                                  *)
(*                                                                         *)
(* A drive is the loop that calls scheduler.advance again and again; it is    *)
(* process memory.  The private controls of one principal queue behind each   *)
(* other (`ctl`) and behind the end of a drive; a group control holds the     *)
(* workspace authority (`auth`) from its first check to its last call.        *)
(***************************************************************************)
EXTENDS CodingEngine

CONSTANT MaxRuns   \* bound: runs started in a behaviour

ASSUME MaxRunsAssumption == MaxRuns \in Nat

VARIABLES
  fg,     \* durable: foregroundRunId of the private session, or None
  gref,   \* durable: group references
  drv,    \* the drive of every run
  ctl,    \* the control of a member in progress
  boot    \* recovery: [pc, todo]; members are admitted when pc = "up"

app == <<fg, gref, drv, ctl, boot>>
all == <<vars, app>>

Asleep == [pc |-> "off", restart |-> FALSE, cancel |-> "no", ended |-> FALSE]
NoCtl == [pc |-> "off", run |-> None]
CtlPc == {"off", "saving", "notify", "interrupt", "cancel", "clear",
          "reference", "stop_revise", "stop_cancel", "revise",
          "group_cancel", "schedule", "leave"}
Private == Runs \ Group
Up == boot.pc = "up"
Idling == Up /\ ctl = NoCtl
Started == {r \in Runs : Exists(r)}

AppInit ==
  /\ Init
  /\ fg = None /\ gref = {}
  /\ drv = [r \in Runs |-> Asleep]
  /\ ctl = NoCtl
  /\ boot = [pc |-> "up", todo |-> {}]

Wants(r, pc) == ctl.run = r /\ ctl.pc = pc
Turn(r, pc) == ctl' = [pc |-> pc, run |-> r]
Done == ctl' = NoCtl
DriveAt(r, pc) == drv' = [drv EXCEPT ![r].pc = pc]
Finish(r) == drv' = [drv EXCEPT ![r].pc = "finish", ![r].ended = Terminal(run[r])]
Settle(r) == drv' = [drv EXCEPT ![r].cancel = IF @ = "asked" THEN "settled" ELSE @]

--------------------------------------------------------------------------------
(* Controls of the private principal. *)

(* startCoding: the run is durable before the session that owns it. *)
StartCoding(p) ==
  /\ Idling /\ p \in Private /\ fg = None /\ Cardinality(Started) < MaxRuns
  /\ Start(p) /\ UNCHANGED locks
  /\ Turn(p, "saving")
  /\ UNCHANGED <<fg, gref, drv, boot>>

SessionSaved(p) ==
  /\ Wants(p, "saving")
  /\ fg' = p
  /\ drv' = [drv EXCEPT ![p] = [Asleep EXCEPT !.pc = "top"]]
  /\ Done /\ UNCHANGED <<vars, gref, boot>>

SessionNotSaved(p) ==
  /\ Wants(p, "saving") /\ "storage" \in Env
  /\ Done /\ UNCHANGED <<vars, fg, gref, drv, boot>>

(* A revision, like a cancellation, may be the first to see the project move. *)
ReviseCoding(p) ==
  /\ Idling /\ fg = p
  /\ \/ Revise(p) /\ Turn(p, "notify")
     \/ MarkStale(p) /\ UNCHANGED <<inv, ctl>>
  /\ UNCHANGED <<fg, gref, drv, boot>>

(* The drive in the map is only flagged; without one a new one starts. *)
DriveNotified(p) ==
  /\ Wants(p, "notify")
  /\ drv' = [drv EXCEPT ![p] = IF @.pc = "off"
                               THEN [Asleep EXCEPT !.pc = "top", !.restart = TRUE]
                               ELSE [@ EXCEPT !.restart = TRUE]]
  /\ Done /\ UNCHANGED <<vars, fg, gref, boot>>

(* cancel: mark the drive, interrupt the slot and wait for quiescence. *)
CancelCoding(p) ==
  /\ Idling /\ fg = p
  /\ drv' = [drv EXCEPT ![p].cancel = IF drv[p].pc = "off" THEN @ ELSE "asked"]
  /\ Interrupt(p)
  /\ Turn(p, "interrupt")
  /\ UNCHANGED <<durable, locks, inv, inflight, seen, mem, fence, fg, gref, boot>>

Interrupted(p) ==
  /\ Wants(p, "interrupt") /\ SlotFree(p)
  /\ Turn(p, "cancel")
  /\ UNCHANGED <<vars, fg, gref, drv, boot>>

CancelSaved(p) ==
  /\ Wants(p, "cancel")
  /\ \/ Terminal(run[p]) /\ ProjectFree /\ Available /\ UNCHANGED vars
     \/ Cancel(p)
  /\ Turn(p, "clear")
  /\ UNCHANGED <<fg, gref, drv, boot>>

(* Mutant: a refused cancellation does not settle the drive's wait. *)
CancelRefusedUnsettled(p) ==
  /\ Wants(p, "cancel")
  /\ \/ MarkStale(p) /\ UNCHANGED inv
     \/ EvidenceMismatch(p) /\ UNCHANGED inv
     \/ Free(p) /\ Alive(p) /\ ~(Writes(p, TRUE) /\ Rehydrates(p)) /\ UNCHANGED vars
  /\ Done /\ UNCHANGED <<fg, gref, drv, boot>>

(* The lease of another writer, a moved project, a contradicting tree. *)
CancelRefused(p) ==
  /\ Wants(p, "cancel")
  /\ \/ MarkStale(p) /\ UNCHANGED inv
     \/ EvidenceMismatch(p) /\ UNCHANGED inv
     \/ Free(p) /\ Alive(p) /\ ~(Writes(p, TRUE) /\ Rehydrates(p)) /\ UNCHANGED vars
  /\ Settle(p) /\ Done
  /\ UNCHANGED <<fg, gref, boot>>

SessionCleared(p) ==
  /\ Wants(p, "clear")
  /\ fg' = None
  /\ Settle(p) /\ Done
  /\ UNCHANGED <<vars, gref, boot>>

--------------------------------------------------------------------------------
(* #drive of the private application. *)

(* nextTurn(): a slot with nothing in flight is given back first. *)
NextTurn(r) == inv[r].pc = "quiet" => Busy(r)

DriveTop(p) ==
  /\ drv[p].pc = "top" /\ NextTurn(p) /\ ProjectFree /\ Available
  /\ \/ Terminal(run[p]) /\ Finish(p) /\ UNCHANGED vars
     \/ ~Terminal(run[p]) /\ SlotFree(p) /\ Advance(p) /\ DriveAt(p, "wait")
     \/ ~Terminal(run[p]) /\ ~SlotFree(p) /\ DriveAt(p, "caught") /\ UNCHANGED vars
  /\ UNCHANGED <<fg, gref, ctl, boot>>

Returned(r) == drv[r].pc = "wait" /\ inv[r].pc \in {"quiet", "off"}

DriveReturned(p) ==
  /\ p \in Private /\ Returned(p)
  /\ DriveAt(p, CASE inv[p].out \in {"terminal", "yielded", "budget"} -> "read"
                  [] inv[p].out = "action_budget" -> "top"
                  [] OTHER -> "caught")
  /\ UNCHANGED <<vars, fg, gref, ctl, boot>>

(* restartRequested is looked at here and nowhere else. *)
DriveCaught(p) ==
  /\ drv[p].pc = "caught" /\ NextTurn(p) /\ drv[p].cancel # "asked"
  /\ ProjectFree /\ Available
  /\ IF drv[p].cancel = "no" /\ drv[p].restart /\ ~Terminal(run[p])
     THEN drv' = [drv EXCEPT ![p].pc = "top", ![p].restart = FALSE]
     ELSE Finish(p)
  /\ UNCHANGED <<vars, fg, gref, ctl, boot>>

DriveRead(p) ==
  /\ p \in Private /\ drv[p].pc = "read" /\ ProjectFree /\ Available
  /\ Finish(p)
  /\ UNCHANGED <<vars, fg, gref, ctl, boot>>

(* Mutant: the session is cleared whatever the run has become. *)
DriveFinishClears(p) ==
  /\ drv[p].pc = "finish" /\ ctl.run \notin Private
  /\ fg' = IF fg = p THEN None ELSE fg
  /\ drv' = [drv EXCEPT ![p] = Asleep]
  /\ UNCHANGED <<vars, gref, ctl, boot>>

(* finish: the session is written in the principal's queue, from the run     *)
(* that was read before it.                                                   *)
DriveFinish(p) ==
  /\ drv[p].pc = "finish" /\ ctl.run \notin Private
  /\ fg' = IF fg = p /\ drv[p].ended THEN None ELSE fg
  /\ drv' = [drv EXCEPT ![p] = Asleep]
  /\ UNCHANGED <<vars, gref, ctl, boot>>

Drive(p) ==
  DriveTop(p) \/ DriveReturned(p) \/ DriveCaught(p) \/ DriveRead(p) \/ DriveFinish(p)

--------------------------------------------------------------------------------
(* Controls of a group member, inside withLinkedPermissions. *)

OnlyAuth(r) == auth = r /\ proj = None /\ rlock[r] = None
KeepBut == UNCHANGED <<disk, proj, rlock, inv, inflight, aborted, mem, fence>>

(* createCodingRun: run, reference, second look at the authority, schedule.  *)
GroupStart(g) ==
  /\ Idling /\ g \in Group /\ Cardinality(Started) < MaxRuns
  /\ Start(g) /\ auth' = g /\ UNCHANGED <<proj, rlock>>
  /\ Turn(g, "reference")
  /\ UNCHANGED <<fg, gref, drv, boot>>

ReferenceSaved(g) ==
  /\ Wants(g, "reference")
  /\ gref' = gref \cup {g}
  /\ Turn(g, "schedule")
  /\ UNCHANGED <<vars, fg, drv, boot>>

(* Mutant: the error of a failing write is swallowed. *)
ReferenceNotSavedGoesOn(g) ==
  /\ Wants(g, "reference") /\ "storage" \in Env
  /\ Turn(g, "schedule")
  /\ UNCHANGED <<vars, fg, gref, drv, boot>>

(* The error of a failing write leaves the run behind, without reference. *)
ReferenceNotSaved(g) ==
  /\ Wants(g, "reference") /\ "storage" \in Env
  /\ Turn(g, "leave")
  /\ UNCHANGED <<vars, fg, gref, drv, boot>>

(* reviseCodingRun and cancelCodingRun interrupt the slot first; the         *)
(* authority stays held while they wait for it.                               *)
GroupControl(g) ==
  /\ Idling /\ g \in gref /\ ProjectFree /\ Available /\ Alive(g)
  /\ auth' = g
  /\ Interrupt(g)
  /\ \E pc \in {"stop_revise", "stop_cancel"} : Turn(g, pc)
  /\ UNCHANGED <<durable, proj, rlock, inv, inflight, seen, mem, fence, fg, gref, drv, boot>>

GroupInterrupted(g) ==
  /\ ctl.run = g /\ SlotFree(g)
  /\ \/ Wants(g, "stop_revise") /\ Turn(g, "revise")
     \/ Wants(g, "stop_cancel") /\ Turn(g, "group_cancel")
  /\ UNCHANGED <<vars, fg, gref, drv, boot>>

GroupWrites(g) ==
  OnlyAuth(g) /\ Mutable(run[g], TRUE) /\ Current(g) /\ Claimable(run[g])

GroupRevised(g) ==
  /\ Wants(g, "revise") /\ GroupWrites(g) /\ run[g].instr < MaxInstr
  /\ Put(g, Revised(run[g]), {"drv"})
  /\ Turn(g, "schedule")
  /\ UNCHANGED auth /\ KeepBut /\ UNCHANGED <<fg, gref, drv, boot>>

GroupCancelled(g) ==
  /\ Wants(g, "group_cancel") /\ GroupWrites(g) /\ Rehydrates(g)
  /\ Put(g, Cancelled(run[g]), {})
  /\ DropOrKeep(g)
  /\ mem' = mem \ {g}
  /\ Turn(g, "leave")
  /\ UNCHANGED <<hist, live, evid, tomb, locks, inv, inflight, aborted, fence>>
  /\ UNCHANGED <<fg, gref, drv, boot>>

(* Refused, or nothing left to do: a terminal run, a revision that was       *)
(* answered already, the lease of another writer.                             *)
GroupRefused(g) ==
  /\ ctl.run = g /\ ctl.pc \in {"revise", "group_cancel"} /\ OnlyAuth(g)
  /\ (GroupWrites(g) => ctl.pc = "revise" /\ run[g].instr = MaxInstr)
  /\ Turn(g, "leave")
  /\ UNCHANGED <<vars, fg, gref, drv, boot>>

(* schedule() ignores a run whose drive is still in the set. *)
Scheduled(g) ==
  /\ Wants(g, "schedule")
  /\ IF drv[g].pc = "off" /\ SlotFree(g)
     THEN Launch(g, seen[g]) /\ DriveAt(g, "wait")
     ELSE UNCHANGED <<vars, drv>>
  /\ Turn(g, "leave")
  /\ UNCHANGED <<fg, gref, boot>>

GroupLeaves(g) ==
  /\ Wants(g, "leave")
  /\ auth' = None
  /\ Done
  /\ KeepBut /\ UNCHANGED <<run, seen, fg, gref, drv, boot>>

(* GroupCodingRunDriver.#drive goes on from the run it was given back.      *)
GroupDriveReturned(g) ==
  /\ g \in Group /\ Returned(g)
  /\ DriveAt(g, CASE inv[g].out \in {"terminal", "yielded", "budget"} -> "read"
                  [] inv[g].out = "action_budget" -> "again"
                  [] OTHER -> "off")
  /\ UNCHANGED <<vars, fg, gref, ctl, boot>>

GroupDriveAgain(g) ==
  /\ drv[g].pc = "again" /\ NextTurn(g)
  /\ \/ SlotFree(g) /\ Launch(g, seen[g]) /\ DriveAt(g, "wait")
     \/ ~SlotFree(g) /\ DriveAt(g, "off") /\ UNCHANGED vars
  /\ UNCHANGED <<fg, gref, ctl, boot>>

GroupDriveRead(g) ==
  /\ g \in Group /\ drv[g].pc = "read" /\ ProjectFree
  /\ DriveAt(g, "off")
  /\ UNCHANGED <<vars, fg, gref, ctl, boot>>

GroupDrive(g) == GroupDriveReturned(g) \/ GroupDriveAgain(g) \/ GroupDriveRead(g)

--------------------------------------------------------------------------------
(* Restart: private sessions first, then unreferenced group runs, then the   *)
(* references.  Any error closes the runtime until the next restart.          *)

AppCrash ==
  /\ "crash" \in Env
  /\ Restarted
  /\ drv' = [r \in Runs |-> Asleep]
  /\ ctl' = NoCtl
  /\ boot' = [pc |-> "session", todo |-> gref]
  /\ UNCHANGED <<fg, gref>>

Recoverable(r) ==
  /\ CanRecover(r)
  /\ \/ CommittedBy(r) # {} \/ run[r].base # Len(hist)
     \/ copy[r] = run[r].pend[2] /\ copy[r] # Tip

BootStage(r, pc) ==
  /\ boot.pc = pc
  /\ IF pc = "session" THEN fg = r ELSE r \in boot.todo
BootDone(r) ==
  IF boot.pc = "session" THEN boot' = [boot EXCEPT !.pc = "groups"]
                         ELSE boot' = [boot EXCEPT !.todo = @ \ {r}]

Orphans == {g \in Group \ gref : Alive(g)}

(* A commit whose answer was lost again is still pending: recovery fails. *)
BootRecovers(r) ==
  /\ \/ BootStage(r, "session")
     \/ BootStage(r, "groups") /\ Orphans = {}
  /\ run[r].pend # None /\ Recover(r)
  /\ boot' = IF run'[r].pend = None THEN boot ELSE [boot EXCEPT !.pc = "failed"]
  /\ UNCHANGED <<fg, gref, drv, ctl>>

BootFails(r) ==
  /\ \/ BootStage(r, "session")
     \/ BootStage(r, "groups") /\ Orphans = {}
  /\ Free(r) /\ ((run[r].pend # None /\ ~Recoverable(r)) \/ ~Available)
  /\ boot' = [boot EXCEPT !.pc = "failed"]
  /\ UNCHANGED <<vars, fg, gref, drv, ctl>>

BootNoSession ==
  /\ boot.pc = "session" /\ fg = None
  /\ BootDone(None)
  /\ UNCHANGED <<vars, fg, gref, drv, ctl>>

(* recoverDurableRuns: forget a closed run, leave a waiting one, drive on. *)
BootSession(p) ==
  /\ BootStage(p, "session") /\ Free(p) /\ Available /\ run[p].pend = None
  /\ fg' = IF Terminal(run[p]) THEN None ELSE p
  /\ drv' = [drv EXCEPT ![p].pc = IF Terminal(run[p]) \/ run[p].st = "waiting_input"
                                  THEN "off" ELSE "top"]
  /\ BootDone(p)
  /\ UNCHANGED <<vars, gref, ctl>>

(* An unreferenced run was never scheduled: cancelByAdmissionFence. *)
BootOrphan(g) ==
  /\ boot.pc = "groups" /\ g \in Orphans /\ Free(g)
  /\ Put(g, Cancelled(run[g]), {})
  /\ Drop(g)
  /\ UNCHANGED <<hist, live, evid, tomb, locks, inv, inflight, aborted, mem, fence>>
  /\ UNCHANGED app

BootReference(g) ==
  /\ BootStage(g, "groups") /\ Orphans = {} /\ ProjectFree /\ run[g].pend = None
  /\ IF Terminal(run[g]) \/ run[g].st = "waiting_input"
     THEN UNCHANGED <<vars, drv>>
     ELSE Launch(g, {"drv"}) /\ DriveAt(g, "wait")
  /\ BootDone(g)
  /\ UNCHANGED <<fg, gref, ctl>>

(* Mutant: unreferenced runs are not looked for. *)
AdmittedEarly ==
  /\ boot.pc = "groups" /\ boot.todo = {}
  /\ boot' = [boot EXCEPT !.pc = "up"]
  /\ UNCHANGED <<vars, fg, gref, drv, ctl>>

Admitted ==
  /\ boot.pc = "groups" /\ boot.todo = {} /\ Orphans = {}
  /\ boot' = [boot EXCEPT !.pc = "up"]
  /\ UNCHANGED <<vars, fg, gref, drv, ctl>>

Boot ==
  \/ BootNoSession \/ Admitted
  \/ \E r \in Runs : \/ BootRecovers(r) \/ BootFails(r) \/ BootSession(r)
                      \/ BootOrphan(r) \/ BootReference(r)

--------------------------------------------------------------------------------
Control(r) ==   \* the rest of a control that has begun
  \/ SessionSaved(r) \/ DriveNotified(r)
  \/ Interrupted(r) \/ CancelSaved(r) \/ CancelRefused(r) \/ SessionCleared(r)
  \/ ReferenceSaved(r) \/ GroupInterrupted(r) \/ GroupRevised(r)
  \/ GroupCancelled(r) \/ GroupRefused(r) \/ Scheduled(r) \/ GroupLeaves(r)

Asks(r) ==
  \/ StartCoding(r) \/ ReviseCoding(r) \/ CancelCoding(r)
  \/ GroupStart(r) \/ GroupControl(r)

Engine(r) == (Invocation(r) \/ ProviderSettles(r)) /\ UNCHANGED app

AppNext ==
  \/ \E r \in Runs :
       \/ Asks(r) \/ Control(r) \/ SessionNotSaved(r) \/ ReferenceNotSaved(r)
       \/ Drive(r) \/ GroupDrive(r) \/ Engine(r)
       \/ (LeaseExpires(r) /\ UNCHANGED app)
  \/ (ProjectMoves /\ UNCHANGED app)
  \/ Boot \/ AppCrash

AppSpec == AppInit /\ [][AppNext]_all

(* The event loop runs what is ready; the queues are first come, first       *)
(* served; a provider call ends; an invocation spends its budget.             *)
Fair(r) ==
  /\ WF_all(Engine(r)) /\ SF_all(LoopBudget(r) /\ UNCHANGED app)
  /\ SF_all(Control(r)) /\ SF_all(Drive(r) \/ GroupDrive(r))

FairAppSpec == AppSpec /\ \A p \in Private : Fair(p)
FairGroupSpec == AppSpec /\ \A g \in Group : Fair(g)

--------------------------------------------------------------------------------
(* Every variable of the application has its type. *)
AppTypeOK ==
  /\ TypeOK
  /\ fg \in Private \cup {None} /\ gref \subseteq Group
  /\ drv \in [Runs -> [pc : {"off", "top", "wait", "caught", "read", "again", "finish"},
                       restart : BOOLEAN, cancel : {"no", "asked", "settled"},
                       ended : BOOLEAN]]
  /\ ctl \in [pc : CtlPc, run : Runs \cup {None}]
  /\ boot \in [pc : {"session", "groups", "up", "failed"}, todo : SUBSET Group]

(* The session lets go of a run only when the run is closed. *)
ReleasedWhenClosed ==
  [][\A p \in Private : (fg = p /\ fg' # p) => Exists(p) /\ Terminal(run[p])]_all

(* A group run works only under a durable reference, in any crash. *)
ReferencedFirst == \A g \in Group : ~SlotFree(g) => g \in gref

(* When members are admitted again, no live group run is without a           *)
(* reference, and no run is on a barrier that a dead process left.            *)
CleanAdmission ==
  [][(boot.pc # "up" /\ boot'.pc = "up") =>
       \A r \in Group \cup ({fg} \ {None}) : Alive(r) =>
          /\ r \in Group => r \in gref
          /\ run[r].pend # None => run[r].writer = "mine"]_all

(* Every control of the private principal is answered, a cancellation that    *)
(* waits for the run's invocation included.                                   *)
CancelEnds == \A p \in Private : []<>(ctl.run # p)

(* A drive ends, although its end waits for the queue that a cancellation    *)
(* holds while it waits for the drive's invocation.                           *)
DriveEnds == \A p \in Private : []<>(drv[p].pc = "off")

(* A control of a group member is answered. *)
GroupControlEnds == \A g \in Group : (ctl.run = g) ~> (ctl.run # g)

(* A run that is marked running is worked on until it no longer is. *)
IsRunning(r) == Exists(r) /\ run[r].st = "running"
RunningIsDriven == \A r \in Runs : IsRunning(r) ~> ~IsRunning(r)

================================================================================
