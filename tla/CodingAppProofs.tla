---------------------------- MODULE CodingAppProofs ----------------------------
(***************************************************************************)
(* Proofs about CodingApp, for every set of private and group runs, every   *)
(* bound and every environment.                                             *)
(*                                                                         *)
(* The inductive invariant of the engine is one of the application too: what *)
(* the application does with the engine are steps of its own or Calls, which *)
(* keep it.  AppInv adds what ties the controls, the session, the drives,    *)
(* the references and the recovery to the records.                           *)
(***************************************************************************)
EXTENDS CodingApp, CodingEngineProofs

PrivateStage == {"saving", "notify", "interrupt", "cancel", "clear"}
GroupStage == {"reference", "stop_revise", "stop_cancel", "revise", "group_cancel",
               "schedule", "leave"}

DrivePc == {"off", "top", "wait", "caught", "read", "again", "finish"}
Drives == [pc : DrivePc, restart : BOOLEAN, cancel : {"no", "asked", "settled"}, ended : BOOLEAN]
AppType ==
  /\ fg \in Private \cup {None} /\ gref \subseteq Group
  /\ drv \in [Runs -> Drives]
  /\ ctl \in [pc : CtlPc, run : Runs \cup {None}]
  /\ boot \in [pc : {"session", "groups", "up", "failed"}, todo : SUBSET Group]

(* A control is one of a private or of a group run that has a record, and    *)
(* there is none before members are admitted.                                *)
CtlShape ==
  /\ \/ ctl = NoCtl
     \/ ctl.pc \in PrivateStage /\ ctl.run \in Private
     \/ ctl.pc \in GroupStage /\ ctl.run \in Group
  /\ ctl # NoCtl => Up /\ Exists(ctl.run)

(* A group control has the authority, so no operation with a visible middle  *)
(* is in that middle.                                                        *)
HoldShape ==
  ctl.pc \in GroupStage => auth = ctl.run /\ \A q \in Runs : inv[q].pc \notin Holders

(* The session and the control that is about to write it.                    *)
SessionShape ==
  /\ fg # None => Exists(fg)
  /\ ctl.pc = "saving" => fg = None
  /\ ctl.pc \in PrivateStage \ {"saving"} => fg = ctl.run
  /\ ctl.pc = "clear" => Terminal(run[ctl.run])

(* A drive drives a run that has a record; one that ends because the run is  *)
(* over is right about that.                                                 *)
DriveShape ==
  \A r \in Runs : /\ drv[r].pc # "off" => Exists(r)
                  /\ drv[r].pc = "finish" /\ drv[r].ended => Terminal(run[r])

(* A group run is driven, invoked, revised or scheduled under a reference,   *)
(* and without one nothing of it is pending.                                 *)
RefShape ==
  /\ \A g \in Group : inv[g].pc # "off" \/ drv[g].pc # "off" => g \in gref
  /\ ctl.pc \in GroupStage \ {"reference", "leave"} => ctl.run \in gref
  /\ \A g \in Group \ gref : Exists(g) => run[g].pend = None

(* A barrier that is there is one of this process.                           *)
Mine(r) == Exists(r) /\ run[r].pend # None => run[r].writer = "mine"

(* Recovery has settled what it has gone past.                               *)
BootShape ==
  /\ boot.todo \subseteq gref
  /\ boot.pc = "session" => boot.todo = gref
  /\ boot.pc = "groups" => /\ fg # None => Mine(fg)
                           /\ \A g \in gref \ boot.todo : Mine(g)

AppInv ==
  AppType /\ CtlShape /\ HoldShape /\ SessionShape /\ DriveShape /\ RefShape /\ BootShape
AInv == IInv /\ AppInv

--------------------------------------------------------------------------------
(* What the engine promises to whoever uses it. *)

(* What a step of a process that goes on does to one record.                 *)
LEMMA RecordSteps ==
  ASSUME IInv, [Calm]_vars, NEW r \in Runs
  PROVE \/ run'[r] = run[r]
        \/ run'[r].pend = None
        \/ FinalizePrepare(r) /\ run'[r].writer = "mine"
        \/ /\ Exists(r) /\ run[r].writer = "other"
           /\ SameButLease(run[r], run'[r])
<1>1. TypeOK BY DEF IInv
<1>2. ASSUME NEW n \in Run, NEW q \in Runs, run' = [run EXCEPT ![q] = n], n.pend = None
      PROVE run'[r] = run[r] \/ run'[r].pend = None
  BY <1>1, <1>2 DEF TypeOK
<1>3. CASE UNCHANGED vars \/ ProjectMoves BY <1>3 DEF vars, durable, ProjectMoves
<1>4. ASSUME NEW q \in Runs, LeaseExpires(q)
      PROVE \/ run'[r] = run[r]
            \/ Exists(r) /\ run[r].writer = "other" /\ SameButLease(run[r], run'[r])
  <2> DEFINE n == [run[q] EXCEPT !.writer = "expired"]
  <2>1. Exists(q) /\ run[q].writer = "other" /\ run' = [run EXCEPT ![q] = n]
    BY <1>4 DEF LeaseExpires
  <2>2. SameButLease(run[q], n) BY <1>1, <2>1, Shown, Leasing
  <2> HIDE DEF n
  <2> QED BY <1>1, <2>1, <2>2 DEF TypeOK
<1>5. ASSUME NEW q \in Runs, Kinds(q)
      PROVE \/ run'[r] = run[r]
            \/ run'[r].pend = None
            \/ FinalizePrepare(r) /\ run'[r].writer = "mine"
  <2>1. CASE Notes(q) BY <2>1 DEF Notes
  <2>2. CASE Works(q)
    <3>1. PICK n \in Run : GoesOn(run[q], n) /\ run' = [run EXCEPT ![q] = n] BY <2>2 DEF Works
    <3>2. n.pend = None BY <2>2, <3>1 DEF Works, Mutable, GoesOn
    <3> QED BY <1>2, <3>1, <3>2
  <2>3. CASE Ends(q) BY <1>2, <2>3 DEF Ends
  <2>4. CASE PatchWrite(q)
    <3>1. Exists(q) /\ run[q].pend = None /\ run' = [run EXCEPT ![q] = Claimed(run[q])]
      BY <2>4 DEF PatchWrite, Put, Writes, Admits, Mutable
    <3>2. GoesOn(run[q], Claimed(run[q])) BY <1>1, <3>1, Shown, Saves
    <3> QED BY <1>2, <3>1, <3>2 DEF GoesOn
  <2>5. CASE PatchSave(q)
    <3>1. Exists(q) /\ Mutable(run[q], FALSE) /\ CanPatch(run[q]) /\ copy[q] \in Snaps
      BY <1>1, <2>5 DEF PatchSave, Step, IInv, MiddleShape, TypeOK
    <3>2. Patched(run[q], copy[q]) \in Run /\ Patched(run[q], copy[q]).pend = None
      BY <1>1, <3>1, Shown, Milestones DEF CanPatch, Mutable
    <3> QED BY <1>2, <2>5, <3>2 DEF PatchSave, Put
  <2>6. CASE FinalizePrepare(q)
    <3>1. /\ Exists(q) /\ copy[q] \in Snaps
          /\ run' = [run EXCEPT ![q] = Prepared(run[q], copy[q])]
      BY <1>1, <2>6, Shown DEF FinalizePrepare, Put, Writes, Admits, Runtime
    <3>2. run[q] \in Run BY <1>1, <3>1, Shown
    <3>3. Prepared(run[q], copy[q]).writer = "mine" BY <3>2 DEF Prepared, Claimed, Run
    <3> QED BY <1>1, <2>6, <3>1, <3>3 DEF TypeOK
  <2>7. CASE FinalizeComplete(q) \/ RecoverFound(q) \/ RecoverCommit(q)
    <3>1. run' = run \/ run' = [run EXCEPT ![q] = Completed(run[q])]
      BY <2>7 DEF FinalizeComplete, RecoverFound, RecoverCommit, Put
    <3>2. Exists(q)
      BY <2>7 DEF FinalizeComplete, RecoverFound, RecoverCommit, CanRecover, Step, IInv, MiddleShape
    <3>3. Completed(run[q]) \in Run /\ Completed(run[q]).pend = None
      BY <1>1, <3>2, Shown, Milestones, EnvAssumption
    <3> QED BY <1>2, <3>1, <3>3
  <2>8. CASE PatchUndo(q) \/ FinalizeCommit(q) \/ CommitLost(q) \/ FenceDispose(q)
    BY <2>8 DEF PatchUndo, FinalizeCommit, CommitLost, FenceDispose
  <2>9. CASE Start(q)
    <3>1. /\ \A p \in Runs : Alive(p) => run[p].pend = None
          /\ \/ run'[r] = NewRun(Len(hist), Tip)
             \/ Alive(r) /\ run'[r] = Stale(run[r])
             \/ run'[r] = run[r]
      BY <2>9 DEF Start
    <3>2. NewRun(Len(hist), Tip).pend = None BY DEF NewRun
    <3>3. Alive(r) => Stale(run[r]).pend = run[r].pend BY <1>1, Shown DEF Alive, Stale, Run
    <3> QED BY <3>1, <3>2, <3>3
  <2> QED BY <1>5, <2>1, <2>2, <2>3, <2>4, <2>5, <2>6, <2>7, <2>8, <2>9 DEF Kinds, Special
<1> QED BY <1>3, <1>4, <1>5, CalmSorting

(* A barrier that is there stays the one of this process.                    *)
LEMMA MineStays == ASSUME IInv, [Calm]_vars, NEW r \in Runs, Mine(r) PROVE Mine(r)'
<1>1. CASE run'[r] = run[r] BY <1>1 DEF Mine, Exists
<1>2. CASE run'[r] # run[r] BY <1>2, RecordSteps DEF Mine, SameButLease
<1> QED BY <1>1, <1>2

(* Nothing is pending of a run that no invocation works on.                  *)
LEMMA NothingPends ==
  ASSUME IInv, [Moves]_vars, NEW r \in Runs, inv[r].pc = "off", Exists(r) => run[r].pend = None
  PROVE Exists(r)' => run'[r].pend = None
<1>1. TypeOK BY DEF IInv
<1>2. CASE [Calm]_vars
  <2>1. ~FinalizePrepare(r) BY DEF FinalizePrepare, Step
  <2> QED BY <1>2, <2>1, RecordSteps DEF SameButLease, Exists
<1>3. CASE Restarted
  <2>1. run'[r] \in {run[r], [run[r] EXCEPT !.writer = "other"]} BY <1>3 DEF Restarted
  <2>2. Exists(r) => [run[r] EXCEPT !.writer = "other"].pend = run[r].pend
    BY <1>1, Shown, Leasing DEF SameButLease
  <2>3. ~Exists(r) => run'[r] = run[r] BY <1>3 DEF Restarted
  <2> QED BY <2>1, <2>2, <2>3 DEF Exists
<1>4. [Calm]_vars \/ Restarted BY DEF Moves, Next, Crash, Calm
<1> QED BY <1>2, <1>3, <1>4

(* The slots a step of an invocation changes, and the queues it needs.       *)
LEMMA SlotSteps ==
  ASSUME IInv, NEW r \in Runs, Invocation(r) \/ ProviderSettles(r)
  PROVE /\ \A q \in Runs \ {r} : inv'[q] = inv[q]
        /\ inv'[r] = inv[r] \/ inv[r].pc # "off"
        /\ (auth # None /\ \A q \in Runs : inv[q].pc \notin Holders) =>
              auth' = auth /\ \A q \in Runs : inv'[q].pc \notin Holders
<1>1. TypeOK BY DEF IInv
<1>2. CASE ProviderSettles(r) BY <1>2 DEF ProviderSettles, locks
<1>3. CASE Invocation(r)
  <2>1. CASE Walks(r)
    <3>1. PICK pc \in Loose : Turned(r, pc) BY <2>1 DEF Walks
    <3>2. auth' = auth BY <2>1 DEF Walks
    <3>3. inv[r].pc # "off"
      BY <1>3
         DEF Invocation, Step, Enter, EnterRefused, LoopResume, LoopMap, LoopReserve, LoopBudget,
             LoopExit, LaunchLock, LaunchGo, LaunchRefused, ProviderAnswers, DecisionLost,
             CheckDecision, ActYield, ActRead, ActPlan, PatchWrite, PatchSave, PatchUndo,
             PatchQuarantine, SandboxPrepare, SandboxLaunch, SandboxEnds, SandboxBreaks,
             ExecReturns, CheckEvidence, PersistEvidence, EvidenceBreaks, RecordInfra,
             RecordResult, ReviewStart, ReviewEnds,
             RecordReview, FinalizePrepare, FinalizeCommit, CommitLost, FinalizeComplete,
             FinalizeThrows, CallThrows, Calling, CallMarksStale, CallFindsMismatch,
             PauseAfterFailure, QuiescenceReached
    <3> QED BY <3>1, <3>2, <3>3 DEF Turned, Loose, Holders
  <2>2. CASE Takes(r)
    <3>1. \E pc \in InvPc : Turned(r, pc) BY <2>2 DEF Takes, Holders, Critical, InvPc
    <3> QED BY <2>2, <3>1 DEF Takes, Turned
  <2>3. CASE Gives(r)
    <3>1. \E pc \in InvPc : Turned(r, pc) BY <2>3 DEF Gives, Loose, InvPc
    <3> QED BY <2>3, <3>1 DEF Gives, Turned, Holders, Critical
  <2>4. CASE FinalizeCommit(r) \/ ProviderAnswers(r) \/ DecisionLost(r)
    <3>1. \E pc \in {"committed", "decided", "failing"} :
            Turned(r, pc) /\ (pc = "committed" => inv[r].pc = "commit")
      BY <1>1, <2>4, Turns DEF FinalizeCommit, ProviderAnswers, DecisionLost, InvPc, Step
    <3>2. auth' = auth /\ inv[r].pc \in {"commit", "deciding"}
      BY <2>4 DEF FinalizeCommit, ProviderAnswers, DecisionLost, Step, locks
    <3> QED BY <3>1, <3>2 DEF Turned, Holders, Critical
  <2> QED BY <1>3, <2>1, <2>2, <2>3, <2>4, Walking, Taking, Giving DEF Invocation
<1> QED BY <1>2, <1>3

(* An invocation is admitted to a free slot and takes no queue.              *)
LEMMA LaunchSteps ==
  ASSUME IInv, NEW r \in Runs, Launches(r)
  PROVE /\ UNCHANGED <<durable, auth>> /\ inv'[r].pc = "enter" /\ Exists(r)
        /\ \A q \in Runs \ {r} : inv'[q] = inv[q]
<1>1. TypeOK BY DEF IInv
<1>2. Back(r, "enter") /\ UNCHANGED <<durable, auth>> /\ Exists(r)
  BY DEF Launches, Launch, Back, locks
<1>3. Turned(r, "enter") BY <1>1, <1>2, Turns DEF InvPc
<1> QED BY <1>2, <1>3 DEF Turned

--------------------------------------------------------------------------------
(* What the application does with the engine. *)

(* Steps that leave the engine as it is.                                    *)
Silent(r) ==
  \/ SessionSaved(r) \/ SessionNotSaved(r) \/ DriveNotified(r) \/ Interrupted(r)
  \/ SessionCleared(r) \/ DriveReturned(r) \/ DriveCaught(r) \/ DriveRead(r) \/ DriveFinish(r)
  \/ ReferenceSaved(r) \/ ReferenceNotSaved(r) \/ GroupInterrupted(r) \/ GroupRefused(r)
  \/ GroupDriveReturned(r) \/ GroupDriveRead(r) \/ BootFails(r) \/ BootSession(r)
Opening == BootNoSession \/ Admitted

(* They do.                                                                 *)
LEMMA SilentSteps == ASSUME Opening \/ \E r \in Runs : Silent(r) PROVE UNCHANGED vars
BY DEF Opening, Silent, SessionSaved, SessionNotSaved, DriveNotified, Interrupted, SessionCleared,
       DriveReturned, DriveCaught, DriveRead, DriveFinish, ReferenceSaved, ReferenceNotSaved,
       GroupInterrupted, GroupRefused, GroupDriveReturned, GroupDriveRead, BootFails,
       BootSession, BootNoSession, Admitted

(* Steps that use an operation of a member, as it is.                       *)
Using(r) ==
  StartCoding(r) \/ ReviseCoding(r) \/ CancelSaved(r) \/ CancelRefused(r) \/ BootRecovers(r)

(* They take no queue and admit no invocation.                              *)
LEMMA UsingSteps ==
  ASSUME NEW r \in Runs, Using(r)
  PROVE (UNCHANGED vars \/ Member(r)) /\ inv' = inv /\ auth' = auth
<1>1. CASE StartCoding(r) BY <1>1 DEF StartCoding, Start, Member, locks
<1>2. CASE ReviseCoding(r)
  BY <1>2 DEF ReviseCoding, Revise, MarkStale, Member, locks
<1>3. CASE CancelSaved(r)
  BY <1>3 DEF CancelSaved, Cancel, Member, locks, vars, volatile
<1>4. CASE CancelRefused(r)
  BY <1>4 DEF CancelRefused, MarkStale, EvidenceMismatch, Member, locks, vars, volatile
<1>5. CASE BootRecovers(r)
  BY <1>5 DEF BootRecovers, Recover, RecoverFound, RecoverCommit, RecoverAmbiguous, Member, locks
<1> QED BY <1>1, <1>2, <1>3, <1>4, <1>5 DEF Using

(* Steps that admit an invocation, of a run with its reference.             *)
Admitting(r) == DriveTop(r) \/ Scheduled(r) \/ GroupDriveAgain(r) \/ BootReference(r)

(* They do nothing else with the engine.                                    *)
LEMMA AdmittingSteps ==
  ASSUME AInv, NEW r \in Runs, Admitting(r)
  PROVE UNCHANGED vars \/ (Launches(r) /\ (r \in Group => r \in gref))
<1>1. AppType /\ CtlShape /\ RefShape /\ BootShape BY DEF AInv, AppInv
<1>2. CASE DriveTop(r)
  BY <1>1, <1>2 DEF DriveTop, Advance, Launches, RefShape
<1>3. CASE Scheduled(r)
  <2>1. r \in gref BY <1>1, <1>3 DEF Scheduled, Wants, GroupStage, RefShape
  <2> QED BY <1>3, <2>1 DEF Scheduled, Launches
<1>4. CASE GroupDriveAgain(r)
  BY <1>1, <1>4 DEF GroupDriveAgain, Launches, RefShape
<1>5. CASE BootReference(r)
  BY <1>1, <1>5 DEF BootReference, BootStage, Launches, BootShape
<1> QED BY <1>2, <1>3, <1>4, <1>5 DEF Admitting

(* Steps under the authority, or that take it, or that interrupt.           *)
Handling(r) ==
  \/ CancelCoding(r) \/ GroupStart(r) \/ GroupControl(r) \/ GroupRevised(r)
  \/ GroupCancelled(r) \/ GroupLeaves(r) \/ BootOrphan(r)

(* They are calls; who takes the authority finds it free.                   *)
LEMMA HandlingSteps ==
  ASSUME AInv, NEW r \in Runs, Handling(r)
  PROVE /\ Calls(r) /\ inv' = inv
        /\ \/ auth' = auth
           \/ auth = None /\ auth' = r /\ (GroupStart(r) \/ GroupControl(r))
           \/ GroupLeaves(r)
<1>1. AppType /\ CtlShape /\ HoldShape /\ RefShape /\ TypeOK /\ IInv
  BY DEF AInv, AppInv, IInv
<1>2. CASE CancelCoding(r)
  <2>1. Interrupts(r) BY <1>2 DEF CancelCoding, Interrupts, locks
  <2> QED BY <1>2, <2>1 DEF Calls, CancelCoding, locks
<1>3. CASE GroupStart(r)
  <2>1. StartsHolding(r) /\ auth = None BY <1>3 DEF GroupStart, StartsHolding, Start, ProjectFree
  <2> QED BY <1>3, <2>1 DEF Calls, StartsHolding, Start
<1>4. CASE GroupControl(r)
  <2>1. Interrupts(r) /\ auth = None BY <1>4 DEF GroupControl, Interrupts, ProjectFree
  <2> QED BY <1>4, <2>1 DEF Calls, GroupControl
<1>5. CASE GroupRevised(r)
  <2>1. Exists(r) BY <1>1, <1>5, EnvAssumption DEF GroupRevised, Wants, CtlShape, NoCtl
  <2>2. SavesHolding(r)
    BY <1>1, <1>5, <2>1
       DEF HoldShape, Wants, GroupStage, GroupRevised, GroupWrites, OnlyAuth, Mutable, Alive, SavesHolding, KeepBut, disk, locks
  <2> QED BY <1>5, <2>2 DEF Calls, GroupRevised, KeepBut
<1>6. CASE GroupCancelled(r)
  <2>1. Exists(r) BY <1>1, <1>6, EnvAssumption DEF GroupCancelled, Wants, CtlShape, NoCtl
  <2>2. SavesHolding(r)
    BY <1>1, <1>6, <2>1
       DEF HoldShape, Wants, GroupStage, GroupCancelled, GroupWrites, OnlyAuth, Mutable, Alive, SavesHolding
  <2> QED BY <1>6, <2>2 DEF Calls, GroupCancelled, locks
<1>7. CASE GroupLeaves(r)
  <2>1. \A q \in Runs : inv[q].pc \notin Holders
    BY <1>1, <1>7 DEF GroupLeaves, Wants, HoldShape, GroupStage
  <2>2. LetsGo BY <1>7, <2>1 DEF GroupLeaves, KeepBut, LetsGo, disk, durable
  <2> QED BY <1>7, <2>2 DEF Calls, GroupLeaves, KeepBut
<1>8. CASE BootOrphan(r)
  <2>1. Alive(r) /\ run[r].pend = None /\ rlock[r] = None /\ inv[r].pc \notin Holders
    BY <1>1, <1>8, EnvAssumption
       DEF BootOrphan, Orphans, Alive, RefShape, Free, ProjectFree, IInv, LockShape
  <2>2. SavesHolding(r) BY <1>8, <2>1 DEF BootOrphan, SavesHolding, Drop, DropOrKeep
  <2> QED BY <1>8, <2>2 DEF Calls, BootOrphan, locks
<1> QED BY <1>2, <1>3, <1>4, <1>5, <1>6, <1>7, <1>8 DEF Handling

(* Steps of the engine and of its environment.                              *)
Underneath ==
  \/ \E r \in Runs : Invocation(r) \/ ProviderSettles(r) \/ LeaseExpires(r)
  \/ ProjectMoves

(* A step is of one of these sorts, or a crash.                             *)
LEMMA AppSorting ==
  ASSUME AppNext
  PROVE \/ AppCrash
        \/ Underneath /\ UNCHANGED app
        \/ Opening
        \/ \E r \in Runs : Silent(r) \/ Using(r) \/ Admitting(r) \/ Handling(r)
BY DEF AppNext, Underneath, Opening, Silent, Using, Admitting, Handling, Asks, Control, Drive,
       GroupDrive, Engine, Boot

(* A step that is no crash is one of the engine in the same process.        *)
LEMMA EngineSteps == ASSUME AInv, [AppNext]_all PROVE [Calm]_vars \/ AppCrash
<1>1. CASE UNCHANGED all BY <1>1 DEF all
<1>2. CASE Underneath BY <1>2 DEF Underneath, Calm
<1>3. ASSUME NEW r \in Runs, Using(r) \/ Admitting(r) \/ Handling(r) PROVE [Calm]_vars
  BY <1>3, UsingSteps, AdmittingSteps, HandlingSteps DEF Calm, Calls
<1> QED BY <1>1, <1>2, <1>3, SilentSteps, AppSorting

(* What a step leaves as it was: the engine's invariant, that a run has a    *)
(* record and that it is over.                                               *)
LEMMA Lasting ==
  ASSUME AInv, [AppNext]_all
  PROVE /\ IInv' /\ [Moves]_vars
        /\ \A r \in Runs : Exists(r) => Exists(r)'
        /\ \A r \in Runs : Exists(r) /\ Terminal(run[r]) => Terminal(run'[r])
<1>1. IInv BY DEF AInv
<1>2. [Moves]_vars BY EngineSteps DEF AppCrash, Moves
<1>3. ASSUME NEW r \in Runs, Exists(r), Terminal(run[r]) PROVE Terminal(run'[r])
  BY <1>1, <1>2, <1>3, OverRests DEF Rests, Terminal
<1> QED BY <1>1, <1>2, <1>3, InvariantKept, RecordsStay

(* Only a run that is worked on, or has its reference, has its slot taken.   *)
LEMMA SlotsTaken ==
  ASSUME AInv, [AppNext]_all, NEW g \in Group, inv'[g].pc # "off"
  PROVE inv[g].pc # "off" \/ g \in gref
<1>1. g \in Runs /\ IInv BY EnvAssumption DEF AInv
<1>2. CASE inv' = inv BY <1>2
<1>3. CASE AppCrash BY <1>1, <1>3 DEF AppCrash, Restarted, Idle
<1>4. ASSUME NEW r \in Runs, Invocation(r) \/ ProviderSettles(r)
      PROVE inv[g].pc # "off" \/ g \in gref
  BY <1>1, <1>4, SlotSteps
<1>5. ASSUME NEW r \in Runs, Launches(r), r \in Group => r \in gref
      PROVE inv[g].pc # "off" \/ g \in gref
  BY <1>1, <1>5, LaunchSteps
<1>6. UNCHANGED vars => inv' = inv BY DEF vars, volatile
<1>7. ASSUME NEW r \in Runs, Using(r) \/ Handling(r) PROVE inv' = inv
  BY <1>7, UsingSteps, HandlingSteps
<1>8. ASSUME NEW r \in Runs, LeaseExpires(r) \/ ProjectMoves PROVE inv' = inv
  BY <1>8 DEF LeaseExpires, ProjectMoves, volatile
<1>9. CASE UNCHANGED all BY <1>2, <1>6, <1>9 DEF all
<1> QED
  BY <1>1, <1>2, <1>3, <1>4, <1>5, <1>6, <1>7, <1>8, <1>9, SilentSteps, AdmittingSteps, AppSorting
     DEF Underneath

--------------------------------------------------------------------------------
(* The parts of the invariant, one by one. *)

(* A run that starts has a record.                                          *)
LEMMA StartMakes == ASSUME IInv, NEW r \in Runs, Start(r) PROVE Exists(r)'
<1>1. hist \in Seq(Revision) /\ hist # <<>> BY DEF IInv, TypeOK, Revision
<1>2. Len(hist) \in 1 .. Len(hist) /\ Len(hist) \in Nat BY <1>1
<1>3. Tip \in Snaps
  <2>1. hist[Len(hist)] \in Revision BY <1>1, <1>2
  <2> QED BY <1>1, <2>1 DEF Tip, Last, Revision
<1>4. NewRun(Len(hist), Tip) \in Run BY <1>2, <1>3, Fresher
<1>5. run'[r] = NewRun(Len(hist), Tip) BY DEF Start
<1> QED BY <1>4, <1>5, NoRecordIsNone DEF Exists

(* Whoever starts a drive that was off.                                      *)
Wakes(r) ==
  SessionSaved(r) \/ DriveNotified(r) \/ BootSession(r) \/ Scheduled(r) \/ BootReference(r)

(* How a drive goes on: it is where it was, off, on its way, or at its end,  *)
(* which knows whether the run was over.                                      *)
Follows(r, d) ==
  \/ d.pc = drv[r].pc /\ d.ended = drv[r].ended
  \/ d.pc = "off"
  \/ d.pc # "finish" /\ (drv[r].pc # "off" \/ Wakes(r))
  \/ d.pc = "finish" /\ d.ended = Terminal(run[r]) /\ drv[r].pc # "off"

(* A step changes one drive at most, and so.                                 *)
LEMMA DriveSteps ==
  ASSUME AInv, [AppNext]_all, ~AppCrash
  PROVE \/ drv' = drv
        \/ \E r \in Runs, d \in Drives : drv' = [drv EXCEPT ![r] = d] /\ Follows(r, d)
<1>1. AppType BY DEF AInv, AppInv
<1>a. \A r \in Runs : Terminal(run[r]) \in BOOLEAN BY DEF Terminal
<1>2. CASE UNCHANGED all \/ UNCHANGED app BY <1>2 DEF all, app
<1>3. CASE Opening BY <1>3 DEF Opening, BootNoSession, Admitted
<1>4. ASSUME NEW r \in Runs, Silent(r) \/ Using(r) \/ Admitting(r) \/ Handling(r)
      PROVE drv' = drv \/ \E d \in Drives : drv' = [drv EXCEPT ![r] = d] /\ Follows(r, d)
  <2> DEFINE o == drv[r]
  <2>1. o \in Drives BY <1>1 DEF AppType
  <2>2. o.cancel \in {"no", "asked", "settled"} BY <2>1 DEF Drives, DrivePc
  <2>3. ASSUME NEW pc \in DrivePc, DriveAt(r, pc), pc # "finish",
               pc = "off" \/ o.pc # "off" \/ Wakes(r)
        PROVE \E d \in Drives : drv' = [drv EXCEPT ![r] = d] /\ Follows(r, d)
    <3>1. drv' = [drv EXCEPT ![r] = [o EXCEPT !.pc = pc]] BY <1>1, <2>3 DEF DriveAt, AppType
    <3>2. [o EXCEPT !.pc = pc] \in Drives /\ [o EXCEPT !.pc = pc].pc = pc BY <2>1 DEF Drives
    <3> QED BY <2>3, <3>1, <3>2 DEF Follows
  <2>4. ASSUME Finish(r), o.pc # "off"
        PROVE \E d \in Drives : drv' = [drv EXCEPT ![r] = d] /\ Follows(r, d)
    <3>1. drv' = [drv EXCEPT ![r] = [o EXCEPT !.pc = "finish", !.ended = Terminal(run[r])]]
      BY <1>1, <2>4 DEF Finish, AppType
    <3> DEFINE d == [o EXCEPT !.pc = "finish", !.ended = Terminal(run[r])]
    <3>2. d \in Drives /\ d.pc = "finish" /\ d.ended = Terminal(run[r])
      BY <2>1, <1>a DEF Drives, DrivePc
    <3> QED BY <2>4, <3>1, <3>2 DEF Follows
  <2>5. ASSUME NEW c \in {"no", "asked", "settled"}, drv' = [drv EXCEPT ![r] = [o EXCEPT !.cancel = c]]
       
        PROVE \E d \in Drives : drv' = [drv EXCEPT ![r] = d] /\ Follows(r, d)
    <3> DEFINE d == [o EXCEPT !.cancel = c]
    <3>1. d \in Drives /\ d.pc = o.pc /\ d.ended = o.ended BY <2>1 DEF Drives, DrivePc
    <3> QED BY <2>5, <3>1 DEF Follows
  <2>6. CASE Settle(r)
    <3> DEFINE c == IF o.cancel = "asked" THEN "settled" ELSE o.cancel
    <3>1. drv' = [drv EXCEPT ![r] = [o EXCEPT !.cancel = c]] BY <1>1, <2>6 DEF Settle, AppType
    <3>2. c \in {"no", "asked", "settled"} BY <2>2
    <3> QED BY <3>1, <3>2, <2>5
  <2>7. CASE SessionSaved(r)
    <3> DEFINE d == [Asleep EXCEPT !.pc = "top"]
    <3>1. d \in Drives /\ d.pc = "top" BY DEF Asleep, Drives, DrivePc
    <3>2. drv' = [drv EXCEPT ![r] = d] BY <2>7 DEF SessionSaved
    <3> QED BY <2>7, <3>1, <3>2 DEF Follows, Wakes
  <2>8. CASE DriveNotified(r)
    <3> DEFINE d == IF o.pc = "off" THEN [Asleep EXCEPT !.pc = "top", !.restart = TRUE]
                                    ELSE [o EXCEPT !.restart = TRUE]
    <3>1. drv' = [drv EXCEPT ![r] = d] BY <1>1, <2>8 DEF DriveNotified, AppType
    <3>2. CASE o.pc = "off"
      <4>1. d \in Drives /\ d.pc = "top" BY <3>2 DEF Asleep, Drives, DrivePc
      <4> QED BY <2>8, <3>1, <4>1 DEF Follows, Wakes
    <3>3. CASE o.pc # "off"
      <4>1. d \in Drives /\ d.pc = o.pc /\ d.ended = o.ended BY <2>1, <3>3 DEF Drives, DrivePc
      <4> QED BY <3>1, <4>1 DEF Follows
    <3> QED BY <3>2, <3>3
  <2>9. CASE DriveReturned(r) \/ GroupDriveReturned(r)
    <3>1. \E pc \in {"read", "top", "caught", "again", "off"} : DriveAt(r, pc)
      BY <2>9 DEF DriveReturned, GroupDriveReturned
    <3>2. o.pc # "off" BY <2>9 DEF DriveReturned, GroupDriveReturned, Returned
    <3> QED BY <2>3, <3>1, <3>2 DEF DrivePc
  <2>10. CASE DriveCaught(r)
    <3> DEFINE d == [o EXCEPT !.pc = "top", !.restart = FALSE]
    <3>1. d \in Drives /\ d.pc = "top" BY <2>1 DEF Drives, DrivePc
    <3>2. o.pc # "off" /\ (Finish(r) \/ drv' = [drv EXCEPT ![r] = d])
      BY <1>1, <2>10 DEF DriveCaught, AppType
    <3> QED BY <2>4, <3>1, <3>2 DEF Follows
  <2>11. CASE DriveRead(r) BY <2>4, <2>11 DEF DriveRead
  <2>12. CASE DriveFinish(r)
    <3>1. Asleep \in Drives /\ Asleep.pc = "off" BY DEF Asleep, Drives, DrivePc
    <3> QED BY <2>12, <3>1 DEF DriveFinish, Follows
  <2>13. CASE GroupDriveRead(r) BY <2>3, <2>13 DEF GroupDriveRead, DrivePc
  <2>14. CASE BootSession(r)
    <3>1. \E pc \in {"off", "top"} : DriveAt(r, pc) BY <2>14 DEF BootSession, DriveAt
    <3> QED BY <2>3, <2>14, <3>1 DEF DrivePc, Wakes
  <2>15. CASE DriveTop(r)
    <3>1. Finish(r) \/ \E pc \in {"wait", "caught"} : DriveAt(r, pc) BY <2>15 DEF DriveTop
    <3>2. o.pc # "off" BY <2>15 DEF DriveTop
    <3> QED BY <2>3, <2>4, <3>1, <3>2 DEF DrivePc
  <2>16. CASE Scheduled(r) \/ GroupDriveAgain(r) \/ BootReference(r)
    <3>1. drv' = drv \/ \E pc \in {"wait", "off"} : DriveAt(r, pc)
      BY <2>16 DEF Scheduled, GroupDriveAgain, BootReference
    <3>2. o.pc # "off" \/ Wakes(r) BY <2>16 DEF GroupDriveAgain, Wakes
    <3> QED BY <2>3, <3>1, <3>2 DEF DrivePc
  <2>17. CASE CancelCoding(r)
    <3> DEFINE c == IF o.pc = "off" THEN o.cancel ELSE "asked"
    <3>1. drv' = [drv EXCEPT ![r] = [o EXCEPT !.cancel = c]]
      BY <1>1, <2>17 DEF CancelCoding, AppType
    <3>2. c \in {"no", "asked", "settled"} BY <2>2
    <3> QED BY <3>1, <3>2, <2>5
  <2>18. CASE SessionCleared(r) \/ CancelRefused(r) BY <2>6, <2>18 DEF SessionCleared, CancelRefused
  <2>19. CASE SessionNotSaved(r) \/ Interrupted(r) \/ ReferenceSaved(r) \/ ReferenceNotSaved(r)
              \/ GroupInterrupted(r) \/ GroupRefused(r) \/ BootFails(r)
    BY <2>19 DEF SessionNotSaved, Interrupted, ReferenceSaved, ReferenceNotSaved,
                 GroupInterrupted, GroupRefused, BootFails
  <2>20. CASE StartCoding(r) \/ ReviseCoding(r) \/ CancelSaved(r) \/ BootRecovers(r)
    BY <2>20 DEF StartCoding, ReviseCoding, CancelSaved, BootRecovers
  <2>21. CASE Handling(r) /\ ~CancelCoding(r)
    BY <2>21 DEF Handling, GroupStart, GroupControl, GroupRevised, GroupCancelled, GroupLeaves,
                 BootOrphan, app
  <2> HIDE DEF o
  <2> QED
    BY <1>4, <2>6, <2>7, <2>8, <2>9, <2>10, <2>11, <2>12, <2>13, <2>14, <2>15, <2>16, <2>17,
       <2>18, <2>19, <2>20, <2>21
       DEF Silent, Using, Admitting
<1> QED BY <1>2, <1>3, <1>4, AppSorting

(* What a step does to the session, the references, the control and the      *)
(* recovery keeps their types.                                               *)
LEMMA TypesKept == ASSUME AInv, [AppNext]_all PROVE AppType'
<1>1. AppType /\ CtlShape /\ BootShape BY DEF AInv, AppInv
<1>0. drv' \in [Runs -> Drives]
  <2>1. CASE AppCrash
    <3>1. Asleep \in Drives BY DEF Asleep, Drives, DrivePc
    <3> QED BY <2>1, <3>1 DEF AppCrash
  <2>2. CASE ~AppCrash BY <1>1, <2>2, DriveSteps DEF AppType
  <2> QED BY <2>1, <2>2
<1> USE DEF AppType, Turn, Done, NoCtl, CtlPc, Private
<1>2. CASE UNCHANGED all \/ UNCHANGED app BY <1>1, <1>2 DEF all, app
<1>3. CASE AppCrash BY <1>0, <1>1, <1>3 DEF AppCrash
<1>4. CASE Opening BY <1>1, <1>4 DEF Opening, BootNoSession, Admitted, BootDone
<1>5. ASSUME NEW r \in Runs, Silent(r) PROVE AppType'
  <2>1. CASE SessionSaved(r)
    <3>1. r \in Private BY <1>1, <2>1 DEF SessionSaved, Wants, CtlShape, PrivateStage, GroupStage
    <3> QED BY <1>0, <1>1, <2>1, <3>1 DEF SessionSaved
  <2>2. CASE DriveNotified(r) BY <1>0, <1>1, <2>2 DEF DriveNotified
  <2>3. CASE SessionNotSaved(r) \/ Interrupted(r) \/ SessionCleared(r)
    BY <1>0, <1>1, <2>3 DEF SessionNotSaved, Interrupted, SessionCleared
  <2>4. CASE DriveReturned(r) \/ GroupDriveReturned(r) \/ DriveCaught(r)
    BY <1>0, <1>1, <2>4 DEF DriveReturned, GroupDriveReturned, DriveCaught
  <2>5. CASE DriveRead(r) \/ DriveFinish(r) \/ GroupDriveRead(r)
    BY <1>0, <1>1, <2>5 DEF DriveRead, DriveFinish, GroupDriveRead
  <2>6. CASE ReferenceSaved(r) \/ ReferenceNotSaved(r) \/ GroupInterrupted(r) \/ GroupRefused(r)
    <3>1. r \in Group
      BY <1>1, <2>6, EnvAssumption
         DEF ReferenceSaved, ReferenceNotSaved, GroupInterrupted, GroupRefused, Wants, CtlShape,
             PrivateStage, GroupStage
    <3> QED BY <1>0, <1>1, <2>6, <3>1
            DEF ReferenceSaved, ReferenceNotSaved, GroupInterrupted, GroupRefused
  <2>7. CASE BootFails(r) BY <1>1, <2>7 DEF BootFails
  <2>8. CASE BootSession(r)
    <3>1. fg' \in Private \cup {None} BY <1>1, <2>8 DEF BootSession, BootStage
    <3> QED BY <1>0, <1>1, <2>8, <3>1 DEF BootSession, BootStage, BootDone
  <2> QED BY <1>5, <2>1, <2>2, <2>3, <2>4, <2>5, <2>6, <2>7, <2>8 DEF Silent
<1>6. ASSUME NEW r \in Runs, Using(r) PROVE AppType'
  <2>1. CASE StartCoding(r) \/ ReviseCoding(r) BY <1>0, <1>1, <2>1 DEF StartCoding, ReviseCoding
  <2>2. CASE CancelSaved(r)
    <3>1. UNCHANGED <<fg, gref, boot>> /\ ctl' = [pc |-> "clear", run |-> r]
      BY <2>2 DEF CancelSaved
    <3> QED BY <1>0, <1>1, <3>1
  <2>4. CASE CancelRefused(r)
    <3>1. UNCHANGED <<fg, gref, boot>> /\ ctl' = [pc |-> "off", run |-> None]
      BY <2>4 DEF CancelRefused
    <3> QED BY <1>0, <1>1, <3>1
  <2>3. CASE BootRecovers(r) BY <1>0, <1>1, <2>3 DEF BootRecovers
  <2> QED BY <1>6, <2>1, <2>2, <2>3, <2>4 DEF Using
<1>7. ASSUME NEW r \in Runs, Admitting(r) PROVE AppType'
  <2>1. CASE DriveTop(r) \/ GroupDriveAgain(r)
    BY <1>0, <1>1, <2>1 DEF DriveTop, GroupDriveAgain
  <2>2. CASE Scheduled(r) BY <1>0, <1>1, <2>2 DEF Scheduled
  <2>3. CASE BootReference(r) BY <1>0, <1>1, <2>3 DEF BootReference, BootDone
  <2> QED BY <1>7, <2>1, <2>2, <2>3 DEF Admitting
<1>8. ASSUME NEW r \in Runs, Handling(r) PROVE AppType'
  BY <1>0, <1>1, <1>8
     DEF Handling, CancelCoding, GroupStart, GroupControl, GroupRevised, GroupCancelled,
         GroupLeaves, BootOrphan, app
<1> QED BY <1>2, <1>3, <1>4, <1>5, <1>6, <1>7, <1>8, AppSorting

(* What a control that has begun does next.                                 *)
Goes(r) ==
  \/ Wants(r, "interrupt") /\ Turn(r, "cancel")
  \/ Wants(r, "cancel") /\ CancelSaved(r) /\ Turn(r, "clear")
  \/ Wants(r, "reference") /\ ReferenceSaved(r) /\ Turn(r, "schedule")
  \/ Wants(r, "stop_revise") /\ Turn(r, "revise")
  \/ Wants(r, "stop_cancel") /\ Turn(r, "group_cancel")
  \/ Wants(r, "revise") /\ Turn(r, "schedule")
  \/ ctl.run = r /\ ctl.pc \in GroupStage /\ Turn(r, "leave")

(* The control stands still, begins, goes on or is over.                    *)
LEMMA CtlSteps ==
  ASSUME [AppNext]_all
  PROVE \/ ctl' = ctl /\ (boot' = boot \/ ~Up)
        \/ ctl' = NoCtl
        \/ boot' = boot /\ \E r \in Runs : Asks(r) \/ Goes(r)
<1>1. CASE UNCHANGED all \/ UNCHANGED app BY <1>1 DEF all, app
<1>2. CASE AppCrash \/ Opening BY <1>2 DEF AppCrash, Opening, BootNoSession, Admitted, Up
<1>3. ASSUME NEW r \in Runs, Silent(r)
      PROVE \/ ctl' = ctl /\ (boot' = boot \/ ~Up)
            \/ ctl' = NoCtl
            \/ boot' = boot /\ Goes(r)
  <2>1. CASE SessionSaved(r) \/ SessionNotSaved(r) \/ DriveNotified(r) \/ SessionCleared(r)
    BY <2>1 DEF SessionSaved, SessionNotSaved, DriveNotified, SessionCleared, Done
  <2>2. CASE Interrupted(r) \/ GroupInterrupted(r)
    BY <2>2 DEF Interrupted, GroupInterrupted, Goes
  <2>3. CASE ReferenceSaved(r) \/ ReferenceNotSaved(r)
    BY <2>3 DEF ReferenceSaved, ReferenceNotSaved, Goes, Wants, GroupStage
  <2>4. CASE GroupRefused(r) BY <2>4 DEF GroupRefused, Goes, GroupStage
  <2>5. CASE DriveReturned(r) \/ DriveCaught(r) \/ DriveRead(r) \/ DriveFinish(r)
              \/ GroupDriveReturned(r) \/ GroupDriveRead(r)
    BY <2>5 DEF DriveReturned, DriveCaught, DriveRead, DriveFinish, GroupDriveReturned, GroupDriveRead
  <2>6. CASE BootFails(r) \/ BootSession(r)
    BY <2>6 DEF BootFails, BootSession, BootStage, Up
  <2> QED BY <1>3, <2>1, <2>2, <2>3, <2>4, <2>5, <2>6 DEF Silent
<1>4. ASSUME NEW r \in Runs, Using(r)
      PROVE \/ ctl' = ctl /\ (boot' = boot \/ ~Up)
            \/ ctl' = NoCtl
            \/ boot' = boot /\ (Asks(r) \/ Goes(r))
  <2>1. CASE StartCoding(r) \/ ReviseCoding(r) BY <2>1 DEF StartCoding, ReviseCoding, Asks
  <2>2. CASE CancelSaved(r) \/ CancelRefused(r) BY <2>2 DEF CancelSaved, CancelRefused, Done, Goes
  <2>3. CASE BootRecovers(r) BY <2>3 DEF BootRecovers, BootStage, Up
  <2> QED BY <1>4, <2>1, <2>2, <2>3 DEF Using
<1>5. ASSUME NEW r \in Runs, Admitting(r)
      PROVE \/ ctl' = ctl /\ (boot' = boot \/ ~Up)
            \/ boot' = boot /\ Goes(r)
  <2>1. CASE DriveTop(r) \/ GroupDriveAgain(r) BY <2>1 DEF DriveTop, GroupDriveAgain
  <2>2. CASE Scheduled(r) BY <2>2 DEF Scheduled, Goes, Wants, GroupStage
  <2>3. CASE BootReference(r) BY <2>3 DEF BootReference, BootStage, Up
  <2> QED BY <1>5, <2>1, <2>2, <2>3 DEF Admitting
<1>6. ASSUME NEW r \in Runs, Handling(r)
      PROVE \/ ctl' = ctl /\ boot' = boot
            \/ ctl' = NoCtl
            \/ boot' = boot /\ (Asks(r) \/ Goes(r))
  <2>1. CASE CancelCoding(r) \/ GroupStart(r) \/ GroupControl(r)
    BY <2>1 DEF CancelCoding, GroupStart, GroupControl, Asks
  <2>2. CASE GroupRevised(r) \/ GroupCancelled(r)
    BY <2>2 DEF GroupRevised, GroupCancelled, Goes, Wants, GroupStage
  <2>3. CASE GroupLeaves(r) \/ BootOrphan(r) BY <2>3 DEF GroupLeaves, BootOrphan, Done, app
  <2> QED BY <1>6, <2>1, <2>2, <2>3 DEF Handling
<1> QED BY <1>1, <1>2, <1>3, <1>4, <1>5, <1>6, AppSorting

(* What a member asks for has a record and its first stage.                 *)
LEMMA Asking ==
  ASSUME AInv, NEW r \in Runs, Asks(r)
  PROVE /\ Up /\ ctl = NoCtl /\ Exists(r)'
        /\ \/ ctl' = ctl
           \/ r \in Private /\ fg' = fg /\ Turn(r, "saving") /\ fg = None
           \/ r \in Private /\ fg' = fg /\ fg = r
              /\ (Turn(r, "notify") \/ Turn(r, "interrupt"))
           \/ r \in Group /\ Turn(r, "reference") /\ auth = None /\ auth' = r /\ inv' = inv
           \/ /\ r \in gref /\ r \in Group /\ auth = None /\ auth' = r /\ inv' = inv
              /\ \E pc \in {"stop_revise", "stop_cancel"} : Turn(r, pc)
<1>1. AppType /\ SessionShape /\ IInv BY DEF AInv, AppInv
<1>2. None \notin Runs /\ None \notin Group BY EnvAssumption
<1>3. CASE StartCoding(r) BY <1>1, <1>3, StartMakes DEF StartCoding, Idling
<1>4. CASE GroupStart(r)
  BY <1>1, <1>4, StartMakes DEF GroupStart, Idling, Start, ProjectFree
<1>5. CASE ReviseCoding(r)
  <2>1. r \in Private /\ Exists(r) BY <1>1, <1>2, <1>5 DEF ReviseCoding, AppType, SessionShape
  <2>2. Exists(r)'
    <3>1. Member(r) BY <1>5 DEF ReviseCoding, Member
    <3> QED BY <1>1, <2>1, <3>1, RecordsStay DEF Moves, Next
  <2> QED BY <1>5, <2>1, <2>2 DEF ReviseCoding, Idling
<1>6. CASE CancelCoding(r)
  <2>1. r \in Private /\ Exists(r) BY <1>1, <1>2, <1>6 DEF CancelCoding, AppType, SessionShape
  <2> QED BY <1>6, <2>1 DEF CancelCoding, Idling, durable, Exists
<1>7. CASE GroupControl(r)
  <2>1. r \in Group BY <1>1, <1>7 DEF GroupControl, AppType
  <2> QED BY <1>7, <2>1 DEF GroupControl, Idling, durable, Exists, Alive, ProjectFree
<1> QED BY <1>3, <1>4, <1>5, <1>6, <1>7 DEF Asks

(* A control is one of a run with a record.                                  *)
LEMMA CtlKept == ASSUME AInv, [AppNext]_all PROVE CtlShape'
<1>1. AppType /\ CtlShape /\ IInv BY DEF AInv, AppInv
<1>2. Group \subseteq Runs /\ Private \subseteq Runs BY EnvAssumption DEF Private
<1>3. CASE ctl' = ctl /\ (boot' = boot \/ ~Up)
  <2>1. ctl # NoCtl => ctl.run \in Runs BY <1>1, <1>2 DEF CtlShape
  <2>2. ASSUME ctl # NoCtl PROVE Exists(ctl.run)'
    <3>1. PICK q \in Runs : q = ctl.run BY <2>1, <2>2
    <3>2. Exists(q) BY <1>1, <2>2, <3>1 DEF CtlShape
    <3>3. Exists(q)' BY <3>2, Lasting
    <3> QED BY <1>3, <3>1, <3>3 DEF Exists
  <2> QED BY <1>1, <1>3, <2>2 DEF CtlShape, Up
<1>4. CASE ctl' = NoCtl BY <1>4 DEF CtlShape
<1>5. ASSUME NEW r \in Runs, Asks(r), boot' = boot PROVE CtlShape'
  BY <1>1, <1>3, <1>5, Asking DEF CtlShape, Turn, PrivateStage, GroupStage, Up, NoCtl
<1>6. ASSUME NEW r \in Runs, Goes(r), boot' = boot PROVE CtlShape'
  <2>1. ctl.run = r /\ ctl.pc \in PrivateStage \cup GroupStage
    BY <1>6 DEF Goes, Wants, PrivateStage, GroupStage
  <2>2. ctl # NoCtl BY <2>1 DEF NoCtl, PrivateStage, GroupStage
  <2>3. Up /\ Exists(r)' BY <1>1, <2>1, <2>2, Lasting DEF CtlShape
  <2>4. /\ ctl'.run = r /\ ctl'.pc \in PrivateStage \cup GroupStage
        /\ ctl'.pc \in PrivateStage <=> ctl.pc \in PrivateStage
    BY <1>6 DEF Goes, Wants, Turn, PrivateStage, GroupStage
  <2>5. \/ ctl'.pc \in PrivateStage /\ r \in Private
        \/ ctl'.pc \in GroupStage /\ r \in Group
    BY <1>1, <2>1, <2>2, <2>4 DEF CtlShape, PrivateStage, GroupStage
  <2> QED BY <1>6, <2>3, <2>4, <2>5 DEF CtlShape, Up
<1> QED BY <1>3, <1>4, <1>5, <1>6, CtlSteps

(* The authority stays with the control that has it, and with it no          *)
(* operation gets to a visible middle.                                        *)
LEMMA AuthorityHeld ==
  ASSUME AInv, [AppNext]_all, ~AppCrash, ctl' # NoCtl,
         auth # None, \A q \in Runs : inv[q].pc \notin Holders
  PROVE auth' = auth /\ \A q \in Runs : inv'[q].pc \notin Holders
<1>1. IInv BY DEF AInv
<1>2. UNCHANGED vars => auth' = auth /\ inv' = inv BY DEF vars, volatile
<1>3. CASE UNCHANGED vars BY <1>2, <1>3
<1>4. ASSUME NEW r \in Runs, Invocation(r) \/ ProviderSettles(r)
      PROVE auth' = auth /\ \A q \in Runs : inv'[q].pc \notin Holders
  BY <1>1, <1>4, SlotSteps
<1>5. ASSUME NEW r \in Runs, Launches(r)
      PROVE auth' = auth /\ \A q \in Runs : inv'[q].pc \notin Holders
  BY <1>1, <1>5, LaunchSteps DEF Holders, Critical
<1>6. ASSUME NEW r \in Runs, Handling(r)
      PROVE auth' = auth /\ \A q \in Runs : inv'[q].pc \notin Holders
  BY <1>6, HandlingSteps DEF GroupLeaves, Done
<1>7. ASSUME ProjectMoves \/ \E r \in Runs : LeaseExpires(r) PROVE auth' = auth /\ inv' = inv
  BY <1>7 DEF LeaseExpires, ProjectMoves, volatile
<1>8. CASE \E r \in Runs : Using(r)
  BY <1>8, UsingSteps
<1>9. CASE \E r \in Runs : Admitting(r)
  BY <1>3, <1>5, <1>9, AdmittingSteps
<1>10. CASE Underneath BY <1>4, <1>7, <1>10 DEF Underneath
<1>11. CASE UNCHANGED all BY <1>3, <1>11 DEF all
<1> QED BY <1>3, <1>6, <1>8, <1>9, <1>10, <1>11, SilentSteps, AppSorting

(* A group control has the authority from its first stage to its last.      *)
LEMMA HoldKept == ASSUME AInv, [AppNext]_all PROVE HoldShape'
<1>1. CtlShape /\ HoldShape /\ IInv BY DEF AInv, AppInv
<1>2. None \notin Group /\ Group \subseteq Runs BY EnvAssumption
<1>3. NoCtl.pc \notin GroupStage /\ NoCtl.pc \notin PrivateStage
  BY DEF NoCtl, GroupStage, PrivateStage
<1>4. CASE ctl' = NoCtl BY <1>3, <1>4 DEF HoldShape
<1>5. ASSUME ctl'.pc \in GroupStage, ctl' # NoCtl, ctl.pc \in GroupStage, ctl'.run = ctl.run
      PROVE HoldShape'
  <2>1. ~AppCrash BY <1>5 DEF AppCrash
  <2>2. ctl.run \in Group
    BY <1>1, <1>3, <1>5 DEF CtlShape, PrivateStage, GroupStage
  <2>3. auth = ctl.run /\ auth # None /\ \A q \in Runs : inv[q].pc \notin Holders
    BY <1>1, <1>2, <1>5, <2>2 DEF HoldShape
  <2> QED BY <1>5, <2>1, <2>3, AuthorityHeld DEF HoldShape
<1>6. ASSUME NEW r \in Runs, Asks(r), ctl'.pc \in GroupStage, ctl' # ctl PROVE HoldShape'
  <2>1. auth = None /\ auth' = r /\ inv' = inv /\ ctl'.run = r
    BY <1>6, Asking DEF Turn, GroupStage
  <2>2. \A q \in Runs : inv[q].pc \notin Holders
    BY <1>1, <2>1, EnvAssumption DEF IInv, LockShape
  <2> QED BY <2>1, <2>2 DEF HoldShape
<1>7. ASSUME NEW r \in Runs, Goes(r), ctl'.pc \in GroupStage PROVE HoldShape'
  <2>1. ctl'.run = ctl.run /\ ctl.pc \in GroupStage
    BY <1>7 DEF Goes, Wants, Turn, GroupStage
  <2> QED BY <1>3, <1>4, <1>5, <1>7, <2>1
<1>8. CASE ctl'.pc \notin GroupStage BY <1>8 DEF HoldShape
<1> QED BY <1>4, <1>5, <1>6, <1>7, <1>8, CtlSteps

--------------------------------------------------------------------------------
(* Only these steps change the recovery and the references.                  *)
LEMMA BootSteps ==
  ASSUME AInv, [AppNext]_all
  PROVE \/ boot' = boot
        \/ AppCrash \/ BootNoSession \/ Admitted
        \/ boot'.pc = "failed" /\ boot'.todo = boot.todo /\ gref' = gref
        \/ \E r \in Runs : BootSession(r) \/ BootReference(r)
<1>1. CASE UNCHANGED all \/ UNCHANGED app BY <1>1 DEF all, app
<1>2. ASSUME NEW r \in Runs, Silent(r), ~BootSession(r), ~BootFails(r) PROVE boot' = boot
  BY <1>2
     DEF Silent, SessionSaved, SessionNotSaved, DriveNotified, Interrupted, SessionCleared,
         DriveReturned, DriveCaught, DriveRead, DriveFinish, ReferenceSaved,
         ReferenceNotSaved, GroupInterrupted, GroupRefused, GroupDriveReturned, GroupDriveRead
<1>3. ASSUME NEW r \in Runs, Using(r), ~BootRecovers(r) PROVE boot' = boot
  BY <1>3 DEF Using, StartCoding, ReviseCoding, CancelSaved, CancelRefused
<1>4. ASSUME NEW r \in Runs, Admitting(r), ~BootReference(r) PROVE boot' = boot
  BY <1>4 DEF Admitting, DriveTop, Scheduled, GroupDriveAgain
<1>5. ASSUME NEW r \in Runs, Handling(r) PROVE boot' = boot
  BY <1>5
     DEF Handling, CancelCoding, GroupStart, GroupControl, GroupRevised, GroupCancelled,
         GroupLeaves, BootOrphan, app
<1>6. boot \in [pc : {"session", "groups", "up", "failed"}, todo : SUBSET Group]
  BY DEF AInv, AppInv, AppType
<1>7. ASSUME NEW r \in Runs, BootFails(r) \/ BootRecovers(r)
      PROVE boot' = boot \/ (boot' = [boot EXCEPT !.pc = "failed"] /\ gref' = gref)
  BY <1>7 DEF BootFails, BootRecovers
<1>8. ASSUME boot' = [boot EXCEPT !.pc = "failed"]
      PROVE boot'.pc = "failed" /\ boot'.todo = boot.todo
  BY <1>6, <1>8
<1> QED BY <1>1, <1>2, <1>3, <1>4, <1>5, <1>7, <1>8, AppSorting DEF Opening

(* A reference is only ever added.                                          *)
LEMMA RefSteps ==
  ASSUME [AppNext]_all
  PROVE gref' = gref \/ \E r \in Runs : ReferenceSaved(r)
<1>1. CASE UNCHANGED all \/ UNCHANGED app BY <1>1 DEF all, app
<1>2. CASE AppCrash \/ Opening BY <1>2 DEF AppCrash, Opening, BootNoSession, Admitted
<1>3. ASSUME NEW r \in Runs, Silent(r), ~ReferenceSaved(r) PROVE gref' = gref
  BY <1>3
     DEF Silent, SessionSaved, SessionNotSaved, DriveNotified, Interrupted, SessionCleared,
         DriveReturned, DriveCaught, DriveRead, DriveFinish, ReferenceNotSaved, GroupInterrupted,
         GroupRefused, GroupDriveReturned, GroupDriveRead, BootFails, BootSession
<1>4. ASSUME NEW r \in Runs, Using(r) PROVE gref' = gref
  BY <1>4 DEF Using, StartCoding, ReviseCoding, CancelSaved, CancelRefused, BootRecovers
<1>5. ASSUME NEW r \in Runs, Admitting(r) PROVE gref' = gref
  BY <1>5 DEF Admitting, DriveTop, Scheduled, GroupDriveAgain, BootReference
<1>6. ASSUME NEW r \in Runs, Handling(r) PROVE gref' = gref
  BY <1>6
     DEF Handling, CancelCoding, GroupStart, GroupControl, GroupRevised, GroupCancelled,
         GroupLeaves, BootOrphan, app
<1> QED BY <1>1, <1>2, <1>3, <1>4, <1>5, <1>6, AppSorting

(* The session gets a run that a control started, and lets go only of a run  *)
(* that is over.                                                             *)
LEMMA SessionSteps ==
  ASSUME AInv, [AppNext]_all
  PROVE \/ fg' = fg
        \/ \E r \in Runs : SessionSaved(r) /\ fg = None
        \/ /\ fg' = None /\ fg \in Private /\ Exists(fg) /\ Terminal(run[fg])
           /\ \/ ctl' = NoCtl
              \/ ctl' = ctl /\ ctl.pc \notin PrivateStage
<1>1. AppType /\ CtlShape /\ SessionShape /\ DriveShape BY DEF AInv, AppInv
<1>2. None \notin Runs /\ (fg # None => fg \in Private) BY <1>1, EnvAssumption DEF AppType
<1>3. CASE UNCHANGED all \/ UNCHANGED app BY <1>3 DEF all, app
<1>4. CASE AppCrash \/ Opening BY <1>4 DEF AppCrash, Opening, BootNoSession, Admitted
<1>5. ASSUME NEW r \in Runs, Silent(r),
             ~SessionSaved(r), ~SessionCleared(r), ~DriveFinish(r), ~BootSession(r)
      PROVE fg' = fg
  BY <1>5
     DEF Silent, SessionNotSaved, DriveNotified, Interrupted, DriveReturned, DriveCaught,
         DriveRead, ReferenceSaved, ReferenceNotSaved, GroupInterrupted, GroupRefused,
         GroupDriveReturned, GroupDriveRead, BootFails
<1>6. ASSUME NEW r \in Runs, Using(r) PROVE fg' = fg
  BY <1>6 DEF Using, StartCoding, ReviseCoding, CancelSaved, CancelRefused, BootRecovers
<1>7. ASSUME NEW r \in Runs, Admitting(r) PROVE fg' = fg
  BY <1>7 DEF Admitting, DriveTop, Scheduled, GroupDriveAgain, BootReference
<1>8. ASSUME NEW r \in Runs, Handling(r) PROVE fg' = fg
  BY <1>8
     DEF Handling, CancelCoding, GroupStart, GroupControl, GroupRevised, GroupCancelled,
         GroupLeaves, BootOrphan, app
<1>9. ASSUME NEW r \in Runs, SessionSaved(r) PROVE fg = None
  BY <1>1, <1>9 DEF SessionSaved, Wants, SessionShape
<1>10. ASSUME NEW r \in Runs, SessionCleared(r)
       PROVE fg' = None /\ fg \in Private /\ Exists(fg) /\ Terminal(run[fg]) /\ ctl' = NoCtl
  <2>1. fg = r /\ Terminal(run[r])
    BY <1>1, <1>10 DEF SessionCleared, Wants, SessionShape, PrivateStage
  <2> QED BY <1>1, <1>2, <1>10, <2>1 DEF SessionCleared, Done, SessionShape
<1>11. ASSUME NEW r \in Runs, DriveFinish(r), fg' # fg
       PROVE /\ fg' = None /\ fg \in Private /\ Exists(fg) /\ Terminal(run[fg])
             /\ ctl' = ctl /\ ctl.pc \notin PrivateStage
  <2>1. fg = r /\ fg' = None /\ drv[r].pc = "finish" /\ drv[r].ended /\ ctl' = ctl
    BY <1>11 DEF DriveFinish
  <2>2. Exists(r) /\ Terminal(run[r]) BY <1>1, <2>1 DEF DriveShape
  <2>3. ctl.pc \notin PrivateStage
    BY <1>1, <1>11 DEF DriveFinish, CtlShape, NoCtl, PrivateStage, GroupStage
  <2> QED BY <1>2, <2>1, <2>2, <2>3
<1>12. ASSUME NEW r \in Runs, BootSession(r), fg' # fg
       PROVE /\ fg' = None /\ fg \in Private /\ Exists(fg) /\ Terminal(run[fg])
             /\ ctl' = ctl /\ ctl.pc \notin PrivateStage
  <2>1. fg = r /\ fg' = None /\ Terminal(run[r]) /\ ctl' = ctl /\ ~Up
    BY <1>12 DEF BootSession, BootStage, Up
  <2>2. ctl.pc \notin PrivateStage BY <1>1, <2>1 DEF CtlShape, NoCtl, PrivateStage
  <2> QED BY <1>1, <1>2, <2>1, <2>2 DEF SessionShape
<1> QED BY <1>3, <1>4, <1>5, <1>6, <1>7, <1>8, <1>9, <1>10, <1>11, <1>12, AppSorting

(* The session is the run its control is about, and the control that clears  *)
(* it has seen the run closed.                                               *)
LEMMA SessionKept == ASSUME AInv, [AppNext]_all PROVE SessionShape'
<1>1. AppType /\ CtlShape /\ SessionShape /\ IInv BY DEF AInv, AppInv
<1>2. None \notin Runs /\ Private \subseteq Runs BY EnvAssumption DEF Private
<1>3. fg' # None => Exists(fg)'
  <2>1. ASSUME NEW q \in Runs, Exists(q), fg' = q PROVE Exists(fg)'
    <3>1. Exists(q)' BY <2>1, Lasting
    <3> QED BY <2>1, <3>1 DEF Exists
  <2>2. ASSUME fg' = fg, fg # None PROVE Exists(fg)'
    BY <1>1, <1>2, <2>1, <2>2 DEF SessionShape, AppType
  <2>3. ASSUME NEW r \in Runs, SessionSaved(r) PROVE Exists(fg)'
    <3>1. Exists(r) BY <1>1, <2>3 DEF SessionSaved, Wants, CtlShape, NoCtl
    <3> QED BY <2>1, <2>3, <3>1 DEF SessionSaved
  <2> QED BY <2>2, <2>3, SessionSteps
<1>4. CASE ctl' = NoCtl
  BY <1>3, <1>4 DEF SessionShape, NoCtl, PrivateStage
<1>5. CASE ctl' = ctl /\ ctl # NoCtl
  <2>1. fg' = fg \/ ctl.pc \notin PrivateStage
    BY <1>5, SessionSteps DEF SessionSaved, Done
  <2>2. ctl.pc \in PrivateStage => ctl.run \in Private /\ Exists(ctl.run)
    BY <1>1, <1>5 DEF CtlShape, PrivateStage, GroupStage
  <2>3. ctl.pc = "clear" => Terminal(run'[ctl.run])
    <3>1. ASSUME ctl.pc = "clear" PROVE Terminal(run'[ctl.run])
      <4>1. PICK q \in Runs : q = ctl.run /\ Exists(q) BY <1>2, <2>2, <3>1 DEF PrivateStage
      <4> QED BY <1>1, <3>1, <4>1, Lasting DEF SessionShape
    <3> QED BY <3>1
  <2> QED BY <1>1, <1>3, <1>5, <2>1, <2>3 DEF SessionShape, PrivateStage
<1>6. ASSUME NEW r \in Runs, Asks(r), ctl' # ctl PROVE SessionShape'
  BY <1>2, <1>3, <1>6, Asking DEF SessionShape, Turn, PrivateStage
<1>7. ASSUME NEW r \in Runs, Goes(r) PROVE SessionShape'
  <2>1. ctl'.run = r /\ ctl.run = r
    BY <1>7 DEF Goes, Wants, Turn, NoCtl, GroupStage
  <2>2. CASE ctl'.pc \notin PrivateStage
    BY <1>3, <2>2 DEF SessionShape, PrivateStage
  <2>3. CASE ctl'.pc \in PrivateStage
    <3>1. /\ ctl.pc \in PrivateStage \ {"saving"} /\ ctl'.pc \in {"cancel", "clear"}
          /\ ctl'.pc = "clear" => CancelSaved(r)
      BY <1>7, <2>3 DEF Goes, Wants, Turn, PrivateStage, GroupStage
    <3>2. fg = r /\ fg' = r
      <4>1. ctl' # NoCtl BY <3>1 DEF NoCtl
      <4>2. fg = r BY <1>1, <2>1, <3>1 DEF SessionShape
      <4>3. fg' = fg BY <3>1, <4>1, SessionSteps DEF SessionSaved, Done
      <4> QED BY <4>2, <4>3
    <3>3. CancelSaved(r) => Terminal(run'[r])
      <4>1. ASSUME CancelSaved(r) PROVE Terminal(run'[r])
        <5>1. Exists(r) BY <1>1, <1>2, <3>2 DEF SessionShape
        <5>2. CASE UNCHANGED vars /\ Terminal(run[r]) BY <5>2 DEF vars, durable
        <5>3. CASE Cancel(r)
          <6>1. run'[r] = Cancelled(run[r]) BY <1>1, <5>3 DEF Cancel, Put, IInv, TypeOK
          <6>2. run[r] \in Run BY <1>1, <5>1, Shown DEF IInv
          <6> QED BY <6>1, <6>2 DEF Cancelled, Terminal, TerminalStatus, Run
        <5> QED BY <4>1, <5>2, <5>3 DEF CancelSaved
      <4> QED BY <4>1
    <3> QED BY <1>3, <2>1, <3>1, <3>2, <3>3 DEF SessionShape
  <2> QED BY <2>2, <2>3
<1> QED BY <1>4, <1>5, <1>6, <1>7, CtlSteps

--------------------------------------------------------------------------------
(* A drive starts for a run that has a record, a group run's under its       *)
(* reference; one that ends knows whether its run is over.                    *)
LEMMA Waking ==
  ASSUME AInv, NEW r \in Runs, Wakes(r)
  PROVE \/ Exists(r) /\ (r \in Group => r \in gref)
        \/ drv' = drv
        \/ drv'[r].pc = "off"
<1>1. AppType /\ CtlShape /\ SessionShape /\ RefShape /\ BootShape BY DEF AInv, AppInv
<1>2. None \notin Runs BY EnvAssumption
<1>3. CASE SessionSaved(r) \/ DriveNotified(r)
  BY <1>1, <1>3 DEF SessionSaved, DriveNotified, Wants, CtlShape, NoCtl, PrivateStage, GroupStage,
                    Private
<1>4. CASE BootSession(r)
  BY <1>1, <1>2, <1>4 DEF BootSession, BootStage, SessionShape, AppType, Private
<1>5. CASE Scheduled(r)
  BY <1>1, <1>5 DEF Scheduled, Wants, CtlShape, NoCtl, GroupStage, RefShape
<1>6. CASE BootReference(r)
  <2>1. r \in gref BY <1>1, <1>6 DEF BootReference, BootStage, BootShape
  <2>2. drv' = drv \/ Launch(r, {"drv"}) BY <1>6 DEF BootReference
  <2> QED BY <2>1, <2>2 DEF Launch
<1> QED BY <1>3, <1>4, <1>5, <1>6 DEF Wakes

(* So a drive that is on has a run, and one that is done is right about it.  *)
LEMMA DriveKept == ASSUME AInv, [AppNext]_all PROVE DriveShape'
<1>1. AppType /\ DriveShape /\ IInv BY DEF AInv, AppInv
<1>2. CASE AppCrash BY <1>2 DEF AppCrash, DriveShape, Asleep
<1>3. ASSUME ~AppCrash, NEW q \in Runs
      PROVE /\ drv'[q].pc # "off" => Exists(q)'
            /\ drv'[q].pc = "finish" /\ drv'[q].ended => Terminal(run'[q])
  <2>1. Exists(q) => Exists(q)' /\ (Terminal(run[q]) => Terminal(run'[q])) BY Lasting
  <2>2. CASE drv'[q] = drv[q] BY <1>1, <2>1, <2>2 DEF DriveShape
  <2>3. ASSUME NEW d \in Drives, drv' = [drv EXCEPT ![q] = d], Follows(q, d), drv' # drv
        PROVE /\ drv'[q].pc # "off" => Exists(q)'
              /\ drv'[q].pc = "finish" /\ drv'[q].ended => Terminal(run'[q])
    <3>1. drv'[q] = d BY <1>1, <2>3 DEF AppType
    <3> QED BY <1>1, <2>1, <2>3, <3>1, Waking DEF DriveShape, Follows
  <2>4. drv'[q] = drv[q] \/ \E d \in Drives : drv' = [drv EXCEPT ![q] = d] /\ Follows(q, d)
    BY <1>1, <1>3, DriveSteps DEF AppType
  <2> QED BY <2>2, <2>3, <2>4
<1> QED BY <1>2, <1>3 DEF DriveShape

(* Whatever works on a group run does it under a reference.                  *)
LEMMA RefKept == ASSUME AInv, [AppNext]_all PROVE RefShape'
<1>1. AppType /\ CtlShape /\ RefShape /\ IInv BY DEF AInv, AppInv
<1>2. Group \subseteq Runs BY EnvAssumption
<1>3. gref \subseteq gref' BY RefSteps DEF ReferenceSaved
<1>4. ASSUME NEW g \in Group, drv'[g].pc # "off" PROVE g \in gref \/ drv[g].pc # "off"
  <2>1. CASE AppCrash BY <1>2, <1>4, <2>1 DEF AppCrash, Asleep
  <2>2. CASE drv'[g] = drv[g] BY <1>4, <2>2
  <2>3. ASSUME NEW d \in Drives, drv' = [drv EXCEPT ![g] = d], Follows(g, d), drv' # drv
        PROVE g \in gref \/ drv[g].pc # "off"
    <3>1. drv'[g] = d BY <1>1, <1>2, <2>3 DEF AppType
    <3> QED BY <1>2, <1>4, <2>3, <3>1, Waking DEF Follows
  <2>4. CASE ~AppCrash
    <3>1. drv'[g] = drv[g] \/ \E d \in Drives : drv' = [drv EXCEPT ![g] = d] /\ Follows(g, d)
      BY <1>1, <1>2, <2>4, DriveSteps DEF AppType
    <3> QED BY <2>2, <2>3, <3>1
  <2> QED BY <2>1, <2>4
<1>5. \A g \in Group : inv'[g].pc # "off" \/ drv'[g].pc # "off" => g \in gref'
  BY <1>1, <1>3, <1>4, SlotsTaken DEF RefShape
<1>6. ctl'.pc \in GroupStage \ {"reference", "leave"} => ctl'.run \in gref'
  <2>1. CASE ctl' = ctl BY <1>1, <1>3, <2>1 DEF RefShape
  <2>2. CASE ctl' = NoCtl BY <2>2 DEF NoCtl, GroupStage
  <2>3. ASSUME NEW r \in Runs, Asks(r), ctl' # ctl, ctl'.pc \in GroupStage \ {"reference", "leave"}
        PROVE ctl'.run \in gref'
    BY <1>3, <2>3, Asking DEF Turn, GroupStage
  <2>4. ASSUME NEW r \in Runs, Goes(r), ctl'.pc \in GroupStage \ {"reference", "leave"}
        PROVE ctl'.run \in gref'
    BY <1>1, <1>3, <2>4 DEF Goes, ReferenceSaved, Wants, Turn, GroupStage, RefShape
  <2> QED BY <2>1, <2>2, <2>3, <2>4, CtlSteps
<1>7. ASSUME NEW g \in Group \ gref', Exists(g)' PROVE run'[g].pend = None
  <2>1. g \in Group \ gref BY <1>3, <1>7
  <2>2. inv[g].pc = "off" /\ (Exists(g) => run[g].pend = None) BY <1>1, <2>1 DEF RefShape
  <2>3. [Moves]_vars BY Lasting
  <2> QED BY <1>1, <1>2, <1>7, <2>1, <2>2, <2>3, NothingPends
<1> QED BY <1>5, <1>6, <1>7 DEF RefShape

(* Recovery keeps what it has settled.                                      *)
LEMMA BootKept == ASSUME AInv, [AppNext]_all PROVE BootShape'
<1>1. AppType /\ CtlShape /\ BootShape /\ RefShape /\ IInv BY DEF AInv, AppInv
<1>2. Group \subseteq Runs /\ Private \subseteq Runs BY EnvAssumption DEF Private
<1>3. CASE AppCrash BY <1>3 DEF AppCrash, BootShape
<1>4. ASSUME ~AppCrash, NEW q \in Runs, Mine(q) PROVE Mine(q)'
  BY <1>1, <1>4, EngineSteps, MineStays
<1>5. ~Up => ctl = NoCtl BY <1>1 DEF CtlShape
<1>6. ~Up => gref' = gref /\ fg' \in {fg, None}
  <2>1. ~Up => \A r \in Runs, pc \in PrivateStage \cup GroupStage : ~Wants(r, pc)
    BY <1>5 DEF Wants, NoCtl, PrivateStage, GroupStage
  <2>2. \A r \in Runs : ~Up => ~ReferenceSaved(r) /\ ~SessionSaved(r)
    BY <2>1 DEF ReferenceSaved, SessionSaved, PrivateStage, GroupStage
  <2> QED BY <2>2, RefSteps, SessionSteps
<1>7. gref \subseteq gref' BY RefSteps DEF ReferenceSaved
<1>8. ASSUME ~AppCrash, boot' = boot PROVE BootShape'
  <2>1. boot.todo \subseteq gref' BY <1>1, <1>7 DEF BootShape
  <2>2. ASSUME boot.pc = "groups" PROVE /\ fg' # None => Mine(fg)'
                                        /\ \A g \in gref' \ boot.todo : Mine(g)'
    <3>1. gref' = gref /\ fg' \in {fg, None} BY <1>6, <2>2 DEF Up
    <3>2. \A g \in gref \ boot.todo : g \in Runs /\ Mine(g) BY <1>1, <1>2, <2>2 DEF BootShape, AppType
    <3>3. \A g \in gref' \ boot.todo : Mine(g)' BY <1>4, <1>8, <3>1, <3>2
    <3>4. ASSUME fg' # None PROVE Mine(fg)'
      <4>1. PICK q \in Runs : q = fg /\ q = fg' /\ Mine(q)
        BY <1>1, <1>2, <2>2, <3>1, <3>4 DEF BootShape, AppType
      <4>2. Mine(q)' BY <1>4, <1>8, <4>1
      <4> QED BY <4>1, <4>2 DEF Mine, Exists
    <3> QED BY <3>3, <3>4
  <2>3. boot.pc = "session" => boot.todo = gref' BY <1>1, <1>6 DEF BootShape, Up
  <2> QED BY <1>8, <2>1, <2>2, <2>3 DEF BootShape
<1>9. CASE BootNoSession \/ Admitted
  <2>1. boot.pc \in {"session", "groups"} /\ gref' = gref /\ fg' = fg /\ boot'.todo = boot.todo
    BY <1>1, <1>9 DEF BootNoSession, Admitted, BootDone, AppType
  <2>2. CASE BootNoSession
    <3>1. boot'.pc = "groups" /\ fg = None /\ boot.todo = gref
      BY <1>1, <2>2 DEF BootNoSession, BootDone, AppType, BootShape
    <3> QED BY <2>1, <3>1 DEF BootShape
  <2>3. CASE Admitted
    <3>1. boot'.pc = "up" BY <1>1, <2>3 DEF Admitted, AppType
    <3> QED BY <1>1, <2>1, <3>1 DEF BootShape
  <2> QED BY <1>9, <2>2, <2>3
<1>10. ASSUME boot'.pc = "failed", boot'.todo = boot.todo, gref' = gref PROVE BootShape'
  BY <1>1, <1>10 DEF BootShape
<1>11. ASSUME NEW r \in Runs, BootSession(r) PROVE BootShape'
  <2>1. /\ boot.pc = "session" /\ fg = r /\ run[r].pend = None /\ UNCHANGED vars /\ gref' = gref
        /\ fg' \in {None, r} /\ boot' = [boot EXCEPT !.pc = "groups"]
    BY <1>11 DEF BootSession, BootStage, BootDone
  <2>2. boot'.pc = "groups" /\ boot'.todo = gref' BY <1>1, <2>1 DEF AppType, BootShape
  <2>3. Mine(r)' BY <2>1 DEF Mine, vars, durable
  <2> QED BY <2>1, <2>2, <2>3 DEF BootShape, Mine, Exists
<1>12. ASSUME NEW r \in Runs, BootReference(r) PROVE BootShape'
  <2>1. /\ boot.pc = "groups" /\ run[r].pend = None /\ gref' = gref /\ fg' = fg
        /\ boot' = [boot EXCEPT !.todo = @ \ {r}]
    BY <1>12 DEF BootReference, BootStage, BootDone
  <2>2. boot'.pc = "groups" /\ boot'.todo = boot.todo \ {r} BY <1>1, <2>1 DEF AppType
  <2>3. ~AppCrash BY <2>1, <2>2 DEF AppCrash
  <2>4. \A g \in gref' \ boot'.todo : g \in Runs /\ Mine(g)
    BY <1>1, <1>2, <2>1, <2>2 DEF BootShape, AppType, Mine
  <2>5. \A g \in gref' \ boot'.todo : Mine(g)' BY <1>4, <2>3, <2>4
  <2>6. ASSUME fg' # None PROVE Mine(fg)'
    <3>1. PICK q \in Runs : q = fg /\ Mine(q)
      BY <1>1, <1>2, <2>1, <2>6 DEF BootShape, AppType
    <3>2. Mine(q)' BY <1>4, <2>3, <3>1
    <3> QED BY <2>1, <3>1, <3>2 DEF Mine, Exists
  <2>7. boot'.todo \subseteq gref' BY <1>1, <2>1, <2>2 DEF BootShape
  <2> QED BY <2>2, <2>5, <2>6, <2>7 DEF BootShape
<1> QED BY <1>3, <1>8, <1>9, <1>10, <1>11, <1>12, BootSteps

--------------------------------------------------------------------------------
(* The application starts in its invariant.                                  *)
LEMMA AppStarts == AppInit => AInv
<1> SUFFICES ASSUME AppInit PROVE AInv OBVIOUS
<1>1. IInv BY InvariantStarts DEF AppInit
<1>2. Asleep \in Drives BY DEF Asleep, Drives, DrivePc
<1>3. AppType BY <1>2, EnvAssumption DEF AppInit, AppType, NoCtl, CtlPc
<1>4. Group \subseteq Runs /\ \A r \in Runs : ~Exists(r) /\ inv[r].pc = "off"
  BY EnvAssumption DEF AppInit, Init, Idle, Exists
<1>5. NoCtl.pc = "off" BY DEF NoCtl
<1>6. CtlShape /\ HoldShape /\ SessionShape
  BY <1>5 DEF AppInit, CtlShape, HoldShape, SessionShape, PrivateStage, GroupStage
<1>7. DriveShape /\ RefShape /\ BootShape
  BY <1>4, <1>5 DEF AppInit, DriveShape, RefShape, BootShape, Asleep, GroupStage
<1> QED BY <1>1, <1>3, <1>6, <1>7 DEF AInv, AppInv

(* Every step keeps it.                                                     *)
LEMMA AppKept == AInv /\ [AppNext]_all => AInv'
<1> SUFFICES ASSUME AInv, [AppNext]_all PROVE AInv' OBVIOUS
<1> QED
  BY Lasting, TypesKept, CtlKept, HoldKept, SessionKept, DriveKept, RefKept, BootKept
     DEF AInv, AppInv

(* Controls, session, drives, references and recovery fit the records in     *)
(* every state.                                                              *)
THEOREM AppInvariant == AppSpec => [](AInv /\ Available)
<1>1. AppInit => Available BY DEF AppInit, Init, Available
<1>2. AInv /\ Available /\ [AppNext]_all => Available'
  BY Lasting, Bookkeeping DEF Available, AInv
<1> QED BY <1>1, <1>2, AppStarts, AppKept, PTL DEF AppSpec

(* Every variable of the application keeps its type.                        *)
THEOREM AppTypes == AppSpec => []AppTypeOK
<1>1. AInv => AppTypeOK BY DEF AInv, AppInv, IInv, AppType, AppTypeOK, Drives, DrivePc
<1> QED BY <1>1, AppInvariant, PTL

(* Whatever member, drive or recovery works on a group run finds a durable   *)
(* reference for it, so that a crash at any moment leaves no work behind      *)
(* that recovery does not look for.                                          *)
THEOREM WorkIsReferenced == AppSpec => []ReferencedFirst
<1>1. AInv => ReferencedFirst BY DEF AInv, AppInv, RefShape, ReferencedFirst, SlotFree
<1> QED BY <1>1, AppInvariant, PTL

(* The private session lets go of a run only when the run is closed, although *)
(* the drive writes the session from a run that it read before.              *)
THEOREM SessionKeepsRun == AppSpec => ReleasedWhenClosed
<1>1. ASSUME AInv, [AppNext]_all, NEW p \in Private, fg = p, fg' # p
      PROVE Exists(p) /\ Terminal(run[p])
  <2>1. fg # None BY <1>1, EnvAssumption DEF Private
  <2> QED BY <1>1, <2>1, SessionSteps
<1>2. AInv /\ [AppNext]_all =>
        [\A p \in Private : (fg = p /\ fg' # p) => Exists(p) /\ Terminal(run[p])]_all
  BY <1>1
<1> QED BY <1>2, AppInvariant, PTL DEF AppSpec, ReleasedWhenClosed

(* When members are admitted after a restart, every live group run has its   *)
(* reference and no run of the session or of a group is on a barrier that     *)
(* the dead process left.                                                    *)
THEOREM AdmissionIsClean == AppSpec => CleanAdmission
<1>1. ASSUME AInv, [AppNext]_all, boot.pc # "up", boot'.pc = "up",
             NEW r \in Group \cup ({fg} \ {None}), Alive(r)
      PROVE /\ r \in Group => r \in gref
            /\ run[r].pend # None => run[r].writer = "mine"
  <2>1. AppType /\ BootShape BY <1>1 DEF AInv, AppInv
  <2>2. Admitted
    <3>1. ~AppCrash /\ ~BootNoSession /\ \A q \in Runs : ~BootSession(q) /\ ~BootReference(q)
      BY <1>1, <2>1
         DEF AppCrash, BootNoSession, BootSession, BootReference, BootStage, BootDone, AppType
    <3> QED BY <1>1, <3>1, BootSteps
  <2>3. boot.pc = "groups" /\ boot.todo = {} /\ Orphans = {} BY <2>2 DEF Admitted
  <2>4. r \in Group => r \in gref BY <1>1, <2>3 DEF Orphans
  <2>5. Mine(r) BY <1>1, <2>1, <2>3, <2>4 DEF BootShape
  <2> QED BY <1>1, <2>4, <2>5 DEF Mine, Alive
<1>2. AInv /\ [AppNext]_all =>
        [(boot.pc # "up" /\ boot'.pc = "up") =>
           \A r \in Group \cup ({fg} \ {None}) : Alive(r) =>
              /\ r \in Group => r \in gref
              /\ run[r].pend # None => run[r].writer = "mine"]_all
  BY <1>1
<1> QED BY <1>2, AppInvariant, PTL DEF AppSpec, CleanAdmission

--------------------------------------------------------------------------------
(* The promises of the engine, kept to the members that the application lets  *)
(* in, whatever its controls, drives and recovery do in between.             *)

(* Provider calls, trees and effects are as the engine promises.             *)
THEOREM EngineStatesHold == AppSpec => [](NoOverlap /\ TreeMatchesRecord /\ EffectHonest)
<1>1. AInv /\ Available => NoOverlap /\ TreeMatchesRecord /\ EffectHonest
  BY CallsAndTrees, EffectsAgree DEF AInv
<1> QED BY <1>1, AppInvariant, PTL

(* No control and no recovery adds a revision that was not proved.           *)
THEOREM CommitsStayProved == AppSpec => CommitIsProved
<1>1. AInv /\ [AppNext]_all =>
        [\A r \in Runs :
           (Len(hist') > Len(hist) /\ Last(hist').by = r) =>
              /\ run[r].pend = <<run[r].instr, Last(hist').snap>>
              /\ run[r].pend \in run[r].passed \cap run[r].approved \cap Proofs(r)
              /\ CurrentPlan(run[r])
              /\ run[r].base = Len(hist)]_hist
  BY Lasting, AddedIsProved DEF ProvedCommit, AInv
<1> QED BY <1>1, AppInvariant, PTL DEF AppSpec, CommitIsProved

(* No control and no recovery wakes a run that is over; what a late          *)
(* validator still adds to it is of the instruction and the diff it ended     *)
(* with.                                                                      *)
THEOREM OverStaysOver == AppSpec => TerminalIsFinal
<1>1. AInv /\ [AppNext]_all =>
        [\A r \in Runs :
           (Exists(r) /\ Terminal(run[r])) =>
              /\ run'[r].st = run[r].st /\ run'[r].diff = run[r].diff
              /\ copy'[r] \in {copy[r], None}
              /\ Len(hist') > Len(hist) => Last(hist').by # r
              /\ Proofs(r) \subseteq Proofs(r)'
              /\ Proofs(r)' \subseteq Proofs(r) \cup {<<run[r].instr, run[r].diff>>}]_vars
  BY Lasting, OverAddsNothing, OverRests DEF Rests, AInv
<1> QED BY <1>1, AppInvariant, PTL DEF AppSpec, TerminalIsFinal

================================================================================
